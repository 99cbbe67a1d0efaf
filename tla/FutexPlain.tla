----------------------------- MODULE FutexPlain -----------------------------
(***************************************************************************)
(* futex/plain.c: N children wait on a futex; after the checkpoint the     *)
(* parent sets it and wakes them all at once.                              *)
(***************************************************************************)
EXTENDS FutexRun

Kids == 1 .. N

\* i: children cloned; word: test_futex; past: dumb_barrier[0].
Fresh ==
  [main |-> "clone", i |-> 0, kid |-> [k \in Kids |-> "none"], word |-> -1, past |-> 0,
   status |-> 1]

Progs ==
  [main : {"clone", "barrier", "poll", "set", "wake", "reap", "exit"}, i : 0 .. N,
   kid : [Kids -> {"none", "inc", "wait", "asleep", "gone"}], word : {-1, 1},
   past : 0 .. N, status : {0, 1}]

(* kid() *)
Past1(k) ==
  /\ prog.kid[k] = "inc"
  /\ prog' = [prog EXCEPT !.kid[k] = "wait", !.past = @ + 1]

(* FUTEX_WAIT for -1; EAGAIN with test_futex == 1 is the end of it.        *)
FutexWait(k) ==
  /\ prog.kid[k] = "wait"
  /\ prog' = [prog EXCEPT !.kid[k] = IF prog.word = -1 THEN "asleep" ELSE "gone"]

(* ERESTART or EINTR of a waiter that the freezer has signalled: goto      *)
(* again.                                                                  *)
Interrupted(k) ==
  /\ prog.kid[k] = "asleep"
  /\ prog' = [prog EXCEPT !.kid[k] = "wait"]

(* main() *)
CloneKid ==
  /\ prog.main = "clone"
  /\ prog' = IF prog.i < N THEN [prog EXCEPT !.i = @ + 1, !.kid[prog.i + 1] = "inc"]
             ELSE [prog EXCEPT !.main = "barrier"]

SetReady ==
  /\ prog.main = "barrier"
  /\ prog.past = N
  /\ ready' = TRUE
  /\ prog' = [prog EXCEPT !.main = "poll"]

SeeCkptDone ==
  /\ prog.main = "poll"
  /\ ckptDone
  /\ prog' = [prog EXCEPT !.main = "set"]

\* Mutant: the futex is not set before the wake.
SetNothing ==
  /\ prog.main = "set"
  /\ prog' = [prog EXCEPT !.main = "wake"]

SetFutex ==
  /\ prog.main = "set"
  /\ prog' = [prog EXCEPT !.main = "wake", !.word = 1]

(* FUTEX_WAKE of N *)
WakeAll ==
  /\ prog.main = "wake"
  /\ prog' = [prog EXCEPT !.main = "reap", !.status = 0,
                          !.kid = [k \in Kids |-> IF @[k] = "asleep" THEN "gone" ELSE @[k]]]

Reap ==
  /\ prog.main = "reap"
  /\ \A k \in Kids : prog.kid[k] = "gone"
  /\ prog' = [prog EXCEPT !.main = "exit"]

KidStep(k) == (Past1(k) \/ FutexWait(k)) /\ UNCHANGED <<ready, tbrok>>
Signal(k) == Interrupted(k) /\ UNCHANGED <<ready, tbrok>>
MainStep ==
  \/ (CloneKid \/ SeeCkptDone \/ SetFutex \/ WakeAll \/ Reap) /\ UNCHANGED <<ready, tbrok>>
  \/ SetReady /\ UNCHANGED tbrok
=============================================================================
