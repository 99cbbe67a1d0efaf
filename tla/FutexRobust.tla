----------------------------- MODULE FutexRobust -----------------------------
(***************************************************************************)
(* futex/robust.c: the parent has a futex that N children contend for; it  *)
(* wakes one, and each child that gets the futex exits with it, so that    *)
(* the kernel wakes the next one from its robust list.  A child first      *)
(* waits after the checkpoint, so no freeze interrupts its wait.           *)
(***************************************************************************)
EXTENDS FutexRun

Kids == 1 .. N
Parent == N + 1
Word(tid, w, died) == [tid |-> tid, waiters |-> w, died |-> died]

\* word: test_futex->tid; old, val: a child's oldval and val; rlist: children
\* whose robust list the kernel knows; held: those with the futex on it; pipe:
\* the status bytes in children_ready; pass, fail: the parent's (a child's only
\* make its exit status, which the parent does not look at).
Fresh ==
  [main |-> "fork", i |-> 0, kid |-> [k \in Kids |-> "none"],
   word |-> Word(Parent, FALSE, FALSE),
   old |-> [k \in Kids |-> Word(0, FALSE, FALSE)], val |-> [k \in Kids |-> Word(0, FALSE, FALSE)],
   rlist |-> {}, held |-> {}, pipe |-> <<>>, pass |-> 1, fail |-> 0, status |-> 1, flog |-> FALSE]

Words == [tid : 0 .. Parent, waiters : BOOLEAN, died : BOOLEAN]

ProgOK(p) ==
  /\ p.main \in {"fork", "read", "release", "wake", "reap", "exit"}
  /\ p.i \in 0 .. N /\ p.pass \in 1 .. N /\ p.fail \in 0 .. N /\ p.status \in {0, 1}
  /\ p.kid \in [Kids -> {"none", "list", "poll", "old", "xchg",
                         "or", "wait", "asleep", "eagain", "read", "set", "exiting", "gone"}]
  /\ p.word \in Words /\ p.old \in [Kids -> Words] /\ p.val \in [Kids -> Words]
  /\ p.rlist \subseteq Kids /\ p.held \subseteq Kids /\ Len(p.pipe) \in 0 .. N
  /\ p.flog \in BOOLEAN

KidFails(k) == [prog EXCEPT !.kid[k] = "exiting", !.flog = TRUE]

-----------------------------------------------------------------------------
(* kid(): set_robust_list(), and every child announces checkpoint-ready.   *)
SetReady(k) ==
  /\ prog.kid[k] = "list"
  /\ ready' = TRUE
  /\ prog' = [prog EXCEPT !.kid[k] = "poll", !.rlist = @ \cup {k}]

(* After the checkpoint, check_rlist() decides on the byte sent.           *)
SendStatus(k) ==
  /\ prog.kid[k] = "poll"
  /\ ckptDone
  /\ prog' = IF k \in prog.rlist
             THEN [prog EXCEPT !.kid[k] = "old", !.pipe = Append(@, "ready")]
             ELSE [KidFails(k) EXCEPT !.pipe = Append(@, "error")]

(* acquire_rfutex(): oldval, *)
ReadOld(k) ==
  /\ prog.kid[k] = "old"
  /\ prog' = [prog EXCEPT !.kid[k] = "xchg", !.old[k] = prog.word]

(* cmpxchg(0, tid); to find the futex free is a FAIL, but the futex is     *)
(* taken,                                                                  *)
CmpXchg(k) ==
  /\ prog.kid[k] = "xchg"
  /\ prog' = IF prog.word = Word(0, FALSE, FALSE)
             THEN [prog EXCEPT !.kid[k] = "read", !.word = Word(k, FALSE, FALSE),
                               !.flog = TRUE]
             ELSE [prog EXCEPT !.kid[k] = "or"]

(* set FUTEX_WAITERS,                                                      *)
OrWaiters(k) ==
  /\ prog.kid[k] = "or"
  /\ prog' = [prog EXCEPT !.kid[k] = "wait", !.word.waiters = TRUE,
                          !.val[k] = [prog.word EXCEPT !.waiters = TRUE]]

(* and wait, if the word still has that value.                             *)
FutexWait(k) ==
  /\ prog.kid[k] = "wait"
  /\ prog' = [prog EXCEPT !.kid[k] = IF prog.word = prog.val[k] THEN "asleep" ELSE "eagain"]

(* EAGAIN: a value that is not oldval either is TBROK, and no failure.     *)
Eagain(k) ==
  /\ prog.kid[k] = "eagain"
  /\ IF prog.word # prog.old[k]
     THEN prog' = [prog EXCEPT !.kid[k] = "exiting"] /\ tbrok' = TRUE
     ELSE prog' = [prog EXCEPT !.kid[k] = "xchg"] /\ UNCHANGED tbrok

(* ETIMEDOUT after five seconds *)
TimedOut(k) ==
  /\ prog.kid[k] = "asleep"
  /\ prog' = KidFails(k)

(* "holding futex": read the word, *)
ReadWord(k) ==
  /\ prog.kid[k] = "read"
  /\ prog' = [prog EXCEPT !.kid[k] = "set", !.val[k] = prog.word]

(* and set it; add_rfutex().                                               *)
SetWord(k) ==
  /\ prog.kid[k] = "set"
  /\ prog' = [prog EXCEPT !.kid[k] = "exiting", !.held = @ \cup {k},
                          !.word = Word(k, prog.val[k].waiters, FALSE)]

\* One sleeper, if there is any, is woken in p.
WakeOne(p, q) ==
  LET asleep == {k \in Kids : p.kid[k] = "asleep"}
  IN  IF asleep = {} THEN q = p ELSE \E k \in asleep : q = [p EXCEPT !.kid[k] = "read"]

(* The exit, and the kernel's walk of the robust list. *)
ExitKid(k) ==
  /\ prog.kid[k] = "exiting"
  /\ LET gone == [prog EXCEPT !.kid[k] = "gone", !.held = @ \ {k}, !.rlist = @ \ {k},
                              !.old[k] = Word(0, FALSE, FALSE), !.val[k] = Word(0, FALSE, FALSE)]
     IN  IF k \in prog.held \cap prog.rlist /\ prog.word.tid = k
         THEN LET died == [gone EXCEPT !.word = Word(0, prog.word.waiters, TRUE)]
              IN  IF prog.word.waiters THEN WakeOne(died, prog') ELSE prog' = died
         ELSE prog' = gone

KidStep(k) ==
  \/ /\ \/ SendStatus(k) \/ ReadOld(k)
        \/ CmpXchg(k) \/ OrWaiters(k) \/ FutexWait(k) \/ TimedOut(k) \/ ReadWord(k)
        \/ SetWord(k) \/ ExitKid(k)
     /\ UNCHANGED <<ready, tbrok>>
  \/ SetReady(k) /\ UNCHANGED tbrok
  \/ Eagain(k) /\ UNCHANGED ready

-----------------------------------------------------------------------------
(* main() *)
ForkKid ==
  /\ prog.main = "fork"
  /\ prog' = IF prog.i < N THEN [prog EXCEPT !.i = @ + 1, !.kid[prog.i + 1] = "list"]
             ELSE [prog EXCEPT !.main = "read"]

(* The bytes are read while pass + fail < N; check_rlist(0) has already    *)
(* counted a pass.                                                         *)
ReadStatus ==
  /\ prog.main = "read"
  /\ prog.pipe # <<>>
  /\ LET ok == Head(prog.pipe) = "ready"
     IN  prog' = [prog EXCEPT !.pipe = Tail(@), !.pass = @ + (IF ok THEN 1 ELSE 0),
                              !.fail = @ + (IF ok THEN 0 ELSE 1),
                              !.main = IF prog.pass + prog.fail + 1 < N THEN "read" ELSE "release"]

(* release_rfutex(): cmpxchg(tid, 0), *)
Release ==
  /\ prog.main = "release"
  /\ prog' = IF prog.word = Word(Parent, FALSE, FALSE)
             THEN [prog EXCEPT !.main = "reap", !.word = Word(0, FALSE, FALSE),
                               !.fail = @ + 1, !.flog = TRUE]
             ELSE [prog EXCEPT !.main = "wake"]

\* Mutant: all the sleepers are woken.
WakeEvery ==
  /\ prog.main = "wake"
  /\ prog' = [prog EXCEPT !.main = "reap",
                          !.kid = [k \in Kids |-> IF @[k] = "asleep" THEN "read" ELSE @[k]]]

(* FUTEX_WAKE of 1, which must wake one. *)
Wake ==
  /\ prog.main = "wake"
  /\ IF \E k \in Kids : prog.kid[k] = "asleep"
     THEN WakeOne([prog EXCEPT !.main = "reap"], prog')
     ELSE prog' = [prog EXCEPT !.main = "reap", !.fail = @ + 1, !.flog = TRUE]

(* do_wait(N), and the parent's own verdict. *)
Reap ==
  /\ prog.main = "reap"
  /\ \A k \in Kids : prog.kid[k] = "gone"
  /\ prog' = [prog EXCEPT !.main = "exit", !.status = IF prog.fail = 0 THEN 0 ELSE 1]

MainStep == (ForkKid \/ ReadStatus \/ Release \/ Wake \/ Reap) /\ UNCHANGED <<ready, tbrok>>

Restored ==
  IF image = None THEN {} ELSE {image} \cup {[image EXCEPT !.rlist = @ \ {k}] : k \in Kids}

-----------------------------------------------------------------------------
(* At most one child is past "holding futex" and has not given the word    *)
(* its tid and put the futex on its list (acquire_rfutex): however the     *)
(* wakes, timeouts and late waits interleave, neither the parent's wake    *)
(* nor the kernel's walk of a robust list lets two children in.            *)
OneHolder ==
  \A j, k \in Kids : prog.kid[j] \in {"read", "set"} /\ prog.kid[k] \in {"read", "set"} => j = k
=============================================================================
