----------------------------- MODULE FileLease1 -----------------------------
(***************************************************************************)
(* fileio/filelease1.c under run-fcntltests.sh.  Children 0 and 1 take a   *)
(* read lease on one file, child 2 a write lease on another; after the     *)
(* restart each verifies its lease and exits.                              *)
(***************************************************************************)
EXTENDS FcntlScript

Kids == 0 .. 2
Signals == {"usr1", "chld"}

\* i: main()'s loop counter; pids: the children whose test_data[].pid is
\* assigned; leases: the children whose lease is set.
Fresh ==
  [main |-> "fork", i |-> 0, kid |-> [c \in Kids |-> "none"], pids |-> {}, leases |-> {},
   ev |-> 0, pend |-> {}, hand |-> {}, fail |-> FALSE]

Progs ==
  [main : {"fork", "assign", "events", "ready", "reap", "usr1", "chld", "killed", "exit"},
   i : 0 .. 3, kid : [Kids -> {"none", "set", "notify", "poll", "test", "dying", "gone"}],
   pids : SUBSET Kids, leases : SUBSET Kids, ev : 0 .. 3,
   pend : SUBSET Signals, hand : SUBSET Signals, fail : BOOLEAN]

-----------------------------------------------------------------------------
(* do_child() *)
SetLease(c) ==
  /\ prog.kid[c] = "set"
  /\ prog' = [prog EXCEPT !.kid[c] = "notify", !.leases = @ \cup {c}]

(* An error; the model has one in a run.                                   *)
SetLeaseError(c) ==
  /\ faults
  /\ prog.kid[c] = "set"
  /\ \A d \in Kids : prog.kid[d] \notin {"dying", "gone"}
  /\ prog' = [prog EXCEPT !.kid[c] = "dying", !.pend = @ \cup {"usr1"}]

Notify(c) ==
  /\ prog.kid[c] = "notify"
  /\ prog' = [prog EXCEPT !.kid[c] = "poll", !.ev = @ + 1]

SeeTestDone(c) ==
  /\ prog.kid[c] = "poll"
  /\ testDone
  /\ prog' = [prog EXCEPT !.kid[c] = "test"]

(* test_lease() *)
TestLease(c) ==
  /\ prog.kid[c] = "test"
  /\ prog' = [prog EXCEPT !.kid[c] = "dying", !.fail = @ \/ c \notin prog.leases]

ExitChild(c) ==
  /\ prog.kid[c] = "dying"
  /\ prog' = [prog EXCEPT !.kid[c] = "gone", !.pend = @ \cup {"chld"}]

KidStep(c) ==
  /\ \/ SetLease(c) \/ SetLeaseError(c) \/ Notify(c) \/ SeeTestDone(c) \/ TestLease(c)
     \/ ExitChild(c)
  /\ UNCHANGED ready

-----------------------------------------------------------------------------
(* main() *)
Fork ==
  /\ prog.main = "fork"
  /\ prog' = IF prog.i < 3 THEN [prog EXCEPT !.main = "assign", !.kid[prog.i] = "set"]
             ELSE [prog EXCEPT !.main = "events"]

AssignPid ==
  /\ prog.main = "assign"
  /\ prog' = [prog EXCEPT !.main = "fork", !.pids = @ \cup {prog.i}, !.i = @ + 1]

(* wait_for_events(event_fd1, 1) *)
WaitEvents ==
  /\ prog.main = "events"
  /\ prog.ev > 0
  /\ prog' = [prog EXCEPT !.main = "ready", !.ev = 0]

SetReady ==
  /\ prog.main = "ready"
  /\ ready' = TRUE
  /\ prog' = [prog EXCEPT !.main = "reap"]

(* do_wait(3), do_exit(0) *)
Reap ==
  /\ prog.main = "reap"
  /\ \A c \in Kids : prog.kid[c] = "gone"
  /\ prog' = [prog EXCEPT !.main = "exit"]

(* child_handler(): entered from main() or on top of the other signal,     *)
Handle(sig) ==
  /\ sig \in prog.pend \ prog.hand
  /\ prog.main # "exit"
  /\ prog' = [prog EXCEPT !.main = sig, !.pend = @ \ {sig}, !.hand = @ \cup {sig}]

(* "Kill (remaining) children, ...                                         *)
KillInHandler ==
  /\ prog.main \in Signals
  /\ prog' = [prog EXCEPT !.main = "killed", !.fail = TRUE,
                          !.kid = [c \in Kids |-> IF c \in prog.pids THEN "gone" ELSE @[c]]]

(* ... reap children and exit." *)
ReapInHandler ==
  /\ prog.main = "killed"
  /\ \A c \in Kids : prog.kid[c] \in {"none", "gone"}
  /\ prog' = [prog EXCEPT !.main = "exit"]

MainStep ==
  \/ /\ \/ Fork \/ AssignPid \/ WaitEvents \/ Reap \/ KillInHandler \/ ReapInHandler
        \/ \E sig \in Signals : Handle(sig)
     /\ UNCHANGED ready
  \/ SetReady

-----------------------------------------------------------------------------
Restored == {image} \ {None}
=============================================================================
