----------------------------- MODULE FileLock2 -----------------------------
(***************************************************************************)
(* fileio/filelock2.c under run-fcntltests.sh.  Child 1 holds a write lock *)
(* across checkpoint and restart, child 2 waits for it in F_SETLKW; after  *)
(* test-done child 1 verifies that it has the lock and releases it.        *)
(***************************************************************************)
EXTENDS FcntlScript, Sequences

Kids == {1, 2}
Signals == {"usr1", "chld"}

\* owner: of the record lock, 0 for nobody; pids: those of pid1, pid2 that
\* main() has assigned; ev: the counters of event_fd1, event_fd2; count: what
\* wait_for_events() has read; pend, hand: the parent's signals that are
\* pending, in a handler; int: the children with a SIGINT pending.
Fresh ==
  [main |-> "fork1", kid |-> [c \in Kids |-> "none"], owner |-> 0, pids |-> {},
   ev |-> <<0, 0>>, count |-> 0, pend |-> {}, hand |-> {}, int |-> {}, fail |-> FALSE]

Mains == {"fork1", "wait1", "fork2", "wait2", "ready", "collect", "clean", "reap",
          "usr1", "chld", "killed", "exit"}
KidPcs == {"none", "set", "notify1", "poll", "check", "test", "getlk", "unlock",
           "notify2", "pause", "dying", "quit", "gone"}

Progs ==
  [main : Mains, kid : [Kids -> KidPcs], owner : {0} \cup Kids, pids : SUBSET Kids,
   ev : (0 .. 2) \X (0 .. 2), count : 0 .. 2, pend : SUBSET Signals, hand : SUBSET Signals,
   int : SUBSET Kids, fail : BOOLEAN]

Release(c) == IF prog.owner = c THEN 0 ELSE prog.owner

\* Child c exits; SIGCHLD has its default action once kill_children() runs.
Gone(c) ==
  [prog EXCEPT !.kid[c] = "gone", !.int = @ \ {c}, !.owner = Release(c),
               !.pend = IF prog.main \in {"reap", "killed"} THEN @ ELSE @ \cup {"chld"}]

-----------------------------------------------------------------------------
(* do_child1(), do_child2() *)

(* set_lock(F_WRLCK), which waits for the lock. *)
SetLock(c) ==
  /\ prog.kid[c] = "set"
  /\ prog.owner \in {0, c}
  /\ prog' = [prog EXCEPT !.owner = c, !.kid[c] = IF c = 1 THEN "notify1" ELSE "check"]

SetLockError(c) ==
  /\ faults
  /\ prog.kid[c] = "set"
  /\ prog' = [prog EXCEPT !.kid[c] = "dying", !.pend = @ \cup {"usr1"}]

(* Child 2 is about to wait for the lock. *)
Notify1(c) ==
  /\ prog.kid[c] = "notify1"
  /\ prog' = [prog EXCEPT !.kid[c] = IF c = 1 THEN "poll" ELSE "set", !.ev[1] = @ + 1]

\* Mutant: child 1 goes on as soon as the checkpoint is done.
SeeCkptDone ==
  /\ prog.kid[1] = "poll"
  /\ ckptDone
  /\ prog' = [prog EXCEPT !.kid[1] = "test"]

SeeTestDone ==
  /\ prog.kid[1] = "poll"
  /\ testDone
  /\ prog' = [prog EXCEPT !.kid[1] = "test"]

(* "We must got here after checkpoint/restart." *)
TestCkptDone ==
  /\ prog.kid[2] = "check"
  /\ prog' = [prog EXCEPT !.kid[2] = IF ckptDone THEN "test" ELSE "quit"]

(* test_lock(): F_SETLK takes a free lock. *)
TestLock(c) ==
  /\ prog.kid[c] = "test"
  /\ prog' = IF prog.owner \in {0, c}
             THEN [prog EXCEPT !.owner = c, !.kid[c] = IF c = 1 THEN "unlock" ELSE "notify2"]
             ELSE [prog EXCEPT !.kid[c] = "getlk"]

(* test_lock(): F_GETLK; FAIL, or ERROR when the lock is free by now.      *)
GetLock(c) ==
  /\ prog.kid[c] = "getlk"
  /\ prog' = [prog EXCEPT !.kid[c] = "dying", !.pend = @ \cup {"usr1"},
                          !.fail = @ \/ prog.owner \notin {0, c}]

(* set_lock(F_UNLCK) *)
Unlock ==
  /\ prog.kid[1] = "unlock"
  /\ prog' = [prog EXCEPT !.owner = Release(1), !.kid[1] = "notify2"]

(* exit_cleanly() *)
Notify2(c) ==
  /\ prog.kid[c] = "notify2"
  /\ prog' = [prog EXCEPT !.kid[c] = "pause", !.ev[2] = @ + 1]

ExitChild(c) ==
  /\ prog.kid[c] \notin {"none", "gone"}
  /\ prog.kid[c] \in {"dying", "quit"} \/ c \in prog.int
  /\ prog' = Gone(c)

KidStep(c) ==
  /\ \/ SetLock(c) \/ SetLockError(c) \/ Notify1(c) \/ TestLock(c) \/ GetLock(c)
     \/ Notify2(c) \/ ExitChild(c)
     \/ c = 1 /\ (SeeTestDone \/ Unlock)
     \/ c = 2 /\ TestCkptDone
  /\ UNCHANGED ready

-----------------------------------------------------------------------------
(* main() *)

(* create_child(): fork(), then wait_for_events(event_fd1, 1); its caller  *)
(* assigns the pid.                                                        *)
Fork(c, pc, next) ==
  /\ prog.main = pc
  /\ prog' = [prog EXCEPT !.main = next, !.kid[c] = IF c = 1 THEN "set" ELSE "notify1"]

WaitEvent1(c, pc, next) ==
  /\ prog.main = pc
  /\ prog.ev[1] > 0
  /\ prog' = [prog EXCEPT !.main = next, !.ev[1] = 0, !.pids = @ \cup {c}]

(* sleep(10) and set_checkpoint_ready() *)
SetReady ==
  /\ prog.main = "ready"
  /\ ready' = TRUE
  /\ prog' = [prog EXCEPT !.main = "collect"]

(* wait_for_events(event_fd2, 2) *)
WaitEvents2 ==
  /\ prog.main = "collect"
  /\ prog.ev[2] > 0
  /\ LET count == prog.count + prog.ev[2]
     IN  prog' = [prog EXCEPT !.ev[2] = 0, !.count = count,
                              !.main = IF count < 2 THEN "collect" ELSE "clean"]

(* kill_children(SIGINT): SIGCHLD to its default, signal the children ...  *)
KillChildren ==
  /\ prog.main = "clean"
  /\ prog' = [prog EXCEPT !.main = "reap", !.pend = @ \ {"chld"},
                          !.int = {c \in prog.pids : prog.kid[c] # "gone"}]

(* ... do_wait(2), do_exit(0). *)
Reap ==
  /\ prog.main = "reap"
  /\ \A c \in Kids : prog.kid[c] \in {"none", "gone"}
  /\ prog' = [prog EXCEPT !.main = "exit"]

(* child_handler() is entered. *)
Handle(sig) ==
  /\ sig \in prog.pend \ prog.hand
  /\ prog.main \notin {"killed", "exit"}
  /\ prog' = [prog EXCEPT !.main = sig, !.pend = @ \ {sig}, !.hand = @ \cup {sig},
                          !.fail = TRUE]

\* Mutant: do_wait() before the children are killed.
ReapFirst ==
  /\ prog.main \in Signals
  /\ \A c \in Kids : prog.kid[c] \in {"none", "gone"}
  /\ prog' = [prog EXCEPT !.main = "killed", !.pend = @ \ {"chld"}]

(* kill_children(SIGKILL) in child_handler() ...                           *)
KillInHandler ==
  /\ prog.main \in Signals
  /\ LET dead == {c \in prog.pids : prog.kid[c] # "none"}
     IN  prog' = [prog EXCEPT !.main = "killed", !.pend = @ \ {"chld"},
                              !.kid = [c \in Kids |-> IF c \in dead THEN "gone" ELSE @[c]],
                              !.owner = IF @ \in dead THEN 0 ELSE @]

(* ... whose do_wait() also waits for a child without an assigned pid.     *)
ReapInHandler ==
  /\ prog.main = "killed"
  /\ \A c \in Kids : prog.kid[c] \in {"none", "gone"}
  /\ prog' = [prog EXCEPT !.main = "exit"]

MainStep ==
  \/ /\ \/ Fork(1, "fork1", "wait1") \/ WaitEvent1(1, "wait1", "fork2")
        \/ Fork(2, "fork2", "wait2") \/ WaitEvent1(2, "wait2", "ready")
        \/ WaitEvents2 \/ KillChildren \/ Reap \/ KillInHandler \/ ReapInHandler
        \/ \E sig \in Signals : Handle(sig)
     /\ UNCHANGED ready
  \/ SetReady

-----------------------------------------------------------------------------
Restored ==
  IF image = None THEN {}
  ELSE {image} \cup (IF faults THEN {[image EXCEPT !.owner = 0]} ELSE {})

-----------------------------------------------------------------------------
(* "P1 confirms that it still has the lock and then unlocks the range. P2  *)
(* must return succesfully from the fcntl() and must acquire the lock":    *)
(* child 2 has the lock only after child 1 has tested and released it,     *)
(* wherever in the window before F_SETLKW the image caught child 2.        *)
HandedOver ==
  prog # None /\ ~faults /\ prog.kid[2] \in {"check", "test", "getlk", "notify2"} =>
     /\ prog.owner = 2
     /\ prog.kid[1] \in {"notify2", "pause"}
     /\ testDone
=============================================================================
