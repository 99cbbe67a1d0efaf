----------------------------- MODULE FileLease2 -----------------------------
(***************************************************************************)
(* fileio/filelease2.c under run-fcntltests.sh.  Child 1 has a write lease *)
(* on a file, child 2 breaks it by opening the file; the checkpoint is     *)
(* taken from child 1's SIGIO handler, and the lease is dropped after the  *)
(* restart.                                                                *)
(***************************************************************************)
EXTENDS FcntlScript, FiniteSets

Kids == {1, 2}

\* kid: "ok" and "bad" are zombies with status 0 and another one; lease:
\* "breaking" while child 2 is in open(); sigio: SIGIO pends for child 1;
\* written: the file has test_data; num: num_children.
Fresh ==
  [main |-> "fork1", kid |-> [c \in Kids |-> "none"], pids |-> {}, num |-> 0, ev |-> 0,
   lease |-> "none", sigio |-> FALSE, written |-> FALSE, usr1 |-> FALSE, chld |-> FALSE,
   fail |-> FALSE]

Progs ==
  [main : {"fork1", "count1", "wait1", "fork2", "count2", "wait2", "pause", "usr1", "failed",
           "exit"},
   kid : [Kids -> {"none", "set", "notify", "loop", "write", "ready", "poll", "unlock",
                   "open", "blocked", "check", "read", "ok", "bad", "gone"}],
   pids : SUBSET Kids, num : 0 .. 2, ev : 0 .. 1,
   lease : {"none", "held", "breaking"}, sigio : BOOLEAN, written : BOOLEAN,
   usr1 : BOOLEAN, chld : BOOLEAN, fail : BOOLEAN]

\* Child c exits; in set_lease() it sends SIGUSR1 first.
Exits(c, status) == [prog EXCEPT !.kid[c] = status, !.chld = TRUE]
LeaseFails(c) == [Exits(c, "bad") EXCEPT !.usr1 = TRUE]

-----------------------------------------------------------------------------
(* do_child1() and its iohandler() *)
SetLease ==
  /\ prog.kid[1] = "set"
  /\ \/ prog' = [prog EXCEPT !.kid[1] = "notify", !.lease = "held"]
     \/ faults /\ prog' = LeaseFails(1)

Notify(c, pc, next) ==
  /\ prog.kid[c] = pc
  /\ prog' = [prog EXCEPT !.kid[c] = next, !.ev = @ + 1]

(* SIGIO interrupts "while(!got_sigio) sleep(1)". *)
TakeSigio ==
  /\ prog.kid[1] = "loop"
  /\ prog.sigio
  /\ prog' = [prog EXCEPT !.kid[1] = "write", !.sigio = FALSE]

WriteData ==
  /\ prog.kid[1] = "write"
  /\ prog' = [prog EXCEPT !.kid[1] = "ready", !.written = TRUE]

SetReady ==
  /\ prog.kid[1] = "ready"
  /\ ready' = TRUE
  /\ prog' = [prog EXCEPT !.kid[1] = "poll"]

SeeTestDone ==
  /\ prog.kid[1] = "poll"
  /\ testDone
  /\ prog' = [prog EXCEPT !.kid[1] = "unlock"]

(* set_lease(F_UNLCK), then do_exit(0).  test_lease() before it is         *)
(* commented out, and without a lease F_UNLCK is an error in some kernels  *)
(* and no error in others.                                                 *)
Unlock ==
  /\ prog.kid[1] = "unlock"
  /\ \/ prog' = [Exits(1, "ok") EXCEPT !.lease = "none"]
     \/ prog.lease = "none" /\ prog' = LeaseFails(1)

(* do_child2() *)

(* open() of a leased file: SIGIO to the holder, then wait.                *)
Open ==
  /\ prog.kid[2] = "open"
  /\ prog' = IF prog.lease = "none" THEN [prog EXCEPT !.kid[2] = "check"]
             ELSE [prog EXCEPT !.kid[2] = "blocked", !.lease = "breaking", !.sigio = TRUE]

OpenReturns ==
  /\ prog.kid[2] = "blocked"
  /\ prog.lease = "none"
  /\ prog' = [prog EXCEPT !.kid[2] = "check"]

(* lease-break-time is over. *)
Revoke ==
  /\ faults
  /\ prog.lease = "breaking"
  /\ prog' = [prog EXCEPT !.lease = "none"]

TestCkptDone ==
  /\ prog.kid[2] = "check"
  /\ prog' = IF ckptDone
             THEN [prog EXCEPT !.kid[2] = "read"]
             ELSE Exits(2, "bad")

ReadData ==
  /\ prog.kid[2] = "read"
  /\ prog' = IF prog.written THEN Exits(2, "ok")
             ELSE [Exits(2, "bad") EXCEPT !.fail = TRUE]

KidStep(c) ==
  \/ /\ \/ c = 1 /\ (SetLease \/ Notify(1, "notify", "loop") \/ TakeSigio \/ WriteData
                     \/ SeeTestDone \/ Unlock)
        \/ c = 2 /\ (Notify(2, "notify", "open") \/ Open \/ OpenReturns \/ TestCkptDone
                     \/ ReadData)
     /\ UNCHANGED ready
  \/ c = 1 /\ SetReady

-----------------------------------------------------------------------------
(* main() *)

(* create_child(): fork(); the child runs before num_children counts it.   *)
Fork(c, pc, next) ==
  /\ prog.main = pc
  /\ prog' = [prog EXCEPT !.main = next, !.kid[c] = IF c = 1 THEN "set" ELSE "notify"]

CountChild(pc, next) ==
  /\ prog.main = pc
  /\ prog' = [prog EXCEPT !.main = next, !.num = @ + 1]

(* wait_for_events(); the caller assigns the pid. *)
WaitEvent(c, pc, next) ==
  /\ prog.main = pc
  /\ prog.ev > 0
  /\ prog' = [prog EXCEPT !.main = next, !.ev = 0, !.pids = @ \cup {c}]

Zombies(status) == {c \in Kids : prog.kid[c] = status}

\* What child_handler() does when waitpid() has returned the children in ok,
\* each with status 0.
Reaped(ok) ==
  LET left == prog.num - Cardinality(ok)
  IN  [prog EXCEPT !.chld = FALSE, !.num = left,
                   !.kid = [c \in Kids |-> IF c \in ok THEN "gone" ELSE @[c]],
                   !.main = CASE left = 0 -> "exit"
                              [] left > 0 /\ Zombies("bad") # {} -> "failed"
                              [] OTHER -> @]

\* Mutant: one waitpid() for each SIGCHLD.
SigchldReapsOne ==
  /\ prog.chld
  /\ prog.main \notin {"failed", "exit"}
  /\ \E ok \in SUBSET Zombies("ok") :
        /\ Cardinality(ok) <= 1 /\ Cardinality(ok) <= prog.num
        /\ ok = {} => prog.num = 0 \/ Zombies("ok") = {} \/ Zombies("bad") # {}
        /\ prog' = Reaped(ok)

(* child_handler(SIGCHLD): waitpid() in any order while num_children is    *)
(* not 0, until nobody is left to reap or one has another status; exit     *)
(* with 0 when num_children is 0.  The handler of SIGUSR1 does not block   *)
(* SIGCHLD.                                                                *)
Sigchld ==
  /\ prog.chld
  /\ prog.main \notin {"failed", "exit"}
  /\ \E ok \in SUBSET Zombies("ok") :
        /\ Cardinality(ok) <= prog.num
        /\ Cardinality(ok) < prog.num /\ Zombies("bad") = {} => ok = Zombies("ok")
        /\ prog' = Reaped(ok)

(* child_handler(SIGUSR1) *)
Sigusr1 ==
  /\ prog.usr1
  /\ prog.main \notin {"usr1", "failed", "exit"}
  /\ prog' = [prog EXCEPT !.main = "usr1", !.usr1 = FALSE]

(* kill_children(SIGKILL), whose do_wait() includes a child without an     *)
(* assigned pid; "Test FAILED".                                            *)
Failed ==
  /\ prog.main \in {"usr1", "failed"}
  /\ \A c \in Kids \ prog.pids : prog.kid[c] \in {"none", "ok", "bad", "gone"}
  /\ prog' = [prog EXCEPT !.main = "exit", !.fail = TRUE, !.lease = "none",
                          !.kid = [c \in Kids |-> "gone"]]

MainStep ==
  /\ \/ Fork(1, "fork1", "count1") \/ CountChild("count1", "wait1")
     \/ WaitEvent(1, "wait1", "fork2")
     \/ Fork(2, "fork2", "count2") \/ CountChild("count2", "wait2")
     \/ WaitEvent(2, "wait2", "pause")
     \/ Sigchld \/ Sigusr1 \/ Failed
  /\ UNCHANGED ready

-----------------------------------------------------------------------------
Restored ==
  IF image = None THEN {}
  ELSE {image} \cup (IF faults THEN {[image EXCEPT !.lease = "none"]} ELSE {})

-----------------------------------------------------------------------------
(* "Initiate a checkpoint before the downgrade is complete": every image   *)
(* has child 2 waiting for a lease that is being broken, and the data that *)
(* child 2 will compare written.                                           *)
ImageMidBreak ==
  image # None /\ ~faults =>
     image.lease = "breaking" /\ image.kid[2] = "blocked" /\ image.written

\* A child has exited with a failure and both are in num_children.
FailureCounted ==
  prog.main \in {"wait2", "pause"} /\ \E c \in Kids : prog.kid[c] = "bad"
=============================================================================
