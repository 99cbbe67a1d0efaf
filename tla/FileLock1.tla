----------------------------- MODULE FileLock1 -----------------------------
(***************************************************************************)
(* fileio/filelock1.c under run-fcntltests.sh.  Two children take the      *)
(* byte-range locks of locks_list; after the restart each of them tests    *)
(* every lock of the list with F_SETLK, and keeps its own until its parent *)
(* knows that both have tested.                                            *)
(***************************************************************************)
EXTENDS FcntlScript, Sequences

Kids == {0, 1}
Lock(child, type, start, len) == [child |-> child, type |-> type, start |-> start, len |-> len]

locks_list ==
  << Lock(0, "F_WRLCK", 0, 17),  Lock(1, "F_WRLCK", 18, 16), Lock(0, "F_WRLCK", 35, 27),
     Lock(1, "F_WRLCK", 63, 17), Lock(0, "F_RDLCK", 81, 25), Lock(1, "F_RDLCK", 81, 25) >>

num_locks == Len(locks_list)
Indexes == 1 .. num_locks
OwnLocks(c) == {<<c, i>> : i \in {j \in Indexes : locks_list[j].child = c}}

\* i: the child's loop counter; ev: the counters of event_fd1, event_fd2;
\* count: what wait_for_events() has read; pend, hand: the parent's signals
\* that are pending, in a handler; int: the children with a SIGINT pending;
\* locks: the kernel's <<owner, index>>; lost: the restart has lost one.
Fresh ==
  [main |-> "fork0", kid |-> [c \in Kids |-> "none"], i |-> [c \in Kids |-> 1],
   ev |-> <<0, 0>>, count |-> 0, pend |-> {}, hand |-> {}, int |-> {},
   locks |-> {}, lost |-> FALSE, fail |-> FALSE]

Mains == {"fork0", "wait0", "fork1", "wait1", "ready", "collect", "ignore", "int0",
          "int1", "reap", "usr1", "chld", "exit"}
KidPcs == {"none", "set", "notify1", "poll", "test", "getlk", "notify2", "pause",
           "dying", "gone"}
Signals == {"usr1", "chld"}

Progs ==
  [main : Mains, kid : [Kids -> KidPcs], i : [Kids -> 1 .. num_locks + 1],
   ev : (0 .. 2) \X (0 .. 2), count : 0 .. 2, pend : SUBSET Signals, hand : SUBSET Signals,
   int : SUBSET Kids, locks : SUBSET (Kids \X Indexes), lost : BOOLEAN, fail : BOOLEAN]

\* fcntl(F_SETLK) by child c of lock i would meet a lock of the other child.
Overlap(a, b) == a.start < b.start + b.len /\ b.start < a.start + a.len
Conflict(c, i) ==
  \E l \in prog.locks :
     /\ l[1] # c
     /\ Overlap(locks_list[l[2]], locks_list[i])
     /\ "F_WRLCK" \in {locks_list[l[2]].type, locks_list[i].type}

-----------------------------------------------------------------------------
(* do_child1() *)

\* Child c exits: its locks are dropped, its parent gets a SIGCHLD unless it
\* ignores them.
Gone(c) ==
  [prog EXCEPT !.kid[c] = "gone", !.int = @ \ {c},
               !.locks = {l \in @ : l[1] # c},
               !.pend = IF prog.main \in {"int0", "int1", "reap"} THEN @ ELSE @ \cup {"chld"}]

(* The loop over set_lock(), which puts up with EAGAIN. *)
SetLock(c) ==
  /\ prog.kid[c] = "set"
  /\ LET i == prog.i[c]
     IN  prog' = IF i > num_locks THEN [prog EXCEPT !.kid[c] = "notify1", !.i[c] = 1]
                 ELSE IF locks_list[i].child = c /\ ~Conflict(c, i)
                 THEN [prog EXCEPT !.i[c] = @ + 1, !.locks = @ \cup {<<c, i>>}]
                 ELSE [prog EXCEPT !.i[c] = @ + 1]

(* Any other error: kill(getppid(), SIGUSR1); do_exit(1). *)
SetLockError(c) ==
  /\ faults
  /\ prog.kid[c] = "set"
  /\ prog.i[c] \in Indexes
  /\ locks_list[prog.i[c]].child = c
  /\ prog' = [prog EXCEPT !.kid[c] = "dying", !.pend = @ \cup {"usr1"}]

Notify1(c) ==
  /\ prog.kid[c] = "notify1"
  /\ prog' = [prog EXCEPT !.kid[c] = "poll", !.ev[1] = @ + 1]

SeeTestDone(c) ==
  /\ prog.kid[c] = "poll"
  /\ testDone
  /\ prog' = [prog EXCEPT !.kid[c] = "test"]

LockedByMe(c, i) == locks_list[i].child = c \/ locks_list[i].type = "F_RDLCK"

\* What test_lock() makes of a conflict, or of none: the next lock, or FAIL.
Tested(c, conflict) ==
  IF LockedByMe(c, prog.i[c]) = conflict
  THEN [prog EXCEPT !.kid[c] = "dying", !.fail = TRUE, !.pend = @ \cup {"usr1"}]
  ELSE [prog EXCEPT !.kid[c] = "test", !.i[c] = @ + 1]

(* test_lock(): F_SETLK, which sets the lock when it can. *)
TestLock(c) ==
  /\ prog.kid[c] = "test"
  /\ LET i == prog.i[c]
     IN  prog' = IF i > num_locks THEN [prog EXCEPT !.kid[c] = "notify2"]
                 ELSE IF Conflict(c, i) THEN [prog EXCEPT !.kid[c] = "getlk"]
                 ELSE [Tested(c, FALSE) EXCEPT !.locks = @ \cup {<<c, i>>}]

(* test_lock(): F_GETLK, whose answer may differ by now. *)
GetLock(c) ==
  /\ prog.kid[c] = "getlk"
  /\ prog' = IF Conflict(c, prog.i[c]) THEN Tested(c, TRUE)
             ELSE [prog EXCEPT !.kid[c] = "dying", !.pend = @ \cup {"usr1"}]

\* Mutant: the child exits once it has tested.
Notify2Exit(c) ==
  /\ prog.kid[c] = "notify2"
  /\ prog' = [Gone(c) EXCEPT !.ev[2] = @ + 1]

Notify2(c) ==
  /\ prog.kid[c] = "notify2"
  /\ prog' = [prog EXCEPT !.kid[c] = "pause", !.ev[2] = @ + 1]

(* do_exit(1) after the kill(), do_exit(0) in handler(). *)
ExitChild(c) ==
  /\ prog.kid[c] \notin {"none", "gone"}
  /\ prog.kid[c] = "dying" \/ c \in prog.int
  /\ prog' = Gone(c)

KidStep(c) ==
  /\ \/ SetLock(c) \/ SetLockError(c) \/ Notify1(c) \/ SeeTestDone(c) \/ TestLock(c)
     \/ GetLock(c) \/ Notify2(c) \/ ExitChild(c)
  /\ UNCHANGED ready

-----------------------------------------------------------------------------
(* main() *)
Fork(c, pc, next) ==
  /\ prog.main = pc
  /\ prog' = [prog EXCEPT !.main = next, !.kid[c] = "set"]

\* Mutant: the parent does not wait for the event.
NoWait1(pc, next) ==
  /\ prog.main = pc
  /\ prog' = [prog EXCEPT !.main = next]

(* wait_for_events(event_fd1, 1) *)
WaitEvent1(pc, next) ==
  /\ prog.main = pc
  /\ prog.ev[1] > 0
  /\ prog' = [prog EXCEPT !.main = next, !.ev[1] = 0]

(* One read of wait_for_events(event_fd2, 2) *)
WaitEvents2 ==
  /\ prog.main = "collect"
  /\ prog.ev[2] > 0
  /\ LET count == prog.count + prog.ev[2]
     IN  prog' = [prog EXCEPT !.ev[2] = 0, !.count = count,
                              !.main = IF count < 2 THEN "collect" ELSE "ignore"]

IgnoreSigchld ==
  /\ prog.main = "ignore"
  /\ prog' = [prog EXCEPT !.main = "int0", !.pend = @ \ {"chld"}]

KillChild(c, pc, next) ==
  /\ prog.main = pc
  /\ prog' = [prog EXCEPT !.main = next, !.int = IF prog.kid[c] = "gone" THEN @ ELSE @ \cup {c}]

(* do_wait(2), do_exit(0) *)
Reap ==
  /\ prog.main = "reap"
  /\ \A c \in Kids : prog.kid[c] = "gone"
  /\ prog' = [prog EXCEPT !.main = "exit"]

(* child_handler() is entered, from main() or on top of the other signal.  *)
Handle(sig) ==
  /\ sig \in prog.pend \ prog.hand
  /\ prog.main # "exit"
  /\ prog' = [prog EXCEPT !.main = sig, !.pend = @ \ {sig}, !.hand = @ \cup {sig}]

(* do_wait(1) in child_handler() reaps until there are no children.        *)
ReapInHandler ==
  /\ prog.main = "chld"
  /\ \A c \in Kids : prog.kid[c] \in {"none", "gone"}
  /\ prog' = [prog EXCEPT !.main = "exit", !.fail = TRUE]

(* "Kill (remaining) children and exit." *)
KillInHandler ==
  /\ prog.main = "usr1"
  /\ prog' = [prog EXCEPT !.main = "exit", !.fail = TRUE, !.kid = [c \in Kids |-> "gone"],
                          !.locks = {}]

MainStep ==
  \/ /\ \/ Fork(0, "fork0", "wait0") \/ WaitEvent1("wait0", "fork1")
        \/ Fork(1, "fork1", "wait1") \/ WaitEvent1("wait1", "ready")
        \/ WaitEvents2 \/ IgnoreSigchld
        \/ KillChild(0, "int0", "int1") \/ KillChild(1, "int1", "reap")
        \/ Reap \/ ReapInHandler \/ KillInHandler
        \/ \E sig \in Signals : Handle(sig)
     /\ UNCHANGED ready
  \/ /\ prog.main = "ready"
     /\ prog' = [prog EXCEPT !.main = "collect"]
     /\ ready' = TRUE

-----------------------------------------------------------------------------
Restored ==
  IF image = None THEN {}
  ELSE {image} \cup (IF faults
                     THEN {[image EXCEPT !.locks = @ \ {l}, !.lost = TRUE] : l \in image.locks}
                     ELSE {})

-----------------------------------------------------------------------------
(* "Now that the test processes are ready, tell any wrapper scripts": the  *)
(* image is taken with both children holding all their locks.              *)
LocksInImage == image # None /\ ~faults => image.locks = UNION {OwnLocks(c) : c \in Kids}

(* "each process verifies that it has the locks it had at the time of      *)
(* checkpoint" (filelock1.c:29): a lock that the restart lost is reported. *)
LostLockDetected == prog # None /\ prog.main = "exit" /\ prog.lost => prog.fail
=============================================================================
