----------------------------- MODULE FcntlTests -----------------------------
(***************************************************************************)
(* run-fcntltests.sh with each of the five programs it is given by         *)
(* run-filelock1.sh, run-filelock2.sh, run-filelease1.sh,                  *)
(* run-filelease2.sh and run-fsetown1.sh, with and without faults.         *)
(***************************************************************************)
EXTENDS FcntlScript

Lock1  == INSTANCE FileLock1
Lock2  == INSTANCE FileLock2
Lease1 == INSTANCE FileLease1
Lease2 == INSTANCE FileLease2
Owner1 == INSTANCE Fsetown1

Tests == {"filelock1", "filelock2", "filelease1", "filelease2", "fsetown1"}

Main ==
  /\ Running
  /\ \/ test = "filelock1" /\ Lock1!MainStep
     \/ test = "filelock2" /\ Lock2!MainStep
     \/ test = "filelease1" /\ Lease1!MainStep
     \/ test = "filelease2" /\ Lease2!MainStep
     \/ test = "fsetown1" /\ Owner1!MainStep
  /\ UNCHANGED scriptVars

\* Child c of the test; the container's init takes the others with it.
Kid(c) ==
  /\ Running
  /\ prog.main # "exit"
  /\ \/ test = "filelock1" /\ c \in Lock1!Kids /\ Lock1!KidStep(c)
     \/ test = "filelock2" /\ c \in Lock2!Kids /\ Lock2!KidStep(c)
     \/ test = "filelease1" /\ Lease1!KidStep(c)
     \/ test = "filelease2" /\ c \in Lease2!Kids /\ Lease2!KidStep(c)
     \/ test = "fsetown1" /\ c = 0 /\ Owner1!KidStep
  /\ UNCHANGED scriptVars

Kernel ==
  /\ prog # None
  /\ test = "filelease2"
  /\ Lease2!Revoke
  /\ UNCHANGED ready /\ UNCHANGED scriptVars

Script ==
  \/ test = "filelock1" /\ ShNext(Lock1!Fresh, Lock1!Restored)
  \/ test = "filelock2" /\ ShNext(Lock2!Fresh, Lock2!Restored)
  \/ test = "filelease1" /\ ShNext(Lease1!Fresh, Lease1!Restored)
  \/ test = "filelease2" /\ ShNext(Lease2!Fresh, Lease2!Restored)
  \/ test = "fsetown1" /\ ShNext(Owner1!Fresh, Owner1!Restored)

Init == test \in Tests /\ faults \in BOOLEAN /\ ShInit

Next == Main \/ (\E c \in 0 .. 2 : Kid(c)) \/ Kernel \/ Script

(* The processes are scheduled, and the script's commands return; a lease  *)
(* need not be revoked.                                                    *)
Spec ==
  /\ Init /\ [][Next]_fvars
  /\ WF_fvars(Main) /\ \A c \in 0 .. 2 : WF_fvars(Kid(c))
  /\ WF_fvars(Script)

-----------------------------------------------------------------------------
TypeOK ==
  /\ ShOK
  /\ test \in Tests /\ faults \in BOOLEAN
  /\ {prog, image} \ {None} \subseteq
        CASE test = "filelock1" -> Lock1!Progs
          [] test = "filelock2" -> Lock2!Progs
          [] test = "filelease1" -> Lease1!Progs
          [] test = "filelease2" -> Lease2!Progs
          [] test = "fsetown1" -> Owner1!Progs

(* The image has the program in the state its header describes: filelock1  *)
(* with all the locks of locks_list, filelease2 in the middle of the lease *)
(* break.                                                                  *)
ImageReady ==
  /\ test = "filelock1" => Lock1!LocksInImage
  /\ test = "filelease2" => Lease2!ImageMidBreak

(* filelock2: the lock passes from child 1 to child 2 after the restart,   *)
(* once child 1 has verified that it has it.                               *)
HandedOver == test = "filelock2" => Lock2!HandedOver

(* After a faithful restart no process of filelock1, filelock2 or          *)
(* filelease2 logs a failure: not because a sibling has exited and its     *)
(* lock is free ("P2 may acquire the lock supposed to be held by P1 and    *)
(* wrongly assume that test failed"), nor because a child's normal exit    *)
(* looks like a premature one.                                             *)
NoFalseFail ==
  prog # None /\ ~faults /\ test \in {"filelock1", "filelock2", "filelease2"} => ~prog.fail

(* "ensure that the process is notified" (fsetown1): whether the restart   *)
(* has lost the owner or the O_ASYNC flag, which different processes       *)
(* notice at different times, the script exits with status 1.              *)
LossReported ==
  (test = "fsetown1" /\ sh.pc = "wait" /\ prog.lost) ~> (sh.pc = "exit" /\ sh.status = 1)

(* "properly report test status to wrapper scripts" (filelock2): whatever  *)
(* the kernel refuses and the restart loses, a FAIL in the log of the      *)
(* restarted container ends it, and the script exits with status 1.  A     *)
(* child of filelease2 that exits with another status than 0 has the same  *)
(* effect, whatever the order in which child_handler() meets the two       *)
(* exits, once create_child() has counted both.                            *)
FailureReported ==
  (/\ sh.pc = "wait"
   /\ \/ test = "filelock2" /\ prog.fail
      \/ test = "filelease2" /\ Lease2!FailureCounted)
     ~> (sh.pc = "exit" /\ sh.status = 1)

(* After a faithful restart the container of each of the five programs     *)
(* exits and the script's wait returns: the parent misses no event, signal *)
(* or exit of its children.                                                *)
RestartedExits == (~faults /\ sh.pc = "wait") ~> sh.pc # "wait"

(* filelock1: "each process verifies that it has the locks it had at the   *)
(* time of checkpoint" (filelock1.c:29).                                   *)
LostLockDetected == test = "filelock1" => Lock1!LostLockDetected
=============================================================================
