---------------------------- MODULE ProcessTree ----------------------------
(***************************************************************************)
(* The tests of process-tree/ in the loop of KillRestart: pthread1,        *)
(* pthread2, pthread3 and ptree1, each with its run-*.sh.  (pthread4, for  *)
(* which there is no script, has a module with a specification of its own.)*)
(***************************************************************************)
EXTENDS KillRestart

CONSTANTS
  TESTS,          \* the tests to run, one in a behaviour
  N,              \* num_threads
  MaxNodes        \* bound on the size of ptree1's tree

ASSUME TreeAssumption ==
  /\ TESTS \subseteq {"pthread1", "pthread2", "pthread3", "ptree1"}
  /\ N \in Nat \ {0, 1}
  /\ MaxNodes \in Nat \ {0}

VARIABLE test

vars == <<test, kvars>>

P1 == INSTANCE Pthread1
P2 == INSTANCE Pthread2
P3 == INSTANCE Pthread3
PT == INSTANCE PTree1

InfoTest == test \in {"pthread2", "pthread3"}

Fresh ==
  CASE test = "pthread1" -> {P1!Fresh}
    [] test = "pthread2" -> {P2!Fresh}
    [] test = "pthread3" -> {P3!Fresh}
    [] test = "ptree1" -> {PT!Fresh(args) : args \in PT!Args}

\* exit_group(), or the end of the container's init, ends every task.
Task(t, A) ==
  /\ test = t
  /\ Running
  /\ prog.main # "exit"
  /\ A
  /\ UNCHANGED <<test, testDone, frozen, image, sh>>

Main ==
  \/ Task("pthread1", P1!MainStep)
  \/ Task("pthread2", P2!Main)
  \/ Task("pthread3", P3!Main)
  \/ Task("ptree1", PT!MainStep)

Coord == Task("pthread1", P1!CoordStep)
Worker(t) == Task("pthread1", P1!WorkerStep(t))
Spurious(t) == Task("pthread1", P1!SpuriousWake(t))
Thread(t) == Task("pthread2", P2!ThreadStep(t)) \/ Task("pthread3", P3!ThreadStep(t))
Process(x) == Task("ptree1", PT!NodeStep(x))

(* restart loses what pthread2 and pthread3 are there to look at. *)
RestartLossy ==
  /\ sh.pc = "restart"
  /\ prog' \in P2!LossyImages
  /\ Goto("find")
  /\ UNCHANGED <<test, ready, testDone, frozen, image>>

ShStep == (\E fresh \in Fresh : ShNext(fresh)) /\ UNCHANGED test

(* run-pthread1.sh and run-ptree1.sh *)
LimitedScript == ~InfoTest /\ ShStep

(* run-pthread2.sh and run-pthread3.sh, which wait for checkpoint-ready    *)
(* without a limit.                                                        *)
PatientScript ==
  /\ InfoTest
  /\ sh.pc = "await" => ready
  /\ ShStep \/ RestartLossy

Script == LimitedScript \/ PatientScript

Init == test \in TESTS /\ ShInit

Next ==
  \/ Main \/ Coord \/ Script
  \/ \E t \in P1!Workers : Worker(t) \/ Spurious(t)
  \/ \E t \in P2!Threads : Thread(t)
  \/ \E x \in PT!Nodes : Process(x)
  \/ Over /\ UNCHANGED test

(* Every task is scheduled, and the script's commands return.  Nothing     *)
(* makes a spurious wake-up happen.                                        *)
Fairness ==
  /\ WF_vars(Script) /\ WF_vars(Main) /\ WF_vars(Coord)
  /\ \A t \in P1!Workers : WF_vars(Worker(t))
  /\ \A t \in P2!Threads : WF_vars(Thread(t))
  /\ \A x \in PT!Nodes : WF_vars(Process(x))

Spec == Init /\ [][Next]_vars /\ Fairness

-----------------------------------------------------------------------------
Progs ==
  CASE test = "pthread1" -> P1!Progs
    [] InfoTest -> P2!Progs
    [] test = "ptree1" -> PT!Progs

TypeOK ==
  /\ ShOK
  /\ test \in TESTS
  /\ prog \in Progs \cup {None}
  /\ image \in Progs \cup {None}

(* pthread1: when the image was taken with every worker still blocked in   *)
(* pthread_cond_wait(), one signal from the coordinator is enough: each    *)
(* worker wakes the next, and the restarted container exits.               *)
ChainWakesAll ==
  (test = "pthread1" /\ sh.pc = "wait" /\ P1!BlockedInImage) ~> sh.pc # "wait"

(* pthread2, pthread3: the exit status is 0 exactly when the restart has   *)
(* lost nothing of any thread: the barrier sees to it that what a thread   *)
(* compares with was collected before the checkpoint, and main() exits     *)
(* after every thread has compared.                                        *)
VerdictRight == InfoTest /\ prog # None => P2!VerdictRight

(* ptree1: when main() exits, and the kernel would kill what is left in    *)
(* its pid namespace, no process of the tree is left: though a process of  *)
(* the tree exits without waiting for its children, and the checkpoint may *)
(* have caught the tree half forked, do_wait() also waits for the orphans, *)
(* and for those they still fork.                                          *)
NobodyLeft == test = "ptree1" /\ prog # None => PT!NobodyLeft

(* All but pthread1: wherever the checkpoint caught the program, it exits  *)
(* once it is restarted and test-done exists, and the script's wait for it *)
(* returns.                                                                *)
RestartedExits == (test # "pthread1" /\ sh.pc = "wait") ~> sh.pc # "wait"
=============================================================================
