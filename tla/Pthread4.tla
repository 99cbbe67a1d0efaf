------------------------------ MODULE Pthread4 ------------------------------
(***************************************************************************)
(* process-tree/pthread4.c in the loop of KillRestart.  N threads race for *)
(* an error-checking mutex; the winner keeps it across checkpoint and      *)
(* restart, and afterwards everybody tries again.                          *)
(*                                                                         *)
(* The two barriers are used once each: a thread leaves one when nobody    *)
(* who takes part in it is still before it.                                *)
(***************************************************************************)
EXTENDS KillRestart

CONSTANTS
  N,        \* num_threads
  Nobody    \* the mutex is not locked

ASSUME ThreadsAssumption ==
  /\ N \in Nat \ {0}
  /\ Nobody \notin 0 .. N - 1

Threads == 0 .. N - 1

Mains == {"create", "barrier", "inside", "ready", "join", "exit"}

\* Where a thread is.  Before the first trylock; from there to the second;
\* not yet at the cr_ready barrier.
Racing == {"none", "barrier1", "inside1", "try1"}
Keeping == {"barrier2", "inside2", "poll", "try2"}
NotReady == Racing \cup {"barrier2"}

\* acquired: lock_acquired; again: the second trylock got the mutex;
\* tstatus: -1 until the thread sets it; status: exit_status.
Progs ==
  [main : Mains, i : 0 .. N,
   pc : [Threads -> Racing \cup Keeping \cup {"unlock", "gone"}],
   acquired : [Threads -> BOOLEAN], again : [Threads -> BOOLEAN],
   tstatus : [Threads -> {-1, 0, 1}],
   owner : Threads \cup {Nobody}, status : {0, 1}]

Fresh ==
  [main |-> "create", i |-> 0, pc |-> [t \in Threads |-> "none"],
   acquired |-> [t \in Threads |-> FALSE], again |-> [t \in Threads |-> FALSE],
   tstatus |-> [t \in Threads |-> -1], owner |-> Nobody, status |-> 0]

-----------------------------------------------------------------------------
(* main() *)
CreateThread ==
  /\ prog.main = "create"
  /\ prog' = IF prog.i < N
             THEN [prog EXCEPT !.pc[prog.i] = "barrier1", !.i = @ + 1]
             ELSE [prog EXCEPT !.main = "barrier", !.i = 0]
  /\ UNCHANGED ready

\* Mutant: main() does not take part in the barrier.
MainArriveNot ==
  /\ prog.main = "barrier"
  /\ prog' = [prog EXCEPT !.main = "ready"]
  /\ UNCHANGED ready

MainArrive ==
  /\ prog.main = "barrier"
  /\ prog' = [prog EXCEPT !.main = "inside"]
  /\ UNCHANGED ready

MainLeave ==
  /\ prog.main = "inside"
  /\ \A u \in Threads : prog.pc[u] \notin NotReady
  /\ prog' = [prog EXCEPT !.main = "ready"]
  /\ UNCHANGED ready

SetReady ==
  /\ prog.main = "ready"
  /\ ready' = TRUE
  /\ prog' = [prog EXCEPT !.main = "join"]

(* wait_for_threads(), do_exit(rc) *)
JoinThread ==
  /\ prog.main = "join"
  /\ prog.i < N => prog.pc[prog.i] = "gone"
  /\ prog' = IF prog.i < N
             THEN [prog EXCEPT !.status = IF prog.tstatus[prog.i] # 0 THEN 1 ELSE @,
                               !.i = @ + 1]
             ELSE [prog EXCEPT !.main = "exit"]
  /\ UNCHANGED ready

MainStep == CreateThread \/ MainArrive \/ MainLeave \/ SetReady \/ JoinThread

-----------------------------------------------------------------------------
(* do_work() *)
Arrive1(t) ==
  /\ prog.pc[t] = "barrier1"
  /\ prog' = [prog EXCEPT !.pc[t] = "inside1"]

Leave1(t) ==
  /\ prog.pc[t] = "inside1"
  /\ \A u \in Threads : prog.pc[u] \notin {"none", "barrier1"}
  /\ prog' = [prog EXCEPT !.pc[t] = "try1"]

TryLock(t) ==
  /\ prog.pc[t] = "try1"
  /\ prog' = IF prog.owner = Nobody
             THEN [prog EXCEPT !.pc[t] = "barrier2", !.acquired[t] = TRUE, !.owner = t]
             ELSE [prog EXCEPT !.pc[t] = "barrier2"]

Arrive2(t) ==
  /\ prog.pc[t] = "barrier2"
  /\ prog' = [prog EXCEPT !.pc[t] = "inside2"]

Leave2(t) ==
  /\ prog.pc[t] = "inside2"
  /\ \A u \in Threads : prog.pc[u] \notin NotReady
  /\ prog.main \notin {"create", "barrier"}
  /\ prog' = [prog EXCEPT !.pc[t] = "poll"]

SeeTestDone(t) ==
  /\ prog.pc[t] = "poll"
  /\ testDone
  /\ prog' = [prog EXCEPT !.pc[t] = "try2"]

\* Mutant: the mutex is of type PTHREAD_MUTEX_RECURSIVE.
TryRecursive(t) ==
  /\ prog.pc[t] = "try2"
  /\ prog' = IF prog.owner \in {Nobody, t}
             THEN [prog EXCEPT !.pc[t] = "unlock", !.again[t] = TRUE, !.owner = t,
                               !.tstatus[t] = IF prog.acquired[t] THEN 1 ELSE 0]
             ELSE [prog EXCEPT !.pc[t] = "unlock", !.tstatus[t] = 0]

\* Mutant: pthread_mutex_lock(), which waits for the mutex.
LockAgain(t) ==
  /\ prog.pc[t] = "try2"
  /\ prog.owner = Nobody
  /\ prog' = [prog EXCEPT !.pc[t] = "unlock", !.again[t] = TRUE, !.owner = t,
                          !.tstatus[t] = IF prog.acquired[t] THEN 1 ELSE 0]

(* The second trylock, EBUSY for the owner too, and tstatus[tnum].         *)
TryAgain(t) ==
  /\ prog.pc[t] = "try2"
  /\ prog' = IF prog.owner = Nobody
             THEN [prog EXCEPT !.pc[t] = "unlock", !.again[t] = TRUE, !.owner = t,
                               !.tstatus[t] = IF prog.acquired[t] THEN 1 ELSE 0]
             ELSE [prog EXCEPT !.pc[t] = "unlock", !.tstatus[t] = 0]

\* Mutant: only the lock taken by the second trylock is released.
UnlockSecondOnly(t) ==
  /\ prog.pc[t] = "unlock"
  /\ prog' = IF prog.again[t]
             THEN [prog EXCEPT !.pc[t] = "gone", !.owner = Nobody]
             ELSE [prog EXCEPT !.pc[t] = "gone"]

(* if (lock_acquired || !rc) unlock, which is EPERM unless t is the owner. *)
Unlock(t) ==
  /\ prog.pc[t] = "unlock"
  /\ prog' = IF (prog.acquired[t] \/ prog.again[t]) /\ prog.owner = t
             THEN [prog EXCEPT !.pc[t] = "gone", !.owner = Nobody]
             ELSE [prog EXCEPT !.pc[t] = "gone"]

ThreadStep(t) ==
  /\ \/ Arrive1(t) \/ Leave1(t) \/ TryLock(t) \/ Arrive2(t) \/ Leave2(t)
     \/ SeeTestDone(t) \/ TryAgain(t) \/ Unlock(t)
  /\ UNCHANGED ready

-----------------------------------------------------------------------------
Main == Running /\ MainStep /\ UNCHANGED <<testDone, frozen, image, sh>>
Thread(t) == Running /\ ThreadStep(t) /\ UNCHANGED <<testDone, frozen, image, sh>>
Script == ShNext(Fresh)

Next == Main \/ (\E t \in Threads : Thread(t)) \/ Script \/ Over

(* Every thread is scheduled, and the script's commands return.            *)
Fairness ==
  /\ WF_kvars(Main)
  /\ \A t \in Threads : WF_kvars(Thread(t))
  /\ WF_kvars(Script)

Spec == ShInit /\ [][Next]_kvars /\ Fairness

-----------------------------------------------------------------------------
TypeOK ==
  /\ ShOK
  /\ prog \in Progs \cup {None}
  /\ image \in Progs \cup {None}

(* "so a random thread can get the lock": once main() is past the cr_ready *)
(* barrier, and so in every image the script can take, exactly one thread  *)
(* has acquired the mutex, and it owns it until it unlocks it.             *)
OneHolder ==
  prog # None /\ prog.main \in {"ready", "join", "exit"} =>
     \E t \in Threads :
        /\ prog.acquired[t]
        /\ \A u \in Threads : prog.acquired[u] => u = t
        /\ prog.pc[t] # "gone" => prog.owner = t

(* "If I already hold the lock, this trylock better fail :-)": no thread   *)
(* ever reports FAIL, and pthread4 exits with status 0.                    *)
NoFalseFail ==
  prog # None =>
     /\ \A t \in Threads : prog.tstatus[t] # 1
     /\ prog.status = 0

(* When the last thread is gone nobody owns the mutex.                     *)
ReleasedAtExit == prog # None /\ prog.main = "exit" => prog.owner = Nobody

(* "End test gracefully": the restarted container, wherever in the program *)
(* its image was taken, exits after test-done, and the script's wait       *)
(* returns.                                                                *)
RestartedExits == sh.pc = "wait" ~> sh.pc # "wait"
=============================================================================
