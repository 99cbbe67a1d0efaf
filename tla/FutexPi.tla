------------------------------- MODULE FutexPi -------------------------------
(***************************************************************************)
(* futex/pi.c: NPi real-time children of rising priority.  Child 0, the    *)
(* lowest, takes a priority-inheritance futex, wakes the others from a     *)
(* wait queue to contend for it, and must be seen with the priority of the *)
(* highest; the others must then get the futex in the order of their       *)
(* priorities.  With one CPU a task runs only when none of a higher        *)
(* priority can.                                                           *)
(***************************************************************************)
EXTENDS FutexRun, FiniteSets, FiniteSetsExt

Kids == 0 .. NPi - 1
Nobody == -1

\* owner, waiters: pi_futex; wq: waitq; past: dumb_barrier[0], as far as it is read;
\* woken, left: woken and retries of wake_waitq, left = -1 once it can only fall below
\* zero; held: child 0's held_prio; kfail: a child's retval is not 0; tries: retries of
\* sleep_on_waitq.
Fresh ==
  [main |-> "clone", i |-> 0, kid |-> [k \in Kids |-> "none"],
   owner |-> Nobody, waiters |-> FALSE, wq |-> -1, past |-> 0, woken |-> 0, left |-> -1,
   held |-> 0, tries |-> [k \in Kids |-> Retries], kfail |-> [k \in Kids |-> FALSE],
   status |-> 0, flog |-> FALSE]

ProgOK(p) ==
  /\ p.main \in {"clone", "reap", "exit"} /\ p.i \in 0 .. NPi /\ p.status \in {0, 1}
  /\ p.kid \in [Kids -> {"none", "prio", "barrier", "set", "wake", "inherit", "usleep", "ready",
                         "poll", "verdict", "inc", "waitq", "asleep", "xchg", "or", "lock", "blocked",
                         "cs", "release", "unlock", "out", "gone", "reaped"}]
  /\ p.owner \in Kids \cup {Nobody} /\ p.waiters \in BOOLEAN /\ p.wq \in {-1, 1}
  /\ p.past \in Kids /\ p.woken \in Kids /\ p.left \in -1 .. Retries /\ p.held \in Kids
  /\ p.tries \in [Kids -> 0 .. Retries] /\ p.kfail \in [Kids -> BOOLEAN] /\ p.flog \in BOOLEAN

-----------------------------------------------------------------------------
(* The scheduler and the kernel's side of the pi futex. *)
Blocked == {k \in Kids : prog.kid[k] = "blocked"}
StaticPrio(k) == IF prog.kid[k] = "prio" THEN 0 ELSE k
DynamicPrio(k) == Max({StaticPrio(k)} \cup (IF prog.owner = k THEN Blocked ELSE {}))

\* Child 0 is in a usleep() or sleep() of one of its loops.  With one CPU it is assumed
\* to last until the other children have run.
Sleeping == prog.kid[0] \in {"barrier", "usleep", "poll"}

Runnable(k) ==
  /\ prog.kid[k] \notin {"none", "asleep", "blocked", "gone", "reaped"}
  /\ ~(k = 0 /\ Sleeping)

CanRun(prio) == smp \/ \A j \in Kids : Runnable(j) => DynamicPrio(j) <= prio

AfterSleep(pc) ==
  prog.kid[0] = pc /\ (smp \/ \A j \in Kids : ~Runnable(j))

At(k, pc) == prog.kid[k] = pc /\ CanRun(DynamicPrio(k))

\* In p, the futex goes to the waiter of the highest priority.
HandOver(p) ==
  IF Blocked = {} THEN [p EXCEPT !.owner = Nobody, !.waiters = FALSE]
  ELSE LET top == Max(Blocked) IN [p EXCEPT !.owner = top, !.waiters = TRUE, !.kid[top] = "cs"]

Fails(k) == [prog EXCEPT !.kid[k] = "out", !.kfail[k] = TRUE, !.flog = TRUE]

-----------------------------------------------------------------------------
(* kid() *)
SetPriority(k) ==
  /\ At(k, "prio")
  /\ prog' = [prog EXCEPT !.kid[k] = IF k = 0 THEN "xchg" ELSE "inc"]

(* the children above 0: sleep_on_waitq(), *)
IncBarrier(k) ==
  /\ At(k, "inc")
  /\ prog' = [prog EXCEPT !.kid[k] = "waitq", !.past = @ + 1]

SleepOnWaitq(k) ==
  /\ At(k, "waitq")
  /\ prog' = IF prog.wq = -1 THEN [prog EXCEPT !.kid[k] = "asleep"]
             ELSE IF prog.tries[k] > 0 THEN [prog EXCEPT !.tries[k] = @ - 1]
             ELSE Fails(k)

(* cmpxchg(0, tid), for child 0 too: it then holds the futex; the others   *)
(* go on to lock it whatever they find,                                    *)
CmpXchg(k) ==
  /\ At(k, "xchg")
  /\ LET free == prog.owner = Nobody /\ ~prog.waiters
         p == IF free THEN [prog EXCEPT !.owner = k] ELSE prog
     IN  prog' = IF k > 0 THEN [p EXCEPT !.kid[k] = "or"]
                 ELSE IF free THEN [p EXCEPT !.kid[k] = "barrier"]
                 ELSE Fails(k)

(* do_lock_contended_pi_futex() *)
OrWaiters(k) ==
  /\ At(k, "or")
  /\ prog' = [prog EXCEPT !.kid[k] = "lock", !.waiters = TRUE]

(* FUTEX_LOCK_PI; EDEADLK or ESRCH when the owner is the caller or gone.   *)
LockPi(k) ==
  /\ At(k, "lock")
  /\ prog' = IF prog.owner = Nobody THEN [prog EXCEPT !.kid[k] = "cs", !.owner = k]
             ELSE IF prog.owner = k \/ prog.kid[prog.owner] \in {"gone", "reaped"} THEN Fails(k)
             ELSE [prog EXCEPT !.kid[k] = "blocked", !.waiters = TRUE]

(* A waiter that the freezer has signalled, on the pi futex or on the wait *)
(* queue: goto again.                                                      *)
Interrupted(k) ==
  /\ prog.kid[k] \in {"asleep", "blocked"}
  /\ prog' = IF prog.kid[k] = "blocked" THEN [prog EXCEPT !.kid[k] = "lock"]
             ELSE IF prog.tries[k] > 0
             THEN [prog EXCEPT !.kid[k] = "waitq", !.tries[k] = @ - 1]
             ELSE Fails(k)

(* "Woken in priority order." if the priority is not an inherited one. *)
CriticalSection(k) ==
  /\ At(k, "cs")
  /\ LET ok == DynamicPrio(k) = k
     IN  prog' = [prog EXCEPT !.kid[k] = "release", !.kfail[k] = ~ok, !.flog = @ \/ ~ok]

(* child 0: *)

\* Mutant: the other children are not waited for.
BarrierNotAwaited ==
  /\ AfterSleep("barrier")
  /\ \E left \in {-1, Retries} : prog' = [prog EXCEPT !.kid[0] = "set", !.left = left]

BarrierPassed ==
  /\ AfterSleep("barrier")
  /\ prog.past = NPi - 1
  /\ \E left \in {-1, Retries} : prog' = [prog EXCEPT !.kid[0] = "set", !.left = left]

(* wake_waitq() *)
SetWaitq ==
  /\ At(0, "set")
  /\ prog' = [prog EXCEPT !.kid[0] = "wake", !.wq = 1]

WakeWaitq ==
  /\ At(0, "wake")
  /\ LET asleep == {k \in Kids : prog.kid[k] = "asleep"}
         woken == prog.woken + Cardinality(asleep)
         over == woken = NPi - 1 \/ prog.left = 1
     IN  prog' = [prog EXCEPT !.kid = [k \in Kids |-> IF k \in asleep THEN "xchg"
                                                      ELSE IF k = 0 /\ over THEN "inherit"
                                                      ELSE @[k]],
                              !.woken = woken, !.left = IF prog.left = -1 THEN -1 ELSE @ - 1]

(* held_prio, with a usleep() after each try, until it is the highest one  *)
(* or the tries are used up.                                               *)
Inherit ==
  /\ At(0, "inherit")
  /\ prog' = [prog EXCEPT !.kid[0] = "usleep", !.held = DynamicPrio(0)]

Inherited ==
  /\ AfterSleep("usleep")
  /\ \/ prog' = [prog EXCEPT !.kid[0] = "ready"]
     \/ prog.held # NPi - 1 /\ prog' = [prog EXCEPT !.kid[0] = "inherit"]

SetReady ==
  /\ At(0, "ready")
  /\ ready' = TRUE
  /\ prog' = [prog EXCEPT !.kid[0] = "poll"]

SeeCkptDone ==
  /\ AfterSleep("poll")
  /\ ckptDone
  /\ prog' = [prog EXCEPT !.kid[0] = "verdict"]

Verdict ==
  /\ At(0, "verdict")
  /\ LET ok == prog.held >= NPi - 1
     IN  prog' = [prog EXCEPT !.kid[0] = "release", !.kfail[0] = ~ok, !.flog = @ \/ ~ok]

(* release_pi_futex(): after a cmpxchg(tid, 0) that succeeds, the loop     *)
(* goes round and fails to unlock what is no longer held.                  *)
Release(k) ==
  /\ At(k, "release")
  /\ prog' = IF prog.owner = k /\ ~prog.waiters THEN [prog EXCEPT !.owner = Nobody]
             ELSE [prog EXCEPT !.kid[k] = "unlock"]

\* Mutant: the lowest waiter gets the futex.
UnlockLowest(k) ==
  /\ At(k, "unlock")
  /\ IF prog.owner # k THEN prog' = Fails(k)
     ELSE IF Blocked = {} THEN prog' = [HandOver(prog) EXCEPT !.kid[k] = "out"]
     ELSE LET low == Min(Blocked)
          IN  prog' = [prog EXCEPT !.owner = low, !.kid[low] = "cs", !.kid[k] = "out"]

(* FUTEX_UNLOCK_PI; EPERM for another's futex. *)
UnlockPi(k) ==
  /\ At(k, "unlock")
  /\ prog' = IF prog.owner = k THEN [HandOver(prog) EXCEPT !.kid[k] = "out"] ELSE Fails(k)

(* _exit(retval), and the kernel's release of a futex with waiters. *)
ExitKid(k) ==
  /\ At(k, "out")
  /\ LET p == IF prog.owner = k /\ Blocked # {} THEN HandOver(prog) ELSE prog
     IN  prog' = [p EXCEPT !.kid[k] = "gone", !.flog = @ \/ prog.kfail[k]]

KidStep(k) ==
  \/ /\ \/ SetPriority(k) \/ IncBarrier(k) \/ SleepOnWaitq(k) \/ CmpXchg(k) \/ OrWaiters(k)
        \/ LockPi(k) \/ CriticalSection(k) \/ Release(k) \/ UnlockPi(k) \/ ExitKid(k)
        \/ k = 0 /\ (BarrierPassed \/ SetWaitq \/ WakeWaitq \/ Inherit \/ Inherited
                    \/ SeeCkptDone \/ Verdict)
     /\ UNCHANGED <<ready, tbrok>>
  \/ k = 0 /\ SetReady /\ UNCHANGED tbrok

Signal(k) == Interrupted(k) /\ UNCHANGED <<ready, tbrok>>

-----------------------------------------------------------------------------
(* main() *)
CloneKid ==
  /\ prog.main = "clone"
  /\ CanRun(0)
  /\ prog' = IF prog.i < NPi THEN [prog EXCEPT !.i = @ + 1, !.kid[prog.i] = "prio"]
             ELSE [prog EXCEPT !.main = "reap"]

\* Mutant: excode is that of the last child.
ReapLast ==
  /\ prog.main = "reap"
  /\ CanRun(0)
  /\ \/ \E k \in Kids : /\ prog.kid[k] = "gone"
                        /\ prog' = [prog EXCEPT !.kid[k] = "reaped",
                                                !.status = IF prog.kfail[k] THEN 1 ELSE 0]
     \/ /\ \A k \in Kids : prog.kid[k] = "reaped"
        /\ prog' = [prog EXCEPT !.main = "exit"]

(* waitpid() until ECHILD; excode is the first status that is not 0. *)
Reap ==
  /\ prog.main = "reap"
  /\ CanRun(0)
  /\ \/ \E k \in Kids : /\ prog.kid[k] = "gone"
                        /\ prog' = [prog EXCEPT !.kid[k] = "reaped",
                                                !.status = IF prog.kfail[k] THEN 1 ELSE @]
     \/ /\ \A k \in Kids : prog.kid[k] = "reaped"
        /\ prog' = [prog EXCEPT !.main = "exit"]

MainStep == (CloneKid \/ Reap) /\ UNCHANGED <<ready, tbrok>>

-----------------------------------------------------------------------------
(* With one CPU a child that has got the futex follows all the children of *)
(* a higher priority, through the wake from the queue, the freezer's       *)
(* interruption of their waits and the restart (the PASS and FAIL lines of *)
(* kid() say which).                                                       *)
WokenInOrder ==
  ~smp => \A j, k \in Kids \ {0} :
            prog.kid[j] \in {"cs", "release", "unlock", "out", "gone", "reaped"} /\ k > j
              => prog.kid[k] \in {"out", "gone", "reaped"}
=============================================================================
