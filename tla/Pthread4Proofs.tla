--------------------------- MODULE Pthread4Proofs ---------------------------
(***************************************************************************)
(* The safety properties of Pthread4, for every number of threads and of   *)
(* iterations.                                                             *)
(***************************************************************************)
EXTENDS Pthread4, TLAPS

\* The parts of the inductive invariant, of a program p, running or frozen in
\* an image.

\* Who has passed the first trylock, and what it left behind.
LockInv(p) ==
  /\ \A t \in Threads : p.acquired[t] => p.pc[t] \notin Racing
  /\ \A t \in Threads : p.again[t] => p.pc[t] \in {"unlock", "gone"}
  /\ \A t \in Threads : p.pc[t] \in Keeping => (p.owner = t <=> p.acquired[t])
  /\ \A t \in Threads : p.pc[t] = "unlock" =>
                           (p.owner = t <=> (p.acquired[t] \/ p.again[t]))
  /\ \A t \in Threads : p.pc[t] \in Racing \cup {"gone"} => p.owner # t

\* The race has one winner as soon as somebody has tried.
WinnerInv(p) ==
  /\ \A t, u \in Threads : p.acquired[t] /\ p.acquired[u] => t = u
  /\ \A t \in Threads : p.pc[t] \notin Racing => \E u \in Threads : p.acquired[u]

\* The second barrier separates the two trylocks.
BarrierInv(p) ==
  /\ \A t, u \in Threads : p.pc[u] \in {"poll", "try2", "unlock", "gone"} =>
                              p.pc[t] \notin NotReady
  /\ p.main \in {"ready", "join", "exit"} =>
        \A t \in Threads : p.pc[t] \notin NotReady

StatusInv(p) ==
  /\ \A t \in Threads : p.tstatus[t] # 1
  /\ \A t \in Threads : p.pc[t] \in {"unlock", "gone"} => p.tstatus[t] = 0
  /\ p.status = 0

MainInv(p) ==
  /\ p.main = "create" => \A t \in Threads : t >= p.i => p.pc[t] = "none"
  /\ p.main # "create" /\ p.main # "join" => p.i \in {0, N}
  /\ p.main \in {"barrier", "inside", "ready"} => p.i = 0
  /\ p.main = "join" => \A t \in Threads : t < p.i => p.pc[t] = "gone"
  /\ p.main = "exit" => \A t \in Threads : p.pc[t] = "gone"

PInv(p) ==
  /\ p \in Progs
  /\ LockInv(p)
  /\ WinnerInv(p)
  /\ BarrierInv(p)
  /\ StatusInv(p)
  /\ MainInv(p)

IInv ==
  /\ ShOK
  /\ sh.pc \notin {"start", "exit"} => sh.cnt < LastCnt
  /\ prog # None => PInv(prog)
  /\ image # None => PInv(image)
-----------------------------------------------------------------------------
\* A program that has just been started satisfies the invariant.
LEMMA FreshInv == PInv(Fresh)
  BY ThreadsAssumption DEF PInv, LockInv, WinnerInv, BarrierInv, StatusInv, MainInv,
     Progs, Fresh, Threads, Mains, Racing, Keeping, NotReady

\* A thread that reaches the first barrier keeps the invariant.
LEMMA Arrive1Inv ==
  ASSUME NEW t \in Threads, PInv(prog), Arrive1(t)
  PROVE  PInv(prog')
<1> USE ThreadsAssumption DEF Threads
<1>0. /\ prog \in Progs /\ prog' \in Progs
      /\ prog'.pc = [prog.pc EXCEPT ![t] = "inside1"]
      /\ prog'.acquired = prog.acquired /\ prog'.again = prog.again
      /\ prog'.tstatus = prog.tstatus
      /\ prog'.owner = prog.owner /\ prog'.status = prog.status
      /\ prog'.main = prog.main
      /\ prog'.i = prog.i
  BY ZenonT(60) DEF PInv, Progs, Mains, Arrive1, Racing, Keeping
<1>1. /\ prog.pc[t] = "barrier1"
      /\ \A u \in Threads : prog'.pc[u] = IF u = t THEN "inside1" ELSE prog.pc[u]
      /\ prog'.acquired = prog.acquired /\ prog'.again = prog.again
      /\ prog'.tstatus = prog.tstatus /\ prog'.owner = prog.owner
      /\ prog'.status = prog.status /\ prog'.main = prog.main
      /\ prog'.i = prog.i
  BY <1>0 DEF Progs, Arrive1
<1>2. LockInv(prog')
  BY <1>1 DEF PInv, LockInv, Racing, Keeping
<1>3. WinnerInv(prog')
  BY <1>1 DEF PInv, WinnerInv, Racing, Keeping
<1>4. BarrierInv(prog')
  BY <1>1 DEF PInv, BarrierInv, Racing, NotReady
<1>5. StatusInv(prog')
  BY <1>1 DEF PInv, StatusInv, Racing, Keeping
<1>6. MainInv(prog')
  BY <1>1 DEF PInv, MainInv, Racing
<1> QED
  BY <1>0, <1>2, <1>3, <1>4, <1>5, <1>6 DEF PInv

\* A thread that leaves the first barrier keeps the invariant.
LEMMA Leave1Inv ==
  ASSUME NEW t \in Threads, PInv(prog), Leave1(t)
  PROVE  PInv(prog')
<1> USE ThreadsAssumption DEF Threads
<1>0. /\ prog \in Progs /\ prog' \in Progs
      /\ prog'.pc = [prog.pc EXCEPT ![t] = "try1"]
      /\ prog'.acquired = prog.acquired /\ prog'.again = prog.again
      /\ prog'.tstatus = prog.tstatus
      /\ prog'.owner = prog.owner /\ prog'.status = prog.status
      /\ prog'.main = prog.main
      /\ prog'.i = prog.i
  BY ZenonT(60) DEF PInv, Progs, Mains, Leave1, Racing, Keeping
<1>1. /\ prog.pc[t] = "inside1"
      /\ \A u \in Threads : prog'.pc[u] = IF u = t THEN "try1" ELSE prog.pc[u]
      /\ prog'.acquired = prog.acquired /\ prog'.again = prog.again
      /\ prog'.tstatus = prog.tstatus /\ prog'.owner = prog.owner
      /\ prog'.status = prog.status /\ prog'.main = prog.main
      /\ prog'.i = prog.i
  BY <1>0 DEF Progs, Leave1
<1>2. LockInv(prog')
  BY <1>1 DEF PInv, LockInv, Racing, Keeping
<1>3. WinnerInv(prog')
  BY <1>1 DEF PInv, WinnerInv, Racing, Keeping
<1>4. BarrierInv(prog')
  BY <1>1 DEF PInv, BarrierInv, Racing, NotReady
<1>5. StatusInv(prog')
  BY <1>1 DEF PInv, StatusInv, Racing, Keeping
<1>6. MainInv(prog')
  BY <1>1 DEF PInv, MainInv, Racing
<1> QED
  BY <1>0, <1>2, <1>3, <1>4, <1>5, <1>6 DEF PInv

\* The first trylock keeps the invariant: it has one winner.
LEMMA TryLockInv ==
  ASSUME NEW t \in Threads, PInv(prog), TryLock(t)
  PROVE  PInv(prog')
<1> USE ThreadsAssumption DEF Threads
<1>1. CASE prog.owner = Nobody
  <2>0. /\ prog \in Progs /\ prog' \in Progs
        /\ prog'.pc = [prog.pc EXCEPT ![t] = "barrier2"]
        /\ prog'.acquired = [prog.acquired EXCEPT ![t] = TRUE]
        /\ prog'.owner = t
        /\ prog'.again = prog.again /\ prog'.tstatus = prog.tstatus
        /\ prog'.status = prog.status
        /\ prog'.main = prog.main /\ prog'.i = prog.i
    BY <1>1, ZenonT(60) DEF PInv, Progs, Mains, TryLock, Racing, Keeping
  <2>1. /\ prog.pc[t] = "try1"
        /\ \A u \in Threads : prog'.pc[u] = IF u = t THEN "barrier2" ELSE prog.pc[u]
        /\ \A u \in Threads : prog'.acquired[u] <=> u = t \/ prog.acquired[u]
        /\ prog'.owner = t
        /\ prog'.again = prog.again /\ prog'.tstatus = prog.tstatus
        /\ prog'.status = prog.status /\ prog'.main = prog.main
        /\ prog'.i = prog.i
    BY <1>1, <2>0 DEF Progs, TryLock
  <2>2. LockInv(prog')
    BY <1>1, <2>1 DEF PInv, LockInv, Racing, Keeping, BarrierInv, NotReady
  <2>3. WinnerInv(prog')
    <3>1. \A u \in Threads : ~prog.acquired[u]
      <4>1. \A u \in Threads : prog.pc[u] \notin {"poll", "try2", "unlock", "gone"}
        BY <2>1 DEF PInv, BarrierInv, NotReady, Racing
      <4>2. \A u \in Threads : prog.pc[u] \in Racing \cup {"barrier2", "inside2"}
        BY <2>0, <4>1 DEF Progs, Keeping
      <4> QED BY <1>1, <4>2 DEF PInv, LockInv, Keeping
    <3>2. \A u \in Threads : prog'.acquired[u] <=> u = t
      BY <2>1, <3>1
    <3> QED BY <3>2 DEF WinnerInv
  <2>4. BarrierInv(prog')
    BY <1>1, <2>1 DEF PInv, BarrierInv, Racing, NotReady
  <2>5. StatusInv(prog')
    BY <1>1, <2>1 DEF PInv, StatusInv, Racing, Keeping
  <2>6. MainInv(prog')
    BY <1>1, <2>1 DEF PInv, MainInv, Racing
  <2> QED
    BY <2>0, <2>2, <2>3, <2>4, <2>5, <2>6 DEF PInv
<1>2. CASE prog.owner # Nobody
  <2>0. /\ prog \in Progs /\ prog' \in Progs
        /\ prog'.pc = [prog.pc EXCEPT ![t] = "barrier2"]
        /\ prog'.acquired = prog.acquired /\ prog'.again = prog.again
        /\ prog'.tstatus = prog.tstatus
        /\ prog'.owner = prog.owner /\ prog'.status = prog.status
        /\ prog'.main = prog.main
        /\ prog'.i = prog.i
    BY <1>2, ZenonT(60) DEF PInv, Progs, Mains, TryLock, Racing, Keeping
  <2>1. /\ prog.pc[t] = "try1"
        /\ prog.owner \in Threads
        /\ \A u \in Threads : prog'.pc[u] = IF u = t THEN "barrier2" ELSE prog.pc[u]
        /\ prog'.acquired = prog.acquired /\ prog'.again = prog.again
        /\ prog'.tstatus = prog.tstatus /\ prog'.owner = prog.owner
        /\ prog'.status = prog.status /\ prog'.main = prog.main
        /\ prog'.i = prog.i
    BY <1>2, <2>0 DEF Progs, TryLock
  <2>2. LockInv(prog')
    BY <1>2, <2>1 DEF PInv, LockInv, Racing, Keeping, BarrierInv, NotReady
  <2>3. WinnerInv(prog')
    BY <1>2, <2>1 DEF PInv, WinnerInv, Racing, Keeping, BarrierInv, LockInv, NotReady
  <2>4. BarrierInv(prog')
    BY <1>2, <2>1 DEF PInv, BarrierInv, Racing, NotReady
  <2>5. StatusInv(prog')
    BY <1>2, <2>1 DEF PInv, StatusInv, Racing, Keeping
  <2>6. MainInv(prog')
    BY <1>2, <2>1 DEF PInv, MainInv, Racing
  <2> QED
    BY <2>0, <2>2, <2>3, <2>4, <2>5, <2>6 DEF PInv
<1> QED
  BY <1>1, <1>2

\* A thread that reaches the cr_ready barrier keeps the invariant.
LEMMA Arrive2Inv ==
  ASSUME NEW t \in Threads, PInv(prog), Arrive2(t)
  PROVE  PInv(prog')
<1> USE ThreadsAssumption DEF Threads
<1>0. /\ prog \in Progs /\ prog' \in Progs
      /\ prog'.pc = [prog.pc EXCEPT ![t] = "inside2"]
      /\ prog'.acquired = prog.acquired /\ prog'.again = prog.again
      /\ prog'.tstatus = prog.tstatus
      /\ prog'.owner = prog.owner /\ prog'.status = prog.status
      /\ prog'.main = prog.main
      /\ prog'.i = prog.i
  BY ZenonT(60) DEF PInv, Progs, Mains, Arrive2, Racing, Keeping
<1>1. /\ prog.pc[t] = "barrier2"
      /\ \A u \in Threads : prog'.pc[u] = IF u = t THEN "inside2" ELSE prog.pc[u]
      /\ prog'.acquired = prog.acquired /\ prog'.again = prog.again
      /\ prog'.tstatus = prog.tstatus /\ prog'.owner = prog.owner
      /\ prog'.status = prog.status /\ prog'.main = prog.main
      /\ prog'.i = prog.i
  BY <1>0 DEF Progs, Arrive2
<1>2. LockInv(prog')
  BY <1>1 DEF PInv, LockInv, Racing, Keeping
<1>3. WinnerInv(prog')
  BY <1>1 DEF PInv, WinnerInv, Racing, Keeping
<1>4. BarrierInv(prog')
  BY <1>1 DEF PInv, BarrierInv, Racing, NotReady
<1>5. StatusInv(prog')
  BY <1>1 DEF PInv, StatusInv, Racing, Keeping
<1>6. MainInv(prog')
  BY <1>1 DEF PInv, MainInv, Racing
<1> QED
  BY <1>0, <1>2, <1>3, <1>4, <1>5, <1>6 DEF PInv

\* A thread that leaves the cr_ready barrier, where everybody has
\* tried once, keeps the invariant.
LEMMA Leave2Inv ==
  ASSUME NEW t \in Threads, PInv(prog), Leave2(t)
  PROVE  PInv(prog')
<1> USE ThreadsAssumption DEF Threads
<1>0. /\ prog \in Progs /\ prog' \in Progs
      /\ prog'.pc = [prog.pc EXCEPT ![t] = "poll"]
      /\ prog'.acquired = prog.acquired /\ prog'.again = prog.again
      /\ prog'.tstatus = prog.tstatus
      /\ prog'.owner = prog.owner /\ prog'.status = prog.status
      /\ prog'.main = prog.main
      /\ prog'.i = prog.i
  BY ZenonT(60) DEF PInv, Progs, Mains, Leave2, Racing, Keeping
<1>1. /\ prog.pc[t] = "inside2"
      /\ \A u \in Threads : prog.pc[u] \notin NotReady
      /\ \A u \in Threads : prog'.pc[u] = IF u = t THEN "poll" ELSE prog.pc[u]
      /\ prog'.acquired = prog.acquired /\ prog'.again = prog.again
      /\ prog'.tstatus = prog.tstatus /\ prog'.owner = prog.owner
      /\ prog'.status = prog.status /\ prog'.main = prog.main
      /\ prog'.i = prog.i
  BY <1>0 DEF Progs, Leave2
<1>2. LockInv(prog')
  BY <1>1 DEF PInv, LockInv, Racing, Keeping
<1>3. WinnerInv(prog')
  BY <1>1 DEF PInv, WinnerInv, Racing, Keeping
<1>4. BarrierInv(prog')
  BY <1>1 DEF PInv, BarrierInv, Racing, NotReady
<1>5. StatusInv(prog')
  BY <1>1 DEF PInv, StatusInv, Racing, Keeping
<1>6. MainInv(prog')
  BY <1>1 DEF PInv, MainInv, Racing
<1> QED
  BY <1>0, <1>2, <1>3, <1>4, <1>5, <1>6 DEF PInv

\* A thread that sees test-done keeps the invariant.
LEMMA SeeTestDoneInv ==
  ASSUME NEW t \in Threads, PInv(prog), SeeTestDone(t)
  PROVE  PInv(prog')
<1> USE ThreadsAssumption DEF Threads
<1>0. /\ prog \in Progs /\ prog' \in Progs
      /\ prog'.pc = [prog.pc EXCEPT ![t] = "try2"]
      /\ prog'.acquired = prog.acquired /\ prog'.again = prog.again
      /\ prog'.tstatus = prog.tstatus
      /\ prog'.owner = prog.owner /\ prog'.status = prog.status
      /\ prog'.main = prog.main
      /\ prog'.i = prog.i
  BY ZenonT(60) DEF PInv, Progs, Mains, SeeTestDone, Racing, Keeping
<1>1. /\ prog.pc[t] = "poll"
      /\ \A u \in Threads : prog'.pc[u] = IF u = t THEN "try2" ELSE prog.pc[u]
      /\ prog'.acquired = prog.acquired /\ prog'.again = prog.again
      /\ prog'.tstatus = prog.tstatus /\ prog'.owner = prog.owner
      /\ prog'.status = prog.status /\ prog'.main = prog.main
      /\ prog'.i = prog.i
  BY <1>0 DEF Progs, SeeTestDone
<1>2. LockInv(prog')
  BY <1>1 DEF PInv, LockInv, Racing, Keeping
<1>3. WinnerInv(prog')
  BY <1>1 DEF PInv, WinnerInv, Racing, Keeping
<1>4. BarrierInv(prog')
  BY <1>1 DEF PInv, BarrierInv, Racing, NotReady
<1>5. StatusInv(prog')
  BY <1>1 DEF PInv, StatusInv, Racing, Keeping
<1>6. MainInv(prog')
  BY <1>1 DEF PInv, MainInv, Racing
<1> QED
  BY <1>0, <1>2, <1>3, <1>4, <1>5, <1>6 DEF PInv

\* The second trylock keeps the invariant: the winner of the first does not
\* get the mutex again.
LEMMA TryAgainInv ==
  ASSUME NEW t \in Threads, PInv(prog), TryAgain(t)
  PROVE  PInv(prog')
<1> USE ThreadsAssumption DEF Threads
<1>1. CASE prog.owner = Nobody
  <2>0. /\ prog \in Progs /\ prog' \in Progs
        /\ prog'.pc = [prog.pc EXCEPT ![t] = "unlock"]
        /\ prog'.again = [prog.again EXCEPT ![t] = TRUE]
        /\ prog'.tstatus = [prog.tstatus EXCEPT ![t] = IF prog.acquired[t] THEN 1 ELSE 0]
        /\ prog'.owner = t
        /\ prog'.acquired = prog.acquired /\ prog'.status = prog.status
        /\ prog'.main = prog.main
        /\ prog'.i = prog.i
    BY <1>1, ZenonT(60) DEF PInv, Progs, Mains, TryAgain, Racing, Keeping
  <2>1. /\ prog.pc[t] = "try2"
        /\ \A u \in Threads : prog'.pc[u] = IF u = t THEN "unlock" ELSE prog.pc[u]
        /\ \A u \in Threads : prog'.again[u] <=> u = t \/ prog.again[u]
        /\ \A u \in Threads : prog'.tstatus[u] =
             IF u = t THEN (IF prog.acquired[t] THEN 1 ELSE 0) ELSE prog.tstatus[u]
        /\ prog'.owner = t
        /\ prog'.acquired = prog.acquired /\ prog'.status = prog.status
        /\ prog'.main = prog.main /\ prog'.i = prog.i
    BY <1>1, <2>0 DEF Progs, TryAgain
  <2>2. LockInv(prog')
    BY <1>1, <2>1 DEF PInv, LockInv, Racing, Keeping, BarrierInv, NotReady
  <2>3. WinnerInv(prog')
    BY <1>1, <2>1 DEF PInv, WinnerInv, Racing, Keeping
  <2>4. BarrierInv(prog')
    BY <1>1, <2>1 DEF PInv, BarrierInv, Racing, NotReady
  <2>5. StatusInv(prog')
    BY <1>1, <2>1 DEF PInv, StatusInv, Racing, Keeping, LockInv
  <2>6. MainInv(prog')
    BY <1>1, <2>1 DEF PInv, MainInv, Racing
  <2> QED
    BY <2>0, <2>2, <2>3, <2>4, <2>5, <2>6 DEF PInv
<1>2. CASE prog.owner # Nobody
  <2>0. /\ prog \in Progs /\ prog' \in Progs
        /\ prog'.pc = [prog.pc EXCEPT ![t] = "unlock"]
        /\ prog'.tstatus = [prog.tstatus EXCEPT ![t] = 0]
        /\ prog'.acquired = prog.acquired /\ prog'.again = prog.again
        /\ prog'.owner = prog.owner
        /\ prog'.status = prog.status /\ prog'.main = prog.main
        /\ prog'.i = prog.i
    BY <1>2, ZenonT(60) DEF PInv, Progs, Mains, TryAgain, Racing, Keeping
  <2>1. /\ prog.pc[t] = "try2"
        /\ \A u \in Threads : prog'.pc[u] = IF u = t THEN "unlock" ELSE prog.pc[u]
        /\ \A u \in Threads : prog'.tstatus[u] = IF u = t THEN 0 ELSE prog.tstatus[u]
        /\ prog'.acquired = prog.acquired /\ prog'.again = prog.again
        /\ prog'.owner = prog.owner /\ prog'.status = prog.status
        /\ prog'.main = prog.main /\ prog'.i = prog.i
    BY <1>2, <2>0 DEF Progs, TryAgain
  <2>2. LockInv(prog')
    BY <1>2, <2>1 DEF PInv, LockInv, Racing, Keeping, BarrierInv, NotReady
  <2>3. WinnerInv(prog')
    BY <1>2, <2>1 DEF PInv, WinnerInv, Racing, Keeping
  <2>4. BarrierInv(prog')
    BY <1>2, <2>1 DEF PInv, BarrierInv, Racing, NotReady
  <2>5. StatusInv(prog')
    BY <1>2, <2>1 DEF PInv, StatusInv, Racing, Keeping, LockInv
  <2>6. MainInv(prog')
    BY <1>2, <2>1 DEF PInv, MainInv, Racing
  <2> QED
    BY <2>0, <2>2, <2>3, <2>4, <2>5, <2>6 DEF PInv
<1> QED
  BY <1>1, <1>2

\* pthread_mutex_unlock() keeps the invariant, by the owner or not.
LEMMA UnlockInv ==
  ASSUME NEW t \in Threads, PInv(prog), Unlock(t)
  PROVE  PInv(prog')
<1> USE ThreadsAssumption DEF Threads
<1>1. CASE (prog.acquired[t] \/ prog.again[t]) /\ prog.owner = t
  <2>0. /\ prog \in Progs /\ prog' \in Progs
        /\ prog'.pc = [prog.pc EXCEPT ![t] = "gone"]
        /\ prog'.owner = Nobody
        /\ prog'.acquired = prog.acquired /\ prog'.again = prog.again
        /\ prog'.tstatus = prog.tstatus
        /\ prog'.status = prog.status /\ prog'.main = prog.main
        /\ prog'.i = prog.i
    BY <1>1, ZenonT(60) DEF PInv, Progs, Mains, Unlock, Racing, Keeping
  <2>1. /\ prog.pc[t] = "unlock"
        /\ \A u \in Threads : prog'.pc[u] = IF u = t THEN "gone" ELSE prog.pc[u]
        /\ prog'.owner = Nobody
        /\ prog'.acquired = prog.acquired /\ prog'.again = prog.again
        /\ prog'.tstatus = prog.tstatus /\ prog'.status = prog.status
        /\ prog'.main = prog.main /\ prog'.i = prog.i
    BY <1>1, <2>0 DEF Progs, Unlock
  <2>2. LockInv(prog')
    BY <1>1, <2>1 DEF PInv, LockInv, Racing, Keeping
  <2>3. WinnerInv(prog')
    BY <1>1, <2>1 DEF PInv, WinnerInv, Racing, Keeping
  <2>4. BarrierInv(prog')
    BY <1>1, <2>1 DEF PInv, BarrierInv, Racing, NotReady
  <2>5. StatusInv(prog')
    BY <1>1, <2>1 DEF PInv, StatusInv, Racing, Keeping
  <2>6. MainInv(prog')
    BY <1>1, <2>1 DEF PInv, MainInv, Racing
  <2> QED
    BY <2>0, <2>2, <2>3, <2>4, <2>5, <2>6 DEF PInv
<1>2. CASE ~((prog.acquired[t] \/ prog.again[t]) /\ prog.owner = t)
  <2>0. /\ prog \in Progs /\ prog' \in Progs
        /\ prog'.pc = [prog.pc EXCEPT ![t] = "gone"]
        /\ prog'.acquired = prog.acquired /\ prog'.again = prog.again
        /\ prog'.tstatus = prog.tstatus
        /\ prog'.owner = prog.owner /\ prog'.status = prog.status
        /\ prog'.main = prog.main
        /\ prog'.i = prog.i
    BY <1>2, ZenonT(60) DEF PInv, Progs, Mains, Unlock, Racing, Keeping
  <2>1. /\ prog.pc[t] = "unlock"
        /\ \A u \in Threads : prog'.pc[u] = IF u = t THEN "gone" ELSE prog.pc[u]
        /\ prog'.acquired = prog.acquired /\ prog'.again = prog.again
        /\ prog'.tstatus = prog.tstatus /\ prog'.owner = prog.owner
        /\ prog'.status = prog.status /\ prog'.main = prog.main
        /\ prog'.i = prog.i
    BY <1>2, <2>0 DEF Progs, Unlock
  <2>2. LockInv(prog')
    BY <1>2, <2>1 DEF PInv, LockInv, Racing, Keeping
  <2>3. WinnerInv(prog')
    BY <1>2, <2>1 DEF PInv, WinnerInv, Racing, Keeping
  <2>4. BarrierInv(prog')
    BY <1>2, <2>1 DEF PInv, BarrierInv, Racing, NotReady
  <2>5. StatusInv(prog')
    BY <1>2, <2>1 DEF PInv, StatusInv, Racing, Keeping
  <2>6. MainInv(prog')
    BY <1>2, <2>1 DEF PInv, MainInv, Racing
  <2> QED
    BY <2>0, <2>2, <2>3, <2>4, <2>5, <2>6 DEF PInv
<1> QED
  BY <1>1, <1>2

\* pthread_create(), and the end of its loop, keep the invariant.
LEMMA CreateThreadInv ==
  ASSUME PInv(prog), CreateThread
  PROVE  PInv(prog')
<1> USE ThreadsAssumption DEF Threads
<1>1. CASE prog.i < N
  <2>0. /\ prog \in Progs
        /\ prog.i \in Threads
        /\ prog' = [prog EXCEPT !.pc = [prog.pc EXCEPT ![prog.i] = "barrier1"],
                               !.i = prog.i + 1]
    BY <1>1 DEF PInv, Progs, CreateThread
  <2>1. /\ prog \in Progs /\ prog' \in Progs
        /\ prog'.pc = [prog.pc EXCEPT ![prog.i] = "barrier1"]
        /\ prog'.i = prog.i + 1
        /\ prog'.acquired = prog.acquired /\ prog'.again = prog.again
        /\ prog'.tstatus = prog.tstatus
        /\ prog'.owner = prog.owner /\ prog'.status = prog.status
        /\ prog'.main = prog.main
    <3>1. /\ prog.i + 1 \in 0 .. N
          /\ [prog.pc EXCEPT ![prog.i] = "barrier1"]
               \in [Threads -> Racing \cup Keeping \cup {"unlock", "gone"}]
      BY <1>1, <2>0 DEF Progs, Racing
    <3>2. prog' \in Progs
      BY <2>0, <3>1, Zenon DEF Progs
    <3> QED
      BY <2>0, <3>2 DEF Progs
  <2>2. LockInv(prog')
    BY <1>1, <2>1 DEF PInv, Progs, CreateThread, LockInv, Racing, Keeping, MainInv
  <2>3. WinnerInv(prog')
    BY <1>1, <2>1 DEF PInv, Progs, CreateThread, WinnerInv, Racing, Keeping, MainInv
  <2>4. BarrierInv(prog')
    BY <1>1, <2>1 DEF PInv, Progs, CreateThread, BarrierInv, Racing, NotReady, MainInv
  <2>5. StatusInv(prog')
    BY <1>1, <2>1 DEF PInv, Progs, CreateThread, StatusInv, Racing, Keeping, MainInv
  <2>6. MainInv(prog')
    BY <1>1, <2>1 DEF PInv, Progs, CreateThread, MainInv, Racing
  <2> QED
    BY <2>1, <2>2, <2>3, <2>4, <2>5, <2>6 DEF PInv
<1>2. CASE ~(prog.i < N)
  <2>1. /\ prog \in Progs /\ prog' \in Progs
        /\ prog'.main = "barrier"
        /\ prog'.i = 0
        /\ prog'.pc = prog.pc /\ prog'.acquired = prog.acquired
        /\ prog'.again = prog.again
        /\ prog'.tstatus = prog.tstatus /\ prog'.owner = prog.owner
        /\ prog'.status = prog.status
    <3>1. prog \in Progs /\ prog' = [prog EXCEPT !.main = "barrier", !.i = 0]
      BY <1>2 DEF PInv, CreateThread
    <3>2. prog' \in Progs
      <4>1. 0 \in 0 .. N
        OBVIOUS
      <4> QED
        BY <3>1, <4>1, Zenon DEF Progs, Mains
    <3> QED
      BY <3>1, <3>2 DEF Progs
  <2>2. LockInv(prog')
    BY <1>2, <2>1 DEF PInv, Progs, CreateThread, LockInv, Racing, Keeping, MainInv
  <2>3. WinnerInv(prog')
    BY <1>2, <2>1 DEF PInv, Progs, CreateThread, WinnerInv, Racing, Keeping, MainInv
  <2>4. BarrierInv(prog')
    BY <1>2, <2>1 DEF PInv, Progs, CreateThread, BarrierInv, Racing, NotReady, MainInv
  <2>5. StatusInv(prog')
    BY <1>2, <2>1 DEF PInv, Progs, CreateThread, StatusInv, Racing, Keeping, MainInv
  <2>6. MainInv(prog')
    BY <1>2, <2>1 DEF PInv, Progs, CreateThread, MainInv, Racing
  <2> QED
    BY <2>1, <2>2, <2>3, <2>4, <2>5, <2>6 DEF PInv
<1> QED
  BY <1>1, <1>2

\* main() reaching the cr_ready barrier keeps the invariant.
LEMMA MainArriveInv ==
  ASSUME PInv(prog), MainArrive
  PROVE  PInv(prog')
<1> USE ThreadsAssumption DEF Threads
<1>0. /\ prog \in Progs /\ prog' \in Progs
      /\ prog'.main = "inside"
      /\ prog'.pc = prog.pc /\ prog'.acquired = prog.acquired
      /\ prog'.again = prog.again
      /\ prog'.tstatus = prog.tstatus /\ prog'.owner = prog.owner
      /\ prog'.status = prog.status
      /\ prog'.i = prog.i
  BY ZenonT(60) DEF PInv, Progs, Mains, MainArrive, Racing, Keeping
<1>1. /\ prog.main = "barrier" /\ prog'.main = "inside"
      /\ prog'.pc = prog.pc /\ prog'.acquired = prog.acquired
      /\ prog'.again = prog.again /\ prog'.tstatus = prog.tstatus
      /\ prog'.owner = prog.owner /\ prog'.status = prog.status
      /\ prog'.i = prog.i
  BY <1>0 DEF Progs, MainArrive
<1>2. LockInv(prog')
  BY <1>1 DEF PInv, LockInv, Racing, Keeping
<1>3. WinnerInv(prog')
  BY <1>1 DEF PInv, WinnerInv, Racing, Keeping
<1>4. BarrierInv(prog')
  BY <1>1 DEF PInv, BarrierInv, Racing, NotReady
<1>5. StatusInv(prog')
  BY <1>1 DEF PInv, StatusInv, Racing, Keeping
<1>6. MainInv(prog')
  BY <1>1 DEF PInv, MainInv, Racing
<1> QED
  BY <1>0, <1>2, <1>3, <1>4, <1>5, <1>6 DEF PInv

\* main() leaving the cr_ready barrier keeps the invariant.
LEMMA MainLeaveInv ==
  ASSUME PInv(prog), MainLeave
  PROVE  PInv(prog')
<1> USE ThreadsAssumption DEF Threads
<1>0. /\ prog \in Progs /\ prog' \in Progs
      /\ prog'.main = "ready"
      /\ prog'.pc = prog.pc /\ prog'.acquired = prog.acquired
      /\ prog'.again = prog.again
      /\ prog'.tstatus = prog.tstatus /\ prog'.owner = prog.owner
      /\ prog'.status = prog.status
      /\ prog'.i = prog.i
  BY DEF PInv, Progs, Mains, MainLeave, Racing, Keeping
<1>1. /\ prog.main = "inside" /\ prog'.main = "ready"
      /\ \A u \in Threads : prog.pc[u] \notin NotReady
      /\ prog'.pc = prog.pc /\ prog'.acquired = prog.acquired
      /\ prog'.again = prog.again /\ prog'.tstatus = prog.tstatus
      /\ prog'.owner = prog.owner /\ prog'.status = prog.status
      /\ prog'.i = prog.i
  BY <1>0 DEF Progs, MainLeave
<1>2. LockInv(prog')
  BY <1>1 DEF PInv, LockInv, Racing, Keeping
<1>3. WinnerInv(prog')
  BY <1>1 DEF PInv, WinnerInv, Racing, Keeping
<1>4. BarrierInv(prog')
  BY <1>1 DEF PInv, BarrierInv, Racing, NotReady
<1>5. StatusInv(prog')
  BY <1>1 DEF PInv, StatusInv, Racing, Keeping
<1>6. MainInv(prog')
  BY <1>1 DEF PInv, MainInv, Racing
<1> QED
  BY <1>0, <1>2, <1>3, <1>4, <1>5, <1>6 DEF PInv

\* set_checkpoint_ready() keeps the invariant.
LEMMA SetReadyInv ==
  ASSUME PInv(prog), SetReady
  PROVE  PInv(prog')
<1> USE ThreadsAssumption DEF Threads
<1>0. /\ prog \in Progs /\ prog' \in Progs
      /\ prog'.main = "join"
      /\ prog'.pc = prog.pc /\ prog'.acquired = prog.acquired
      /\ prog'.again = prog.again
      /\ prog'.tstatus = prog.tstatus /\ prog'.owner = prog.owner
      /\ prog'.status = prog.status
      /\ prog'.i = prog.i
  BY ZenonT(60) DEF PInv, Progs, Mains, SetReady, Racing, Keeping
<1>1. /\ prog.main = "ready" /\ prog'.main = "join"
      /\ prog'.pc = prog.pc /\ prog'.acquired = prog.acquired
      /\ prog'.again = prog.again /\ prog'.tstatus = prog.tstatus
      /\ prog'.owner = prog.owner /\ prog'.status = prog.status
      /\ prog'.i = prog.i
  BY <1>0 DEF Progs, SetReady
<1>2. LockInv(prog')
  BY <1>1 DEF PInv, LockInv, Racing, Keeping
<1>3. WinnerInv(prog')
  BY <1>1 DEF PInv, WinnerInv, Racing, Keeping
<1>4. BarrierInv(prog')
  BY <1>1 DEF PInv, BarrierInv, Racing, NotReady
<1>5. StatusInv(prog')
  BY <1>1 DEF PInv, StatusInv, Racing, Keeping
<1>6. MainInv(prog')
  BY <1>1 DEF PInv, MainInv, Racing
<1> QED
  BY <1>0, <1>2, <1>3, <1>4, <1>5, <1>6 DEF PInv

\* pthread_join(), and the end of its loop, keep the invariant: no thread
\* has a status other than 0 to hand over.
LEMMA JoinThreadInv ==
  ASSUME PInv(prog), JoinThread
  PROVE  PInv(prog')
<1> USE ThreadsAssumption DEF Threads
<1>1. CASE prog.i < N
  <2>0. /\ prog \in Progs /\ prog' \in Progs
        /\ prog'.status = IF prog.tstatus[prog.i] # 0 THEN 1 ELSE prog.status
        /\ prog'.i = prog.i + 1
        /\ prog'.pc = prog.pc /\ prog'.acquired = prog.acquired
        /\ prog'.again = prog.again
        /\ prog'.tstatus = prog.tstatus /\ prog'.owner = prog.owner
        /\ prog'.main = prog.main
    <3>1. /\ prog \in Progs
          /\ prog' = [prog EXCEPT !.status = IF prog.tstatus[prog.i] # 0 THEN 1 ELSE prog.status,
                                 !.i = prog.i + 1]
      BY <1>1 DEF PInv, JoinThread
    <3>2. /\ prog.i + 1 \in 0 .. N
          /\ (IF prog.tstatus[prog.i] # 0 THEN 1 ELSE prog.status) \in {0, 1}
      BY <1>1, <3>1 DEF Progs
    <3>3. prog' \in Progs
      BY <3>1, <3>2, Zenon DEF Progs
    <3> QED
      BY <3>1, <3>3 DEF Progs
  <2>1. /\ prog.main = "join" /\ prog.pc[prog.i] = "gone"
        /\ prog.i \in Threads /\ prog'.i = prog.i + 1
        /\ prog'.status = prog.status
        /\ prog'.pc = prog.pc /\ prog'.acquired = prog.acquired
        /\ prog'.again = prog.again /\ prog'.tstatus = prog.tstatus
        /\ prog'.owner = prog.owner /\ prog'.main = prog.main
    <3>1. prog.main = "join" /\ prog.pc[prog.i] = "gone" /\ prog.i \in Threads
      BY <1>1, <2>0 DEF Progs, JoinThread
    <3>2. prog.tstatus[prog.i] = 0
      BY <3>1 DEF PInv, StatusInv
    <3> QED BY <2>0, <3>1, <3>2
  <2>2. LockInv(prog')
    BY <1>1, <2>1 DEF PInv, LockInv, Racing, Keeping
  <2>3. WinnerInv(prog')
    BY <1>1, <2>1 DEF PInv, WinnerInv, Racing, Keeping
  <2>4. BarrierInv(prog')
    BY <1>1, <2>1 DEF PInv, BarrierInv, Racing, NotReady
  <2>5. StatusInv(prog')
    BY <1>1, <2>1 DEF PInv, StatusInv, Racing, Keeping
  <2>6. MainInv(prog')
    BY <1>1, <2>1 DEF PInv, MainInv, Racing
  <2> QED
    BY <2>0, <2>2, <2>3, <2>4, <2>5, <2>6, SMTT(60) DEF PInv
<1>2. CASE ~(prog.i < N)
  <2>1. /\ prog \in Progs /\ prog' \in Progs
        /\ prog'.main = "exit"
        /\ prog'.pc = prog.pc /\ prog'.acquired = prog.acquired
        /\ prog'.again = prog.again
        /\ prog'.tstatus = prog.tstatus /\ prog'.owner = prog.owner
        /\ prog'.status = prog.status
        /\ prog'.i = prog.i
    BY <1>2, ZenonT(60) DEF PInv, Progs, Mains, JoinThread, Racing, Keeping
  <2>2. LockInv(prog')
    BY <1>2, <2>1 DEF PInv, Progs, JoinThread, LockInv, Racing, Keeping
  <2>3. WinnerInv(prog')
    BY <1>2, <2>1 DEF PInv, Progs, JoinThread, WinnerInv, Racing, Keeping
  <2>4. BarrierInv(prog')
    BY <1>2, <2>1 DEF PInv, Progs, JoinThread, BarrierInv, Racing, NotReady
  <2>5. StatusInv(prog')
    BY <1>2, <2>1 DEF PInv, Progs, JoinThread, StatusInv, Racing, Keeping
  <2>6. MainInv(prog')
    BY <1>2, <2>1 DEF PInv, Progs, JoinThread, MainInv, Racing
  <2> QED
    BY <2>1, <2>2, <2>3, <2>4, <2>5, <2>6 DEF PInv
<1> QED
  BY <1>1, <1>2

-----------------------------------------------------------------------------
\* No step of the program breaks PInv; the script only replaces the program by
\* a fresh one, by its image, or by nothing.
LEMMA InitInv == ShInit => IInv
<1> SUFFICES ASSUME ShInit PROVE IInv
  OBVIOUS
<1>1. 1 \in 1 .. LastCnt
  BY LoopAssumption
<1>2. sh \in [pc : ShPcs, cnt : 1 .. LastCnt, status : {0, 1}]
  BY <1>1, Zenon DEF ShInit, ShPcs
<1> QED
  BY <1>2, ZenonT(60) DEF ShInit, IInv, ShOK

\* No step of the program or of the script breaks the invariant.
LEMMA NextInv == IInv /\ [Next]_kvars => IInv'
<1> SUFFICES ASSUME IInv, [Next]_kvars PROVE IInv'
  OBVIOUS
<1> USE LoopAssumption
<1>1. CASE Main
  <2>1. PInv(prog')
    <3>1. PInv(prog)
      BY <1>1 DEF IInv, Main, Running
    <3> QED
      BY <1>1, <3>1, CreateThreadInv, MainArriveInv, MainLeaveInv, SetReadyInv,
         JoinThreadInv DEF Main, MainStep
  <2>2. ready' \in BOOLEAN
    BY <1>1, ZenonT(60) DEF IInv, ShOK, Main, MainStep, CreateThread, MainArrive, MainLeave,
       SetReady, JoinThread
  <2> QED
    BY <1>1, <2>1, <2>2 DEF IInv, ShOK, Main
<1>2. ASSUME NEW t \in Threads, Thread(t) PROVE IInv'
  <2>1. PInv(prog')
    <3>1. PInv(prog)
      BY <1>2 DEF IInv, Thread, Running
    <3> QED
      BY <1>2, <3>1, Arrive1Inv, Leave1Inv, TryLockInv, Arrive2Inv, Leave2Inv,
         SeeTestDoneInv, TryAgainInv, UnlockInv DEF Thread, ThreadStep
  <2> QED
    BY <1>2, <2>1 DEF IInv, ShOK, Thread, ThreadStep
<1>3. CASE Start(Fresh)
  BY <1>3, FreshInv, ZenonT(60) DEF IInv, ShOK, ShPcs, Start, Goto
<1>4. CASE LoopEnds
  BY <1>4 DEF IInv, ShOK, ShPcs, LoopEnds, Goto
<1>5. CASE AwaitReady \/ NoReady \/ Freeze \/ Kill \/ FindRestart \/ TouchTestDone
  BY <1>5, ZenonT(60) DEF IInv, ShOK, ShPcs, AwaitReady, NoReady, Freeze, Kill, FindRestart,
     TouchTestDone, Goto, Fail
<1>6. CASE Checkpoint
  BY <1>6, ZenonT(60) DEF IInv, ShOK, ShPcs, Checkpoint, Goto, Fail
<1>7. CASE Thaw
  BY <1>7, ZenonT(60) DEF IInv, ShOK, ShPcs, Thaw, Goto
<1>8. CASE Restart
  BY <1>8 DEF IInv, ShOK, ShPcs, Restart, Goto
<1>9. CASE WaitRestart
  <2>1. /\ sh \in [pc : ShPcs, cnt : 1 .. LastCnt, status : {0, 1}]
        /\ sh.cnt < LastCnt
        /\ sh' = [sh EXCEPT !.pc = "start", !.cnt = sh.cnt + 1]
    BY <1>9 DEF IInv, ShOK, WaitRestart
  <2>2. sh.cnt + 1 \in 1 .. LastCnt
    BY <2>1
  <2>3. sh' \in [pc : ShPcs, cnt : 1 .. LastCnt, status : {0, 1}]
    BY <2>1, <2>2, Zenon DEF ShPcs
  <2>4. sh'.pc = "start"
    BY <2>1
  <2> QED
    BY <1>9, <2>3, <2>4 DEF IInv, ShOK, WaitRestart
<1>10. CASE UNCHANGED kvars
  BY <1>10 DEF IInv, ShOK, kvars
<1> QED
  BY <1>1, <1>2, <1>3, <1>4, <1>5, <1>6, <1>7, <1>8, <1>9, <1>10
     DEF Next, Script, ShNext, Over

\* The invariant holds throughout every run of pthread4 and its script.
LEMMA IInvAlways == Spec => []IInv
  BY InitInv, NextInv, PTL DEF Spec

-----------------------------------------------------------------------------
(* pthread4 and its script never leave their types, for every number of    *)
(* threads and iterations: no index of tstatus or of tid_list out of       *)
(* range, no iteration past the last.                                      *)
THEOREM TypeCorrect == Spec => []TypeOK
<1>1. IInv => TypeOK
  BY DEF IInv, TypeOK, PInv
<1> QED
  BY <1>1, IInvAlways, PTL

(* Whatever the number of threads, when checkpoint-ready is announced      *)
(* exactly one of them holds the mutex, before a checkpoint as after a     *)
(* restart, and until it unlocks it.                                       *)
THEOREM OneHolderAlways == Spec => []OneHolder
<1>1. ASSUME IInv, prog # None, prog.main \in {"ready", "join", "exit"}
      PROVE  \E t \in Threads :
                /\ prog.acquired[t]
                /\ \A u \in Threads : prog.acquired[u] => u = t
                /\ prog.pc[t] # "gone" => prog.owner = t
  <2>1. PInv(prog)
    BY <1>1 DEF IInv
  <2>2. 0 \in Threads /\ prog.pc[0] \notin Racing
    BY <1>1, <2>1, ThreadsAssumption DEF PInv, BarrierInv, NotReady, Threads
  <2>3. PICK t \in Threads : prog.acquired[t]
    BY <2>1, <2>2 DEF PInv, WinnerInv
  <2>4. \A u \in Threads : prog.acquired[u] => u = t
    BY <2>1, <2>3 DEF PInv, WinnerInv
  <2>5. prog.pc[t] # "gone" => prog.owner = t
    BY <2>1, <2>3 DEF PInv, LockInv, Progs
  <2> QED
    BY <2>3, <2>4, <2>5
<1>2. IInv => OneHolder
  BY <1>1 DEF OneHolder
<1> QED
  BY <1>2, IInvAlways, PTL

(* A faithful restart never makes pthread4 report that a thread lost its   *)
(* mutex: the exit status is 0.                                            *)
THEOREM NoFalseFailAlways == Spec => []NoFalseFail
<1>1. IInv => NoFalseFail
  BY DEF IInv, PInv, StatusInv, NoFalseFail
<1> QED
  BY <1>1, IInvAlways, PTL

(* The mutex is free when main() has joined every thread.                  *)
THEOREM ReleasedAtExitAlways == Spec => []ReleasedAtExit
<1>1. IInv => ReleasedAtExit
  BY DEF IInv, PInv, Progs, MainInv, LockInv, ReleasedAtExit
<1> QED
  BY <1>1, IInvAlways, PTL
=============================================================================
