----------------------------- MODULE CounterTest -----------------------------
(***************************************************************************)
(* counterloop/: cloop_serial.sh, which checkpoints, kills and restarts    *)
(* one counter again and again, and cloop_parallel.sh, which does it once  *)
(* with many, with crcounter.c, which writes a growing number to           *)
(* counter_out.  Everything is a function of the job.  sh.part is the      *)
(* iteration of the first script and the index of the loops over jobs in   *)
(* the second, sh.sub the subshells of the second.                         *)
(***************************************************************************)
EXTENDS CommonSh, FiniteSets

CONSTANTS
  NumJobs,     \* NUMJOBS of cloop_parallel.sh
  NumLoops,    \* NUMLOOPS of cloop_serial.sh
  MaxCount     \* stands for itself and all greater numbers

CounterTests == {"serial", "parallel"}
Jobs == IF test = "parallel" THEN 1 .. NumJobs ELSE {1}

(* What is in counter_out: a number, or one of these.  Garbled: a number   *)
(* written over the beginning of "BAD".                                    *)
NoFile == -2
Empty == -1
BAD == 0
Garbled == MaxCount + 1
Each(v) == [j \in Jobs |-> v]

(* crcounter.c: fopen(fnam, "r") finds no file, cnt is 1. *)
ReadCounter(j) ==
  /\ prog[j].pc = "read"
  /\ prog' = [prog EXCEPT ![j] = [pc |-> "open", cnt |-> 1]]
  /\ UNCHANGED files

SleepThree(j) ==
  /\ prog[j].pc = "sleep"
  /\ prog' = [prog EXCEPT ![j].pc = "open"]
  /\ UNCHANGED files

(* fopen(fnam, "w") truncates the file. *)
OpenCounter(j) ==
  /\ prog[j].pc = "open"
  /\ prog' = [prog EXCEPT ![j].pc = "close"]
  /\ files' = [files EXCEPT ![j] = Empty]

(* The number goes over whatever the script has written since fopen(). *)
Written(file, n) == IF file = BAD THEN Garbled ELSE n

Succ(n) == IF n < MaxCount THEN n + 1 ELSE n

(* fprintf(f, "%d", ++cnt); fclose(f) *)
CloseCounter(j) ==
  /\ prog[j].pc = "close"
  /\ prog' = [prog EXCEPT ![j] = [pc |-> "sleep", cnt |-> Succ(@.cnt)]]
  /\ files' = [files EXCEPT ![j] = Written(@, Succ(prog[j].cnt))]

CounterProgram(j) ==
  /\ prog[j] # None /\ ~frozen[j]
  /\ ReadCounter(j) \/ SleepThree(j) \/ OpenCounter(j) \/ CloseCounter(j)
  /\ UNCHANGED <<test, sh, image, dying, frozen, timer, kern, races>>

(* A killed counter goes.  One that was running when it was killed, as in  *)
(* cloop_parallel.sh, may finish its fclose() first.                       *)
CounterDies(j) ==
  /\ dying[j] # None /\ ~frozen[j]
  /\ dying' = [dying EXCEPT ![j] = None]
  /\ \/ UNCHANGED <<files, races>>
     \/ /\ test = "parallel" /\ dying[j].pc = "close"
        /\ files' = [files EXCEPT ![j] = Written(@, Succ(dying[j].cnt))]
        /\ Lost(files[j] = BAD, "late")
  /\ UNCHANGED <<test, sh, prog, image, frozen, timer, kern>>

(* restart --pids for job j *)
RestartJob(j) ==
  IF dying[j] # None THEN UNCHANGED <<prog, kern>> /\ Lost(TRUE, "busy")
  ELSE /\ \/ /\ image[j] # None
             /\ prog' = [prog EXCEPT ![j] = image[j]]
             /\ kern' = IF kern = "wrong" THEN kern ELSE "right"
          \/ kern' = "wrong" /\ UNCHANGED prog
       /\ UNCHANGED races

Fresh == [pc |-> "read", cnt |-> 0]
KillJobs == dying' = prog /\ prog' = Each(None)

-----------------------------------------------------------------------------
(* cloop_serial.sh.  It does not wait for the first number: the file that  *)
(* is not there does not hold "BAD".                                       *)
SerialStart ==
  /\ sh.pc = "start"
  /\ prog' = Each(Fresh)
  /\ Goto("find")
  /\ UNCHANGED <<test, image, dying, files, frozen, timer, kern, races>>

(* pid=`pidof crcounter`: the first time it may not have begun. *)
SerialFind ==
  /\ sh.pc = "find"
  /\ \/ (IF prog[1] # None THEN Goto("freeze") ELSE Exit("FAIL")) /\ UNCHANGED races
     \/ prog[1] = Fresh /\ Exit("FAIL") /\ Lost(TRUE, "slow")
  /\ UNCHANGED <<test, prog, image, dying, files, frozen, timer, kern>>

SerialFreeze ==
  /\ sh.pc = "freeze"
  /\ frozen' = Each(TRUE)
  /\ Goto("checkpoint")
  /\ UNCHANGED <<test, prog, image, dying, files, timer, kern, races>>

SerialCheckpoint ==
  /\ sh.pc = "checkpoint"
  /\ image' \in {prog, Each(None)}
  /\ Goto("kill")
  /\ UNCHANGED <<test, prog, dying, files, frozen, timer, kern, races>>

\* Mutant: thaws first.
SerialKillThawed ==
  /\ sh.pc = "kill"
  /\ IF frozen[1] THEN frozen' = Each(FALSE) /\ UNCHANGED <<sh, prog, dying>>
     ELSE KillJobs /\ Goto("thaw") /\ UNCHANGED frozen
  /\ UNCHANGED <<test, image, files, timer, kern, races>>

SerialKill ==
  /\ sh.pc = "kill"
  /\ KillJobs
  /\ Goto("thaw")
  /\ UNCHANGED <<test, image, files, frozen, timer, kern, races>>

SerialThaw ==
  /\ sh.pc = "thaw"
  /\ frozen' = Each(FALSE)
  /\ Goto("gone")
  /\ UNCHANGED <<test, prog, image, dying, files, timer, kern, races>>

(* wait $pid; wait_on_crcounter; echo BAD > counter_out *)
SerialGone ==
  /\ sh.pc = "gone" /\ dying = Each(None)
  /\ files' = Each(BAD)
  /\ Goto("restart")
  /\ UNCHANGED <<test, timer, world>>

SerialRestart ==
  /\ sh.pc = "restart"
  /\ RestartJob(1)
  /\ Goto("poll")
  /\ UNCHANGED <<test, image, dying, files, frozen, timer>>

(* while [ "`cat $dir/counter_out`" == "BAD" ] *)
SerialPoll ==
  /\ sh.pc = "poll" /\ files[1] # BAD
  /\ sh' = IF sh.part < NumLoops THEN [sh EXCEPT !.pc = "find", !.part = @ + 1]
           ELSE [sh EXCEPT !.pc = "count"]
  /\ UNCHANGED <<test, files, timer, world>>

(* numjobs=`ps -ef | grep crcounter ...` *)
Count == Cardinality({j \in Jobs : prog[j] # None})

SerialCount ==
  /\ sh.pc = "count"
  /\ Exit(IF Count = 1 THEN "PASS" ELSE "FAIL")
  /\ KillJobs
  /\ UNCHANGED <<test, image, files, frozen, timer, kern, races>>

SerialScript ==
  \/ SerialStart \/ SerialFind \/ SerialFreeze \/ SerialCheckpoint \/ SerialKill \/ SerialThaw
  \/ SerialGone \/ SerialRestart \/ SerialPoll \/ SerialCount

-----------------------------------------------------------------------------
(* cloop_parallel.sh.  The order of the pids that ps lists need not be     *)
(* that of the directories, but each job is checkpointed once and each     *)
(* image restarted once: sh.sub[j] is the subshell that has job j.         *)
ParallelStart ==
  /\ sh.pc = "start"
  /\ prog' = Each(Fresh)
  /\ SetTimer
  /\ Goto("poll")
  /\ UNCHANGED <<test, image, dying, files, frozen, kern, races>>

(* checkchildren counter_out: one job after the other, from the first one  *)
(* again when a file is missing, empty or "BAD".                           *)
CheckChild(at, next) ==
  /\ sh.pc = at
  /\ sh' = IF files[sh.part] \in {NoFile, Empty, BAD} THEN [sh EXCEPT !.part = 1]
           ELSE IF sh.part < NumJobs THEN [sh EXCEPT !.part = @ + 1]
           ELSE [sh EXCEPT !.pc = next, !.part = 1]
  /\ UNCHANGED <<test, files, timer, world>>

ParallelCancel(at, next) ==
  /\ sh.pc = at
  /\ CancelTimer
  /\ Goto(next)
  /\ UNCHANGED <<test, files, world>>

(* The number of pids, then do_checkpoint & for each; settimer 5 *)
StartCheckpoints ==
  /\ sh.pc = "pids"
  /\ IF Count # NumJobs THEN Exit("FAIL") /\ UNCHANGED timer
     ELSE sh' = [sh EXCEPT !.pc = "ckpts", !.sub = Each("freeze")] /\ SetTimer
  /\ UNCHANGED <<test, files, world>>

Sub(j, at, next) == sh.sub[j] = at /\ sh' = [sh EXCEPT !.sub[j] = next]

(* do_checkpoint: freeze_pid, checkpoint, thaw, touch ckptdone, in a cgroup *)
(* of the job's own.                                                        *)
DoCheckpoint(j) ==
  /\ \/ Sub(j, "freeze", "checkpoint") /\ frozen' = [frozen EXCEPT ![j] = TRUE] /\ UNCHANGED image
     \/ /\ Sub(j, "checkpoint", "thaw")
        /\ \E i \in {None, prog[j]} : image' = [image EXCEPT ![j] = i]
        /\ UNCHANGED frozen
     \/ Sub(j, "thaw", "done") /\ frozen' = [frozen EXCEPT ![j] = FALSE] /\ UNCHANGED image
  /\ UNCHANGED <<test, prog, dying, files, timer, kern, races>>

(* checkchildren ckptdone *)
AwaitCheckpoints ==
  /\ sh.pc = "ckpts" /\ \A j \in Jobs : sh.sub[j] = "done"
  /\ Goto("cancel2")
  /\ UNCHANGED <<test, files, timer, world>>

KillAll ==
  /\ sh.pc = "kill"
  /\ KillJobs
  /\ Goto("bad")
  /\ UNCHANGED <<test, image, files, frozen, timer, kern, races>>

(* echo BAD > counter_out, for one job after the other *)
EchoBad ==
  /\ sh.pc = "bad"
  /\ files' = [files EXCEPT ![sh.part] = BAD]
  /\ sh' = IF sh.part < NumJobs THEN [sh EXCEPT !.part = @ + 1]
           ELSE [sh EXCEPT !.pc = "gone", !.part = 1]
  /\ UNCHANGED <<test, timer, world>>

(* "Waiting for all jobs to die", then restart & for each; settimer 10 *)
StartRestarts ==
  /\ sh.pc = "gone" /\ dying = Each(None)
  /\ sh' = [sh EXCEPT !.pc = "poll2", !.sub = Each("restart")]
  /\ SetTimer
  /\ UNCHANGED <<test, files, world>>

DoRestart(j) ==
  /\ Sub(j, "restart", "restarted")
  /\ RestartJob(j)
  /\ UNCHANGED <<test, image, dying, files, frozen, timer>>

\* Mutant: does not count.
ParallelCountNot ==
  /\ sh.pc = "count"
  /\ Exit("PASS")
  /\ KillJobs
  /\ UNCHANGED <<test, image, files, frozen, timer, kern, races>>

ParallelCount ==
  /\ sh.pc = "count"
  /\ Exit(IF Count = NumJobs THEN "PASS" ELSE "FAIL")
  /\ KillJobs
  /\ UNCHANGED <<test, image, files, frozen, timer, kern, races>>

ParallelScript ==
  \/ ParallelStart \/ CheckChild("poll", "cancel") \/ ParallelCancel("cancel", "pids")
  \/ StartCheckpoints \/ AwaitCheckpoints \/ ParallelCancel("cancel2", "kill") \/ KillAll
  \/ EchoBad \/ StartRestarts \/ CheckChild("poll2", "cancel3")
  \/ ParallelCancel("cancel3", "count") \/ ParallelCount
=============================================================================
