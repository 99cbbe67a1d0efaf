---------------------------- MODULE OneShotTests ----------------------------
(***************************************************************************)
(* The tests of ipc/, userns/, pidns/, bashckpt/, taskfs/ and counterloop/ *)
(* in which a program is checkpointed, killed and restarted.  The variable *)
(* test says which script runs.                                            *)
(*                                                                         *)
(* Most of these scripts order their steps by sleeping, polling and hoping.*)
(* races records where that goes wrong; the properties say which script    *)
(* can lose which race, and that its verdict is right if it loses none.    *)
(***************************************************************************)
EXTENDS CommonSh, Sequences, FiniteSets

CONSTANTS Depth, NumJobs, NumLoops, MaxCount

ASSUME OneShotAssumption ==
  /\ {Depth, NumJobs, NumLoops} \subseteq Nat \ {0}
  /\ MaxCount \in Nat \ {0, 1}

Ipc == INSTANCE IpcTest
Userns == INSTANCE UsernsTest
Creds == INSTANCE CredsTest
Pidns == INSTANCE PidnsTest
Fs == INSTANCE TaskFsTest
Counter == INSTANCE CounterTest

Tests == Ipc!IpcTests \cup Userns!UsernsTests \cup Counter!CounterTests
         \cup {"usertask", "sbits", "pidns", "bash", "taskfs"}

None_(S) == [f \in S |-> Absent]

FilesOf ==
  CASE test \in Ipc!IpcTests       -> None_(Ipc!IpcFiles)
    [] test \in Userns!UsernsTests -> None_(Userns!UsernsFiles)
    [] test = "usertask"           -> None_(Creds!TaskFiles)
    [] test = "sbits"              -> [None_(Creds!SbitsFiles) EXCEPT !["outfile"] = <<>>]
    [] test = "pidns"              -> None_(Pidns!PidnsFiles)
    [] test = "bash"               -> None_(Pidns!BashFiles)
    [] test = "taskfs"             -> None_(Fs!FsFiles)
    [] OTHER                       -> Counter!Each(Counter!NoFile)

Counting == test \in Counter!CounterTests

Init ==
  /\ test \in Tests
  /\ sh = [pc |-> "start", part |-> 1, verdict |-> "none",
           sub |-> IF Counting THEN Counter!Each("none") ELSE <<>>]
  /\ prog = (IF Counting THEN Counter!Each(None) ELSE None)
  /\ image = prog /\ dying = prog
  /\ files = FilesOf
  /\ frozen = (IF Counting THEN Counter!Each(FALSE) ELSE FALSE)
  /\ timer = "off" /\ kern = "none" /\ races = {}

(* The script's next command, unless the signal of its timer is there. *)
Script ==
  /\ timer # "sent" /\ sh.pc # "exit"
  /\ \/ test \in Ipc!IpcTests /\ Ipc!IpcScript
     \/ test \in Userns!UsernsTests /\ Userns!UsernsScript
     \/ test = "usertask" /\ Creds!TaskScript
     \/ test = "sbits" /\ Creds!SbitsScript
     \/ test = "pidns" /\ Pidns!PidnsScript
     \/ test = "bash" /\ Pidns!BashScript
     \/ test = "taskfs" /\ Fs!FsScript
     \/ test = "serial" /\ Counter!SerialScript
     \/ test = "parallel" /\ Counter!ParallelScript

Program ==
  \/ test \in Ipc!IpcTests /\ Ipc!IpcProgram
  \/ test \in Userns!UsernsTests /\ Userns!UsernsProgram
  \/ test = "usertask" /\ Creds!TaskProgram
  \/ test = "sbits" /\ Creds!SbitsProgram
  \/ test = "pidns" /\ Pidns!PidnsProgram
  \/ test = "bash" /\ Pidns!BashProgram
  \/ test = "taskfs" /\ Fs!FsProgram

CounterStep(j) ==
  test = "parallel" /\ (Counter!DoCheckpoint(j) \/ Counter!DoRestart(j))

KilledGoes == IF Counting THEN \E j \in Counter!Jobs : Counter!CounterDies(j) ELSE Reap

\* The script has exited, and may have left tasks behind.
Over == sh.pc = "exit" /\ UNCHANGED vars

Next ==
  \/ Script \/ HandleSigusr1 \/ TimerFires \/ Program \/ KilledGoes \/ Over
  \/ Counting /\ \E j \in Counter!Jobs : Counter!CounterProgram(j) \/ CounterStep(j)

(* Tasks are scheduled, killed tasks go, timers fire, the script's         *)
(* commands return.                                                        *)
Fairness ==
  /\ WF_vars(Script \/ HandleSigusr1) /\ WF_vars(Program) /\ WF_vars(KilledGoes)
  /\ WF_vars(TimerFires)
  /\ \A j \in 1 .. NumJobs :
       WF_vars(Counting /\ j \in Counter!Jobs /\ (Counter!CounterProgram(j) \/ CounterStep(j)))

Spec == Init /\ [][Next]_vars /\ Fairness

-----------------------------------------------------------------------------
Races == {"late", "busy", "empty", "dropped", "slow", "dying", "half", "order"}

(* The races that each script can lose. *)
Exposed ==
  [t \in Tests |->
     CASE t \in {"sem", "shm"}    -> {"late", "busy"}
       [] t = "mq"                -> {"late"}
       [] t = "userns"            -> {"empty"}
       [] t = "depth"             -> {"empty", "busy"}
       [] t \in {"simple", "usertask"} -> {"busy"}
       [] t = "sbits"             -> {"busy", "dropped", "dying"}
       [] t = "pidns"             -> {"late", "busy"}
       [] t = "bash"              -> {"empty", "slow"}
       [] t = "taskfs"            -> {"busy", "dying", "half", "order"}
       [] t = "serial"            -> {"slow"}
       [] t = "parallel"          -> {"late"}]

\* Tests, iterations or jobs that a script numbers.
Parts ==
  CASE test \in {"sem", "shm", "sbits"} -> 1 .. 4
    [] test = "mq"       -> 1 .. 3
    [] test = "taskfs"   -> 1 .. 2
    [] test = "serial"   -> 1 .. NumLoops
    [] test = "parallel" -> 1 .. NumJobs
    [] OTHER             -> {1}

(* Verdicts, timer, files and counters have their type; a script stays     *)
(* among the tests it numbers.                                             *)
TypeOK ==
  /\ test \in Tests
  /\ sh.verdict \in {"none", "PASS", "FAIL", "timeout", "skip", "broken"} /\ sh.part \in Parts
  /\ timer \in {"off", "armed", "sent"} /\ kern \in {"none", "right", "wrong"}
  /\ races \subseteq Races
  /\ IF Counting
     THEN /\ frozen \in [Counter!Jobs -> BOOLEAN]
          /\ files \in [Counter!Jobs -> -2 .. MaxCount + 1]
          /\ \A j \in Counter!Jobs : prog[j] # None => prog[j].cnt \in 0 .. MaxCount
     ELSE frozen \in BOOLEAN /\ DOMAIN files = DOMAIN FilesOf

(* Each script meets only the races that its commands leave open:          *)
(* test-mq.sh and run_userns.sh wait for the killed program before they    *)
(* restart it, cloop_serial.sh kills it while it is frozen, and so on.     *)
RacesKnown == races \subseteq Exposed[test]

(* Where PASS says nothing about the kernel: the program of root, now of   *)
(* another user, may not look at the objects it is there to find; and a    *)
(* restart that is to fail also fails when there was no checkpoint.        *)
Blind ==
  \/ <<test, sh.part>> \in {<<"sem", 2>>, <<"shm", 2>>, <<"shm", 4>>, <<"mq", 2>>}
  \/ <<test, sh.part>> \in {<<"sem", 4>>, <<"simple", 1>>} /\ image = None

(* A script that has lost no race fails only a kernel that was wrong, and  *)
(* passes only one that was right.                                         *)
VerdictRight ==
  races = {} =>
     /\ sh.verdict = "FAIL" => kern = "wrong"
     /\ sh.verdict = "PASS" /\ ~Blind => kern = "right"

(* Whoever is killed while frozen is as far as its image: nothing that it  *)
(* did is done again or lost.                                              *)
KilledAsCheckpointed ==
  /\ test = "bash" /\ dying # None /\ image # None => dying = image
  /\ test = "taskfs" /\ dying # None /\ image # None => Fs!Below(dying) = image
  /\ test = "serial" /\ sh.pc # "exit" /\ dying[1] # None /\ image[1] # None => dying[1] = image[1]

(* These scripts never pass when the restart did not work, whichever race  *)
(* they lose: what they look for in the end comes from the restarted       *)
(* program alone, or they count.                                           *)
NoFalsePass ==
  test \in {"usertask", "bash", "serial", "parallel"} /\ sh.verdict = "PASS" =>
     /\ kern = "right"
     /\ test = "parallel" => \A j \in Counter!Jobs : sh.sub[j] = "restarted"

(* "FAIL: timed out" is for a script that waits for a file: a timer that   *)
(* was cancelled does not end the script later.                            *)
Waiting == {"poll", "cancel", "status", "cancel2", "readytodie", "finished", "pidof", "ckpts",
            "poll2", "cancel3"}

TimedOutWaiting == [][sh.verdict # "timeout" /\ sh'.verdict = "timeout" => sh.pc \in Waiting]_vars

(* Every script ends, whatever the kernel does, except cloop_serial.sh,    *)
(* which waits for a counter that was not restarted.                       *)
ScriptEnds == <>(sh.pc = "exit" \/ (test = "serial" /\ sh.pc = "poll" /\ kern = "wrong"))
=============================================================================
