----------------------------- MODULE CredsTest -----------------------------
(***************************************************************************)
(* userns/: run_usertask.sh with usertask.c (uid, gid and groups of a      *)
(* restarted program) and run_sbits.sh with sbits.c (its securebits).      *)
(***************************************************************************)
EXTENDS CommonSh, Sequences

TaskFiles == {"started", "go", "readytodie", "die", "error", "outfile"}

(* usertask.c.  creds: "501", "groups" (501 with auxiliary groups left) or *)
(* "root".                                                                 *)
SwitchAndOpen ==
  /\ prog.pc = "open"
  /\ prog' = [pc |-> "creat", creds |-> "501"]
  /\ files' = [files EXCEPT !["outfile"] = "empty"]

TaskStarted == prog.pc = "creat" /\ prog' = [prog EXCEPT !.pc = "go"] /\ Creat("started")

TaskSeesGo ==
  /\ prog.pc = "go" /\ Exists("go")
  /\ prog' = [prog EXCEPT !.pc = "look"]
  /\ UNCHANGED files

(* opendir("/root"), of mode 750, works for root alone. *)
LookAtRoot ==
  /\ prog.pc = "look"
  /\ prog' = [prog EXCEPT !.pc = "flush"]
  /\ IF prog.creds = "root" THEN Creat("error") ELSE UNCHANGED files

\* Mutant: fclose() left to the end of the program.
FlushNot == prog.pc = "flush" /\ prog' = [prog EXCEPT !.pc = "ready"] /\ UNCHANGED files

(* fflush() and fclose() of the lines printed since "go". *)
FlushOutfile ==
  /\ prog.pc = "flush"
  /\ prog' = [prog EXCEPT !.pc = "ready"]
  /\ files' = [files EXCEPT !["outfile"] = prog.creds]

ReadyToDie == prog.pc = "ready" /\ prog' = [prog EXCEPT !.pc = "die"] /\ Creat("readytodie")

TaskDies ==
  /\ prog.pc = "die" /\ Exists("die")
  /\ prog' = [prog EXCEPT !.pc = "exit"]
  /\ UNCHANGED files

TaskProgram ==
  /\ Running
  /\ SwitchAndOpen \/ TaskStarted \/ TaskSeesGo \/ LookAtRoot \/ FlushOutfile \/ ReadyToDie \/ TaskDies
  /\ UNCHANGED <<test, sh, image, dying, frozen, timer, kern, races>>

(* The script.  Its trap on EXIT thaws the cgroup. *)
TaskStart ==
  /\ sh.pc = "start"
  /\ prog' = [pc |-> "open", creds |-> "root"]
  /\ SetTimer
  /\ Goto("poll")
  /\ UNCHANGED <<test, image, dying, files, frozen, kern, races>>

RightTask(i) == {i}
WrongTask(i) == {None, [i EXCEPT !.creds = "root"], [i EXCEPT !.creds = "groups"]}

(* restart & touch sandbox/go; settimer 5 *)
TaskRestart ==
  /\ sh.pc = "restart"
  /\ Restart(RightTask(image), WrongTask(image))
  /\ Creat("go")
  /\ SetTimer
  /\ Goto("readytodie")
  /\ UNCHANGED <<test, image, dying, frozen>>

(* touch sandbox/die; sandbox/error, then uid, gid and number of groups.   *)
(* An empty outfile has -1 groups.                                         *)
TaskVerdict ==
  /\ sh.pc = "verdict"
  /\ Creat("die")
  /\ Exit(IF Exists("error") \/ files["outfile"] # "501" THEN "FAIL" ELSE "PASS")
  /\ UNCHANGED <<test, timer, world>>

TaskScript ==
  \/ TaskStart \/ AwaitTimed("poll", "started", "cancel", "freeze")
  \/ Freeze("freeze", "checkpoint") \/ Checkpoint("checkpoint", "thaw") \/ Thaw("thaw", "kill")
  \/ Kill("kill", "restart") \/ TaskRestart
  \/ AwaitTimed("readytodie", "readytodie", "cancel2", "verdict") \/ TaskVerdict

-----------------------------------------------------------------------------
(* sbits.c.  The outfile is the sequence of the values on its lines, with  *)
(* Header for the lines of the script.                                     *)
SbitsFiles == {"started", "checkpointed", "finished", "outfile"}
Header == -1
KeepCaps == 16             \* what PR_SET_KEEPCAPS sets
NoRoot == 1 + 4            \* SECURE_NOROOT | SECURE_NO_SETUID_FIXUP
NoRootLock == 2 + 8
Append1(v) == files' = [files EXCEPT !["outfile"] = Append(@, v)]

\* Options of the four tests: none, -k, -r, -r -l.
SetBits(n, bits) ==
  CASE n = 2 -> KeepCaps
    [] n = 3 -> NoRoot
    [] n = 4 -> NoRoot + NoRootLock
    [] OTHER -> bits

SayBefore == prog.pc = "before" /\ prog' = [prog EXCEPT !.pc = "set"] /\ Append1(prog.bits)

SetAndSay ==
  /\ prog.pc = "set"
  /\ prog' = [prog EXCEPT !.pc = "started", !.bits = SetBits(prog.test, @)]
  /\ Append1(SetBits(prog.test, prog.bits))

SbitsStarted == prog.pc = "started" /\ prog' = [prog EXCEPT !.pc = "wait"] /\ Creat("started")

WaitOnCheckpoint ==
  /\ prog.pc = "wait" /\ Exists("checkpointed")
  /\ prog' = [prog EXCEPT !.pc = "after"]
  /\ UNCHANGED files

SayAfter == prog.pc = "after" /\ prog' = [prog EXCEPT !.pc = "finished"] /\ Append1(prog.bits)

SbitsFinished == prog.pc = "finished" /\ prog' = [prog EXCEPT !.pc = "exit"] /\ Creat("finished")

SbitsProgram ==
  /\ Running
  /\ SayBefore \/ SetAndSay \/ SbitsStarted \/ WaitOnCheckpoint \/ SayAfter \/ SbitsFinished
  /\ UNCHANGED <<test, sh, image, dying, frozen, timer, kern, races>>

(* delfiles; echo "Test ..." >> outfile; sbits &; settimer 5 *)
SbitsStart ==
  /\ sh.pc = "start"
  /\ prog' = [pc |-> "before", bits |-> 0, test |-> sh.part]
  /\ files' = [f \in SbitsFiles |-> IF f = "outfile" THEN Append(files[f], Header) ELSE Absent]
  /\ SetTimer
  /\ Goto("poll")
  /\ UNCHANGED <<test, image, dying, frozen, kern, races>>

(* pid=`pidof sbits`; checkpoint $pid > out.$pid: with the pid of the      *)
(* program of the test before in $pid, "> out.$pid" is an error.  A frozen *)
(* task does not go.                                                       *)
SbitsCheckpoint ==
  /\ sh.pc = "checkpoint"
  /\ image' \in IF dying = None THEN {None, prog} ELSE {None}
  /\ Lost(dying # None, "dying")
  /\ Goto("thaw")
  /\ UNCHANGED <<test, prog, dying, files, frozen, timer, kern>>

RightSbits(i) == {i}
WrongSbits(i) == {None} \cup {[i EXCEPT !.bits = b] : b \in {0, 1} \ {i.bits}}

SbitsRestart ==
  /\ sh.pc = "restart"
  /\ Restart(RightSbits(image), WrongSbits(image))
  /\ Creat("checkpointed")
  /\ SetTimer
  /\ Goto("finished")
  /\ UNCHANGED <<test, image, dying, frozen>>

(* killall sbits, and the next test, which may still meet the program.     *)
SbitsNext ==
  /\ sh.pc = "next"
  /\ dying' = prog /\ prog' = None
  /\ sh' = IF sh.part = 4 THEN [sh EXCEPT !.pc = "parse"]
           ELSE [sh EXCEPT !.pc = "start", !.part = @ + 1]
  /\ UNCHANGED <<test, image, files, frozen, timer, kern, races>>

ExpectedResults == <<<<0, 0, 0>>, <<0, 16, 16>>, <<0, 5, 5>>, <<0, 15, 15>>>>

(* parse_output() compares line by line.  It runs in a pipeline, so that   *)
(* its "exit 1" does not end the script, which says PASS.                  *)
LinesRight(lines) ==
  \A k \in 1 .. Len(lines) :
     LET testno == (k - 1) \div 4
         lno    == (k - 1) % 4
     IN testno <= 3 /\ (lno > 0 => lines[k] = ExpectedResults[testno + 1][lno])

ParseOutput ==
  /\ sh.pc = "parse"
  /\ Lost(~LinesRight(files["outfile"]), "dropped")
  /\ Exit("PASS")
  /\ UNCHANGED <<test, prog, image, dying, files, frozen, timer, kern>>

SbitsScript ==
  \/ SbitsStart \/ AwaitTimed("poll", "started", "cancel", "freeze")
  \/ Freeze("freeze", "checkpoint") \/ SbitsCheckpoint \/ Thaw("thaw", "kill")
  \/ Kill("kill", "restart") \/ SbitsRestart
  \/ AwaitTimed("finished", "finished", "cancel2", "next") \/ SbitsNext \/ ParseOutput
=============================================================================
