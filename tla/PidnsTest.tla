----------------------------- MODULE PidnsTest -----------------------------
(***************************************************************************)
(* pidns/runtest.sh with pidns.c, and bashckpt/bash-cr.sh with             *)
(* bash-simple.sh.  Both kill the program while it is frozen.  The program *)
(* of pidns has a pid namespace below it, whose tasks do not die with the  *)
(* process that the script kills.                                          *)
(***************************************************************************)
EXTENDS CommonSh

PidnsFiles == {"checkpoint-ready", "checkpoint-done", "mypid.1", "mypid.2"}

(* pidns.c: pc is that of the last child, wait_on_restart(); the others    *)
(* wait for it.  write_my_pid(1) is over before anybody looks.             *)
ForkAll == prog.pc = "fork" /\ prog' = [prog EXCEPT !.pc = "mypid.1"] /\ UNCHANGED <<files, races>>

WriteMyPid1 ==
  /\ prog.pc = "mypid.1"
  /\ prog' = [prog EXCEPT !.pc = "ready"]
  /\ files' = [files EXCEPT !["mypid.1"] = prog.pid]
  /\ UNCHANGED races

CreatReady ==
  /\ prog.pc = "ready"
  /\ prog' = [prog EXCEPT !.pc = "wait"]
  /\ Creat("checkpoint-ready")
  /\ UNCHANGED races

Restarted ==
  /\ prog.pc = "wait" /\ Exists("checkpoint-done")
  /\ prog' = [prog EXCEPT !.pc = "mypid.2"]
  /\ UNCHANGED <<files, races>>

(* write_my_pid(2): fopen() and fclose() *)
OpenMyPid2 ==
  /\ prog.pc = "mypid.2"
  /\ prog' = [prog EXCEPT !.pc = "close"]
  /\ files' = [files EXCEPT !["mypid.2"] = "empty"]
  /\ Lost(kern = "none", "late")

CloseMyPid2 ==
  /\ prog.pc = "close"
  /\ prog' = [prog EXCEPT !.pc = "exit"]
  /\ files' = [files EXCEPT !["mypid.2"] = IF Exists("mypid.2") THEN prog.pid ELSE @]
  /\ UNCHANGED races

PidnsProgram ==
  /\ Running
  /\ ForkAll \/ WriteMyPid1 \/ CreatReady \/ Restarted \/ OpenMyPid2 \/ CloseMyPid2
  /\ UNCHANGED <<test, sh, image, dying, frozen, timer, kern>>

PidnsStart ==
  /\ sh.pc = "start"
  /\ prog' = [pc |-> "fork", pid |-> "p"]
  /\ Goto("poll")
  /\ UNCHANGED <<test, image, dying, files, frozen, timer, kern, races>>

(* kill -9 $outpid: main() alone *)
KillMain ==
  /\ sh.pc = "kill"
  /\ dying' = [pc |-> "main"]
  /\ Goto("thaw")
  /\ UNCHANGED <<test, prog, image, files, frozen, timer, kern, races>>

TouchDone ==
  /\ sh.pc = "done"
  /\ Creat("checkpoint-done")
  /\ Goto("rm")
  /\ UNCHANGED <<test, timer, world>>

(* rm -f mypid.2: what a survivor has written by now is gone. *)
RmMyPid2 ==
  /\ sh.pc = "rm"
  /\ files' = [files EXCEPT !["mypid.2"] = Absent]
  /\ races' = races \ {"late"}
  /\ Goto("restart")
  /\ UNCHANGED <<test, prog, image, dying, frozen, timer, kern>>

RightPidns(i) == {i}
WrongPidns(i) == {None, [i EXCEPT !.pid = "q"]}

(* restart in the foreground.  The survivors have their pids. *)
PidnsRestart ==
  /\ sh.pc = "restart"
  /\ \/ prog.pc # "exit" /\ Lost(TRUE, "busy") /\ UNCHANGED <<prog, kern>>
     \/ prog.pc = "exit" /\ Restart(RightPidns(image), WrongPidns(image))
  /\ Goto("verdict")
  /\ UNCHANGED <<test, image, dying, files, frozen, timer>>

(* wait, for nsexec and with it for main(); mypid.1 and mypid.2 *)
PidnsVerdict ==
  /\ sh.pc = "verdict"
  /\ dying = None
  /\ kern # "none" /\ prog # None => prog.pc = "exit"
  /\ Exit(IF Exists("mypid.2") /\ files["mypid.1"] = files["mypid.2"] THEN "PASS" ELSE "FAIL")
  /\ UNCHANGED <<test, files, timer, world>>

PidnsScript ==
  \/ PidnsStart \/ Await("poll", "checkpoint-ready", "freeze") \/ Freeze("freeze", "checkpoint")
  \/ Checkpoint("checkpoint", "kill") \/ KillMain \/ Thaw("thaw", "done") \/ TouchDone \/ RmMyPid2
  \/ PidnsRestart \/ PidnsVerdict

-----------------------------------------------------------------------------
BashFiles == {"pidfile", "step1go", "step1ok", "step2go", "step2ok"}

(* bash-simple.sh: "echo $$ > $pidfile" creates the file, then writes. *)
Step(at, next) == prog.pc = at /\ prog' = [prog EXCEPT !.pc = next]

BashProgram ==
  /\ Running
  /\ \/ Step("open", "pid") /\ files' = [files EXCEPT !["pidfile"] = "empty"]
     \/ Step("pid", "step1") /\ Creat("pidfile")
     \/ Step("step1", "ok1") /\ Exists("step1go") /\ UNCHANGED files
     \/ Step("ok1", "step2") /\ Creat("step1ok")
     \/ Step("step2", "ok2") /\ Exists("step2go") /\ UNCHANGED files
     \/ Step("ok2", "exit") /\ Creat("step2ok")
  /\ UNCHANGED <<test, sh, image, dying, frozen, timer, kern, races>>

BashStart ==
  /\ sh.pc = "start"
  /\ prog' = [pc |-> "open"]
  /\ Goto("poll")
  /\ UNCHANGED <<test, image, dying, files, frozen, timer, kern, races>>

(* read there_pid < $pidfile, under set -e *)
ReadPid ==
  /\ sh.pc = "read"
  /\ IF files["pidfile"] = "empty"
     THEN Exit("broken") /\ Lost(TRUE, "empty") /\ UNCHANGED files
     ELSE Goto("step1") /\ Creat("step1go") /\ UNCHANGED races
  /\ UNCHANGED <<test, prog, image, dying, frozen, timer, kern>>

(* set -e: the script ends when the checkpoint fails. *)
BashCheckpoint ==
  /\ sh.pc = "checkpoint"
  /\ \/ image' = prog /\ Goto("kill")
     \/ Exit("broken") /\ UNCHANGED image
  /\ UNCHANGED <<test, prog, dying, files, frozen, timer, kern, races>>

RightBash(i) == {i}
WrongBash(i) == {None}

(* restart & touch $step2go *)
BashRestart ==
  /\ sh.pc = "restart"
  /\ Restart(RightBash(image), WrongBash(image))
  /\ Creat("step2go")
  /\ Goto("step2")
  /\ UNCHANGED <<test, image, dying, frozen, timer>>

(* while [ ! -f $step2ok ], ten times at most *)
BashVerdict ==
  /\ sh.pc = "step2"
  /\ \/ Exists("step2ok") /\ Exit("PASS") /\ UNCHANGED races
     \/ ~Exists("step2ok") /\ Exit("FAIL") /\ Lost(kern = "right", "slow")
  /\ UNCHANGED <<test, prog, image, dying, files, frozen, timer, kern>>

BashScript ==
  \/ BashStart \/ Await("poll", "pidfile", "read") \/ ReadPid \/ Await("step1", "step1ok", "freeze")
  \/ Freeze("freeze", "checkpoint") \/ BashCheckpoint \/ Kill("kill", "thaw") \/ Thaw("thaw", "wait")
  \/ AwaitGone("wait", "restart") \/ BashRestart \/ BashVerdict
=============================================================================
