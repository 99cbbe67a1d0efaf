----------------------------- MODULE TaskFsTest -----------------------------
(***************************************************************************)
(* taskfs/runtest.sh with cwdsleep.c (part 1, one task) and chrootsleep.c  *)
(* (part 2, two tasks): cwd and root of restarted tasks.                   *)
(***************************************************************************)
EXTENDS CommonSh

FsFiles == {"ready"}
FsTasks == sh.part         \* 1 for cwdsleep, 2 for chrootsleep

(* n: tasks that pidof finds; ok: cwd and root are those of the test;      *)
(* swap: sort puts the pid of the child first, because it has more digits  *)
(* than the parent's or because pids have wrapped.                         *)
ForkChild ==
  /\ prog.pc = "fork"
  /\ IF prog.n < FsTasks THEN \E s \in BOOLEAN : prog' = [prog EXCEPT !.n = @ + 1, !.swap = s]
     ELSE prog' = [prog EXCEPT !.pc = "creat"]
  /\ UNCHANGED files

CreatReadyFile ==
  /\ prog.pc = "creat"
  /\ prog' = [prog EXCEPT !.pc = "sleep"]
  /\ Creat("ready")

(* External: restart brings the tasks back one after the other. *)
RestoreTask ==
  /\ prog.pc = "restoring"
  /\ prog' = IF prog.n + 1 = image.n THEN [prog EXCEPT !.n = @ + 1, !.pc = "sleep"]
             ELSE [prog EXCEPT !.n = @ + 1]
  /\ UNCHANGED files

FsProgram ==
  /\ Running
  /\ ForkChild \/ CreatReadyFile \/ RestoreTask
  /\ UNCHANGED <<test, sh, image, dying, frozen, timer, kern, races>>

-----------------------------------------------------------------------------
(* runtest(): killall -9, rm -f $dir/ready, start, settimer 5 *)
FsStart ==
  /\ sh.pc = "start"
  /\ prog' = [pc |-> "fork", n |-> 1, ok |-> TRUE, swap |-> FALSE]
  /\ files' = [files EXCEPT !["ready"] = Absent]
  /\ SetTimer
  /\ Goto("poll")
  /\ kern' = "none" /\ races' = {} /\ image' = None
  /\ UNCHANGED <<test, dying, frozen>>

\* The tasks below the first pid of the sorted list.
Below(p) == IF p.swap THEN [p EXCEPT !.n = 1] ELSE p

(* job=`pgrep $name | sort | head -1`; checkpoint $job *)
FsCheckpoint ==
  /\ sh.pc = "checkpoint"
  /\ image' \in {None, Below(prog)}
  /\ Lost(prog.swap, "order")
  /\ Goto("kill")
  /\ UNCHANGED <<test, prog, dying, files, frozen, timer, kern>>

Restoring(i, ok) == [i EXCEPT !.pc = "restoring", !.n = 0, !.ok = ok]
RightFs(i) == {Restoring(i, TRUE)}
WrongFs(i) == {None, Restoring(i, FALSE)}

(* restart -W & settimer 5 *)
FsRestart ==
  /\ sh.pc = "restart"
  /\ Restart(RightFs(image), WrongFs(image))
  /\ SetTimer
  /\ Goto("pidof")
  /\ UNCHANGED <<test, image, dying, files, frozen>>

(* job=`pidof $name`, until it finds one: restarted, or killed and not     *)
(* gone yet.                                                               *)
Count(p) == IF p = None THEN 0 ELSE p.n
Visible == Count(prog) + Count(dying)

FsPidof ==
  /\ sh.pc = "pidof" /\ Visible > 0
  /\ Goto("cancel2")
  /\ UNCHANGED <<test, files, timer, world>>

FsCancel ==
  /\ sh.pc = "cancel2"
  /\ CancelTimer
  /\ Goto("verify")
  /\ UNCHANGED <<test, files, world>>

(* verify_cwd(), verify_root(): as many tasks as there should be, with the *)
(* right links, the parent before the child.  The links of a dying task    *)
(* are right or unreadable, and an unreadable one is an error of "[", not  *)
(* a failure.                                                              *)
FsVerify ==
  /\ sh.pc = "verify"
  /\ \E readable \in BOOLEAN :
       LET good == /\ Visible = FsTasks
                   /\ prog = None \/ prog.n = 0 \/ prog.ok
                   /\ dying = None \/ ~dying.swap \/ ~readable
       IN sh' = [sh EXCEPT !.pc = IF good THEN "next" ELSE "exit",
                           !.verdict = IF good THEN "PASS" ELSE "FAIL"]
  /\ races' = races \cup (IF dying # None THEN {"dying"} ELSE {})
                    \cup (IF prog # None /\ prog.n < image.n THEN {"half"} ELSE {})
  /\ UNCHANGED <<test, prog, image, dying, files, frozen, timer, kern>>

(* killall -9, and the other test: pidof is for another name there. *)
FsNext ==
  /\ sh.pc = "next"
  /\ prog' = None /\ dying' = None
  /\ IF sh.part = 2 THEN Goto("exit")
     ELSE sh' = [sh EXCEPT !.pc = "start", !.part = @ + 1, !.verdict = "none"]
  /\ UNCHANGED <<test, image, files, frozen, timer, kern, races>>

FsScript ==
  \/ FsStart \/ AwaitTimed("poll", "ready", "cancel", "freeze") \/ Freeze("freeze", "checkpoint")
  \/ FsCheckpoint \/ Kill("kill", "thaw") \/ Thaw("thaw", "restart")
  \/ FsRestart \/ FsPidof \/ FsCancel \/ FsVerify \/ FsNext
=============================================================================
