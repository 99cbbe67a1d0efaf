------------------------------ MODULE IpcTest ------------------------------
(***************************************************************************)
(* ipc/: test-sem.sh, test-shm.sh and test-mq.sh with create-sem.c,        *)
(* create-shm.c and check-mq.c.  The variable test is "sem", "shm" or      *)
(* "mq", sh.part the number of the test in the script.                     *)
(***************************************************************************)
EXTENDS CommonSh

IpcTests == {"sem", "shm", "mq"}
IpcFiles == {"created", "ok"}
IpcParts == IF test = "mq" THEN 1 .. 3 ELSE 1 .. 4

(* The options: -u in parts 2 and 4, -e -u in part 3, -r in part 4. *)
Switches == sh.part \in {2, 4}
Owner(part) == IF part = 3 THEN "user" ELSE "root"
Mode(part) == IF part = 4 THEN 755 ELSE 600

(* main() after its options; create_sems() with the uid of -e.             *)
(* docreat(SEMCREATED) comes before the switch to the other uid.           *)
CreateObjects ==
  /\ prog.pc = "create"
  /\ prog' = [prog EXCEPT !.pc = IF Switches THEN "setuid" ELSE "sleep", !.objs = TRUE]
  /\ Creat("created")
  /\ UNCHANGED races

DoSetuid ==
  /\ prog.pc = "setuid"
  /\ prog' = [prog EXCEPT !.pc = "sleep", !.uid = "user"]
  /\ UNCHANGED <<files, races>>

(* check_sems() needs to read, check_shms() to attach for writing,         *)
(* verify_queues() to receive.                                             *)
MayCheck(p) ==
  \/ p.uid = "root" \/ p.owner = p.uid
  \/ p.mode = 755 /\ test = "sem"

(* sleep(3); if (check_sems()) docreat(FNAME).  The original has done the  *)
(* restarted program's work when it comes here.                            *)
Check ==
  /\ prog.pc = "sleep"
  /\ prog' = [prog EXCEPT !.pc = "exit"]
  /\ IF prog.objs /\ MayCheck(prog)
     THEN Creat("ok") /\ Lost(kern = "none", "late")
     ELSE UNCHANGED <<files, races>>

IpcProgram ==
  /\ Running
  /\ CreateObjects \/ DoSetuid \/ Check
  /\ UNCHANGED <<test, sh, image, dying, frozen, timer, kern>>

-----------------------------------------------------------------------------
(* clean_all, nsexec -ci create-sem & and settimer 2 of do_checkpoint.     *)
(* The last part needs a user ltp.  pidof also finds the program of the    *)
(* part before while that is dying.                                        *)
IpcStart ==
  /\ sh.pc = "start"
  /\ \/ /\ prog' = [pc |-> "create", uid |-> IF sh.part = 3 THEN "user" ELSE "root",
                    owner |-> Owner(sh.part), mode |-> Mode(sh.part), objs |-> FALSE]
        /\ files' = [f \in IpcFiles |-> Absent]
        /\ SetTimer
        /\ Goto("poll")
     \/ /\ sh.part = 4
        /\ Exit("skip")
        /\ UNCHANGED <<prog, files, timer>>
  /\ kern' = "none" /\ races' = (IF dying = None THEN {} ELSE {"busy"}) /\ image' = None
  /\ UNCHANGED <<test, dying, frozen>>

(* pid=`pidof create-sem` *)
IpcFind ==
  /\ sh.pc = "find"
  /\ IF prog.pc = "exit" THEN Exit("broken") ELSE Goto("freeze")
  /\ UNCHANGED <<test, files, timer, world>>

(* The program may have ended between pidof and the freezer. *)
IpcCheckpoint ==
  /\ sh.pc = "checkpoint"
  /\ image' \in {None} \cup (IF prog.pc = "exit" THEN {} ELSE {prog})
  /\ Lost(prog.pc = "exit", "late")
  /\ Goto("thaw")
  /\ UNCHANGED <<test, prog, dying, files, frozen, timer, kern>>

IpcKill ==
  /\ sh.pc = "kill"
  /\ dying' = IF prog.pc = "exit" THEN None ELSE prog
  /\ prog' = None
  /\ Goto(IF test = "mq" THEN "wait" ELSE "restart")
  /\ UNCHANGED <<test, image, files, frozen, timer, kern, races>>

(* Root-owned objects are not re-created for another user, nor is a        *)
(* program of root restarted by one.                                       *)
MayRestart(i) == sh.part \in {1, 3} \/ (sh.part = 2 /\ i.uid = "root")
RightIpc(i) == IF MayRestart(i) THEN {i} ELSE {None}
WrongIpc(i) == IF MayRestart(i) THEN {None, [i EXCEPT !.objs = FALSE]} ELSE {i}

(* restart in the foreground *)
IpcRestart ==
  /\ sh.pc = "restart"
  /\ Restart(RightIpc(image), WrongIpc(image))
  /\ Goto("verdict")
  /\ UNCHANGED <<test, image, dying, files, frozen, timer>>

(* if [ ! -f sandbox/sem-ok ], or if [ -f sandbox/sem-ok ], once restart   *)
(* has returned.                                                           *)
IpcVerdict ==
  /\ sh.pc = "verdict" /\ (prog # None => prog.pc = "exit")
  /\ LET good == Exists("ok") = (sh.part \in {1, 3})
     IN sh' = [sh EXCEPT !.pc = IF good THEN "next" ELSE "exit",
                         !.verdict = IF good THEN "PASS" ELSE "FAIL"]
  /\ prog' = None
  /\ UNCHANGED <<test, image, dying, files, frozen, timer, kern, races>>

IpcNext ==
  /\ sh.pc = "next"
  /\ IF sh.part + 1 \in IpcParts THEN sh' = [sh EXCEPT !.pc = "start", !.part = @ + 1, !.verdict = "none"]
     ELSE Goto("exit")
  /\ UNCHANGED <<test, files, timer, world>>

IpcScript ==
  \/ IpcStart \/ AwaitTimed("poll", "created", "cancel", "find") \/ IpcFind
  \/ Freeze("freeze", "checkpoint") \/ IpcCheckpoint \/ Thaw("thaw", "kill") \/ IpcKill
  \/ AwaitGone("wait", "restart") \/ IpcRestart \/ IpcVerdict \/ IpcNext
=============================================================================
