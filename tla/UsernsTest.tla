----------------------------- MODULE UsernsTest -----------------------------
(***************************************************************************)
(* userns/: run_userns.sh, run_depth.sh and run_simple.sh with             *)
(* userns_ckptme.c, userns_deep.c and simple_deep.c: a chain of clones,    *)
(* the last of which waits, reports its uid and waits again, while those   *)
(* above it wait for the file "die".  The variable test is "userns",       *)
(* "depth" or "simple".                                                    *)
(***************************************************************************)
EXTENDS CommonSh

CONSTANT Depth             \* do_clone(30)

UsernsTests == {"userns", "depth", "simple"}
UsernsFiles == {"started", "go", "die", "status"}
Levels == IF test = "userns" THEN 1 ELSE Depth

(* The program: up is the number of tasks above the last one, pc and uid   *)
(* are the last one's.                                                     *)

(* do_clone(): one more level; do_child() of the last changes its uid.     *)
DoClone ==
  /\ prog.pc = "clone"
  /\ prog' = IF prog.up + 1 < Levels THEN [prog EXCEPT !.up = @ + 1]
             ELSE [prog EXCEPT !.up = @ + 1, !.pc = "creat",
                               !.uid = IF test = "simple" THEN "root" ELSE "500"]
  /\ UNCHANGED files

CreatStarted ==
  /\ prog.pc = "creat"
  /\ prog' = [prog EXCEPT !.pc = "go"]
  /\ Creat("started")

(* wait_on("sandbox/go") *)
SeeGo ==
  /\ prog.pc = "go" /\ Exists("go")
  /\ prog' = [prog EXCEPT !.pc = "open"]
  /\ UNCHANGED files

(* write_status(): the file exists before there is anything in it. *)
OpenStatus ==
  /\ prog.pc = "open"
  /\ prog' = [prog EXCEPT !.pc = "flush"]
  /\ files' = [files EXCEPT !["status"] = "empty"]

FlushStatus ==
  /\ prog.pc = "flush"
  /\ prog' = [prog EXCEPT !.pc = "die"]
  /\ files' = [files EXCEPT !["status"] = prog.uid]

(* The last task, and each task above it, sees "die". *)
SeeDie ==
  /\ Exists("die")
  /\ \/ prog.pc = "die" /\ prog' = [prog EXCEPT !.pc = "exit"]
     \/ prog.up > 0 /\ prog' = [prog EXCEPT !.up = @ - 1]
  /\ UNCHANGED files

UsernsProgram ==
  /\ Running
  /\ DoClone \/ CreatStarted \/ SeeGo \/ OpenStatus \/ FlushStatus \/ SeeDie
  /\ UNCHANGED <<test, sh, image, dying, frozen, timer, kern, races>>

-----------------------------------------------------------------------------
UsernsStart ==
  /\ sh.pc = "start"
  /\ prog' = [pc |-> "clone", up |-> 0, uid |-> "root"]
  /\ SetTimer
  /\ Goto("poll")
  /\ UNCHANGED <<test, image, dying, files, frozen, kern, races>>

(* The wrong kernel gives another uid, which simple_deep does not have. *)
RightUserns(i) == {i}
WrongUserns(i) == {None} \cup (IF test = "simple" THEN {} ELSE {[i EXCEPT !.uid = "root"]})

(* restart in the background *)
UsernsRestart ==
  /\ sh.pc = "restart"
  /\ Restart(RightUserns(image), WrongUserns(image))
  /\ Goto("touch")
  /\ UNCHANGED <<test, image, dying, files, frozen, timer>>

(* touch sandbox/go; touch sandbox/die; settimer *)
TouchGoDie ==
  /\ sh.pc = "touch"
  /\ files' = [files EXCEPT !["go"] = "there", !["die"] = "there"]
  /\ SetTimer
  /\ Goto("status")
  /\ UNCHANGED <<test, world>>

(* uid=`tail -1 sandbox/status | ...`: nothing is read from the empty      *)
(* file, "[ -ne 500 ]" is an error and the script goes on to PASS.         *)
VerifyUid ==
  /\ sh.pc = "verify" /\ test # "simple"
  /\ Exit(IF files["status"] \in {"500", "empty"} THEN "PASS" ELSE "FAIL")
  /\ Lost(files["status"] = "empty", "empty")
  /\ UNCHANGED <<test, prog, image, dying, files, frozen, timer, kern>>

(* run_simple.sh goes on, if there is a user ltp, with simple/ckpt, which  *)
(* checkpoints itself or fails ...                                         *)
CheckpointSelf ==
  /\ sh.pc = "verify" /\ test = "simple"
  /\ \/ Exit("skip") /\ UNCHANGED image
     \/ Goto("ltp") /\ image' \in {None, [pc |-> "self"]}
  /\ UNCHANGED <<test, prog, dying, files, frozen, timer, kern, races>>

(* ... and with a restart of that image, or of nothing, as the user ltp,   *)
(* which must not work.  Without an image it shows nothing of the kernel.  *)
RestartAsLtp ==
  /\ sh.pc = "ltp"
  /\ \/ image # None /\ Exit("PASS") /\ UNCHANGED kern
     \/ image # None /\ Exit("FAIL") /\ kern' = "wrong"
     \/ image = None /\ Exit("PASS") /\ kern' = "none"
  /\ UNCHANGED <<test, prog, image, dying, files, frozen, timer, races>>

UsernsScript ==
  \/ UsernsStart \/ AwaitTimed("poll", "started", "cancel", "freeze")
  \/ Freeze("freeze", "checkpoint") \/ Checkpoint("checkpoint", "thaw") \/ Thaw("thaw", "kill")
  \/ Kill("kill", IF test = "userns" THEN "wait" ELSE "restart")
  \/ AwaitGone("wait", "restart") \/ UsernsRestart \/ TouchGoDie
  \/ AwaitTimed("status", "status", "cancel2", "verify") \/ VerifyUid
  \/ CheckpointSelf \/ RestartAsLtp
=============================================================================
