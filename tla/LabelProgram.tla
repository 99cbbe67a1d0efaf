---------------------------- MODULE LabelProgram ----------------------------
(***************************************************************************)
(* A test program made of label() statements (libcrtest/labels.h).  Of a   *)
(* labelled action only the sign of its result matters to the control      *)
(* flow: the program is deterministic, and broken is the number of the     *)
(* label whose action fails, if any.                                       *)
(***************************************************************************)
EXTENDS DoCkpt

CONSTANTS
  CkptOpNum,   \* ckpt_op_num: the label number to checkpoint at, -1 for all
  CkptLabel    \* number of the label named by ckpt_label, -1 for NULL

ASSUME LabelAssumption ==
  /\ CkptOpNum \in -1 .. IMAX
  /\ CkptLabel \in -1 .. IMAX

VARIABLE broken

programVars == <<app, log, broken>>

AppPcs == {"action", "check"} \cup DoCkptPcs \cup Gone

App == [pc : AppPcs, op : Labels]

\* A log is the number of label lines the program has written to it (those
\* still in its stdio buffer included: they travel in the image).
Logs == Nat

ProgramOK ==
  /\ FilesOK
  /\ app \in App
  /\ log \in Logs
  /\ broken \in -1 .. IMAX

Started == app = [pc |-> "action", op |-> 0] /\ log = 0

\* The condition of the label() macro.
AtCheckpoint(op) == CkptOpNum = op \/ CkptOpNum = -1 \/ CkptLabel = op

(* label(): write the label's line to the log, perform the action. *)
LabelAction ==
  /\ app.pc = "action"
  /\ log' = log + 1
  /\ app' = [app EXCEPT !.pc = IF AtCheckpoint(app.op) THEN "set_ready" ELSE "check"]
  /\ UNCHANGED files

(* label(): if (ret < 0) goto out; op_num++; main() exits after the last.  *)
LabelCheck ==
  /\ app.pc = "check"
  /\ app' = IF app.op = broken THEN [app EXCEPT !.pc = "failed"]
            ELSE IF app.op = IMAX THEN [app EXCEPT !.pc = "exited"]
            ELSE [app EXCEPT !.pc = "action", !.op = @ + 1]
  /\ UNCHANGED <<files, log>>

(* One step of the program; the freezer permitting. *)
ProgramStep == (LabelAction \/ LabelCheck \/ CallDoCkpt("check")) /\ UNCHANGED broken
=============================================================================
