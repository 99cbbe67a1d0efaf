---------------------------- MODULE LabelHarness ----------------------------
(***************************************************************************)
(* A program of label() statements run by the script of CkptAllLabels:     *)
(* eventfd/run.sh (RemoveReady, InFreezer, every label checkpointed) and   *)
(* fs/notify/run.sh (neither, and only the last label checkpointed).       *)
(***************************************************************************)
EXTENDS LabelProgram, CkptAllLabels

ASSUME NoImageAssumption == NoImage \notin App /\ NoImage \notin Logs

hvars == <<vars, broken>>

TypeOK ==
  /\ ProgramOK
  /\ ScriptOK
  /\ logs \in [Labels -> Logs \cup {NoImage}]
  /\ image \in [Labels -> App \cup {NoImage}]
  /\ orig \in Logs \cup {NoImage}

Init ==
  /\ ScriptInit
  /\ Started
  /\ broken \in -1 .. IMAX

AppNext == Thawed /\ ProgramStep /\ UNCHANGED <<frozen, scriptVars>>

ShNext == ScriptNext /\ UNCHANGED broken

Next == AppNext \/ ShNext \/ (Over /\ UNCHANGED broken)

(* The program is scheduled, and the script's commands return: both keep   *)
(* running as long as they can.  A checkpoint may fail every time.         *)
Fairness == WF_hvars(AppNext) /\ WF_hvars(ShNext)

Spec == Init /\ [][Next]_hvars /\ Fairness

-----------------------------------------------------------------------------
(* Checkpoint I was taken while the program sat in do_ckpt() at label I:   *)
(* "First we run the test taking checkpoints at all the labelled points".  *)
ImageAtLabel ==
  \A l \in Labels : image[l] # NoImage =>
                       image[l].op = l /\ image[l].pc \in Parked

(* do_ckpt() lets the program go on from a label only when the image of    *)
(* that label is on disk: a checkpoint-done is consumed by the program it  *)
(* was meant for, never left over for the next label.                      *)
NoLabelSkipped ==
  app.pc \in {"unlink", "check"} /\ ~skip => image[app.op] # NoImage

(* The first loop implements the rendezvous of CkptRendezvous: the program *)
(* stops at its labels in order and leaves each only once the checkpoint   *)
(* there was taken, which happens exactly once.  In the second loop (orig  *)
(* is there) the rendezvous is over.                                       *)
RMode ==
  IF orig # NoImage \/ app.pc \in Gone THEN "over"
  ELSE IF app.pc \in Parked \cup {"unlink", "check"} THEN "parked" ELSE "running"

RWhere == IF RMode = "over" THEN 0 ELSE app.op

RTaken == IF orig # NoImage THEN Labels ELSE {l \in Labels : image[l] # NoImage}

Rendezvous == INSTANCE CkptRendezvous
                WITH Last <- IMAX, where <- RWhere, mode <- RMode, taken <- RTaken

ImplementsRendezvous == Rendezvous!RSpec

(* exit ${failed} is 0 exactly when every label's restart was reported     *)
(* PASS, and then the test program had no failing action.                  *)
Verdict ==
  sh.pc \in {"end", "exit"} =>
     /\ sh.failed = 0 <=> sh.passed = Labels
     /\ sh.failed = 0 => broken = -1

(* Every restarted program that runs to its end leaves the log that the    *)
(* original run left.                                                      *)
SameLog == sh.pc = "diff" => log = orig

(* The handshake never wedges: the script exits, unless the program died   *)
(* of a failing action and left the script polling for checkpoint-ready.   *)
Terminates == <>(sh.pc = "exit" \/ (Abandoned /\ app.pc = "failed"))
=============================================================================
