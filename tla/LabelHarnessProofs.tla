------------------------- MODULE LabelHarnessProofs -------------------------
(***************************************************************************)
(* The handshake of eventfd/run.sh with a program of label() statements,   *)
(* for every number of labels.                                             *)
(***************************************************************************)
EXTENDS LabelHarness, TLAPS

\* The settings of eventfd/run.sh: checkpoint-ready is removed after every
\* checkpoint, the program is in the script's freezer, it parks at every label.
Eventfd == RemoveReady /\ InFreezer /\ CkptOpNum = -1

\* The program, when labels 0 .. k - 1 have been checkpointed: still on its way
\* out of label k - 1, on its way to label k, or parked there.
Leaving(k) ==
  /\ app.op = k - 1
  /\ ~ready
  /\ \/ app.pc \in Parked \cup {"unlink"} /\ done
     \/ /\ app.pc \in {"check", "failed", "exited"}
        /\ k <= IMAX => ~done /\ app.pc # "exited"

Coming(k) ==
  /\ app.op = k
  /\ app.pc \in {"action", "set_ready", "creat"}
  /\ ~ready /\ ~done

Arrived(k) == app.op = k /\ app.pc \in Parked /\ ready /\ ~done

FirstLoop == {"await", "freeze", "copy", "checkpoint", "rm", "touch", "thaw"}

\* Where the program can be at each point of the script.
MeetInv ==
  /\ sh.pc \in FirstLoop \cup {"redo", "wait"} => ~skip /\ orig = NoImage
  /\ sh.pc = "await" => Leaving(sh.i) \/ Coming(sh.i) \/ Arrived(sh.i)
  /\ sh.pc = "freeze" => Arrived(sh.i)
  /\ sh.pc \in {"copy", "checkpoint", "rm"} => frozen /\ Arrived(sh.i)
  /\ sh.pc = "touch" => frozen /\ app.op = sh.i /\ app.pc \in Parked /\ ~ready /\ ~done
  /\ sh.pc = "thaw" => frozen /\ app.op = sh.i /\ app.pc \in Parked /\ ~ready /\ done
  /\ sh.pc \in {"redo", "wait"} => Leaving(IMAX + 1)
  /\ sh.pc \in {"restart", "end", "exit"} => app.pc \in Gone
  /\ sh.pc = "run" => skip
  /\ sh.pc = "diff" => skip /\ app.pc = "exited"

\* Which images and log copies exist, and what is in them.
ImageInv ==
  /\ \A l \in Labels : image[l] # NoImage =>
        /\ image[l].op = l
        /\ image[l].pc \in Parked
        /\ logs[l] = l + 1
        /\ broken = -1 \/ broken >= l
  /\ sh.pc \in {"await", "freeze", "copy", "checkpoint"} =>
        \A l \in Labels : l < sh.i => image[l] # NoImage
  /\ sh.pc = "checkpoint" => logs[sh.i] = sh.i + 1
  /\ sh.pc \in {"rm", "touch", "thaw"} => \A l \in Labels : l <= sh.i => image[l] # NoImage
  /\ sh.pc \in {"redo", "wait"} => \A l \in Labels : image[l] # NoImage
  /\ sh.pc \in {"restart", "run", "diff"} =>
        \A l \in Labels : l >= sh.i => image[l] # NoImage

\* What the program has logged and got through.
ProgramInv ==
  /\ sh.pc \notin {"end", "exit"} =>
        /\ app.pc = "action" => log = app.op
        /\ app.pc # "action" => log = app.op + 1
        /\ app.pc # "killed"
  /\ app.pc \notin {"failed", "killed"} => broken = -1 \/ broken >= app.op
  /\ app.pc = "exited" => broken = -1 /\ app.op = IMAX
  /\ orig # NoImage => orig = IMAX + 1

VerdictInv ==
  /\ sh.pc \notin {"end", "exit"} => sh.failed = 0
  /\ sh.pc \in FirstLoop \cup {"redo", "wait"} => sh.passed = {}
  /\ sh.pc \in {"restart", "run", "diff"} => sh.passed = {l \in Labels : l < sh.i}
  /\ sh.pc \in {"run", "diff", "restart"} => orig # NoImage
  /\ sh.pc \in {"end", "exit"} =>
        \/ sh.failed = 0 /\ sh.passed = Labels /\ broken = -1
        \/ sh.failed = 1 /\ IMAX \notin sh.passed

HInv == TypeOK /\ MeetInv /\ ImageInv /\ ProgramInv /\ VerdictInv
-----------------------------------------------------------------------------
(* Preservation of the invariant by the steps of the program.              *)
LEMMA LabelActionInv ==
  ASSUME Eventfd, HInv, Thawed, LabelAction,
         UNCHANGED <<frozen, scriptVars, broken>>
  PROVE  HInv'
<1> USE IMAXAssumption DEF Labels
<1>1. /\ app \in App /\ app.op \in Labels /\ log \in Nat /\ sh.i \in Labels /\ broken \in -1 .. IMAX
      /\ app.pc = "action"
      /\ app' = [app EXCEPT !.pc = "set_ready"]
      /\ app'.pc = "set_ready" /\ app'.op = app.op
      /\ log' = log + 1
      /\ UNCHANGED <<ready, done, skip>>
  BY DEF Eventfd, HInv, TypeOK, ProgramOK, ScriptOK, Labels, Logs, App, LabelAction, AtCheckpoint, files
<1>2. app' \in App
  BY <1>1, Zenon DEF App, AppPcs, DoCkptPcs, Gone
<1>3. UNCHANGED <<frozen, sh, logs, image, orig, broken>>
  BY DEF scriptVars
<1>4. TypeOK'
  BY <1>1, <1>2, <1>3, SMTT(60) DEF HInv, TypeOK, ProgramOK, FilesOK, ScriptOK, Logs
<1>5. MeetInv'
  BY <1>1, <1>3 DEF Eventfd, HInv, MeetInv, Thawed, Leaving, Coming, Arrived, FirstLoop,
     Parked, Gone
<1>6. ImageInv'
  BY <1>3 DEF HInv, ImageInv
<1>7. ProgramInv'
  BY <1>1, <1>3 DEF HInv, ProgramInv, MeetInv, Leaving, Gone
<1>8. VerdictInv'
  BY <1>3 DEF HInv, VerdictInv
<1> QED
  BY <1>4, <1>5, <1>6, <1>7, <1>8 DEF HInv

\* A program whose label fails keeps the invariant.
LEMMA LabelFailsInv ==
  ASSUME Eventfd, HInv, Thawed, LabelCheck, app.op = broken,
         UNCHANGED <<frozen, scriptVars, broken>>
  PROVE  HInv'
<1> USE IMAXAssumption DEF Labels
<1>1. /\ app \in App /\ app.op \in Labels /\ log \in Nat /\ sh.i \in Labels /\ broken \in -1 .. IMAX
      /\ app.pc = "check"
      /\ app' = [app EXCEPT !.pc = "failed"]
      /\ app'.pc = "failed" /\ app'.op = app.op
      /\ UNCHANGED <<ready, done, skip, log>>
  BY DEF HInv, TypeOK, ProgramOK, ScriptOK, Labels, Logs, App, LabelCheck, files
<1>2. app' \in App
  BY <1>1, Zenon DEF App, AppPcs, DoCkptPcs, Gone
<1>3. UNCHANGED <<frozen, sh, logs, image, orig, broken>>
  BY DEF scriptVars
<1>4. TypeOK'
  BY <1>1, <1>2, <1>3 DEF HInv, TypeOK, ProgramOK, FilesOK, ScriptOK, Logs
<1>5. MeetInv'
  BY <1>1, <1>3 DEF Eventfd, HInv, MeetInv, Thawed, Leaving, Coming, Arrived, FirstLoop,
     Parked, Gone
<1>6. ImageInv'
  BY <1>3 DEF HInv, ImageInv
<1>7. ProgramInv'
  BY <1>1, <1>3 DEF HInv, ProgramInv, MeetInv, Leaving, Gone
<1>8. VerdictInv'
  BY <1>3 DEF HInv, VerdictInv
<1> QED
  BY <1>4, <1>5, <1>6, <1>7, <1>8 DEF HInv

\* A program past its last label keeps the invariant.
LEMMA LabelLastInv ==
  ASSUME Eventfd, HInv, Thawed, LabelCheck, app.op # broken, app.op = IMAX,
         UNCHANGED <<frozen, scriptVars, broken>>
  PROVE  HInv'
<1> USE IMAXAssumption DEF Labels
<1>1. /\ app \in App /\ app.op \in Labels /\ log \in Nat /\ sh.i \in Labels /\ broken \in -1 .. IMAX
      /\ app.pc = "check"
      /\ app' = [app EXCEPT !.pc = "exited"]
      /\ app'.pc = "exited" /\ app'.op = app.op
      /\ UNCHANGED <<ready, done, skip, log>>
  BY DEF HInv, TypeOK, ProgramOK, ScriptOK, Labels, Logs, App, LabelCheck, files
<1>2. app' \in App
  BY <1>1, Zenon DEF App, AppPcs, DoCkptPcs, Gone
<1>3. UNCHANGED <<frozen, sh, logs, image, orig, broken>>
  BY DEF scriptVars
<1>4. TypeOK'
  BY <1>1, <1>2, <1>3 DEF HInv, TypeOK, ProgramOK, FilesOK, ScriptOK, Logs
<1>5. MeetInv'
  BY <1>1, <1>3 DEF Eventfd, HInv, MeetInv, Thawed, Leaving, Coming, Arrived, FirstLoop,
     Parked, Gone
<1>6. ImageInv'
  BY <1>3 DEF HInv, ImageInv
<1>7. ProgramInv'
  BY <1>1, <1>3 DEF HInv, ProgramInv, MeetInv, Leaving, Gone
<1>8. VerdictInv'
  BY <1>3 DEF HInv, VerdictInv
<1> QED
  BY <1>4, <1>5, <1>6, <1>7, <1>8 DEF HInv

\* A program that goes on to its next label keeps the invariant.
LEMMA LabelNextInv ==
  ASSUME Eventfd, HInv, Thawed, LabelCheck, app.op # broken, app.op # IMAX,
         UNCHANGED <<frozen, scriptVars, broken>>
  PROVE  HInv'
<1> USE IMAXAssumption DEF Labels
<1>1. /\ app \in App /\ app.op \in Labels /\ log \in Nat /\ sh.i \in Labels /\ broken \in -1 .. IMAX
      /\ app.pc = "check"
      /\ app' = [app EXCEPT !.pc = "action", !.op = app.op + 1]
      /\ app'.pc = "action" /\ app'.op = app.op + 1
      /\ app.op + 1 \in 0 .. IMAX
      /\ UNCHANGED <<ready, done, skip, log>>
  BY DEF HInv, TypeOK, ProgramOK, ScriptOK, Labels, Logs, App, LabelCheck, files
<1>2. app' \in App
  BY <1>1, Zenon DEF App, AppPcs, DoCkptPcs, Gone
<1>3. UNCHANGED <<frozen, sh, logs, image, orig, broken>>
  BY DEF scriptVars
<1>4. TypeOK'
  BY <1>1, <1>2, <1>3 DEF HInv, TypeOK, ProgramOK, FilesOK, ScriptOK, Logs
<1>5. MeetInv'
  BY <1>1, <1>3 DEF Eventfd, HInv, MeetInv, Thawed, Leaving, Coming, Arrived, FirstLoop,
     Parked, Gone
<1>6. ImageInv'
  BY <1>3 DEF HInv, ImageInv
<1>7. ProgramInv'
  BY <1>1, <1>3 DEF HInv, ProgramInv, MeetInv, Leaving, Gone
<1>8. VerdictInv'
  BY <1>3 DEF HInv, VerdictInv
<1> QED
  BY <1>4, <1>5, <1>6, <1>7, <1>8 DEF HInv

\* do_ckpt() finding no checkpoint-skip keeps the invariant.
LEMMA SetReadyAccessInv ==
  ASSUME Eventfd, HInv, Thawed, app.pc = "set_ready", app' = [app EXCEPT !.pc = "creat"], UNCHANGED log,
         ~skip, UNCHANGED <<ready, done, skip>>,
         UNCHANGED <<frozen, scriptVars, broken>>
  PROVE  HInv'
<1> USE IMAXAssumption DEF Labels
<1>1. /\ app \in App /\ app.op \in Labels /\ log \in Nat /\ sh.i \in Labels /\ broken \in -1 .. IMAX
      /\ app'.pc = "creat" /\ app'.op = app.op
  BY DEF HInv, TypeOK, ProgramOK, ScriptOK, Labels, Logs, App, files
<1>2. app' \in App
  BY <1>1, Zenon DEF App, AppPcs, DoCkptPcs, Gone
<1>3. UNCHANGED <<frozen, sh, logs, image, orig, broken>>
  BY DEF scriptVars
<1>4. TypeOK'
  BY <1>1, <1>2, <1>3 DEF HInv, TypeOK, ProgramOK, FilesOK, ScriptOK, Logs
<1>5. MeetInv'
  BY <1>1, <1>3 DEF Eventfd, HInv, MeetInv, Thawed, Leaving, Coming, Arrived, FirstLoop,
     Parked, Gone
<1>6. ImageInv'
  BY <1>3 DEF HInv, ImageInv
<1>7. ProgramInv'
  BY <1>1, <1>3 DEF HInv, ProgramInv, MeetInv, Leaving, Gone
<1>8. VerdictInv'
  BY <1>3 DEF HInv, VerdictInv
<1> QED
  BY <1>4, <1>5, <1>6, <1>7, <1>8 DEF HInv

\* do_ckpt() finding checkpoint-skip keeps the invariant.
LEMMA SetReadyDryInv ==
  ASSUME Eventfd, HInv, Thawed, app.pc = "set_ready", app' = [app EXCEPT !.pc = "dry_run"], UNCHANGED log,
         skip, UNCHANGED <<ready, done, skip>>,
         UNCHANGED <<frozen, scriptVars, broken>>
  PROVE  HInv'
<1> USE IMAXAssumption DEF Labels
<1>1. /\ app \in App /\ app.op \in Labels /\ log \in Nat /\ sh.i \in Labels /\ broken \in -1 .. IMAX
      /\ app'.pc = "dry_run" /\ app'.op = app.op
  BY DEF HInv, TypeOK, ProgramOK, ScriptOK, Labels, Logs, App, files
<1>2. app' \in App
  BY <1>1, Zenon DEF App, AppPcs, DoCkptPcs, Gone
<1>3. UNCHANGED <<frozen, sh, logs, image, orig, broken>>
  BY DEF scriptVars
<1>4. TypeOK'
  BY <1>1, <1>2, <1>3 DEF HInv, TypeOK, ProgramOK, FilesOK, ScriptOK, Logs
<1>5. MeetInv'
  BY <1>1, <1>3 DEF Eventfd, HInv, MeetInv, Thawed, Leaving, Coming, Arrived, FirstLoop,
     Parked, Gone
<1>6. ImageInv'
  BY <1>3 DEF HInv, ImageInv
<1>7. ProgramInv'
  BY <1>1, <1>3 DEF HInv, ProgramInv, MeetInv, Leaving, Gone
<1>8. VerdictInv'
  BY <1>3 DEF HInv, VerdictInv
<1> QED
  BY <1>4, <1>5, <1>6, <1>7, <1>8 DEF HInv

\* Creating checkpoint-ready keeps the invariant.
LEMMA SetReadyCreatInv ==
  ASSUME Eventfd, HInv, Thawed, app.pc = "creat", app' = [app EXCEPT !.pc = "dry_run"], UNCHANGED log,
         ready' = TRUE, UNCHANGED <<done, skip>>,
         UNCHANGED <<frozen, scriptVars, broken>>
  PROVE  HInv'
<1> USE IMAXAssumption DEF Labels
<1>1. /\ app \in App /\ app.op \in Labels /\ log \in Nat /\ sh.i \in Labels /\ broken \in -1 .. IMAX
      /\ app'.pc = "dry_run" /\ app'.op = app.op
  BY DEF HInv, TypeOK, ProgramOK, ScriptOK, Labels, Logs, App, files
<1>2. app' \in App
  BY <1>1, Zenon DEF App, AppPcs, DoCkptPcs, Gone
<1>3. UNCHANGED <<frozen, sh, logs, image, orig, broken>>
  BY DEF scriptVars
<1>4. TypeOK'
  BY <1>1, <1>2, <1>3 DEF HInv, TypeOK, ProgramOK, FilesOK, ScriptOK, Logs
<1>5. MeetInv'
  BY <1>1, <1>3 DEF Eventfd, HInv, MeetInv, Thawed, Leaving, Coming, Arrived, FirstLoop,
     Parked, Gone
<1>6. ImageInv'
  BY <1>3 DEF HInv, ImageInv
<1>7. ProgramInv'
  BY <1>1, <1>3 DEF HInv, ProgramInv, MeetInv, Leaving, Gone
<1>8. VerdictInv'
  BY <1>3 DEF HInv, VerdictInv
<1> QED
  BY <1>4, <1>5, <1>6, <1>7, <1>8 DEF HInv

\* do_ckpt() returning from a dry run keeps the invariant.
LEMMA DryRunSkipInv ==
  ASSUME Eventfd, HInv, Thawed, app.pc = "dry_run", app' = [app EXCEPT !.pc = "check"], UNCHANGED log,
         skip, UNCHANGED <<ready, done, skip>>,
         UNCHANGED <<frozen, scriptVars, broken>>
  PROVE  HInv'
<1> USE IMAXAssumption DEF Labels
<1>1. /\ app \in App /\ app.op \in Labels /\ log \in Nat /\ sh.i \in Labels /\ broken \in -1 .. IMAX
      /\ app'.pc = "check" /\ app'.op = app.op
  BY DEF HInv, TypeOK, ProgramOK, ScriptOK, Labels, Logs, App, files
<1>2. app' \in App
  BY <1>1, Zenon DEF App, AppPcs, DoCkptPcs, Gone
<1>3. UNCHANGED <<frozen, sh, logs, image, orig, broken>>
  BY DEF scriptVars
<1>4. TypeOK'
  BY <1>1, <1>2, <1>3 DEF HInv, TypeOK, ProgramOK, FilesOK, ScriptOK, Logs
<1>5. MeetInv'
  BY <1>1, <1>3 DEF Eventfd, HInv, MeetInv, Thawed, Leaving, Coming, Arrived, FirstLoop,
     Parked, Gone
<1>6. ImageInv'
  BY <1>3 DEF HInv, ImageInv
<1>7. ProgramInv'
  BY <1>1, <1>3 DEF HInv, ProgramInv, MeetInv, Leaving, Gone
<1>8. VerdictInv'
  BY <1>3 DEF HInv, VerdictInv
<1> QED
  BY <1>4, <1>5, <1>6, <1>7, <1>8 DEF HInv

\* do_ckpt() going on to poll for checkpoint-done keeps the invariant.
LEMMA DryRunAccessInv ==
  ASSUME Eventfd, HInv, Thawed, app.pc = "dry_run", app' = [app EXCEPT !.pc = "poll"], UNCHANGED log,
         ~skip, UNCHANGED <<ready, done, skip>>,
         UNCHANGED <<frozen, scriptVars, broken>>
  PROVE  HInv'
<1> USE IMAXAssumption DEF Labels
<1>1. /\ app \in App /\ app.op \in Labels /\ log \in Nat /\ sh.i \in Labels /\ broken \in -1 .. IMAX
      /\ app'.pc = "poll" /\ app'.op = app.op
  BY DEF HInv, TypeOK, ProgramOK, ScriptOK, Labels, Logs, App, files
<1>2. app' \in App
  BY <1>1, Zenon DEF App, AppPcs, DoCkptPcs, Gone
<1>3. UNCHANGED <<frozen, sh, logs, image, orig, broken>>
  BY DEF scriptVars
<1>4. TypeOK'
  BY <1>1, <1>2, <1>3 DEF HInv, TypeOK, ProgramOK, FilesOK, ScriptOK, Logs
<1>5. MeetInv'
  BY <1>1, <1>3 DEF Eventfd, HInv, MeetInv, Thawed, Leaving, Coming, Arrived, FirstLoop,
     Parked, Gone
<1>6. ImageInv'
  BY <1>3 DEF HInv, ImageInv
<1>7. ProgramInv'
  BY <1>1, <1>3 DEF HInv, ProgramInv, MeetInv, Leaving, Gone
<1>8. VerdictInv'
  BY <1>3 DEF HInv, VerdictInv
<1> QED
  BY <1>4, <1>5, <1>6, <1>7, <1>8 DEF HInv

\* Seeing checkpoint-done keeps the invariant.
LEMMA PollDoneInv ==
  ASSUME Eventfd, HInv, Thawed, app.pc = "poll", app' = [app EXCEPT !.pc = "unlink"], UNCHANGED log,
         skip \/ done, UNCHANGED <<ready, done, skip>>,
         UNCHANGED <<frozen, scriptVars, broken>>
  PROVE  HInv'
<1> USE IMAXAssumption DEF Labels
<1>1. /\ app \in App /\ app.op \in Labels /\ log \in Nat /\ sh.i \in Labels /\ broken \in -1 .. IMAX
      /\ app'.pc = "unlink" /\ app'.op = app.op
  BY DEF HInv, TypeOK, ProgramOK, ScriptOK, Labels, Logs, App, files
<1>2. app' \in App
  BY <1>1, Zenon DEF App, AppPcs, DoCkptPcs, Gone
<1>3. UNCHANGED <<frozen, sh, logs, image, orig, broken>>
  BY DEF scriptVars
<1>4. TypeOK'
  BY <1>1, <1>2, <1>3 DEF HInv, TypeOK, ProgramOK, FilesOK, ScriptOK, Logs
<1>5. MeetInv'
  BY <1>1, <1>3 DEF Eventfd, HInv, MeetInv, Thawed, Leaving, Coming, Arrived, FirstLoop,
     Parked, Gone
<1>6. ImageInv'
  BY <1>3 DEF HInv, ImageInv
<1>7. ProgramInv'
  BY <1>1, <1>3 DEF HInv, ProgramInv, MeetInv, Leaving, Gone
<1>8. VerdictInv'
  BY <1>3 DEF HInv, VerdictInv
<1> QED
  BY <1>4, <1>5, <1>6, <1>7, <1>8 DEF HInv

\* Removing checkpoint-done keeps the invariant.
LEMMA UnlinkDoneInv ==
  ASSUME Eventfd, HInv, Thawed, app.pc = "unlink", app' = [app EXCEPT !.pc = "check"], UNCHANGED log,
         done' = FALSE, UNCHANGED <<ready, skip>>,
         UNCHANGED <<frozen, scriptVars, broken>>
  PROVE  HInv'
<1> USE IMAXAssumption DEF Labels
<1>1. /\ app \in App /\ app.op \in Labels /\ log \in Nat /\ sh.i \in Labels /\ broken \in -1 .. IMAX
      /\ app'.pc = "check" /\ app'.op = app.op
  BY DEF HInv, TypeOK, ProgramOK, ScriptOK, Labels, Logs, App, files
<1>2. app' \in App
  BY <1>1, Zenon DEF App, AppPcs, DoCkptPcs, Gone
<1>3. UNCHANGED <<frozen, sh, logs, image, orig, broken>>
  BY DEF scriptVars
<1>4. TypeOK'
  BY <1>1, <1>2, <1>3, ZenonT(60) DEF HInv, TypeOK, ProgramOK, FilesOK, ScriptOK, Logs
<1>5. MeetInv'
  BY <1>1, <1>3 DEF Eventfd, HInv, MeetInv, Thawed, Leaving, Coming, Arrived, FirstLoop,
     Parked, Gone
<1>6. ImageInv'
  BY <1>3 DEF HInv, ImageInv
<1>7. ProgramInv'
  BY <1>1, <1>3 DEF HInv, ProgramInv, MeetInv, Leaving, Gone
<1>8. VerdictInv'
  BY <1>3 DEF HInv, VerdictInv
<1> QED
  BY <1>4, <1>5, <1>6, <1>7, <1>8 DEF HInv

\* No step of the program breaks the invariant.
LEMMA AppNextInv ==
  ASSUME Eventfd, HInv, AppNext
  PROVE  HInv'
<1>1. Thawed /\ UNCHANGED <<frozen, scriptVars, broken>>
  BY DEF AppNext, ProgramStep
<1>2. CASE LabelAction
  BY <1>1, <1>2, LabelActionInv
<1>3. CASE LabelCheck
  BY <1>1, <1>3, LabelFailsInv, LabelLastInv, LabelNextInv
<1>4. CASE CallDoCkpt("check")
  <2>1. PICK next \in DoCkptPcs \cup {"check"} :
           /\ \/ SetReadyAccess(app.pc, next)
              \/ SetReadyCreat(app.pc, next)
              \/ DryRunAccess(app.pc, next, "check")
              \/ PollDone(app.pc, next)
              \/ UnlinkDone(app.pc, next, "check")
           /\ app' = [app EXCEPT !.pc = next]
    BY <1>4 DEF CallDoCkpt
  <2>2. UNCHANGED log
    BY <1>4 DEF CallDoCkpt
  <2>3. CASE SetReadyAccess(app.pc, next)
    BY <1>1, <2>1, <2>2, <2>3, SetReadyAccessInv, SetReadyDryInv DEF SetReadyAccess, files
  <2>4. CASE SetReadyCreat(app.pc, next)
    BY <1>1, <2>1, <2>2, <2>4, SetReadyCreatInv DEF SetReadyCreat
  <2>5. CASE DryRunAccess(app.pc, next, "check")
    BY <1>1, <2>1, <2>2, <2>5, DryRunSkipInv, DryRunAccessInv DEF DryRunAccess, files
  <2>6. CASE PollDone(app.pc, next)
    BY <1>1, <2>1, <2>2, <2>6, PollDoneInv DEF PollDone, files
  <2>7. CASE UnlinkDone(app.pc, next, "check")
    BY <1>1, <2>1, <2>2, <2>7, UnlinkDoneInv, ZenonT(60) DEF UnlinkDone
  <2> QED
    BY <2>1, <2>3, <2>4, <2>5, <2>6, <2>7
<1> QED
  BY <1>2, <1>3, <1>4 DEF AppNext, ProgramStep

\* The script seeing checkpoint-ready keeps the invariant.
LEMMA AwaitReadyInv ==
  ASSUME Eventfd, HInv, UNCHANGED broken, AwaitReady
  PROVE  HInv'
<1> USE IMAXAssumption, NoImageAssumption DEF Labels
<1>1. /\ sh \in [pc : ScriptPcs, i : Labels, failed : {0, 1}, passed : SUBSET Labels]
      /\ sh.i \in Labels /\ broken \in -1 .. IMAX /\ app \in App /\ log \in Nat
      /\ app.op \in Labels
      /\ sh' = [sh EXCEPT !.pc = "freeze"]
      /\ sh'.pc = "freeze"
      /\ sh'.i = sh.i
      /\ sh'.failed = sh.failed
      /\ sh'.passed = sh.passed
  BY DEF HInv, TypeOK, ProgramOK, ScriptOK, Labels, Logs, App, AwaitReady, Goto, files
<1>2. sh' \in [pc : ScriptPcs, i : Labels, failed : {0, 1}, passed : SUBSET Labels]
  BY <1>1, Zenon DEF ScriptPcs
<1>3. TypeOK'
  BY <1>1, <1>2, ZenonT(60) DEF HInv, TypeOK, ProgramOK, FilesOK, ScriptOK, Logs, AwaitReady, files
<1>4. MeetInv'
  BY <1>1 DEF Eventfd, HInv, MeetInv, Leaving, Coming, Arrived, FirstLoop,
     Parked, Gone, AwaitReady, files
<1>5. ImageInv'
  BY <1>1 DEF HInv, TypeOK, ImageInv, AwaitReady
<1>6. ProgramInv'
  BY <1>1 DEF HInv, ProgramInv, MeetInv, FirstLoop, AwaitReady
<1>7. VerdictInv'
  BY <1>1 DEF HInv, VerdictInv, FirstLoop, AwaitReady
<1> QED
  BY <1>3, <1>4, <1>5, <1>6, <1>7 DEF HInv

\* freeze() keeps the invariant: the program is parked at its label.
LEMMA FreezeInv ==
  ASSUME Eventfd, HInv, UNCHANGED broken, Freeze
  PROVE  HInv'
<1> USE IMAXAssumption, NoImageAssumption DEF Labels
<1>1. /\ sh \in [pc : ScriptPcs, i : Labels, failed : {0, 1}, passed : SUBSET Labels]
      /\ sh.i \in Labels /\ broken \in -1 .. IMAX /\ app \in App /\ log \in Nat
      /\ app.op \in Labels
      /\ sh' = [sh EXCEPT !.pc = "copy"]
      /\ sh'.pc = "copy"
      /\ sh'.i = sh.i
      /\ sh'.failed = sh.failed
      /\ sh'.passed = sh.passed
  BY DEF HInv, TypeOK, ProgramOK, ScriptOK, Labels, Logs, App, Freeze, Goto, files
<1>2. sh' \in [pc : ScriptPcs, i : Labels, failed : {0, 1}, passed : SUBSET Labels]
  BY <1>1, Zenon DEF ScriptPcs
<1>3. TypeOK'
  BY <1>1, <1>2, ZenonT(60) DEF HInv, TypeOK, ProgramOK, FilesOK, ScriptOK, Logs, Freeze, files
<1>4. MeetInv'
  BY <1>1 DEF Eventfd, HInv, MeetInv, Leaving, Coming, Arrived, FirstLoop,
     Parked, Gone, Freeze, files
<1>5. ImageInv'
  BY <1>1 DEF HInv, TypeOK, ImageInv, Freeze
<1>6. ProgramInv'
  BY <1>1 DEF HInv, ProgramInv, MeetInv, FirstLoop, Freeze
<1>7. VerdictInv'
  BY <1>1 DEF HInv, VerdictInv, FirstLoop, Freeze
<1> QED
  BY <1>3, <1>4, <1>5, <1>6, <1>7 DEF HInv

\* Copying the log keeps the invariant.
LEMMA CopyLogInv ==
  ASSUME Eventfd, HInv, UNCHANGED broken, CopyLog
  PROVE  HInv'
<1> USE IMAXAssumption, NoImageAssumption DEF Labels
<1>1. /\ sh \in [pc : ScriptPcs, i : Labels, failed : {0, 1}, passed : SUBSET Labels]
      /\ sh.i \in Labels /\ broken \in -1 .. IMAX /\ app \in App /\ log \in Nat
      /\ app.op \in Labels
      /\ sh' = [sh EXCEPT !.pc = "checkpoint"]
      /\ sh'.pc = "checkpoint"
      /\ sh'.i = sh.i
      /\ sh'.failed = sh.failed
      /\ sh'.passed = sh.passed
  BY DEF HInv, TypeOK, ProgramOK, ScriptOK, Labels, Logs, App, CopyLog, Goto, files
<1>2. sh' \in [pc : ScriptPcs, i : Labels, failed : {0, 1}, passed : SUBSET Labels]
  BY <1>1, Zenon DEF ScriptPcs
<1>3. TypeOK'
  BY <1>1, <1>2, ZenonT(60) DEF HInv, TypeOK, ProgramOK, FilesOK, ScriptOK, Logs, CopyLog, files
<1>4. MeetInv'
  BY <1>1 DEF Eventfd, HInv, MeetInv, Leaving, Coming, Arrived, FirstLoop,
     Parked, Gone, CopyLog, files
<1>5. ImageInv'
  BY <1>1 DEF HInv, TypeOK, ImageInv, CopyLog, MeetInv, Arrived, ProgramInv, Parked
<1>6. ProgramInv'
  BY <1>1 DEF HInv, ProgramInv, MeetInv, FirstLoop, CopyLog
<1>7. VerdictInv'
  BY <1>1 DEF HInv, VerdictInv, FirstLoop, CopyLog
<1> QED
  BY <1>3, <1>4, <1>5, <1>6, <1>7 DEF HInv

\* A checkpoint that succeeds keeps the invariant.
LEMMA CheckpointInv ==
  ASSUME Eventfd, HInv, UNCHANGED broken, Checkpoint
  PROVE  HInv'
<1> USE IMAXAssumption, NoImageAssumption DEF Labels
<1>1. /\ sh \in [pc : ScriptPcs, i : Labels, failed : {0, 1}, passed : SUBSET Labels]
      /\ sh.i \in Labels /\ broken \in -1 .. IMAX /\ app \in App /\ log \in Nat
      /\ app.op \in Labels
      /\ sh' = [sh EXCEPT !.pc = "rm"]
      /\ sh'.pc = "rm"
      /\ sh'.i = sh.i
      /\ sh'.failed = sh.failed
      /\ sh'.passed = sh.passed
  BY DEF HInv, TypeOK, ProgramOK, ScriptOK, Labels, Logs, App, Checkpoint, Eventfd, Goto, files
<1>2. sh' \in [pc : ScriptPcs, i : Labels, failed : {0, 1}, passed : SUBSET Labels]
  BY <1>1, Zenon DEF ScriptPcs
<1>3. TypeOK'
  BY <1>1, <1>2, ZenonT(60) DEF HInv, TypeOK, ProgramOK, FilesOK, ScriptOK, Logs, Checkpoint, Eventfd, files
<1>4. MeetInv'
  BY <1>1 DEF Eventfd, HInv, MeetInv, Leaving, Coming, Arrived, FirstLoop,
     Parked, Gone, Checkpoint, Eventfd, files
<1>5. ImageInv'
  BY <1>1 DEF HInv, TypeOK, ImageInv, Checkpoint, Eventfd, MeetInv, Arrived, ProgramInv, Parked, App
<1>6. ProgramInv'
  BY <1>1 DEF HInv, ProgramInv, MeetInv, FirstLoop, Checkpoint, Eventfd
<1>7. VerdictInv'
  BY <1>1 DEF HInv, VerdictInv, FirstLoop, Checkpoint, Eventfd
<1> QED
  BY <1>3, <1>4, <1>5, <1>6, <1>7 DEF HInv

\* A checkpoint that fails keeps the invariant.
LEMMA CheckpointFailsInv ==
  ASSUME Eventfd, HInv, UNCHANGED broken, CheckpointFails
  PROVE  HInv'
<1> USE IMAXAssumption, NoImageAssumption DEF Labels
<1>1. /\ sh \in [pc : ScriptPcs, i : Labels, failed : {0, 1}, passed : SUBSET Labels]
      /\ sh.i \in Labels /\ broken \in -1 .. IMAX /\ app \in App /\ log \in Nat
      /\ app.op \in Labels
      /\ sh' = [sh EXCEPT !.pc = "end", !.failed = 1]
      /\ sh'.pc = "end"
      /\ sh'.i = sh.i
      /\ sh'.failed = 1
      /\ sh'.passed = sh.passed
  BY DEF HInv, TypeOK, ProgramOK, ScriptOK, Labels, Logs, App, CheckpointFails, Goto, files
<1>2. sh' \in [pc : ScriptPcs, i : Labels, failed : {0, 1}, passed : SUBSET Labels]
  BY <1>1, Zenon DEF ScriptPcs
<1>3. TypeOK'
  BY <1>1, <1>2, ZenonT(60) DEF HInv, TypeOK, ProgramOK, FilesOK, ScriptOK, Logs, CheckpointFails, files, App, AppPcs, Gone
<1>4. MeetInv'
  BY <1>1 DEF Eventfd, HInv, MeetInv, Leaving, Coming, Arrived, FirstLoop,
     Parked, Gone, CheckpointFails, files
<1>5. ImageInv'
  BY <1>1 DEF HInv, TypeOK, ImageInv, CheckpointFails
<1>6. ProgramInv'
  BY <1>1 DEF HInv, ProgramInv, MeetInv, FirstLoop, CheckpointFails
<1>7. VerdictInv'
  BY <1>1 DEF HInv, VerdictInv, FirstLoop, CheckpointFails
<1> QED
  BY <1>3, <1>4, <1>5, <1>6, <1>7 DEF HInv

\* rm checkpoint-ready keeps the invariant.
LEMMA RmReadyInv ==
  ASSUME Eventfd, HInv, UNCHANGED broken, RmReady
  PROVE  HInv'
<1> USE IMAXAssumption, NoImageAssumption DEF Labels
<1>1. /\ sh \in [pc : ScriptPcs, i : Labels, failed : {0, 1}, passed : SUBSET Labels]
      /\ sh.i \in Labels /\ broken \in -1 .. IMAX /\ app \in App /\ log \in Nat
      /\ app.op \in Labels
      /\ sh' = [sh EXCEPT !.pc = "touch"]
      /\ sh'.pc = "touch"
      /\ sh'.i = sh.i
      /\ sh'.failed = sh.failed
      /\ sh'.passed = sh.passed
  BY DEF HInv, TypeOK, ProgramOK, ScriptOK, Labels, Logs, App, RmReady, Goto, files
<1>2. sh' \in [pc : ScriptPcs, i : Labels, failed : {0, 1}, passed : SUBSET Labels]
  BY <1>1, Zenon DEF ScriptPcs
<1>3. TypeOK'
  BY <1>1, <1>2, ZenonT(60) DEF HInv, TypeOK, ProgramOK, FilesOK, ScriptOK, Logs, RmReady, files
<1>4. MeetInv'
  BY <1>1 DEF Eventfd, HInv, MeetInv, Leaving, Coming, Arrived, FirstLoop,
     Parked, Gone, RmReady, files
<1>5. ImageInv'
  BY <1>1 DEF HInv, TypeOK, ImageInv, RmReady
<1>6. ProgramInv'
  BY <1>1 DEF HInv, ProgramInv, MeetInv, FirstLoop, RmReady
<1>7. VerdictInv'
  BY <1>1 DEF HInv, VerdictInv, FirstLoop, RmReady
<1> QED
  BY <1>3, <1>4, <1>5, <1>6, <1>7 DEF HInv

\* touch checkpoint-done keeps the invariant.
LEMMA TouchDoneInv ==
  ASSUME Eventfd, HInv, UNCHANGED broken, TouchDone
  PROVE  HInv'
<1> USE IMAXAssumption, NoImageAssumption DEF Labels
<1>1. /\ sh \in [pc : ScriptPcs, i : Labels, failed : {0, 1}, passed : SUBSET Labels]
      /\ sh.i \in Labels /\ broken \in -1 .. IMAX /\ app \in App /\ log \in Nat
      /\ app.op \in Labels
      /\ sh' = [sh EXCEPT !.pc = "thaw"]
      /\ sh'.pc = "thaw"
      /\ sh'.i = sh.i
      /\ sh'.failed = sh.failed
      /\ sh'.passed = sh.passed
  BY DEF HInv, TypeOK, ProgramOK, ScriptOK, Labels, Logs, App, TouchDone, Goto, files
<1>2. sh' \in [pc : ScriptPcs, i : Labels, failed : {0, 1}, passed : SUBSET Labels]
  BY <1>1, Zenon DEF ScriptPcs
<1>3. TypeOK'
  BY <1>1, <1>2, ZenonT(60) DEF HInv, TypeOK, ProgramOK, FilesOK, ScriptOK, Logs, TouchDone, files
<1>4. MeetInv'
  BY <1>1 DEF Eventfd, HInv, MeetInv, Leaving, Coming, Arrived, FirstLoop,
     Parked, Gone, TouchDone, files
<1>5. ImageInv'
  BY <1>1 DEF HInv, TypeOK, ImageInv, TouchDone
<1>6. ProgramInv'
  BY <1>1 DEF HInv, ProgramInv, MeetInv, FirstLoop, TouchDone
<1>7. VerdictInv'
  BY <1>1 DEF HInv, VerdictInv, FirstLoop, TouchDone
<1> QED
  BY <1>3, <1>4, <1>5, <1>6, <1>7 DEF HInv

\* What the second loop restarts is a program as it was at its label.
LEMMA RestartFromImage ==
  ASSUME HInv, sh.pc = "restart"
  PROVE  image[sh.i] \in App /\ logs[sh.i] \in Nat
<1>1. /\ sh.i \in Labels /\ image[sh.i] \in App \cup {NoImage}
      /\ IMAX \in Nat
  BY IMAXAssumption DEF HInv, TypeOK, ScriptOK
<1>2. image[sh.i] # NoImage /\ logs[sh.i] = sh.i + 1
  BY <1>1 DEF HInv, ImageInv, Labels
<1> QED
  BY <1>1, <1>2 DEF Labels

\* thaw(), with labels left, keeps the invariant.
LEMMA ThawNextInv ==
  ASSUME Eventfd, HInv, UNCHANGED broken, Thaw, sh.i # IMAX
  PROVE  HInv'
<1> USE IMAXAssumption, NoImageAssumption DEF Labels
<1>1. /\ sh \in [pc : ScriptPcs, i : Labels, failed : {0, 1}, passed : SUBSET Labels]
      /\ sh.i \in Labels /\ broken \in -1 .. IMAX /\ app \in App /\ log \in Nat
      /\ app.op \in Labels
      /\ sh' = [sh EXCEPT !.pc = "await", !.i = sh.i + 1]
      /\ sh'.pc = "await"
      /\ sh'.i = sh.i + 1
      /\ sh'.failed = sh.failed
      /\ sh'.passed = sh.passed
      /\ sh.i + 1 \in 0 .. IMAX
  BY DEF HInv, TypeOK, ProgramOK, ScriptOK, Labels, Logs, App, Thaw, Goto, files
<1>2. sh' \in [pc : ScriptPcs, i : Labels, failed : {0, 1}, passed : SUBSET Labels]
  BY <1>1, Zenon DEF ScriptPcs
<1>3. TypeOK'
  BY <1>1, <1>2, ZenonT(60) DEF HInv, TypeOK, ProgramOK, FilesOK, ScriptOK, Logs, Thaw, files
<1>4. MeetInv'
  BY <1>1 DEF Eventfd, HInv, MeetInv, Leaving, Coming, Arrived, FirstLoop,
     Parked, Gone, Thaw, files
<1>5. ImageInv'
  BY <1>1 DEF HInv, TypeOK, ImageInv, Thaw
<1>6. ProgramInv'
  BY <1>1 DEF HInv, ProgramInv, MeetInv, FirstLoop, Thaw
<1>7. VerdictInv'
  BY <1>1 DEF HInv, VerdictInv, FirstLoop, Thaw
<1> QED
  BY <1>3, <1>4, <1>5, <1>6, <1>7 DEF HInv

\* thaw() after the last label keeps the invariant.
LEMMA ThawLastInv ==
  ASSUME Eventfd, HInv, UNCHANGED broken, Thaw, sh.i = IMAX
  PROVE  HInv'
<1> USE IMAXAssumption, NoImageAssumption DEF Labels
<1>1. /\ sh \in [pc : ScriptPcs, i : Labels, failed : {0, 1}, passed : SUBSET Labels]
      /\ sh.i \in Labels /\ broken \in -1 .. IMAX /\ app \in App /\ log \in Nat
      /\ app.op \in Labels
      /\ sh' = [sh EXCEPT !.pc = "redo"]
      /\ sh'.pc = "redo"
      /\ sh'.i = sh.i
      /\ sh'.failed = sh.failed
      /\ sh'.passed = sh.passed
  BY DEF HInv, TypeOK, ProgramOK, ScriptOK, Labels, Logs, App, Thaw, Goto, files
<1>2. sh' \in [pc : ScriptPcs, i : Labels, failed : {0, 1}, passed : SUBSET Labels]
  BY <1>1, Zenon DEF ScriptPcs
<1>3. TypeOK'
  BY <1>1, <1>2, ZenonT(60) DEF HInv, TypeOK, ProgramOK, FilesOK, ScriptOK, Logs, Thaw, files
<1>4. MeetInv'
  BY <1>1 DEF Eventfd, HInv, MeetInv, Leaving, Coming, Arrived, FirstLoop,
     Parked, Gone, Thaw, files
<1>5. ImageInv'
  BY <1>1 DEF HInv, TypeOK, ImageInv, Thaw
<1>6. ProgramInv'
  BY <1>1 DEF HInv, ProgramInv, MeetInv, FirstLoop, Thaw
<1>7. VerdictInv'
  BY <1>1 DEF HInv, VerdictInv, FirstLoop, Thaw
<1> QED
  BY <1>3, <1>4, <1>5, <1>6, <1>7 DEF HInv

\* Finding checkpoint-done there after the first loop keeps the invariant.
LEMMA RedoWaitInv ==
  ASSUME Eventfd, HInv, UNCHANGED broken, Redo, done
  PROVE  HInv'
<1> USE IMAXAssumption, NoImageAssumption DEF Labels
<1>1. /\ sh \in [pc : ScriptPcs, i : Labels, failed : {0, 1}, passed : SUBSET Labels]
      /\ sh.i \in Labels /\ broken \in -1 .. IMAX /\ app \in App /\ log \in Nat
      /\ app.op \in Labels
      /\ sh' = [sh EXCEPT !.pc = "wait"]
      /\ sh'.pc = "wait"
      /\ sh'.i = sh.i
      /\ sh'.failed = sh.failed
      /\ sh'.passed = sh.passed
  BY DEF HInv, TypeOK, ProgramOK, ScriptOK, Labels, Logs, App, Redo, Goto, files
<1>2. sh' \in [pc : ScriptPcs, i : Labels, failed : {0, 1}, passed : SUBSET Labels]
  BY <1>1, Zenon DEF ScriptPcs
<1>3. TypeOK'
  BY <1>1, <1>2, ZenonT(60) DEF HInv, TypeOK, ProgramOK, FilesOK, ScriptOK, Logs, Redo, files
<1>4. MeetInv'
  BY <1>1 DEF Eventfd, HInv, MeetInv, Leaving, Coming, Arrived, FirstLoop,
     Parked, Gone, Redo, files
<1>5. ImageInv'
  BY <1>1 DEF HInv, TypeOK, ImageInv, Redo
<1>6. ProgramInv'
  BY <1>1 DEF HInv, ProgramInv, MeetInv, FirstLoop, Redo
<1>7. VerdictInv'
  BY <1>1 DEF HInv, VerdictInv, FirstLoop, Redo
<1> QED
  BY <1>3, <1>4, <1>5, <1>6, <1>7 DEF HInv

\* Touching checkpoint-done once more after the first loop keeps the
\* invariant.
LEMMA RedoTouchInv ==
  ASSUME Eventfd, HInv, UNCHANGED broken, Redo, ~done
  PROVE  HInv'
<1> USE IMAXAssumption DEF Labels
<1>1. done' = TRUE /\ UNCHANGED <<ready, skip, frozen, app, log, sh, logs, image, orig>>
  BY DEF Redo
<1>2. TypeOK'
  BY <1>1 DEF HInv, TypeOK, ProgramOK, FilesOK, ScriptOK
<1>3. MeetInv'
  BY <1>1, SMTT(60) DEF HInv, MeetInv, Leaving, Coming, Arrived, FirstLoop, Redo
<1>4. ImageInv' /\ ProgramInv' /\ VerdictInv'
  BY <1>1 DEF HInv, ImageInv, ProgramInv, VerdictInv
<1> QED
  BY <1>2, <1>3, <1>4 DEF HInv

\* Waiting for the original program keeps the invariant.
LEMMA WaitOriginalInv ==
  ASSUME Eventfd, HInv, UNCHANGED broken, WaitOriginal
  PROVE  HInv'
<1> USE IMAXAssumption, NoImageAssumption DEF Labels
<1>1. /\ sh \in [pc : ScriptPcs, i : Labels, failed : {0, 1}, passed : SUBSET Labels]
      /\ sh.i \in Labels /\ broken \in -1 .. IMAX /\ app \in App /\ log \in Nat
      /\ app.op \in Labels
      /\ sh' = [sh EXCEPT !.pc = "restart", !.i = 0]
      /\ sh'.pc = "restart"
      /\ sh'.i = 0
      /\ sh'.failed = sh.failed
      /\ sh'.passed = sh.passed
      /\ 0 \in 0 .. IMAX
  BY DEF HInv, TypeOK, ProgramOK, ScriptOK, Labels, Logs, App, WaitOriginal, Goto, files
<1>2. sh' \in [pc : ScriptPcs, i : Labels, failed : {0, 1}, passed : SUBSET Labels]
  BY <1>1, Zenon DEF ScriptPcs
<1>3. TypeOK'
  BY <1>1, <1>2 DEF HInv, TypeOK, ProgramOK, FilesOK, ScriptOK, Logs, WaitOriginal, files
<1>4. MeetInv'
  BY <1>1 DEF Eventfd, HInv, MeetInv, Leaving, Coming, Arrived, FirstLoop,
     Parked, Gone, WaitOriginal, files
<1>5. ImageInv'
  BY <1>1 DEF HInv, TypeOK, ImageInv, WaitOriginal
<1>6. ProgramInv'
  BY <1>1 DEF HInv, ProgramInv, MeetInv, FirstLoop, WaitOriginal, Leaving, Gone, Parked
<1>7. VerdictInv'
  BY <1>1 DEF HInv, VerdictInv, FirstLoop, WaitOriginal, Logs, NoImageAssumption
<1> QED
  BY <1>3, <1>4, <1>5, <1>6, <1>7 DEF HInv

\* A restart that succeeds keeps the invariant.
LEMMA RestartInv ==
  ASSUME Eventfd, HInv, UNCHANGED broken, Restart
  PROVE  HInv'
<1> USE IMAXAssumption, NoImageAssumption DEF Labels
<1>1. /\ sh \in [pc : ScriptPcs, i : Labels, failed : {0, 1}, passed : SUBSET Labels]
      /\ sh.i \in Labels /\ broken \in -1 .. IMAX /\ app \in App /\ log \in Nat
      /\ app.op \in Labels
      /\ sh' = [sh EXCEPT !.pc = "run"]
      /\ sh'.pc = "run"
      /\ sh'.i = sh.i
      /\ sh'.failed = sh.failed
      /\ sh'.passed = sh.passed
  BY DEF HInv, TypeOK, ProgramOK, ScriptOK, Labels, Logs, App, Restart, Goto, files
<1>2. sh' \in [pc : ScriptPcs, i : Labels, failed : {0, 1}, passed : SUBSET Labels]
  BY <1>1, Zenon DEF ScriptPcs
<1>3. TypeOK'
  BY RestartFromImage, <1>1, <1>2, ZenonT(60) DEF HInv, TypeOK, ProgramOK, FilesOK, ScriptOK, Logs, Restart, files
<1>4. MeetInv'
  BY <1>1 DEF Eventfd, HInv, MeetInv, Leaving, Coming, Arrived, FirstLoop,
     Parked, Gone, Restart, files
<1>5. ImageInv'
  BY <1>1 DEF HInv, TypeOK, ImageInv, Restart
<1>6. ProgramInv'
  BY <1>1 DEF HInv, ProgramInv, MeetInv, FirstLoop, Restart, ImageInv, VerdictInv, Parked, Gone
<1>7. VerdictInv'
  BY <1>1 DEF HInv, VerdictInv, FirstLoop, Restart
<1> QED
  BY <1>3, <1>4, <1>5, <1>6, <1>7 DEF HInv

\* A restart that fails keeps the invariant.
LEMMA RestartFailsInv ==
  ASSUME Eventfd, HInv, UNCHANGED broken, RestartFails
  PROVE  HInv'
<1> USE IMAXAssumption, NoImageAssumption DEF Labels
<1>1. /\ sh \in [pc : ScriptPcs, i : Labels, failed : {0, 1}, passed : SUBSET Labels]
      /\ sh.i \in Labels /\ broken \in -1 .. IMAX /\ app \in App /\ log \in Nat
      /\ app.op \in Labels
      /\ sh' = [sh EXCEPT !.pc = "end", !.failed = 1]
      /\ sh'.pc = "end"
      /\ sh'.i = sh.i
      /\ sh'.failed = 1
      /\ sh'.passed = sh.passed
  BY DEF HInv, TypeOK, ProgramOK, ScriptOK, Labels, Logs, App, RestartFails, Goto, files
<1>2. sh' \in [pc : ScriptPcs, i : Labels, failed : {0, 1}, passed : SUBSET Labels]
  BY <1>1, Zenon DEF ScriptPcs
<1>3. TypeOK'
  BY RestartFromImage, <1>1, <1>2, ZenonT(60) DEF HInv, TypeOK, ProgramOK, FilesOK, ScriptOK, Logs, RestartFails, files
<1>4. MeetInv'
  BY <1>1 DEF Eventfd, HInv, MeetInv, Leaving, Coming, Arrived, FirstLoop,
     Parked, Gone, RestartFails, files
<1>5. ImageInv'
  BY <1>1 DEF HInv, TypeOK, ImageInv, RestartFails
<1>6. ProgramInv'
  BY <1>1 DEF HInv, ProgramInv, MeetInv, FirstLoop, RestartFails
<1>7. VerdictInv'
  BY <1>1 DEF HInv, VerdictInv, FirstLoop, RestartFails
<1> QED
  BY <1>3, <1>4, <1>5, <1>6, <1>7 DEF HInv

\* The exit of the restarted program keeps the invariant.
LEMMA RestartReturnsInv ==
  ASSUME Eventfd, HInv, UNCHANGED broken, RestartReturns
  PROVE  HInv'
<1> USE IMAXAssumption, NoImageAssumption DEF Labels
<1>1. /\ sh \in [pc : ScriptPcs, i : Labels, failed : {0, 1}, passed : SUBSET Labels]
      /\ sh.i \in Labels /\ broken \in -1 .. IMAX /\ app \in App /\ log \in Nat
      /\ app.op \in Labels
      /\ sh' = [sh EXCEPT !.pc = "diff"]
      /\ sh'.pc = "diff"
      /\ sh'.i = sh.i
      /\ sh'.failed = sh.failed
      /\ sh'.passed = sh.passed
  BY DEF HInv, TypeOK, ProgramOK, ScriptOK, Labels, Logs, App, RestartReturns, Goto, files
<1>2. sh' \in [pc : ScriptPcs, i : Labels, failed : {0, 1}, passed : SUBSET Labels]
  BY <1>1, Zenon DEF ScriptPcs
<1>3. TypeOK'
  BY <1>1, <1>2, ZenonT(60) DEF HInv, TypeOK, ProgramOK, FilesOK, ScriptOK, Logs, RestartReturns, files
<1>4. MeetInv'
  BY <1>1 DEF Eventfd, HInv, MeetInv, Leaving, Coming, Arrived, FirstLoop,
     Parked, Gone, RestartReturns, files
<1>5. ImageInv'
  BY <1>1 DEF HInv, TypeOK, ImageInv, RestartReturns
<1>6. ProgramInv'
  BY <1>1 DEF HInv, ProgramInv, MeetInv, FirstLoop, RestartReturns
<1>7. VerdictInv'
  BY <1>1 DEF HInv, VerdictInv, FirstLoop, RestartReturns
<1> QED
  BY <1>3, <1>4, <1>5, <1>6, <1>7 DEF HInv

\* diff, with images left, keeps the invariant.
LEMMA DiffNextInv ==
  ASSUME Eventfd, HInv, UNCHANGED broken, DiffLogs, sh.i # IMAX
  PROVE  HInv'
<1> USE IMAXAssumption, NoImageAssumption DEF Labels
<1>1. /\ sh \in [pc : ScriptPcs, i : Labels, failed : {0, 1}, passed : SUBSET Labels]
      /\ sh.i \in Labels /\ broken \in -1 .. IMAX /\ app \in App /\ log \in Nat
      /\ app.op \in Labels
      /\ sh' = [sh EXCEPT !.passed = sh.passed \cup {sh.i}, !.pc = "restart", !.i = sh.i + 1]
      /\ sh'.pc = "restart"
      /\ sh'.i = sh.i + 1
      /\ sh'.failed = sh.failed
      /\ sh'.passed = sh.passed \cup {sh.i}
      /\ sh.i + 1 \in 0 .. IMAX
  BY DEF HInv, TypeOK, ProgramOK, ScriptOK, Labels, Logs, App, DiffLogs, Goto, files
<1>2. sh' \in [pc : ScriptPcs, i : Labels, failed : {0, 1}, passed : SUBSET Labels]
  BY <1>1, Zenon DEF ScriptPcs
<1>3. TypeOK'
  BY <1>1, <1>2, SMTT(60) DEF HInv, TypeOK, ProgramOK, FilesOK, ScriptOK, Logs, DiffLogs, files
<1>4. MeetInv'
  BY <1>1 DEF Eventfd, HInv, MeetInv, Leaving, Coming, Arrived, FirstLoop,
     Parked, Gone, DiffLogs, files
<1>5. ImageInv'
  BY <1>1, SMTT(60) DEF HInv, TypeOK, ImageInv, DiffLogs
<1>6. ProgramInv'
  BY <1>1 DEF HInv, ProgramInv, MeetInv, FirstLoop, DiffLogs
<1>7. VerdictInv'
  BY <1>1 DEF HInv, VerdictInv, FirstLoop, DiffLogs
<1> QED
  BY <1>3, <1>4, <1>5, <1>6, <1>7 DEF HInv

\* diff of the last log keeps the invariant.
LEMMA DiffLastInv ==
  ASSUME Eventfd, HInv, UNCHANGED broken, DiffLogs, sh.i = IMAX
  PROVE  HInv'
<1> USE IMAXAssumption, NoImageAssumption DEF Labels
<1>1. /\ sh \in [pc : ScriptPcs, i : Labels, failed : {0, 1}, passed : SUBSET Labels]
      /\ sh.i \in Labels /\ broken \in -1 .. IMAX /\ app \in App /\ log \in Nat
      /\ app.op \in Labels
      /\ sh' = [sh EXCEPT !.passed = sh.passed \cup {sh.i}, !.pc = "end"]
      /\ sh'.pc = "end"
      /\ sh'.i = sh.i
      /\ sh'.failed = sh.failed
      /\ sh'.passed = sh.passed \cup {sh.i}
  BY ZenonT(60) DEF HInv, TypeOK, ProgramOK, ScriptOK, Labels, Logs, App, DiffLogs, Goto, files
<1>2. sh' \in [pc : ScriptPcs, i : Labels, failed : {0, 1}, passed : SUBSET Labels]
  BY <1>1, Zenon DEF ScriptPcs
<1>3. TypeOK'
  BY <1>1, <1>2 DEF HInv, TypeOK, ProgramOK, FilesOK, ScriptOK, Logs, DiffLogs, files
<1>4. MeetInv'
  BY <1>1 DEF Eventfd, HInv, MeetInv, Leaving, Coming, Arrived, FirstLoop,
     Parked, Gone, DiffLogs, files
<1>5. ImageInv'
  BY <1>1 DEF HInv, TypeOK, ImageInv, DiffLogs
<1>6. ProgramInv'
  BY <1>1 DEF HInv, ProgramInv, MeetInv, FirstLoop, DiffLogs
<1>7. VerdictInv'
  BY <1>1 DEF HInv, VerdictInv, FirstLoop, DiffLogs, MeetInv, ProgramInv
<1> QED
  BY <1>3, <1>4, <1>5, <1>6, <1>7 DEF HInv

\* The end of the script keeps the invariant.
LEMMA FinishInv ==
  ASSUME Eventfd, HInv, UNCHANGED broken, Finish
  PROVE  HInv'
<1> USE IMAXAssumption, NoImageAssumption DEF Labels
<1>1. /\ sh \in [pc : ScriptPcs, i : Labels, failed : {0, 1}, passed : SUBSET Labels]
      /\ sh.i \in Labels /\ broken \in -1 .. IMAX /\ app \in App /\ log \in Nat
      /\ app.op \in Labels
      /\ sh' = [sh EXCEPT !.pc = "exit"]
      /\ sh'.pc = "exit"
      /\ sh'.i = sh.i
      /\ sh'.failed = sh.failed
      /\ sh'.passed = sh.passed
  BY DEF HInv, TypeOK, ProgramOK, ScriptOK, Labels, Logs, App, Finish, Goto, files
<1>2. sh' \in [pc : ScriptPcs, i : Labels, failed : {0, 1}, passed : SUBSET Labels]
  BY <1>1, Zenon DEF ScriptPcs
<1>3. TypeOK'
  BY <1>1, <1>2, ZenonT(60) DEF HInv, TypeOK, ProgramOK, FilesOK, ScriptOK, Logs, Finish, files
<1>4. MeetInv'
  BY <1>1 DEF Eventfd, HInv, MeetInv, Leaving, Coming, Arrived, FirstLoop,
     Parked, Gone, Finish, files
<1>5. ImageInv'
  BY <1>1 DEF HInv, TypeOK, ImageInv, Finish
<1>6. ProgramInv'
  BY <1>1 DEF HInv, ProgramInv, MeetInv, FirstLoop, Finish
<1>7. VerdictInv'
  BY <1>1 DEF HInv, VerdictInv, FirstLoop, Finish
<1> QED
  BY <1>3, <1>4, <1>5, <1>6, <1>7 DEF HInv
-----------------------------------------------------------------------------
\* run.sh starts with no flag file, no image and no program.
LEMMA InitHInv == Init => HInv
<1> SUFFICES ASSUME Init PROVE HInv
  OBVIOUS
<1> USE IMAXAssumption DEF Labels
<1>1. /\ app = [pc |-> "action", op |-> 0] /\ log = 0
      /\ sh = [pc |-> "await", i |-> 0, failed |-> 0, passed |-> {}]
      /\ app.pc = "action" /\ app.op = 0
      /\ sh.pc = "await" /\ sh.i = 0 /\ sh.failed = 0 /\ sh.passed = {}
      /\ 0 \in Labels
  BY DEF Init, ScriptInit, Started
<1>2. app \in App
  BY <1>1, Zenon DEF App, AppPcs
<1>3. sh \in [pc : ScriptPcs, i : Labels, failed : {0, 1}, passed : SUBSET Labels]
  BY <1>1, Zenon DEF ScriptPcs
<1>4. TypeOK
  BY <1>1, <1>2, <1>3, ZenonT(60) DEF Init, ScriptInit, NoFiles, TypeOK, ProgramOK, FilesOK, ScriptOK, Logs
<1>5. MeetInv
  BY <1>1 DEF Init, ScriptInit, NoFiles, MeetInv, Coming
<1>6. ImageInv /\ VerdictInv
  BY <1>1 DEF Init, ScriptInit, ImageInv, VerdictInv
<1>7. ProgramInv
  BY <1>1 DEF Init, ScriptInit, ProgramInv
<1> QED
  BY <1>4, <1>5, <1>6, <1>7 DEF HInv

\* No step of the program or of run.sh breaks the invariant.
LEMMA NextHInv ==
  ASSUME Eventfd, HInv, [Next]_hvars
  PROVE  HInv'
<1>1. CASE AppNext
  BY <1>1, AppNextInv
<1>2. CASE ShNext
  <2>1. UNCHANGED broken
    BY <1>2 DEF ShNext
  <2>2. CASE AwaitReady \/ Freeze \/ CopyLog \/ Checkpoint \/ CheckpointFails
    BY <2>1, <2>2, AwaitReadyInv, FreezeInv, CopyLogInv, CheckpointInv, CheckpointFailsInv
  <2>3. CASE RmReady \/ TouchDone \/ Thaw
    BY <2>1, <2>3, RmReadyInv, TouchDoneInv, ThawNextInv, ThawLastInv
  <2>4. CASE Redo \/ WaitOriginal
    BY <2>1, <2>4, RedoWaitInv, RedoTouchInv, WaitOriginalInv
  <2>5. CASE Restart \/ RestartFails \/ RestartReturns \/ DiffLogs \/ Finish
    BY SMTT(60), <2>1, <2>5, RestartInv, RestartFailsInv, RestartReturnsInv, DiffNextInv, DiffLastInv,
       FinishInv
  <2> QED
    BY <1>2, <2>2, <2>3, <2>4, <2>5 DEF ShNext, ScriptNext
<1>3. CASE UNCHANGED hvars
  <2>1. UNCHANGED <<app, log, ready, done, skip, frozen, sh, logs, image, orig, broken>>
    BY <1>3 DEF hvars, vars, files, scriptVars
  <2>2. TypeOK'
    BY <2>1 DEF HInv, TypeOK, ProgramOK, FilesOK, ScriptOK
  <2>3. MeetInv'
    BY <2>1 DEF HInv, MeetInv, Leaving, Coming, Arrived
  <2>4. ImageInv'
    BY <2>1 DEF HInv, ImageInv
  <2>5. ProgramInv'
    BY <2>1 DEF HInv, ProgramInv
  <2>6. VerdictInv'
    BY <2>1 DEF HInv, VerdictInv
  <2> QED
    BY <2>2, <2>3, <2>4, <2>5, <2>6 DEF HInv
<1> QED
  BY <1>1, <1>2, <1>3 DEF Next, Over, hvars

\* The invariant holds throughout every run of eventfd/run.sh.
LEMMA HInvAlways ==
  ASSUME Eventfd
  PROVE  Spec => []HInv
<1>1. HInv /\ [Next]_hvars => HInv'
  BY NextHInv
<1> QED
  BY <1>1, InitHInv, PTL DEF Spec

-----------------------------------------------------------------------------
(* For every number of labels, the script of eventfd/run.sh and the label  *)
(* program keep to their types: I never passes IMAX, op_num never passes   *)
(* the last label.                                                         *)
THEOREM TypeCorrect ==
  ASSUME Eventfd
  PROVE  Spec => []TypeOK
<1>1. HInv => TypeOK
  BY DEF HInv
<1> QED
  BY <1>1, HInvAlways, PTL

(* For every number of labels, checkpoint I holds the program parked at    *)
(* label I.                                                                *)
THEOREM ImageAtLabelAlways ==
  ASSUME Eventfd
  PROVE  Spec => []ImageAtLabel
<1>1. HInv => ImageAtLabel
  BY DEF HInv, ImageInv, ImageAtLabel
<1> QED
  BY <1>1, HInvAlways, PTL

(* For every number of labels, do_ckpt() never lets the program go from a  *)
(* label whose checkpoint is not on disk.                                  *)
THEOREM NoLabelSkippedAlways ==
  ASSUME Eventfd
  PROVE  Spec => []NoLabelSkipped
<1>1. ASSUME HInv, app.pc \in {"unlink", "check"}, ~skip
      PROVE  image[app.op] # NoImage
  <2>1. app.op \in Labels /\ sh.i \in Labels /\ IMAX \in Nat /\ sh.pc \in ScriptPcs
    BY <1>1, IMAXAssumption DEF HInv, TypeOK, ProgramOK, ScriptOK, App
  <2>2. sh.pc \in {"await", "redo", "wait"}
    BY <1>1, <2>1 DEF HInv, MeetInv, ScriptPcs, Arrived, Parked, Gone
  <2>3. sh.pc = "await" => app.op = sh.i - 1
    BY <1>1 DEF HInv, MeetInv, Leaving, Coming, Arrived, Parked
  <2> QED
    BY <1>1, <2>1, <2>2, <2>3 DEF HInv, ImageInv, Labels
<1>2. HInv => NoLabelSkipped
  BY <1>1 DEF NoLabelSkipped
<1> QED
  BY <1>2, HInvAlways, PTL

(* For every number of labels, the script exits with 0 exactly when every  *)
(* restart was reported PASS, and then no action of the program fails.     *)
THEOREM VerdictAlways ==
  ASSUME Eventfd
  PROVE  Spec => []Verdict
<1>1. HInv => Verdict
  BY IMAXAssumption DEF HInv, VerdictInv, Verdict, Labels
<1> QED
  BY <1>1, HInvAlways, PTL

(* For every number of labels, the log of a restarted program that ran to  *)
(* its end is the log of the original run.                                 *)
THEOREM SameLogAlways ==
  ASSUME Eventfd
  PROVE  Spec => []SameLog
<1>1. HInv => SameLog
  BY IMAXAssumption DEF HInv, TypeOK, ProgramOK, App, Labels, MeetInv, ProgramInv, VerdictInv,
     SameLog
<1> QED
  BY <1>1, HInvAlways, PTL

-----------------------------------------------------------------------------
\* The variables of CkptRendezvous, as functions of those of LabelHarness.
RState == <<RWhere, RMode, RTaken>>

\* In the second loop the rendezvous is over and stays over.
LEMMA SecondLoopStutters ==
  ASSUME orig # NoImage, orig' # NoImage
  PROVE  UNCHANGED RState
  BY Zenon DEF RState, RWhere, RMode, RTaken, Labels

\* Every step of the program is a step of Rendezvous or none.
LEMMA AppStepRefines ==
  ASSUME Eventfd, HInv, AppNext, orig = NoImage
  PROVE  Rendezvous!RNext \/ UNCHANGED RState
<1> USE IMAXAssumption DEF Labels
<1>1. /\ app \in App /\ app.op \in Labels /\ sh.i \in Labels /\ sh.pc \in ScriptPcs
      /\ UNCHANGED <<frozen, sh, logs, image, orig, broken>>
  BY DEF HInv, TypeOK, ProgramOK, ScriptOK, App, AppNext, ProgramStep, scriptVars
<1>2. app.pc \notin Gone
  BY <1>1, SMTT(60) DEF AppNext, ProgramStep, LabelAction, LabelCheck, CallDoCkpt, SetReadyAccess,
     SetReadyCreat, DryRunAccess, PollDone, UnlinkDone, Gone
<1>3. ~skip
  BY <1>1, <1>2 DEF HInv, MeetInv, VerdictInv, ScriptPcs, FirstLoop
<1>4. RTaken = {l \in Labels : image[l] # NoImage} /\ UNCHANGED RTaken
  BY <1>1 DEF RTaken
<1>5. CASE LabelAction
  <2>1. /\ app.pc = "action" /\ app'.pc = "set_ready" /\ app'.op = app.op
    BY <1>1, <1>5 DEF Eventfd, LabelAction, AtCheckpoint, App
  <2> QED
    BY <1>1, <1>4, <2>1 DEF RState, RWhere, RMode, Gone, Parked
<1>6. CASE LabelCheck
  <2>1. app.pc = "check" /\ RMode = "parked" /\ RWhere = app.op
    BY <1>1, <1>6 DEF LabelCheck, RMode, RWhere, Gone, Parked
  <2>2. app.op \in RTaken
    <3>1. sh.pc \in {"await", "redo", "wait"}
      BY <1>1, <1>2, <2>1, SMTT(60) DEF HInv, MeetInv, VerdictInv, ScriptPcs, Arrived, Parked
    <3>2. sh.pc = "await" => app.op = sh.i - 1
      BY <2>1 DEF HInv, MeetInv, Leaving, Coming, Arrived, Parked
    <3> QED
      BY <1>1, <1>4, <3>1, <3>2, SMTT(60) DEF HInv, ImageInv
  <2>3. CASE app'.pc \in Gone
    <3>1. RMode' = "over" /\ RWhere' = 0
      BY <2>3 DEF RMode, RWhere
    <3> QED
      BY <1>4, <2>1, <3>1 DEF Rendezvous!RNext, Rendezvous!Stop
  <2>4. CASE app'.pc \notin Gone
    <3>1. app'.pc = "action" /\ app'.op = app.op + 1 /\ app.op < IMAX
      BY <1>1, <1>6, <2>4 DEF LabelCheck, App, Gone
    <3>2. RMode' = "running" /\ RWhere' = app.op + 1
      BY <1>1, <3>1 DEF RMode, RWhere, Gone, Parked
    <3> QED
      BY <1>4, <2>1, <2>2, <3>1, <3>2 DEF Rendezvous!RNext, Rendezvous!Release
  <2> QED
    BY <2>3, <2>4
<1>7. CASE CallDoCkpt("check")
  <2>1. PICK next \in DoCkptPcs \cup {"check"} :
           /\ \/ SetReadyAccess(app.pc, next)
              \/ SetReadyCreat(app.pc, next)
              \/ DryRunAccess(app.pc, next, "check")
              \/ PollDone(app.pc, next)
              \/ UnlinkDone(app.pc, next, "check")
           /\ app' = [app EXCEPT !.pc = next]
    BY <1>7 DEF CallDoCkpt
  <2>2. app'.pc = next /\ app'.op = app.op
    BY <1>1, <2>1 DEF App
  <2>3. CASE SetReadyCreat(app.pc, next)
    <3>1. app.pc = "creat" /\ app'.pc = "dry_run"
      BY <2>2, <2>3 DEF SetReadyCreat
    <3>2. RMode = "running" /\ RMode' = "parked" /\ UNCHANGED RWhere
      BY <1>1, <2>2, <3>1 DEF RMode, RWhere, Gone, Parked
    <3> QED
      BY <1>4, <3>2 DEF Rendezvous!RNext, Rendezvous!Park
  <2>4. CASE ~SetReadyCreat(app.pc, next)
    <3>1. \/ app.pc = "set_ready" /\ app'.pc = "creat"
          \/ app.pc \in Parked \cup {"unlink"} /\ app'.pc \in Parked \cup {"unlink", "check"}
      BY <1>3, <2>1, <2>2, <2>4 DEF SetReadyAccess, DryRunAccess, PollDone, UnlinkDone, Parked
    <3> QED
      BY <1>1, <1>4, <2>2, <3>1 DEF RState, RWhere, RMode, Gone, Parked
  <2> QED
    BY <2>3, <2>4
<1> QED
  BY <1>5, <1>6, <1>7 DEF AppNext, ProgramStep

\* Every step of the first loop of run.sh is a step of Rendezvous or none.
LEMMA ScriptStepRefines ==
  ASSUME Eventfd, HInv, ShNext, orig = NoImage
  PROVE  Rendezvous!RNext \/ UNCHANGED RState
<1> USE IMAXAssumption, NoImageAssumption DEF Labels
<1>1. /\ app \in App /\ app.op \in Labels /\ sh.i \in Labels /\ log \in Logs
      /\ image \in [Labels -> App \cup {NoImage}]
  BY DEF HInv, TypeOK, ProgramOK, ScriptOK, App
<1>2. sh.pc \notin {"restart", "run", "diff"}
  BY DEF HInv, VerdictInv
<1>3. CASE Checkpoint
  <2>1. /\ app.pc \in Parked /\ app.op = sh.i
        /\ image' = [image EXCEPT ![sh.i] = app] /\ UNCHANGED <<app, orig>>
    BY <1>3 DEF Checkpoint, HInv, MeetInv, Arrived
  <2>2. RMode = "parked" /\ RWhere = sh.i /\ UNCHANGED <<RMode, RWhere>>
    BY <2>1 DEF RMode, RWhere, Gone, Parked
  <2>3. RTaken' = RTaken \cup {sh.i}
    BY <1>1, <2>1 DEF RTaken
  <2> QED
    BY <2>2, <2>3, SMTT(60) DEF Rendezvous!RNext, Rendezvous!Take, RState
<1>4. CASE CheckpointFails
  <2>1. app.pc \in Parked /\ app'.pc = "killed" /\ UNCHANGED <<image, orig>>
    BY <1>1, <1>4 DEF CheckpointFails, HInv, MeetInv, Arrived, App, Parked, Gone
  <2>2. RMode = "parked" /\ RMode' = "over" /\ RWhere' = 0 /\ UNCHANGED RTaken
    BY <2>1 DEF RMode, RWhere, RTaken, Gone, Parked
  <2> QED
    BY <2>2 DEF Rendezvous!RNext, Rendezvous!Stop
<1>5. CASE WaitOriginal
  <2>1. /\ app.pc \in Gone /\ orig' = log /\ UNCHANGED <<app, image>>
        /\ \A l \in Labels : image[l] # NoImage
    BY <1>5 DEF WaitOriginal, HInv, ImageInv
  <2>2. RMode = "over" /\ UNCHANGED <<RMode, RWhere>>
    BY <1>1, <2>1 DEF RMode, RWhere
  <2>3. UNCHANGED RTaken
    BY <1>1, <2>1 DEF RTaken
  <2> QED
    BY <2>2, <2>3 DEF RState
<1>6. CASE ~(Checkpoint \/ CheckpointFails \/ WaitOriginal)
  <2>1. UNCHANGED <<app, image, orig>>
    BY <1>2, <1>6 DEF ShNext, ScriptNext, AwaitReady, Freeze, CopyLog, RmReady, TouchDone,
       Thaw, Redo, Restart, RestartFails, RestartReturns, DiffLogs, Finish
  <2> QED
    BY <2>1 DEF RState, RWhere, RMode, RTaken
<1> QED
  BY <1>3, <1>4, <1>5, <1>6

(* For every number of labels, the flag files, the freezer and do_ckpt()   *)
(* implement the rendezvous: the program leaves each label only after its  *)
(* checkpoint there.                                                       *)
THEOREM RefinesRendezvous ==
  ASSUME Eventfd
  PROVE  Spec => ImplementsRendezvous
<1>1. Init => Rendezvous!RInit
  BY DEF Init, ScriptInit, Started, Rendezvous!RInit, RWhere, RMode, RTaken, Gone, Parked
<1>2. HInv /\ [Next]_hvars => [Rendezvous!RNext]_<<RWhere, RMode, RTaken>>
  <2> SUFFICES ASSUME HInv, [Next]_hvars
               PROVE  Rendezvous!RNext \/ UNCHANGED RState
    BY DEF RState
  <2>1. CASE UNCHANGED hvars
    BY <2>1 DEF hvars, vars, scriptVars, RState, RWhere, RMode, RTaken
  <2>2. CASE orig # NoImage
    <3>1. orig' # NoImage
      BY <2>2, NoImageAssumption DEF HInv, TypeOK, ProgramOK, Next, AppNext, ShNext, Over,
         ScriptNext, AwaitReady, Freeze, CopyLog, Checkpoint, CheckpointFails, RmReady,
         TouchDone, Thaw, Redo, WaitOriginal, Restart, RestartFails, RestartReturns, DiffLogs,
         Finish, hvars, vars, scriptVars
    <3> QED
      BY SMTT(60), <2>2, <3>1, SecondLoopStutters
  <2>3. CASE orig = NoImage /\ AppNext
    BY <2>3, AppStepRefines
  <2>4. CASE orig = NoImage /\ ShNext
    BY <2>4, ScriptStepRefines
  <2> QED
    BY <2>1, <2>2, <2>3, <2>4 DEF Next, Over, hvars
<1> QED
  BY <1>1, <1>2, HInvAlways, PTL DEF Spec, ImplementsRendezvous, Rendezvous!RSpec
=============================================================================
