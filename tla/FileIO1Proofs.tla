--------------------------- MODULE FileIO1Proofs ---------------------------
(***************************************************************************)
(* The copy of fileio1 is complete after every restart, for every number   *)
(* of records and of tests.                                                *)
(***************************************************************************)
EXTENDS FileIO1, TLAPS

Copying == {"read", "sync", "eof", "exit"}

(* What a program, running, killed or in an image, knows about itself.     *)
ProgInv(p) ==
  /\ p.pc \in {"ready", "open"} => p.num = 0
  /\ p.pc = "sync" => p.num < NumRecs /\ p.rec = p.num
  /\ p.pc \in {"eof", "exit"} => p.num = NumRecs

(* The file has what the program takes as written. *)
FileInv(p, file) == p.pc \in Copying => CopiedUpTo(file, p.num)

(* A program that has not opened its file yet is no further than its image. *)
Behind(p) == p.pc \in {"ready", "open"} => image.pc \in {"ready", "open"}

OneProgram ==
  /\ prog # None => dying = None
  /\ sh.pc \in {"start", "restore", "restart", "cmp"} => prog = None
  /\ sh.pc \in {"poll", "find", "freeze", "checkpoint", "snapshot", "thaw", "kill", "wait"} =>
        prog # None
  /\ sh.pc \in {"start", "cmp"} => dying = None

ProgramsInv ==
  /\ prog # None => ProgInv(prog) /\ FileInv(prog, dest)
  /\ dying # None => ProgInv(dying)
  /\ image # None => ProgInv(image) /\ image.pc # "exit"

ScriptInv ==
  /\ sh.pc \in {"checkpoint", "snapshot", "thaw"} => frozen
  /\ sh.pc \in {"snapshot", "thaw", "kill", "restore", "restart"} => image # None
  /\ sh.pc \in {"snapshot", "thaw"} => prog = image
  /\ sh.pc = "kill" => Behind(prog)
  /\ sh.pc \in {"restore", "restart"} /\ dying # None => Behind(dying)
  /\ sh.pc \in {"thaw", "kill", "restore"} => FileInv(image, snap)
  /\ sh.pc = "restart" => FileInv(image, dest) /\ FileInv(image, snap)
  /\ sh.pc = "cmp" => dest = Source

IInv == TypeOK /\ OneProgram /\ ProgramsInv /\ ScriptInv

USE CopyAssumption, NoneAssumption

(* The script starts with no program, no image and nothing copied. *)
LEMMA InitIInv == Init => IInv
<1> SUFFICES ASSUME Init PROVE IInv
  OBVIOUS
<1>1. dest \in Files /\ snap \in Files
  BY DEF Init, Files, EmptyFile
<1>2. sh \in [pc : ShPcs, cnt : 1 .. NumTests, status : {0, 1}]
  BY DEF Init, ShPcs
<1> QED BY <1>1, <1>2, ZenonT(60) DEF Init, IInv, TypeOK, OneProgram, ProgramsInv, ScriptInv

(* A record written where it belongs takes nothing away. *)
LEMMA WriteKeeps ==
  ASSUME NEW file \in Files, NEW n \in 0 .. NumRecs, NEW m \in Recs, CopiedUpTo(file, n)
  PROVE  /\ [file EXCEPT ![m] = m] \in Files
         /\ CopiedUpTo([file EXCEPT ![m] = m], n)
         /\ m = n => CopiedUpTo([file EXCEPT ![m] = m], n + 1)
  BY DEF CopiedUpTo, Files, Recs, Source

(* What each step makes of the program and of its file. *)
Kept ==
  /\ prog' \in Progs /\ ProgInv(prog')
  /\ dest' \in Files /\ FileInv(prog', dest')
  /\ ready' \in BOOLEAN
  /\ prog'.pc \in {"ready", "open"} => prog.pc \in {"ready", "open"}

(* A step of one copying program, with the destination file it writes,     *)
(* keeps what is true of that program.                                     *)
LEMMA StepKeeps ==
  ASSUME prog \in Progs, ProgInv(prog), dest \in Files, FileInv(prog, dest), ready \in BOOLEAN,
         CreatReady \/ OpenDest \/ ReadRecord \/ SyncRecord \/ DoExit
  PROVE  Kept
<1>1. CASE CreatReady
  BY <1>1 DEF CreatReady, Kept, FileInv, ProgInv, Progs, Copying
<1>2. CASE OpenDest
  <2>1. dest' \in Files
    BY <1>2 DEF OpenDest, Files, EmptyFile
  <2>2. prog' \in Progs /\ prog'.num = 0 /\ prog'.pc = "read"
    BY <1>2 DEF OpenDest, Progs, ProgInv
  <2>3. FileInv(prog', dest')
    BY <2>2 DEF FileInv, CopiedUpTo, Recs
  <2> QED BY <1>2, <2>1, <2>2, <2>3 DEF OpenDest, Kept, ProgInv
<1>3. CASE ReadRecord /\ prog.num = NumRecs
  <2>1. prog' \in Progs /\ prog'.num = prog.num /\ prog'.pc = "eof"
    BY <1>3 DEF ReadRecord, Progs
  <2> QED BY <1>3, <2>1 DEF ReadRecord, Kept, FileInv, ProgInv, Copying
<1>4. CASE ReadRecord /\ prog.num # NumRecs
  <2>1. prog.num \in Recs /\ Source[prog.num] = prog.num
    BY <1>4 DEF Progs, Recs, Source
  <2>2. prog' = [prog EXCEPT !.pc = "sync", !.rec = prog.num]
    BY <1>4, <2>1 DEF ReadRecord
  <2>3. prog' \in Progs /\ prog'.num = prog.num /\ prog'.pc = "sync" /\ prog'.rec = prog.num
    BY <2>1, <2>2, ZenonT(60) DEF Progs
  <2> QED BY <1>4, <2>1, <2>3 DEF ReadRecord, Kept, FileInv, ProgInv, Copying, Recs
<1>5. CASE SyncRecord
  <2>1. /\ prog.num \in 0 .. NumRecs /\ prog.num \in Recs /\ prog.rec = prog.num
        /\ CopiedUpTo(dest, prog.num)
    BY <1>5 DEF SyncRecord, Recs, FileInv, ProgInv, Progs, Copying
  <2>2. dest' = [dest EXCEPT ![prog.num] = prog.num]
    BY <1>5, <2>1 DEF SyncRecord
  <2>3. dest' \in Files /\ CopiedUpTo(dest', prog.num + 1)
    BY ZenonT(60), <2>1, <2>2, WriteKeeps
  <2>4. prog.num + 1 \in 0 .. NumRecs
    BY <2>1 DEF Recs
  <2>5. prog' = [prog EXCEPT !.pc = "read", !.num = prog.num + 1]
    BY <1>5 DEF SyncRecord
  <2>6. prog' \in Progs /\ prog'.pc = "read" /\ prog'.num = prog.num + 1
    BY <2>4, <2>5, ZenonT(60) DEF Progs
  <2> QED BY <1>5, <2>3, <2>6 DEF SyncRecord, Kept, FileInv, ProgInv
<1>6. CASE DoExit
  <2>1. prog' \in Progs /\ prog'.num = prog.num /\ prog'.pc = "exit"
    BY <1>6 DEF DoExit, Progs
  <2> QED BY <1>6, <2>1, ZenonT(60) DEF DoExit, Kept, FileInv, ProgInv, Copying
<1> QED BY <1>1, <1>2, <1>3, <1>4, <1>5, <1>6

(* The same for the program among the others: the script is not concerned. *)
LEMMA ProgramKeeps ==
  ASSUME IInv, Program
  PROVE  IInv'
<1>1. /\ prog # None /\ ~frozen /\ dying = None
      /\ UNCHANGED <<dying, image, snap, frozen, sh>>
  BY DEF Program, Running, IInv, OneProgram
<1>2. Kept
  BY <1>1, StepKeeps DEF Program, IInv, TypeOK, ProgramsInv
<1> QED BY <1>1, <1>2 DEF Kept, IInv, TypeOK, OneProgram, ProgramsInv, ScriptInv, Behind, FileInv,
                          ProgInv

(* A killed program that has come as far as to write is of an image that   *)
(* does not depend on what it writes.                                      *)
LEMMA DiesKeeps ==
  ASSUME IInv, Dies
  PROVE  IInv'
<1> USE DEF IInv, TypeOK, Progs, ShPcs, OneProgram, ProgramsInv, ScriptInv, Behind
<1>0. /\ dying \in Progs /\ dying # None /\ prog = None /\ ProgInv(dying)
      /\ dying' = None
      /\ UNCHANGED <<prog, image, snap, ready, frozen, sh>>
  BY DEF Dies
<1>1. CASE dest' = dest
  BY <1>0, <1>1 DEF FileInv
<1>2. CASE dying.pc = "open" /\ dest' = EmptyFile
  <2>1. dest' \in Files
    BY <1>2 DEF Files, EmptyFile
  <2>2. sh.pc = "restart" => FileInv(image, dest')
    BY <1>0, <1>2 DEF FileInv, Copying
  <2> QED BY <1>0, <1>2, <2>1, <2>2 DEF FileInv
<1>3. CASE dying.pc = "sync" /\ dest' = [dest EXCEPT ![dying.num] = dying.rec]
  <2>1. dying.num \in Recs /\ dying.rec = dying.num
    BY <1>0, <1>3 DEF ProgInv, Recs
  <2>2. dest' \in Files
    BY <1>3, <2>1 DEF Files
  <2>3. sh.pc = "restart" => FileInv(image, dest')
    BY <1>3, <2>1, WriteKeeps, ZenonT(60) DEF FileInv
  <2> QED BY <1>0, <1>3, <2>2, <2>3 DEF FileInv
<1> QED BY <1>1, <1>2, <1>3 DEF Dies

(* A failing command of run-fileio1.sh ends the script and touches nothing *)
(* else.                                                                   *)
LEMMA ExitKeeps ==
  ASSUME IInv, sh' = [sh EXCEPT !.pc = "exit", !.status = 1],
         UNCHANGED <<prog, dying, image, dest, snap, ready, frozen>>
  PROVE  IInv'
<1>1. sh' \in [pc : ShPcs, cnt : 1 .. NumTests, status : {0, 1}] /\ sh'.pc = "exit"
  BY ZenonT(60) DEF IInv, TypeOK, ShPcs
<1>2. TypeOK'
  BY <1>1 DEF IInv, TypeOK
<1>3. OneProgram'
  BY <1>1 DEF IInv, OneProgram
<1>4. ProgramsInv'
  BY DEF IInv, ProgramsInv
<1>5. ScriptInv'
  BY <1>1, ZenonT(60) DEF ScriptInv
<1> QED BY <1>2, <1>3, <1>4, <1>5 DEF IInv

(* Every command of run-fileio1.sh keeps the invariant.                    *)
LEMMA ScriptKeeps ==
  ASSUME IInv, Script
  PROVE  IInv'
<1> USE DEF IInv, TypeOK, ShPcs, OneProgram, ProgramsInv, ScriptInv, Goto, Exit
<1>1. CASE Start
  <2>1. /\ prog' \in Progs /\ prog'.pc = "ready" /\ prog'.num = 0
        /\ UNCHANGED <<dying, image, dest, snap, frozen>>
        /\ sh.pc = "start" /\ ready' = FALSE /\ sh' = [sh EXCEPT !.pc = "poll"]
    BY <1>1 DEF Start, Fresh, Progs
  <2>2. ProgInv(prog') /\ FileInv(prog', dest')
    BY <2>1 DEF ProgInv, FileInv, Copying
  <2> QED BY ZenonT(60), <2>1, <2>2
<1>2. CASE PollReady
  BY <1>2 DEF PollReady
<1>3. CASE FindProgram
  <2>1. CASE sh' = [sh EXCEPT !.pc = "exit", !.status = 1]
    BY <1>3, <2>1, ExitKeeps DEF FindProgram
  <2>2. CASE sh' = [sh EXCEPT !.pc = "freeze"]
    BY <1>3, <2>2, SMTT(60) DEF FindProgram
  <2> QED BY <1>3, <2>1, <2>2 DEF FindProgram
<1>4. CASE FreezePid
  BY <1>4 DEF FreezePid
<1>5. CASE Checkpoint
  <2>1. CASE prog.pc # "exit" /\ image' = prog /\ sh' = [sh EXCEPT !.pc = "snapshot"]
    BY <1>5, <2>1, SMTT(60) DEF Checkpoint
  <2>2. CASE image' = image /\ sh' = [sh EXCEPT !.pc = "exit", !.status = 1]
    BY <1>5, <2>2, ExitKeeps DEF Checkpoint
  <2> QED BY <1>5, <2>1, <2>2 DEF Checkpoint
<1>6. CASE Snapshot
  <2>1. sh.pc = "snapshot" /\ snap' = dest /\ FileInv(image, snap') /\ FileInv(prog, dest)
    BY <1>6 DEF Snapshot
  <2> QED BY <1>6, <2>1 DEF Snapshot
<1>7. CASE Thaw
  BY <1>7, ZenonT(60) DEF Thaw, Behind
<1>8. CASE Kill
  BY <1>8 DEF Kill, Behind
<1>9. CASE Restore
  BY <1>9 DEF Restore, Behind
<1>10. CASE Restart
  BY <1>10 DEF Restart, Behind
<1>11. CASE FindRestarted
  <2>1. CASE sh' = [sh EXCEPT !.pc = "exit", !.status = 1]
    BY <1>11, <2>1, ExitKeeps DEF FindRestarted
  <2>2. CASE prog # None /\ sh' = [sh EXCEPT !.pc = "wait"]
    BY <1>11, <2>2, SMTT(60) DEF FindRestarted
  <2> QED BY <1>11, <2>1, <2>2 DEF FindRestarted
<1>12. CASE WaitRestarted
  <2>1. prog.num = NumRecs /\ CopiedUpTo(dest, NumRecs)
    BY <1>12 DEF WaitRestarted, ProgInv, FileInv, Copying
  <2>2. dest = Source
    BY <2>1 DEF CopiedUpTo, Source, Files, Recs
  <2> QED BY <1>12, <2>2 DEF WaitRestarted
<1>13. CASE Compare
  <2>1. CASE sh' = [sh EXCEPT !.pc = "exit", !.status = 0]
    BY <1>13, <2>1, ZenonT(60) DEF Compare
  <2>2. CASE sh.cnt # NumTests /\ sh' = [sh EXCEPT !.pc = "start", !.cnt = @ + 1]
    <3>1. sh.cnt + 1 \in 1 .. NumTests
      BY <2>2
    <3>2. sh' \in [pc : ShPcs, cnt : 1 .. NumTests, status : {0, 1}] /\ sh'.pc = "start"
      BY ZenonT(60), <2>2, <3>1
    <3> QED BY <1>13, <3>2 DEF Compare
  <2> QED BY <1>13, <2>1, <2>2 DEF Compare
<1> QED BY ZenonT(60), <1>1, <1>2, <1>3, <1>4, <1>5, <1>6, <1>7, <1>8, <1>9, <1>10, <1>11, <1>12, <1>13
        DEF Script

(* No step of program or script breaks the invariant. *)
LEMMA Inductive == IInv /\ [Next]_vars => IInv'
<1> SUFFICES ASSUME IInv, [Next]_vars PROVE IInv'
  OBVIOUS
<1>1. CASE UNCHANGED vars
  BY <1>1 DEF vars, IInv, TypeOK, OneProgram, ProgramsInv, ScriptInv, ProgInv, FileInv, Behind,
              CopiedUpTo
<1> QED BY <1>1, ProgramKeeps, DiesKeeps, ScriptKeeps DEF Next, Over

(* The invariant holds throughout every run of run-fileio1.sh, for every   *)
(* number of records and of tests.                                         *)
THEOREM IInvAlways == Spec => []IInv
  BY InitIInv, Inductive, PTL DEF Spec

(* Every variable keeps its type. *)
THEOREM TypeCorrect == Spec => []TypeOK
  BY IInvAlways, PTL DEF IInv

(* cmp never finds a difference after a restart. *)
THEOREM CopyCompleteAlways == Spec => []CopyComplete
<1>1. IInv => CopyComplete
  BY DEF IInv, ScriptInv, CopyComplete
<1> QED BY <1>1, IInvAlways, PTL

(* The snapshot and the image are of the same moment. *)
THEOREM SnapshotFitsAlways == Spec => []SnapshotFits
<1>1. IInv => SnapshotFits
  BY DEF IInv, ScriptInv, SnapshotFits, FileInv, Copying
<1> QED BY <1>1, IInvAlways, PTL
=============================================================================
