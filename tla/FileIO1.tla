------------------------------ MODULE FileIO1 ------------------------------
(***************************************************************************)
(* fileio/fileio1.c -c, which copies a file record by record, and          *)
(* run-fileio1.sh, which checkpoints it, lets it run on, kills it, puts    *)
(* back the destination file as it was at the checkpoint, restarts it and  *)
(* compares the files.                                                     *)
(*                                                                         *)
(* The program is a record prog; a checkpoint copies it to image.  A       *)
(* killed program may still finish the system call it was in (dying).      *)
(* slow-down-fileio changes when the program works, not what it does, and  *)
(* nobody reads copy.done: neither is part of the state.                   *)
(***************************************************************************)
EXTENDS Integers

CONSTANTS
  None,        \* no program, no image
  NumRecs,     \* NUM_RECS
  NumTests     \* NUMTESTS

ASSUME CopyAssumption == NumRecs \in Nat /\ NumTests \in Nat \ {0}

VARIABLES
  prog,        \* the copying program
  dying,       \* the killed program
  image,       \* CKPT_FILE
  dest, snap,  \* DEST_FILE, DEST_FILE_SNAP
  ready,       \* checkpoint.ready exists
  frozen,      \* state of the freezer cgroup
  sh           \* the script

vars == <<prog, dying, image, dest, snap, ready, frozen, sh>>

Recs == 0 .. NumRecs - 1
Nothing == -1                   \* past the end of a file, or in a hole
Files == [Recs -> Recs \cup {Nothing}]
EmptyFile == [r \in Recs |-> Nothing]

(* create_data(): record number i has id i. *)
Source == [r \in Recs |-> r]

Progs == [pc : {"ready", "open", "read", "sync", "eof", "exit"},
          num : 0 .. NumRecs, rec : Recs \cup {Nothing}]

ASSUME NoneAssumption == None \notin Progs

Goto(pc) == sh' = [sh EXCEPT !.pc = pc]
Exit(status) == sh' = [sh EXCEPT !.pc = "exit", !.status = status]

-----------------------------------------------------------------------------
(* The program. *)
Fresh == [pc |-> "ready", num |-> 0, rec |-> Nothing]

(* main(): "Announce that we are now prepared for a checkpoint" *)
CreatReady ==
  /\ prog.pc = "ready"
  /\ ready' = TRUE
  /\ prog' = [prog EXCEPT !.pc = "open"]
  /\ UNCHANGED dest

(* copy_data(): fopen(destfile, "w") *)
OpenDest ==
  /\ prog.pc = "open"
  /\ dest' = EmptyFile
  /\ prog' = [prog EXCEPT !.pc = "read"]
  /\ UNCHANGED ready

(* fread() of the next record and fwrite(), which leaves it in the buffer  *)
(* of destfp.                                                              *)
ReadRecord ==
  /\ prog.pc = "read"
  /\ prog' = IF prog.num = NumRecs THEN [prog EXCEPT !.pc = "eof"]
             ELSE [prog EXCEPT !.pc = "sync", !.rec = Source[prog.num]]
  /\ UNCHANGED <<ready, dest>>

(* do_sync(destfp) and num++ *)
SyncRecord ==
  /\ prog.pc = "sync"
  /\ dest' = [dest EXCEPT ![prog.num] = prog.rec]
  /\ prog' = [prog EXCEPT !.pc = "read", !.num = @ + 1]
  /\ UNCHANGED ready

(* copy.done, and do_exit(), which unlinks checkpoint.ready *)
DoExit ==
  /\ prog.pc = "eof"
  /\ ready' = FALSE
  /\ prog' = [prog EXCEPT !.pc = "exit"]
  /\ UNCHANGED dest

Running == prog # None /\ ~frozen

Program ==
  /\ Running
  /\ CreatReady \/ OpenDest \/ ReadRecord \/ SyncRecord \/ DoExit
  /\ UNCHANGED <<dying, image, snap, frozen, sh>>

(* The killed program goes away, with or without having finished its call. *)
Dies ==
  /\ dying # None
  /\ dest' \in {dest} \cup (IF dying.pc = "open" THEN {EmptyFile} ELSE {})
                      \cup (IF dying.pc = "sync" THEN {[dest EXCEPT ![dying.num] = dying.rec]} ELSE {})
  /\ dying' = None
  /\ UNCHANGED <<prog, image, snap, ready, frozen, sh>>

-----------------------------------------------------------------------------
(* The script. *)
Start ==
  /\ sh.pc = "start"
  /\ ready' = FALSE
  /\ prog' = Fresh
  /\ Goto("poll")
  /\ UNCHANGED <<dying, image, dest, snap, frozen>>

PollReady ==
  /\ sh.pc = "poll"
  /\ ready
  /\ Goto("find")
  /\ UNCHANGED <<prog, dying, image, dest, snap, ready, frozen>>

(* pid=`pidof $TEST_CMD`, after a sleep in which the copy may have ended.  *)
FindProgram ==
  /\ sh.pc = "find"
  /\ IF prog.pc = "exit" THEN Exit(1) ELSE Goto("freeze")
  /\ UNCHANGED <<prog, dying, image, dest, snap, ready, frozen>>

FreezePid ==
  /\ sh.pc = "freeze"
  /\ frozen' = TRUE
  /\ Goto("checkpoint")
  /\ UNCHANGED <<prog, dying, image, dest, snap, ready>>

(* There is nothing to checkpoint when the program has ended.  A failure   *)
(* leaves the program frozen.                                              *)
Checkpoint ==
  /\ sh.pc = "checkpoint"
  /\ \/ prog.pc # "exit" /\ image' = prog /\ Goto("snapshot")
     \/ Exit(1) /\ UNCHANGED image
  /\ UNCHANGED <<prog, dying, dest, snap, ready, frozen>>

\* Mutant: does not replace the snapshot of the iteration before.
SnapshotKept ==
  /\ sh.pc = "snapshot"
  /\ snap' = IF snap = EmptyFile THEN dest ELSE snap
  /\ Goto("thaw")
  /\ UNCHANGED <<prog, dying, image, dest, ready, frozen>>

Snapshot ==
  /\ sh.pc = "snapshot"
  /\ snap' = dest
  /\ Goto("thaw")
  /\ UNCHANGED <<prog, dying, image, dest, ready, frozen>>

\* Mutant: goes on before the cgroup is thawed.
ThawNot ==
  /\ sh.pc = "thaw"
  /\ Goto("kill")
  /\ UNCHANGED <<prog, dying, image, dest, snap, ready, frozen>>

Thaw ==
  /\ sh.pc = "thaw"
  /\ frozen' = FALSE
  /\ Goto("kill")
  /\ UNCHANGED <<prog, dying, image, dest, snap, ready>>

(* kill -9: the program has been running since it was thawed. *)
Kill ==
  /\ sh.pc = "kill"
  /\ dying' = IF prog.pc = "exit" THEN None ELSE prog
  /\ prog' = None
  /\ Goto("restore")
  /\ UNCHANGED <<image, dest, snap, ready, frozen>>

\* Mutant: empties the file instead.
RestoreNothing ==
  /\ sh.pc = "restore"
  /\ dest' = EmptyFile
  /\ Goto("restart")
  /\ UNCHANGED <<prog, dying, image, snap, ready, frozen>>

(* "Restore the snapshot after the main process has been killed" *)
Restore ==
  /\ sh.pc = "restore"
  /\ dest' = snap
  /\ Goto("restart")
  /\ UNCHANGED <<prog, dying, image, snap, ready, frozen>>

(* rstrsh in the background: it fails while the killed program still has   *)
(* its pid, and may fail for other reasons.                                *)
Restart ==
  /\ sh.pc = "restart"
  /\ prog' \in {None} \cup (IF dying = None THEN {image} ELSE {})
  /\ Goto("found")
  /\ UNCHANGED <<dying, image, dest, snap, ready, frozen>>

(* pidof $TEST_CMD, pidof $NSEXEC; rm $SLOW_DOWN *)
FindRestarted ==
  /\ sh.pc = "found"
  /\ IF prog = None \/ prog.pc = "exit" THEN Exit(1) ELSE Goto("wait")
  /\ UNCHANGED <<prog, dying, image, dest, snap, ready, frozen>>

WaitRestarted ==
  /\ sh.pc = "wait"
  /\ prog.pc = "exit"
  /\ prog' = None
  /\ Goto("cmp")
  /\ UNCHANGED <<dying, image, dest, snap, ready, frozen>>

Compare ==
  /\ sh.pc = "cmp"
  /\ IF dest # Source THEN Exit(1)
     ELSE IF sh.cnt = NumTests THEN Exit(0)
     ELSE sh' = [sh EXCEPT !.pc = "start", !.cnt = @ + 1]
  /\ UNCHANGED <<prog, dying, image, dest, snap, ready, frozen>>

Script ==
  \/ Start \/ PollReady \/ FindProgram \/ FreezePid \/ Checkpoint \/ Snapshot
  \/ Thaw \/ Kill \/ Restore \/ Restart \/ FindRestarted \/ WaitRestarted \/ Compare

\* The script has exited, and may have left a program behind.
Over == sh.pc = "exit" /\ UNCHANGED vars

Init ==
  /\ prog = None /\ dying = None /\ image = None
  /\ dest = EmptyFile /\ snap = EmptyFile
  /\ ready = FALSE /\ frozen = FALSE
  /\ sh = [pc |-> "start", cnt |-> 1, status |-> 0]

Next == Program \/ Dies \/ Script \/ Over

(* The program is scheduled, the killed program goes away, the script's    *)
(* commands return.                                                        *)
Spec == Init /\ [][Next]_vars /\ WF_vars(Program) /\ WF_vars(Dies) /\ WF_vars(Script)

-----------------------------------------------------------------------------
ShPcs == {"start", "poll", "find", "freeze", "checkpoint", "snapshot", "thaw", "kill",
          "restore", "restart", "found", "wait", "cmp", "exit"}

(* Programs, files and the script have their type; cnt never exceeds the   *)
(* number of tests.                                                        *)
TypeOK ==
  /\ prog \in Progs \cup {None} /\ dying \in Progs \cup {None} /\ image \in Progs \cup {None}
  /\ dest \in Files /\ snap \in Files
  /\ ready \in BOOLEAN /\ frozen \in BOOLEAN
  /\ sh \in [pc : ShPcs, cnt : 1 .. NumTests, status : {0, 1}]

(* The records up to the n-th are those of the source file. *)
CopiedUpTo(file, n) == \A r \in Recs : r < n => file[r] = Source[r]

(* "file copy failed after restart" is never printed: the copy is complete *)
(* once the restarted program has exited, although the original program    *)
(* wrote on, or even ended, after its checkpoint, and may have died in the *)
(* middle of a write after its file had been put back.                     *)
CopyComplete == sh.pc = "cmp" => dest = Source

(* The snapshot has every record that the image takes as written: nobody   *)
(* writes between the checkpoint and the copy of the file.                 *)
SnapshotFits ==
  sh.pc \in {"thaw", "kill", "restore", "restart"} /\ image.pc \in {"read", "sync", "eof"} =>
     CopiedUpTo(snap, image.num)

(* The script comes to an end, however often it looks at the wrong moment  *)
(* and whatever the restart does, unless the whole copy was over between   *)
(* two looks at checkpoint.ready, which do_exit() removes again: then it   *)
(* polls for good.                                                         *)
ScriptEnds == <>(sh.pc = "exit" \/ (sh.pc = "poll" /\ prog.pc = "exit"))
=============================================================================
