----------------------------- MODULE FsPrograms -----------------------------
(***************************************************************************)
(* file.c and fifo.c of fs/ and notify/dnotify.c: programs whose names in  *)
(* the working directory are not part of their image.  disk.trash: the     *)
(* name "trash" exists; disk.dir, disk.name, disk.text: ./dwatch, the name *)
(* its file has and what is in it.                                         *)
(***************************************************************************)
EXTENDS LabelTask

EmptyDisk == [trash |-> FALSE, dir |-> FALSE, name |-> "none", text |-> "empty"]

Trash(exists) == [disk EXCEPT !.trash = exists]

\* goto out of file.c and fifo.c: unlink(pathname), exit(ret).  What a
\* failing open() returns is not in ret.
Exited(ret) == [prog EXCEPT !.st = IF ret % 256 = 0 THEN "passed" ELSE "failed"]

Out(from, ret) ==
  /\ prog.st = "run" /\ prog.pc = from
  /\ prog' = Exited(ret)
  /\ disk' = Trash(FALSE)

(* label() of these two programs: the action of the label to makes the     *)
(* program q and the directory d.                                          *)
Go(from, ok, to, q, d) ==
  /\ prog.st = "run" /\ prog.pc = from
  /\ prog' = IF ok THEN [q EXCEPT !.pc = to] ELSE Exited(prog.ret)
  /\ disk' = IF ok THEN d ELSE Trash(FALSE)

Returns(ok) == IF ok THEN 0 ELSE -1

-----------------------------------------------------------------------------
FileStart ==
  {[pc |-> "start", st |-> "run", ret |-> 0, open |-> FALSE, text |-> "empty"]}

(* file.c up to its first read(): creat() has opened the file for writing  *)
(* only, its second argument is a mode.                                    *)
FileStep ==
  \/ Go("start", TRUE, "creat1", [prog EXCEPT !.open = TRUE], Trash(TRUE))
  \/ Go("creat1", TRUE, "setflags1", prog, disk)
  \/ Go("setflags1", Succeeded, "write1",
        [prog EXCEPT !.ret = Returns(prog.open), !.text = "hello"], disk)
  \/ Go("write1", Succeeded, "unlink", [prog EXCEPT !.ret = Returns(disk.trash)], Trash(FALSE))
  \/ Go("unlink", Succeeded, "lseek", [prog EXCEPT !.ret = Returns(prog.open)], disk)
  \/ Go("lseek", Succeeded, "read", [prog EXCEPT !.ret = Returns(FALSE)], disk)
  \/ Out("read", prog.ret)

-----------------------------------------------------------------------------
\* fifos: those that are open (fifo1 and fifo2), with what is unread; fd:
\* what the last open() returned.
FifoStart ==
  {[pc |-> "start", st |-> "run", ret |-> 0, fd |-> -1, fifos |-> {},
    buf |-> [f \in {1, 2} |-> "empty"], text |-> "empty"]}

Text(f) == IF f = 1 THEN "hello" ELSE "goodbye"

Mkfifo(from, ok, to) ==
  Go(from, ok, to, [prog EXCEPT !.ret = Returns(~disk.trash)], Trash(TRUE))

OpenFifo(from, to, f) ==
  Go(from, Succeeded, to,
     [prog EXCEPT !.fd = Returns(disk.trash),
                  !.fifos = IF disk.trash THEN @ \cup {f} ELSE @], disk)

\* setflags() has nothing to do without -a, -i and -u.
SetFlags(from, to) == Go(from, prog.fd >= 0, to, [prog EXCEPT !.ret = 0], disk)

\* Mutant: nothing gets written.
WriteFifoNot(from, to, f) ==
  Go(from, Succeeded, to, [prog EXCEPT !.ret = Returns(f \in prog.fifos)], disk)

WriteFifo(from, to, f) ==
  Go(from, Succeeded, to, [prog EXCEPT !.ret = Returns(f \in prog.fifos), !.buf[f] = Text(f)], disk)

\* read() of an empty fifo that is open for writing blocks.
ReadFifo(from, ok, to, f) ==
  /\ ok /\ f \in prog.fifos => prog.buf[f] # "empty"
  /\ Go(from, ok, to, [prog EXCEPT !.ret = Returns(f \in prog.fifos),
                                   !.text = prog.buf[f], !.buf[f] = "empty"], disk)

\* strcmp() after read().
SameText(f) == Succeeded /\ prog.text = Text(f)

(* fifo.c *)
FifoStep ==
  \/ Mkfifo("start", TRUE, "mkfifo1")
  \/ OpenFifo("mkfifo1", "open1", 1)
  \/ SetFlags("open1", "setflags1")
  \/ WriteFifo("setflags1", "write1", 1)
  \/ Go("write1", Succeeded, "unlink", [prog EXCEPT !.ret = Returns(disk.trash)], Trash(FALSE))
  \/ Mkfifo("unlink", Succeeded, "mkfifo2")
  \/ OpenFifo("mkfifo2", "open2", 2)
  \/ SetFlags("open2", "setflags2")
  \/ WriteFifo("setflags2", "write2", 2)
  \/ ReadFifo("write2", Succeeded, "read1", 1)
  \/ SameText(1) /\ ReadFifo("read1", TRUE, "read2", 2)
  \/ ~SameText(1) /\ Out("read1", 1)
  \/ Out("read2", IF SameText(2) THEN 0 ELSE 1)

-----------------------------------------------------------------------------
\* dnotify.c goes through six events; ev is the one it is at.  watch: events
\* watched for by F_NOTIFY; sigio: the blocked signal is pending; open: the
\* file in ./dwatch is.
DnEvents == <<"create", "modify", "access", "attrib", "rename", "delete">>

DnotifyStart ==
  {[pc |-> "start", st |-> "run", ret |-> 0, ev |-> 1, watch |-> {}, sigio |-> FALSE,
    open |-> FALSE, text |-> "empty"]}

Dn == DnEvents[prog.ev]

\* External: F_NOTIFY watches for one event, for delete (DN_MULTISHOT) for all.
Watching(e) == [prog EXCEPT !.watch = @ \cup {e}, !.ret = 0]

Notified(p, e) ==
  IF e \notin p.watch THEN p
  ELSE [p EXCEPT !.sigio = TRUE, !.watch = IF e = "delete" THEN @ ELSE @ \ {e}]

\* The call of label do_...: whether it works, and what it changes on disk.
DnWorks ==
  CASE Dn = "create" -> disk.dir /\ disk.name = "none"
    [] Dn \in {"modify", "access", "attrib"} -> prog.open
    [] Dn = "rename" -> disk.name = "create"
    [] Dn = "delete" -> disk.name = "rename"

DnDisk ==
  CASE Dn = "create" -> [disk EXCEPT !.name = "create", !.text = "empty"]
    [] Dn = "modify" -> [disk EXCEPT !.text = "hello"]
    [] Dn = "rename" -> [disk EXCEPT !.name = "rename"]
    [] Dn = "delete" -> [disk EXCEPT !.name = "none"]
    [] OTHER -> disk

DnDone ==
  IF DnWorks
  THEN [Notified(prog, Dn) EXCEPT
          !.ret = 0,
          !.open = @ \/ Dn = "create",
          !.text = IF Dn = "access" THEN disk.text ELSE @]
  ELSE [prog EXCEPT !.ret = -1]

\* The asserts behind do_..., close(fd) after fchmod() among them, and lseek()
\* behind the wait for modify.
DnAsserts ==
  /\ Succeeded
  /\ Dn = "access" => prog.text = "hello"
  /\ Dn = "attrib" => prog.open
DnSeeks == Dn = "modify" => prog.open

\* sigtimedwait(): the pending signal, or -1 after a second.
SigTimedWait ==
  [prog EXCEPT !.ret = Returns(prog.sigio), !.sigio = FALSE, !.open = @ /\ Dn # "attrib"]

DnotifyStep ==
  \/ Label("start", ~disk.dir, "watch", Watching("create")) /\ disk' = [disk EXCEPT !.dir = TRUE]
  \/ Label("watch", Succeeded, "do", DnDone) /\ disk' = (IF DnWorks THEN DnDisk ELSE disk)
  \/ Label("do", DnAsserts, "wait", SigTimedWait) /\ UNCHANGED disk
  \/ /\ prog.ev < 6
     /\ Label("wait", Succeeded /\ DnSeeks, "watch", [Watching(DnEvents[prog.ev + 1]) EXCEPT !.ev = @ + 1])
     /\ UNCHANGED disk
  \/ /\ prog.ev = 6
     /\ Label("wait", Succeeded, "do_rmdir", [prog EXCEPT !.ret = Returns(disk.dir /\ disk.name = "none")])
     /\ disk' = IF Succeeded THEN [disk EXCEPT !.dir = FALSE] ELSE disk
  \/ Exit("do_rmdir", Succeeded) /\ UNCHANGED disk
=============================================================================
