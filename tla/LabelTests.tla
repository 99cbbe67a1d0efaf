----------------------------- MODULE LabelTests -----------------------------
(***************************************************************************)
(* The programs of EpollPrograms and FsPrograms, each checkpointed at any  *)
(* one of its labels and restarted from that image at any later time,      *)
(* while it still runs (the kill is part of the restart) or after its end. *)
(* How a script and do_ckpt() bring a checkpoint about is in LabelHarness  *)
(* and EpollHarness.                                                       *)
(*                                                                         *)
(* checkpoint and restart are external.  A restart may bring back less     *)
(* than the image has; it refuses if a name behind an open file is gone.   *)
(***************************************************************************)
EXTENDS EpollPrograms, FsPrograms

CONSTANT None

VARIABLES
  test,    \* the program
  image,   \* its image, and the directory at that time
  kern     \* how the restart went: "none" (not yet), "right", "stale" (right,
           \* but the directory has changed), "refused" or "lost"; what was
           \* lost, and the label of the image

vars == <<prog, disk, test, image, kern>>

Nothing == <<"nothing", "all">>
Went(how, what, at) == [how |-> how, what |-> what, at |-> at]

Starts ==
  [empty |-> EmptyStart, pipe |-> PipeStart, scm |-> ScmStart, sk10k |-> Sk10kStart,
   cycle |-> CycleStart, file |-> FileStart, fifo |-> FifoStart, dnotify |-> DnotifyStart]

Init ==
  /\ test \in DOMAIN Starts
  /\ prog \in Starts[test]
  /\ disk = EmptyDisk
  /\ image = None
  /\ kern = Went("none", Nothing, "start")

Program ==
  /\ \/ test = "empty" /\ EmptyStep /\ UNCHANGED disk
     \/ test = "pipe" /\ PipeStep /\ UNCHANGED disk
     \/ test = "scm" /\ ScmStep /\ UNCHANGED disk
     \/ test = "sk10k" /\ Sk10kStep /\ UNCHANGED disk
     \/ test = "cycle" /\ CycleStep /\ UNCHANGED disk
     \/ test = "file" /\ FileStep
     \/ test = "fifo" /\ FifoStep
     \/ test = "dnotify" /\ DnotifyStep
  /\ UNCHANGED <<test, image, kern>>

(* do_ckpt() at a label. *)
Checkpoint ==
  /\ image = None /\ ~Ended
  /\ prog.pc \notin {"start", "recvmsg", "waitpid"}
  /\ image' = [prog |-> prog, disk |-> disk]
  /\ UNCHANGED <<prog, disk, test, kern>>

-----------------------------------------------------------------------------
(* External: what a restart can lose of an image p, named by a pair.       *)
Lost(what, which, q) == [what |-> <<what, which>>, prog |-> q]

\* Which item it is; "spare" is the one of cycle.c that nobody waits for.
Kind(p, it) == IF it.want = "edge" /\ it.ep = p.n - 1 THEN "spare" ELSE it.want

EpollLosses(p) ==
  {Lost("set", "all", [p EXCEPT !.eps = @ \ {e}]) : e \in p.eps}
  \cup {Lost("item", Kind(p, it),
             [p EXCEPT !.items = @ \ {it},
                       !.edges = IF it.want = "edge" THEN @ \ {it.ep} ELSE @]) : it \in p.items}
  \cup {Lost("cookie", Kind(p, it),
             [p EXCEPT !.items = (@ \ {it}) \cup {[it EXCEPT !.data = -1]}]) : it \in p.items}
  \cup {Lost("event", IF e = p.n - 1 THEN "spare" ELSE "edge", [p EXCEPT !.edges = @ \ {e}]) :
           e \in p.edges}

BufLosses(p) ==
  LET full == {f \in DOMAIN p.buf : p.buf[f] # "empty"}
  IN {Lost("data", "all", [p EXCEPT !.buf[f] = "empty"]) : f \in full}
     \cup {Lost("content", "all", [p EXCEPT !.buf[f] = "bad"]) : f \in full}

FileLosses(p) == IF p.open THEN {Lost("file", "first", [p EXCEPT !.open = FALSE])} ELSE {}

FifoLosses(p) ==
  {Lost("file", IF f = 1 THEN "first" ELSE "second", [p EXCEPT !.fifos = @ \ {f}]) : f \in p.fifos}

DnotifyLosses(p) ==
  {Lost("watch", "all", [p EXCEPT !.watch = @ \ {e}]) : e \in p.watch}
  \cup (IF p.sigio THEN {Lost("signal", "all", [p EXCEPT !.sigio = FALSE])} ELSE {})

Losses(p) ==
  CASE test = "file" -> FileLosses(p)
    [] test = "fifo" -> FifoLosses(p) \cup BufLosses(p)
    [] test = "dnotify" -> FileLosses(p) \cup DnotifyLosses(p)
    [] OTHER -> EpollLosses(p) \cup BufLosses(p)

\* The names that restart opens the files of the image by are still there.
NamesThere ==
  LET p == image.prog IN
  CASE test = "file" -> p.open /\ image.disk.trash => disk.trash
    [] test = "fifo" -> p.fifos # {} /\ p.pc \notin {"unlink", "mkfifo2"} => disk.trash
    [] test = "dnotify" -> disk.dir /\ (p.open => disk.name = "create")
    [] OTHER -> TRUE

(* restart, once: the program's place is taken by its image. *)
Restart ==
  /\ image # None /\ kern.how = "none"
  /\ \/ /\ NamesThere
        /\ prog' = image.prog
        /\ kern' = Went(IF disk = image.disk THEN "right" ELSE "stale", Nothing, image.prog.pc)
     \/ \E l \in Losses(image.prog) :
          /\ NamesThere /\ disk = image.disk
          /\ prog' = l.prog
          /\ kern' = Went("lost", l.what, image.prog.pc)
     \/ /\ ~NamesThere
        /\ prog' = [image.prog EXCEPT !.st = "refused"]
        /\ kern' = Went("refused", Nothing, image.prog.pc)
  /\ UNCHANGED <<disk, test, image>>

Next == Program \/ Checkpoint \/ Restart

(* The program is scheduled; whether it is checkpointed and restarted is   *)
(* open.                                                                   *)
Spec == Init /\ [][Next]_vars /\ WF_vars(Program)

-----------------------------------------------------------------------------
Hows == {"none", "right", "stale", "lost", "refused"}

(* Programs, images and the working directory have their shape; sk10k      *)
(* never has more files open than its limit allows.                        *)
TypeOK ==
  /\ test \in DOMAIN Starts
  /\ \E p \in Starts[test] : DOMAIN prog = DOMAIN p
  /\ prog.st \in States
  /\ disk \in [trash : BOOLEAN, dir : BOOLEAN, name : {"none", "create", "rename"},
                text : {"empty", "hello"}]
  /\ test = "sk10k" => prog.left \in Nat
  /\ image # None => image.prog.st = "run" /\ kern.at \in {"start", image.prog.pc}
  /\ image = None => kern = Went("none", Nothing, "start")
  /\ kern.how \in Hows

\* The labels behind which a program has no more use for what was lost.
UsedUp(what, which) ==
  CASE test = "pipe" /\ what \in {"set", "item"} -> {"wait_read", "do_read"}
    [] test = "pipe" /\ what = "cookie" ->
         IF which = "in" THEN {"wait_read", "do_read"} ELSE {"wait_write", "do_write", "ctl_add_rfd"}
    [] test = "sk10k" /\ what \in {"set", "item"} -> {"wait_read", "do_read"}
    [] test = "cycle" /\ which = "out" -> {"do_write", "wait_read", "do_read"}
    [] test = "cycle" /\ what \notin {"data", "content"} -> {"do_read"}
    [] test = "fifo" /\ which = "first" -> {"read1", "read2"}
    [] test = "fifo" /\ which = "second" -> {"read2"}
    [] test = "dnotify" /\ what = "watch" -> {"do", "wait", "do_rmdir"}
    [] OTHER -> {}

\* What a program never looks at: sk10k whose event it gets, cycle the item
\* of its last set for another set, and scm anything at all.
NeverLookedAt(what, which) ==
  test = "scm" \/ (test = "sk10k" /\ what = "cookie") \/ which = "spare"

(* A restart that loses an epoll set, an item or its cookie, data, a file, *)
(* a watch or a signal of the image is never followed by exit status 0,    *)
(* unless the program had used it for the last time when the checkpoint    *)
(* was taken.                                                              *)
LossSeen ==
  prog.st = "passed" /\ kern.how = "lost" =>
     \/ kern.at \in UsedUp(kern.what[1], kern.what[2])
     \/ NeverLookedAt(kern.what[1], kern.what[2])

(* A program that was not restarted, or restarted with nothing lost and    *)
(* nothing changed, does not fail.  Known exceptions: cycle, whose last    *)
(* set has two events to report in wait_read; file, which reads a file     *)
(* opened for writing; sk10k if the limit leaves no room for two sockets,  *)
(* or if -s, or a default that could not count the open files, asks for    *)
(* more than may be opened.                                                *)
NoFalseFail ==
  prog.st = "failed" /\ kern.how \in {"none", "right"} =>
     \/ test = "cycle" /\ prog.pc = "wait_read"
     \/ test = "file" /\ prog.pc = "read"
     \/ test = "sk10k" /\ prog.n <= 0
     \/ test = "sk10k" /\ prog.opt /\ prog.pc = "open" /\ prog.n + (prog.n % 2) > prog.left

LastLabels == {"do_nothing", "do_read", "read2", "do_rmdir"}

(* Exit status 0 means that the program got behind its last label.  Known  *)
(* exceptions: scm, whose parent exits with a status that is 0 modulo 256; *)
(* fifo, if its name was removed behind the image: ret is still 0 when     *)
(* open() fails.                                                           *)
PassedToTheEnd ==
  prog.st = "passed" =>
     \/ prog.pc \in LastLabels
     \/ test = "scm"
     \/ test = "fifo" /\ kern.how = "stale" /\ prog.pc \in {"open1", "open2"}

(* Every program ends; only one whose data was lost may wait in read() for *)
(* good.                                                                   *)
Ends == []<>(Ended \/ kern.what[1] = "data")
=============================================================================
