------------------------------ MODULE Fsetown1 ------------------------------
(***************************************************************************)
(* fileio/fsetown1.c under run-fcntltests.sh.  The child asks for SIGIO    *)
(* when its pipe has data, and blocks in read(); after the restart the     *)
(* parent verifies that it is still the owner and writes.                  *)
(***************************************************************************)
EXTENDS FcntlScript

\* fasync, owner: of the pipe's read end; pipe: "written" when the reader can
\* go on, "full" once kill_fasync() has run too; sig: the child's SIGIO.
Fresh ==
  [main |-> "fork", kid |-> "none", fasync |-> FALSE, owner |-> FALSE, ev |-> 0,
   pipe |-> "empty", sig |-> FALSE, got_sigio |-> FALSE, usr1 |-> FALSE, lost |-> FALSE,
   fail |-> FALSE]

Progs ==
  [main : {"fork", "event", "ready", "poll", "owner", "write", "wait", "exit"},
   kid : {"none", "setfl", "setown", "notify", "read", "check", "ok", "bad"},
   fasync : BOOLEAN, owner : BOOLEAN, ev : 0 .. 1, pipe : {"empty", "written", "full"},
   sig : BOOLEAN, got_sigio : BOOLEAN, usr1 : BOOLEAN, lost : BOOLEAN, fail : BOOLEAN]

-----------------------------------------------------------------------------
(* do_child() *)

(* set_owner(): O_ASYNC, F_SETOWN; an error sends SIGUSR1 and exits.       *)
SetOwner(pc, next, field) ==
  /\ prog.kid = pc
  /\ \/ prog' = [prog EXCEPT !.kid = next, ![field] = TRUE]
     \/ faults /\ prog' = [prog EXCEPT !.kid = "bad", !.usr1 = TRUE]

Notify ==
  /\ prog.kid = "notify"
  /\ prog' = [prog EXCEPT !.kid = "read", !.ev = @ + 1]

(* The read() of 4 bytes; a SIGIO taken in it restarts it.                 *)
ReadPipe ==
  /\ prog.kid = "read"
  /\ prog.pipe # "empty"
  /\ prog' = [prog EXCEPT !.kid = "check"]

(* iohandler(), before any instruction of the child *)
Iohandler ==
  /\ prog.sig
  /\ prog.kid \in {"notify", "read", "check"}
  /\ prog' = [prog EXCEPT !.sig = FALSE, !.got_sigio = TRUE]

(* A signal that is pending when read() returns is taken before this test. *)
CheckSigio ==
  /\ prog.kid = "check"
  /\ ~prog.sig
  /\ prog' = IF prog.got_sigio THEN [prog EXCEPT !.kid = "ok"]
             ELSE [prog EXCEPT !.kid = "bad", !.fail = TRUE]

KidStep ==
  /\ \/ SetOwner("setfl", "setown", "fasync") \/ SetOwner("setown", "notify", "owner")
     \/ Notify \/ ReadPipe \/ Iohandler \/ CheckSigio
  /\ UNCHANGED ready

-----------------------------------------------------------------------------
(* main() *)
Fork ==
  /\ prog.main = "fork"
  /\ prog' = [prog EXCEPT !.main = "event", !.kid = "setfl"]

WaitEvent ==
  /\ prog.main = "event"
  /\ prog.ev > 0
  /\ prog' = [prog EXCEPT !.main = "ready", !.ev = 0]

SetReady ==
  /\ prog.main = "ready"
  /\ ready' = TRUE
  /\ prog' = [prog EXCEPT !.main = "poll"]

SeeTestDone ==
  /\ prog.main = "poll"
  /\ testDone
  /\ prog' = [prog EXCEPT !.main = "owner"]

\* Mutant: the child is not terminated.
TestOwnerKeepsChild ==
  /\ prog.main = "owner"
  /\ prog' = IF prog.owner THEN [prog EXCEPT !.main = "write"]
             ELSE [prog EXCEPT !.main = "wait", !.fail = TRUE]

(* test_owner(): "Terminate the child since it will not be notified".      *)
TestOwner ==
  /\ prog.main = "owner"
  /\ prog' = IF prog.owner THEN [prog EXCEPT !.main = "write"]
             ELSE [prog EXCEPT !.main = "wait", !.kid = "bad", !.fail = TRUE]

(* write(): pipe_write() wakes the reader, then sends SIGIO. *)
WritePipe ==
  /\ prog.main = "write"
  /\ prog' = IF prog.pipe = "empty" THEN [prog EXCEPT !.pipe = "written"]
             ELSE [prog EXCEPT !.main = "wait", !.pipe = "full",
                               !.sig = prog.fasync /\ prog.owner]

(* wait_for_child() *)
WaitForChild ==
  /\ prog.main = "wait"
  /\ prog.kid \in {"ok", "bad"}
  /\ prog' = [prog EXCEPT !.main = "exit", !.fail = @ \/ prog.kid = "bad"]

(* usr1_handler() *)
Sigusr1 ==
  /\ prog.usr1
  /\ prog' = [prog EXCEPT !.main = "wait", !.usr1 = FALSE, !.fail = TRUE]

MainStep ==
  \/ /\ \/ Fork \/ WaitEvent \/ SeeTestDone \/ TestOwner \/ WritePipe \/ WaitForChild
        \/ Sigusr1
     /\ UNCHANGED ready
  \/ SetReady

-----------------------------------------------------------------------------
Restored ==
  IF image = None THEN {}
  ELSE {image} \cup (IF faults THEN {[image EXCEPT !.owner = FALSE, !.lost = TRUE],
                                     [image EXCEPT !.fasync = FALSE, !.lost = TRUE]} ELSE {})
=============================================================================
