------------------------------ MODULE CommonSh ------------------------------
(***************************************************************************)
(* What the one-shot wrapper scripts share: common.sh's freezer and timer, *)
(* the flag files, and a program that is checkpointed once, killed and     *)
(* restarted once.                                                         *)
(*                                                                         *)
(* The record prog is the program; a checkpoint copies it to image, and a  *)
(* killed program is in dying until it has no pid any more.  Two variables *)
(* are history: kern says whether the kernel's restart was right, and      *)
(* races has the races between script and program that were lost since     *)
(* the current part of the script began.                                   *)
(***************************************************************************)
EXTENDS Integers

CONSTANT None              \* no program, no image

VARIABLES
  test,        \* the wrapper script that is run
  sh,          \* the script: its place, its part, its verdict
  prog, image, dying,
  files,       \* the flag files and what is in them
  frozen,      \* state of the freezer cgroup
  timer,       \* settimer's subshell: off, armed, or it has sent its signal
  kern, races

vars == <<test, sh, prog, image, dying, files, frozen, timer, kern, races>>
world == <<prog, image, dying, frozen, kern, races>>

Goto(pc) == sh' = [sh EXCEPT !.pc = pc]
Exit(verdict) == sh' = [sh EXCEPT !.pc = "exit", !.verdict = verdict]
Lost(cond, race) == races' = IF cond THEN races \cup {race} ELSE races

Absent == "absent"
Exists(f) == files[f] # Absent
Creat(f) == files' = [files EXCEPT ![f] = "there"]

-----------------------------------------------------------------------------
(* settimer, canceltimer.  "kill -9 $timerpid" comes too late when the     *)
(* subshell has already sent SIGUSR1.                                      *)
SetTimer == timer' = "armed"

\* Mutant: the subshell lives on.
CancelTimerNot == UNCHANGED timer

CancelTimer == timer' = IF timer = "armed" THEN "off" ELSE timer

(* The subshell: sleep $1; kill -s USR1 $$ *)
\* Mutant: sends nothing.
TimerSilent == timer = "armed" /\ timer' = "off" /\ UNCHANGED <<test, sh, files, world>>

TimerFires == timer = "armed" /\ timer' = "sent" /\ UNCHANGED <<test, sh, files, world>>

(* handlesigusr1 runs before the script's next command. *)
HandleSigusr1 ==
  /\ timer = "sent" /\ sh.pc # "exit"
  /\ Exit("timeout")
  /\ timer' = "off"
  /\ UNCHANGED <<test, files, world>>

(* while [ ! -f $f ]; do : ; done *)
Await(at, f, next) ==
  /\ sh.pc = at /\ Exists(f)
  /\ Goto(next)
  /\ UNCHANGED <<test, files, timer, world>>

(* The same and canceltimer; the timer may fire between the two. *)
AwaitTimed(at, f, cancel, next) ==
  \/ Await(at, f, cancel)
  \/ sh.pc = cancel /\ Goto(next) /\ CancelTimer /\ UNCHANGED <<test, files, world>>

(* freeze, freeze_pid, thaw *)
Freeze(at, next) ==
  /\ sh.pc = at
  /\ frozen' = TRUE
  /\ Goto(next)
  /\ UNCHANGED <<test, prog, image, dying, files, timer, kern, races>>

Thaw(at, next) ==
  /\ sh.pc = at
  /\ frozen' = FALSE
  /\ Goto(next)
  /\ UNCHANGED <<test, prog, image, dying, files, timer, kern, races>>

(* checkpoint $pid > file: these scripts do not look at its status. *)
Checkpoint(at, next) ==
  /\ sh.pc = at
  /\ image' \in {None, prog}
  /\ Goto(next)
  /\ UNCHANGED <<test, prog, dying, files, frozen, timer, kern, races>>

(* killall or kill -9 of every task of the program. *)
Kill(at, next) ==
  /\ sh.pc = at
  /\ dying' = prog /\ prog' = None
  /\ Goto(next)
  /\ UNCHANGED <<test, image, files, frozen, timer, kern, races>>

(* The killed program gives its pids back, unless it is frozen. *)
Reap ==
  /\ dying # None /\ ~frozen
  /\ dying' = None
  /\ UNCHANGED <<test, sh, prog, image, files, frozen, timer, kern, races>>

\* Mutant: goes on at once.
AwaitGoneNot(at, next) ==
  /\ sh.pc = at
  /\ Goto(next)
  /\ UNCHANGED <<test, files, timer, world>>

(* wait, or pidof until it finds nothing. *)
AwaitGone(at, next) ==
  /\ sh.pc = at /\ dying = None
  /\ Goto(next)
  /\ UNCHANGED <<test, files, timer, world>>

(* restart --pids < image: it needs the pids of the image, which the       *)
(* killed program may still have.  A right kernel makes one of right of    *)
(* it, a wrong one may make one of wrong, sets of programs or None.        *)
Restart(right, wrong) ==
  IF dying # None THEN prog' = None /\ Lost(TRUE, "busy") /\ UNCHANGED kern
  ELSE /\ \/ /\ image # None
             /\ prog' \in right
             /\ kern' = IF kern = "wrong" THEN kern ELSE "right"
          \/ /\ prog' \in (IF image = None THEN {None} ELSE wrong)
             /\ kern' = "wrong"
       /\ UNCHANGED races

Running == prog # None /\ ~frozen
=============================================================================
