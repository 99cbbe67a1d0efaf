------------------------------ MODULE LabelTask ------------------------------
(***************************************************************************)
(* A program of label() statements (libcrtest/labels.h) with the state it  *)
(* is about.  It can be checkpointed where label() has performed its       *)
(* action and not yet looked at the result: prog.pc is that label, and a   *)
(* step of the program goes from one label to the next.                    *)
(***************************************************************************)
EXTENDS Integers, FiniteSets

VARIABLES
  prog,   \* the program: its label pc, its state st, the result ret of the
          \* label's action, its variables and what the kernel holds for it
  disk    \* the working directory: what each name stands for, if anything

States == {"run", "passed", "failed", "refused"}

Ended == prog.st # "run"

\* Mutant: ec is EXIT_SUCCESS to begin with.
LabelOptimistic(from, ok, to, q) ==
  /\ prog.st = "run" /\ prog.pc = from
  /\ prog' = IF ok THEN [q EXCEPT !.pc = to] ELSE [prog EXCEPT !.st = "passed"]

(* Leave the label from.  If the checks behind it hold (ok) the action of  *)
(* the label to makes the program q, otherwise goto out and exit(1).       *)
Label(from, ok, to, q) ==
  /\ prog.st = "run" /\ prog.pc = from
  /\ prog' = IF ok THEN [q EXCEPT !.pc = to] ELSE [prog EXCEPT !.st = "failed"]

(* The checks behind the last label, and exit(). *)
Exit(from, ok) ==
  /\ prog.st = "run" /\ prog.pc = from
  /\ prog' = [prog EXCEPT !.st = IF ok THEN "passed" ELSE "failed"]

\* label(): if (ret < 0) goto out.
Succeeded == prog.ret >= 0
=============================================================================
