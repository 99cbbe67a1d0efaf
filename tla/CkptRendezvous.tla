--------------------------- MODULE CkptRendezvous ---------------------------
(***************************************************************************)
(* What the flag files are for: a program with labels 0 .. Last parks at   *)
(* each of them, and goes on only after its checkpoint there was taken.    *)
(* Nothing is said of files, freezers or polling.                          *)
(***************************************************************************)
EXTENDS Integers

CONSTANT Last

VARIABLES
  where,  \* the label the program is at, 0 once it is over
  mode,   \* "running" to the next label, "parked" at it, or "over"
  taken   \* the labels whose checkpoint exists

RInit == where = 0 /\ mode = "running" /\ taken = {}

Park == mode = "running" /\ mode' = "parked" /\ UNCHANGED <<where, taken>>

Take ==
  /\ mode = "parked"
  /\ where \notin taken
  /\ taken' = taken \cup {where}
  /\ UNCHANGED <<where, mode>>

Release ==
  /\ mode = "parked"
  /\ where \in taken
  /\ where < Last
  /\ mode' = "running"
  /\ where' = where + 1
  /\ UNCHANGED taken

(* The program exits after its last label; or it is killed, or fails, or   *)
(* the attempt is given up.                                                *)
Stop == mode # "over" /\ mode' = "over" /\ where' = 0 /\ UNCHANGED taken

RNext == Park \/ Take \/ Release \/ Stop

RSpec == RInit /\ [][RNext]_<<where, mode, taken>>
=============================================================================
