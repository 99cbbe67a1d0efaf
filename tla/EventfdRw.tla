----------------------------- MODULE EventfdRw -----------------------------
(***************************************************************************)
(* eventfd/rw.c under eventfd/run.sh.  The program checkpoints itself at   *)
(* seven labels while an interval timer may fire between any two of its    *)
(* steps, inside do_ckpt() included; the handler writes the eventfd that   *)
(* the program's blocking read waits for.                                  *)
(***************************************************************************)
EXTENDS CkptAllLabels, Sequences

\* Seven labels; the counter values that the program writes.
RwLabels == 0 .. 6
ASSUME SevenLabels == IMAX = 6
Value1 == 31337
Value2 == 1
\* Log lines other than a label's: "Doing blocking read", "Received SIGLARM".
Reading == 7
SigAlrm == 8

RwPcs == {"action", "check", "say", "read"} \cup DoCkptPcs \cup Gone

RwTypeOK ==
  /\ FilesOK
  /\ ScriptOK
  /\ app \in [pc : RwPcs, op : RwLabels, cnt : {0, 1, Value1}, v : {0, 1, Value1},
              timer : {"off", "armed", "fired"}, nonblock : BOOLEAN]
  /\ log \in Seq(0 .. SigAlrm)

RwInit ==
  /\ ScriptInit
  /\ app = [pc |-> "action", op |-> 0, cnt |-> 0, v |-> 0,
            timer |-> "off", nonblock |-> FALSE]
  /\ log = << >>

\* A read of the eventfd returns the counter and clears it.
Read(a) == [a EXCEPT !.v = a.cnt, !.cnt = 0]
\* A write adds to it.
Write(a, value) == [a EXCEPT !.v = value, !.cnt = @ + value]

\* A read of an empty counter blocks unless O_NONBLOCK is set.
CanRead(a) == a.cnt > 0 \/ a.nonblock

(* What the labelled action, with the assignment to v before it, does.     *)
Labelled(a) ==
  CASE a.op = 0 -> [a EXCEPT !.cnt = 0]              \* create_eventfd
    [] a.op = 1 -> [a EXCEPT !.timer = "armed"]      \* prepare_blocking_read_timeout
    [] a.op = 2 -> Write(a, Value1)                  \* write_event1
    [] a.op = 3 -> Read(a)                           \* read_event1
    [] a.op = 4 -> [a EXCEPT !.nonblock = TRUE]      \* set_nonblocking
    [] a.op = 5 -> Write(a, Value2)                  \* write_event2
    [] a.op = 6 -> Read(a)                           \* read_event2

(* The program's own test after a label; TRUE where it has none.           *)
Expected(a) ==
  CASE a.op = 3 -> a.v = Value1
    [] a.op = 4 -> a.cnt = 0        \* the non-blocking read gets EAGAIN
    [] a.op = 6 -> a.v = Value2
    [] OTHER -> TRUE

RwAction ==
  /\ app.pc = "action"
  /\ app.op = 3 => CanRead(app)
  /\ log' = Append(log, app.op)
  /\ app' = [Labelled(app) EXCEPT !.pc = "set_ready"]   \* ckpt_op_num is -1
  /\ UNCHANGED files

RwCheck ==
  /\ app.pc = "check"
  /\ app' = IF ~Expected(app) THEN [app EXCEPT !.pc = "failed"]
            ELSE IF app.op = IMAX THEN [app EXCEPT !.pc = "exited"]
            ELSE IF app.op = 1 THEN [app EXCEPT !.pc = "say"]
            ELSE [app EXCEPT !.pc = "action", !.op = @ + 1]
  /\ UNCHANGED <<files, log>>

(* "Doing blocking read. Quick! Somebody checkpoint me!" *)
SayReading ==
  /\ app.pc = "say"
  /\ log' = Append(log, Reading)
  /\ app' = [app EXCEPT !.pc = "read"]
  /\ UNCHANGED files

(* The blocking read and the test of what it returned. *)
BlockingRead ==
  /\ app.pc = "read"
  /\ CanRead(app)
  /\ app' = IF app.cnt = 1 THEN [Read(app) EXCEPT !.pc = "action", !.op = 2]
                           ELSE [Read(app) EXCEPT !.pc = "failed"]
  /\ UNCHANGED <<files, log>>

\* Mutant: it_interval set, the timer fires again (the counter is kept small).
HandlerPeriodic ==
  /\ app.timer = "armed"
  /\ app.pc \notin Gone
  /\ app.cnt < 2
  /\ app' = [app EXCEPT !.cnt = @ + 1]
  /\ log' = Append(log, SigAlrm)
  /\ UNCHANGED files

(* handler(): SIGALRM, one second after setitimer().                       *)
Handler ==
  /\ app.timer = "armed"
  /\ app.pc \notin Gone
  /\ app' = [app EXCEPT !.timer = "fired", !.cnt = @ + 1]
  /\ log' = Append(log, SigAlrm)
  /\ UNCHANGED files

RwMain == RwAction \/ RwCheck \/ SayReading \/ BlockingRead \/ CallDoCkpt("check")

RwStep(A) == Thawed /\ A /\ UNCHANGED <<frozen, scriptVars>>

RwNext == RwStep(RwMain) \/ RwStep(Handler) \/ ScriptNext \/ Over

(* The timer expires, the program and the script are scheduled. *)
RwFairness == WF_vars(RwStep(RwMain)) /\ WF_vars(RwStep(Handler)) /\ WF_vars(ScriptNext)

RwSpec == RwInit /\ [][RwNext]_vars /\ RwFairness

-----------------------------------------------------------------------------
(* Wherever the alarm lands among the labels, checkpoints and restarts, a  *)
(* faithful restart never makes the program report a failure.              *)
NoFalseFail == app.pc # "failed"

(* The blocking read of the original and of every restarted program        *)
(* returns, and the script exits.                                          *)
RwTerminates == <>(sh.pc = "exit")
=============================================================================
