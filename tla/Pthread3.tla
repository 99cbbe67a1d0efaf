------------------------------ MODULE Pthread3 ------------------------------
(***************************************************************************)
(* process-tree/pthread3.c: a thread's specific data, which it sets to its *)
(* own id, and what else pthread_* functions say of it.                    *)
(***************************************************************************)
EXTENDS ThreadInfo

Fresh == FreshWith("default")

(* set_thread_info() *)
SetThreadInfo(t) ==
  /\ prog.pc[t] = "start"
  /\ prog' = [prog EXCEPT !.pc[t] = "collect", !.attr[t] = "own"]

(* get_thread_info(): do_exit(1) when the specific data are not its own.   *)
GetThreadInfo(t) ==
  /\ prog.pc[t] = "collect"
  /\ IF prog.attr[t] = "own" THEN prog' = [prog EXCEPT !.pc[t] = "barrier", !.exp[t] = "own"]
     ELSE DoExit(1)

(* compare_thread_info() *)
SameInfo(t) == prog.attr[t] = prog.exp[t]

(* get_thread_info() again, and the comparison *)
CompareThreadInfo(t) ==
  /\ prog.pc[t] = "compare"
  /\ IF prog.attr[t] = "own" /\ SameInfo(t) THEN ThreadExit(t) ELSE DoExit(1)

Main == MainStep("start")
ThreadStep(t) ==
  /\ \/ SetThreadInfo(t) \/ GetThreadInfo(t) \/ Arrive(t) \/ Leave(t) \/ SeeTestDone(t)
     \/ CompareThreadInfo(t)
  /\ UNCHANGED ready
=============================================================================
