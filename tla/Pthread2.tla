------------------------------ MODULE Pthread2 ------------------------------
(***************************************************************************)
(* process-tree/pthread2.c: a thread's attributes, of which create_threads *)
(* sets the stack.                                                         *)
(***************************************************************************)
EXTENDS ThreadInfo

(* set_thread_attrs() comes before pthread_create(). *)
Fresh == FreshWith("own")

(* pthread_getattr_np() *)
GetAttr(t) ==
  /\ prog.pc[t] = "collect"
  /\ prog' = [prog EXCEPT !.pc[t] = "barrier", !.exp[t] = prog.attr[t]]

(* compare_affinity() ... compare_stack() *)
SameAttr(t) == prog.attr[t] = prog.exp[t]

(* compare_attr(): do_exit(1) of the whole program at the first mismatch.  *)
CompareAttr(t) ==
  /\ prog.pc[t] = "compare"
  /\ IF SameAttr(t) THEN ThreadExit(t) ELSE DoExit(1)

Main == MainStep("collect")
ThreadStep(t) ==
  (GetAttr(t) \/ Arrive(t) \/ Leave(t) \/ SeeTestDone(t) \/ CompareAttr(t)) /\ UNCHANGED ready
=============================================================================
