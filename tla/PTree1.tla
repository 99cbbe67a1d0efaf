------------------------------- MODULE PTree1 -------------------------------
(***************************************************************************)
(* process-tree/ptree1.c: a tree of processes below the container's init,  *)
(* which is main().  A process is named by its path of child numbers, the  *)
(* id_str of the code.  The children of a process that has exited become   *)
(* main()'s.                                                               *)
(***************************************************************************)
EXTENDS KillRestart, Sequences, FiniteSets

CONSTANT MaxNodes    \* bound on the size of the tree

NodesOf(args) == UNION {[1 .. d -> 0 .. args.num_children - 1] : d \in 1 .. args.max_depth}
ParentOf(x) == SubSeq(x, 1, Len(x) - 1)

\* The arguments -d and -n.
Args == {a \in [max_depth : 1 .. MaxNodes, num_children : 1 .. MaxNodes] :
           Cardinality(NodesOf(a)) <= MaxNodes}
Nodes == UNION {NodesOf(a) : a \in Args}

\* i: how many children were forked.
Progs ==
  [args : Args, main : {"fork", "ready", "wait", "exit"}, i : 0 .. MaxNodes,
   node : [Nodes -> [pc : {"none", "fork", "loop", "work", "wait", "zombie", "gone"},
                     i : 0 .. MaxNodes]]]

Fresh(args) ==
  [args |-> args, main |-> "fork", i |-> 0,
   node |-> [x \in Nodes |-> [pc |-> "none", i |-> 0]]]

max_depth == prog.args.max_depth
num_children == prog.args.num_children

Pc(x) == prog.node[x].pc
Exists(x) == Pc(x) \notin {"none", "gone"}
Orphan(x) == Len(x) = 1 \/ Pc(ParentOf(x)) \in {"zombie", "gone"}

ChildrenOf(x) == {y \in Nodes : Len(y) = Len(x) + 1 /\ ParentOf(y) = x /\ Exists(y)}
ChildrenOfInit == {y \in Nodes : Orphan(y) /\ Exists(y)}

(* do_child(): create_children() for a process that is not at max_depth,   *)
ForkChild(x) ==
  /\ Pc(x) = "fork"
  /\ prog' = IF Len(x) < max_depth /\ prog.node[x].i < num_children
             THEN [prog EXCEPT !.node[x].i = @ + 1,
                               !.node[Append(x, prog.node[x].i)].pc = "fork"]
             ELSE [prog EXCEPT !.node[x].pc = "loop"]

(* while (!test_done()): *)
LoopTest(x) ==
  /\ Pc(x) = "loop"
  /\ prog' = [prog EXCEPT !.node[x].pc = IF testDone THEN "wait" ELSE "work"]

(* do_work(), which does not return but exits: its children are not waited *)
(* for.                                                                    *)
WorkDone(x) ==
  /\ Pc(x) = "work"
  /\ testDone
  /\ prog' = [prog EXCEPT !.node[x].pc = "zombie"]

(* do_wait() *)
DoWait(x) ==
  /\ Pc(x) = "wait"
  /\ \/ \E y \in ChildrenOf(x) : Pc(y) = "zombie" /\ prog' = [prog EXCEPT !.node[y].pc = "gone"]
     \/ ChildrenOf(x) = {} /\ prog' = [prog EXCEPT !.node[x].pc = "zombie"]

NodeStep(x) == (ForkChild(x) \/ LoopTest(x) \/ WorkDone(x) \/ DoWait(x)) /\ UNCHANGED ready

(* main(): create_children() *)
ForkFirst ==
  /\ prog.main = "fork"
  /\ prog' = IF prog.i < num_children
             THEN [prog EXCEPT !.i = @ + 1, !.node[<<prog.i>>].pc = "fork"]
             ELSE [prog EXCEPT !.main = "ready"]

SetReady ==
  /\ prog.main = "ready"
  /\ ready' = TRUE
  /\ prog' = [prog EXCEPT !.main = "wait"]

\* Mutant: waits for the children that main() forked, not for any child.
MainWaitOwn ==
  /\ prog.main = "wait"
  /\ \/ \E y \in ChildrenOfInit : Pc(y) = "zombie" /\ prog' = [prog EXCEPT !.node[y].pc = "gone"]
     \/ /\ \A i \in 0 .. num_children - 1 : Pc(<<i>>) = "gone"
        /\ prog' = [prog EXCEPT !.main = "exit"]

(* do_wait(): waitpid(-1) until there is no child.  What it then says of   *)
(* their number goes to the log.                                           *)
MainWait ==
  /\ prog.main = "wait"
  /\ \/ \E y \in ChildrenOfInit : Pc(y) = "zombie" /\ prog' = [prog EXCEPT !.node[y].pc = "gone"]
     \/ ChildrenOfInit = {} /\ prog' = [prog EXCEPT !.main = "exit"]

MainStep ==
  \/ (ForkFirst \/ MainWait) /\ UNCHANGED ready
  \/ SetReady

-----------------------------------------------------------------------------
(* When main() exits, and the kernel would kill what is left in its pid    *)
(* namespace, no process of the tree is left: though a process of the tree *)
(* exits without waiting for its children, and the checkpoint may have     *)
(* caught the tree half forked, do_wait() also waits for the orphans, and  *)
(* for those they still fork.                                              *)
NobodyLeft == prog.main = "exit" => \A x \in NodesOf(prog.args) : Pc(x) = "gone"
=============================================================================
