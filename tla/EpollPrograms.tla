---------------------------- MODULE EpollPrograms ----------------------------
(***************************************************************************)
(* empty.c, pipe.c, scm.c, sk10k.c and cycle.c of epoll/.                  *)
(*                                                                         *)
(* External: an epoll set has items [ep, fd, want, data]; data is the      *)
(* cookie that epoll_wait() hands back, the fd it was set for.  Pipes and  *)
(* sockets can always be written to.                                       *)
(***************************************************************************)
EXTENDS LabelTask, EpollArith, FiniteSetsExt

CONSTANTS
  RLimits,   \* soft limits on open files that sk10k may meet
  OpenFds,   \* files it has open when it starts
  Pairs,     \* arguments of its -s
  NumEfds    \* arguments of -c of cycle (3 by default; efd[] has room for 3)

ASSUME EpollAssumption ==
  /\ OpenFds \in Nat /\ \A cur \in RLimits : cur \in Nat /\ cur >= OpenFds
  /\ Pairs \subseteq Nat \ {0}
  /\ NumEfds \subseteq 2 .. 3

\* The two ends of a pipe.  (Epoll sets and sockets have small numbers.)
RFd == 98
WFd == 99

\* The state all of them have: num_sk or num_efd, how many files may still
\* be opened, opt: num_sk comes from -s or from a default that does not know
\* the open files; epoll sets, items, unread data, what epoll_wait() and
\* read() gave; edges: edge-triggered items (of cycle.c) with an event to
\* report, by their set.
Epoll(n, left, opt, fds) ==
  [pc |-> "start", st |-> "run", ret |-> 0, n |-> n, left |-> left, opt |-> opt,
   eps |-> {}, items |-> {}, edges |-> {}, buf |-> [f \in fds |-> "empty"],
   evs |-> {}, rbuf |-> "empty"]

-----------------------------------------------------------------------------
\* External: epoll_ctl(), which needs the set, and the item not to be there
\* (ADD) or to be there (DEL).
Item(ep, fd, want) == [ep |-> ep, fd |-> fd, want |-> want, data |-> fd]
Has(p, ep, fd) == \E it \in p.items : it.ep = ep /\ it.fd = fd

Added(p, ep, fd, want) ==
  IF ep \in p.eps /\ ~Has(p, ep, fd)
  THEN [p EXCEPT !.ret = 0, !.items = @ \cup {Item(ep, fd, want)}]
  ELSE [p EXCEPT !.ret = -1]

Deleted(p, ep, fd) ==
  IF ep \in p.eps /\ Has(p, ep, fd)
  THEN [p EXCEPT !.ret = 0, !.items = {it \in @ : it.ep # ep \/ it.fd # fd}]
  ELSE [p EXCEPT !.ret = -1]

\* External: epoll_wait() reports up to max of the events there are, in any
\* order; -1 without the set.
Event(fd, ev) == [data |-> fd, ev |-> ev]

Plain(p, it) == it.want = "out" \/ (it.want = "in" /\ p.buf[it.fd] # "empty")

\* In a cycle an item for another set reports once per event, and only while
\* that set, and so every set down to the pipe, has something to report.
Linked(p, it) ==
  /\ it.want = "edge"
  /\ \E i \in p.items : Plain(p, i)
  /\ \A k \in 0 .. it.ep : k \in p.edges

Reported(it) == Event(it.data, IF it.want = "out" THEN "out" ELSE "in")

Pending(p, ep) ==
  {Reported(it) : it \in {i \in p.items : i.ep = ep /\ (Plain(p, i) \/ Linked(p, i))}}

Waits(p, ep, max) ==
  IF ep \notin p.eps THEN {[p EXCEPT !.ret = -1]}
  ELSE LET all == Pending(p, ep)
       IN {[p EXCEPT !.ret = Cardinality(s), !.evs = s] :
             s \in kSubset(Min({max, Cardinality(all)}), all)}

Read(p, fd) == [p EXCEPT !.rbuf = p.buf[fd], !.buf[fd] = "empty"]

\* A read() with nothing to read blocks: the program has the other end open.
CanRead(fds) == \A f \in fds : prog.buf[f] # "empty"

-----------------------------------------------------------------------------
EmptyStart == {Epoll(1, 1, FALSE, {})}

(* empty.c: only close(efd) at the end looks at the epoll set.             *)
EmptyStep ==
  \/ Label("start", TRUE, "create", [prog EXCEPT !.eps = {0}])
  \/ Label("create", Succeeded, "do_nothing", prog)
  \/ Exit("do_nothing", prog.eps = {0})

-----------------------------------------------------------------------------
PipeStart == {Epoll(1, 1, FALSE, {RFd})}

\* Mutant: the file descriptor of the event is not looked at.
GotAny(fd, ev) == prog.ret = 1 /\ \E e \in prog.evs : e.ev = ev

(* The checks after epoll_wait(): one event, the flag, the file descriptor.*)
Got(fd, ev) == prog.ret = 1 /\ prog.evs = {Event(fd, ev)}

(* pipe.c: wait until the pipe can be written, write, wait until it can be *)
(* read, read.                                                             *)
PipeStep ==
  \/ Label("start", TRUE, "create", [prog EXCEPT !.eps = {0}])
  \/ Label("create", Succeeded, "ctl_add_wfd", Added(prog, 0, WFd, "out"))
  \/ \E q \in Waits(prog, 0, 1) : Label("ctl_add_wfd", Succeeded, "wait_write", q)
  \/ Label("wait_write", Got(WFd, "out"), "do_write", [prog EXCEPT !.buf[RFd] = "hello"])
  \/ Label("do_write", Succeeded, "ctl_add_rfd", Added(prog, 0, RFd, "in"))
  \/ Label("ctl_add_rfd", Succeeded, "ctl_rm_wfd", Deleted(prog, 0, WFd))
  \/ \E q \in Waits(prog, 0, 1) : Label("ctl_rm_wfd", Succeeded, "wait_read", q)
  \/ /\ Got(RFd, "in") => CanRead({RFd})
     /\ Label("wait_read", Got(RFd, "in"), "do_read", Read(prog, RFd))
  \/ Exit("do_read", prog.rbuf = "hello")

-----------------------------------------------------------------------------
\* A status of wait() and what exit() makes of its argument.
WaitStatus(code) == code * 256
ExitStatus(status) == status % 256

\* External: recvmsg() delivers the files of a message if there is room.
Received(room, fds) == IF Cardinality(fds) <= room THEN fds ELSE {}

ScmFds == {0, RFd, WFd}

ScmStart == {Epoll(1, 1, FALSE, {RFd})}

(* scm.c: fork, and pass efd and the pipe to the child, which would go on  *)
(* as pipe.c does if it got them.  The child gives recvmsg() no room for   *)
(* them (its msg_control is NULL) and exits with 2; the parent hands the   *)
(* status that waitpid() gives it to exit().                               *)
ScmStep ==
  \/ Label("start", TRUE, "create", [prog EXCEPT !.eps = {0}])
  \/ Label("create", Succeeded, "recvmsg", prog)
  \/ /\ Received(0, ScmFds) # ScmFds
     /\ Label("recvmsg", TRUE, "waitpid", [prog EXCEPT !.ret = WaitStatus(2)])
  \/ Exit("waitpid", ExitStatus(prog.ret) = 0)

-----------------------------------------------------------------------------
(* sk10k.c without and with -s NUM.                                        *)
Sk10k(cur, n, opt) == Epoll(n, cur - OpenFds, opt, 1 .. n)
Sk10kStart ==
  UNION {{Sk10k(cur, DefaultNumSk(cur, OpenFds), FALSE), Sk10k(cur, UncountedNumSk(cur), TRUE)}
         \cup {Sk10k(cur, OptionNumSk(cur, s), TRUE) : s \in Pairs} : cur \in RLimits}

Sockets == 1 .. prog.n

\* malloc() and epoll_create() refuse a number that is not positive.
Sk10kCreated ==
  IF prog.n > 0 /\ prog.left > 0 THEN [prog EXCEPT !.eps = {0}, !.left = @ - 1]
                                 ELSE [prog EXCEPT !.ret = -1]

\* The loop of label open: socketpair() two by two, ADD each socket.
Sk10kFits == 0 \in prog.eps /\ prog.n + (prog.n % 2) <= prog.left
Sk10kOpened ==
  [prog EXCEPT !.left = @ - prog.n, !.items = {Item(0, s, "out") : s \in Sockets}]

\* All num_sk events, each with the flag; whose they are is not looked at.
GotAll(ev) == prog.ret = prog.n /\ \A e \in prog.evs : e.ev = ev

\* The loop of label mod: MOD each socket, whether or not that works.
Sk10kModified == [prog EXCEPT !.items = {[it EXCEPT !.want = "in"] : it \in @}]

Sk10kStep ==
  \/ Label("start", TRUE, "create", Sk10kCreated)
  \/ Label("create", Succeeded, "open", prog)
  \/ \E q \in Waits(Sk10kOpened, 0, prog.n) : Label("open", Sk10kFits, "wait_write", q)
  \/ Label("wait_write", GotAll("out"), "mod", [prog EXCEPT !.buf = [s \in Sockets |-> "hello"]])
  \/ \E q \in Waits(Sk10kModified, 0, prog.n) : Label("mod", Succeeded, "wait_read", q)
  \/ Label("wait_read", GotAll("in"), "do_read", prog)
  \/ CanRead(Sockets) /\ Exit("do_read", \A s \in Sockets : prog.buf[s] = "hello")

-----------------------------------------------------------------------------
CycleStart == {Epoll(n, n, FALSE, {RFd}) : n \in NumEfds}

Efds == 0 .. prog.n - 1
LastEfd == prog.n - 1

\* Each set gets the one before it, and the first one the last.
CycleCreated ==
  [prog EXCEPT !.eps = Efds,
     !.items = {Item(i, IF i = 0 THEN LastEfd ELSE i - 1, "edge") : i \in Efds}]

\* External: an event of the pipe runs round the cycle.
Woken(p) == [p EXCEPT !.edges = {it.ep : it \in {i \in p.items : i.want = "edge"}}]

\* Both ends of the pipe go into the last set.
CyclePiped == Woken(Added(Added(prog, LastEfd, RFd, "in"), LastEfd, WFd, "out"))

\* The loop around epoll_wait(efd[i]), from the last set but one to the
\* first: each reports the set before it, and then has nothing to report.
AroundCycle ==
  \A i \in 0 .. LastEfd - 1 :
     i \in prog.eps /\ Pending(prog, i) = {Event(PrevIndex(i, prog.n), "in")}
CycleWaited == [prog EXCEPT !.edges = @ \ (0 .. LastEfd - 1)]

\* epoll_wait(efd[j]): j is left by the loop's last iteration.
CycleWaits == Waits(CycleWaited, PrevIndex(0, prog.n), 1)
Brings(q, fd, ev) == AroundCycle /\ q.ret = 1 /\ q.evs = {Event(fd, ev)}

\* write(), of which the cycle hears through the item for the read end.
CycleWritten(q) ==
  LET w == [q EXCEPT !.buf[RFd] = "hello"]
  IN IF Has(q, LastEfd, RFd) THEN Woken(w) ELSE w

CycleStep ==
  \/ Label("start", TRUE, "create_efd", prog)
  \/ Label("create_efd", Succeeded, "link_pipe", CycleCreated)
  \/ Label("link_pipe", LastEfd \in prog.eps, "wait_write", CyclePiped)
  \/ \E q \in CycleWaits : Label("wait_write", Brings(q, WFd, "out"), "do_write", CycleWritten(q))
  \/ Label("do_write", Succeeded, "wait_read", prog)
  \/ \E q \in CycleWaits : Label("wait_read", Brings(q, RFd, "in"), "do_read", q)
  \/ CanRead({RFd}) /\ Exit("do_read", prog.buf[RFd] = "hello")
=============================================================================
