# cr-tests in TLA+

TLA+ models of the Linux checkpoint/restart test suite in `src/`, checked with
TLC on small instances and, for three of its protocols and some arithmetic, proved with TLAPS for
every value of the constants. `PROJECT.json` lists the components, the runs,
their mutants, the source lines behind every definition, the disagreements
found, the hazards and the theorems.

## The system

`cr-tests` tests the kernel's checkpoint/restart. A *wrapper script* (bash)
starts a *test program* (C), waits until the program says it is in an
interesting state, freezes it with the cgroup freezer, calls the external
commands `checkpoint` and `restart`, and decides PASS or FAIL. Script and
program meet through *flag files* in their common working directory:

| file | created by | removed by | meaning |
|---|---|---|---|
| `checkpoint-ready` | `set_checkpoint_ready()` | script | the program can be checkpointed |
| `checkpoint-done` | script | `do_ckpt()` | the checkpoint was taken, go on |
| `checkpoint-skip` | script | script | `do_ckpt()` is a dry run |
| `test-done` | script | script | the test is over: verify and exit |

What is hard about it is what a run of the suite hardly shows. Nothing but
those files and the freezer orders script and program. A restarted program
wakes up in the middle of whatever its image caught, with the files as they are
*now*. Threads, children, signal handlers and the kernel's own wake-ups
interleave with the checkpoint. A test that reports FAIL after a faithful
restart, or PASS after a lossy one, is a bug of the suite that is taken for a
result about the kernel.

### Inventory

| part | its state | operations | modules |
|---|---|---|---|
| `libcrtest` | flag files, the program at a label | `set_checkpoint_ready`, `do_ckpt`, `label()`, `do_wait` | `DoCkpt`, `LabelProgram` |
| `eventfd/`, `fs/notify/` scripts | loop index, logs, one image per label, freezer | checkpoint at every label, restart every image, compare | `CkptAllLabels`, `LabelHarness` |
| `eventfd/rw.c` | eventfd counter, timer | label actions, `SIGALRM` handler, blocking read | `EventfdRw` |
| `epoll/run.sh`, `parse_args()` | chosen label, image | one checkpoint per test | `EpollHarness` |
| `process-tree/` scripts | iteration, image, freezer | create, freeze, checkpoint, kill, restart, finish | `KillRestart` |
| `process-tree/` programs | threads or processes, mutex, condition variable, barrier | see each module | `Pthread1` .. `Pthread4`, `ThreadInfo`, `PTree1`, composed in `ProcessTree` |
| `fileio/` fcntl tests | locks, leases, pipe owner, eventfds, pending signals | parent, children, handlers, kernel | `FcntlScript`, `FileLock1`, `FileLock2`, `FileLease1`, `FileLease2`, `Fsetown1`, composed in `FcntlTests` |
| `futex/` | futex words, wait queues, robust lists, priorities | parent, children, kernel wake-ups | `FutexRun`, `FutexPlain`, `FutexRobust`, `FutexPi`, composed in `FutexTests` |
| `fileio/fileio1.c` and its script | records copied, snapshot, image, a program that is dying | copy a record, checkpoint, snapshot, kill, restore, restart, compare | `FileIO1` |
| `common.sh` | freezer state, timer | `freeze`, `freeze_pid`, `thaw`; `settimer`, `canceltimer`, `handlesigusr1` | `CommonSh`; steps of the other scripts |
| `ipc/`, `userns/`, `pidns/`, `bashckpt/`, `taskfs/`, `counterloop/` | flag files, objects, credentials, counters | one checkpoint, kill and restart per test, a look at what the program left | `IpcTest`, `UsernsTest`, `CredsTest`, `PidnsTest`, `TaskFsTest`, `CounterTest`, composed in `OneShotTests` |
| `epoll/` programs | epoll sets, items, pipe, sockets | one step per label | `EpollArith`, `LabelTask`, `EpollPrograms`, composed in `LabelTests` |
| `fs/` programs, `fs/notify/dnotify.c` | open files, names in the directory, watches, a signal | one step per label | `LabelTask`, `FsPrograms`, composed in `LabelTests` |
| `sleep/`, `simple/`, `pty/`, `makeprocs/`, `eclone/`, `smack/`, `selinux/`, `runall.sh` | | | not modelled, see the end |

## How the models are made

* A test program, with all its threads or processes and what the kernel holds
  for them, is one record (`app` or `prog`). A checkpoint copies it to `image`,
  a restart copies it back. Each task's steps are actions on that record.
* Script and program are separate processes of the specification. A step is one
  system call or one shell command with an effect the other side can see; local
  computation goes with the step it leads to.
* Programs that share a script or a way of being tested are composed by one
  module whose variable `test` says which of them runs.
* `checkpoint`, `restart`, the freezer, pthreads and the kernel's locks, leases,
  futexes and signals are external, modelled by what the code uses of them.
  Checkpoint and restart may fail; where a property is about it a restart may
  also lose what the test is there to look at. `kern` is then a history variable
  that remembers how it went, and `races` which races a script has lost.
* A program that is killed while it is frozen does nothing more. One that was
  thawed first may take further steps before it is gone; `restart --pids` fails
  while one of the pids of its image is in use.
* Freezing stops all tasks of the container. `freeze_pid` itself moves only one
  task (`common.sh:54`); the others are in the same cgroup because `nsexec -g`
  put the container there, which is an assumption about `nsexec`.
* Left out: failures of `malloc`, `fork`, `open`, `clone` and `pthread_create`
  during set-up, the wording of log lines, the copies of log files where nobody
  reads them.
* Definitions named `...Not`, `...PastLast`, `...Forgotten` and the like, marked
  *Mutant* in their comments, are wrong variants of the definition that follows
  them. `PROJECT.json` says which property each of them breaks.

## Modules and code

**`DoCkpt`, `LabelProgram`.** `do_ckpt()` access by access: create
`checkpoint-ready`, look for the dry run, poll for `checkpoint-done`, unlink it.
`LabelProgram` is a program of `label()` statements; `broken` is the label whose
action fails, or -1.

**`CkptAllLabels`, `LabelHarness`, `MCLabelHarness`.** The two loops of
`eventfd/run.sh`, with its ERR traps. `RemoveReady` and `InFreezer` are what
`fs/notify/run.sh` does differently. `CkptRendezvous` is the abstract
specification: the program parks at each label and leaves it once that
checkpoint was taken. `LabelHarness` maps its state to it.

**`EventfdRw`.** `rw.c` and its interval timer, whose handler may run between any
two steps of the program, inside `do_ckpt()` too.

**`EpollHarness`.** `epoll/run.sh`, where `-l` adds a label to the one that
`parse_args()` has preset.

**`KillRestart`.** The loop shared by the scripts of `process-tree/`.
`ProcessTree` runs `pthread1`, `pthread2`, `pthread3` and `ptree1` in it, the
variable `test` says which. `run-pthread2.sh` and `run-pthread3.sh` poll without
a limit (`PatientScript`), the others give up (`LimitedScript`). `ThreadInfo` is
the common part of `pthread2.c` and `pthread3.c`: collect, barrier, compare.
`PTree1` has orphans go to the container's init. `Pthread4` has a specification
of its own, because no script runs it and because it is proved.

**`FcntlScript`, `FcntlTests`.** `run-fcntltests.sh` and its five programs.
`checkpoint()` of that script exits whether or not the checkpoint works; both
that and the loop behind it are modelled. `faults` says whether the kernel may
refuse and the restart may lose something. In `FileLease2` the parent forks a
child in one step and counts it in the next, and `SIGCHLD` may come in between,
or while the `SIGUSR1` handler runs, which does not block it. Whether `F_UNLCK`
fails without a lease is left to the kernel: both happen.

**`FutexRun`, `FutexTests`.** `futex/run.sh` under `set -e` and its three
programs. `smp` is chosen when `pi` starts: with one CPU a task runs only when
no task of higher priority can.

**`FileIO1`.** `fileio1.c` and the loop of `run-fileio1.sh`. `prog` copies record
by record; `Thaw` comes before `Kill`, so that the program may write on, and the
killed program (`dying`) may still write after `Restore` has put the snapshot
back. `SyncRecord` is the write of one record with the `fsync()` after it.

**`CommonSh`, `OneShotTests`.** `CommonSh` has the timer and the freezer of
`common.sh` and the commands its users share. Each wrapper of `ipc/`
(`IpcTest`), `userns/` (`UsernsTest` for the three scripts about user
namespaces, `CredsTest` for `run_usertask.sh` and `run_sbits.sh`), `pidns/` and
`bashckpt/` (`PidnsTest`), `taskfs/` (`TaskFsTest`) and `counterloop/`
(`CounterTest`) is a sequence of actions on them. A race is recorded at the
command where it is lost: *late* (the program ran on before it died), *busy* (a
pid of the image was still in use), *empty* (a file was read before it was
written), *dropped* (a status was lost), *slow* (a limit or poll came first),
*dying* and *half* (`pidof` found a task that was going, or the first of two),
*order* (pids sorted as text put the child of `chrootsleep` before its parent,
and the script checkpoints the child alone).

**`LabelTask`, `EpollPrograms`, `FsPrograms`, `LabelTests`.** The programs of
`epoll/` and `fs/` are sequences of `label()` statements. A step goes from one
label to the next: the checks behind the one, the action of the other.
`LabelTests` checkpoints a program at any label and restarts it at any later
time; the restart is right, or loses one thing (an epoll set, an item or its
cookie, an event, data, a file, a watch, a signal), or finds the directory
changed behind the image. `EpollArith` has the index of `cycle.c` in unsigned
arithmetic of width `UIntSize` and the socket numbers of `sk10k.c`.

## Runs

| run | what it shows |
|---|---|
| `eventfd_run` | Five labels, any of which may fail. Every image is of its label (`ImageAtLabel`), no label is passed without its checkpoint (`NoLabelSkipped`), the script implements the rendezvous, the exit status is right (`Verdict`), restarts leave the original's log (`SameLog`), nobody waits for ever unless the program died (`Terminates`). |
| `eventfd_rw` | Seven labels and one alarm: no false FAIL, the script always ends. |
| `pthread4` | Three threads, two iterations: one holder of the mutex in every image, no false FAIL, the mutex is free at the end, restarted containers exit. |
| `process_tree` | Four threads, trees of up to three processes of any shape below `main()`: `pthread2` and `pthread3` exit 0 exactly when the restart lost nothing (`VerdictRight`); `ptree1` leaves no process behind (`NobodyLeft`); one signal wakes all of `pthread1`'s workers if all are waiting (`ChainWakesAll`); the other containers always exit (`RestartedExits`). |
| `fcntl` | Five programs, two iterations, with and without faults: images are taken in the state the programs describe (`ImageReady`), the lock is handed over (`HandedOver`), no false failures (`NoFalseFail`, for three programs), a lost owner of the pipe of `fsetown1` is reported (`LossReported`), failures in `filelock2` and of the children of `filelease2` reach the script (`FailureReported`), containers exit after a faithful restart (`RestartedExits`). |
| `futex` | Two children in `plain` and `robust`, three in `pi`, which lose no wake-up and end (`ProgramEnds`, `pi` on one CPU), hold the futex one at a time (`OneHolder`), get it in priority order (`WokenInOrder`), do not fail without a reason on one CPU (`NoFalseFail`, `pi`) and report failures (`PiFailureReported`). |
| `fileio1` | Four records, two iterations: the copy is complete after every restart (`CopyComplete`), the snapshot has what the image takes as written (`SnapshotFits`), the script ends (`ScriptEnds`). |
| `oneshot` | Thirteen scripts, with a kernel that restarts rightly, wrongly or not at all: each script loses only the races named for it in `Exposed` (`RacesKnown`); one that loses none gives the right verdict (`VerdictRight`); four scripts never pass without a restart, whatever race they lose (`NoFalsePass`); who is killed while frozen is as in the image (`KilledAsCheckpointed`); only a waiting script times out (`TimedOutWaiting`); every script ends (`ScriptEnds`). |
| `label_tests` | Eight programs: a loss is noticed unless its last use is over (`LossSeen`), no false failures (`NoFalseFail`), exit status 0 comes from the last label only (`PassedToTheEnd`), and every program ends unless data was lost (`Ends`). The exceptions are named in the properties and listed below. |

Three more runs are expected to fail: each shows that the code does not do what
a comment or a document of the repository says.

| run | disagreement |
|---|---|
| `notify_run` | "taking checkpoints at all the labelled points": `fs/notify/run.sh` takes them wherever the program is. |
| `epoll_run` | "You may only specify one LABEL": a second label stays set, and script and program wait for each other. |
| `fcntl_lock1` | "each process verifies that it has the locks": `F_SETLK` sets a lost lock again and reports PASS. |

`NoFalseFail`, `VerdictRight`, `RestartedExits` and `ScriptEnds` are names in
several modules, each about its own programs. The type invariants (`TypeOK`) of
`LabelHarness`, `Pthread4` and `FileIO1` are theorems. Those of the other
modules describe the variables; they hold in the instances of the runs and are
not repeated there, adding them to a `.cfg` checks them.

### Bounds

* Labels (`IMAX`): five for the generic program, seven for `rw.c`, which is its
  own number. The handshake of one label does not depend on the others; two
  would show a leftover file, five also show the loop's ends.
* `LastCnt`: one iteration of the scripts' loop (`LastCnt = 2`) where programs
  leave nothing behind for the next, two where `checkpoint-done` or the mutex
  could be carried over.
* Threads and children: three or four, so that a wake-up or a signal can go to
  the wrong one while another waits. `robust` has two contenders besides the
  parent, `pi` three, the least with a middle priority.
* `MaxNodes = 3`: trees of depth 1 to 3 and up to three children. Depth 2 has
  orphans, depth 3 orphans of orphans. The complete tree of depth 2 with two
  children has 8.7 million states, too many for a routine run with liveness.
* `Retries = 1` in `pi.c` instead of 1000: the counter's end is reached.
* `NumRecs = 4`, `NumTests = 2` in `fileio1`: the image may be caught before,
  between and after records while the original goes on by several; the second
  iteration starts with the files of the first.
* `Depth = 3` nested namespaces, `NumJobs = 2` counters side by side (one may be
  ahead of the other at every step), `NumLoops = 2`, and counters up to
  `MaxCount = 4`, where they stay: nothing depends on their value.
* `label_tests`: limits on open files of 4, 11 and 12 with 3 files open leave
  room for none, an odd and an even number of sockets; `-s` with 1, 2 and 6 pairs
  asks for what fits and for too many, as does the default when `scandir()` fails; `cycle` has 2 and 3 sets, what `efd[]` has
  room for; `UIntSize = 65536`, a narrower unsigned int than the code's, with the
  same wrap-around (the theorem is for every width).

Deadlock checking is off where a program may really block for good: `pthread1`,
`filelock1` and `filelease1` with faults, `robust` and `pi` on several CPUs, the
scripts of `fileio1` and `oneshot` that poll for good (named in `ScriptEnds`),
the programs of `label_tests`, which stop when they have ended or in a `read()`
whose data was lost, and the runs that show a hang.

### Fairness

Weak fairness for every thread and process (the scheduler runs a task that can
run, and the freezer is thawed by the script), for the script (its commands
return), for killed tasks, which go away, and for the timers of `rw.c` and
`common.sh`. The models have no clock: a timer may fire at any moment while it
is set. There is none for spurious wake-ups, for
the revocation of a lease or for the outcome of a checkpoint or restart: these
may happen or not. In `pi.c` on one CPU a sleep lasts until the tasks that can
run have run; this is an assumption about time, without which the program's own
`usleep` would mean nothing.

## Proofs

`LabelHarnessProofs` is about `eventfd/run.sh` with a program of labels, for
every `IMAX`, under the hypothesis `Eventfd` (the settings of that script).
`Pthread4Proofs` is about `pthread4.c`, for every number of threads and of
iterations. `FileIO1Proofs` is about `fileio1.c` and its script, for every number
of records and of iterations, `EpollArithProofs` about the arithmetic of the
epoll programs. They use the assumptions named in the modules: `IMAXAssumption`,
`LabelAssumption`, `ScriptAssumption`, `NoImageAssumption`; `LoopAssumption`,
`ThreadsAssumption`; `CopyAssumption`, `NoneAssumption`; `UIntAssumption`.

**The handshake.** `ImageAtLabel` is not inductive: it does not say why the
program is at label `i` when the script freezes it. The invariant `HInv` says
where the program can be for each point of the script (`MeetInv`): while the
script waits for label `k` the program is *leaving* `k - 1` with
`checkpoint-done` still to be consumed, *coming* to `k` with no flag file left,
or *arrived*, with `checkpoint-ready` there; from the freeze to the thaw it is
arrived. `ImageInv` says which images and log copies exist and what is in them,
`ProgramInv` what the log holds, `VerdictInv` how the script's result came
about. There is one lemma per action. From `HInv` follow `TypeCorrect`,
`ImageAtLabelAlways`, `NoLabelSkippedAlways`, `VerdictAlways`, `SameLogAlways`,
and, with a step simulation (`AppStepRefines`, `ScriptStepRefines`),
`RefinesRendezvous`.

**The mutex.** `OneHolder` needs to know that nobody tries a second time before
everybody has tried once. `PInv` of a program, running or in an image, has the
owner of the mutex for each place a thread can be (`LockInv`), that the race has
one winner once somebody has tried (`WinnerInv`), that the second barrier
separates the two tries (`BarrierInv`), and the loops of `main()` (`MainInv`).
`IInv` has it of `prog` and of `image`, because a restart makes the one the
other. From it follow `TypeCorrect`, `OneHolderAlways`, `NoFalseFailAlways` and
`ReleasedAtExitAlways`.

**The copy.** `CopyComplete` speaks of the moment of `cmp` only. The invariant
`IInv` says of the running program that the file has every record it counts as
written (`FileInv`), of the image that the snapshot has what the image counts
(`ScriptInv`), and of a killed program that has not opened its file yet that its
image had not either (`Behind`). The last part is what makes the late steps of a
dying program harmless. Past its `fopen()`, which truncates, it writes records
where the restarted program writes the same. Before it, it can destroy only a
file that the restarted program will truncate as well. From `IInv` follow
`TypeCorrect`, `CopyCompleteAlways` and `SnapshotFitsAlways`.

**The arithmetic.** `PrevIndexCyclic`: the remainder by `~(num_efd - 1)`, taken
in unsigned int, is the index of the previous set as long as there are at most
half as many sets as an unsigned int has values; 0 - 1 wraps to the largest
value, whose remainder is `num_efd - 1`. `DefaultFits`: the default of `sk10k.c`
is even, and leaves room for the files that are open and the epoll set. When
`scandir()` fails the open files are not counted; the default is then even too,
and leaves room if they and the epoll set take at most half of the limit.

**Only model-checked.** All liveness properties, which are beyond this prover,
and everything of `EventfdRw`, `ProcessTree`, `FcntlTests`, `FutexTests`,
`OneShotTests` and `LabelTests`.

## Disagreements without a run

These were met while modelling:

* `eventfd/run.sh:92`, "FAIL if the status of the test program's original run
  isn't 0": line 94 drops the status, and a program that fails before its last
  label leaves the script polling. `Terminates` leaves that case out.
* `run-pthread1.sh:203`, "End test gracefully": `pthread1.c:69` signals once, and
  a signal sent when no worker waits is lost; the container then never exits.
  `ChainWakesAll` is stated for images in which the workers wait.
* `futex/README.txt:26`, "Failure is propagated via exit codes": `main()` of
  `robust.c` stops reading status bytes one early (line 403) and drops the
  children's exit statuses. `PiFailureReported` holds for `pi.c`.
* `eventfd/run.sh:129` prints PASS whatever `diff` finds, `trap '' ERR` being in
  force.
* The scripts of `process-tree/` print the container's status and drop it
  (`run-pthread1.sh:207`).
* `filelock1.c:270`: the handler waits for all children before it reports one.
* `filelease1.c` waits for one event of three, and its handler for premature
  exits reports normal exits as FAILED. `NoFalseFail` leaves it out.
* `run-fcntltests.sh:184` leaves `checkpoint-done` for the next iteration of
  `filelease2`. `filelease2.c:386` relies on a lease-break time that the wrapper
  does not set.
* `filelease2.c:139`, "ensure we still have the lease": the call of
  `test_lease()` in line 148 is commented out, so that a lease which the restart
  lost shows only if the kernel refuses `F_UNLCK`.
* `filelease2.c:300` counts a child after it was forked. `child_handler()` may
  run before, and then exits with 0, "Both children exited cleanly", when one
  has exited or even failed. `FailureReported` is stated once both are counted.
* `fsetown1.c:149` may read before `SIGIO` arrives and reports a false failure.
* `futex/pi.c:461`, "race between inc of waitq and futex()??": it exists on
  several CPUs; `NoFalseFail` and `ProgramEnds` leave that case out.
* `ptree1.c:182` says "created process tree": with `-d 2` the deeper levels may
  not exist yet.
* Tests of `ipc/` that look for a file *not* being there (`test-sem.sh:52` and the
  like) pass whatever the kernel does, because the program may not look at the
  objects of root (`Blind`).
* `run_sbits.sh:83` exits from a subshell of a pipeline: PASS is printed anyway.
* `run_sbits.sh:23` may find two pids, those of this test and of the one before,
  which was killed and not waited for; the checkpoint then fails.
* `run_simple.sh:41` ignores whether `simple/ckpt` made an image: without one the
  restart fails, as it should with one, and the script prints PASS (`Blind`).
* `taskfs/runtest.sh:39` and `:113` take the first of the pids sorted as text for
  the parent; 1000 comes before 999.
* `pidns/runtest.sh:36` kills the outer init only, whose descendants may write
  the `mypid.2` that is looked for.
* `cloop_once.sh` prints PASS independently of the restart.
* `epoll/scm.c:244` gives `recvmsg()` no room for the descriptors, so the child
  always exits with 2, and `exit(status)` in line 213 turns that into 0.
  `epoll/run.sh` does not run it.
* `epoll/cycle.c:283` asks for one of two events that are ready.
  `cycle.c:130` has room for three sets, `-c` accepts more.
* `epoll/sk10k.c:164`, "Opening %ld instead": that many cannot be opened.
* `fs/file.c:165` opens the file with `creat()`, for writing only, so that its
  `read()` always fails.
* `fs/fifo.c:165`: `ret` is 0 when `open()` fails, and so is the exit status.
* `fs/notify/dnotify.c:201` sets `fd` to 0, the descriptor of the log, which
  `out:` closes.
* `fs/dir.c` compares an array that it never fills.
* pthread functions return positive errors; `pthread1.c` to `pthread4.c` test
  several of them with `rc < 0`.

## Not modelled

* `sleep/`, `simple/`, `pty/`, `makeprocs/`, `counterloop/cloop_once.sh`: start,
  sleep, checkpoint, restart, look. What they show depends on real time or on the
  kernel alone.
* `eclone/`: argument checks of one system call. `smack/`, `selinux/`: policy
  decisions of the kernel.
* `runall.sh`: calls the suites in turn and tallies their statuses.
* `fs/dir.c`, whose comparison has no defined meaning, and the Python scripts of
  `fs/`, which fill and compare random directory trees.
* The labels of `scm.c` and `file.c` that are never reached.
* The container variants of `taskfs/`, which differ in what is mounted.
* Build files, `cr.h`, `clone.h`, `mysu.c`, `rewrite-cr-header.sh`: no state.
* `copy_data`, `data_compare` and the mount-option helpers of `common.c`.
* The spin lock around the log file (`libcrtest/log.h:13`): real-time children of
  different priorities share it on one CPU, and a high one may spin on a
  preempted low one. The models write log lines in one step.
* Time: ten seconds that must be enough for a child to block
  (`filelease2.c:388`), a sleep that a restart cuts short (`pi.c:520`).
* Reuse of process ids, on which `canceltimer` relies by not resetting `timerpid`.

## Plan

1. The log lock in `pi.c`; `runall.sh`.
2. Abstract specifications: one for the kill/restart loop (a program runs, is
   replaced by its image once per iteration, ends), implemented by
   `KillRestart`, `FcntlScript` and `FileIO1`; one for a lock handed over across
   a restart, implemented by `FileLock2`.
3. Proofs: `VerdictRight` of `ThreadInfo` for every number of threads (the
   barrier argument of `Pthread4Proofs` carries over); `NobodyLeft` for every
   tree; `OneHolder` of `FutexRobust`; `HandedOver` of `FileLock2`.
