# A TLA+ model of the RespOS kernel

RespOS (`src/os/src`) is a Unix-like kernel in Rust for RISC-V and LoongArch machines
with several harts. It runs Linux user programs: threads and processes, signals,
futexes, pipes, files on ext4, sockets. This directory holds TLA+ modules that model
its parts, TLC configurations that check them on small instances, and proofs checked by
TLAPS. Paths below are relative to `src/os/src`. `PROJECT.json` lists the parts, says
which lines every definition models, and names the hazards with the properties that
would catch them.

## 1. The parts and their modules

### Tasks and scheduling

| Module | Code | What it models |
|---|---|---|
| `Handoff` | `task/scheduler.rs`, `task/processor.rs`, TCB fields in `task/task.rs`, `arch/*/smp.rs` | The scheduling core of several harts, one step per lock section or atomic access. `pc[c]` is where hart `c` is, in the idle loop (`publish` … `dispatch`) or in kernel code for `cur[c]`. A task leaves its CPU through `hand[c]`; the idle loop publishes it, fetches and claims another under one lock, and restores it. Wakeups, stop and continue, termination requests, kicks and WFI interleave with that. |
| `ReadyQueues`, `PriorityQueues` | `struct Scheduler` | Real-time, normal and idle queues with bitmaps and `task_index`; and what they promise, one FIFO per rank. |
| `Futex` | `task/futex/*`, the signal sender of `task/task.rs` | WAIT split at every point where another CPU can come in, WAKE, REQUEUE, timeouts, signals, exit cleanup. `wakeDue` is the wake user code owes after it changed a word; `inflight` counts wakeups decided on and not yet made. |
| `ThreadGroup` | `task/task.rs`, `task/process.rs` | Threads of one process: thread exit, group exit, exec and clone, `take_snapshot` … `publish_zombie` and `begin_exec` … `finish_exec`. |
| `CloneExec` | `syscall/process.rs`, `task/task.rs`, `mm/memory_set.rs`, `task/aux.rs` | The failure paths of clone, vfork, execve up to its point of no return, robust lists; the ELF image and the initial stack. |
| `WaitChild` | `syscall/process.rs`, `task/task.rs` | wait4 and waitid, exit and stop reports, SIGCHLD, reaping, reparenting. |
| `Signals` | `signal/*`, `syscall/signal.rs` | Queues of thread and process, quota, masks, sigsuspend, sigtimedwait, handler frames, sigreturn, stop and continue. |
| `Terminal` | `fs/tty.rs`, `syscall/process.rs` | Line discipline and its readers; sessions, foreground and orphaned groups. |
| `Attributes` | `syscall/process.rs` | Ids, capabilities, limits, policy, nice and affinity, store by store. |
| `Clocks` | `syscall/time.rs`, `arch/*/timer.rs` | Sleeps, interval and POSIX timers, the timer-service hart, CPU-time accounting. |
| `Traps` | `arch/*/trap`, `mm/mod.rs`, `syscall/mod.rs` | Trap dispatch, emulated accesses, restarts, user copies and their faults. |

### Memory

| Module | Code | What it models |
|---|---|---|
| `Tlb` | `arch/loongarch64/smp.rs`, `arch/*/mm/page_table.rs`, `mm/memory_set.rs` | Which hart may hold translations of a space, the shootdown protocol slot by slot, retired frames, identifiers and their reuse, roots of exited processes. |
| `AddressSpace` | `mm/memory_set.rs`, `syscall/mm.rs` | Areas, entries and frames under mmap, munmap, mprotect, mremap, brk, faults, copy-on-write fork, exit, also when memory runs out half-way. |
| `FileMapping` | `mm/memory_set.rs`, `fs/file.rs`, `fs/page_cache.rs` | A file mapped by several spaces while it is truncated, punched, written and flushed. |
| `PageTables` | `arch/*/mm/page_table.rs`, `task/kstack.rs` | Trees with bit-encoded entries, the shared kernel half, kernel stacks. |
| `Allocators` | `mm/heap_allocator.rs`, `mm/frame_allocator.rs`, `mm/io_buffer.rs`, `src/vendor/respos_buddy_allocator` | Heap with magazines and interrupt contexts over the buddy allocator (splitting and joining of blocks), frame pool, I/O buffers. |
| `SharedMemory` | `syscall/ipc.rs`, `fs/special.rs` | System V segments over fork, exec and exit; memfd with seals. |

### Files and channels

| Module | Code | What it models |
|---|---|---|
| `FdTable` | `fs/fdtable.rs`, `syscall/fs.rs` | Descriptor tables, sharing, limits, close-on-exec; flock and fcntl locks. |
| `Namei` | `fs/namei.rs`, `fs/mount.rs`, `fs/dentry_cache.rs` | Path walks without locks against changes of names; dentry cache; mounts. |
| `Transfer` | `syscall/fs.rs`, `fs/file.rs` | read/write in all forms, sendfile, splice, tee, copy_file_range. |
| `InodeMeta` | `fs/ext4/inode.rs`, `syscall/fs.rs` | Owner, mode, deferred times, the lazytime registry. |
| `PageCache` | `fs/page_cache.rs`, `fs/file.rs` | Dirty pages, writeback, truncation, errors, power failure. |
| `DevNodes`, `Disk` | `fs/dev/*`, `drivers/*` | /dev/shm, loop devices; byte view of a block device, bounce buffers, SD card. |
| `Pipe`, `ByteQueue` | `fs/pipe.rs`, `fs/poll.rs` | Pipes and FIFOs with sleepers, signals, poll and resize; and what a pipe promises, one bounded queue of bytes. |
| `UnixSocket`, `Inet` | `net/*`, `src/vendor/smoltcp` | Stream sockets with half close and backlog; TCP, UDP and the listen table over the part of the vendored smoltcp that the loopback interface runs: the order of a poll, segments in flight, resets, closing. |
| `EventFds` | `syscall/special_fd.rs`, `fs/poll.rs` | eventfd, timerfd and epoll. |

How they interact. A blocking operation publishes `Blocked` with
`prepare_current_task_blocked()` and gives up its CPU with `switch_to_next_task()`;
`wakeup_task()` makes it Ready again and does nothing to a task that is still Running.
`Handoff` shows that the handover itself is sound; `Futex`, `WaitChild`, `Pipe`,
`UnixSocket`, `Inet`, `Signals`, `Clocks` and `EventFds` take those three operations as
steps. Whether an event can fall between the look at a condition and `Blocked` is up to
the caller: futexes, wait4, poll, epoll and sigtimedwait look once more after `Blocked`;
reads of an eventfd or a timerfd and the sleeps do not, and reads and writes of a pipe
publish `Blocked` under the lock of the buffer, so that data cannot be missed but a signal
can (`EfRead`, `EfSignal`, `TmSignalRace` and `PiEarlySignal` below). Group exit and exec wait for `has_cpu_owner()` to become false: `ThreadGroup`
takes from `Handoff` that a terminated thread without a CPU stays without one
(`QuiescentForever`). `WaitChild` starts where `ThreadGroup` ends, at
`publish_zombie()`. `AddressSpace` has one step per call under the lock of a space and
leaves to `Tlb` when other harts see the change and when a frame may be used again, and
to `FileMapping` what happens between a mapping and its file.

`MC*` modules name the values of constants for TLC. `MCMemory`, `MCProcess`, `MCFiles`
and `MCChannels` put several components into one run: the variable `part` chooses one in
the initial state, that component's specification runs, and the others stand still.
Scenarios are sets of situations a run starts from: which operations each task makes, in
what order where that matters, and which failures may happen.

A comment "mutant" marks an operator that changes the definition after it the way a
plausible bug would. It is part of no specification; with it in the place of the
original, TLC finds the property it belongs to violated.

## 2. Runs

| Run | Instance | Shows |
|---|---|---|
| `handoff_all` | 2 harts, 2 tasks, every operation | `TypeOK`; `SoleContext`: nobody shares a context and `cpu_owner` is exact; `QuiescentForever`: a terminated thread without an owner never gets one |
| `handoff_sched` | 2 harts, 2 tasks, one bound to hart 0 | `SchedulerAgrees`: queues and states agree outside the lock, nobody falls out of both or runs after its exit; under fairness `QueuedTaskRuns` |
| `futex` | 2 tasks on one word with all events, or 3 tasks with a requeue | `SleeperReachable`, `NoLostWake`, `SignalReachesSleeper`, `CountedWakeSucceeds` |
| `thread_group` | 2 threads and one to be created | `TeardownSafe` (one owner, the last thread ends the process, what is recycled under whom, exec leaves its caller, nobody returns from exit); under fairness `TeardownEnds` |
| `wait_child` | 2 waiters and a child; or a waiter of init, its child, and a child handed over | `NoMissedZombie`, `ReapedOnce` |
| `tlb` | 2 or 3 harts, 2 spaces, 3 frames, 2 identifiers, both architectures | `TranslationsCurrent`; under fairness `ShootdownCompletes` |
| `memory` | scenarios of the five other memory modules | `SpacesIsolated`, `MappingsCoherent`, `MemoryOwnedOnce`, `TablesHold`, `SegmentsExact`; the action property `SealsRefuse` |
| `process` | scenarios of `CloneExec`, `Traps`, `Signals`, `Terminal`, `Attributes`, `ReadyQueues`, `Clocks` | `ProgramsStart`, `TrapsContained`, `SignalsServed`, `TerminalOrdered`, `AttributesKept`, `ClocksServe`; `ReadyQueues` implements `PriorityQueues` |
| `files` | scenarios of the file modules | `DescriptorsExact`, `NamesHold`, `TransfersExact`, `MetadataReachesDisk`, `CacheDurable`, `DevicesExact`; the action property `NamesChange` |
| `channels` | scenarios of pipes, sockets and event descriptors | `PipesServe`, `UnixSocketsServe`, `InetServes`, `EventsServed`; `Pipe` implements `ByteQueue` |
| `handoff_cont` | 2 harts, 3 tasks, stop and exit | a violation, see below |
| `no_access` | one RISC-V process, mprotect | a violation, see below |

The invariants of `memory`, `process`, `files` and `channels` are the conjunctions at the
end of their `MC` modules. Their conjuncts are defined in the modules of the components,
each with a comment that says what it means. A behaviour of these runs is about one
component, the one `part` names, and the conjuncts of that component are checked in it.
The other components stay in a state that behaviours about them start from, where their
conjuncts are checked too.

Two runs state what the code says of itself and find a behaviour that contradicts it:

* `handoff_cont`: two concurrent `wakeup_stopped_task()` calls can queue a task after it
  exited, and `unreachable!("returned to exited task")` is reached.
* `no_access`: on RISC-V a page that mprotect() made inaccessible has no entry that
  `translate()` finds, which `debug_check_invariants()` and fork expect.

`handoff_all` and `handoff_sched` therefore differ in their operations: `SchedulerAgrees`
is about blocking, waking, yielding and exiting, and does not hold with stop and continue.

### Where the invariants do not hold

The invariants of `memory`, `process`, `files` and `channels` hold on the scenarios of
those runs, not on every program. Each MC module ends the scenarios of a component with
those in which TLC finds a conjunct violated by what the code does; they are outside
the runs, and giving one of them to the component's scenario constant (in place of its
`Main` set) shows the behaviour. These conjuncts are therefore statements about the code
only with the listed situations set aside:

| Run | Scenario | Fails | Situation |
|---|---|---|---|
| `memory` | `VmNoAccess` | `VmasAgree`, `CallsReturn` | access to a private page of a RISC-V process is taken away and given back |
| `memory` | `VmProtectShared` | `PrivateIsolation`, `ReadsOwnStores` | a page that was read-only at the fork is made writable by mprotect() |
| `memory` | `VmMoveShared` | `PrivateIsolation`, `ReadsOwnStores` | mremap() moves a page that waits for its copy after a fork |
| `memory` | `VmProtectFull` | `PtesOwned` | memory runs out while mprotect() copies the pages of a private file mapping |
| `memory` | `VmSharedFull` | `CallsReturn` | a shared anonymous mapping of more pages than there are frames |
| `memory` | `FmMapRace` | `MappedIsCached`, `NothingPastEnd` | the file is cut and grown again while a page is being mapped |
| `memory` | `FmPunchStore` | `WritableIsReserved` | a store into a hole that was punched under a writable mapping |
| `memory` | `FmGrowWrite` | `WritableIsReserved` | write() grows the file within a page that is mapped writable |
| `memory` | `FmPlainRace` | `FrameShowsFile` | a write to a file without a cache while its page is being mapped |
| `memory` | `FmPunchRace` | `UnsavedIsHeld`, `WritableIsReserved` | two holes are punched in one page that is being mapped |
| `memory` | `HpTwoOut` | `FailureIsReal`, `NoHeapDeadlock` | both harts run out of memory; one of them reports it |
| `memory` | `HpReports` | `NoHeapDeadlock` | a hart reports that memory ran out while the other allocates |
| `memory` | `MfFaultRace` | `CursorUndisturbed` | a fault reads through the cursor that a read() is using |
| `memory` | `ShVfork` | `RemovedSegmentReclaimed` | a vfork child and its parent exit with a removed segment attached |
| `memory` | `ShMunmaps` | `RemovedSegmentReclaimed` | a removed segment leaves by munmap() |
| `process` | `CxBadAddress` | `NoHalfChild` | the address for the number of the child is bad |
| `process` | `CxThreadExec` | `RobustReleased` | a thread that is not the leader execs while it owns a robust lock |
| `process` | `CxVforkThread` | `VforkReleases` | a vfork child creates a thread, and that thread execs |
| `process` | `TpRepeats` | `FaultNotRepeated` | the signal of a fault is ignored, or blocked on RISC-V |
| `process` | `TpTimeouts` | `TimedNotRestarted` | a socket gets a timeout while a call on it begins |
| `process` | `TpDontNeed` | `FutexWordRead` | the page of a futex word is discarded during the call |
| `process` | `TpUnmaps` | `NoKernelPanic` | a page goes away while its unaligned access is emulated |
| `process` | `TpOther` | `NoKernelPanic` | user code raises an exception trap_handler() has no arm for |
| `process` | `TpLaIllegal` | `FatalTrapEndsProcess` | an illegal instruction on LoongArch beside a running sibling |
| `process` | `Hidden` | `SgNextSignalWakes` | a signal that is ignored is pending before another |
| `process` | `Left` | `SgNextSignalWakes` | the thread a process signal chose blocks it |
| `process` | `Nested` | `SgHandlersNest` | two handlers on the alternate stack, one interrupting the other |
| `process` | `Resumed` | `SgMaskRestored` | SIGCONT without a handler ends sigsuspend() |
| `process` | `TwoWaiters` | `SgWaiterServed` | two threads wait for the same queued signal |
| `process` | `CnTwo` | `CnZeroMeansEof` | two readers of one terminal, or an interrupt key that empties the line a reader has seen |
| `process` | `CnSwitch` | `CnRecordsHold` | raw mode reads the bytes of a finished line |
| `process` | `CnLeftOver` | `CnOneLine` | bytes of raw mode are left before the first line |
| `process` | `CnIntr` | `CnSignalEndsRead` | the interrupt key while a reader waits |
| `process` | `JcMoves` | `GroupInOneSession` | a child calls setsid() between the checks and the store of setpgid() |
| `process` | `AtTwoLimits` | `LimitsOrdered` | two changes of the limit of descriptors at once, or one that raises it |
| `process` | `AtTwoUsers` | `HardLimitFalls` | two threads lower one limit at once |
| `process` | `AtTwoPolicies` | `PolicyHasPriority` | setscheduler() and setparam() of one task at once |
| `process` | `TmSignalRace` | `TmSignalEndsSleep` | the signal comes between the last look and Blocked |
| `process` | `TmPeriodic` | `TmNoDrift` | a periodic timer is looked at late |
| `process` | `TmItimerRace`, `TmReused` | `TmPeriodicRuns` | setitimer() replaces a timer that the service hart is firing, or a process arms one whose number the service hart found unused |
| `files` | `FdTwoExits` | `FdNoOrphanTable` | the two sharers of a descriptor table exit together |
| `files` | `FdUndoRace` | `PairAllOrNothing` | a descriptor pipe2() is about to take back was closed |
| `files` | `FdFlagRace`, `FdAcceptRace` | `FdTouchesOwn` | a descriptor is closed between the two halves of F_SETFD or of close_range(), or is closed and opened again before the undo of accept4() |
| `files` | `NmUnlinkRace`, `NmFaultRace` | `CacheTrue` | a look-up that has asked the file system adds its entry after an unlink of the same name, or after the creation it found was taken back (then `OpenedStays` fails, too) |
| `files` | `NmLookupRace` | `MountSeen` | two look-ups add a dentry each for the mount point |
| `files` | `NmBusy`, `NmBusyRace` | `UmountIdle` | a file is open on the mount, or another task mounts below it after the check |
| `files` | `NmHalf` | `OpenedIsMade` | the file is opened before it has its owner |
| `files` | `TrGone` | `TrReported` | a pipe with little room; a full file |
| `files` | `TrFaultsLate` | `TrReported` | the buffer goes away after the first chunk |
| `files` | `TrShared` | `TrCursorKept` | a read moves the shared cursor during a copy that uses it |
| `files` | `TrLongTee` | `TrInOrder` | a tee of more than fits, and a reader |
| `files` | `ImTwoSetters` | `TimesReachDisk` | two calls take the times in memory, and the second to store them undoes the first |
| `files` | `ImTwoFlush` | `SyncWrites`, `TimesReachDisk` | two that write out, and a reader whose batch has the number of one that is gone |
| `files` | `DnLateCreate` | `ShmReachable` | a directory of /dev/shm is removed while a file is created in it |
| `files` | `DnLoopRace` | `LoopInPlace` | two users of the loop device move the cursor of its file |
| `files` | `PcSelfLock` | `NoSelfLock` | the file is cut after the batch was gathered, and sync_inner() cuts the lower file with the writeback lock held |
| `files` | `PcZeroPage` | `ReadsCoherent` | a page that is about to be written over is in the map, zeroed, before the copy |
| `files` | `PcToldTwice` | `ErrorToldOnce` | sync_file_range(), an O_SYNC write or a punch returns its own error and leaves the cursor behind, and fsync() returns it again |
| `channels` | `PiPartReads` | `SleeperHasCause` | of two sleeping readers a write wakes one, which takes a part of the bytes |
| `channels` | `PiGrows` | `SleeperHasCause` | a larger pipe does not wake its sleeping writer |
| `channels` | `PiEarlySignal` | `SignalEndsCall` | a signal comes before read() or write() is Blocked, and there is no second look |
| `channels` | `PiLateNotify` | `PollerWakes` | a notify on its way from an earlier read or write takes the registration before the poller is Blocked |
| `channels` | `PiOpenAlone` | `OpenMeansMet` | a signal was pending before the open, or a wake of an earlier sleep comes late |
| `channels` | `PiOpenGivesUp` | `HangUpSeen` | an interrupted open takes its count back and leaves the side open |
| `channels` | `UsCloseRace` | `UsHangUpWakesWriters` | the peer goes between the look at the flags and the lock, and the writer queues up behind it |
| `channels` | `UsTwoWriters` | `UsSleeperHasCause` | of two sleeping writers a read wakes one, which leaves room |
| `channels` | `UsTwoAcceptors` | `UsSleeperHasCause` | the acceptor that is woken has timed out, and the connection waits for another call |
| `channels` | `UsLateRoom` | `UsLastLook` | write() reports the deadline or the signal without a retry when room has come |
| `channels` | `TcpOverlap` | `TcpNoLockCycle` | connect() on one hart meets a poll on another |
| `channels` | `TcpLongBye` | `TcpEofComplete` | the sender closes while the receiver's buffer is full |
| `channels` | `TcpShort` | `TcpRefusalTrue` | the server closes before connect() looks |
| `channels` | `TcpStray` | `TcpNoStrayWake` | a task leaves its call while a poller is about to wake it |
| `channels` | `TcpUntold` | `TcpErrorTold` | a signal ends connect() after another thread saw the refusal |
| `channels` | `UdBinds` | `UdPortOnce` | two sockets are bound to a port at the same time |
| `channels` | `UdFault` | `UdConsumedReported` | the second message header of recvmmsg() cannot be written |
| `channels` | `UdOversized` | `UdConsumedReported` | a datagram is longer than the bounce buffer |
| `channels` | `EfRead` | `EfSleeperServed` | the event comes after a reader's look and before it is Blocked |
| `channels` | `EfSignal` | `EfSignalEndsWait` | a signal comes after a reader's look and before it is Blocked |
| `channels` | `EfAdds` | `EpInterestKept` | an interest is added while another thread scans |
| `channels` | `EfLate` | `EpSleeperServed` | an interest is added while another thread sleeps |
| `channels` | `EfDrained` | `EpSleeperServed` | an event is consumed and raised again between two looks of a sleeper |

### Bounds and why they are enough

Two harts and two tasks are what it takes for a task to be saved on one hart while
another claims, wakes or terminates it; a third task is needed only for two continuing
senders of a third. Futex runs need two waiters to tell a wake of one from a wake of all,
and a third for a requeue that wakes one and moves two; `MaxInflight = 1` bounds wakeups
on their way to one task. A thread group needs an owner, a sibling and a late-comer.
`WaitChild` needs two waiters for the race to reap, and a child of init's own so that
init sleeps while another is on its way. `Tlb` has two spaces and two identifiers so that
an identifier is reused while entries of its former owner are about, and a third hart
in one scenario so that a shootdown claims several slots while another does. `ReadyQueues`
has two queues per class, so that a wrong bit can pick a wrong non-empty queue.

The scenarios of the composed runs fix programs of two to six calls for two or three
tasks, written so that the interleavings the hazards name occur: calls that fail at each
of their steps, limits of one or two (buffer sizes, backlogs, quotas, free frames), and a
second task that acts between any two steps of the first.
Two bounds of `channels` say how many harts a scenario has. The kernel is not preempted,
so on one hart a call runs until it sleeps or returns: the event scenarios with blocking
reads of an eventfd or a timerfd have one hart (`harts`), where nothing can come between
the last look and `Blocked`; with more it can, see `EfRead` and `EfSignal`. In the TCP
scenarios without `overlap` two calls do not enter the sections that hold both the socket
set and the interface at the same time; `Harts2` lets sends and receives overlap, and
`TcpOverlap` shows what connect() does there. Symmetry is used in `futex` and
`wait_child`, which have no liveness property. Deadlock is checked in the handoff and
futex runs; in the others the system may really stop: threads have exited, programs of a
scenario have ended, or everyone waits for an input that need not come.

### Fairness

* `Handoff`: a hart in kernel code goes on, and the scheduler lock, a spin lock with
  short sections, is obtained by a hart that keeps trying (strong fairness). The timer
  interrupts every hart periodically (each trap re-arms it, `set_next_ti_trigger()`), so
  an idle hart leaves WFI and a running task is preempted. That makes a lost kick
  harmless; `QueuedTaskRuns` fails without it.
* `ThreadGroup`: a thread in the kernel goes on, a runnable thread gets a CPU
  (`QueuedTaskRuns`), a thread in user mode or in a yield loop leaves its CPU.
* `Tlb`: kernel code goes on (weak fairness of a hart's kernel steps), and a pending
  interrupt is taken by a hart that keeps coming back to where it is enabled. User code
  need not do anything.
* No other run states liveness.

## 3. Proofs

Every theorem holds for all values of the constants that satisfy the named assumptions.
Each rests on an inductive invariant that TLC checked on the instances above before it
was proved, on one lemma per action that the step preserves it, and on a last step that
combines them by temporal logic.

**`HandoffProofs`** — any set of harts and tasks, any affinities, any choice of
operations: `Spec => []TypeOK`, `Spec => []SoleContext`, `Spec => QuiescentForever`.
Assumptions: the harts are numbers and `NoCpu` is none of them; `NoTask` is no task;
affinities are sets of harts. `SoleContext` is not inductive: an action takes a context
from a slot (`cur`, `hand`, `nxt`) and must know that the hart's other slots are empty,
which follows from where it is in its code. `PcInv` says this for every `pc`.
`QuiescentForever` follows, because the only step that makes a new holder is
`try_claim_running_on_cpu()`, which looks at the termination request and the owner.

**`ThreadGroupProofs`** — any set of threads: `Spec => []TeardownSafe`, and its parts
`OneTeardown`, `LastThreadEndsProcess`, `ExecLeavesCaller`, `ExitNeverReturns` and
`RecycledUnderStragglersOnly` as theorems of their own. Assumption: the leader is among
the threads that exist at the start. A terminated thread is on a CPU only while a teardown
that has it in its snapshot still waits (`Awaited`); so whoever begins an exec or exit
while the process is Running was not terminated and nobody else owns the process
(`Exclusive`). Threads that still act are in the group until it is cleared (`Enrolled`),
and the group is contained in owner, snapshot and late-comers (`Snapped`). The scheduler
enters through `dispatch`, which gives no CPU to a terminated thread;
`QuiescentForeverHolds` justifies it.

**`FutexProofs`** — any set of tasks, words, requeues and scenarios:
`Spec => []SleeperReachable`, `[]SignalReachesSleeper`, `[]CountedWakeSucceeds`,
`[]NoLostWake`. `WaitInv(t)` says for every place in the wait where its queue entries are,
whether `FUTEX_WAITS` still has it, and who owes it a wakeup; the four properties are
about different moments of that account. Lemmas about `Keep` and `Removed` say what
filtering a queue leaves, without induction over its length.

**`WaitChildProofs`** — any number of children and waiters:
`Spec => []NoMissedZombie`, `Spec => []ReapedOnce`. The invariant says in which of the
sets of its parent a child is for each point of its exit, which reports are owed to which
waiter (`stale`, `inflight`), and how often a child's time was added. `ReapedOnce` needs
that a child leaves `children` and enters `exited_children` under one lock and that
automatic reaping and a waiter exclude each other there.

### Only model-checked, and why

* `QueuedTaskRuns`, `TeardownEnds`, `ShootdownCompletes`: liveness under fairness is
  outside what the installed provers handle.
* `RefinesPriorityQueues`, `ImplementsByteQueue`: the mapping is through sequences that
  are filtered and concatenated; the facts needed are inductions over their length.
* The invariants of the composed runs: their scenarios are programs, so the invariants
  speak of lists of steps still to do, and many of the operators they use (path walks,
  sums over sets, tree walks of page tables) are recursive. The exhaustive check of the
  scenarios is the evidence there.
* `SchedulerAgrees` and `TranslationsCurrent`: checked on two and three harts.

## 4. Not modelled

* Machine level: register images, the context-switch assembly (one step), boot,
  platform constants, and memory ordering; the models are sequentially consistent.
  `interruptible` and `interrupted` are Relaxed atomics; the lock of the pending set,
  which waiter and sender both take between their store and their load, orders them.
* `Tlb`: RISC-V gives a data frame back at once (`retire_data_frame`), before the remote
  fences, so `FreedFrameUnreachable` is stated for LoongArch. One user page per space
  stands for all; intermediate tables are in `PageTables`.
* `Futex`: robust lists (they are in `CloneExec`), bitsets other than "any", the value
  operation of WAKE_OP, page faults on the word.
* `ThreadGroup`: failures before `begin_exec()` (in `CloneExec`). `TeardownEnds` assumes
  that no `clone_` is under way during a teardown: a new thread that is terminated before
  `add_task()` stops the kernel at its assertion.
* `WaitChild`: WNOWAIT, waitid without WEXITED, process-group selection.
* Vendored libraries: of lwext4 only the default modes of a new inode and the calls the
  kernel makes are modelled, its on-disk format is not; of smoltcp what a loopback
  connection between two sockets goes through, without retransmission, windows, and other
  interfaces; of the buddy allocator the splitting and joining of blocks.
* ramfs and proc files (formatting of state kept elsewhere), network devices, the
  asynchronous lock (it has no user), the tid free list, performance counters, user
  programs.

Met while modelling and not runs: the assertion of `add_task()` can meet a task that
`request_termination()` has just marked Exited; a futex entry that was requeued outlives
its wait when a signal or timeout ends it, because the cleanup uses the old key; and the
address space can be recycled while a thread that left the group in `task_exit()` is still
on its way off a CPU, which is why `RecycledUnderStragglersOnly` names those threads.
