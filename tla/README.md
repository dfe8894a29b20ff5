# Verification of the QuackOS kernel

QuackOS is a Rust microkernel (`src/os`) with user-level style servers (file
system, memory, processes) and a Linux personality on top. This directory holds
TLA+ models of its own core logic, the TLC configurations that check them, and
TLAPS proofs. `K` below stands for `src/os/common/src/kernel`, `U` for
`src/os/common/src/usr`, `A` for `src/os/arch/aarch64/src/base/mm` and `L` for
`src/os/liblinux/src`.

## 1. Inventory

| Component | State it keeps | Operations | Interacts with |
|---|---|---|---|
| scheduler (`K/sche/context.rs`, `queue.rs`) | `CURRENT`, the ready queue, a `ThreadState` per thread | `schedule`, `block_current`, `wake`, `bootstrap_idle` | called by every blocking path and by the timer interrupt |
| thread table (`K/sche/thread.rs`) | 256 slots with generations, TCBs | create, destroy, look up | scheduler, process calls |
| IPC channels (`K/ipc/channel.rs`) | two wait queues per channel | `match_sender`, `match_receiver`, `cancel_receive` | scheduler, transfer, timeouts |
| transfer (`K/ipc/transfer.rs`) | one IPC buffer per thread index below 32 | `deliver`, `copy_short` | channels |
| notifications (`K/ipc/notification.rs`) | pending flag and wait queue | `signal_notification`, `wait_on_notification` | scheduler, interrupts |
| IPC timeouts (`K/timer.rs`) | deadline-ordered queue | `set_ipc_timeout`, `cancel_ipc_timeout`, `check_timeouts` | timer interrupt, receive path |
| interrupts (`K/irq.rs`) | line table | register, ack, dispatch | notifications, timer, scheduler |
| native system calls (`K/trap/native.rs`) | none of their own | 40 calls | everything above |
| capabilities (`K/cap`) | derivation table, one slot table per process | mint, derive, revoke, move, delete | native system calls |
| address spaces (`K/bmm`) | table of registered page tables with generations | create, clone, register, unregister | process calls |
| page tables and frames (`A/page_table.rs`, `A/mod.rs`) | entries, the list of tables a handle owns, the allocation bitmap | map, unmap, remap, drop, `alloc_page`, `free_page` | address spaces, page calls |
| file server (`U/fs/server.rs`) | open files, mounted ext4 | one receive/dispatch/reply loop | IPC channel 1 |
| file system (`U/fs`, `U/fs/ext4`) | dentries, inodes, page cache, bitmaps | lookup, read, write, allocate | file server |
| memory server (`U/mm`) | VMAs, allocator | mmap, munmap, brk, page fault | nothing: no production caller |
| process server (`U/proc`, `U/task`) | process table, zombies | fork, exec, exit, wait | nothing: no production caller |
| Linux personality (`L`) | per process a `TaskStruct`: descriptors, pipes, brk, child pids | Linux calls as native calls and requests to the file server | file server, process and page calls |

What is hard here. The kernel is single-core and masks interrupts while it runs
(`K/trap/mod.rs`), so data races are excluded; what remains is the order in
which whole system calls, interrupts and resumptions follow each other. Every
call of `schedule()` is such a point: the state a thread checked before it
blocked can be different when it runs again, a wake-up can come from a sender,
a receiver, a signal or the clock, and a thread that is enqueued twice or not at
all corrupts or hangs the system long after the step that caused it. Fixed
capacities (wait queues 32, ready level 64, buffers 32, threads 256,
derivations 256) make "full" a reachable state whose error is often dropped.

The properties that make each component correct:

* scheduler: the ready queue is exactly the Ready threads, once each; a Ready
  thread eventually runs;
* channels and notifications: a waiting partner is always found; a thread that
  sleeps is in the queue its state names; a thread resumes for one reason;
* timeouts: a receive whose deadline passed leaves nothing behind;
* wait queues: the ring buffer is a FIFO;
* calls: a call returns, with the reply to it;
* capabilities: revocation reaches all that was derived, rights only shrink;
* processes: an exit is never missed by the parent that waits, the kernel does not
  stop for good because of wait4 alone, no stale id reaches a new thread;
* address spaces: one owner each; frames are mapped once, allocated while mapped,
  freed once, and lost only where we know it;
* open files: a descriptor that was not duplicated owns its server file; what is
  open at the server has a name somewhere.

## 2. Plan

1. `Scheduler`, `KernelIpc` (done): the rendezvous core with its runs and
   proofs.
2. `WaitQueue` against `BoundedFifo` (done): the ring buffer refines a FIFO.
3. `Capabilities` (done): derivation tree, CSpaces, revocation.
4. `Lifecycle` (done): thread slots, spawn, clone, exec, exit, wait4, address
   spaces, page tables and frames.
5. `LinuxTask` (done): descriptors and pipes of Linux processes against the
   server's table of open files.
6. Left: device interrupt lines with `KernelIpc`; ext4's bitmaps.

Every safety property of a passing run has a theorem, and so has every refinement
(section 6). Worth stating next: that `KernelIpc`, with the file server and one
client at a time, implements the request and answer of `LinuxTask`.

## 3. The modules and the code

**`Scheduler`** (`K/sche/context.rs`, `queue.rs`, part of `timer.rs`). A scheduler
state is a record of the `ThreadState` and `IpcState` per thread, the ready queue
and `CURRENT`. `Wake`, `Block`, `Schedule` and `WakeTimedOut` are functions on
such records, because one kernel step can make several of these calls with
interrupts masked. Two details of the code are kept because they matter:
`schedule()` with an empty ready queue returns to its caller whatever the
caller's state is, and `wake()` does not look at the state of the thread it
wakes. All production threads have priority 128, so one level of the
256-level queue is populated and the queue is one bounded FIFO.

**`Queues`** holds the two sequence helpers of the deadline queue (ordered insert,
removal of a thread).

**`KernelIpc`** extends both. Its variables are the wait queues of the channels
(`sendq`, `recvq`), `TIMER_QUEUE` (`timerq`), the notifications (`signaled`,
`notifyq`), the IPC buffers (`buf`), and per thread where it continues (`pc`),
what its last receive returned (`ret`) and, for the file server, the request it is
answering (`owed`). `wakes` is auxiliary: it counts the events that completed
the wait a thread is in and no action reads it. An action is what the kernel
does between two points at which another thread may run:

| Action | Code |
|---|---|
| `SysSend`, `SendReturns` | `sys_ipc_send`, up to and after `block_current` |
| `SysRecv`, `RecvReturns`, `RecvTimesOut` | `sys_ipc_recv`, `sys_ipc_recv_timeout` |
| `CallRecv` | the receive phase of `sys_ipc_call`, `sys_ipc_call_timeout` |
| `ServerRecv`, `ServerReply` | `kernel_recv`, `kernel_send` in `FsServer::run_ipc_loop` |
| `NotifySend`, `NotifyWait`, `NotifyReturns` | the notification calls |
| `Yield`, `TimerIrq` | `sys_yield`; `dispatch_irq` for the timer |

Abstracted: message contents (a message is its writer and whom it answers), the
clock (`set_ipc_timeout` puts a deadline anywhere in the queue, and an interrupt
finds any prefix of it expired), register frames. The native calls make no
capability check (`native.rs:323`), so neither do the actions. A panic of the
kernel is a state without a step.

**`Rendezvous`** is what the IPC promises its callers, without scheduler, queues,
call phases or deadlines: per channel the set of waiting senders with their
messages and the set of waiting receivers, per notification the waiters and the
pending signal, per thread the last message handed to it. A thread that waits
nowhere sends, receives or awaits a signal, and either meets a partner or waits;
a waiting receiver may give up. `KernelIpc` maps its queues to these sets
(`MeetSenders`, `MeetReceivers`, `MeetWaiters`); every other step of the kernel is
a stutter.

**`BoundedFifo`** is what a wait queue promises; **`WaitQueue`** is the ring buffer
of `K/ipc/channel.rs` with its `head`, `tail`, `count` and the compaction loop of
`remove_by_tid`. `KernelIpc` uses sequences for its wait queues; this refinement
is what justifies it.

**`Capabilities`** (`K/cap/derive.rs`, `cspace.rs` and system calls 25 to 29). Its
variables are the derivation table, the set of processes that have a CSpace, and
the slots. Each system call is one action; a call that enters the table and then
fails leaves its entry there, as in the code. `Reached` is what
`revoke_recursive` marks, stated as a least set, so that the module has no
recursion; `Ancestors` likewise for `check_chain_recursive`. Table indices
start at 1. Abstracted: the type and number of an object are one value, rights
are a set and not a bit mask.

**`Lifecycle`** (process calls of `K/trap/native.rs`, `K/sche/thread.rs`, `K/bmm`,
`A`) extends `Scheduler`. A thread id and an address-space id are a slot and a
generation, as in the code; a slot is taken lowest first and its generation
advances. Its variables are the scheduler's record, the TCBs (`tcb`), whether a
thread is inside the loop of `sys_wait4` or is the file server (`pc`), the two
generation tables, the registered page tables (`vm`), the allocation bitmap
(`live`) and why the kernel stops, if it does (`halt`).

| Action | Code |
|---|---|
| `CreateThread`, `Spawn`, `SpawnFull` | `sys_create_thread`, `sys_spawn`, also with a full thread table |
| `RegisterHandler`, `Clone`, `CloneFull` | `sys_register_linux_handler`, `sys_clone` |
| `Exec`, `ExecFirst` | `sys_exec`, and its stop for bash's own address space |
| `MapPage`, `UnmapPage`, `Mprotect`, `AssertMapped` | the page calls and the assertions in `unmap` and `remap` |
| `Exit` | `sys_exit_thread` |
| `Reap`, `WaitForChild`, `NoChild` | one turn of the loop of `sys_wait4` |
| `Ipc`, `Serve` | a program's IPC or notification call; `kernel_recv` and `kernel_send` of the file server |
| `Yield`, `Tick` | `sys_yield`; the timer interrupt, without and with a deadline that passed |
| `OutOfMemory`, `Halted` | the panics of a failed allocation, and the loops the kernel ends in |

A frame is named by the allocation that made it (for which thread or address
space, for which page), so that "freed twice", "mapped twice" and "lost" are
visible and physical addresses are not needed. Two details of the code decide
what is freed: tables made through the borrowed view of `sys_map_page` are on no
tracker list, and dropping a page table frees only pages that EL0 may access.
A call that fails and undoes everything changes nothing and is no action.
Threads sleep in wait4 and in IPC. Of IPC the module has what the thread table
sees, `IpcStep`: a partner that sleeps may be woken, and the caller goes on or goes
to sleep; which partner it is and with what message is `KernelIpc`'s subject, so
here it is any. The boot thread, `Boot`, is the file server and starts asleep.
When nobody is ready, `schedule()` returns into the thread that has just blocked:
in wait4 the loop then turns for ever with interrupts masked (`halt` is *spin*),
and in IPC the call goes on although it is parked (*stray*), which is finding 3 and
is followed in `KernelIpc`; `Lifecycle` stops there. An exit with nobody ready ends
in the `wfi` loop (*idle*).

**`ProcessTree`** is what the thread table promises of a thread's life: born once, to
a parent that lives or to none, exited once, then collected once, by that parent.
`Life` and `ParentOf` of `Lifecycle` map slots, generations and thread states to it:
an id without a thread is *gone* if its slot's generation has reached it, and
*unborn* otherwise.

**`LinuxTask`** (`L/fs.rs`, `fd_table.rs`, `task.rs`, `proc.rs`; `U/fs/server.rs`,
`file.rs`). Per process the descriptors and pipe counts of its `TaskStruct` and
the system call it is in; for all of them one table of open files, for the server
opens every file for process 0. A Linux call is one step up to its first request
and one step between an answer and the next request; request and answer are two
steps, since `sys_ipc_call` sends on the channel that all processes share and then
waits on it:

| Action | Code |
|---|---|
| `Request`, `Overlap` | `sys_ipc_call`, while nobody or while another process waits for an answer |
| `Serve` | one turn of `run_ipc_loop`: the answer to whoever waits, one of the actions marked with * |
| `OpenAt`, `Opened`*, `OpenFails`*, `OpenAtAlloc`, `OpenAtFull` | `sys_openat` |
| `NewFstatAt`, `Stated`* | `sys_newfstatat`, after its `fs_open` |
| `CloseConsole`, `ClosePipe`, `CloseFile`, `Closed`* | `sys_close`; `Closed` also ends the other calls |
| `SetPos`, `PosSet`*, `SeekFails`* | `sys_read`, `sys_lseek`, `sys_fstat`, `sys_getdents64` of a file |
| `Execve`, `Sized`*, `SizeFails`*, `ExecRead`*, `ExecReadFails`*, `ExecClosed`*, `ExecDone`, `ExecFails` | `sys_execve` |
| `Dup`, `Dup3`, `DupFd`, `Pipe2`, `Clone`, `Exit` | the calls that ask the server nothing |

A request made while another process waits is handed to that process as its answer
(finding 1). What the code does next has no bounds: `sys_read` copies as many bytes
into its caller's memory as the first words of the request, taken for an answer, say
(`L/fs.rs:72`). So `Overlap` sets `crossed` and the model stops there. Everything
`LinuxTask` claims is about executions up to their first overlap: between the
requests of one call every step of the other processes is allowed, in any order, as
long as no request is made before the answer to the last. (Two requests of which
the first is still parked as a sender count as overlapping too, though the code mixes
them up only later.)

`shared`, `uneven` and `lost` are histories that no guard reads; the properties use
them to say where the code is known not to hold: `dup`, `dup3`, `F_DUPFD` and `clone`
give a fid a second name without telling the server, `dup` and `dup3` do not count
pipe ends, and `exit`, `exec` and `dup3` close nothing. A fid leaves `shared` when
the server opens it again and nobody names it any more. Counts wrap as a `usize` does
in the release build.

## 4. The runs

| Run | Instance | What it shows |
|---|---|---|
| `peers` | 3 threads with every untimed call and 1 that polls, 2 channels, 1 notification, wait queues of 2 | ready queue and wait queues agree with the thread states; no missed rendezvous; one cause per return; a full queue is full of waiters; the inductive invariant |
| `clients` | the file server, 2 calling clients, 1 polling thread | a call returns, a Ready thread runs (liveness) |
| `deaf` | timed calls and receives nobody answers beside waits for signals, 1 thread that polls and signals | scheduler, wait queues and deadline queue stay consistent (the inductive invariant), a receiver that gave up leaves no place behind, `Rendezvous` is implemented |
| `waitqueue` | ring of 4, 3 threads, repeated entries | the ring has no holes and implements the FIFO |
| `capabilities` | 3 callers, room for 2 CSpaces of 3 slots, 4 derivations, 2 children, 1 right (held or not) | revocation reaches what was handed out, hits nothing beside and is final, rights shrink, no duplicates |
| `processes` | the file server and 3 thread slots, the second used twice, 3 address-space slots, the third used twice, one page of liblinux, program and heap, 1 page or IPC call | no lost wake-up of wait4, no stop because of wait4 alone, frames neither shared, dangling nor freed twice, only the known leaks, no id given out twice, `ProcessTree` is implemented, wait4 returns (liveness) |
| `files` | 2 processes, 5 system calls, 2 server entries, 2 free descriptors, 1 pipe, files of one and two payloads | up to the first overlap: undisturbed descriptors and programs, nothing open without a name but what is dropped, pipe counts; calls end unless a request overlaps (liveness) |
| `two_clients`, `timeout`, `idle`, `waitqueue_full`, `revoked` | small | the five findings below |

Why the bounds are enough to be interesting. In `peers` three threads on two
channels with queues of two give every combination of parked sender, parked
receiver, full queue, pending signal and preempted call, with a bystander on
each. In `deaf` one channel carries timed calls to a thread that takes requests and
never answers and the other only timed receives, so that deadlines expire alone,
together and in either order while others wait for messages or signals; its wait
queues of three places fill up when the receivers that gave up are not taken out. The
refinement of `Rendezvous` is checked there only, since on the state space of
`peers` it does not finish in time; the proof covers both. The ring of four wraps around in every position with one, two, three and
four entries. Four derivations give a chain of depth four, a full parent with a
rejected child, a full table; three slots hold a chain of three at once and give a full CSpace; a third caller
finds no CSpace. In `processes` three slots give a parent with two children, a
grandchild whose parent is gone, a full thread table, and a slot reaped and used
again; three address-space slots give exec a spare one and none; one page call
gives an untracked heap table, a page without EL0 access or a hole, which then
meets every clone, exec and exit, and one IPC call a child asleep while its parent
waits for it, woken by the server, a tick or nobody. In `files` five calls are enough for one
process to open, share by clone, close and reopen a fid while the other loads a
program, and two server entries for the table to be full. Symmetry is used in `capabilities` only: its processes
are interchangeable, and no liveness is checked there.

Fairness (`FairSpec`). Weak fairness of `KernelStep`: the CPU does not stop in the
kernel. Weak fairness of `UserCall \/ TimerIrq`: whoever runs in user mode comes
back to the kernel, by its next system call or by a tick. This is the weakest
assumption that serves both kinds of platform, and the code does not secure it by
itself: on aarch64 nothing arms the timer before its first tick, line 30 is never
enabled at the interrupt controller (`gic_enable_irq` refuses lines below 32) and
`dispatch_irq` does not end it, so there the kernel is cooperative and the
assumption is one about programs. Safety does not depend on it: the models allow a
tick at every point in user mode, and no liveness property needs one: that a timed
receive which nobody answers comes back would, and is not claimed. In `Lifecycle`,
strong fairness of `Yield` is that the running program passes the CPU on again and
again (by `sys_yield` or a tick), and weak fairness of the loop of `sys_wait4` and of
the file server is that kernel code keeps running. In `LinuxTask`, weak
fairness of `Continue(p)` and of `Serve` is that a process inside a system call, and
the file server, are scheduled (`ReadyRuns` of `KernelIpc`). Deadlock checking is on in every passing run but
`files`, where every process may have exited or the bound on calls is used up.

## 5. The findings

1. `two_clients`: requests and replies travel on one channel, so with two
   clients of the file server a call can return the other client's request or
   reply.
2. `timeout`: a deadline that passes after the message was handed over enqueues
   the receiver a second time.
3. `idle`: when nobody is ready, `schedule()` returns into the thread that has
   just blocked, and a wait returns without a signal.
4. `waitqueue_full`: removing the head of a full ring leaves a hole, because the
   compaction loop starts on the tail and does not run.
5. `revoked`: the rights look-up for IPC reads the slot and not the revocation
   mark, so a derived capability outlives the revocation of its ancestor.

Findings 2 to 4 also bound what can hold: the passing IPC runs have a thread
that only polls (as the shell does with `sys_yield`), `deaf` has deadlines that
no message races, and `waitqueue` does not remove the head of a full ring
(`FullRemoval = FALSE`).

## 6. The proofs

| Module | Theorem | For every |
|---|---|---|
| `KernelIpc_proofs` | `TypeCorrect`, `RendezvousNeverMissed` | set of threads, programs, capacities, timeouts included |
| `SchedulerSafety_proofs` | `InvariantHolds`, `ReadyQueueExact`, `OneWakePerWait`, `RefusedOnlyWhenFull`, `KernelImplementsRendezvous` | the same, timeouts included where nobody else sends on the channels of a thread that sets them, beside a polling thread |
| | `SleepersAreFound` | the same, for programs without timeouts |
| `WaitQueue_proofs` | `RingHasNoHoles`, `RingIsFifo`, `RingTyped` | capacity and set of threads, with `FullRemoval = FALSE` |
| `Capabilities_proofs` | `CapInvHolds`, `CapsTyped`, `MarksTellChains`, `RightsShrink`, `HeldOnceOnly`, `RevocationIsExact` | number of processes, slots, rights, derivations and children |
| `Lifecycle_proofs` | `LifeInvHolds`, `TablesTyped`, `SchedulerStaysConsistent`, `ExitNeverMissed`, `StopsOnlyForIpc`, `SpacesHaveOneOwner`, `IdsNeverReused`, `ThreadsLiveOnce` | set of thread and address-space ids, pages, bound on page and IPC calls |
| `LifecycleMemory_proofs` | `MemInvHolds`, `NoDanglingFrames`, `NoDoubleFree`, `LeaksAreKnown` | the same |
| `LinuxTask_proofs` | `TaskInvHolds`, `TasksTyped`, `FidsNamedOnce`, `OpenFilesNamed`, `ExecLoadsWhatItOpened`, `PipeEndsCounted` | number of processes, files and their sizes, table sizes, number of calls, up to the first overlap |

`Scheduler_proofs` holds the lemmas on `Wake`, `WakeTimedOut`, `Block` and
`Schedule` that the second row rests on. The assumptions are the named `ASSUME`s of
the modules; `SchedulerSafety_proofs` adds two hypotheses to its theorems. `Quiet`:
nobody else sends on a channel used by a thread that sets deadlines, which without
deadlines is no restriction at all; a message that races a deadline is finding 2.
A polling thread, without which finding 3 happens. `SleepersAreFound` needs `Untimed`:
a receiver whose deadline passed stays in its wait queue, awake, until it runs
`cancel_receive()`. `DeadlineRoomAssumption` of `KernelIpc` keeps a channel with
deadlines at fewer receivers than slots, because removing the head of a full ring is
finding 4; channels without deadlines may be used by any number of threads, and
their queues be full. `WaitQueue_proofs` adds
`FullRemoval = FALSE` (finding 4). `Lifecycle` assumes that ids are a slot and a
positive generation (`IdsAssumption`: the id sets end before a generation wraps),
that a ready level has room for all thread slots but the running one
(`ReadyRoomAssumption`; the code has 64 places for 256 slots, see the hazards),
and that the pages of liblinux, of programs and of the heap are apart
(`PagesAssumption`). `LinuxTask` assumes three console descriptors, a server table
with an entry, counters that reach beyond the descriptors, and non-empty program
files (`TableAssumption`).

The inductive invariants. *Scheduler* (`IInv`): that the queue holds the Ready
threads once each is not inductive, since `wake()` asks nothing of the thread it
wakes. It needs that whoever is in a wait queue is in it once and waits in the call
that parks there (`ParkedOnce`, `ParkedWhereItWaits`), Blocked, or an expired
receiver that has not run since; that a Blocked thread is inside a blocking path and
has not been woken, and one that is awake in there was woken by one event or by its
deadline (`WaitsForOneWake`); that the deadline queue holds exactly the threads
asleep in a timed receive, once each (`DeadlinesExact`); and that the polling
thread is in user mode, so that somebody is ready whenever another blocks.
`check_timeouts()` wakes a whole prefix of the deadline queue in one step; as the
prefix has no duplicates, the ready queue after it is the old one followed by these
threads (`WakeTimedOutConsistent`). `RefusedOnlyWhenFull` counts:
the entries of a queue are different threads, each in the blocking path of that
queue, and the running one is not among them; so a full queue has `WaitCap` threads
that wait, however many threads there are.
For `KernelImplementsRendezvous` each action is shown to be one action of
`Rendezvous` or a stutter; that the caller waits nowhere is `ParkedWhereItWaits`, and
that taking the head of a queue removes one thread from a set is `ParkedOnce`. *Ring*: no holes and a tail behind the last entry;
the refinement follows by computing `Contents` after each operation.
*Capabilities* (`CapInv`): a mark is read at one entry and revocation walks down,
so what is needed is that a child names its parent and a parent its child
(`TreeShape`), except for a child the parent had no room for, which nobody holds
(`HeldHang`); and that marks go down (`MarksGoDown`). That a broken chain shows
at the held entry follows without induction, for the set of unrevoked entries
that hang on their parents is closed under parents. `RevocationIsExact` uses the
other direction: by `TreeShape` the walk along child links stays inside the set of
entries that have the revoked one among their ancestors.

*Processes* (`ProcInv`): that a parent blocked in wait4 has a child still to exit
rests on ids meaning one thread (`IdsInv`: one existing thread per slot, no
generation ahead of its slot's, parents included), on a blocked thread being
blocked for wait4 or IPC and the `ipc_state` telling which (`BlockedInv`), and, for
`StopsOnlyForIpc`, on the parent relation being well founded (`FamilyInv`): in every
set of waiting parents there is one with no child in the set, and the live child it
waits for is asleep and not one of them. When the set is all that wait, that child
sleeps in IPC. Well-foundedness is stated over sets of threads, so that its
proof needs no induction. `ThreadsLiveOnce` follows from `IdsInv`: a birth takes a
generation its slot has not reached, so the id was unborn and never returns to it,
and the parent that `sys_wait4` compares is the id of the thread that made it.
*Frames* (`MemInv`): a frame carries the thread or
address space and the page it was allocated for. In a registered page table every
entry holds the frame with its own name, and the frames with its names are
allocated exactly when it refers to them (`WellNamed`); a stack belongs to an
existing thread, and no frame is named for an address space that has not been
given out yet (`GivenOutInv`), so a new one never meets an old frame.
`FramesSafe` follows since two page tables never share a name. *Open files*
(`TaskInv`): the properties themselves, plus that a process not yet created has
no task (`BornInv`), so that clone overwrites no descriptors, that a read or seek
under way is of a descriptor the process has (`SeekInv`), so that its late answer
cannot move a file somebody else opened since, and that execve's loop has read as
many payloads as the server's position says (`ReadInv`). The
proof works with names one descriptor at a time (`NameInv`, `OpenInv` in
`LinuxTask_proofs`); that another process cannot move the position of a file being
loaded is `OneName`, and that a pipe counter does not wrap is that it equals the
cardinality of a set with the closed end in it.

Only model-checked: the liveness properties (`CallReturns`, `ReadyRuns`,
`WaitReturns`, `CallEnds`), since the proof system does not reach fairness.

## 7. Not modelled

* GNU bash (`src/user/bash-5.2`): vendored, the program that runs on the system.
* Memory server, process server and task manager (`U/mm`, `U/proc/server.rs`,
  `U/task`): only their unit tests construct them; the kernel's process calls,
  which are modelled, do their work in production.
* Device interrupt lines (no program registers one) and the interrupt controller,
  which also carries the tick (see the fairness above), and ext4: section 2.
* The ELF loader's parsing, the virtio drivers, trap entry and context switch, and
  the riscv64 and loongarch64 ports: byte images, hardware registers, assembly.
* In `Lifecycle`: the kernel's own page table, who talks to whom in IPC and what a
  Blocked thread that goes on running does (`KernelIpc`), allocation failures
  that undo everything, the overflow of a ready level (64 threads, 256 may exist),
  and the wrap of a generation after 65535 reuses of one slot: the id sets of an
  instance end before it.
* In `LinuxTask`: what happens after two requests overlapped; contents of files and pipes (a pipe's bytes never cross
  processes, since clone copies the whole `TaskStruct`), console input, brk and
  mmap arithmetic, the child-pid table.
* Priority donation and the 256-level bitmap, MemoryMap and GrantCap messages
  (no production caller), `retype` and `create_untyped` (placeholders in the code).
