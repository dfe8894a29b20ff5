----------------------------- MODULE Scheduler -----------------------------
(***************************************************************************)
(* The QuackOS thread scheduler, kernel/sche: thread states, the ready     *)
(* queue and the per-CPU current thread, with the three entry points the   *)
(* rest of the kernel uses: wake(), block_current() and schedule().        *)
(*                                                                         *)
(* The kernel is single-core and runs with interrupts masked, so each      *)
(* entry point is atomic and several of them may run in one kernel step    *)
(* (a timer interrupt wakes any number of threads and then schedules).     *)
(* They are therefore functions from scheduler states to scheduler states, *)
(* which the specifications that EXTEND this module compose.               *)
(*                                                                         *)
(* Every production call of create_thread() passes priority 128 and        *)
(* nothing outside the tests donates priority, so one level of the ready   *)
(* queue is populated: the 256-level bitmap reduces to one bounded FIFO.   *)
(***************************************************************************)
EXTENDS Naturals, Sequences, FiniteSets

CONSTANTS
  Threads,   \* the ThreadIds
  Objects,   \* the kernel objects a thread can block on: channels, notifications
  ReadyCap,  \* capacity of one priority level of the ReadyQueue (64 in the code)
  None       \* "no object" in an IpcState without a payload

ASSUME ReadyCapAssumption == ReadyCap \in Nat \ {0}
ASSUME NoneAssumption == None \notin Threads /\ None \notin Objects

ThreadState == {"Free", "Ready", "Running", "Blocked", "Dying"}

(* ipc/synchronization.rs IpcState: a reason and the object it concerns.   *)
IpcReason ==
  {"Ready", "BlockedOnSend", "BlockedOnReceive", "BlockedOnNotify", "TimedOut",
   "BlockedOnWait4"}

IpcState == [why : IpcReason, on : Objects \cup {None}]

On(why, o) == [why |-> why, on |-> o]
IpcReady == On("Ready", None)

(* A scheduler state: per-thread ThreadState and IpcState, the ready queue *)
(* (front first) and CURRENT.                                              *)
SchedState ==
  [st  : [Threads -> ThreadState],
   ipc : [Threads -> IpcState],
   rq  : Seq(Threads),
   cur : Threads]

-----------------------------------------------------------------------------
(* Mutant: a stack instead of a queue.                                     *)
EnqueueFront(q, t) == IF Len(q) >= ReadyCap THEN q ELSE <<t>> \o q

(* queue.rs RingBuffer::push through enqueue_ready(): a full level rejects *)
(* the thread, and both callers drop the error.                            *)
Enqueue(q, t) == IF Len(q) >= ReadyCap THEN q ELSE Append(q, t)

(* Mutant: the woken thread is marked Ready and not enqueued.              *)
WakeNotQueued(s, t) ==
  IF s.st[t] = "Free" THEN s
  ELSE [s EXCEPT !.st[t] = "Ready", !.ipc[t] = IpcReady]

(* wake(tid): a thread that no longer exists is only logged.  The previous *)
(* state of the thread is not looked at.                                   *)
Wake(s, t) ==
  IF s.st[t] = "Free" THEN s
  ELSE [st  |-> [s.st EXCEPT ![t] = "Ready"],
        ipc |-> [s.ipc EXCEPT ![t] = IpcReady],
        rq  |-> Enqueue(s.rq, t),
        cur |-> s.cur]

(* Mutant: the ipc_state is left as wake() set it.                         *)
WakeTimedOutAsReady(s, expired) ==
  LET woken == {expired[i] : i \in 1 .. Len(expired)}
  IN  [st  |-> [t \in Threads |-> IF t \in woken THEN "Ready" ELSE s.st[t]],
       ipc |-> [t \in Threads |-> IF t \in woken THEN IpcReady ELSE s.ipc[t]],
       rq  |-> s.rq \o expired,
       cur |-> s.cur]

(* The loop of timer.rs check_timeouts() over the expired threads: wake()  *)
(* each in order, then override its ipc_state.  (The callers only set      *)
(* deadlines for existing threads and threads that wait do not exit.)      *)
WakeTimedOut(s, expired) ==
  LET woken == {expired[i] : i \in 1 .. Len(expired)}
      all   == s.rq \o expired
  IN  [st  |-> [t \in Threads |-> IF t \in woken THEN "Ready" ELSE s.st[t]],
       ipc |-> [t \in Threads |-> IF t \in woken THEN On("TimedOut", None)
                                                 ELSE s.ipc[t]],
       rq  |-> IF Len(all) <= ReadyCap THEN all ELSE SubSeq(all, 1, ReadyCap),
       cur |-> s.cur]

(* Mutant: the current thread is put back whatever its state is.           *)
ScheduleKeepsBlocked(s) ==
  IF s.rq = << >> THEN s
  ELSE [s EXCEPT !.st[Head(s.rq)] = "Running",
                 !.rq = Enqueue(Tail(s.rq), s.cur),
                 !.cur = Head(s.rq)]

(* schedule().  With an empty ready queue it returns to its caller, which  *)
(* goes on running whatever its state is.  Otherwise the next thread is    *)
(* dequeued before the current one is put back, and the current one is put *)
(* back when it is Running, and also when it is (unexpectedly) Ready.      *)
Schedule(s) ==
  IF s.rq = << >> THEN s
  ELSE LET next   == Head(s.rq)
           keeps  == s.st[s.cur] \in {"Running", "Ready"}
           st1    == [s.st EXCEPT ![s.cur] = IF keeps THEN "Ready" ELSE @]
       IN  [st  |-> [st1 EXCEPT ![next] = "Running"],
            ipc |-> s.ipc,
            rq  |-> IF keeps THEN Enqueue(Tail(s.rq), s.cur) ELSE Tail(s.rq),
            cur |-> next]

(* Mutant: the caller is marked Blocked and its ipc_state is not set.      *)
BlockForgetsReason(s, why) == Schedule([s EXCEPT !.st[s.cur] = "Blocked"])

(* block_current(ipc_state): mark the caller Blocked, then schedule().     *)
Block(s, why) ==
  Schedule([st  |-> [s.st EXCEPT ![s.cur] = "Blocked"],
            ipc |-> [s.ipc EXCEPT ![s.cur] = why],
            rq  |-> s.rq,
            cur |-> s.cur])

-----------------------------------------------------------------------------
Queued(s) == {s.rq[i] : i \in 1 .. Len(s.rq)}

(* What queue.rs and thread.rs promise of a scheduler state: the queue     *)
(* holds the Ready threads, each once, and the CPU belongs to the one      *)
(* Running thread.                                                         *)
QueueHoldsReady(s) == \A t \in Queued(s) : s.st[t] = "Ready"
ReadyIsQueued(s)   == \A t \in Threads : s.st[t] = "Ready" => t \in Queued(s)
QueuedOnce(s)      == \A i, j \in 1 .. Len(s.rq) : s.rq[i] = s.rq[j] => i = j
OneRunning(s)      == \A t \in Threads : s.st[t] = "Running" <=> t = s.cur

Consistent(s) ==
  QueueHoldsReady(s) /\ ReadyIsQueued(s) /\ QueuedOnce(s) /\ OneRunning(s)

=============================================================================
