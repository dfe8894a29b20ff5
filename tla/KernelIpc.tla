----------------------------- MODULE KernelIpc -----------------------------
(***************************************************************************)
(* Synchronous IPC, notifications, IPC timeouts and preemption of the      *)
(* QuackOS kernel: the native system calls of trap/native.rs over          *)
(* ipc/channel.rs, ipc/transfer.rs, ipc/notification.rs, timer.rs, irq.rs  *)
(* and the scheduler, with the FsServer kernel thread as the server.       *)
(*                                                                         *)
(* A system call runs with interrupts masked until it returns or calls     *)
(* block_current(), so the only points where another thread can come in    *)
(* are the calls of schedule().  pc[t] is where thread t continues:        *)
(*   "user"  in user mode (for a server: at the top of its loop);          *)
(*   "recv"  at the receive phase of sys_ipc_call[_timeout];               *)
(*   "sent"  after block_current() in the send path;                       *)
(*   "woken" after block_current() in the receive path;                    *)
(*   "noted" after block_current() in wait_on_notification().              *)
(* A thread that is not at "user" is in the kernel: no interrupt is taken. *)
(***************************************************************************)
EXTENDS Scheduler, Queues

CONSTANTS
  Channels, Notifs,  \* the IPC channels and the notifications, created at boot
  WaitCap,           \* capacity of a wait queue (WAIT_QUEUE_CAP, 32)
  Buffered,          \* threads whose table index is below MAX_THREAD_BUFFERS
  FsChannel,         \* the channel the file server listens on
  Program,           \* the system calls each thread's program makes
  Uses,              \* the channels it makes them on
  Boot               \* the thread that runs first

Op == {"send", "recv", "call", "recvT", "callT", "notifySend", "notifyWait",
       "yield", "serve"}

SetsDeadline(t) == Program[t] \cap {"recvT", "callT"} # {}

(* No program sets an IPC timeout.                                         *)
Untimed == \A t \in Threads : ~ SetsDeadline(t)

(* FsServer threads run run_ipc_loop() in the kernel and nothing else.     *)
Servers == {t \in Threads : "serve" \in Program[t]}

(* The threads that receive on channel c.                                  *)
Takers(c) ==
  {t \in Threads : \/ /\ c \in Uses[t]
                      /\ Program[t] \cap {"recv", "recvT", "call", "callT"} # {}
                   \/ c = FsChannel /\ t \in Servers}

ASSUME IpcAssumption ==
  /\ Channels \cup Notifs \subseteq Objects
  /\ WaitCap \in Nat \ {0}
  /\ Buffered \subseteq Threads
  /\ FsChannel \in Channels
  /\ Program \in [Threads -> SUBSET Op]
  /\ Uses \in [Threads -> SUBSET Channels]
  /\ Boot \in Threads
  /\ IsFiniteSet(Threads)
  /\ Cardinality(Threads) <= ReadyCap + 1

(* A channel on which threads set deadlines has fewer receivers than       *)
(* slots, so that remove_by_tid() never works on a full ring: what it does *)
(* there is WaitQueue's subject.                                           *)
ASSUME DeadlineRoomAssumption ==
  \A t \in Threads : SetsDeadline(t) =>
    \A c \in Uses[t] : Cardinality(Takers(c)) < WaitCap

(* A message: who wrote it and, in a reply, whose request it answers.  The *)
(* payload is opaque to the kernel, which stamps every header with 1.      *)
Msg == [src : Threads, re : Threads \cup {None}]
NoMsg == [src |-> None, re |-> None]

(* channel.rs WaitQueueEntry of a sender.                                  *)
Parked == [tid : Threads, msg : Msg]

VARIABLES
  sched,     \* scheduler state
  sendq,     \* per channel: the parked senders with their messages
  recvq,     \* per channel: the parked receivers
  timerq,    \* TIMER_QUEUE: threads by ascending deadline
  signaled,  \* per notification: the pending-signal flag
  notifyq,   \* per notification: the waiting threads
  buf,       \* per thread: its IpcBuffer
  pc,        \* per thread: where it continues, in which call, on which object
  ret,       \* per thread: what its last receive returned
  owed,      \* per server: the request it is answering
  wakes      \* auxiliary: events that completed the wait a thread is in

ipcVars == <<sendq, recvq>>
notifVars == <<signaled, notifyq>>
vars == <<sched, sendq, recvq, timerq, signaled, notifyq, buf, pc, ret, owed, wakes>>

cur == sched.cur
At(at, op, o) == [at |-> at, op |-> op, on |-> o]
User == At("user", "yield", None)

Ret == [code : {"none", "msg", "empty", "ETIMEDOUT", "EBADF"}, msg : Msg \cup {NoMsg}]
Code(c) == [code |-> c, msg |-> NoMsg]
Got(m) == IF m = NoMsg THEN Code("empty") ELSE [code |-> "msg", msg |-> m]

TypeOK ==
  /\ sched \in SchedState
  /\ sendq \in [Channels -> Seq(Parked)]
  /\ recvq \in [Channels -> Seq(Threads)]
  /\ timerq \in Seq(Threads)
  /\ signaled \in [Notifs -> BOOLEAN]
  /\ notifyq \in [Notifs -> Seq(Threads)]
  /\ buf \in [Threads -> Msg \cup {NoMsg}]
  /\ pc \in [Threads -> [at : {"user", "recv", "sent", "woken", "noted"},
                         op : Op, on : Objects \cup {None}]]
  /\ \A t \in Threads : pc[t].at \in {"recv", "sent", "woken"} => pc[t].on \in Channels
  /\ ret \in [Threads -> Ret]
  /\ owed \in [Threads -> Msg \cup {NoMsg}]
  /\ wakes \in [Threads -> Nat]

(* After boot: the boot thread runs, every other thread has been created   *)
(* and enqueued by the loader, in some order.                              *)
Init ==
  /\ \E order \in [1 .. Cardinality(Threads) - 1 -> Threads \ {Boot}] :
       /\ \A i, j \in DOMAIN order : order[i] = order[j] => i = j
       /\ sched = [st  |-> [t \in Threads |-> IF t = Boot THEN "Running" ELSE "Ready"],
                   ipc |-> [t \in Threads |-> IpcReady],
                   rq  |-> order,
                   cur |-> Boot]
  /\ sendq = [c \in Channels |-> << >>]
  /\ recvq = [c \in Channels |-> << >>]
  /\ timerq = << >>
  /\ signaled = [n \in Notifs |-> FALSE]
  /\ notifyq = [n \in Notifs |-> << >>]
  /\ buf = [t \in Threads |-> NoMsg]
  /\ pc = [t \in Threads |-> User]
  /\ ret = [t \in Threads |-> Code("none")]
  /\ owed = [t \in Threads |-> NoMsg]
  /\ wakes = [t \in Threads |-> 0]

-----------------------------------------------------------------------------
(* Mutant: the message goes into the buffer of whoever runs.               *)
DeliverToSelf(t, m) == buf' = [buf EXCEPT ![cur] = m]

(* transfer.rs deliver() of a short message: a thread whose index has no   *)
(* entry in the buffer table gets nothing, and the callers drop the error. *)
Deliver(t, m) ==
  buf' = IF t \in Buffered THEN [buf EXCEPT ![t] = m] ELSE buf

(* Mutant: the receive phase of a call has lost its channel.               *)
AfterSendForgets(op, c) == IF op = "call" THEN At("recv", "recv", None) ELSE User

(* What sys_ipc_send's caller does once it returned 0: a call goes on with *)
(* its receive phase, anything else is back in user mode (a server: at the *)
(* top of its loop).                                                       *)
AfterSend(op, c) ==
  CASE op = "call"  -> At("recv", "recv", c)
    [] op = "callT" -> At("recv", "recvT", c)
    [] OTHER        -> User

(* sys_ipc_send / kernel_send: hand the message to the first parked        *)
(* receiver, or park with it; a full queue is reported as EBADF, on which  *)
(* kernel_send panics: the kernel takes no further step.                   *)
SendOn(op, c, m) ==
  \/ /\ recvq[c] # << >>
     /\ LET r == Head(recvq[c])
        IN  /\ recvq' = [recvq EXCEPT ![c] = Tail(@)]
            /\ Deliver(r, m)
            /\ sched' = Wake(sched, r)
            /\ wakes' = [wakes EXCEPT ![r] = @ + 1]
     /\ pc' = [pc EXCEPT ![cur] = AfterSend(op, c)]
     /\ UNCHANGED <<sendq, ret>>
  \/ /\ recvq[c] = << >>
     /\ Len(sendq[c]) < WaitCap
     /\ sendq' = [sendq EXCEPT ![c] = Append(@, [tid |-> cur, msg |-> m])]
     /\ sched' = Block(sched, On("BlockedOnSend", c))
     /\ wakes' = [wakes EXCEPT ![cur] = 0]
     /\ pc' = [pc EXCEPT ![cur] = At("sent", op, c)]
     /\ UNCHANGED <<recvq, buf, ret>>
  \/ /\ recvq[c] = << >>
     /\ Len(sendq[c]) >= WaitCap
     /\ op # "serve"
     /\ ret' = [ret EXCEPT ![cur] = Code("EBADF")]
     /\ pc' = [pc EXCEPT ![cur] = User]
     /\ UNCHANGED <<sched, sendq, recvq, buf, wakes>>

(* sys_ipc_recv, sys_ipc_recv_timeout and kernel_recv up to the point where *)
(* the caller has a message or has parked.  set_ipc_timeout() puts the     *)
(* caller anywhere in the deadline queue: where depends only on the clock  *)
(* and the timeouts.                                                       *)
RecvOn(op, c) ==
  \/ /\ sendq[c] # << >>
     /\ LET e == Head(sendq[c])
        IN  /\ sendq' = [sendq EXCEPT ![c] = Tail(@)]
            /\ Deliver(cur, e.msg)
            /\ sched' = Wake(sched, e.tid)
            /\ wakes' = [wakes EXCEPT ![e.tid] = @ + 1]
            /\ ret' = [ret EXCEPT ![cur] = Got(e.msg)]
            /\ owed' = IF cur \in Servers THEN [owed EXCEPT ![cur] = e.msg] ELSE owed
     /\ pc' = [pc EXCEPT ![cur] = User]
     /\ UNCHANGED <<recvq, timerq>>
  \/ /\ sendq[c] = << >>
     /\ Len(recvq[c]) < WaitCap
     /\ recvq' = [recvq EXCEPT ![c] = Append(@, cur)]
     /\ IF op = "recvT" THEN \E i \in 0 .. Len(timerq) : timerq' = Inserted(timerq, i, cur)
                        ELSE UNCHANGED timerq
     /\ sched' = Block(sched, On("BlockedOnReceive", c))
     /\ wakes' = [wakes EXCEPT ![cur] = 0]
     /\ pc' = [pc EXCEPT ![cur] = At("woken", op, c)]
     /\ UNCHANGED <<sendq, buf, ret, owed>>
  \/ /\ sendq[c] = << >>
     /\ Len(recvq[c]) >= WaitCap
     /\ op # "serve"
     /\ ret' = [ret EXCEPT ![cur] = Code("EBADF")]
     /\ pc' = [pc EXCEPT ![cur] = User]
     /\ UNCHANGED <<sched, sendq, recvq, timerq, buf, owed, wakes>>

-----------------------------------------------------------------------------
InUser(op) == pc[cur].at = "user" /\ op \in Program[cur]

(* sys_ipc_send, and the send phase of sys_ipc_call[_timeout].             *)
SysSend(op, c) ==
  /\ InUser(op) /\ c \in Uses[cur]
  /\ SendOn(op, c, [src |-> cur, re |-> None])
  /\ UNCHANGED <<timerq, notifVars, owed>>

(* sys_ipc_recv and sys_ipc_recv_timeout entered from user mode.           *)
SysRecv(op, c) ==
  /\ InUser(op) /\ c \in Uses[cur]
  /\ RecvOn(op, c)
  /\ UNCHANGED notifVars

(* The receive phase of sys_ipc_call[_timeout].                            *)
CallRecv ==
  /\ pc[cur].at = "recv"
  /\ RecvOn(pc[cur].op, pc[cur].on)
  /\ UNCHANGED notifVars

(* block_current() came back in the send path: the call returns 0.         *)
SendReturns ==
  /\ pc[cur].at = "sent"
  /\ pc' = [pc EXCEPT ![cur] = AfterSend(pc[cur].op, pc[cur].on)]
  /\ wakes' = [wakes EXCEPT ![cur] = 0]
  /\ UNCHANGED <<sched, ipcVars, timerq, notifVars, buf, ret, owed>>

(* Mutant: cancel_receive() is not called.                                 *)
RecvTimesOutStays ==
  /\ pc[cur].at = "woken" /\ pc[cur].op = "recvT"
  /\ sched.ipc[cur].why = "TimedOut"
  /\ ret' = [ret EXCEPT ![cur] = Code("ETIMEDOUT")]
  /\ pc' = [pc EXCEPT ![cur] = User]
  /\ wakes' = [wakes EXCEPT ![cur] = 0]
  /\ UNCHANGED <<sched, ipcVars, timerq, notifVars, buf, owed>>

(* block_current() came back in the receive path and the call timed out:   *)
(* cancel_receive() takes the thread off the wait queue.                   *)
RecvTimesOut ==
  /\ pc[cur].at = "woken"
  /\ pc[cur].op = "recvT"
  /\ sched.ipc[cur].why = "TimedOut"
  /\ recvq' = [recvq EXCEPT ![pc[cur].on] = Without(@, cur)]
  /\ ret' = [ret EXCEPT ![cur] = Code("ETIMEDOUT")]
  /\ pc' = [pc EXCEPT ![cur] = User]
  /\ wakes' = [wakes EXCEPT ![cur] = 0]
  /\ UNCHANGED <<sched, sendq, timerq, notifVars, buf, owed>>

(* block_current() came back in the receive path: drop the own deadline    *)
(* (cancel_ipc_timeout) and read the own buffer.                           *)
(* kernel_recv() panics when its thread never had a buffer.                *)
RecvReturns ==
  /\ pc[cur].at = "woken"
  /\ pc[cur].op = "recvT" => sched.ipc[cur].why # "TimedOut"
  /\ cur \in Servers => buf[cur] # NoMsg
  /\ timerq' = IF pc[cur].op = "recvT" THEN Without(timerq, cur) ELSE timerq
  /\ ret' = [ret EXCEPT ![cur] = Got(buf[cur])]
  /\ owed' = IF cur \in Servers THEN [owed EXCEPT ![cur] = buf[cur]] ELSE owed
  /\ pc' = [pc EXCEPT ![cur] = User]
  /\ wakes' = [wakes EXCEPT ![cur] = 0]
  /\ UNCHANGED <<sched, ipcVars, notifVars, buf>>

-----------------------------------------------------------------------------
(* One turn of FsServer::run_ipc_loop: receive a request, dispatch it, send *)
(* the response on the same channel.                                       *)
ServerRecv ==
  /\ InUser("serve") /\ owed[cur] = NoMsg
  /\ RecvOn("serve", FsChannel)
  /\ UNCHANGED notifVars

(* Mutant: a request that fails gets no response.                          *)
ServerDropsRequest ==
  /\ InUser("serve") /\ owed[cur] # NoMsg
  /\ owed' = [owed EXCEPT ![cur] = NoMsg]
  /\ UNCHANGED <<sched, ipcVars, timerq, notifVars, buf, pc, ret, wakes>>

ServerReply ==
  /\ InUser("serve") /\ owed[cur] # NoMsg
  /\ SendOn("serve", FsChannel, [src |-> cur, re |-> owed[cur].src])
  /\ owed' = [owed EXCEPT ![cur] = NoMsg]
  /\ UNCHANGED <<timerq, notifVars>>

-----------------------------------------------------------------------------
(* Mutant: the signal is remembered although a thread waits for it.        *)
SignalIgnoresWaiter(n) ==
  /\ signaled' = [signaled EXCEPT ![n] = TRUE]
  /\ UNCHANGED <<notifyq, sched, wakes>>

(* Mutant: the waiter is woken and left in the wait queue.                 *)
SignalPeeks(n) ==
  \/ /\ notifyq[n] # << >>
     /\ sched' = Wake(sched, Head(notifyq[n]))
     /\ wakes' = [wakes EXCEPT ![Head(notifyq[n])] = @ + 1]
     /\ UNCHANGED <<signaled, notifyq>>
  \/ /\ notifyq[n] = << >>
     /\ signaled' = [signaled EXCEPT ![n] = TRUE]
     /\ UNCHANGED <<notifyq, sched, wakes>>

(* signal_notification(): wake the first waiter, or remember the signal.   *)
Signal(n) ==
  \/ /\ notifyq[n] # << >>
     /\ LET w == Head(notifyq[n])
        IN  /\ notifyq' = [notifyq EXCEPT ![n] = Tail(@)]
            /\ sched' = Wake(sched, w)
            /\ wakes' = [wakes EXCEPT ![w] = @ + 1]
     /\ UNCHANGED signaled
  \/ /\ notifyq[n] = << >>
     /\ signaled' = [signaled EXCEPT ![n] = TRUE]
     /\ UNCHANGED <<notifyq, sched, wakes>>

NotifySend(n) ==
  /\ InUser("notifySend")
  /\ Signal(n)
  /\ UNCHANGED <<ipcVars, timerq, buf, pc, ret, owed>>

(* wait_on_notification().                                                 *)
NotifyWait(n) ==
  /\ InUser("notifyWait")
  /\ \/ /\ signaled[n]
        /\ signaled' = [signaled EXCEPT ![n] = FALSE]
        /\ UNCHANGED <<notifyq, sched, pc, wakes, ret>>
     \/ /\ ~ signaled[n]
        /\ Len(notifyq[n]) < WaitCap
        /\ notifyq' = [notifyq EXCEPT ![n] = Append(@, cur)]
        /\ sched' = Block(sched, On("BlockedOnNotify", n))
        /\ wakes' = [wakes EXCEPT ![cur] = 0]
        /\ pc' = [pc EXCEPT ![cur] = At("noted", "notifyWait", n)]
        /\ UNCHANGED <<signaled, ret>>
     \/ /\ ~ signaled[n]
        /\ Len(notifyq[n]) >= WaitCap
        /\ ret' = [ret EXCEPT ![cur] = Code("EBADF")]
        /\ UNCHANGED <<signaled, notifyq, sched, pc, wakes>>
  /\ UNCHANGED <<ipcVars, timerq, buf, owed>>

NotifyReturns ==
  /\ pc[cur].at = "noted"
  /\ pc' = [pc EXCEPT ![cur] = User]
  /\ wakes' = [wakes EXCEPT ![cur] = 0]
  /\ UNCHANGED <<sched, ipcVars, timerq, notifVars, buf, ret, owed>>

Yield ==
  /\ InUser("yield")
  /\ sched' = Schedule(sched)
  /\ UNCHANGED <<ipcVars, timerq, notifVars, buf, pc, ret, owed, wakes>>

-----------------------------------------------------------------------------
(* Interrupts are taken in user mode only: EL1 runs with them masked.      *)
Interruptible == pc[cur].at = "user" /\ cur \notin Servers

(* dispatch_irq() for the timer: check_timeouts() wakes the threads of a   *)
(* prefix of the deadline queue, then schedule() preempts.                 *)
TimerIrq ==
  /\ Interruptible
  /\ \E k \in 0 .. Len(timerq) :
       /\ sched' = Schedule(WakeTimedOut(sched, SubSeq(timerq, 1, k)))
       /\ timerq' = SubSeq(timerq, k + 1, Len(timerq))
  /\ UNCHANGED <<ipcVars, notifVars, buf, pc, ret, owed, wakes>>

-----------------------------------------------------------------------------
UserCall ==
  \/ \E c \in Channels : \/ \E op \in {"send", "call", "callT"} : SysSend(op, c)
                         \/ \E op \in {"recv", "recvT"} : SysRecv(op, c)
  \/ \E n \in Notifs : NotifySend(n) \/ NotifyWait(n)
  \/ Yield

KernelStep ==
  \/ CallRecv
  \/ SendReturns
  \/ RecvTimesOut
  \/ RecvReturns
  \/ NotifyReturns
  \/ ServerRecv
  \/ ServerReply

Next ==
  \/ UserCall
  \/ KernelStep
  \/ TimerIrq

Spec == Init /\ [][Next]_vars

(* The CPU does not stop in the kernel, and whoever runs in user mode      *)
(* comes back to the kernel, by a system call or a tick; which of them it  *)
(* is is left open, for nothing in the code secures a tick.                *)
FairSpec ==
  /\ Spec
  /\ WF_vars(KernelStep)
  /\ WF_vars(UserCall \/ TimerIrq)

-----------------------------------------------------------------------------
(* The ready queue holds the Ready threads and no others, each exactly     *)
(* once, and the current thread is the one Running thread: whatever the    *)
(* order of sends, receives, signals and preemptions, wake() only ever     *)
(* meets a thread that is off the queue (queue.rs, "Ready" vs "Blocked").  *)
SchedulerConsistent == Consistent(sched)

SendersOf(c)   == {sendq[c][i].tid : i \in 1 .. Len(sendq[c])}
ReceiversOf(c) == {recvq[c][i] : i \in 1 .. Len(recvq[c])}
WaitersOf(n)   == {notifyq[n][i] : i \in 1 .. Len(notifyq[n])}
BlockedAs(t, why, o) == sched.st[t] = "Blocked" /\ sched.ipc[t] = On(why, o)

(* A Blocked thread is parked on exactly the queue its ipc_state names, so *)
(* the event it waits for will find it; and a parked thread is Blocked, so *)
(* no event is spent on a thread that has left.                            *)
BlockedIffParked ==
  \A t \in Threads :
    /\ \A c \in Channels :
         /\ t \in SendersOf(c) <=> BlockedAs(t, "BlockedOnSend", c)
         /\ t \in ReceiversOf(c) <=> BlockedAs(t, "BlockedOnReceive", c)
    /\ \A n \in Notifs : t \in WaitersOf(n) <=> BlockedAs(t, "BlockedOnNotify", n)
    /\ sched.st[t] = "Blocked" =>
         sched.ipc[t].why \in {"BlockedOnSend", "BlockedOnReceive", "BlockedOnNotify"}

(* No rendezvous is missed: a channel never holds a parked sender and a    *)
(* parked receiver at once, and a notification never holds a waiter while  *)
(* a signal is pending.                                                    *)
NoMissedRendezvous ==
  /\ \A c \in Channels : sendq[c] = << >> \/ recvq[c] = << >>
  /\ \A n \in Notifs : signaled[n] => notifyq[n] = << >>

(* A thread comes back from block_current() because of exactly one event:  *)
(* a receiver was handed one message (none is stale, none overwrote an     *)
(* unread one), a sender's message was taken, a waiter was signalled; or   *)
(* its deadline passed and no message was handed over                      *)
(* (synchronization.rs: it "resumes execution after this call with its IPC *)
(* receive buffer already populated").                                     *)
ResumeJustified ==
  pc[cur].at \in {"sent", "woken", "noted"} =>
    wakes[cur] = IF sched.ipc[cur].why = "TimedOut" THEN 0 ELSE 1

-----------------------------------------------------------------------------
(* The inductive strengthening behind SchedulerConsistent, BlockedIffParked *)
(* and ResumeJustified, for programs whose deadlines are Quiet, beside some *)
(* thread that only polls and therefore can always run.                    *)
Polls(t) == Program[t] \subseteq {"yield", "notifySend"}

(* The channels a thread's program sends on.                               *)
SendsOn(t) ==
  (IF Program[t] \cap {"send", "call", "callT"} # {} THEN Uses[t] ELSE {})
  \cup (IF "serve" \in Program[t] THEN {FsChannel} ELSE {})

(* Nobody else sends on the channels of a thread that sets deadlines, so a *)
(* deadline never races with a message.                                    *)
Quiet ==
  \A t, u \in Threads : t # u /\ SetsDeadline(t) => SendsOn(u) \cap Uses[t] = {}

Waits == {"sent", "woken", "noted"}
Waiting(t) == pc[t].at \in Waits
Asleep(t) == sched.st[t] = "Blocked"

(* The deadline of t has passed and t has not yet returned from the call.  *)
Expired(t) == pc[t].at = "woken" /\ sched.ipc[t].why = "TimedOut"

(* The queues hold the threads that wait where their calls say, and the    *)
(* ipc_state of a Blocked thread names the call it is in.  An expired      *)
(* receiver stays in its queue until cancel_receive().                     *)
ParkedWhereItWaits ==
  \A t \in Threads :
    /\ \A c \in Channels :
         /\ t \in SendersOf(c) <=> Asleep(t) /\ pc[t].at = "sent" /\ pc[t].on = c
         /\ t \in ReceiversOf(c)
              <=> (Asleep(t) \/ Expired(t)) /\ pc[t].at = "woken" /\ pc[t].on = c
    /\ \A n \in Notifs :
         t \in WaitersOf(n) <=> Asleep(t) /\ pc[t].at = "noted" /\ pc[t].on = n
    /\ Asleep(t) => /\ pc[t].at = "sent"  => sched.ipc[t] = On("BlockedOnSend", pc[t].on)
                    /\ pc[t].at = "woken" => sched.ipc[t] = On("BlockedOnReceive", pc[t].on)
                    /\ pc[t].at = "noted" => sched.ipc[t] = On("BlockedOnNotify", pc[t].on)

ParkedOnce ==
  /\ \A c \in Channels : \A i, j \in 1 .. Len(sendq[c]) :
       sendq[c][i].tid = sendq[c][j].tid => i = j
  /\ \A c \in Channels : \A i, j \in 1 .. Len(recvq[c]) : recvq[c][i] = recvq[c][j] => i = j
  /\ \A n \in Notifs : \A i, j \in 1 .. Len(notifyq[n]) :
       notifyq[n][i] = notifyq[n][j] => i = j

(* A thread is Blocked exactly while it waits for its one wake or its      *)
(* deadline, inside a blocking path of the kernel.                         *)
WaitsForOneWake ==
  \A t \in Threads :
    /\ sched.st[t] \in {"Ready", "Running", "Blocked"}
    /\ Asleep(t) => Waiting(t) /\ wakes[t] = 0
    /\ Waiting(t) /\ ~ Asleep(t) => wakes[t] = IF Expired(t) THEN 0 ELSE 1
    /\ Polls(t) => pc[t].at = "user"

InTimer(q, t) == \E i \in 1 .. Len(q) : q[i] = t

(* The deadline queue holds the threads asleep in a receive with a timeout, *)
(* each once; only deadlines wake those, and nobody else is ever TimedOut. *)
DeadlinesExact ==
  /\ \A i, j \in 1 .. Len(timerq) : timerq[i] = timerq[j] => i = j
  /\ \A t \in Threads :
       /\ InTimer(timerq, t) <=> Asleep(t) /\ pc[t].at = "woken" /\ pc[t].op = "recvT"
       /\ pc[t].op \in {"recvT", "callT"} => SetsDeadline(t) /\ pc[t].on \in Uses[t]
       /\ sched.ipc[t].why = "TimedOut" => SetsDeadline(t) /\ ~ Asleep(t)
       /\ pc[t].at \in {"sent", "noted"} => sched.ipc[t].why # "TimedOut"
       /\ pc[t].at = "woken" /\ ~ Asleep(t) => (pc[t].op = "recvT" <=> Expired(t))

IInv ==
  /\ TypeOK
  /\ SchedulerConsistent
  /\ ParkedWhereItWaits
  /\ ParkedOnce
  /\ WaitsForOneWake
  /\ DeadlinesExact

(* The other threads that are in the blocking path at, on object o.        *)
OthersIn(at, o) == {t \in Threads \ {cur} : pc[t].at = at /\ pc[t].on = o}

(* Only threads that wait take up room in a wait queue, one place each:    *)
(* when a call is refused with EBADF because the queue is full, or panics  *)
(* kernel_send() or kernel_recv() of the file server, WaitCap other        *)
(* threads are waiting there, and none of the places belongs to a receiver *)
(* that gave up, to a thread woken earlier, or to the caller itself.       *)
FullOnlyOfWaiters ==
  ~ Waiting(cur) =>
    /\ \A c \in Channels : /\ Len(sendq[c]) <= Cardinality(OthersIn("sent", c))
                           /\ Len(recvq[c]) <= Cardinality(OthersIn("woken", c))
    /\ \A n \in Notifs : Len(notifyq[n]) <= Cardinality(OthersIn("noted", n))

(* The queues as sets of threads that wait for a partner.                  *)
MeetSenders   == [c \in Channels |-> {sendq[c][i] : i \in 1 .. Len(sendq[c])}]
MeetReceivers == [c \in Channels |-> ReceiversOf(c)]
MeetWaiters   == [n \in Notifs |-> WaitersOf(n)]

Meeting == INSTANCE Rendezvous WITH
  Message <- Msg, senders <- MeetSenders, receivers <- MeetReceivers,
  waiters <- MeetWaiters, pending <- signaled, box <- buf

(* The kernel implements the rendezvous that ipc/mod.rs describes: a       *)
(* message passes from one sender to one receiver of its channel, once,    *)
(* whichever of them came first and whoever gave up in between.            *)
ImplementsRendezvous == Meeting!Spec

(* The ready queue never holds a thread in another state than Ready.       *)
(* (queue.rs: "This queue only ever holds threads in ThreadState::Ready".) *)
QueueOnlyReady == QueueHoldsReady(sched)

(* sys_notify_wait returns 0 only after being signaled (native.rs).        *)
NotifyAfterSignal == pc[cur].at = "noted" => wakes[cur] = 1

(* The threads whose only IPC is calling the file server, as liblinux does. *)
Clients ==
  {t \in Threads : "call" \in Program[t] /\ Program[t] \subseteq {"call", "yield"}
                   /\ Uses[t] = {FsChannel}}

(* A client that only makes calls gets, as the result of its call, the     *)
(* reply to its own request (ipc/mod.rs: the reply is routed back to the   *)
(* calling thread).                                                        *)
ReplyToCaller ==
  \A t \in Clients : ret[t].code = "msg" => ret[t].msg.re = t

(* Every thread that becomes Ready is given the CPU: the FIFO ready queue  *)
(* leaves nobody behind, whether the others block, yield or are preempted. *)
ReadyRuns == \A t \in Threads : sched.st[t] = "Ready" ~> sched.st[t] = "Running"

(* A call on a served channel returns, through its send wait, the server's *)
(* work and its receive wait.                                              *)
CallReturns ==
  \A t \in Clients :
    pc[t].at \in {"sent", "recv", "woken"} ~> pc[t].at = "user"

=============================================================================
