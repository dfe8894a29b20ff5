-------------------------- MODULE KernelIpc_proofs --------------------------
(***************************************************************************)
(* Proofs about KernelIpc for any number of threads, channels and          *)
(* notifications and any programs.  First what holds of every execution    *)
(* (types, no missed rendezvous), then the scheduler promises for          *)
(* executions without IPC timeouts in which some thread only polls.        *)
(***************************************************************************)
EXTENDS KernelIpc, Scheduler_proofs, WellFoundedInduction

(* wake(), schedule() and block_current() keep scheduler states typed.     *)
LEMMA WakeType ==
  ASSUME NEW s \in SchedState, NEW t \in Threads
  PROVE  Wake(s, t) \in SchedState
<1>1. IpcReady \in IpcState
  BY DEF IpcReady, IpcState, IpcReason, On
<1>2. Enqueue(s.rq, t) \in Seq(Threads)
  BY DEF SchedState, Enqueue
<1> QED BY <1>1, <1>2 DEF Wake, SchedState, ThreadState

LEMMA ScheduleType ==
  ASSUME NEW s \in SchedState
  PROVE  Schedule(s) \in SchedState
<1>1. CASE s.rq = << >>
  BY <1>1 DEF Schedule
<1>2. CASE s.rq # << >>
  <2>1. /\ s.st \in [Threads -> ThreadState] /\ s.rq \in Seq(Threads) /\ s.cur \in Threads
        /\ Head(s.rq) \in Threads /\ Tail(s.rq) \in Seq(Threads)
        /\ s.ipc \in [Threads -> IpcState]
    BY <1>2 DEF SchedState
  <2> DEFINE keeps == s.st[s.cur] \in {"Running", "Ready"}
             st1   == [s.st EXCEPT ![s.cur] = IF keeps THEN "Ready" ELSE @]
             st2   == [st1 EXCEPT ![Head(s.rq)] = "Running"]
             rq2   == IF keeps THEN Enqueue(Tail(s.rq), s.cur) ELSE Tail(s.rq)
  <2>2. st2 \in [Threads -> ThreadState]
    BY <2>1 DEF ThreadState
  <2>3. rq2 \in Seq(Threads)
    BY <2>1 DEF Enqueue
  <2>4. Schedule(s) = [st |-> st2, ipc |-> s.ipc, rq |-> rq2, cur |-> Head(s.rq)]
    BY <1>2, Zenon DEF Schedule
  <2> HIDE DEF st2, rq2
  <2> QED BY <2>1, <2>2, <2>3, <2>4 DEF SchedState
<1> QED BY <1>1, <1>2

LEMMA BlockType ==
  ASSUME NEW s \in SchedState, NEW why \in IpcState
  PROVE  Block(s, why) \in SchedState
<1> DEFINE r == [st  |-> [s.st EXCEPT ![s.cur] = "Blocked"],
                 ipc |-> [s.ipc EXCEPT ![s.cur] = why], rq |-> s.rq, cur |-> s.cur]
<1>1. r \in SchedState
  BY DEF SchedState, ThreadState
<1>2. Block(s, why) = Schedule(r)
  BY Zenon DEF Block
<1> QED BY <1>1, <1>2, ScheduleType

LEMMA TimedOutType ==
  ASSUME NEW s \in SchedState, NEW q \in Seq(Threads)
  PROVE  WakeTimedOut(s, q) \in SchedState
<1>1. /\ s.st \in [Threads -> ThreadState] /\ s.rq \in Seq(Threads) /\ s.cur \in Threads
      /\ s.ipc \in [Threads -> IpcState]
  BY DEF SchedState
<1> DEFINE woken == {q[i] : i \in 1 .. Len(q)}
           all   == s.rq \o q
           st2   == [t \in Threads |-> IF t \in woken THEN "Ready" ELSE s.st[t]]
           ipc2  == [t \in Threads |-> IF t \in woken THEN On("TimedOut", None) ELSE s.ipc[t]]
           rq2   == IF Len(all) <= ReadyCap THEN all ELSE SubSeq(all, 1, ReadyCap)
<1>2. st2 \in [Threads -> ThreadState]
  BY <1>1 DEF ThreadState
<1>3. ipc2 \in [Threads -> IpcState]
  BY <1>1 DEF IpcState, IpcReason, On
<1>4. rq2 \in Seq(Threads)
  <2>1. all \in Seq(Threads) /\ Len(all) \in Nat
    BY <1>1
  <2>2. \A i \in 1 .. ReadyCap : Len(all) > ReadyCap => all[i] \in Threads
    BY <2>1, ReadyCapAssumption
  <2> HIDE DEF all
  <2> QED BY <2>1, <2>2, ReadyCapAssumption
<1>5. WakeTimedOut(s, q) = [st |-> st2, ipc |-> ipc2, rq |-> rq2, cur |-> s.cur]
  BY Zenon DEF WakeTimedOut
<1> HIDE DEF st2, ipc2, rq2
<1> QED BY <1>1, <1>2, <1>3, <1>4, <1>5 DEF SchedState

-----------------------------------------------------------------------------
(* The part of TypeOK that the channel operations touch.                   *)
PcType ==
  /\ pc \in [Threads -> [at : {"user", "recv", "sent", "woken", "noted"},
                         op : Op, on : Objects \cup {None}]]
  /\ \A t \in Threads : pc[t].at \in {"recv", "sent", "woken"} => pc[t].on \in Channels

ChannelType ==
  /\ sched \in SchedState
  /\ sendq \in [Channels -> Seq(Parked)]
  /\ recvq \in [Channels -> Seq(Threads)]
  /\ buf \in [Threads -> Msg \cup {NoMsg}]
  /\ PcType
  /\ ret \in [Threads -> Ret]
  /\ wakes \in [Threads -> Nat]

LEMMA CurType == TypeOK => cur \in Threads
  BY DEF TypeOK, cur, SchedState

(* Moving the current thread to another continuation.                      *)
LEMMA PcStep ==
  ASSUME TypeOK, NEW at \in {"user", "recv", "sent", "woken", "noted"}, NEW op \in Op,
         NEW o \in Objects \cup {None},
         at \in {"recv", "sent", "woken"} => o \in Channels,
         pc' = [pc EXCEPT ![cur] = At(at, op, o)]
  PROVE  PcType'
<1>1. cur \in Threads
  BY CurType
<1> QED BY <1>1 DEF TypeOK, PcType, At

LEMMA UserType == /\ User = At("user", "yield", None) /\ "yield" \in Op
                  /\ None \in Objects \cup {None}
  BY DEF User, Op

LEMMA AfterSendType ==
  ASSUME TypeOK, NEW op \in Op, NEW c \in Channels,
         pc' = [pc EXCEPT ![cur] = AfterSend(op, c)]
  PROVE  PcType'
<1>1. c \in Objects \cup {None}
  BY IpcAssumption
<1>2. CASE op = "call"
  <2>1. AfterSend(op, c) = At("recv", "recv", c)
    BY <1>2 DEF AfterSend
  <2> QED BY <1>1, <2>1, PcStep DEF Op
<1>3. CASE op = "callT"
  <2>1. AfterSend(op, c) = At("recv", "recvT", c)
    BY <1>3 DEF AfterSend
  <2> QED BY <1>1, <2>1, PcStep DEF Op
<1>4. CASE op \notin {"call", "callT"}
  <2>1. AfterSend(op, c) = User
    BY <1>4 DEF AfterSend
  <2> QED BY <2>1, UserType, PcStep
<1> QED BY <1>2, <1>3, <1>4

LEMMA RetType ==
  /\ \A k \in {"none", "empty", "ETIMEDOUT", "EBADF"} : Code(k) \in Ret
  /\ \A m \in Msg \cup {NoMsg} : Got(m) \in Ret
  BY DEF Code, Got, Ret, NoMsg

LEMMA SendOnType ==
  ASSUME TypeOK, NEW op \in Op, NEW c \in Channels, NEW m \in Msg, SendOn(op, c, m)
  PROVE  ChannelType'
<1>1. cur \in Threads /\ c \in Objects \cup {None}
  BY CurType, IpcAssumption
<1>2. CASE recvq[c] # << >>
  <2> DEFINE r == Head(recvq[c])
  <2>1. r \in Threads /\ Tail(recvq[c]) \in Seq(Threads)
    BY <1>2 DEF TypeOK
  <2>2. /\ recvq' = [recvq EXCEPT ![c] = Tail(@)] /\ sched' = Wake(sched, r)
        /\ wakes' = [wakes EXCEPT ![r] = @ + 1] /\ UNCHANGED <<sendq, ret>>
        /\ pc' = [pc EXCEPT ![cur] = AfterSend(op, c)] /\ Deliver(r, m)
    BY <1>2 DEF SendOn
  <2>3. sched' \in SchedState
    BY <2>1, <2>2, WakeType DEF TypeOK
  <2>4. PcType'
    BY <2>2, AfterSendType
  <2>5. buf' \in [Threads -> Msg \cup {NoMsg}]
    BY <2>1, <2>2 DEF TypeOK, Deliver
  <2> HIDE DEF r
  <2>6. recvq' \in [Channels -> Seq(Threads)] /\ wakes' \in [Threads -> Nat]
    BY <2>1, <2>2 DEF TypeOK
  <2> QED BY <2>2, <2>3, <2>4, <2>5, <2>6 DEF ChannelType, TypeOK
<1>3. CASE recvq[c] = << >> /\ Len(sendq[c]) < WaitCap
  <2>1. /\ sendq' = [sendq EXCEPT ![c] = Append(@, [tid |-> cur, msg |-> m])]
        /\ sched' = Block(sched, On("BlockedOnSend", c)) /\ wakes' = [wakes EXCEPT ![cur] = 0]
        /\ pc' = [pc EXCEPT ![cur] = At("sent", op, c)] /\ UNCHANGED <<recvq, buf, ret>>
    BY <1>3, IpcAssumption DEF SendOn, TypeOK
  <2>2. sched' \in SchedState
    BY <1>1, <2>1, BlockType DEF TypeOK, On, IpcState, IpcReason
  <2>3. PcType'
    BY <1>1, <2>1, PcStep
  <2>4. sendq' \in [Channels -> Seq(Parked)]
    <3>1. [tid |-> cur, msg |-> m] \in Parked
      BY <1>1 DEF Parked
    <3>2. Append(sendq[c], [tid |-> cur, msg |-> m]) \in Seq(Parked)
      BY <3>1 DEF TypeOK
    <3> QED BY <2>1, <3>2 DEF TypeOK
  <2>5. wakes' \in [Threads -> Nat]
    BY <1>1, <2>1 DEF TypeOK
  <2> QED BY <2>1, <2>2, <2>3, <2>4, <2>5 DEF ChannelType, TypeOK
<1>4. CASE recvq[c] = << >> /\ Len(sendq[c]) >= WaitCap
  <2>1. /\ ret' = [ret EXCEPT ![cur] = Code("EBADF")] /\ pc' = [pc EXCEPT ![cur] = User]
        /\ UNCHANGED <<sched, sendq, recvq, buf, wakes>>
    BY <1>4, IpcAssumption DEF SendOn, TypeOK
  <2>2. PcType'
    BY <2>1, PcStep, UserType
  <2>3. ret' \in [Threads -> Ret]
    BY <1>1, <2>1, RetType DEF TypeOK
  <2> QED BY <2>1, <2>2, <2>3 DEF ChannelType, TypeOK
<1> QED BY <1>2, <1>3, <1>4 DEF SendOn

LEMMA RecvOnType ==
  ASSUME TypeOK, NEW op \in Op, NEW c \in Channels, RecvOn(op, c)
  PROVE  /\ ChannelType'
         /\ timerq' \in Seq(Threads)
         /\ owed' \in [Threads -> Msg \cup {NoMsg}]
<1>1. cur \in Threads /\ c \in Objects \cup {None}
  BY CurType, IpcAssumption
<1>2. CASE sendq[c] # << >>
  <2> DEFINE e == Head(sendq[c])
  <2>a. e \in Parked /\ Tail(sendq[c]) \in Seq(Parked)
    BY <1>2 DEF TypeOK
  <2>1. e.tid \in Threads /\ e.msg \in Msg /\ Tail(sendq[c]) \in Seq(Parked)
    <3> HIDE DEF e
    <3> QED BY <2>a DEF Parked
  <2>2. /\ sendq' = [sendq EXCEPT ![c] = Tail(@)] /\ sched' = Wake(sched, e.tid)
        /\ wakes' = [wakes EXCEPT ![e.tid] = @ + 1] /\ UNCHANGED <<recvq, timerq>>
        /\ pc' = [pc EXCEPT ![cur] = User] /\ Deliver(cur, e.msg)
        /\ ret' = [ret EXCEPT ![cur] = Got(e.msg)]
        /\ owed' = IF cur \in Servers THEN [owed EXCEPT ![cur] = e.msg] ELSE owed
    BY <1>2 DEF RecvOn
  <2>3. sched' \in SchedState
    BY <2>1, <2>2, WakeType DEF TypeOK
  <2>4. PcType'
    BY <2>2, UserType, PcStep
  <2> HIDE DEF e
  <2>5. buf' \in [Threads -> Msg \cup {NoMsg}] /\ owed' \in [Threads -> Msg \cup {NoMsg}]
    BY <1>1, <2>1, <2>2 DEF TypeOK, Deliver
  <2>6. ret' \in [Threads -> Ret] /\ wakes' \in [Threads -> Nat] /\ timerq' \in Seq(Threads)
    BY <1>1, <2>1, <2>2, RetType DEF TypeOK
  <2> QED BY <2>1, <2>2, <2>3, <2>4, <2>5, <2>6 DEF ChannelType, TypeOK
<1>3. CASE sendq[c] = << >> /\ Len(recvq[c]) < WaitCap
  <2>1. /\ recvq' = [recvq EXCEPT ![c] = Append(@, cur)]
        /\ IF op = "recvT" THEN \E i \in 0 .. Len(timerq) : timerq' = Inserted(timerq, i, cur)
                           ELSE UNCHANGED timerq
        /\ sched' = Block(sched, On("BlockedOnReceive", c)) /\ wakes' = [wakes EXCEPT ![cur] = 0]
        /\ pc' = [pc EXCEPT ![cur] = At("woken", op, c)] /\ UNCHANGED <<sendq, buf, ret, owed>>
    BY <1>3, IpcAssumption DEF RecvOn, TypeOK
  <2>2. sched' \in SchedState
    BY <1>1, <2>1, BlockType DEF TypeOK, On, IpcState, IpcReason
  <2>3. PcType'
    BY <1>1, <2>1, PcStep
  <2>4. timerq' \in Seq(Threads)
    <3>1. ASSUME NEW i \in 0 .. Len(timerq) PROVE Inserted(timerq, i, cur) \in Seq(Threads)
      <4>1. timerq \in Seq(Threads) /\ Len(timerq) \in Nat
        BY DEF TypeOK
      <4>2. SubSeq(timerq, 1, i) \in Seq(Threads)
        BY <4>1
      <4>3. SubSeq(timerq, i + 1, Len(timerq)) \in Seq(Threads)
        BY <4>1
      <4> QED BY <1>1, <4>2, <4>3 DEF Inserted
    <3> QED BY <2>1, <3>1 DEF TypeOK
  <2>5. recvq' \in [Channels -> Seq(Threads)]
    <3>1. Append(recvq[c], cur) \in Seq(Threads)
      BY <1>1 DEF TypeOK
    <3> QED BY <2>1, <3>1 DEF TypeOK
  <2>6. wakes' \in [Threads -> Nat]
    BY <1>1, <2>1 DEF TypeOK
  <2> QED BY <2>1, <2>2, <2>3, <2>4, <2>5, <2>6 DEF ChannelType, TypeOK
<1>4. CASE sendq[c] = << >> /\ Len(recvq[c]) >= WaitCap
  <2>1. /\ ret' = [ret EXCEPT ![cur] = Code("EBADF")] /\ pc' = [pc EXCEPT ![cur] = User]
        /\ UNCHANGED <<sched, sendq, recvq, timerq, buf, owed, wakes>>
    BY <1>4, IpcAssumption DEF RecvOn, TypeOK
  <2>2. PcType'
    BY <2>1, PcStep, UserType
  <2>3. ret' \in [Threads -> Ret]
    BY <1>1, <2>1, RetType DEF TypeOK
  <2> QED BY <2>1, <2>2, <2>3 DEF ChannelType, TypeOK
<1> QED BY <1>2, <1>3, <1>4 DEF RecvOn

LEMMA WithoutType ==
  ASSUME NEW q \in Seq(Threads), NEW t \in Threads
  PROVE  Without(q, t) \in Seq(Threads)
<1>1. CASE ~ \E i \in 1 .. Len(q) : q[i] = t
  BY <1>1 DEF Without
<1>2. ASSUME NEW i \in 1 .. Len(q)
      PROVE  SubSeq(q, 1, i - 1) \o SubSeq(q, i + 1, Len(q)) \in Seq(Threads)
  <2>1. SubSeq(q, 1, i - 1) \in Seq(Threads)
    OBVIOUS
  <2>2. SubSeq(q, i + 1, Len(q)) \in Seq(Threads)
    OBVIOUS
  <2> QED BY <2>1, <2>2
<1>3. CASE \E i \in 1 .. Len(q) : q[i] = t
  <2> DEFINE P(i) == q[i] = t /\ \A j \in 1 .. (i - 1) : q[j] # t
             first == CHOOSE i \in 1 .. Len(q) : P(i)
  <2>1. \E i \in 1 .. Len(q) : P(i)
    <3> DEFINE S == {i \in 1 .. Len(q) : q[i] = t}
    <3>1. S \in SUBSET Nat /\ S # {}
      BY <1>3
    <3>2. PICK i \in S : \A j \in S : ~ (<<j, i>> \in OpToRel(<, Nat))
      <4> HIDE DEF S
      <4> QED BY <3>1, NatLessThanWellFounded, WFMin, Zenon
    <3>3. \A j \in S : ~ (j < i)
      <4> HIDE DEF S
      <4> QED BY <3>1, <3>2 DEF OpToRel
    <3>4. i \in 1 .. Len(q) /\ q[i] = t /\ \A j \in 1 .. Len(q) : q[j] = t => ~ (j < i)
      BY <3>2, <3>3
    <3>5. \A j \in 1 .. (i - 1) : q[j] # t
      BY <3>4
    <3> QED BY <3>4, <3>5
  <2>2. first \in 1 .. Len(q)
    <3> HIDE DEF P
    <3> QED BY <2>1
  <2>3. Without(q, t) = SubSeq(q, 1, first - 1) \o SubSeq(q, first + 1, Len(q))
    BY <1>3, Zenon DEF Without
  <2> HIDE DEF first
  <2> QED BY <1>2, <2>2, <2>3
<1> QED BY <1>1, <1>3

-----------------------------------------------------------------------------
NotifType ==
  /\ signaled \in [Notifs -> BOOLEAN]
  /\ notifyq \in [Notifs -> Seq(Threads)]

LEMMA TypeParts ==
  TypeOK <=> /\ ChannelType /\ NotifType
             /\ timerq \in Seq(Threads)
             /\ owed \in [Threads -> Msg \cup {NoMsg}]
  BY DEF TypeOK, ChannelType, PcType, NotifType

LEMMA TypePartsAfter ==
  TypeOK' <=> /\ ChannelType' /\ NotifType'
              /\ timerq' \in Seq(Threads)
              /\ owed' \in [Threads -> Msg \cup {NoMsg}]
  BY DEF TypeOK, ChannelType, PcType, NotifType

(* What an action that only moves the current thread's pc leaves typed.    *)
LEMMA BackInUser ==
  ASSUME TypeOK, pc' = [pc EXCEPT ![cur] = User]
  PROVE  PcType'
  BY PcStep, UserType

LEMMA SignalType ==
  ASSUME TypeOK, NEW n \in Notifs, Signal(n)
  PROVE  /\ NotifType' /\ sched' \in SchedState /\ wakes' \in [Threads -> Nat]
<1>1. CASE notifyq[n] # << >>
  <2> DEFINE w == Head(notifyq[n])
  <2>1. w \in Threads /\ Tail(notifyq[n]) \in Seq(Threads)
    BY <1>1 DEF TypeOK
  <2>2. /\ notifyq' = [notifyq EXCEPT ![n] = Tail(@)] /\ sched' = Wake(sched, w)
        /\ wakes' = [wakes EXCEPT ![w] = @ + 1] /\ UNCHANGED signaled
    BY <1>1 DEF Signal
  <2> HIDE DEF w
  <2>3. sched' \in SchedState
    BY <2>1, <2>2, WakeType DEF TypeOK
  <2>4. wakes' \in [Threads -> Nat]
    BY <2>1, <2>2 DEF TypeOK
  <2> QED BY <2>1, <2>2, <2>3, <2>4 DEF TypeOK, NotifType
<1>2. CASE notifyq[n] = << >>
  <2>1. signaled' = [signaled EXCEPT ![n] = TRUE] /\ UNCHANGED <<notifyq, sched, wakes>>
    BY <1>2 DEF Signal
  <2> QED BY <2>1 DEF TypeOK, NotifType
<1> QED BY <1>1, <1>2

LEMMA NotifyWaitType ==
  ASSUME TypeOK, NEW n \in Notifs, NotifyWait(n)
  PROVE  /\ NotifType' /\ sched' \in SchedState /\ wakes' \in [Threads -> Nat]
         /\ PcType' /\ ret' \in [Threads -> Ret]
<1>1. cur \in Threads /\ n \in Objects
  BY CurType, IpcAssumption
<1>2. CASE signaled[n]
  <2>1. signaled' = [signaled EXCEPT ![n] = FALSE]
        /\ UNCHANGED <<notifyq, sched, pc, wakes, ret>>
    BY <1>2 DEF NotifyWait
  <2> QED BY <2>1 DEF TypeOK, NotifType, PcType
<1>3. CASE ~ signaled[n] /\ Len(notifyq[n]) < WaitCap
  <2>1. /\ notifyq' = [notifyq EXCEPT ![n] = Append(@, cur)]
        /\ sched' = Block(sched, On("BlockedOnNotify", n)) /\ wakes' = [wakes EXCEPT ![cur] = 0]
        /\ pc' = [pc EXCEPT ![cur] = At("noted", "notifyWait", n)] /\ UNCHANGED <<signaled, ret>>
    BY <1>3, IpcAssumption DEF NotifyWait, TypeOK
  <2>2. sched' \in SchedState
    BY <1>1, <2>1, BlockType DEF TypeOK, On, IpcState, IpcReason
  <2>3. PcType'
    BY <1>1, <2>1, PcStep DEF Op
  <2>4. wakes' \in [Threads -> Nat]
    BY <1>1, <2>1 DEF TypeOK
  <2>5. notifyq' \in [Notifs -> Seq(Threads)]
    <3>1. Append(notifyq[n], cur) \in Seq(Threads)
      BY <1>1 DEF TypeOK
    <3> QED BY <2>1, <3>1 DEF TypeOK
  <2> QED BY <2>1, <2>2, <2>3, <2>4, <2>5 DEF TypeOK, NotifType
<1>4. CASE ~ signaled[n] /\ Len(notifyq[n]) >= WaitCap
  <2>1. ret' = [ret EXCEPT ![cur] = Code("EBADF")]
        /\ UNCHANGED <<signaled, notifyq, sched, pc, wakes>>
    BY <1>4, IpcAssumption DEF NotifyWait, TypeOK
  <2>2. ret' \in [Threads -> Ret]
    BY <1>1, <2>1, RetType DEF TypeOK
  <2> QED BY <2>1, <2>2 DEF TypeOK, NotifType, PcType
<1> QED BY <1>2, <1>3, <1>4, IpcAssumption DEF NotifyWait

LEMMA TimerIrqType ==
  ASSUME TypeOK, TimerIrq
  PROVE  sched' \in SchedState /\ timerq' \in Seq(Threads)
<1>1. PICK k \in 0 .. Len(timerq) :
        /\ sched' = Schedule(WakeTimedOut(sched, SubSeq(timerq, 1, k)))
        /\ timerq' = SubSeq(timerq, k + 1, Len(timerq))
  BY DEF TimerIrq
<1>2. timerq \in Seq(Threads) /\ sched \in SchedState
  BY DEF TypeOK
<1>3. SubSeq(timerq, 1, k) \in Seq(Threads)
  BY <1>2
<1>4. SubSeq(timerq, k + 1, Len(timerq)) \in Seq(Threads)
  BY <1>2
<1> QED BY <1>1, <1>2, <1>3, <1>4, TimedOutType, ScheduleType

LEMMA InitType == Init => TypeOK
<1> SUFFICES ASSUME Init PROVE TypeOK
  OBVIOUS
<1>1. sched \in SchedState
  <2>1. PICK order \in [1 .. Cardinality(Threads) - 1 -> Threads \ {Boot}] :
          sched = [st  |-> [t \in Threads |-> IF t = Boot THEN "Running" ELSE "Ready"],
                   ipc |-> [t \in Threads |-> IpcReady], rq  |-> order, cur |-> Boot]
    BY DEF Init
  <2>2. Cardinality(Threads) \in Nat /\ Cardinality(Threads) - 1 \in Nat
    <3>1. Cardinality(Threads) \in Nat /\ Cardinality(Threads) # 0
      BY IpcAssumption, FS_CardinalityType, FS_EmptySet
    <3> QED BY <3>1
  <2>3. order \in Seq(Threads)
    BY <2>2
  <2>4. IpcReady \in IpcState
    BY DEF IpcReady, IpcState, IpcReason, On
  <2> QED BY <2>1, <2>3, <2>4, IpcAssumption DEF SchedState, ThreadState
<1>2. ChannelType
  <2>1. PcType
    BY UserType DEF Init, PcType, At
  <2>2. ret \in [Threads -> Ret]
    BY RetType DEF Init
  <2>3. sendq \in [Channels -> Seq(Parked)] /\ recvq \in [Channels -> Seq(Threads)]
    BY DEF Init
  <2>4. buf \in [Threads -> Msg \cup {NoMsg}] /\ wakes \in [Threads -> Nat]
    BY DEF Init
  <2> QED BY <1>1, <2>1, <2>2, <2>3, <2>4 DEF ChannelType
<1>3. NotifType /\ timerq \in Seq(Threads) /\ owed \in [Threads -> Msg \cup {NoMsg}]
  BY DEF Init, NotifType
<1> QED BY <1>2, <1>3, TypeParts

LEMMA NextType == TypeOK /\ [Next]_vars => TypeOK'
<1> SUFFICES ASSUME TypeOK, [Next]_vars PROVE TypeOK'
  OBVIOUS
<1> USE TypeParts, TypePartsAfter
<1>1. cur \in Threads
  BY CurType
<1>2. ASSUME NEW c \in Channels, NEW op \in {"send", "call", "callT"}, SysSend(op, c)
      PROVE  TypeOK'
  <2>1. [src |-> cur, re |-> None] \in Msg
    BY <1>1 DEF Msg
  <2>2. ChannelType'
    BY <1>2, <2>1, SendOnType DEF SysSend, Op
  <2> QED BY <1>2, <2>2 DEF SysSend, notifVars, NotifType
<1>3. ASSUME NEW c \in Channels, NEW op \in {"recv", "recvT"}, SysRecv(op, c)
      PROVE  TypeOK'
  BY <1>3, RecvOnType DEF SysRecv, notifVars, NotifType, Op
<1>4. ASSUME NEW n \in Notifs, NotifySend(n) PROVE TypeOK'
  <2>1. NotifType' /\ sched' \in SchedState /\ wakes' \in [Threads -> Nat]
    BY <1>4, SignalType DEF NotifySend
  <2> QED BY <1>4, <2>1 DEF NotifySend, ipcVars, ChannelType, PcType
<1>5. ASSUME NEW n \in Notifs, NotifyWait(n) PROVE TypeOK'
  <2>1. /\ NotifType' /\ sched' \in SchedState /\ wakes' \in [Threads -> Nat]
        /\ PcType' /\ ret' \in [Threads -> Ret]
    BY <1>5, NotifyWaitType
  <2>2. UNCHANGED <<sendq, recvq, timerq, buf, owed>>
    BY <1>5 DEF NotifyWait, ipcVars
  <2> QED BY <2>1, <2>2 DEF ChannelType
<1>6. CASE Yield
  <2>1. sched' \in SchedState
    BY <1>6, ScheduleType DEF Yield, TypeOK
  <2> QED BY <1>6, <2>1 DEF Yield, ipcVars, notifVars, NotifType, ChannelType, PcType
<1>7. CASE CallRecv
  <2>1. pc[cur].op \in Op /\ pc[cur].on \in Channels
    BY <1>1, <1>7 DEF CallRecv, TypeOK
  <2> QED BY <1>7, <2>1, RecvOnType DEF CallRecv, notifVars, NotifType
<1>8. CASE SendReturns
  <2>1. pc[cur].op \in Op /\ pc[cur].on \in Channels
    BY <1>1, <1>8 DEF SendReturns, TypeOK
  <2>2. PcType'
    BY <1>8, <2>1, AfterSendType DEF SendReturns
  <2>3. wakes' \in [Threads -> Nat]
    BY <1>1, <1>8 DEF SendReturns, TypeOK
  <2> QED BY <1>8, <2>2, <2>3 DEF SendReturns, ipcVars, notifVars, NotifType, ChannelType
<1>9. CASE RecvTimesOut
  <2>1. pc[cur].on \in Channels
    BY <1>1, <1>9 DEF RecvTimesOut, TypeOK
  <2>2. PcType'
    BY <1>9, BackInUser DEF RecvTimesOut
  <2>3. wakes' \in [Threads -> Nat]
    BY <1>1, <1>9 DEF RecvTimesOut, TypeOK
  <2>4. ret' \in [Threads -> Ret]
    BY <1>1, <1>9, RetType DEF RecvTimesOut, TypeOK
  <2>5. recvq' \in [Channels -> Seq(Threads)]
    <3>1. Without(recvq[pc[cur].on], cur) \in Seq(Threads)
      BY <1>1, <2>1, WithoutType DEF TypeOK
    <3> QED BY <1>9, <2>1, <3>1 DEF RecvTimesOut, TypeOK
  <2> QED BY <1>9, <2>2, <2>3, <2>4, <2>5
          DEF RecvTimesOut, notifVars, NotifType, ChannelType
<1>10. CASE RecvReturns
  <2>1. PcType'
    BY <1>10, BackInUser DEF RecvReturns
  <2>2. wakes' \in [Threads -> Nat]
    BY <1>1, <1>10 DEF RecvReturns, TypeOK
  <2>3. ret' \in [Threads -> Ret]
    BY <1>1, <1>10, RetType DEF RecvReturns, TypeOK
  <2>4. timerq' \in Seq(Threads)
    BY <1>1, <1>10, WithoutType DEF RecvReturns, TypeOK
  <2>5. owed' \in [Threads -> Msg \cup {NoMsg}]
    BY <1>1, <1>10 DEF RecvReturns, TypeOK
  <2> QED BY <1>10, <2>1, <2>2, <2>3, <2>4, <2>5
          DEF RecvReturns, ipcVars, notifVars, NotifType, ChannelType
<1>11. CASE NotifyReturns
  <2>1. PcType'
    BY <1>11, BackInUser DEF NotifyReturns
  <2>2. wakes' \in [Threads -> Nat]
    BY <1>1, <1>11 DEF NotifyReturns, TypeOK
  <2> QED BY <1>11, <2>1, <2>2 DEF NotifyReturns, ipcVars, notifVars, NotifType, ChannelType
<1>12. CASE ServerRecv
  BY <1>12, RecvOnType, IpcAssumption DEF ServerRecv, notifVars, NotifType, Op
<1>13. CASE ServerReply
  <2>1. owed[cur] \in Msg
    BY <1>1, <1>13 DEF ServerReply, TypeOK
  <2>2. [src |-> cur, re |-> owed[cur].src] \in Msg
    BY <1>1, <2>1 DEF Msg
  <2>3. ChannelType'
    BY <1>13, <2>2, SendOnType, IpcAssumption DEF ServerReply, Op
  <2>4. owed' \in [Threads -> Msg \cup {NoMsg}]
    BY <1>1, <1>13 DEF ServerReply, TypeOK
  <2> QED BY <1>13, <2>3, <2>4 DEF ServerReply, notifVars, NotifType
<1>14. CASE TimerIrq
  <2>1. sched' \in SchedState /\ timerq' \in Seq(Threads)
    BY <1>14, TimerIrqType
  <2> QED BY <1>14, <2>1 DEF TimerIrq, ipcVars, notifVars, NotifType, ChannelType, PcType
<1>15. CASE UNCHANGED vars
  BY <1>15 DEF vars, TypeOK
<1> QED BY <1>2, <1>3, <1>4, <1>5, <1>6, <1>7, <1>8, <1>9, <1>10, <1>11, <1>12, <1>13,
           <1>14, <1>15 DEF Next, UserCall, KernelStep

(* Every queue entry, buffer, continuation and return value stays in its   *)
(* type whatever the threads, their programs and the interrupts do: no     *)
(* path of send, receive, call, signal, wait or timeout loses track of     *)
(* which channel a thread is in or leaves an undefined entry in a queue.   *)
THEOREM TypeCorrect == Spec => []TypeOK
  BY InitType, NextType, PTL DEF Spec

-----------------------------------------------------------------------------
OneSided == \A c \in Channels : sendq[c] = << >> \/ recvq[c] = << >>
Unsignaled == \A n \in Notifs : signaled[n] => notifyq[n] = << >>

LEMMA SendOnOneSided ==
  ASSUME TypeOK, OneSided, NEW op, NEW c \in Channels, NEW m, SendOn(op, c, m)
  PROVE  OneSided'
<1>1. CASE recvq[c] # << >>
  <2>1. recvq' = [recvq EXCEPT ![c] = Tail(@)] /\ UNCHANGED sendq
    BY <1>1 DEF SendOn
  <2> QED BY <1>1, <2>1 DEF OneSided, TypeOK
<1>2. CASE recvq[c] = << >>
  <2>1. UNCHANGED recvq /\ \A x \in Channels : x # c => sendq'[x] = sendq[x]
    BY <1>2 DEF SendOn, TypeOK
  <2> QED BY <1>2, <2>1 DEF OneSided
<1> QED BY <1>1, <1>2

LEMMA RecvOnOneSided ==
  ASSUME TypeOK, OneSided, NEW op, NEW c \in Channels, RecvOn(op, c)
  PROVE  OneSided'
<1>1. CASE sendq[c] # << >>
  <2>1. sendq' = [sendq EXCEPT ![c] = Tail(@)] /\ UNCHANGED recvq
    BY <1>1 DEF RecvOn
  <2> QED BY <1>1, <2>1 DEF OneSided, TypeOK
<1>2. CASE sendq[c] = << >>
  <2>1. UNCHANGED sendq /\ \A x \in Channels : x # c => recvq'[x] = recvq[x]
    BY <1>2 DEF RecvOn, TypeOK
  <2> QED BY <1>2, <2>1 DEF OneSided
<1> QED BY <1>1, <1>2

LEMMA RendezvousStep == TypeOK /\ NoMissedRendezvous /\ [Next]_vars => NoMissedRendezvous'
<1> SUFFICES ASSUME TypeOK, OneSided, Unsignaled, [Next]_vars
             PROVE  OneSided' /\ Unsignaled'
  BY DEF NoMissedRendezvous, OneSided, Unsignaled
<1>1. cur \in Threads
  BY CurType
<1>2. ASSUME NEW c \in Channels, NEW op, SysSend(op, c)
      PROVE  OneSided' /\ Unsignaled'
  BY <1>2, SendOnOneSided DEF SysSend, notifVars, Unsignaled
<1>3. ASSUME NEW c \in Channels, NEW op, SysRecv(op, c)
      PROVE  OneSided' /\ Unsignaled'
  BY <1>3, RecvOnOneSided DEF SysRecv, notifVars, Unsignaled
<1>4. ASSUME NEW n \in Notifs, NotifySend(n) PROVE OneSided' /\ Unsignaled'
  <2>1. CASE notifyq[n] # << >>
    <3>1. ~ signaled[n] /\ signaled' = signaled
          /\ \A x \in Notifs : x # n => notifyq'[x] = notifyq[x]
      BY <1>4, <2>1 DEF NotifySend, Signal, Unsignaled, TypeOK
    <3> QED BY <1>4, <3>1 DEF NotifySend, ipcVars, OneSided, Unsignaled
  <2>2. CASE notifyq[n] = << >>
    <3>1. notifyq' = notifyq /\ \A x \in Notifs : x # n => signaled'[x] = signaled[x]
      BY <1>4, <2>2 DEF NotifySend, Signal, TypeOK
    <3> QED BY <1>4, <2>2, <3>1 DEF NotifySend, ipcVars, OneSided, Unsignaled
  <2> QED BY <2>1, <2>2
<1>5. ASSUME NEW n \in Notifs, NotifyWait(n) PROVE OneSided' /\ Unsignaled'
  <2>1. CASE signaled[n]
    <3>1. notifyq' = notifyq /\ ~ signaled'[n]
          /\ \A x \in Notifs : x # n => signaled'[x] = signaled[x]
      BY <1>5, <2>1 DEF NotifyWait, TypeOK
    <3> QED BY <1>5, <3>1 DEF NotifyWait, ipcVars, OneSided, Unsignaled
  <2>2. CASE ~ signaled[n]
    <3>1. signaled' = signaled /\ \A x \in Notifs : x # n => notifyq'[x] = notifyq[x]
      BY <1>5, <2>2 DEF NotifyWait, TypeOK
    <3> QED BY <1>5, <2>2, <3>1 DEF NotifyWait, ipcVars, OneSided, Unsignaled
  <2> QED BY <2>1, <2>2
<1>6. CASE CallRecv
  <2>1. pc[cur].on \in Channels
    BY <1>1, <1>6 DEF CallRecv, TypeOK
  <2> QED BY <1>6, <2>1, RecvOnOneSided DEF CallRecv, notifVars, Unsignaled
<1>7. CASE RecvTimesOut
  <2>1. Without(<< >>, cur) = << >>
    BY DEF Without
  <2>2. sendq' = sendq /\ \A c \in Channels : recvq[c] = << >> => recvq'[c] = << >>
    BY <1>7, <2>1 DEF RecvTimesOut, TypeOK
  <2> QED BY <1>7, <2>2 DEF RecvTimesOut, notifVars, OneSided, Unsignaled
<1>8. CASE ServerRecv
  BY <1>8, RecvOnOneSided, IpcAssumption DEF ServerRecv, notifVars, Unsignaled
<1>9. CASE ServerReply
  BY <1>9, SendOnOneSided, IpcAssumption DEF ServerReply, notifVars, Unsignaled
<1>10. ASSUME UNCHANGED <<sendq, recvq, signaled, notifyq>>
       PROVE  OneSided' /\ Unsignaled'
  BY <1>10 DEF OneSided, Unsignaled
<1>11. CASE Yield \/ SendReturns \/ RecvReturns \/ NotifyReturns \/ TimerIrq
  BY <1>10, <1>11
     DEF Yield, SendReturns, RecvReturns, NotifyReturns, TimerIrq, ipcVars, notifVars
<1>12. CASE UNCHANGED vars
  BY <1>10, <1>12 DEF vars
<1> QED BY <1>2, <1>3, <1>4, <1>5, <1>6, <1>7, <1>8, <1>9, <1>11, <1>12
        DEF Next, UserCall, KernelStep

(* No wakeup is lost in the queues: in every execution, with timeouts and  *)
(* whatever the programs do, no channel holds a parked sender beside a     *)
(* parked receiver, and no notification holds a pending signal beside a    *)
(* waiter.                                                                 *)
THEOREM RendezvousNeverMissed == Spec => []NoMissedRendezvous
<1>1. Init => NoMissedRendezvous
  BY DEF Init, NoMissedRendezvous
<1> QED BY <1>1, TypeCorrect, RendezvousStep, PTL DEF Spec

=============================================================================
