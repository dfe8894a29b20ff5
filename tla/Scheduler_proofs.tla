-------------------------- MODULE Scheduler_proofs --------------------------
(***************************************************************************)
(* What wake(), schedule() and block_current() do to a scheduler state     *)
(* that keeps the promises of queue.rs, for any number of threads.         *)
(***************************************************************************)
EXTENDS Scheduler, FiniteSetTheorems, TLAPS

(* The ready queue of a consistent state has room for every thread that is *)
(* neither Ready nor on the CPU, when the threads fit the level.           *)
LEMMA RoomForOne ==
  ASSUME IsFiniteSet(Threads), Cardinality(Threads) <= ReadyCap + 1,
         NEW s \in SchedState, QueuedOnce(s),
         NEW u \in Threads, NEW v \in Threads, u # v,
         u \notin Queued(s), v \notin Queued(s)
  PROVE  Len(s.rq) < ReadyCap
<1> DEFINE n == Len(s.rq)
           Q == Queued(s)
<1>1. s.rq \in Seq(Threads) /\ n \in Nat /\ s.rq \in [1 .. n -> Threads]
  BY DEF SchedState
<1>2. Q \subseteq Threads \ {u, v}
  BY <1>1 DEF Queued
<1>3. IsFiniteSet(Threads \ {u}) /\ Cardinality(Threads \ {u}) = Cardinality(Threads) - 1
  BY FS_RemoveElement
<1>4. /\ IsFiniteSet((Threads \ {u}) \ {v})
      /\ Cardinality((Threads \ {u}) \ {v}) = Cardinality(Threads \ {u}) - 1
  BY <1>3, FS_RemoveElement
<1>5. IsFiniteSet(Q) /\ Cardinality(Q) <= Cardinality(Threads) - 2
  <2>1. Q \subseteq (Threads \ {u}) \ {v}
    BY <1>2
  <2>2. Cardinality(Threads) \in Nat /\ Cardinality(Q) \in Nat /\ IsFiniteSet(Q)
    BY <2>1, <1>4, FS_CardinalityType, FS_Subset
  <2>3. Cardinality(Q) <= Cardinality((Threads \ {u}) \ {v})
    BY <2>1, <1>4, FS_Subset
  <2> QED BY <2>2, <2>3, <1>3, <1>4
<1>6. Cardinality(Q) = n
  <2>1. s.rq \in Bijection(1 .. n, Q)
    BY <1>1 DEF Queued, QueuedOnce, Bijection, Injection, Surjection, IsInjective
  <2>2. ExistsBijection(1 .. n, Q)
    BY <2>1 DEF ExistsBijection
  <2> QED BY <2>2, <1>1, FS_CountingElements
<1> QED
  BY <1>1, <1>5, <1>6, FS_CardinalityType, ReadyCapAssumption

(* The thread on the CPU is not queued, so the queue fits its level.       *)
LEMMA QueueFits ==
  ASSUME IsFiniteSet(Threads), Cardinality(Threads) <= ReadyCap + 1,
         NEW s \in SchedState, QueuedOnce(s), NEW u \in Threads, u \notin Queued(s)
  PROVE  Len(s.rq) <= ReadyCap
<1> DEFINE n == Len(s.rq)
           Q == Queued(s)
<1>1. s.rq \in Seq(Threads) /\ n \in Nat /\ s.rq \in [1 .. n -> Threads]
  BY DEF SchedState
<1>2. Q \subseteq Threads \ {u}
  BY <1>1 DEF Queued
<1>3. IsFiniteSet(Threads \ {u}) /\ Cardinality(Threads \ {u}) = Cardinality(Threads) - 1
  BY FS_RemoveElement
<1>4. /\ Cardinality(Threads) \in Nat /\ Cardinality(Q) \in Nat
      /\ Cardinality(Q) <= Cardinality(Threads \ {u})
  BY <1>2, <1>3, FS_CardinalityType, FS_Subset
<1>5. Cardinality(Q) = n
  <2>1. s.rq \in Bijection(1 .. n, Q)
    BY <1>1 DEF Queued, QueuedOnce, Bijection, Injection, Surjection, IsInjective
  <2>2. ExistsBijection(1 .. n, Q)
    BY <2>1 DEF ExistsBijection
  <2> QED BY <2>2, <1>1, FS_CountingElements
<1> QED BY <1>1, <1>3, <1>4, <1>5, ReadyCapAssumption

(* wake() of a Blocked thread keeps the scheduler state consistent.        *)
LEMMA WakeConsistent ==
  ASSUME NEW s \in SchedState, Consistent(s), Len(s.rq) < ReadyCap,
         NEW t \in Threads, s.st[t] = "Blocked"
  PROVE  /\ Wake(s, t) \in SchedState
         /\ Consistent(Wake(s, t))
         /\ Wake(s, t).st = [s.st EXCEPT ![t] = "Ready"]
         /\ Wake(s, t).ipc = [s.ipc EXCEPT ![t] = IpcReady]
         /\ Wake(s, t).cur = s.cur
<1>1. /\ s.st \in [Threads -> ThreadState] /\ s.ipc \in [Threads -> IpcState]
      /\ s.rq \in Seq(Threads) /\ s.cur \in Threads /\ Len(s.rq) \in Nat
  BY DEF SchedState
<1>2. IpcReady \in IpcState
  BY DEF IpcReady, IpcState, IpcReason, On
<1>3. Wake(s, t) = [st  |-> [s.st EXCEPT ![t] = "Ready"],
                    ipc |-> [s.ipc EXCEPT ![t] = IpcReady],
                    rq  |-> Append(s.rq, t), cur |-> s.cur]
  <2>1. ~ (Len(s.rq) >= ReadyCap)
    BY <1>1, ReadyCapAssumption
  <2>2. s.st[t] # "Free"
    OBVIOUS
  <2> QED BY <2>1, <2>2, Zenon DEF Wake, Enqueue
<1>4. Wake(s, t) \in SchedState
  BY <1>1, <1>2, <1>3 DEF SchedState, ThreadState
<1>5. Queued(Wake(s, t)) = Queued(s) \cup {t}
  BY <1>1, <1>3 DEF Queued
<1>6. QueuedOnce(Wake(s, t))
  BY <1>1, <1>3 DEF Consistent, QueuedOnce, QueueHoldsReady, Queued
<1>7. /\ Wake(s, t).st = [s.st EXCEPT ![t] = "Ready"]
      /\ Wake(s, t).ipc = [s.ipc EXCEPT ![t] = IpcReady]
      /\ Wake(s, t).cur = s.cur
  BY <1>3
<1>8. t # s.cur
  BY DEF Consistent, OneRunning
<1>9. QueueHoldsReady(Wake(s, t)) /\ ReadyIsQueued(Wake(s, t))
  <2>1. \A x \in Threads : Wake(s, t).st[x] = IF x = t THEN "Ready" ELSE s.st[x]
    BY <1>1, <1>7
  <2>2. Queued(s) \subseteq Threads
    BY <1>1 DEF Queued
  <2> QED BY <1>5, <2>1, <2>2 DEF Consistent, QueueHoldsReady, ReadyIsQueued
<1>10. OneRunning(Wake(s, t))
  BY <1>1, <1>7, <1>8 DEF Consistent, OneRunning
<1> QED BY <1>4, <1>6, <1>7, <1>9, <1>10 DEF Consistent

(* schedule() by the Running thread: it goes to the back of the queue and  *)
(* the front gets the CPU; alone, it keeps the CPU.                        *)
LEMMA ScheduleConsistent ==
  ASSUME NEW s \in SchedState, Consistent(s), Len(s.rq) <= ReadyCap
  PROVE  /\ Schedule(s) \in SchedState
         /\ Consistent(Schedule(s))
         /\ Schedule(s).ipc = s.ipc
         /\ \A t \in Threads : Schedule(s).st[t] = "Blocked" <=> s.st[t] = "Blocked"
         /\ \A t \in Threads : Schedule(s).st[t] \in {"Ready", "Running"}
                               <=> s.st[t] \in {"Ready", "Running"}
<1>1. /\ s.st \in [Threads -> ThreadState] /\ s.ipc \in [Threads -> IpcState]
      /\ s.rq \in Seq(Threads) /\ s.cur \in Threads /\ Len(s.rq) \in Nat
  BY DEF SchedState
<1>2. CASE s.rq = << >>
  BY <1>2 DEF Schedule
<1>3. CASE s.rq # << >>
  <2> DEFINE next == Head(s.rq)
             st2  == [[s.st EXCEPT ![s.cur] = "Ready"] EXCEPT ![next] = "Running"]
             rq2  == Append(Tail(s.rq), s.cur)
  <2>1. /\ next \in Threads /\ next = s.rq[1] /\ Len(s.rq) >= 1 /\ next \in Queued(s)
        /\ Tail(s.rq) \in Seq(Threads) /\ Len(Tail(s.rq)) = Len(s.rq) - 1
        /\ \A i \in 1 .. Len(s.rq) - 1 : Tail(s.rq)[i] = s.rq[i + 1]
    BY <1>1, <1>3 DEF Queued
  <2>2. s.st[s.cur] = "Running" /\ s.cur \notin Queued(s) /\ next # s.cur
    BY <1>1, <2>1 DEF Consistent, OneRunning, QueueHoldsReady
  <2>3. ~ (Len(Tail(s.rq)) >= ReadyCap)
    BY <1>1, <2>1, ReadyCapAssumption
  <2>4. Schedule(s) = [st |-> st2, ipc |-> s.ipc, rq |-> rq2, cur |-> next]
    BY <1>3, <2>2, <2>3, Zenon DEF Schedule, Enqueue
  <2>5. /\ Schedule(s).st = st2 /\ Schedule(s).rq = rq2 /\ Schedule(s).cur = next
        /\ Schedule(s).ipc = s.ipc
    BY <2>4
  <2>6. Schedule(s) \in SchedState
    BY <1>1, <2>1, <2>4 DEF SchedState, ThreadState
  <2>7. /\ Len(rq2) = Len(s.rq)
        /\ \A i \in 1 .. Len(s.rq) : rq2[i] = IF i = Len(s.rq) THEN s.cur ELSE s.rq[i + 1]
    BY <1>1, <2>1
  <2>8. Queued(Schedule(s)) = (Queued(s) \ {next}) \cup {s.cur}
    <3>1. ASSUME NEW x \in Queued(Schedule(s))
          PROVE  x \in (Queued(s) \ {next}) \cup {s.cur}
      <4>1. PICK i \in 1 .. Len(s.rq) : x = rq2[i]
        BY <2>5, <2>7 DEF Queued
      <4>2. CASE i = Len(s.rq)
        BY <2>7, <4>1, <4>2
      <4>3. CASE i # Len(s.rq)
        <5>1. i + 1 \in 1 .. Len(s.rq) /\ x = s.rq[i + 1] /\ i + 1 # 1
          BY <1>1, <2>1, <2>7, <4>1, <4>3
        <5>2. x # next
          BY <1>1, <2>1, <5>1 DEF Consistent, QueuedOnce
        <5> QED BY <5>1, <5>2 DEF Queued
      <4> QED BY <4>2, <4>3
    <3>2. ASSUME NEW x \in Queued(s), x # next
          PROVE  x \in Queued(Schedule(s))
      <4>1. PICK i \in 1 .. Len(s.rq) : x = s.rq[i]
        BY DEF Queued
      <4>2. i # 1 /\ i - 1 \in 1 .. Len(s.rq) /\ rq2[i - 1] = x
        BY <1>1, <2>1, <2>7, <3>2, <4>1
      <4> QED BY <1>1, <2>5, <2>7, <4>2 DEF Queued
    <3>3. s.cur \in Queued(Schedule(s))
      <4>1. Len(s.rq) \in 1 .. Len(rq2) /\ rq2[Len(s.rq)] = s.cur
        BY <1>1, <2>1, <2>7
      <4> QED BY <2>5, <4>1 DEF Queued
    <3> QED BY <3>1, <3>2, <3>3
  <2>9. QueuedOnce(Schedule(s))
    <3> SUFFICES ASSUME NEW i \in 1 .. Len(s.rq), NEW j \in 1 .. Len(s.rq), rq2[i] = rq2[j]
                 PROVE  i = j
      BY <2>5, <2>7 DEF QueuedOnce
    <3>1. \A k \in 1 .. Len(s.rq) : s.rq[k] # s.cur
      BY <2>2 DEF Queued
    <3> QED BY <1>1, <2>1, <2>7, <3>1 DEF Consistent, QueuedOnce
  <2>10. QueueHoldsReady(Schedule(s)) /\ ReadyIsQueued(Schedule(s))
    <3>1. \A x \in Threads : Schedule(s).st[x] = IF x = next THEN "Running"
                                ELSE IF x = s.cur THEN "Ready" ELSE s.st[x]
      BY <1>1, <2>1, <2>2, <2>5
    <3>2. Queued(s) \subseteq Threads
      BY <1>1 DEF Queued
    <3> HIDE DEF next
    <3> QED BY <1>1, <2>2, <2>8, <3>1, <3>2 DEF Consistent, QueueHoldsReady, ReadyIsQueued
  <2>11. OneRunning(Schedule(s))
    BY <1>1, <2>1, <2>2, <2>5 DEF Consistent, OneRunning
  <2>12. \A t \in Threads :
            /\ Schedule(s).st[t] = "Blocked" <=> s.st[t] = "Blocked"
            /\ Schedule(s).st[t] \in {"Ready", "Running"} <=> s.st[t] \in {"Ready", "Running"}
    BY <1>1, <2>1, <2>2, <2>5 DEF Consistent, QueueHoldsReady
  <2> QED BY <2>5, <2>6, <2>9, <2>10, <2>11, <2>12 DEF Consistent
<1> QED BY <1>2, <1>3

(* block_current() while another thread is Ready: the caller leaves the    *)
(* CPU Blocked for the given reason and the front of the queue gets it.    *)
LEMMA BlockConsistent ==
  ASSUME NEW s \in SchedState, Consistent(s), s.rq # << >>, NEW why \in IpcState
  PROVE  /\ Block(s, why) \in SchedState
         /\ Consistent(Block(s, why))
         /\ Block(s, why).ipc = [s.ipc EXCEPT ![s.cur] = why]
         /\ Block(s, why).st = [[s.st EXCEPT ![s.cur] = "Blocked"]
                                  EXCEPT ![Head(s.rq)] = "Running"]
         /\ Block(s, why).cur = Head(s.rq)
         /\ s.st[Head(s.rq)] = "Ready" /\ Head(s.rq) \in Threads /\ Head(s.rq) # s.cur
<1>1. /\ s.st \in [Threads -> ThreadState] /\ s.ipc \in [Threads -> IpcState]
      /\ s.rq \in Seq(Threads) /\ s.cur \in Threads /\ Len(s.rq) \in Nat
  BY DEF SchedState
<1> DEFINE next == Head(s.rq)
           st1  == [s.st EXCEPT ![s.cur] = "Blocked"]
           st2  == [st1 EXCEPT ![next] = "Running"]
           b    == Block(s, why)
<1>2. /\ next \in Threads /\ next = s.rq[1] /\ Len(s.rq) >= 1 /\ next \in Queued(s)
      /\ Tail(s.rq) \in Seq(Threads) /\ Len(Tail(s.rq)) = Len(s.rq) - 1
      /\ \A i \in 1 .. Len(s.rq) - 1 : Tail(s.rq)[i] = s.rq[i + 1]
  BY <1>1 DEF Queued
<1>3. s.st[s.cur] = "Running" /\ s.st[next] = "Ready" /\ s.cur \notin Queued(s)
      /\ next # s.cur
  BY <1>1, <1>2 DEF Consistent, OneRunning, QueueHoldsReady
<1>4. b = [st |-> st2, ipc |-> [s.ipc EXCEPT ![s.cur] = why], rq |-> Tail(s.rq), cur |-> next]
  <2>1. st1[s.cur] = "Blocked" /\ [st1 EXCEPT ![s.cur] = st1[s.cur]] = st1
    BY <1>1
  <2> DEFINE r == [st |-> st1, ipc |-> [s.ipc EXCEPT ![s.cur] = why], rq |-> s.rq,
                   cur |-> s.cur]
  <2>2. /\ r.st = st1 /\ r.ipc = [s.ipc EXCEPT ![s.cur] = why] /\ r.rq = s.rq /\ r.cur = s.cur
    OBVIOUS
  <2>3. b = Schedule(r)
    BY DEF Block
  <2>4. "Blocked" \notin {"Running", "Ready"}
    OBVIOUS
  <2> HIDE DEF r, st1
  <2>5. Schedule(r) = [st |-> st2, ipc |-> r.ipc, rq |-> Tail(r.rq), cur |-> next]
    BY <2>1, <2>2, <2>4, Zenon DEF Schedule
  <2> QED BY <2>2, <2>3, <2>5
<1>5. /\ b.st = st2 /\ b.rq = Tail(s.rq) /\ b.cur = next
      /\ b.ipc = [s.ipc EXCEPT ![s.cur] = why]
  BY <1>4
<1>6. b \in SchedState
  BY <1>1, <1>2, <1>4 DEF SchedState, ThreadState
<1>7. Queued(b) = Queued(s) \ {next}
  <2>1. ASSUME NEW x \in Queued(b) PROVE x \in Queued(s) \ {next}
    <3>1. PICK i \in 1 .. Len(s.rq) - 1 : x = Tail(s.rq)[i]
      BY <1>2, <1>5 DEF Queued
    <3>2. i + 1 \in 1 .. Len(s.rq) /\ x = s.rq[i + 1] /\ i + 1 # 1
      BY <1>1, <1>2, <3>1
    <3>3. x # next
      BY <1>1, <1>2, <3>2 DEF Consistent, QueuedOnce
    <3> QED BY <3>2, <3>3 DEF Queued
  <2>2. ASSUME NEW x \in Queued(s), x # next PROVE x \in Queued(b)
    <3>1. PICK i \in 1 .. Len(s.rq) : x = s.rq[i]
      BY DEF Queued
    <3>2. i # 1 /\ i - 1 \in 1 .. Len(s.rq) - 1 /\ Tail(s.rq)[i - 1] = x
      BY <1>1, <1>2, <2>2, <3>1
    <3> QED BY <1>1, <1>2, <1>5, <3>2 DEF Queued
  <2> QED BY <2>1, <2>2
<1>8. QueuedOnce(b)
  BY <1>1, <1>2, <1>5 DEF Consistent, QueuedOnce
<1>9. QueueHoldsReady(b) /\ ReadyIsQueued(b)
  <2>1. \A x \in Threads : b.st[x] = IF x = next THEN "Running"
                              ELSE IF x = s.cur THEN "Blocked" ELSE s.st[x]
    BY <1>1, <1>2, <1>3, <1>5
  <2>2. Queued(s) \subseteq Threads
    BY <1>1 DEF Queued
  <2> HIDE DEF next, b
  <2> QED BY <1>1, <1>3, <1>7, <2>1, <2>2 DEF Consistent, QueueHoldsReady, ReadyIsQueued
<1>10. OneRunning(b)
  BY <1>1, <1>2, <1>3, <1>5 DEF Consistent, OneRunning
<1> QED BY <1>2, <1>3, <1>5, <1>6, <1>8, <1>9, <1>10 DEF Consistent

(* The loop of check_timeouts() over threads that are all asleep: each     *)
(* becomes Ready and is appended to the queue, which has room for them     *)
(* beside the thread on the CPU.                                           *)
LEMMA WakeTimedOutConsistent ==
  ASSUME IsFiniteSet(Threads), Cardinality(Threads) <= ReadyCap + 1,
         NEW s \in SchedState, Consistent(s), NEW e \in Seq(Threads),
         \A i, j \in 1 .. Len(e) : e[i] = e[j] => i = j,
         \A i \in 1 .. Len(e) : s.st[e[i]] = "Blocked"
  PROVE  LET w == WakeTimedOut(s, e)
             W == {e[i] : i \in 1 .. Len(e)}
         IN  /\ w \in SchedState /\ Consistent(w) /\ w.cur = s.cur
             /\ Len(w.rq) <= ReadyCap
             /\ \A t \in Threads : w.st[t] = IF t \in W THEN "Ready" ELSE s.st[t]
             /\ \A t \in Threads : w.ipc[t] = IF t \in W THEN On("TimedOut", None) ELSE s.ipc[t]
<1>1. /\ s.st \in [Threads -> ThreadState] /\ s.ipc \in [Threads -> IpcState]
      /\ s.rq \in Seq(Threads) /\ s.cur \in Threads /\ Len(s.rq) \in Nat /\ Len(e) \in Nat
  BY DEF SchedState
<1> DEFINE W   == {e[i] : i \in 1 .. Len(e)}
           all == s.rq \o e
           st1 == [t \in Threads |-> IF t \in W THEN "Ready" ELSE s.st[t]]
           ip1 == [t \in Threads |-> IF t \in W THEN On("TimedOut", None) ELSE s.ipc[t]]
           w   == [st |-> st1, ipc |-> ip1, rq |-> all, cur |-> s.cur]
<1>2. /\ all \in Seq(Threads) /\ Len(all) = Len(s.rq) + Len(e)
      /\ \A i \in 1 .. Len(s.rq) : all[i] = s.rq[i]
      /\ \A i \in 1 .. Len(e) : all[Len(s.rq) + i] = e[i]
  BY <1>1
<1>3. ASSUME NEW i \in 1 .. Len(all)
      PROVE  \/ i \in 1 .. Len(s.rq) /\ all[i] = s.rq[i]
             \/ /\ i - Len(s.rq) \in 1 .. Len(e) /\ all[i] = e[i - Len(s.rq)]
                /\ i \notin 1 .. Len(s.rq)
  <2>1. CASE i <= Len(s.rq)
    BY <1>1, <1>2, <2>1
  <2>2. CASE i > Len(s.rq)
    <3>1. i - Len(s.rq) \in 1 .. Len(e) /\ Len(s.rq) + (i - Len(s.rq)) = i
      BY <1>1, <1>2, <2>2
    <3> QED BY <1>1, <1>2, <2>2, <3>1
  <2> QED BY <1>1, <1>2, <2>1, <2>2
<1>4. \A i \in 1 .. Len(s.rq) : s.st[s.rq[i]] = "Ready"
  BY DEF Consistent, QueueHoldsReady, Queued
<1> HIDE DEF all
<1>5. \A i, j \in 1 .. Len(all) : all[i] = all[j] => i = j
  <2> SUFFICES ASSUME NEW i \in 1 .. Len(all), NEW j \in 1 .. Len(all), all[i] = all[j]
               PROVE  i = j
    OBVIOUS
  <2>1. CASE i \in 1 .. Len(s.rq) /\ j \in 1 .. Len(s.rq)
    BY <1>2, <2>1 DEF Consistent, QueuedOnce
  <2> DEFINE k == i - Len(s.rq)
             l == j - Len(s.rq)
  <2>0. /\ i \in 1 .. Len(s.rq) \/ (k \in 1 .. Len(e) /\ all[i] = e[k])
        /\ j \in 1 .. Len(s.rq) \/ (l \in 1 .. Len(e) /\ all[j] = e[l])
    BY <1>3
  <2>2. CASE i \notin 1 .. Len(s.rq) /\ j \notin 1 .. Len(s.rq)
    <3>1. k = l
      <4> HIDE DEF k, l
      <4> QED BY <2>0, <2>2
    <3> QED BY <1>1, <1>2, <3>1
  <2> HIDE DEF k, l
  <2>3. CASE i \in 1 .. Len(s.rq) /\ j \notin 1 .. Len(s.rq)
    <3>0. all[i] = s.rq[i] /\ s.st[s.rq[i]] = "Ready"
      <4>1. i \in 1 .. Len(s.rq)
        BY <2>3
      <4> QED BY <1>2, <1>4, <4>1
    <3>1. s.st[all[i]] = "Ready"
      BY <3>0
    <3>2. s.st[all[j]] = "Blocked"
      BY <2>0, <2>3
    <3> QED BY <3>1, <3>2
  <2>4. CASE i \notin 1 .. Len(s.rq) /\ j \in 1 .. Len(s.rq)
    <3>0. all[j] = s.rq[j] /\ s.st[s.rq[j]] = "Ready"
      <4>1. j \in 1 .. Len(s.rq)
        BY <2>4
      <4> QED BY <1>2, <1>4, <4>1
    <3>1. s.st[all[j]] = "Ready"
      BY <3>0
    <3>2. s.st[all[i]] = "Blocked"
      BY <2>0, <2>4
    <3> QED BY <3>1, <3>2
  <2> QED BY <2>1, <2>2, <2>3, <2>4
<1>6. {all[i] : i \in 1 .. Len(all)} = Queued(s) \cup W
  <2>1. ASSUME NEW x \in Queued(s) \cup W PROVE x \in {all[i] : i \in 1 .. Len(all)}
    <3>1. CASE x \in Queued(s)
      <4>1. PICK i \in 1 .. Len(s.rq) : x = s.rq[i]
        BY <3>1 DEF Queued
      <4>2. i \in 1 .. Len(all) /\ x = all[i]
        BY <1>1, <1>2, <4>1
      <4> QED BY <4>2
    <3>2. CASE x \in W
      <4>1. PICK i \in 1 .. Len(e) : x = e[i]
        BY <3>2
      <4>2. Len(s.rq) + i \in 1 .. Len(all) /\ x = all[Len(s.rq) + i]
        BY <1>1, <1>2, <4>1
      <4> QED BY <4>2
    <3> QED BY <2>1, <3>1, <3>2
  <2>2. ASSUME NEW i \in 1 .. Len(all) PROVE all[i] \in Queued(s) \cup W
    BY <1>3 DEF Queued
  <2> DEFINE All == {all[i] : i \in 1 .. Len(all)}
  <2>3. \A x \in All : x \in Queued(s) \cup W
    BY <2>2
  <2> QED BY <2>1, <2>3
<1>7. W \subseteq Threads /\ Queued(s) \subseteq Threads /\ \A x \in W : s.st[x] = "Blocked"
  BY <1>1 DEF Queued
<1> HIDE DEF W
<1>8. On("TimedOut", None) \in IpcState
  BY DEF On, IpcState, IpcReason
<1>9. /\ w \in SchedState /\ w.st = st1 /\ w.ipc = ip1 /\ w.rq = all /\ w.cur = s.cur
  <2>1. st1 \in [Threads -> ThreadState] /\ ip1 \in [Threads -> IpcState]
    BY <1>1, <1>8 DEF ThreadState
  <2> HIDE DEF st1, ip1
  <2> QED BY <1>1, <1>2, <2>1 DEF SchedState
<1>10. \A t \in Threads : /\ st1[t] = IF t \in W THEN "Ready" ELSE s.st[t]
                          /\ ip1[t] = IF t \in W THEN On("TimedOut", None) ELSE s.ipc[t]
  OBVIOUS
<1> HIDE DEF st1, ip1, w
<1>11. QueuedOnce(w) /\ Queued(w) = Queued(s) \cup W
  <2>1. \A i, j \in 1 .. Len(w.rq) : w.rq[i] = w.rq[j] => i = j
    BY <1>5, <1>9
  <2>2. {w.rq[i] : i \in 1 .. Len(w.rq)} = Queued(s) \cup W
    BY <1>6, <1>9
  <2> QED BY <2>1, <2>2, Zenon DEF QueuedOnce, Queued
<1>12. QueueHoldsReady(w) /\ ReadyIsQueued(w) /\ OneRunning(w)
  BY <1>7, <1>9, <1>10, <1>11 DEF Consistent, QueueHoldsReady, ReadyIsQueued, OneRunning
<1>13. s.cur \notin Queued(w)
  BY <1>1, <1>7, <1>11 DEF Consistent, OneRunning, QueueHoldsReady
<1>14. Len(all) <= ReadyCap
  BY <1>1, <1>9, <1>11, <1>13, QueueFits
<1>15. WakeTimedOut(s, e) = w
  BY <1>14, Zenon DEF WakeTimedOut, w, st1, ip1, all, W
<1> QED BY <1>9, <1>10, <1>11, <1>12, <1>14, <1>15 DEF Consistent, W

=============================================================================
