----------------------- MODULE SchedulerSafety_proofs -----------------------
(***************************************************************************)
(* The scheduler promises of queue.rs and thread.rs, and the rendezvous of *)
(* ipc/, hold in every execution of KernelIpc whose deadlines are Quiet    *)
(* and in which some thread only polls: the ready queue holds the Ready    *)
(* threads exactly once, a Blocked thread is parked where its event will   *)
(* find it, a wait ends by exactly one event or by its deadline, wait      *)
(* queues have room, and the kernel implements Rendezvous.  The argument   *)
(* is by the invariant IInv.                                               *)
(*                                                                         *)
(* Every step of the kernel is of one of these kinds, each with a lemma:   *)
(* it wakes one parked thread, it wakes the threads whose deadlines have   *)
(* passed, it parks the current thread, it takes the current thread off    *)
(* the queue it gave up on, or it leaves the parked threads alone.         *)
(***************************************************************************)
EXTENDS KernelIpc_proofs

(* Queues as sets: what popping and appending do to a queue of distinct    *)
(* threads.                                                                *)
Elems(q) == {q[i] : i \in 1 .. Len(q)}
Distinct(q) == \A i, j \in 1 .. Len(q) : q[i] = q[j] => i = j
Tids(q) == {q[i].tid : i \in 1 .. Len(q)}
DistinctTids(q) == \A i, j \in 1 .. Len(q) : q[i].tid = q[j].tid => i = j

LEMMA TailIndices ==
  ASSUME NEW S, NEW q \in Seq(S), q # << >>
  PROVE  /\ Len(q) \in Nat \ {0} /\ Len(Tail(q)) = Len(q) - 1 /\ Head(q) = q[1]
         /\ \A i \in 1 .. (Len(q) - 1) : Tail(q)[i] = q[i + 1]
  OBVIOUS

LEMMA TailOfDistinct ==
  ASSUME NEW S, NEW q \in Seq(S), q # << >>, Distinct(q)
  PROVE  Distinct(Tail(q)) /\ Elems(Tail(q)) = Elems(q) \ {Head(q)}
<1>1. /\ Len(q) \in Nat \ {0} /\ Len(Tail(q)) = Len(q) - 1 /\ Head(q) = q[1]
      /\ \A i \in 1 .. (Len(q) - 1) : Tail(q)[i] = q[i + 1]
  BY TailIndices
<1>2. Distinct(Tail(q))
  BY <1>1 DEF Distinct
<1>3. ASSUME NEW x \in Elems(Tail(q)) PROVE x \in Elems(q) \ {Head(q)}
  <2>1. PICK i \in 1 .. Len(Tail(q)) : x = Tail(q)[i]
    BY <1>3 DEF Elems
  <2>2. i + 1 \in 1 .. Len(q) /\ x = q[i + 1] /\ i + 1 # 1
    BY <1>1, <2>1
  <2> QED BY <1>1, <2>2 DEF Elems, Distinct
<1>4. ASSUME NEW x \in Elems(q) \ {Head(q)} PROVE x \in Elems(Tail(q))
  <2>1. PICK i \in 1 .. Len(q) : x = q[i]
    BY <1>4 DEF Elems
  <2>2. i # 1
    BY <1>1, <1>4, <2>1
  <2>3. i - 1 \in 1 .. Len(Tail(q)) /\ x = Tail(q)[i - 1]
    BY <1>1, <2>1, <2>2
  <2> QED BY <2>3 DEF Elems
<1> QED BY <1>2, <1>3, <1>4

(* A wait queue gains exactly the entry that is appended to it.            *)
LEMMA AppendElems ==
  ASSUME NEW S, NEW q \in Seq(S), NEW x \in S
  PROVE  Elems(Append(q, x)) = Elems(q) \cup {x}
<1>1. /\ Len(q) \in Nat /\ Len(Append(q, x)) = Len(q) + 1
      /\ Append(q, x)[Len(q) + 1] = x
      /\ \A i \in 1 .. Len(q) : Append(q, x)[i] = q[i]
  OBVIOUS
<1>2. \A i \in 1 .. (Len(q) + 1) : i \in 1 .. Len(q) \/ i = Len(q) + 1
  BY <1>1
<1>3. Elems(q) \cup {x} \subseteq Elems(Append(q, x))
  <2>1. Len(q) + 1 \in 1 .. (Len(q) + 1) /\ \A i \in 1 .. Len(q) : i \in 1 .. (Len(q) + 1)
    BY <1>1
  <2> QED BY <1>1, <2>1 DEF Elems
<1>4. Elems(Append(q, x)) \subseteq Elems(q) \cup {x}
  BY <1>1, <1>2 DEF Elems
<1> QED BY <1>3, <1>4

LEMMA AppendDistinct ==
  ASSUME NEW S, NEW q \in Seq(S), NEW x \in S, Distinct(q), x \notin Elems(q)
  PROVE  Distinct(Append(q, x)) /\ Elems(Append(q, x)) = Elems(q) \cup {x}
<1>1. /\ Len(q) \in Nat /\ Len(Append(q, x)) = Len(q) + 1
      /\ Append(q, x)[Len(q) + 1] = x
      /\ \A i \in 1 .. Len(q) : Append(q, x)[i] = q[i]
  OBVIOUS
<1>2. \A i \in 1 .. (Len(q) + 1) : i \in 1 .. Len(q) \/ i = Len(q) + 1
  BY <1>1
<1>3. Distinct(Append(q, x))
  BY <1>1, <1>2 DEF Distinct, Elems
<1> QED BY <1>3, AppendElems

LEMMA TailOfDistinctTids ==
  ASSUME NEW q \in Seq(Parked), q # << >>, DistinctTids(q)
  PROVE  DistinctTids(Tail(q)) /\ Tids(Tail(q)) = Tids(q) \ {Head(q).tid}
<1>1. /\ Len(q) \in Nat \ {0} /\ Len(Tail(q)) = Len(q) - 1 /\ Head(q) = q[1]
      /\ \A i \in 1 .. (Len(q) - 1) : Tail(q)[i] = q[i + 1]
  BY TailIndices
<1>2. DistinctTids(Tail(q))
  BY <1>1 DEF DistinctTids
<1>3. ASSUME NEW x \in Tids(Tail(q)) PROVE x \in Tids(q) \ {Head(q).tid}
  <2>1. PICK i \in 1 .. Len(Tail(q)) : x = Tail(q)[i].tid
    BY <1>3 DEF Tids
  <2>2. i + 1 \in 1 .. Len(q) /\ x = q[i + 1].tid /\ i + 1 # 1
    BY <1>1, <2>1
  <2> QED BY <1>1, <2>2 DEF Tids, DistinctTids
<1>4. ASSUME NEW x \in Tids(q) \ {Head(q).tid} PROVE x \in Tids(Tail(q))
  <2>1. PICK i \in 1 .. Len(q) : x = q[i].tid
    BY <1>4 DEF Tids
  <2>2. i # 1
    BY <1>1, <1>4, <2>1
  <2>3. i - 1 \in 1 .. Len(Tail(q)) /\ x = Tail(q)[i - 1].tid
    BY <1>1, <2>1, <2>2
  <2> QED BY <2>3 DEF Tids
<1> QED BY <1>2, <1>3, <1>4

LEMMA AppendDistinctTids ==
  ASSUME NEW q \in Seq(Parked), NEW e \in Parked, DistinctTids(q), e.tid \notin Tids(q)
  PROVE  DistinctTids(Append(q, e)) /\ Tids(Append(q, e)) = Tids(q) \cup {e.tid}
<1>1. /\ Len(q) \in Nat /\ Len(Append(q, e)) = Len(q) + 1
      /\ Append(q, e)[Len(q) + 1] = e
      /\ \A i \in 1 .. Len(q) : Append(q, e)[i] = q[i]
  OBVIOUS
<1>2. \A i \in 1 .. (Len(q) + 1) : i \in 1 .. Len(q) \/ i = Len(q) + 1
  BY <1>1
<1>3. DistinctTids(Append(q, e))
  BY <1>1, <1>2 DEF DistinctTids, Tids
<1>4. Tids(q) \cup {e.tid} \subseteq Tids(Append(q, e))
  <2>1. Len(q) + 1 \in 1 .. (Len(q) + 1) /\ \A i \in 1 .. Len(q) : i \in 1 .. (Len(q) + 1)
    BY <1>1
  <2> QED BY <1>1, <2>1 DEF Tids
<1>5. Tids(Append(q, e)) \subseteq Tids(q) \cup {e.tid}
  BY <1>1, <1>2 DEF Tids
<1> QED BY <1>3, <1>4, <1>5

(* A deadline put anywhere into the deadline queue.                        *)
LEMMA InsertedDistinct ==
  ASSUME NEW S, NEW q \in Seq(S), NEW x \in S, Distinct(q), x \notin Elems(q),
         NEW i \in 0 .. Len(q)
  PROVE  Distinct(Inserted(q, i, x)) /\ Elems(Inserted(q, i, x)) = Elems(q) \cup {x}
<1> DEFINE f == SubSeq(q, 1, i)
           g == SubSeq(q, i + 1, Len(q))
           r == Inserted(q, i, x)
<1>0. Len(q) \in Nat /\ i \in Nat /\ i <= Len(q)
  OBVIOUS
<1>1. f \in Seq(S) /\ Len(f) = i /\ \A k \in 1 .. i : f[k] = q[k]
  BY <1>0
<1>2. g \in Seq(S) /\ Len(g) = Len(q) - i /\ \A k \in 1 .. (Len(q) - i) : g[k] = q[i + k]
  BY <1>0
<1>3. r = (f \o <<x>>) \o g
  BY DEF Inserted
<1> HIDE DEF f, g, r
<1>4. /\ f \o <<x>> \in Seq(S) /\ Len(f \o <<x>>) = i + 1 /\ (f \o <<x>>)[i + 1] = x
      /\ \A k \in 1 .. i : (f \o <<x>>)[k] = q[k]
  BY <1>0, <1>1
<1>5. /\ Len(r) = Len(q) + 1
      /\ \A k \in 1 .. (Len(q) + 1) :
            r[k] = IF k <= i THEN q[k] ELSE IF k = i + 1 THEN x ELSE q[k - 1]
  <2> DEFINE h == f \o <<x>>
  <2>0. h \in Seq(S) /\ Len(h) = i + 1
    BY <1>4
  <2>4. (i + 1) + (Len(q) - i) = Len(q) + 1
    BY <1>0
  <2> HIDE DEF h
  <2>1. /\ Len(r) = Len(q) + 1
        /\ \A k \in 1 .. (i + 1) : r[k] = h[k]
    BY <1>0, <1>2, <1>3, <2>0, <2>4 DEF h
  <2>2. \A k \in 1 .. (Len(q) - i) : r[i + 1 + k] = q[i + k]
    BY <1>0, <1>2, <1>3, <2>0 DEF h
  <2>3. ASSUME NEW k \in 1 .. (Len(q) + 1), k > i + 1 PROVE r[k] = q[k - 1]
    <3>1. k - (i + 1) \in 1 .. (Len(q) - i) /\ i + 1 + (k - (i + 1)) = k
          /\ i + (k - (i + 1)) = k - 1
      BY <1>0, <2>3
    <3> QED BY <2>2, <3>1
  <2> QED BY <1>0, <1>4, <2>1, <2>3 DEF h
<1>6. \A k \in 1 .. Len(q) : q[k] # x
  BY DEF Elems
<1>7. Distinct(r)
  <2> SUFFICES ASSUME NEW k \in 1 .. (Len(q) + 1), NEW l \in 1 .. (Len(q) + 1), r[k] = r[l]
               PROVE  k = l
    BY <1>5 DEF Distinct
  <2> QED BY <1>0, <1>5, <1>6 DEF Distinct
<1>8. ASSUME NEW y \in Elems(r) PROVE y \in Elems(q) \cup {x}
  <2>1. PICK k \in 1 .. (Len(q) + 1) : y = r[k]
    BY <1>5, <1>8 DEF Elems
  <2>2. y = x \/ \E l \in 1 .. Len(q) : y = q[l]
    BY <1>0, <1>5, <2>1
  <2> QED BY <2>2 DEF Elems
<1>9. ASSUME NEW y \in Elems(q) \cup {x} PROVE y \in Elems(r)
  <2>1. CASE y = x
    <3>1. i + 1 \in 1 .. (Len(q) + 1) /\ r[i + 1] = x
      BY <1>0, <1>5
    <3> QED BY <1>5, <2>1, <3>1 DEF Elems
  <2>2. CASE y \in Elems(q)
    <3>1. PICK l \in 1 .. Len(q) : y = q[l]
      BY <2>2 DEF Elems
    <3>2. CASE l <= i
      <4>1. l \in 1 .. (Len(q) + 1) /\ r[l] = y
        BY <1>0, <1>5, <3>1, <3>2
      <4> QED BY <1>5, <4>1 DEF Elems
    <3>3. CASE l > i
      <4>1. l + 1 \in 1 .. (Len(q) + 1) /\ r[l + 1] = y
        BY <1>0, <1>5, <3>1, <3>3
      <4> QED BY <1>5, <4>1 DEF Elems
    <3> QED BY <1>0, <3>1, <3>2, <3>3
  <2> QED BY <1>9, <2>1, <2>2
<1> QED BY <1>7, <1>8, <1>9 DEF r

(* cancel_receive() and cancel_ipc_timeout() take a thread off its queue.  *)
LEMMA WithoutDistinct ==
  ASSUME NEW S, NEW q \in Seq(S), NEW x, Distinct(q)
  PROVE  Distinct(Without(q, x)) /\ Elems(Without(q, x)) = Elems(q) \ {x}
<1>1. CASE x \notin Elems(q)
  <2>1. Without(q, x) = q
    BY <1>1, Zenon DEF Without, Elems
  <2> QED BY <1>1, <2>1
<1>2. CASE x \in Elems(q)
  <2>1. PICK p \in 1 .. Len(q) : q[p] = x
    BY <1>2 DEF Elems
  <2> DEFINE P(i) == q[i] = x /\ \A j \in 1 .. (i - 1) : q[j] # x
             first == CHOOSE i \in 1 .. Len(q) : P(i)
             f == SubSeq(q, 1, p - 1)
             g == SubSeq(q, p + 1, Len(q))
             r == Without(q, x)
  <2>0. Len(q) \in Nat /\ p \in Nat /\ 1 <= p /\ p <= Len(q)
    OBVIOUS
  <2>2. \A i \in 1 .. Len(q) : P(i) <=> i = p
    <3>1. \A j \in 1 .. (p - 1) : j \in 1 .. Len(q) /\ j # p
      BY <2>0
    <3> QED BY <2>1, <3>1 DEF Distinct
  <2>3. first = p
    <3> HIDE DEF P
    <3> QED BY <2>2
  <2>4. r = f \o g
    <3>1. r = SubSeq(q, 1, first - 1) \o SubSeq(q, first + 1, Len(q))
      BY <2>1, Zenon DEF Without
    <3> HIDE DEF first
    <3> QED BY <2>3, <3>1
  <2>5. f \in Seq(S) /\ Len(f) = p - 1 /\ \A k \in 1 .. (p - 1) : f[k] = q[k]
    BY <2>0
  <2>6. g \in Seq(S) /\ Len(g) = Len(q) - p /\ \A k \in 1 .. (Len(q) - p) : g[k] = q[p + k]
    BY <2>0
  <2> HIDE DEF f, g, r, P, first
  <2>7. /\ Len(r) = Len(q) - 1
        /\ \A k \in 1 .. (Len(q) - 1) : r[k] = IF k < p THEN q[k] ELSE q[k + 1]
    <3>0. (p - 1) + (Len(q) - p) = Len(q) - 1
      BY <2>0
    <3>1. /\ Len(r) = Len(q) - 1 /\ \A k \in 1 .. (p - 1) : r[k] = f[k]
          /\ \A k \in 1 .. (Len(q) - p) : r[p - 1 + k] = g[k]
      BY <2>0, <2>4, <2>5, <2>6, <3>0
    <3>2. ASSUME NEW k \in 1 .. (Len(q) - 1), ~ (k < p) PROVE r[k] = q[k + 1]
      <4>1. /\ k - (p - 1) \in 1 .. (Len(q) - p) /\ p - 1 + (k - (p - 1)) = k
            /\ p + (k - (p - 1)) = k + 1
        BY <2>0, <3>2
      <4>2. r[p - 1 + (k - (p - 1))] = g[k - (p - 1)]
        BY <3>1, <4>1
      <4>3. g[k - (p - 1)] = q[p + (k - (p - 1))]
        BY <2>6, <4>1
      <4> QED BY <4>1, <4>2, <4>3
    <3>3. ASSUME NEW k \in 1 .. (Len(q) - 1), k < p PROVE r[k] = q[k]
      <4>1. k \in 1 .. (p - 1)
        BY <2>0, <3>3
      <4> QED BY <2>5, <3>1, <4>1
    <3> QED BY <3>1, <3>2, <3>3
  <2>8. Distinct(r)
    <3> SUFFICES ASSUME NEW k \in 1 .. (Len(q) - 1), NEW l \in 1 .. (Len(q) - 1), r[k] = r[l]
                 PROVE  k = l
      BY <2>7 DEF Distinct
    <3>1. k \in 1 .. Len(q) /\ k + 1 \in 1 .. Len(q) /\ l \in 1 .. Len(q) /\ l + 1 \in 1 .. Len(q)
      BY <2>0
    <3> QED BY <2>0, <2>7, <3>1 DEF Distinct
  <2>9. ASSUME NEW y \in Elems(r) PROVE y \in Elems(q) \ {x}
    <3>1. PICK k \in 1 .. (Len(q) - 1) : y = r[k]
      BY <2>7, <2>9 DEF Elems
    <3>2. PICK l \in 1 .. Len(q) : y = q[l] /\ l # p
      <4>1. CASE k < p
        BY <2>0, <2>7, <3>1, <4>1
      <4>2. CASE ~ (k < p)
        <5>1. k + 1 \in 1 .. Len(q) /\ y = q[k + 1] /\ k + 1 # p
          BY <2>0, <2>7, <3>1, <4>2
        <5> QED BY <5>1
      <4> QED BY <4>1, <4>2
    <3> QED BY <2>1, <3>2 DEF Elems, Distinct
  <2>10. ASSUME NEW y \in Elems(q) \ {x} PROVE y \in Elems(r)
    <3>1. PICK l \in 1 .. Len(q) : y = q[l]
      BY <2>10 DEF Elems
    <3>2. l # p
      BY <2>1, <2>10, <3>1
    <3>3. CASE l < p
      <4>1. l \in 1 .. (Len(q) - 1) /\ r[l] = y
        BY <2>0, <2>7, <3>1, <3>3
      <4> QED BY <2>7, <4>1 DEF Elems
    <3>4. CASE l > p
      <4>1. l - 1 \in 1 .. (Len(q) - 1) /\ r[l - 1] = y
        BY <2>0, <2>7, <3>1, <3>4
      <4> QED BY <2>7, <4>1 DEF Elems
    <3> QED BY <2>0, <3>2, <3>3, <3>4
  <2> QED BY <2>8, <2>9, <2>10 DEF r
<1> QED BY <1>1, <1>2

(* check_timeouts() cuts the deadline queue: the part that expired and the *)
(* rest hold each thread once between them.                                *)
LEMMA CutDistinct ==
  ASSUME NEW S, NEW q \in Seq(S), Distinct(q), NEW k \in 0 .. Len(q)
  PROVE  LET e == SubSeq(q, 1, k)
             r == SubSeq(q, k + 1, Len(q))
         IN  /\ e \in Seq(S) /\ Distinct(e) /\ Distinct(r)
             /\ Elems(e) \subseteq Elems(q) /\ Elems(r) = Elems(q) \ Elems(e)
<1> DEFINE e == SubSeq(q, 1, k)
           r == SubSeq(q, k + 1, Len(q))
<1>0. Len(q) \in Nat /\ k \in Nat /\ k <= Len(q)
  OBVIOUS
<1>1. e \in Seq(S) /\ Len(e) = k /\ \A i \in 1 .. k : e[i] = q[i]
  BY <1>0
<1>2. Len(r) = Len(q) - k /\ \A i \in 1 .. (Len(q) - k) : r[i] = q[k + i]
  BY <1>0
<1> HIDE DEF e, r
<1>3. \A i \in 1 .. k : i \in 1 .. Len(q)
  BY <1>0
<1>4. \A i \in 1 .. (Len(q) - k) : k + i \in 1 .. Len(q) /\ k + i \notin 1 .. k
  BY <1>0
<1>5. Distinct(e)
  BY <1>1, <1>3 DEF Distinct
<1>6. Distinct(r)
  <2> SUFFICES ASSUME NEW i \in 1 .. (Len(q) - k), NEW j \in 1 .. (Len(q) - k), r[i] = r[j]
               PROVE  i = j
    BY <1>2 DEF Distinct
  <2>1. k + i = k + j
    BY <1>2, <1>4 DEF Distinct
  <2> QED BY <1>0, <2>1
<1>7. Elems(e) \subseteq Elems(q)
  BY <1>1, <1>3 DEF Elems
<1>8. ASSUME NEW y \in Elems(r) PROVE y \in Elems(q) \ Elems(e)
  <2>1. PICK i \in 1 .. (Len(q) - k) : y = q[k + i]
    BY <1>2, <1>8 DEF Elems
  <2>2. \A j \in 1 .. k : q[j] # y
    BY <1>3, <1>4, <2>1 DEF Distinct
  <2>3. y \notin Elems(e)
    BY <1>1, <2>2 DEF Elems
  <2> QED BY <1>4, <2>1, <2>3 DEF Elems
<1>9. ASSUME NEW y \in Elems(q) \ Elems(e) PROVE y \in Elems(r)
  <2>1. PICK j \in 1 .. Len(q) : y = q[j]
    BY <1>9 DEF Elems
  <2>2. j \notin 1 .. k
    BY <1>1, <1>9, <2>1 DEF Elems
  <2>3. j - k \in 1 .. (Len(q) - k) /\ k + (j - k) = j
    BY <1>0, <2>2
  <2> QED BY <1>2, <2>1, <2>3 DEF Elems
<1> QED BY <1>1, <1>5, <1>6, <1>7, <1>8, <1>9 DEF e, r

-----------------------------------------------------------------------------
Timed == {"recvT", "callT"}

(* The current thread is Running and not queued.                           *)
LEMMA CurRuns ==
  ASSUME TypeOK, SchedulerConsistent
  PROVE  cur \in Threads /\ sched.st[cur] = "Running" /\ cur \notin Queued(sched)
<1>1. cur \in Threads
  BY CurType
<1>2. sched.st[cur] = "Running"
  BY <1>1 DEF SchedulerConsistent, Consistent, OneRunning, cur
<1> QED BY <1>1, <1>2 DEF SchedulerConsistent, Consistent, QueueHoldsReady

(* What the current thread's continuation may become in a step that does   *)
(* not park it.                                                            *)
Continues ==
  /\ \A x \in Threads : x # cur => pc'[x] = pc[x]
  /\ pc'[cur].at \notin Waits
  /\ pc'[cur].op \in Timed => SetsDeadline(cur) /\ pc'[cur].on \in Uses[cur]
  /\ Polls(cur) => pc'[cur].at = "user"

(* A step that wakes the sleeping thread t, which has no deadline, taking  *)
(* it off its queue.                                                       *)
LEMMA WakeKeeps ==
  ASSUME IInv, TypeOK', ~ Waiting(cur),
         NEW t \in Threads, Asleep(t), ~ InTimer(timerq, t),
         sched' = Wake(sched, t),
         wakes' = [wakes EXCEPT ![t] = @ + 1],
         timerq' = timerq,
         \A c \in Channels : SendersOf(c)' = SendersOf(c) \ {t},
         \A c \in Channels : ReceiversOf(c)' = ReceiversOf(c) \ {t},
         \A n \in Notifs : WaitersOf(n)' = WaitersOf(n) \ {t},
         ParkedOnce', Continues
  PROVE  IInv'
<1>1. /\ cur \in Threads /\ sched.st[cur] = "Running" /\ cur \notin Queued(sched)
      /\ sched \in SchedState /\ Consistent(sched) /\ QueuedOnce(sched)
  BY CurRuns DEF IInv, TypeOK, SchedulerConsistent, Consistent
<1>2. t # cur /\ t \notin Queued(sched)
  BY <1>1 DEF Consistent, QueueHoldsReady, Asleep
<1>3. Len(sched.rq) < ReadyCap
  BY <1>1, <1>2, RoomForOne, IpcAssumption
<1>4. /\ Consistent(sched') /\ sched'.st = [sched.st EXCEPT ![t] = "Ready"]
      /\ sched'.ipc = [sched.ipc EXCEPT ![t] = IpcReady] /\ sched'.cur = sched.cur
  BY <1>1, <1>3, WakeConsistent DEF Asleep
<1>5. /\ \A x \in Threads : sched'.st[x] = IF x = t THEN "Ready" ELSE sched.st[x]
      /\ \A x \in Threads : x # t => sched'.ipc[x] = sched.ipc[x]
      /\ sched'.ipc[t].why = "Ready"
  BY <1>1, <1>4 DEF SchedState, IpcReady, On
<1>6. /\ \A x \in Threads : x # cur => pc'[x] = pc[x]
      /\ pc[cur].at \notin Waits /\ pc'[cur].at \notin Waits
  BY DEF Continues, Waiting
<1>7. ParkedWhereItWaits'
  <2> SUFFICES ASSUME NEW x \in Threads
               PROVE  /\ \A c \in Channels :
                           /\ (x \in SendersOf(c))' <=> Asleep(x)' /\ pc'[x].at = "sent" /\ pc'[x].on = c
                           /\ (x \in ReceiversOf(c))'
                                <=> (Asleep(x)' \/ Expired(x)') /\ pc'[x].at = "woken" /\ pc'[x].on = c
                      /\ \A n \in Notifs : (x \in WaitersOf(n))'
                                <=> Asleep(x)' /\ pc'[x].at = "noted" /\ pc'[x].on = n
                      /\ Asleep(x)' => /\ pc'[x].at = "sent"  => sched'.ipc[x] = On("BlockedOnSend", pc'[x].on)
                                       /\ pc'[x].at = "woken" => sched'.ipc[x] = On("BlockedOnReceive", pc'[x].on)
                                       /\ pc'[x].at = "noted" => sched'.ipc[x] = On("BlockedOnNotify", pc'[x].on)
    BY DEF ParkedWhereItWaits
  <2>1. CASE x = t
    BY <1>2, <1>5, <1>6, <2>1 DEF Asleep, Expired
  <2>2. CASE x = cur
    BY <1>1, <1>2, <1>5, <1>6, <2>2 DEF IInv, ParkedWhereItWaits, Asleep, Expired, Waits
  <2>3. CASE x # t /\ x # cur
    BY <1>5, <1>6, <2>3 DEF IInv, ParkedWhereItWaits, Asleep, Expired
  <2> QED BY <2>1, <2>2, <2>3
<1>8. WaitsForOneWake'
  <2>1. wakes[t] = 0 /\ \A x \in Threads : wakes'[x] = IF x = t THEN 1 ELSE wakes[x]
    BY DEF IInv, WaitsForOneWake, TypeOK
  <2> QED BY <1>1, <1>2, <1>5, <1>6, <2>1
          DEF IInv, WaitsForOneWake, Continues, Polls, Asleep, Waiting, Expired
<1>9. DeadlinesExact'
  <2>1. pc[t].at = "woken" => pc[t].op # "recvT"
    BY DEF IInv, DeadlinesExact
  <2>2. \A x \in Threads : InTimer(timerq, x)' <=> InTimer(timerq, x)
    BY DEF InTimer
  <2>3. ~ InTimer(timerq, cur)
    BY <1>1 DEF IInv, DeadlinesExact, Asleep
  <2> QED BY <1>1, <1>2, <1>5, <1>6, <2>1, <2>2, <2>3
          DEF IInv, DeadlinesExact, Continues, Asleep, Expired, Waits, Timed
<1> QED BY <1>4, <1>7, <1>8, <1>9 DEF IInv, SchedulerConsistent

(* A step that leaves the scheduler state alone and takes the current      *)
(* thread on, off the receivers' queue if its deadline had passed.         *)
LEMMA ReturnKeeps ==
  ASSUME IInv, TypeOK', sched' = sched, timerq' = timerq,
         \A c \in Channels : SendersOf(c)' = SendersOf(c),
         \A c \in Channels : ReceiversOf(c)' = ReceiversOf(c) \ {cur},
         \A n \in Notifs : WaitersOf(n)' = WaitersOf(n),
         ParkedOnce',
         \A x \in Threads : x # cur => wakes'[x] = wakes[x],
         Continues
  PROVE  IInv'
<1>1. cur \in Threads /\ sched.st[cur] = "Running"
  BY CurRuns DEF IInv
<1>2. SchedulerConsistent'
  BY DEF IInv, SchedulerConsistent
<1>3. /\ \A x \in Threads : x # cur => pc'[x] = pc[x]
      /\ pc'[cur].at \notin Waits
  BY DEF Continues
<1>4. ParkedWhereItWaits'
  BY <1>1, <1>3 DEF IInv, ParkedWhereItWaits, Asleep, Expired, Waits
<1>5. WaitsForOneWake'
  BY <1>1, <1>3 DEF IInv, WaitsForOneWake, Continues, Polls, Asleep, Waiting, Expired
<1>6. DeadlinesExact'
  <2>1. \A x \in Threads : InTimer(timerq, x)' <=> InTimer(timerq, x)
    BY DEF InTimer
  <2> QED BY <1>1, <1>3, <2>1 DEF IInv, DeadlinesExact, Continues, Asleep, Expired, Waits, Timed
<1> QED BY <1>2, <1>4, <1>5, <1>6 DEF IInv

(* The special case of a thread that is in no queue: nothing but pc and    *)
(* wakes changes.                                                          *)
LEMMA ResumeKeeps ==
  ASSUME IInv, TypeOK', sched' = sched, timerq' = timerq, ~ Expired(cur),
         UNCHANGED <<sendq, recvq, notifyq>>,
         \A x \in Threads : x # cur => wakes'[x] = wakes[x],
         Continues
  PROVE  IInv'
<1>1. cur \in Threads /\ sched.st[cur] = "Running"
  BY CurRuns DEF IInv
<1>2. \A c \in Channels : cur \notin ReceiversOf(c)
  BY <1>1 DEF IInv, ParkedWhereItWaits, Asleep
<1>3. /\ \A c \in Channels : SendersOf(c)' = SendersOf(c)
      /\ \A c \in Channels : ReceiversOf(c)' = ReceiversOf(c) \ {cur}
      /\ \A n \in Notifs : WaitersOf(n)' = WaitersOf(n)
  BY <1>2 DEF SendersOf, ReceiversOf, WaitersOf
<1>4. ParkedOnce'
  BY DEF IInv, ParkedOnce
<1> QED BY <1>3, <1>4, ReturnKeeps

(* A step that parks the current thread on o.  A polling thread is Ready,  *)
(* so schedule() finds somebody to run.                                    *)
LEMMA ParkKeeps ==
  ASSUME IInv, TypeOK', \E q \in Threads : Polls(q), ~ Polls(cur), ~ Waiting(cur),
         NEW why, NEW at, NEW op,
         \/ at = "sent" /\ why = "BlockedOnSend" /\ op # "recvT"
         \/ at = "woken" /\ why = "BlockedOnReceive"
         \/ at = "noted" /\ why = "BlockedOnNotify" /\ op # "recvT",
         NEW o \in Objects, op \in Timed => SetsDeadline(cur) /\ o \in Uses[cur],
         sched' = Block(sched, On(why, o)),
         wakes' = [wakes EXCEPT ![cur] = 0],
         pc' = [pc EXCEPT ![cur] = At(at, op, o)],
         Distinct(timerq'),
         \A x \in Threads : InTimer(timerq', x) <=> InTimer(timerq, x) \/ (x = cur /\ op = "recvT"),
         \A c \in Channels : SendersOf(c)' =
            IF at = "sent" /\ o = c THEN SendersOf(c) \cup {cur} ELSE SendersOf(c),
         \A c \in Channels : ReceiversOf(c)' =
            IF at = "woken" /\ o = c THEN ReceiversOf(c) \cup {cur} ELSE ReceiversOf(c),
         \A n \in Notifs : WaitersOf(n)' =
            IF at = "noted" /\ o = n THEN WaitersOf(n) \cup {cur} ELSE WaitersOf(n),
         ParkedOnce'
  PROVE  IInv'
<1>1. /\ cur \in Threads /\ sched.st[cur] = "Running"
      /\ sched \in SchedState /\ Consistent(sched) /\ cur = sched.cur
  BY CurRuns DEF IInv, TypeOK, SchedulerConsistent, cur
<1>2. sched.rq # << >>
  <2>1. PICK q \in Threads : Polls(q)
    OBVIOUS
  <2>2. sched.st[q] # "Blocked" /\ sched.st[q] \in {"Ready", "Running", "Blocked"} /\ q # cur
    BY <2>1 DEF IInv, WaitsForOneWake, Asleep, Waiting, Waits
  <2>3. q \in Queued(sched)
    BY <1>1, <2>2 DEF Consistent, OneRunning, ReadyIsQueued
  <2> QED BY <2>3 DEF Queued
<1>3. On(why, o) \in IpcState
  BY DEF On, IpcState, IpcReason
<1> DEFINE h == Head(sched.rq)
<1>4. /\ Consistent(sched') /\ sched'.ipc = [sched.ipc EXCEPT ![cur] = On(why, o)]
      /\ sched'.st = [[sched.st EXCEPT ![cur] = "Blocked"] EXCEPT ![h] = "Running"]
      /\ sched.st[h] = "Ready" /\ h \in Threads /\ h # cur /\ sched'.cur = h
  BY <1>1, <1>2, <1>3, BlockConsistent
<1> HIDE DEF h
<1>5. /\ \A x \in Threads : sched'.st[x] = IF x = cur THEN "Blocked" ELSE
                                             IF x = h THEN "Running" ELSE sched.st[x]
      /\ \A x \in Threads : x # cur => sched'.ipc[x] = sched.ipc[x]
      /\ sched'.ipc[cur] = On(why, o)
  BY <1>1, <1>4 DEF SchedState
<1>6. /\ \A x \in Threads : x # cur => pc'[x] = pc[x]
      /\ pc'[cur].at = at /\ pc'[cur].op = op /\ pc'[cur].on = o
  BY <1>1 DEF IInv, TypeOK, At
<1>7. /\ \A x \in Threads : x # cur => (Asleep(x)' <=> Asleep(x)) /\ (Expired(x)' <=> Expired(x))
      /\ \A x \in Threads : x = cur => Asleep(x)' /\ ~ Asleep(x) /\ ~ Expired(x) /\ ~ Expired(x)'
      /\ \A x \in Threads : x # cur /\ sched.st[x] \in {"Ready", "Running", "Blocked"}
                            => sched'.st[x] \in {"Ready", "Running", "Blocked"}
  <2>1. sched'.ipc[cur].why # "TimedOut"
    BY <1>5 DEF On
  <2> QED BY <1>1, <1>4, <1>5, <1>6, <2>1 DEF Asleep, Expired, Waiting, Waits
<1>8. ParkedWhereItWaits'
  <2>1. /\ \A c \in Channels : cur \notin SendersOf(c) /\ cur \notin ReceiversOf(c)
        /\ \A n \in Notifs : cur \notin WaitersOf(n)
    BY <1>1, <1>7 DEF IInv, ParkedWhereItWaits
  <2> SUFFICES ASSUME NEW x \in Threads
               PROVE  /\ \A c \in Channels :
                           /\ (x \in SendersOf(c))' <=> Asleep(x)' /\ pc'[x].at = "sent" /\ pc'[x].on = c
                           /\ (x \in ReceiversOf(c))'
                                <=> (Asleep(x)' \/ Expired(x)') /\ pc'[x].at = "woken" /\ pc'[x].on = c
                      /\ \A n \in Notifs : (x \in WaitersOf(n))'
                                <=> Asleep(x)' /\ pc'[x].at = "noted" /\ pc'[x].on = n
                      /\ Asleep(x)' => /\ pc'[x].at = "sent"  => sched'.ipc[x] = On("BlockedOnSend", pc'[x].on)
                                       /\ pc'[x].at = "woken" => sched'.ipc[x] = On("BlockedOnReceive", pc'[x].on)
                                       /\ pc'[x].at = "noted" => sched'.ipc[x] = On("BlockedOnNotify", pc'[x].on)
    BY DEF ParkedWhereItWaits
  <2>2. CASE x = cur
    BY <1>5, <1>6, <1>7, <2>1, <2>2
  <2>3. CASE x # cur
    BY <1>5, <1>6, <1>7, <2>3 DEF IInv, ParkedWhereItWaits
  <2> QED BY <2>2, <2>3
<1>9. WaitsForOneWake'
  <2>1. \A x \in Threads : wakes'[x] = IF x = cur THEN 0 ELSE wakes[x]
    BY <1>1 DEF IInv, TypeOK
  <2>2. sched'.st[cur] = "Blocked" /\ pc'[cur].at \in Waits
    BY <1>1, <1>5, <1>6 DEF Waits
  <2> QED BY <1>1, <1>6, <1>7, <2>1, <2>2 DEF IInv, WaitsForOneWake, Waiting, Polls
<1>10. DeadlinesExact'
  <2>1. /\ \A i, j \in 1 .. Len(timerq') : timerq'[i] = timerq'[j] => i = j
        /\ \A x \in Threads : x # cur => (InTimer(timerq, x)' <=> InTimer(timerq, x))
        /\ \A x \in Threads : x = cur => (InTimer(timerq, x)' <=> op = "recvT")
    <3>1. ~ InTimer(timerq, cur)
      BY <1>1, <1>7 DEF IInv, DeadlinesExact
    <3>2. \A x \in Threads : InTimer(timerq, x)' <=> InTimer(timerq', x)
      BY DEF InTimer
    <3> QED BY <1>1, <3>1, <3>2 DEF Distinct
  <2>2. sched'.ipc[cur].why # "TimedOut"
    BY <1>5 DEF On
  <2> QED BY <1>5, <1>6, <1>7, <2>1, <2>2 DEF IInv, DeadlinesExact, Timed
<1> QED BY <1>4, <1>8, <1>9, <1>10 DEF IInv, SchedulerConsistent

(* schedule() called by the Running thread, in yield.                      *)
LEMMA ScheduleKeeps ==
  ASSUME IInv, TypeOK', sched' = Schedule(sched),
         UNCHANGED <<sendq, recvq, notifyq, timerq, pc, wakes>>
  PROVE  IInv'
<1>1. /\ cur \in Threads /\ cur \notin Queued(sched)
      /\ sched \in SchedState /\ Consistent(sched) /\ QueuedOnce(sched)
  BY CurRuns DEF IInv, TypeOK, SchedulerConsistent, Consistent
<1>2. Len(sched.rq) <= ReadyCap
  BY <1>1, QueueFits, IpcAssumption
<1>3. /\ Consistent(sched') /\ sched'.ipc = sched.ipc
      /\ \A t \in Threads : sched'.st[t] = "Blocked" <=> sched.st[t] = "Blocked"
      /\ \A t \in Threads : sched'.st[t] \in {"Ready", "Running"}
                            <=> sched.st[t] \in {"Ready", "Running"}
  BY <1>1, <1>2, ScheduleConsistent
<1>4. \A t \in Threads : (Asleep(t)' <=> Asleep(t)) /\ (Expired(t)' <=> Expired(t))
  BY <1>3 DEF Asleep, Expired
<1>5. ParkedWhereItWaits'
  BY <1>3, <1>4 DEF IInv, ParkedWhereItWaits, SendersOf, ReceiversOf, WaitersOf
<1>6. ParkedOnce'
  BY DEF IInv, ParkedOnce
<1>7. WaitsForOneWake'
  BY <1>3, <1>4 DEF IInv, WaitsForOneWake, Waiting, Polls
<1>8. DeadlinesExact'
  BY <1>3, <1>4 DEF IInv, DeadlinesExact, InTimer
<1> QED BY <1>3, <1>5, <1>6, <1>7, <1>8 DEF IInv, SchedulerConsistent

-----------------------------------------------------------------------------
(* The queues of IInv, as sets of distinct threads.                        *)
LEMMA QueuesDistinct ==
  ASSUME IInv
  PROVE  /\ \A c \in Channels : DistinctTids(sendq[c]) /\ Tids(sendq[c]) = SendersOf(c)
         /\ \A c \in Channels : Distinct(recvq[c]) /\ Elems(recvq[c]) = ReceiversOf(c)
         /\ \A n \in Notifs : Distinct(notifyq[n]) /\ Elems(notifyq[n]) = WaitersOf(n)
         /\ Distinct(timerq) /\ \A x : InTimer(timerq, x) <=> x \in Elems(timerq)
<1>1. /\ \A c \in Channels : DistinctTids(sendq[c]) /\ Tids(sendq[c]) = SendersOf(c)
      /\ \A c \in Channels : Distinct(recvq[c]) /\ Elems(recvq[c]) = ReceiversOf(c)
      /\ \A n \in Notifs : Distinct(notifyq[n]) /\ Elems(notifyq[n]) = WaitersOf(n)
  BY DEF IInv, ParkedOnce, DistinctTids, Distinct, Tids, Elems, SendersOf, ReceiversOf, WaitersOf
<1>2. Distinct(timerq) /\ \A x : InTimer(timerq, x) <=> x \in Elems(timerq)
  BY DEF IInv, DeadlinesExact, Distinct, InTimer, Elems
<1> QED BY <1>1, <1>2

(* A current thread that is not coming back from a wait is parked nowhere. *)
LEMMA CurNotParked ==
  ASSUME IInv, ~ Expired(cur)
  PROVE  /\ \A c \in Channels : cur \notin SendersOf(c) /\ cur \notin ReceiversOf(c)
         /\ \A n \in Notifs : cur \notin WaitersOf(n)
         /\ ~ InTimer(timerq, cur)
<1>1. cur \in Threads /\ sched.st[cur] = "Running"
  BY CurRuns DEF IInv
<1> QED BY <1>1 DEF IInv, ParkedWhereItWaits, DeadlinesExact, Asleep

LEMMA NotWaitingNotExpired ==
  ASSUME NEW t, ~ Waiting(t)
  PROVE  ~ Expired(t)
  BY DEF Waiting, Waits, Expired

LEMMA UserContinues ==
  ASSUME IInv, pc' = [pc EXCEPT ![cur] = User]
  PROVE  Continues
<1>1. cur \in Threads
  BY CurRuns DEF IInv
<1>2. pc'[cur] = User /\ \A x \in Threads : x # cur => pc'[x] = pc[x]
  BY <1>1 DEF IInv, TypeOK
<1> QED BY <1>2 DEF Continues, Waits, Timed, User, At

LEMMA AfterSendContinues ==
  ASSUME IInv, ~ Polls(cur), NEW op, NEW c,
         op = "callT" => SetsDeadline(cur) /\ c \in Uses[cur],
         pc' = [pc EXCEPT ![cur] = AfterSend(op, c)]
  PROVE  Continues
<1>1. cur \in Threads
  BY CurRuns DEF IInv
<1>2. \/ AfterSend(op, c) = At("recv", "recv", c)
      \/ AfterSend(op, c) = At("recv", "recvT", c) /\ op = "callT"
      \/ AfterSend(op, c) = User
  BY DEF AfterSend
<1>3. /\ AfterSend(op, c).at \notin Waits
      /\ AfterSend(op, c).op \in Timed => op = "callT" /\ AfterSend(op, c).on = c
  BY <1>2 DEF At, User, Waits, Timed
<1>4. \A x \in Threads : pc'[x] = IF x = cur THEN AfterSend(op, c) ELSE pc[x]
  BY <1>1 DEF IInv, TypeOK
<1> QED BY <1>1, <1>3, <1>4 DEF Continues

(* Whom a send on a channel finds parked there has no deadline: nobody     *)
(* sends to a thread that sets one.                                        *)
LEMMA ReceiverHasNoDeadline ==
  ASSUME Quiet, IInv, ~ Waiting(cur), NEW c \in Channels, c \in SendsOn(cur),
         NEW r \in Threads, r \in ReceiversOf(c)
  PROVE  Asleep(r) /\ ~ InTimer(timerq, r) /\ pc[r].at = "woken" /\ pc[r].on = c
<1>1. /\ cur \in Threads /\ (Asleep(r) \/ Expired(r))
      /\ pc[r].at = "woken" /\ pc[r].on = c
  BY CurRuns DEF IInv, ParkedWhereItWaits
<1>2. r # cur
  BY <1>1 DEF Waiting, Waits
<1>3. pc[r].op # "recvT"
  <2> SUFFICES ASSUME pc[r].op = "recvT" PROVE FALSE
    OBVIOUS
  <2>1. SetsDeadline(r) /\ c \in Uses[r]
    BY <1>1 DEF IInv, DeadlinesExact
  <2>2. SendsOn(cur) \cap Uses[r] = {}
    BY <1>1, <1>2, <2>1 DEF Quiet
  <2> QED BY <2>1, <2>2
<1> QED BY <1>1, <1>3 DEF IInv, DeadlinesExact

LEMMA SendOnKeeps ==
  ASSUME Quiet, IInv, TypeOK', \E q \in Threads : Polls(q), ~ Polls(cur), ~ Waiting(cur),
         NEW c \in Channels, c \in SendsOn(cur),
         NEW op \in {"send", "call", "callT", "serve"},
         op = "callT" => SetsDeadline(cur) /\ c \in Uses[cur],
         NEW m \in Msg, SendOn(op, c, m),
         UNCHANGED <<timerq, notifyq>>
  PROVE  IInv'
<1>0. c \in Objects /\ cur \in Threads /\ TypeOK /\ ~ Expired(cur)
  BY IpcAssumption, CurRuns, NotWaitingNotExpired DEF IInv
<1>1. CASE recvq[c] # << >>
  <2> DEFINE r == Head(recvq[c])
  <2>1. /\ recvq' = [recvq EXCEPT ![c] = Tail(@)] /\ sched' = Wake(sched, r)
        /\ wakes' = [wakes EXCEPT ![r] = @ + 1] /\ sendq' = sendq
        /\ pc' = [pc EXCEPT ![cur] = AfterSend(op, c)]
    BY <1>1 DEF SendOn
  <2>2. /\ recvq[c] \in Seq(Threads) /\ Distinct(recvq[c]) /\ r \in Threads
        /\ Elems(recvq[c]) = ReceiversOf(c)
    BY <1>0, <1>1, QueuesDistinct DEF TypeOK
  <2>3. Distinct(Tail(recvq[c])) /\ Elems(Tail(recvq[c])) = ReceiversOf(c) \ {r}
    BY <1>1, <2>2, TailOfDistinct
  <2>4. r \in ReceiversOf(c)
    BY <1>1, <2>2, TailIndices DEF ReceiversOf
  <2> HIDE DEF r
  <2>5. Asleep(r) /\ ~ InTimer(timerq, r) /\ pc[r].at = "woken" /\ pc[r].on = c
    BY <2>2, <2>4, ReceiverHasNoDeadline
  <2>6. /\ \A x \in Channels : r \notin SendersOf(x) /\ (x # c => r \notin ReceiversOf(x))
        /\ \A n \in Notifs : r \notin WaitersOf(n)
    BY <2>2, <2>5 DEF IInv, ParkedWhereItWaits
  <2>7. \A x \in Channels : recvq'[x] = IF x = c THEN Tail(recvq[c]) ELSE recvq[x]
    BY <1>0, <2>1 DEF TypeOK
  <2>8. \A x \in Channels : ReceiversOf(x)' = ReceiversOf(x) \ {r}
    <3>1. \A x \in Channels : ReceiversOf(x)' = Elems(recvq'[x]) /\ ReceiversOf(x) = Elems(recvq[x])
      BY Zenon DEF ReceiversOf, Elems
    <3> QED BY <2>3, <2>6, <2>7, <3>1
  <2>9. /\ \A x \in Channels : SendersOf(x)' = SendersOf(x) \ {r}
        /\ \A n \in Notifs : WaitersOf(n)' = WaitersOf(n) \ {r}
    BY <2>1, <2>6 DEF SendersOf, WaitersOf
  <2>10. ParkedOnce'
    BY <2>1, <2>3, <2>7 DEF IInv, ParkedOnce, Distinct
  <2>11. Continues
    BY <2>1, AfterSendContinues
  <2> QED BY <2>1, <2>2, <2>5, <2>8, <2>9, <2>10, <2>11, WakeKeeps
<1>2. CASE recvq[c] = << >> /\ Len(sendq[c]) < WaitCap
  <2> DEFINE e == [tid |-> cur, msg |-> m]
  <2>1. /\ sendq' = [sendq EXCEPT ![c] = Append(@, e)]
        /\ sched' = Block(sched, On("BlockedOnSend", c)) /\ wakes' = [wakes EXCEPT ![cur] = 0]
        /\ pc' = [pc EXCEPT ![cur] = At("sent", op, c)] /\ recvq' = recvq
    BY <1>0, <1>2, IpcAssumption DEF SendOn, TypeOK
  <2>2. e \in Parked /\ e.tid = cur
    BY <1>0 DEF Parked
  <2> HIDE DEF e
  <2>3. DistinctTids(Append(sendq[c], e)) /\ Tids(Append(sendq[c], e)) = SendersOf(c) \cup {cur}
    <3>1. sendq[c] \in Seq(Parked) /\ DistinctTids(sendq[c]) /\ Tids(sendq[c]) = SendersOf(c)
      BY <1>0, QueuesDistinct DEF TypeOK
    <3> QED BY <1>0, <2>2, <3>1, CurNotParked, AppendDistinctTids
  <2>4. \A x \in Channels : sendq'[x] = IF x = c THEN Append(sendq[c], e) ELSE sendq[x]
    BY <1>0, <2>1 DEF TypeOK
  <2>5. \A x \in Channels : SendersOf(x)' =
          IF "sent" = "sent" /\ c = x THEN SendersOf(x) \cup {cur} ELSE SendersOf(x)
    <3>1. \A x \in Channels : SendersOf(x)' = Tids(sendq'[x]) /\ SendersOf(x) = Tids(sendq[x])
      BY Zenon DEF SendersOf, Tids
    <3> QED BY <2>3, <2>4, <3>1
  <2>6. /\ \A x \in Channels : ReceiversOf(x)' =
             IF "sent" = "woken" /\ c = x THEN ReceiversOf(x) \cup {cur} ELSE ReceiversOf(x)
        /\ \A n \in Notifs : WaitersOf(n)' =
             IF "sent" = "noted" /\ c = n THEN WaitersOf(n) \cup {cur} ELSE WaitersOf(n)
    BY <2>1 DEF ReceiversOf, WaitersOf
  <2>7. ParkedOnce'
    BY <2>1, <2>3, <2>4 DEF IInv, ParkedOnce, DistinctTids
  <2>8. /\ Distinct(timerq') /\ op # "recvT"
        /\ \A x \in Threads : InTimer(timerq', x)
             <=> InTimer(timerq, x) \/ (x = cur /\ op = "recvT")
    BY QueuesDistinct
  <2>9. op \in Timed => SetsDeadline(cur) /\ c \in Uses[cur]
    BY DEF Timed
  <2> QED BY <1>0, <2>1, <2>5, <2>6, <2>7, <2>8, <2>9, ParkKeeps
<1>3. CASE recvq[c] = << >> /\ Len(sendq[c]) >= WaitCap
  <2>1. pc' = [pc EXCEPT ![cur] = User] /\ UNCHANGED <<sched, sendq, recvq, wakes>>
    BY <1>0, <1>3, IpcAssumption DEF SendOn, TypeOK
  <2> QED BY <1>0, <2>1, UserContinues, ResumeKeeps
<1> QED BY <1>1, <1>2, <1>3 DEF SendOn

LEMMA RecvOnKeeps ==
  ASSUME IInv, TypeOK', \E q \in Threads : Polls(q), ~ Polls(cur), ~ Waiting(cur),
         NEW c \in Channels, NEW op, op \in Timed => SetsDeadline(cur) /\ c \in Uses[cur],
         RecvOn(op, c), UNCHANGED notifyq
  PROVE  IInv'
<1>0. c \in Objects /\ cur \in Threads /\ TypeOK /\ ~ Expired(cur)
  BY IpcAssumption, CurRuns, NotWaitingNotExpired DEF IInv
<1>1. CASE sendq[c] # << >>
  <2> DEFINE r == Head(sendq[c]).tid
  <2>1. /\ sendq' = [sendq EXCEPT ![c] = Tail(@)] /\ sched' = Wake(sched, r)
        /\ wakes' = [wakes EXCEPT ![r] = @ + 1] /\ recvq' = recvq /\ timerq' = timerq
        /\ pc' = [pc EXCEPT ![cur] = User]
    BY <1>1 DEF RecvOn
  <2>2. /\ sendq[c] \in Seq(Parked) /\ DistinctTids(sendq[c]) /\ Head(sendq[c]) \in Parked
        /\ Tids(sendq[c]) = SendersOf(c)
    BY <1>0, <1>1, QueuesDistinct DEF TypeOK
  <2>3. DistinctTids(Tail(sendq[c])) /\ Tids(Tail(sendq[c])) = SendersOf(c) \ {r}
    BY <1>1, <2>2, TailOfDistinctTids
  <2>4. r \in SendersOf(c)
    BY <1>1, <2>2, TailIndices DEF SendersOf
  <2>5. r \in Threads
    BY <2>2 DEF Parked
  <2> HIDE DEF r
  <2>6. Asleep(r) /\ pc[r].at = "sent" /\ pc[r].on = c
    BY <2>4, <2>5 DEF IInv, ParkedWhereItWaits
  <2>7. /\ \A x \in Channels : r \notin ReceiversOf(x) /\ (x # c => r \notin SendersOf(x))
        /\ \A n \in Notifs : r \notin WaitersOf(n)
        /\ ~ InTimer(timerq, r)
    BY <2>5, <2>6 DEF IInv, ParkedWhereItWaits, DeadlinesExact
  <2>8. \A x \in Channels : sendq'[x] = IF x = c THEN Tail(sendq[c]) ELSE sendq[x]
    BY <1>0, <2>1 DEF TypeOK
  <2>9. \A x \in Channels : SendersOf(x)' = SendersOf(x) \ {r}
    <3>1. \A x \in Channels : SendersOf(x)' = Tids(sendq'[x]) /\ SendersOf(x) = Tids(sendq[x])
      BY Zenon DEF SendersOf, Tids
    <3> QED BY <2>3, <2>7, <2>8, <3>1
  <2>10. /\ \A x \in Channels : ReceiversOf(x)' = ReceiversOf(x) \ {r}
         /\ \A n \in Notifs : WaitersOf(n)' = WaitersOf(n) \ {r}
    BY <2>1, <2>7 DEF ReceiversOf, WaitersOf
  <2>11. ParkedOnce'
    BY <2>1, <2>3, <2>8 DEF IInv, ParkedOnce, DistinctTids
  <2>12. Continues
    BY <2>1, UserContinues
  <2> QED BY <2>1, <2>5, <2>6, <2>7, <2>9, <2>10, <2>11, <2>12, WakeKeeps
<1>2. CASE sendq[c] = << >> /\ Len(recvq[c]) < WaitCap
  <2>1. /\ recvq' = [recvq EXCEPT ![c] = Append(@, cur)]
        /\ IF op = "recvT" THEN \E i \in 0 .. Len(timerq) : timerq' = Inserted(timerq, i, cur)
                           ELSE UNCHANGED timerq
        /\ sched' = Block(sched, On("BlockedOnReceive", c)) /\ wakes' = [wakes EXCEPT ![cur] = 0]
        /\ pc' = [pc EXCEPT ![cur] = At("woken", op, c)] /\ sendq' = sendq
    <3>1. ~ (Len(recvq[c]) >= WaitCap)
      BY <1>0, <1>2, IpcAssumption DEF TypeOK
    <3> QED BY <1>2, <3>1 DEF RecvOn
  <2>2. Distinct(Append(recvq[c], cur)) /\ Elems(Append(recvq[c], cur)) = ReceiversOf(c) \cup {cur}
    <3>1. recvq[c] \in Seq(Threads) /\ Distinct(recvq[c]) /\ Elems(recvq[c]) = ReceiversOf(c)
      BY <1>0, QueuesDistinct DEF TypeOK
    <3> QED BY <1>0, <3>1, CurNotParked, AppendDistinct
  <2>3. \A x \in Channels : recvq'[x] = IF x = c THEN Append(recvq[c], cur) ELSE recvq[x]
    BY <1>0, <2>1 DEF TypeOK
  <2>4. \A x \in Channels : ReceiversOf(x)' =
          IF "woken" = "woken" /\ c = x THEN ReceiversOf(x) \cup {cur} ELSE ReceiversOf(x)
    <3>1. \A x \in Channels : ReceiversOf(x)' = Elems(recvq'[x]) /\ ReceiversOf(x) = Elems(recvq[x])
      BY Zenon DEF ReceiversOf, Elems
    <3> QED BY <2>2, <2>3, <3>1
  <2>5. /\ \A x \in Channels : SendersOf(x)' =
             IF "woken" = "sent" /\ c = x THEN SendersOf(x) \cup {cur} ELSE SendersOf(x)
        /\ \A n \in Notifs : WaitersOf(n)' =
             IF "woken" = "noted" /\ c = n THEN WaitersOf(n) \cup {cur} ELSE WaitersOf(n)
    BY <2>1 DEF SendersOf, WaitersOf
  <2>6. ParkedOnce'
    BY <2>1, <2>2, <2>3 DEF IInv, ParkedOnce, Distinct
  <2>7. /\ Distinct(timerq')
        /\ \A x \in Threads : InTimer(timerq', x)
             <=> InTimer(timerq, x) \/ (x = cur /\ op = "recvT")
    <3>1. CASE op # "recvT"
      BY <2>1, <3>1, QueuesDistinct
    <3>2. CASE op = "recvT"
      <4>1. PICK i \in 0 .. Len(timerq) : timerq' = Inserted(timerq, i, cur)
        BY <2>1, <3>2
      <4>2. timerq \in Seq(Threads) /\ Distinct(timerq) /\ cur \notin Elems(timerq)
        BY <1>0, QueuesDistinct, CurNotParked DEF TypeOK
      <4>3. Distinct(timerq') /\ Elems(timerq') = Elems(timerq) \cup {cur}
        BY <1>0, <4>1, <4>2, InsertedDistinct
      <4>4. \A x : (InTimer(timerq', x) <=> x \in Elems(timerq'))
                   /\ (InTimer(timerq, x) <=> x \in Elems(timerq))
        BY DEF InTimer, Elems
      <4> QED BY <3>2, <4>3, <4>4
    <3> QED BY <3>1, <3>2
  <2> QED BY <1>0, <2>1, <2>4, <2>5, <2>6, <2>7, ParkKeeps
<1>3. CASE sendq[c] = << >> /\ Len(recvq[c]) >= WaitCap
  <2>1. pc' = [pc EXCEPT ![cur] = User] /\ UNCHANGED <<sched, sendq, recvq, timerq, wakes>>
    <3>1. ~ (Len(recvq[c]) < WaitCap)
      BY <1>0, <1>3, IpcAssumption DEF TypeOK
    <3> QED BY <1>3, <3>1 DEF RecvOn
  <2> QED BY <1>0, <2>1, UserContinues, ResumeKeeps
<1> QED BY <1>1, <1>2, <1>3 DEF RecvOn

LEMMA NotifySendKeeps ==
  ASSUME IInv, TypeOK', NEW n \in Notifs, NotifySend(n)
  PROVE  IInv'
<1>0. /\ cur \in Threads /\ TypeOK /\ pc[cur].at = "user"
      /\ UNCHANGED <<sendq, recvq, timerq, pc>>
  BY CurRuns DEF IInv, NotifySend, InUser, ipcVars
<1>1. ~ Waiting(cur) /\ ~ Expired(cur) /\ Continues
  BY <1>0 DEF IInv, DeadlinesExact, Continues, Waiting, Waits, Timed, Expired
<1>2. CASE notifyq[n] # << >>
  <2> DEFINE w == Head(notifyq[n])
  <2>1. /\ notifyq' = [notifyq EXCEPT ![n] = Tail(@)] /\ sched' = Wake(sched, w)
        /\ wakes' = [wakes EXCEPT ![w] = @ + 1]
    BY <1>2 DEF NotifySend, Signal
  <2>2. /\ notifyq[n] \in Seq(Threads) /\ Distinct(notifyq[n]) /\ w \in Threads
        /\ Elems(notifyq[n]) = WaitersOf(n)
    BY <1>0, <1>2, QueuesDistinct DEF TypeOK
  <2>3. Distinct(Tail(notifyq[n])) /\ Elems(Tail(notifyq[n])) = WaitersOf(n) \ {w}
    BY <1>2, <2>2, TailOfDistinct
  <2>4. w \in WaitersOf(n)
    BY <1>2, <2>2, TailIndices DEF WaitersOf
  <2> HIDE DEF w
  <2>5. Asleep(w) /\ pc[w].at = "noted" /\ pc[w].on = n
    BY <2>2, <2>4 DEF IInv, ParkedWhereItWaits
  <2>6. /\ \A x \in Channels : w \notin SendersOf(x) /\ w \notin ReceiversOf(x)
        /\ \A x \in Notifs : x # n => w \notin WaitersOf(x)
        /\ ~ InTimer(timerq, w)
    BY <2>2, <2>5 DEF IInv, ParkedWhereItWaits, DeadlinesExact
  <2>7. \A x \in Notifs : notifyq'[x] = IF x = n THEN Tail(notifyq[n]) ELSE notifyq[x]
    BY <1>0, <2>1 DEF TypeOK
  <2>8. \A x \in Notifs : WaitersOf(x)' = WaitersOf(x) \ {w}
    <3>1. \A x \in Notifs : WaitersOf(x)' = Elems(notifyq'[x]) /\ WaitersOf(x) = Elems(notifyq[x])
      BY Zenon DEF WaitersOf, Elems
    <3> QED BY <2>3, <2>6, <2>7, <3>1
  <2>9. \A x \in Channels : /\ SendersOf(x)' = SendersOf(x) \ {w}
                            /\ ReceiversOf(x)' = ReceiversOf(x) \ {w}
    BY <1>0, <2>6 DEF SendersOf, ReceiversOf
  <2>10. ParkedOnce'
    BY <1>0, <2>3, <2>7 DEF IInv, ParkedOnce, Distinct
  <2> QED BY <1>0, <1>1, <2>1, <2>2, <2>5, <2>6, <2>8, <2>9, <2>10, WakeKeeps
<1>3. CASE notifyq[n] = << >>
  <2>1. UNCHANGED <<notifyq, sched, wakes>>
    BY <1>3 DEF NotifySend, Signal
  <2> QED BY <1>0, <1>1, <2>1, ResumeKeeps
<1> QED BY <1>2, <1>3

LEMMA NotifyWaitKeeps ==
  ASSUME IInv, TypeOK', \E q \in Threads : Polls(q), NEW n \in Notifs, NotifyWait(n)
  PROVE  IInv'
<1>0. /\ cur \in Threads /\ TypeOK /\ pc[cur].at = "user" /\ n \in Objects
      /\ "notifyWait" \in Program[cur] /\ UNCHANGED <<sendq, recvq, timerq>>
  BY CurRuns, IpcAssumption DEF IInv, NotifyWait, InUser, ipcVars
<1>1. ~ Polls(cur) /\ ~ Waiting(cur) /\ ~ Expired(cur)
  BY <1>0 DEF Polls, Waiting, Waits, Expired
<1>2. CASE UNCHANGED <<notifyq, sched, pc, wakes>>
  <2>1. Continues
    BY <1>0, <1>2 DEF IInv, DeadlinesExact, Continues, Waits, Timed
  <2> QED BY <1>0, <1>1, <1>2, <2>1, ResumeKeeps
<1>3. CASE ~ signaled[n] /\ Len(notifyq[n]) < WaitCap
  <2>1. /\ notifyq' = [notifyq EXCEPT ![n] = Append(@, cur)]
        /\ sched' = Block(sched, On("BlockedOnNotify", n)) /\ wakes' = [wakes EXCEPT ![cur] = 0]
        /\ pc' = [pc EXCEPT ![cur] = At("noted", "notifyWait", n)]
    <3>1. ~ (Len(notifyq[n]) >= WaitCap)
      BY <1>0, <1>3, IpcAssumption DEF TypeOK
    <3> QED BY <1>3, <3>1 DEF NotifyWait
  <2>2. /\ Distinct(Append(notifyq[n], cur))
        /\ Elems(Append(notifyq[n], cur)) = WaitersOf(n) \cup {cur}
    <3>1. notifyq[n] \in Seq(Threads) /\ Distinct(notifyq[n]) /\ Elems(notifyq[n]) = WaitersOf(n)
      BY <1>0, QueuesDistinct DEF TypeOK
    <3> QED BY <1>0, <1>1, <3>1, CurNotParked, AppendDistinct
  <2>3. \A x \in Notifs : notifyq'[x] = IF x = n THEN Append(notifyq[n], cur) ELSE notifyq[x]
    BY <1>0, <2>1 DEF TypeOK
  <2>4. \A x \in Notifs : WaitersOf(x)' =
          IF "noted" = "noted" /\ n = x THEN WaitersOf(x) \cup {cur} ELSE WaitersOf(x)
    <3>1. \A x \in Notifs : WaitersOf(x)' = Elems(notifyq'[x]) /\ WaitersOf(x) = Elems(notifyq[x])
      BY Zenon DEF WaitersOf, Elems
    <3> QED BY <2>2, <2>3, <3>1
  <2>5. \A x \in Channels :
          /\ SendersOf(x)' = IF "noted" = "sent" /\ n = x THEN SendersOf(x) \cup {cur}
                                                         ELSE SendersOf(x)
          /\ ReceiversOf(x)' = IF "noted" = "woken" /\ n = x THEN ReceiversOf(x) \cup {cur}
                                                            ELSE ReceiversOf(x)
    BY <1>0 DEF SendersOf, ReceiversOf
  <2>6. ParkedOnce'
    BY <1>0, <2>2, <2>3 DEF IInv, ParkedOnce, Distinct
  <2>7. /\ Distinct(timerq') /\ "notifyWait" \notin Timed /\ "notifyWait" # "recvT"
        /\ \A x \in Threads : InTimer(timerq', x)
             <=> InTimer(timerq, x) \/ (x = cur /\ "notifyWait" = "recvT")
    BY <1>0, QueuesDistinct DEF Timed
  <2> QED BY <1>0, <1>1, <2>1, <2>4, <2>5, <2>6, <2>7, ParkKeeps
<1> QED BY <1>2, <1>3 DEF NotifyWait

(* The timer interrupt wakes threads that are asleep with a deadline, none *)
(* of which a message has reached, and preempts.                           *)
LEMMA TimerKeeps ==
  ASSUME IInv, TypeOK', TimerIrq
  PROVE  IInv'
<1>1. /\ sched \in SchedState /\ Consistent(sched)
      /\ cur \in Threads /\ sched.st[cur] = "Running"
      /\ timerq \in Seq(Threads) /\ Distinct(timerq)
      /\ UNCHANGED <<sendq, recvq, notifyq, pc, wakes>>
  BY CurRuns, QueuesDistinct DEF IInv, TypeOK, SchedulerConsistent, TimerIrq, ipcVars, notifVars
<1>2. PICK k \in 0 .. Len(timerq) :
        /\ sched' = Schedule(WakeTimedOut(sched, SubSeq(timerq, 1, k)))
        /\ timerq' = SubSeq(timerq, k + 1, Len(timerq))
  BY DEF TimerIrq
<1> DEFINE e == SubSeq(timerq, 1, k)
           w == WakeTimedOut(sched, e)
<1>3. /\ e \in Seq(Threads) /\ Distinct(e) /\ Distinct(timerq')
      /\ Elems(e) \subseteq Elems(timerq) /\ Elems(timerq') = Elems(timerq) \ Elems(e)
  BY <1>1, <1>2, CutDistinct
<1>4. sched' = Schedule(w)
  BY <1>2
<1> HIDE DEF e
<1>5. \A x \in Elems(timerq) : x \in Threads /\ Asleep(x) /\ pc[x].at = "woken" /\ pc[x].op = "recvT"
  <2>1. \A x \in Elems(timerq) : x \in Threads
    BY <1>1 DEF Elems
  <2> QED BY <2>1, QueuesDistinct DEF IInv, DeadlinesExact
<1>6. /\ \A i, j \in 1 .. Len(e) : e[i] = e[j] => i = j
      /\ \A i \in 1 .. Len(e) : sched.st[e[i]] = "Blocked"
  BY <1>3, <1>5 DEF Distinct, Elems, Asleep
<1>7. /\ w \in SchedState /\ Consistent(w) /\ Len(w.rq) <= ReadyCap
      /\ \A t \in Threads : w.st[t] = IF t \in Elems(e) THEN "Ready" ELSE sched.st[t]
      /\ \A t \in Threads : w.ipc[t] = IF t \in Elems(e) THEN On("TimedOut", None) ELSE sched.ipc[t]
  BY <1>1, <1>3, <1>6, WakeTimedOutConsistent, IpcAssumption DEF Elems
<1> HIDE DEF w
<1>8. /\ Consistent(sched') /\ sched'.ipc = w.ipc
      /\ \A t \in Threads : sched'.st[t] = "Blocked" <=> w.st[t] = "Blocked"
      /\ \A t \in Threads : sched'.st[t] \in {"Ready", "Running"} <=> w.st[t] \in {"Ready", "Running"}
  BY <1>4, <1>7, ScheduleConsistent
<1>9. /\ \A t \in Threads : Asleep(t)' <=> Asleep(t) /\ t \notin Elems(e)
      /\ \A t \in Threads : Expired(t)' <=> Expired(t) \/ t \in Elems(e)
      /\ \A t \in Threads : t \notin Elems(e) => sched'.ipc[t] = sched.ipc[t]
      /\ \A t \in Threads : t \in Elems(e) => sched'.ipc[t].why = "TimedOut"
  BY <1>1, <1>3, <1>5, <1>7, <1>8 DEF Asleep, Expired, On
<1>10. \A x \in Threads : InTimer(timerq, x)' <=> InTimer(timerq, x) /\ x \notin Elems(e)
  <2>1. \A x : (InTimer(timerq, x)' <=> x \in Elems(timerq'))
               /\ (InTimer(timerq, x) <=> x \in Elems(timerq))
    BY DEF InTimer, Elems
  <2> QED BY <1>3, <2>1
<1>11. ParkedWhereItWaits'
  <2>1. /\ \A c \in Channels : SendersOf(c)' = SendersOf(c) /\ ReceiversOf(c)' = ReceiversOf(c)
        /\ \A n \in Notifs : WaitersOf(n)' = WaitersOf(n)
    BY <1>1 DEF SendersOf, ReceiversOf, WaitersOf
  <2>2. \A t \in Elems(e) : Asleep(t) /\ pc[t].at = "woken"
    BY <1>3, <1>5
  <2> QED BY <1>1, <1>9, <2>1, <2>2 DEF IInv, ParkedWhereItWaits
<1>12. ParkedOnce'
  BY <1>1 DEF IInv, ParkedOnce
<1>13. WaitsForOneWake'
  <2>1. \A t \in Threads : sched'.st[t] \in {"Ready", "Running", "Blocked"}
    BY <1>7, <1>8 DEF IInv, WaitsForOneWake
  <2>2. \A t \in Elems(e) : Asleep(t) /\ pc[t].at = "woken"
    BY <1>3, <1>5
  <2> QED BY <1>1, <1>9, <2>1, <2>2 DEF IInv, WaitsForOneWake, Waiting, Polls
<1>14. DeadlinesExact'
  <2>1. \A i, j \in 1 .. Len(timerq') : timerq'[i] = timerq'[j] => i = j
    BY <1>3 DEF Distinct
  <2>2. \A t \in Elems(e) : Asleep(t) /\ pc[t].at = "woken" /\ pc[t].op = "recvT" /\ SetsDeadline(t)
    BY <1>3, <1>5 DEF IInv, DeadlinesExact
  <2> QED BY <1>1, <1>9, <1>10, <2>1, <2>2 DEF IInv, DeadlinesExact
<1> QED BY <1>8, <1>11, <1>12, <1>13, <1>14 DEF IInv, SchedulerConsistent

(* A receive whose deadline has passed leaves the receivers' queue.        *)
LEMMA RecvTimesOutKeeps ==
  ASSUME IInv, TypeOK', RecvTimesOut
  PROVE  IInv'
<1>1. /\ cur \in Threads /\ TypeOK /\ pc[cur].on \in Channels /\ Expired(cur)
      /\ pc' = [pc EXCEPT ![cur] = User] /\ wakes' = [wakes EXCEPT ![cur] = 0]
      /\ UNCHANGED <<sched, sendq, notifyq, timerq>>
  BY CurRuns DEF IInv, TypeOK, RecvTimesOut, Expired, notifVars
<1> DEFINE c == pc[cur].on
<1>2. \A x \in Channels : recvq'[x] = IF x = c THEN Without(recvq[c], cur) ELSE recvq[x]
  BY <1>1 DEF RecvTimesOut, TypeOK
<1> HIDE DEF c
<1>3. /\ c \in Channels /\ recvq[c] \in Seq(Threads)
      /\ \A x \in Channels : Distinct(recvq[x]) /\ Elems(recvq[x]) = ReceiversOf(x)
  BY <1>1, QueuesDistinct DEF TypeOK, c
<1>4. Distinct(Without(recvq[c], cur)) /\ Elems(Without(recvq[c], cur)) = ReceiversOf(c) \ {cur}
  BY <1>3, WithoutDistinct
<1>5. \A x \in Channels : x # c => cur \notin ReceiversOf(x)
  BY <1>1 DEF IInv, ParkedWhereItWaits, c
<1>6. \A x \in Channels : ReceiversOf(x)' = ReceiversOf(x) \ {cur}
  <2>1. \A x \in Channels : ReceiversOf(x)' = Elems(recvq'[x])
    BY Zenon DEF ReceiversOf, Elems
  <2> QED BY <1>2, <1>3, <1>4, <1>5, <2>1
<1>7. /\ \A x \in Channels : SendersOf(x)' = SendersOf(x)
      /\ \A n \in Notifs : WaitersOf(n)' = WaitersOf(n)
  BY <1>1 DEF SendersOf, WaitersOf
<1>8. ParkedOnce'
  BY <1>1, <1>2, <1>4 DEF IInv, ParkedOnce, Distinct
<1>9. \A x \in Threads : x # cur => wakes'[x] = wakes[x]
  BY <1>1 DEF TypeOK
<1> QED BY <1>1, <1>6, <1>7, <1>8, <1>9, UserContinues, ReturnKeeps

-----------------------------------------------------------------------------
LEMMA InitInv == Init => IInv
<1> SUFFICES ASSUME Init PROVE IInv
  OBVIOUS
<1>1. TypeOK
  BY InitType
<1> DEFINE n == Cardinality(Threads) - 1
<1>2. PICK order \in [1 .. n -> Threads \ {Boot}] :
        /\ \A i, j \in DOMAIN order : order[i] = order[j] => i = j
        /\ sched = [st  |-> [t \in Threads |-> IF t = Boot THEN "Running" ELSE "Ready"],
                    ipc |-> [t \in Threads |-> IpcReady], rq  |-> order, cur |-> Boot]
  BY DEF Init
<1>3. n \in Nat /\ IsFiniteSet(Threads \ {Boot}) /\ Cardinality(Threads \ {Boot}) = n
  <2>1. IsFiniteSet(Threads \ {Boot}) /\ Cardinality(Threads \ {Boot}) = n
    BY IpcAssumption, FS_RemoveElement
  <2> QED BY <2>1, FS_CardinalityType
<1>4. order \in Seq(Threads) /\ Len(order) = n
  BY <1>3
<1> HIDE DEF n
<1>5. \A t \in Threads \ {Boot} : \E i \in 1 .. n : order[i] = t
  <2>1. order \in Injection(1 .. n, Threads \ {Boot})
    BY <1>2 DEF Injection, IsInjective
  <2>2. IsFiniteSet(1 .. n) /\ Cardinality(1 .. n) = n
    BY <1>3, FS_Interval
  <2>3. order \in Surjection(1 .. n, Threads \ {Boot})
    BY <1>3, <2>1, <2>2, FS_Injection
  <2> QED BY <2>3 DEF Surjection
<1>6. SchedulerConsistent
  <2>1. Queued(sched) = {order[i] : i \in 1 .. n}
    BY <1>2, <1>4 DEF Queued
  <2>2. /\ \A t \in Threads : sched.st[t] = IF t = Boot THEN "Running" ELSE "Ready"
        /\ sched.cur = Boot /\ sched.rq = order
    BY <1>2
  <2>3. QueueHoldsReady(sched) /\ ReadyIsQueued(sched)
    BY <1>2, <1>5, <2>1, <2>2 DEF QueueHoldsReady, ReadyIsQueued
  <2>4. QueuedOnce(sched)
    BY <1>2, <1>4, <2>2 DEF QueuedOnce
  <2> QED BY <2>2, <2>3, <2>4 DEF SchedulerConsistent, Consistent, OneRunning
<1>7. /\ \A t \in Threads : sched.st[t] = IF t = Boot THEN "Running" ELSE "Ready"
      /\ \A t \in Threads : sched.ipc[t] = IpcReady /\ pc[t] = User
  BY <1>2 DEF Init
<1>8. ParkedWhereItWaits
  BY <1>7 DEF Init, ParkedWhereItWaits, SendersOf, ReceiversOf, WaitersOf, Asleep, Expired, User, At
<1>9. ParkedOnce
  BY DEF Init, ParkedOnce
<1>10. WaitsForOneWake
  BY <1>7 DEF WaitsForOneWake, User, At, Asleep, Waiting, Waits
<1>11. DeadlinesExact
  BY <1>7 DEF Init, DeadlinesExact, InTimer, User, At, IpcReady, On, Asleep
<1> QED BY <1>1, <1>6, <1>8, <1>9, <1>10, <1>11 DEF IInv

LEMMA StepInv ==
  ASSUME Quiet, \E q \in Threads : Polls(q), IInv, [Next]_vars
  PROVE  IInv'
<1>1. TypeOK /\ TypeOK' /\ cur \in Threads /\ sched.st[cur] = "Running"
  BY NextType, CurRuns DEF IInv
<1>2. ASSUME NEW c \in Channels, NEW op \in {"send", "call", "callT"}, SysSend(op, c)
      PROVE  IInv'
  <2>1. /\ ~ Polls(cur) /\ ~ Waiting(cur) /\ c \in SendsOn(cur)
        /\ op = "callT" => SetsDeadline(cur) /\ c \in Uses[cur]
    BY <1>1, <1>2 DEF SysSend, InUser, Polls, Waiting, Waits, SendsOn, SetsDeadline
  <2>2. [src |-> cur, re |-> None] \in Msg
    BY <1>1 DEF Msg
  <2> QED BY <1>1, <1>2, <2>1, <2>2, SendOnKeeps DEF SysSend, notifVars
<1>3. ASSUME NEW c \in Channels, NEW op \in {"recv", "recvT"}, SysRecv(op, c)
      PROVE  IInv'
  <2>1. /\ ~ Polls(cur) /\ ~ Waiting(cur)
        /\ op \in Timed => SetsDeadline(cur) /\ c \in Uses[cur]
    BY <1>1, <1>3 DEF SysRecv, InUser, Polls, Waiting, Waits, SetsDeadline, Timed
  <2> QED BY <1>1, <1>3, <2>1, RecvOnKeeps DEF SysRecv, notifVars
<1>4. ASSUME NEW n \in Notifs, NotifySend(n) \/ NotifyWait(n) PROVE IInv'
  BY <1>1, <1>4, NotifySendKeeps, NotifyWaitKeeps
<1>5. CASE Yield
  BY <1>1, <1>5, ScheduleKeeps DEF Yield, ipcVars, notifVars
<1>6. CASE CallRecv
  <2>1. /\ pc[cur].on \in Channels /\ ~ Polls(cur) /\ ~ Waiting(cur)
        /\ pc[cur].op \in Timed => SetsDeadline(cur) /\ pc[cur].on \in Uses[cur]
    BY <1>1, <1>6 DEF CallRecv, IInv, TypeOK, DeadlinesExact, WaitsForOneWake, Waiting, Waits, Timed
  <2> QED BY <1>1, <1>6, <2>1, RecvOnKeeps DEF CallRecv, notifVars
<1>7. CASE SendReturns
  <2>1. /\ pc[cur].op = "callT" => SetsDeadline(cur) /\ pc[cur].on \in Uses[cur]
        /\ ~ Polls(cur) /\ ~ Expired(cur)
    BY <1>1, <1>7 DEF SendReturns, IInv, DeadlinesExact, WaitsForOneWake, Expired
  <2>2. Continues
    BY <1>7, <2>1, AfterSendContinues DEF SendReturns
  <2>3. \A x \in Threads : x # cur => wakes'[x] = wakes[x]
    BY <1>1, <1>7 DEF SendReturns, TypeOK
  <2> QED BY <1>1, <1>7, <2>1, <2>2, <2>3, ResumeKeeps DEF SendReturns, ipcVars, notifVars
<1>8. CASE RecvTimesOut
  BY <1>1, <1>8, RecvTimesOutKeeps
<1>9. CASE RecvReturns
  <2>1. pc[cur].op # "recvT" /\ ~ Expired(cur)
    BY <1>1, <1>9 DEF RecvReturns, IInv, DeadlinesExact, Asleep, Expired
  <2>2. timerq' = timerq /\ pc' = [pc EXCEPT ![cur] = User]
        /\ UNCHANGED <<sched, sendq, recvq, notifyq>>
    BY <1>9, <2>1 DEF RecvReturns, ipcVars, notifVars
  <2>3. \A x \in Threads : x # cur => wakes'[x] = wakes[x]
    BY <1>1, <1>9 DEF RecvReturns, TypeOK
  <2> QED BY <1>1, <2>1, <2>2, <2>3, UserContinues, ResumeKeeps
<1>10. CASE NotifyReturns
  <2>1. \A x \in Threads : x # cur => wakes'[x] = wakes[x]
    BY <1>1, <1>10 DEF NotifyReturns, TypeOK
  <2>2. ~ Expired(cur)
    BY <1>10 DEF NotifyReturns, Expired
  <2> QED BY <1>1, <1>10, <2>1, <2>2, UserContinues, ResumeKeeps
          DEF NotifyReturns, ipcVars, notifVars
<1>11. CASE ServerRecv
  <2>1. ~ Polls(cur) /\ ~ Waiting(cur) /\ "serve" \notin Timed
    BY <1>1, <1>11 DEF ServerRecv, InUser, Polls, Waiting, Waits, Timed
  <2> QED BY <1>1, <1>11, <2>1, RecvOnKeeps, IpcAssumption DEF ServerRecv, notifVars
<1>12. CASE ServerReply
  <2>1. /\ ~ Polls(cur) /\ ~ Waiting(cur) /\ FsChannel \in SendsOn(cur) /\ "serve" # "callT"
    BY <1>1, <1>12 DEF ServerReply, InUser, Polls, Waiting, Waits, SendsOn
  <2>2. owed[cur] \in Msg
    BY <1>1, <1>12 DEF ServerReply, TypeOK
  <2>3. [src |-> cur, re |-> owed[cur].src] \in Msg
    BY <1>1, <2>2 DEF Msg
  <2> QED BY <1>1, <1>12, <2>1, <2>3, SendOnKeeps, IpcAssumption DEF ServerReply, notifVars
<1>13. CASE TimerIrq
  BY <1>1, <1>13, TimerKeeps
<1>14. CASE UNCHANGED vars
  <2>1. SchedulerConsistent' /\ ParkedWhereItWaits' /\ ParkedOnce'
    BY <1>14 DEF vars, IInv, SchedulerConsistent, ParkedWhereItWaits, SendersOf,
                 ReceiversOf, WaitersOf, ParkedOnce, Asleep, Expired
  <2>2. WaitsForOneWake' /\ DeadlinesExact'
    BY <1>14 DEF vars, IInv, WaitsForOneWake, DeadlinesExact, Asleep, Expired, Waiting, InTimer
  <2> QED BY <1>1, <2>1, <2>2 DEF IInv
<1> QED BY <1>2, <1>3, <1>4, <1>5, <1>6, <1>7, <1>8, <1>9, <1>10, <1>11, <1>12, <1>13, <1>14
        DEF Next, UserCall, KernelStep

(* The inductive invariant holds of every execution in which deadlines     *)
(* never race with messages and some thread only yields and signals.       *)
THEOREM InvariantHolds ==
  ASSUME Quiet, \E q \in Threads : Polls(q)
  PROVE  Spec => []IInv
<1>1. Init => IInv
  BY InitInv
<1>2. IInv /\ [Next]_vars => IInv'
  BY StepInv
<1> QED BY <1>1, <1>2, PTL DEF Spec

(* For any number of threads, channels and notifications: the ready queue  *)
(* of queue.rs holds the Ready threads and nobody else, each once, and     *)
(* exactly the thread on the CPU is Running, also while check_timeouts()   *)
(* wakes any number of threads at once.                                    *)
THEOREM ReadyQueueExact ==
  ASSUME Quiet, \E q \in Threads : Polls(q)
  PROVE  Spec => []SchedulerConsistent
<1>1. IInv => SchedulerConsistent
  BY DEF IInv
<1> QED BY <1>1, InvariantHolds, PTL

(* block_current() comes back to its caller after exactly one event, or    *)
(* after its deadline and no event: no spurious return, no event spent     *)
(* twice on one wait.                                                      *)
THEOREM OneWakePerWait ==
  ASSUME Quiet, \E q \in Threads : Polls(q)
  PROVE  Spec => []ResumeJustified
<1>1. IInv => ResumeJustified
  <2> SUFFICES ASSUME IInv PROVE ResumeJustified
    OBVIOUS
  <2>1. cur \in Threads /\ sched.st[cur] = "Running"
    BY CurRuns DEF IInv
  <2>2. pc[cur].at \in Waits /\ sched.ipc[cur].why = "TimedOut" <=> Expired(cur)
    BY <2>1 DEF IInv, DeadlinesExact, Expired, Waits
  <2> QED BY <2>1, <2>2 DEF IInv, WaitsForOneWake, ResumeJustified, Asleep, Waiting, Waits
<1> QED BY <1>1, InvariantHolds, PTL

LEMMA OnInjective ==
  \A v, w, x, y : On(v, x) = On(w, y) <=> v = w /\ x = y
  BY DEF On

LEMMA UntimedIsQuiet == Untimed => Quiet
  BY DEF Untimed, Quiet

(* A thread that block_current() put to sleep is on exactly the queue its  *)
(* ipc_state names, so the event it waits for finds it, and no queue holds *)
(* a thread that has left.                                                 *)
THEOREM SleepersAreFound ==
  ASSUME Untimed, \E q \in Threads : Polls(q)
  PROVE  Spec => []BlockedIffParked
<1>1. IInv => BlockedIffParked
  <2> SUFFICES ASSUME IInv, NEW t \in Threads
               PROVE  /\ \A c \in Channels :
                           /\ t \in SendersOf(c) <=> BlockedAs(t, "BlockedOnSend", c)
                           /\ t \in ReceiversOf(c) <=> BlockedAs(t, "BlockedOnReceive", c)
                      /\ \A n \in Notifs : t \in WaitersOf(n) <=> BlockedAs(t, "BlockedOnNotify", n)
                      /\ sched.st[t] = "Blocked" =>
                           sched.ipc[t].why \in {"BlockedOnSend", "BlockedOnReceive", "BlockedOnNotify"}
    BY DEF BlockedIffParked
  <2>1. ~ Expired(t)
    BY DEF Untimed, IInv, DeadlinesExact, Expired
  <2>2. CASE ~ Asleep(t)
    BY <2>1, <2>2 DEF IInv, ParkedWhereItWaits, BlockedAs, Asleep
  <2>3. CASE Asleep(t)
    <3>1. PICK why \in {"BlockedOnSend", "BlockedOnReceive", "BlockedOnNotify"} :
             /\ sched.ipc[t] = On(why, pc[t].on)
             /\ pc[t].at = "sent" <=> why = "BlockedOnSend"
             /\ pc[t].at = "woken" <=> why = "BlockedOnReceive"
             /\ pc[t].at = "noted" <=> why = "BlockedOnNotify"
      BY <2>3 DEF IInv, ParkedWhereItWaits, WaitsForOneWake, Waiting, Waits
    <3>2. \A v, o : BlockedAs(t, v, o) <=> v = why /\ o = pc[t].on
      BY <2>3, <3>1, OnInjective DEF BlockedAs, Asleep
    <3>3. sched.ipc[t].why = why
      BY <3>1 DEF On
    <3> QED BY <2>1, <2>3, <3>1, <3>2, <3>3 DEF IInv, ParkedWhereItWaits
  <2> QED BY <2>2, <2>3
<1> QED BY <1>1, UntimedIsQuiet, InvariantHolds, PTL

-----------------------------------------------------------------------------
(* A queue of distinct threads, all of them in S, is no longer than S has  *)
(* members.                                                                *)
LEMMA DistinctFits ==
  ASSUME NEW q \in Seq(Threads), Distinct(q), NEW S \in SUBSET Threads,
         Elems(q) \subseteq S
  PROVE  Len(q) <= Cardinality(S)
<1> DEFINE n == Len(q)
<1>1. n \in Nat /\ q \in [1 .. n -> Threads]
  OBVIOUS
<1>2. IsFiniteSet(S) /\ IsFiniteSet(Elems(q))
  BY IpcAssumption, FS_Subset
<1>3. /\ Cardinality(S) \in Nat /\ Cardinality(Elems(q)) \in Nat
      /\ Cardinality(Elems(q)) <= Cardinality(S)
  BY <1>2, FS_CardinalityType, FS_Subset
<1>4. Cardinality(Elems(q)) = n
  <2>1. q \in Bijection(1 .. n, Elems(q))
    BY <1>1 DEF Elems, Distinct, Bijection, Injection, Surjection, IsInjective
  <2>2. ExistsBijection(1 .. n, Elems(q))
    BY <2>1 DEF ExistsBijection
  <2> QED BY <2>2, <1>1, FS_CountingElements
<1> QED BY <1>1, <1>3, <1>4

LEMMA InvFullOnlyOfWaiters ==
  ASSUME IInv
  PROVE  FullOnlyOfWaiters
<1> SUFFICES ASSUME ~ Waiting(cur)
             PROVE  /\ \A c \in Channels :
                         /\ Len(sendq[c]) <= Cardinality(OthersIn("sent", c))
                         /\ Len(recvq[c]) <= Cardinality(OthersIn("woken", c))
                    /\ \A n \in Notifs : Len(notifyq[n]) <= Cardinality(OthersIn("noted", n))
  BY DEF FullOnlyOfWaiters
<1>1. /\ cur \in Threads /\ TypeOK /\ ~ Expired(cur)
      /\ pc[cur].at \notin {"sent", "woken", "noted"}
  BY CurRuns, NotWaitingNotExpired DEF IInv, Waiting, Waits
<1>2. \A at, o : OthersIn(at, o) \in SUBSET Threads
  BY DEF OthersIn
<1>3. ASSUME NEW c \in Channels PROVE Len(recvq[c]) <= Cardinality(OthersIn("woken", c))
  <2>1. recvq[c] \in Seq(Threads) /\ Distinct(recvq[c])
    BY <1>1, QueuesDistinct DEF TypeOK
  <2>2. Elems(recvq[c]) \subseteq OthersIn("woken", c)
    <3>1. Elems(recvq[c]) = ReceiversOf(c) /\ ReceiversOf(c) \subseteq Threads
      BY <2>1 DEF Elems, ReceiversOf
    <3>2. \A t \in ReceiversOf(c) : pc[t].at = "woken" /\ pc[t].on = c
      BY <3>1 DEF IInv, ParkedWhereItWaits
    <3> QED BY <1>1, <3>1, <3>2 DEF OthersIn
  <2> QED BY <1>2, <2>1, <2>2, DistinctFits
<1>4. ASSUME NEW n \in Notifs PROVE Len(notifyq[n]) <= Cardinality(OthersIn("noted", n))
  <2>1. notifyq[n] \in Seq(Threads) /\ Distinct(notifyq[n])
    BY <1>1, QueuesDistinct DEF TypeOK
  <2>2. Elems(notifyq[n]) \subseteq OthersIn("noted", n)
    <3>1. Elems(notifyq[n]) = WaitersOf(n) /\ WaitersOf(n) \subseteq Threads
      BY <2>1 DEF Elems, WaitersOf
    <3>2. \A t \in WaitersOf(n) : pc[t].at = "noted" /\ pc[t].on = n
      BY <3>1 DEF IInv, ParkedWhereItWaits
    <3> QED BY <1>1, <3>1, <3>2 DEF OthersIn
  <2> QED BY <1>2, <2>1, <2>2, DistinctFits
<1>5. ASSUME NEW c \in Channels PROVE Len(sendq[c]) <= Cardinality(OthersIn("sent", c))
  <2>1. /\ sendq[c] \in Seq(Parked) /\ DistinctTids(sendq[c])
        /\ Len(sendq[c]) \in Nat
    BY <1>1, QueuesDistinct DEF TypeOK
  <2> DEFINE q == [i \in 1 .. Len(sendq[c]) |-> sendq[c][i].tid]
  <2>2. q \in Seq(Threads) /\ Len(q) = Len(sendq[c])
    <3>1. ASSUME NEW i \in 1 .. Len(sendq[c]) PROVE sendq[c][i].tid \in Threads
      <4>1. sendq[c][i] \in Parked
        BY <2>1
      <4> QED BY <4>1 DEF Parked
    <3> QED BY <2>1, <3>1
  <2>3. Distinct(q) /\ Elems(q) = SendersOf(c) /\ SendersOf(c) \subseteq Threads
    <3>1. Distinct(q)
      BY <2>1, <2>2 DEF Distinct, DistinctTids
    <3>2. Elems(q) = {q[i] : i \in 1 .. Len(sendq[c])}
      BY <2>2 DEF Elems
    <3>3. Elems(q) = SendersOf(c)
      BY <3>2 DEF SendersOf
    <3> QED BY <2>2, <3>1, <3>3 DEF Elems
  <2> HIDE DEF q
  <2>4. Elems(q) \subseteq OthersIn("sent", c)
    <3>1. \A t \in SendersOf(c) : pc[t].at = "sent" /\ pc[t].on = c
      BY <2>3 DEF IInv, ParkedWhereItWaits
    <3> QED BY <1>1, <2>3, <3>1 DEF OthersIn
  <2>5. Len(q) <= Cardinality(OthersIn("sent", c))
    BY <1>2, <2>2, <2>3, <2>4, DistinctFits
  <2> QED BY <2>1, <2>2, <2>5
<1> QED BY <1>3, <1>4, <1>5

(* However many threads there are: a call is refused, and the file server  *)
(* panics, only when WaitCap other threads are waiting in that queue.      *)
(* Receivers that gave up and threads that were woken leave no place       *)
(* behind, so a queue that filled up empties again with its waiters.       *)
THEOREM RefusedOnlyWhenFull ==
  ASSUME Quiet, \E q \in Threads : Polls(q)
  PROVE  Spec => []FullOnlyOfWaiters
<1>1. IInv => FullOnlyOfWaiters
  BY InvFullOnlyOfWaiters
<1> QED BY <1>1, InvariantHolds, PTL

-----------------------------------------------------------------------------
(* The kernel implements Rendezvous: a call that meets a partner is Hand,  *)
(* Take or Release, one that finds none is SendWaits, RecvWaits or Await,  *)
(* cancel_receive() is GiveUp, and all else leaves the meetings alone.     *)
SendersAt(c) == {sendq[c][i] : i \in 1 .. Len(sendq[c])}

LEMMA MeetAsSets ==
  /\ MeetSenders = [c \in Channels |-> SendersAt(c)]
  /\ MeetSenders' = [c \in Channels |-> SendersAt(c)']
  /\ MeetReceivers = [c \in Channels |-> ReceiversOf(c)]
  /\ MeetReceivers' = [c \in Channels |-> ReceiversOf(c)']
  /\ MeetWaiters = [n \in Notifs |-> WaitersOf(n)]
  /\ MeetWaiters' = [n \in Notifs |-> WaitersOf(n)']
<1>1. MeetSenders = [c \in Channels |-> SendersAt(c)]
  BY Zenon DEF MeetSenders, SendersAt
<1>2. MeetSenders' = [c \in Channels |-> SendersAt(c)']
  BY Zenon DEF MeetSenders, SendersAt
<1>3. MeetReceivers = [c \in Channels |-> ReceiversOf(c)]
  BY Zenon DEF MeetReceivers
<1>4. MeetReceivers' = [c \in Channels |-> ReceiversOf(c)']
  BY Zenon DEF MeetReceivers
<1>5. MeetWaiters = [n \in Notifs |-> WaitersOf(n)]
  BY Zenon DEF MeetWaiters
<1>6. MeetWaiters' = [n \in Notifs |-> WaitersOf(n)']
  BY Zenon DEF MeetWaiters
<1> QED BY <1>1, <1>2, <1>3, <1>4, <1>5, <1>6

(* A thread that makes a call waits nowhere.                               *)
LEMMA CurFree ==
  ASSUME IInv, ~ Expired(cur)
  PROVE  cur \in Threads /\ Meeting!Free(cur)
<1>1. cur \in Threads
  BY CurRuns DEF IInv
<1>2. /\ \A c \in Channels : cur \notin SendersOf(c) /\ cur \notin ReceiversOf(c)
      /\ \A n \in Notifs : cur \notin WaitersOf(n)
  BY CurNotParked
<1>3. \A c \in Channels : \A e \in SendersAt(c) : e.tid \in SendersOf(c)
  BY DEF SendersAt, SendersOf
<1> QED BY <1>1, <1>2, <1>3, MeetAsSets DEF Meeting!Free

LEMMA SameQueuesSameMeetings ==
  /\ sendq' = sendq => MeetSenders' = MeetSenders
  /\ recvq' = recvq => MeetReceivers' = MeetReceivers
  /\ notifyq' = notifyq => MeetWaiters' = MeetWaiters
<1>1. sendq' = sendq => MeetSenders' = MeetSenders
  BY DEF MeetSenders
<1>2. recvq' = recvq => MeetReceivers' = MeetReceivers
  BY DEF MeetReceivers, ReceiversOf
<1>3. notifyq' = notifyq => MeetWaiters' = MeetWaiters
  BY DEF MeetWaiters, WaitersOf
<1> QED BY <1>1, <1>2, <1>3

LEMMA SendOnMeets ==
  ASSUME IInv, ~ Expired(cur), NEW c \in Channels, NEW op,
         NEW m \in Msg, m.src = cur, SendOn(op, c, m), UNCHANGED <<signaled, notifyq>>
  PROVE  [Meeting!Next]_(Meeting!rdvVars)
<1>0. cur \in Threads /\ Meeting!Free(cur) /\ TypeOK /\ MeetWaiters' = MeetWaiters
  BY CurFree, SameQueuesSameMeetings DEF IInv
<1>1. CASE recvq[c] # << >>
  <2> DEFINE r == Head(recvq[c])
  <2>1. /\ recvq' = [recvq EXCEPT ![c] = Tail(@)] /\ sendq' = sendq /\ Deliver(r, m)
    BY <1>1 DEF SendOn
  <2>2. /\ recvq[c] \in Seq(Threads) /\ Distinct(recvq[c])
        /\ Elems(recvq[c]) = ReceiversOf(c)
    BY <1>0, QueuesDistinct DEF TypeOK
  <2>3. Elems(Tail(recvq[c])) = ReceiversOf(c) \ {r}
    BY <1>1, <2>2, TailOfDistinct
  <2>4. r \in ReceiversOf(c)
    BY <1>1, <2>2, TailIndices DEF ReceiversOf
  <2> HIDE DEF r
  <2>5. \A x \in Channels : recvq'[x] = IF x = c THEN Tail(recvq[c]) ELSE recvq[x]
    BY <1>0, <2>1 DEF TypeOK
  <2>6. \A x \in Channels : ReceiversOf(x)' = IF x = c THEN ReceiversOf(c) \ {r} ELSE ReceiversOf(x)
    <3>1. \A x \in Channels : ReceiversOf(x)' = Elems(recvq'[x]) /\ ReceiversOf(x) = Elems(recvq[x])
      BY Zenon DEF ReceiversOf, Elems
    <3> QED BY <2>3, <2>5, <3>1
  <2>7. MeetReceivers' = [MeetReceivers EXCEPT ![c] = @ \ {r}] /\ r \in MeetReceivers[c]
    BY <2>4, <2>6, MeetAsSets
  <2>8. MeetSenders' = MeetSenders
    BY <2>1, SameQueuesSameMeetings
  <2>9. Meeting!Hand(cur, c, r, m)
    BY <1>0, <2>1, <2>7, <2>8 DEF Meeting!Hand, Meeting!Receives, Meeting!notifs, Deliver
  <2> QED BY <1>0, <2>7, <2>9 DEF Meeting!Next
<1>2. CASE recvq[c] = << >> /\ Len(sendq[c]) < WaitCap
  <2> DEFINE e == [tid |-> cur, msg |-> m]
  <2>1. /\ sendq' = [sendq EXCEPT ![c] = Append(@, e)] /\ recvq' = recvq /\ buf' = buf
    BY <1>0, <1>2, IpcAssumption DEF SendOn, TypeOK
  <2>2. e \in Parked /\ sendq[c] \in Seq(Parked)
    BY <1>0 DEF Parked, TypeOK
  <2> HIDE DEF e
  <2>3. Elems(Append(sendq[c], e)) = Elems(sendq[c]) \cup {e}
    BY <2>2, AppendElems
  <2>4. \A x \in Channels : sendq'[x] = IF x = c THEN Append(sendq[c], e) ELSE sendq[x]
    BY <1>0, <2>1 DEF TypeOK
  <2>5. \A x \in Channels : SendersAt(x)' = IF x = c THEN SendersAt(c) \cup {e} ELSE SendersAt(x)
    <3>1. \A x \in Channels : SendersAt(x)' = Elems(sendq'[x]) /\ SendersAt(x) = Elems(sendq[x])
      BY Zenon DEF SendersAt, Elems
    <3> QED BY <2>3, <2>4, <3>1
  <2>6. MeetSenders' = [MeetSenders EXCEPT ![c] = @ \cup {e}]
    BY <2>5, MeetAsSets
  <2>7. MeetReceivers' = MeetReceivers /\ MeetReceivers[c] = {}
    <3>1. ReceiversOf(c) = {}
      BY <1>2 DEF ReceiversOf
    <3> QED BY <2>1, <3>1, MeetAsSets, SameQueuesSameMeetings
  <2>8. Meeting!SendWaits(cur, c, m)
    BY <1>0, <2>1, <2>6, <2>7 DEF Meeting!SendWaits, Meeting!notifs, e
  <2> QED BY <1>0, <2>8 DEF Meeting!Next
<1>3. CASE recvq[c] = << >> /\ Len(sendq[c]) >= WaitCap
  <2>1. UNCHANGED <<sendq, recvq, buf>>
    BY <1>0, <1>3, IpcAssumption DEF SendOn, TypeOK
  <2> QED BY <1>0, <2>1, SameQueuesSameMeetings DEF Meeting!rdvVars, Meeting!chans, Meeting!notifs
<1> QED BY <1>1, <1>2, <1>3 DEF SendOn

LEMMA RecvOnMeets ==
  ASSUME IInv, ~ Expired(cur), NEW c \in Channels, NEW op, RecvOn(op, c),
         UNCHANGED <<signaled, notifyq>>
  PROVE  [Meeting!Next]_(Meeting!rdvVars)
<1>0. cur \in Threads /\ Meeting!Free(cur) /\ TypeOK /\ MeetWaiters' = MeetWaiters
  BY CurFree, SameQueuesSameMeetings DEF IInv
<1>1. CASE sendq[c] # << >>
  <2> DEFINE e == Head(sendq[c])
  <2>1. sendq' = [sendq EXCEPT ![c] = Tail(@)] /\ recvq' = recvq /\ Deliver(cur, e.msg)
    BY <1>1 DEF RecvOn
  <2>2. /\ sendq[c] \in Seq(Parked) /\ Distinct(sendq[c]) /\ Elems(sendq[c]) = SendersAt(c)
    BY <1>0, QueuesDistinct DEF TypeOK, DistinctTids, Distinct, Elems, SendersAt
  <2>3. Elems(Tail(sendq[c])) = SendersAt(c) \ {e}
    BY <1>1, <2>2, TailOfDistinct
  <2>4. e \in SendersAt(c)
    BY <1>1, <2>2, TailIndices DEF SendersAt
  <2> HIDE DEF e
  <2>5. \A x \in Channels : sendq'[x] = IF x = c THEN Tail(sendq[c]) ELSE sendq[x]
    BY <1>0, <2>1 DEF TypeOK
  <2>6. \A x \in Channels : SendersAt(x)' = IF x = c THEN SendersAt(c) \ {e} ELSE SendersAt(x)
    <3>1. \A x \in Channels : SendersAt(x)' = Elems(sendq'[x]) /\ SendersAt(x) = Elems(sendq[x])
      BY Zenon DEF SendersAt, Elems
    <3> QED BY <2>3, <2>5, <3>1
  <2>7. MeetSenders' = [MeetSenders EXCEPT ![c] = @ \ {e}] /\ e \in MeetSenders[c]
    BY <2>4, <2>6, MeetAsSets
  <2>8. MeetReceivers' = MeetReceivers
    BY <2>1, SameQueuesSameMeetings
  <2>9. Meeting!Take(cur, c, e)
    BY <1>0, <2>1, <2>7, <2>8 DEF Meeting!Take, Meeting!Receives, Meeting!notifs, Deliver
  <2> QED BY <1>0, <2>7, <2>9 DEF Meeting!Next
<1>2. CASE sendq[c] = << >> /\ Len(recvq[c]) < WaitCap
  <2>1. recvq' = [recvq EXCEPT ![c] = Append(@, cur)] /\ sendq' = sendq /\ buf' = buf
    <3>1. ~ (Len(recvq[c]) >= WaitCap)
      BY <1>0, <1>2, IpcAssumption DEF TypeOK
    <3> QED BY <1>2, <3>1 DEF RecvOn
  <2>2. Elems(Append(recvq[c], cur)) = Elems(recvq[c]) \cup {cur}
    <3>1. recvq[c] \in Seq(Threads)
      BY <1>0 DEF TypeOK
    <3> QED BY <1>0, <3>1, AppendElems
  <2>3. \A x \in Channels : recvq'[x] = IF x = c THEN Append(recvq[c], cur) ELSE recvq[x]
    BY <1>0, <2>1 DEF TypeOK
  <2>4. \A x \in Channels :
          ReceiversOf(x)' = IF x = c THEN ReceiversOf(c) \cup {cur} ELSE ReceiversOf(x)
    <3>1. \A x \in Channels : ReceiversOf(x)' = Elems(recvq'[x]) /\ ReceiversOf(x) = Elems(recvq[x])
      BY Zenon DEF ReceiversOf, Elems
    <3> QED BY <2>2, <2>3, <3>1
  <2>5. MeetReceivers' = [MeetReceivers EXCEPT ![c] = @ \cup {cur}]
    BY <2>4, MeetAsSets
  <2>6. MeetSenders' = MeetSenders /\ MeetSenders[c] = {}
    <3>1. SendersAt(c) = {}
      BY <1>2 DEF SendersAt
    <3> QED BY <2>1, <3>1, MeetAsSets, SameQueuesSameMeetings
  <2>7. Meeting!RecvWaits(cur, c)
    BY <1>0, <2>1, <2>5, <2>6 DEF Meeting!RecvWaits, Meeting!notifs
  <2> QED BY <1>0, <2>7 DEF Meeting!Next
<1>3. CASE sendq[c] = << >> /\ Len(recvq[c]) >= WaitCap
  <2>1. UNCHANGED <<sendq, recvq, buf>>
    <3>1. ~ (Len(recvq[c]) < WaitCap)
      BY <1>0, <1>3, IpcAssumption DEF TypeOK
    <3> QED BY <1>3, <3>1 DEF RecvOn
  <2> QED BY <1>0, <2>1, SameQueuesSameMeetings DEF Meeting!rdvVars, Meeting!chans, Meeting!notifs
<1> QED BY <1>1, <1>2, <1>3 DEF RecvOn

LEMMA NotifySendMeets ==
  ASSUME IInv, NEW n \in Notifs, NotifySend(n)
  PROVE  [Meeting!Next]_(Meeting!rdvVars)
<1>0. /\ TypeOK /\ buf' = buf /\ MeetSenders' = MeetSenders /\ MeetReceivers' = MeetReceivers
  BY SameQueuesSameMeetings DEF IInv, NotifySend, ipcVars
<1>1. CASE notifyq[n] # << >>
  <2> DEFINE w == Head(notifyq[n])
  <2>1. notifyq' = [notifyq EXCEPT ![n] = Tail(@)] /\ signaled' = signaled
    BY <1>1 DEF NotifySend, Signal
  <2>2. /\ notifyq[n] \in Seq(Threads) /\ Distinct(notifyq[n])
        /\ Elems(notifyq[n]) = WaitersOf(n)
    BY <1>0, QueuesDistinct DEF TypeOK
  <2>3. Elems(Tail(notifyq[n])) = WaitersOf(n) \ {w}
    BY <1>1, <2>2, TailOfDistinct
  <2>4. w \in WaitersOf(n)
    BY <1>1, <2>2, TailIndices DEF WaitersOf
  <2> HIDE DEF w
  <2>5. \A x \in Notifs : notifyq'[x] = IF x = n THEN Tail(notifyq[n]) ELSE notifyq[x]
    BY <1>0, <2>1 DEF TypeOK
  <2>6. \A x \in Notifs : WaitersOf(x)' = IF x = n THEN WaitersOf(n) \ {w} ELSE WaitersOf(x)
    <3>1. \A x \in Notifs : WaitersOf(x)' = Elems(notifyq'[x]) /\ WaitersOf(x) = Elems(notifyq[x])
      BY Zenon DEF WaitersOf, Elems
    <3> QED BY <2>3, <2>5, <3>1
  <2>7. MeetWaiters' = [MeetWaiters EXCEPT ![n] = @ \ {w}] /\ w \in MeetWaiters[n]
    BY <2>4, <2>6, MeetAsSets
  <2>8. Meeting!Release(n, w)
    BY <1>0, <2>1, <2>7 DEF Meeting!Release, Meeting!chans
  <2> QED BY <2>7, <2>8 DEF Meeting!Next
<1>2. CASE notifyq[n] = << >>
  <2>1. signaled' = [signaled EXCEPT ![n] = TRUE] /\ notifyq' = notifyq
    BY <1>2 DEF NotifySend, Signal
  <2>2. WaitersOf(n) = {}
    BY <1>2 DEF WaitersOf
  <2>3. Meeting!Remember(n)
    BY <1>0, <2>1, <2>2, MeetAsSets, SameQueuesSameMeetings DEF Meeting!Remember, Meeting!chans
  <2> QED BY <2>3 DEF Meeting!Next
<1> QED BY <1>1, <1>2

LEMMA NotifyWaitMeets ==
  ASSUME IInv, NEW n \in Notifs, NotifyWait(n)
  PROVE  [Meeting!Next]_(Meeting!rdvVars)
<1>0. /\ TypeOK /\ buf' = buf /\ MeetSenders' = MeetSenders /\ MeetReceivers' = MeetReceivers
      /\ ~ Expired(cur)
  BY SameQueuesSameMeetings DEF IInv, NotifyWait, ipcVars, InUser, Expired
<1>1. cur \in Threads /\ Meeting!Free(cur)
  BY <1>0, CurFree
<1>2. CASE signaled[n] /\ signaled' = [signaled EXCEPT ![n] = FALSE] /\ notifyq' = notifyq
  <2>1. Meeting!Await(cur, n)
    BY <1>0, <1>2, SameQueuesSameMeetings DEF Meeting!Await, Meeting!chans
  <2> QED BY <1>1, <2>1 DEF Meeting!Next
<1>3. CASE ~ signaled[n] /\ notifyq' = [notifyq EXCEPT ![n] = Append(@, cur)] /\ signaled' = signaled
  <2>1. notifyq[n] \in Seq(Threads)
    BY <1>0 DEF TypeOK
  <2>2. Elems(Append(notifyq[n], cur)) = Elems(notifyq[n]) \cup {cur}
    BY <1>1, <2>1, AppendElems
  <2>3. \A x \in Notifs : notifyq'[x] = IF x = n THEN Append(notifyq[n], cur) ELSE notifyq[x]
    BY <1>0, <1>3 DEF TypeOK
  <2>4. \A x \in Notifs : WaitersOf(x)' = IF x = n THEN WaitersOf(n) \cup {cur} ELSE WaitersOf(x)
    <3>1. \A x \in Notifs : WaitersOf(x)' = Elems(notifyq'[x]) /\ WaitersOf(x) = Elems(notifyq[x])
      BY Zenon DEF WaitersOf, Elems
    <3> QED BY <2>2, <2>3, <3>1
  <2>5. MeetWaiters' = [MeetWaiters EXCEPT ![n] = @ \cup {cur}]
    BY <2>4, MeetAsSets
  <2>6. Meeting!Await(cur, n)
    BY <1>0, <1>3, <2>5 DEF Meeting!Await, Meeting!chans
  <2> QED BY <1>1, <2>6 DEF Meeting!Next
<1>4. CASE UNCHANGED <<signaled, notifyq>>
  BY <1>0, <1>4, SameQueuesSameMeetings DEF Meeting!rdvVars, Meeting!chans, Meeting!notifs
<1> QED BY <1>2, <1>3, <1>4 DEF NotifyWait

LEMMA RecvTimesOutMeets ==
  ASSUME IInv, RecvTimesOut
  PROVE  [Meeting!Next]_(Meeting!rdvVars)
<1> DEFINE c == pc[cur].on
<1>1. /\ cur \in Threads /\ TypeOK /\ c \in Channels /\ Expired(cur)
      /\ UNCHANGED <<sendq, signaled, notifyq, buf>>
  BY CurRuns DEF IInv, TypeOK, RecvTimesOut, Expired, notifVars
<1>2. \A x \in Channels : recvq'[x] = IF x = c THEN Without(recvq[c], cur) ELSE recvq[x]
  BY <1>1 DEF RecvTimesOut, TypeOK
<1>3. cur \in ReceiversOf(c)
  BY <1>1 DEF IInv, ParkedWhereItWaits, Expired
<1> HIDE DEF c
<1>4. /\ recvq[c] \in Seq(Threads) /\ Distinct(recvq[c]) /\ Elems(recvq[c]) = ReceiversOf(c)
  BY <1>1, QueuesDistinct DEF TypeOK
<1>5. Elems(Without(recvq[c], cur)) = ReceiversOf(c) \ {cur}
  BY <1>4, WithoutDistinct
<1>6. \A x \in Channels : ReceiversOf(x)' = IF x = c THEN ReceiversOf(c) \ {cur} ELSE ReceiversOf(x)
  <2>1. \A x \in Channels : ReceiversOf(x)' = Elems(recvq'[x]) /\ ReceiversOf(x) = Elems(recvq[x])
    BY Zenon DEF ReceiversOf, Elems
  <2> QED BY <1>2, <1>5, <2>1
<1>7. MeetReceivers' = [MeetReceivers EXCEPT ![c] = @ \ {cur}] /\ cur \in MeetReceivers[c]
  BY <1>1, <1>3, <1>6, MeetAsSets
<1>8. Meeting!GiveUp(cur, c)
  BY <1>1, <1>7, SameQueuesSameMeetings DEF Meeting!GiveUp, Meeting!notifs
<1> QED BY <1>1, <1>7, <1>8 DEF Meeting!Next

LEMMA StepMeets ==
  ASSUME IInv, [Next]_vars
  PROVE  [Meeting!Next]_(Meeting!rdvVars)
<1>1. TypeOK /\ cur \in Threads
  BY CurRuns DEF IInv
<1>2. ASSUME NEW c \in Channels, NEW op, SysSend(op, c)
      PROVE  [Meeting!Next]_(Meeting!rdvVars)
  <2>1. ~ Expired(cur) /\ UNCHANGED <<signaled, notifyq>>
    BY <1>2 DEF SysSend, InUser, Expired, notifVars
  <2>2. [src |-> cur, re |-> None] \in Msg /\ [src |-> cur, re |-> None].src = cur
    BY <1>1 DEF Msg
  <2> QED BY <1>2, <2>1, <2>2, SendOnMeets DEF SysSend
<1>3. ASSUME NEW c \in Channels, NEW op, SysRecv(op, c)
      PROVE  [Meeting!Next]_(Meeting!rdvVars)
  <2>1. ~ Expired(cur) /\ UNCHANGED <<signaled, notifyq>>
    BY <1>3 DEF SysRecv, InUser, Expired, notifVars
  <2> QED BY <1>3, <2>1, RecvOnMeets DEF SysRecv
<1>4. CASE CallRecv
  <2>1. ~ Expired(cur) /\ UNCHANGED <<signaled, notifyq>> /\ pc[cur].on \in Channels
    BY <1>1, <1>4 DEF CallRecv, Expired, notifVars, TypeOK
  <2> QED BY <1>4, <2>1, RecvOnMeets DEF CallRecv
<1>5. CASE ServerRecv
  <2>1. ~ Expired(cur) /\ UNCHANGED <<signaled, notifyq>>
    BY <1>5 DEF ServerRecv, InUser, Expired, notifVars
  <2> QED BY <1>5, <2>1, RecvOnMeets, IpcAssumption DEF ServerRecv
<1>6. CASE ServerReply
  <2>1. ~ Expired(cur) /\ UNCHANGED <<signaled, notifyq>>
    BY <1>6 DEF ServerReply, InUser, Expired, notifVars
  <2>2. owed[cur] \in Msg
    BY <1>1, <1>6 DEF ServerReply, TypeOK
  <2>3. /\ [src |-> cur, re |-> owed[cur].src] \in Msg
        /\ [src |-> cur, re |-> owed[cur].src].src = cur
    BY <1>1, <2>2 DEF Msg
  <2> QED BY <1>6, <2>1, <2>3, SendOnMeets, IpcAssumption DEF ServerReply
<1>7. CASE UNCHANGED <<sendq, recvq, signaled, notifyq, buf>>
  BY <1>7, SameQueuesSameMeetings DEF Meeting!rdvVars, Meeting!chans, Meeting!notifs
<1>8. Yield \/ SendReturns \/ RecvReturns \/ NotifyReturns \/ TimerIrq \/ UNCHANGED vars
        => UNCHANGED <<sendq, recvq, signaled, notifyq, buf>>
  BY DEF Yield, SendReturns, RecvReturns, NotifyReturns, TimerIrq, vars, ipcVars, notifVars
<1> QED BY <1>2, <1>3, <1>4, <1>5, <1>6, <1>7, <1>8, NotifySendMeets, NotifyWaitMeets,
           RecvTimesOutMeets
        DEF Next, UserCall, KernelStep

(* Every execution is one of Rendezvous: whoever comes first, and however  *)
(* the scheduler, preemption and deadlines interleave, a message passes    *)
(* from its sender to one receiver of the channel exactly once, nobody     *)
(* waits twice or beside a waiting partner, who gives up gets nothing, and *)
(* a signal releases one waiter or is remembered.                          *)
THEOREM KernelImplementsRendezvous ==
  ASSUME Quiet, \E q \in Threads : Polls(q)
  PROVE  Spec => ImplementsRendezvous
<1>1. Init => Meeting!Init
  <2> SUFFICES ASSUME Init PROVE Meeting!Init
    OBVIOUS
  <2>1. /\ \A c \in Channels : SendersAt(c) = {} /\ ReceiversOf(c) = {}
        /\ \A n \in Notifs : WaitersOf(n) = {}
    BY DEF Init, SendersAt, ReceiversOf, WaitersOf
  <2> QED BY <2>1, MeetAsSets DEF Init, Meeting!Init
<1>2. IInv /\ [Next]_vars => [Meeting!Next]_(Meeting!rdvVars)
  BY StepMeets
<1> QED BY <1>1, <1>2, InvariantHolds, PTL DEF Spec, ImplementsRendezvous, Meeting!Spec

=============================================================================
