-------------------------- MODULE Lifecycle_proofs --------------------------
(***************************************************************************)
(* Threads and processes: types, the scheduler's promises across clone,    *)
(* exit and wait4, and that no waiting parent is forgotten, for any number *)
(* of slots, generations and pages.                                        *)
(***************************************************************************)
EXTENDS Lifecycle, Scheduler_proofs

Where == {"user", "wait", "serve"}

(* The steps in which threads fall asleep or wake up in IPC.               *)
IpcNext ==
  \/ \E u \in Threads \cup {None}, sleeps \in BOOLEAN : Ipc(u, sleeps) \/ Serve(u, sleeps)
  \/ \E u \in Threads : Tick(u)

-----------------------------------------------------------------------------
(* Types of the scheduler's entry points, whatever the state.              *)
LEMMA WakeTyped ==
  ASSUME NEW s \in SchedState, NEW t \in Threads
  PROVE  /\ Wake(s, t) \in SchedState
         /\ \A u \in Threads : Wake(s, t).st[u] = "Free" => s.st[u] = "Free"
<1>1. /\ s.st \in [Threads -> ThreadState] /\ s.ipc \in [Threads -> IpcState]
      /\ s.rq \in Seq(Threads) /\ s.cur \in Threads
  BY DEF SchedState
<1>2. Enqueue(s.rq, t) \in Seq(Threads)
  BY <1>1 DEF Enqueue
<1>3. IpcReady \in IpcState
  BY DEF IpcReady, On, IpcState, IpcReason
<1>4. Wake(s, t) \in SchedState
  BY <1>1, <1>2, <1>3 DEF Wake, SchedState, ThreadState
<1>5. \A u \in Threads : Wake(s, t).st[u] = "Free" => s.st[u] = "Free"
  BY <1>1 DEF Wake
<1> QED BY <1>4, <1>5

LEMMA ScheduleTyped ==
  ASSUME NEW s \in SchedState
  PROVE  /\ Schedule(s) \in SchedState
         /\ Schedule(s).ipc = s.ipc
         /\ \A t \in Threads : Schedule(s).st[t] = "Free" => s.st[t] = "Free"
<1>1. /\ s.st \in [Threads -> ThreadState] /\ s.ipc \in [Threads -> IpcState]
      /\ s.rq \in Seq(Threads) /\ s.cur \in Threads
  BY DEF SchedState
<1>2. CASE s.rq = << >>
  BY <1>2 DEF Schedule
<1>3. CASE s.rq # << >>
  <2> DEFINE next  == Head(s.rq)
             keeps == s.st[s.cur] \in {"Running", "Ready"}
             st1   == [s.st EXCEPT ![s.cur] = IF keeps THEN "Ready" ELSE @]
             st2   == [st1 EXCEPT ![next] = "Running"]
             rq1   == IF keeps THEN Enqueue(Tail(s.rq), s.cur) ELSE Tail(s.rq)
  <2>1. next \in Threads /\ Tail(s.rq) \in Seq(Threads)
    BY <1>1, <1>3
  <2>2. st1 \in [Threads -> ThreadState]
    BY <1>1 DEF ThreadState
  <2>3. st2 \in [Threads -> ThreadState]
    BY <2>1, <2>2 DEF ThreadState
  <2>4. rq1 \in Seq(Threads)
    BY <1>1, <2>1 DEF Enqueue
  <2>5. \A t \in Threads : st2[t] = "Free" => s.st[t] = "Free"
    BY <1>1, <2>1, <2>2
  <2>6. Schedule(s) = [st |-> st2, ipc |-> s.ipc, rq |-> rq1, cur |-> next]
    BY <1>3 DEF Schedule
  <2> HIDE DEF st2, rq1, next
  <2> QED BY <1>1, <2>1, <2>3, <2>4, <2>5, <2>6 DEF SchedState
<1> QED BY <1>2, <1>3

LEMMA BlockTyped ==
  ASSUME NEW s \in SchedState, NEW why \in IpcState
  PROVE  /\ Block(s, why) \in SchedState
         /\ \A t \in Threads : Block(s, why).st[t] = "Free" => s.st[t] = "Free"
<1> DEFINE r == [st |-> [s.st EXCEPT ![s.cur] = "Blocked"],
                 ipc |-> [s.ipc EXCEPT ![s.cur] = why], rq |-> s.rq, cur |-> s.cur]
<1>1. /\ s.st \in [Threads -> ThreadState] /\ s.ipc \in [Threads -> IpcState]
      /\ s.rq \in Seq(Threads) /\ s.cur \in Threads
  BY DEF SchedState
<1>2. r \in SchedState
  BY <1>1 DEF SchedState, ThreadState
<1>3. \A t \in Threads : r.st[t] = "Free" => s.st[t] = "Free"
  BY <1>1
<1>4. Block(s, why) = Schedule(r)
  BY DEF Block
<1> HIDE DEF r
<1> QED BY <1>2, <1>3, <1>4, ScheduleTyped

(* sys_exit_thread before schedule().                                      *)
LEMMA DiedTyped ==
  ASSUME NEW s \in SchedState, NEW t \in Threads, NEW parent \in Threads \cup {None}
  PROVE  /\ Died(s, t, parent) \in SchedState
         /\ \A u \in Threads : Died(s, t, parent).st[u] = "Free" => s.st[u] = "Free"
<1> DEFINE d == [s EXCEPT !.st[t] = "Dying"]
<1>1. /\ s.st \in [Threads -> ThreadState] /\ s.ipc \in [Threads -> IpcState]
      /\ s.rq \in Seq(Threads) /\ s.cur \in Threads
      /\ s = [st |-> s.st, ipc |-> s.ipc, rq |-> s.rq, cur |-> s.cur]
  BY DEF SchedState
<1>2. d = [st |-> [s.st EXCEPT ![t] = "Dying"], ipc |-> s.ipc, rq |-> s.rq, cur |-> s.cur]
  BY <1>1
<1>3. d \in SchedState /\ \A u \in Threads : d.st[u] = "Free" => s.st[u] = "Free"
  BY <1>1, <1>2 DEF SchedState, ThreadState
<1>4. Died(s, t, parent) \in {d, Wake(d, parent)}
  BY DEF Died
<1>5. CASE Died(s, t, parent) = d
  BY <1>3, <1>5
<1>6. CASE Died(s, t, parent) = Wake(d, parent) /\ parent # None
  <2> HIDE DEF d
  <2>1. parent \in Threads
    BY <1>6
  <2>2. \A u \in Threads : Wake(d, parent).st[u] = "Free" => d.st[u] = "Free"
    <3>1. d.st \in [Threads -> ThreadState]
      BY <1>3 DEF SchedState
    <3> QED BY <2>1, <3>1 DEF Wake
  <2> QED BY <1>3, <1>6, <2>1, <2>2, WakeTyped
<1> QED BY <1>4, <1>5, <1>6 DEF Died

-----------------------------------------------------------------------------
(* Page tables and the frames they use are typed.                          *)
LEMMA FrameTyped ==
  ASSUME NEW x \in Threads \cup Spaces,
         NEW p \in Pages \cup {"root", "table", "stack", "spawn_stack"}
  PROVE  Frame(x, p) \in Frames
BY DEF Frame, Frames

LEMMA FreshTyped ==
  ASSUME NEW a \in Spaces, NEW new \in SUBSET Pages
  PROVE  /\ Fresh(a, new) \in PageTable
         /\ Uses(a, Fresh(a, new)) \subseteq Frames
<1> DEFINE m == [p \in Pages |->
                  IF p \in new THEN [frame |-> Frame(a, p), el0 |-> TRUE] ELSE None]
           tb == IF new \cap HeapPages = {} THEN "none" ELSE "tracked"
<1>1. \A p \in Pages : Frame(a, p) \in Frames
  BY FrameTyped
<1>2. \A p \in Pages : [frame |-> Frame(a, p), el0 |-> TRUE] \in Pte
  BY <1>1 DEF Pte
<1>3. m \in [Pages -> Pte \cup {None}]
  BY <1>2
<1>4. Fresh(a, new) = [map |-> m, table |-> tb]
  BY DEF Fresh
<1> HIDE DEF m, tb
<1>5. tb \in {"none", "tracked", "untracked"}
  BY DEF tb
<1>6. Fresh(a, new) \in PageTable
  BY <1>3, <1>4, <1>5 DEF PageTable
<1>7. \A p \in Pages : m[p] # None => m[p].frame \in Frames
  BY <1>3 DEF Pte
<1>8. Frame(a, "root") \in Frames /\ Frame(a, "table") \in Frames
  BY FrameTyped
<1>9. Fresh(a, new).map = m
  BY <1>4
<1> QED BY <1>6, <1>7, <1>8, <1>9 DEF Uses

LEMMA TypeParts ==
  ASSUME TypeOK
  PROVE  /\ sched \in SchedState /\ me \in Threads
         /\ sched.st \in [Threads -> ThreadState] /\ sched.ipc \in [Threads -> IpcState]
         /\ sched.rq \in Seq(Threads)
         /\ tcb \in [Threads -> Tcb] /\ pc \in [Threads -> Where]
         /\ tgen \in [ThreadSlots -> Nat] /\ agen \in [SpaceSlots -> Nat]
         /\ vm \in [Spaces -> PageTable \cup {None}]
         /\ live \subseteq Frames /\ calls \in Nat /\ halt \in Halts
         /\ tcb[me].parent \in Threads \cup {None} /\ tcb[me].as \in Spaces \cup {None}
BY DEF TypeOK, SchedState, me, Tcb, Where

LEMMA TrackTyped ==
  ASSUME TypeOK, NEW alloc \in SUBSET Frames, NEW freed, Track(alloc, freed)
  PROVE  live' \subseteq Frames /\ halt' \in Halts
BY DEF TypeOK, Track, Halts

LEMMA CreateTyped ==
  ASSUME TypeOK, NEW t \in Threads, NewThread(t), NEW parent \in Threads \cup {None},
         NEW as \in Spaces \cup {None}, NEW linux \in BOOLEAN,
         Create(t, parent, as, linux)
  PROVE  /\ sched' \in SchedState /\ tcb' \in [Threads -> Tcb]
         /\ pc' \in [Threads -> Where] /\ tgen' \in [ThreadSlots -> Nat]
         /\ \A u \in Threads : sched'.st[u] = "Free" => tcb'[u] = NoTcb
<1>1. t.i \in ThreadSlots /\ t.g \in Nat
  BY IdsAssumption DEF ThreadSlots
<1>2. /\ sched.st \in [Threads -> ThreadState] /\ sched.ipc \in [Threads -> IpcState]
      /\ sched.rq \in Seq(Threads) /\ sched.cur \in Threads
  BY TypeParts DEF me
<1>3. Enqueue(sched.rq, t) \in Seq(Threads) /\ IpcReady \in IpcState
  BY <1>2 DEF Enqueue, IpcReady, On, IpcState, IpcReason
<1>4. sched' \in SchedState
  BY <1>2, <1>3 DEF Create, SchedState, ThreadState
<1>5. tcb' \in [Threads -> Tcb]
  <2>1. [parent |-> parent, as |-> as, linux |-> linux] \in Tcb
    BY DEF Tcb
  <2> QED BY <2>1 DEF Create, TypeOK
<1>6. \A u \in Threads : sched'.st[u] = "Free" => tcb'[u] = NoTcb
  BY <1>2 DEF Create, TypeOK, Exists
<1> QED BY <1>1, <1>4, <1>5, <1>6 DEF Create, TypeOK, Where

LEMMA NewSpaceTyped ==
  ASSUME TypeOK, NEW a \in Spaces
  PROVE  a.i \in SpaceSlots /\ a.g \in Nat /\ [agen EXCEPT ![a.i] = a.g] \in [SpaceSlots -> Nat]
BY IdsAssumption DEF SpaceSlots, TypeOK

-----------------------------------------------------------------------------
LEMMA InitType == Init => TypeOK
<1> SUFFICES ASSUME Init PROVE TypeOK
  OBVIOUS
<1>1. sched \in SchedState
  BY IdsAssumption
  DEF Init, SchedState, ThreadState, InIpc, IpcReady, On, IpcState, IpcReason
<1>2. NoTcb \in Tcb /\ [NoTcb EXCEPT !.as = FirstSpace] \in Tcb
  BY IdsAssumption DEF NoTcb, Tcb
<1>3. tcb \in [Threads -> Tcb]
  BY <1>2 DEF Init
<1>4. FirstTable \in PageTable /\ Uses(FirstSpace, FirstTable) \subseteq Frames
  BY FreshTyped, IdsAssumption DEF FirstTable, Pages
<1>5. vm \in [Spaces -> PageTable \cup {None}]
  BY <1>4 DEF Init
<1>6. live \subseteq Frames
  BY <1>4, FrameTyped, IdsAssumption DEF Init
<1>7. \A t \in Threads : ~Exists(t) => tcb[t] = NoTcb
  BY DEF Init, Exists
<1> QED BY <1>1, <1>3, <1>5, <1>6, <1>7 DEF Init, TypeOK, Halts

(* A step that leaves TCBs and memory alone.                               *)
LEMMA SchedTyped ==
  ASSUME TypeOK, sched' \in SchedState, UNCHANGED <<tcb, tgen, vm, agen, live>>,
         calls' \in Nat, pc' \in [Threads -> Where], halt' \in Halts,
         \A t \in Threads : sched'.st[t] = "Free" => sched.st[t] = "Free"
  PROVE  TypeOK'
BY DEF TypeOK, Exists, Where

(* A step that only replaces the caller's page table.                      *)
LEMMA TableTyped ==
  ASSUME TypeOK, MemoryCall, NEW pt \in PageTable, vm' = [vm EXCEPT ![tcb[me].as] = pt],
         UNCHANGED <<sched, tcb, pc, tgen, agen>>, live' \subseteq Frames, halt' \in Halts
  PROVE  TypeOK'
BY TypeParts DEF TypeOK, Exists, MemoryCall

LEMMA MyTableTyped ==
  ASSUME TypeOK, NEW a \in Spaces, Registered(a)
  PROVE  /\ vm[a] \in PageTable /\ vm[a].map \in [Pages -> Pte \cup {None}]
         /\ vm[a].table \in {"none", "tracked", "untracked"}
         /\ \A p \in Pages : vm[a].map[p] # None => vm[a].map[p] \in Pte
         /\ \A p \in Pages : vm[a].map[p] # None => vm[a].map[p].frame \in Frames
BY DEF TypeOK, Registered, PageTable, Pte

LEMMA RunnerExists ==
  ASSUME TypeOK, SchedulerConsistent, halt = "no"
  PROVE  sched.st[me] = "Running" /\ Exists(me)
BY TypeParts DEF SchedulerConsistent, Consistent, OneRunning, Exists, me

(* What the three page calls write.                                        *)
LEMMA PageCallTyped ==
  ASSUME TypeOK, OneOwner, NEW p \in ArgPages, NEW el0 \in BOOLEAN,
         MapPage(p, el0) \/ Mprotect(p, el0) \/ UnmapPage(p)
  PROVE  /\ MemoryCall /\ tcb[me].as \in Spaces /\ Registered(tcb[me].as)
         /\ \E pt \in PageTable : vm' = [vm EXCEPT ![tcb[me].as] = pt]
         /\ UNCHANGED <<sched, tcb, pc, tgen, agen>>
         /\ live' \subseteq Frames /\ halt' \in Halts
<1>0. me \in Threads /\ tcb[me].as \in Spaces \cup {None} /\ halt \in Halts /\ live \subseteq Frames
  BY TypeParts
<1> USE PagesAssumption
<1>a. ASSUME MemoryCall
      PROVE  /\ tcb[me].as \in Spaces /\ Registered(tcb[me].as)
             /\ MyTable \in PageTable /\ MyTable.map \in [Pages -> Pte \cup {None}]
             /\ MyTable.table \in {"none", "tracked", "untracked"}
             /\ \A q \in Pages : MyTable.map[q] # None
                  => MyTable.map[q] \in Pte /\ MyTable.map[q].frame \in Frames
  <2>1. tcb[me].as \in Spaces /\ Registered(tcb[me].as)
    BY <1>0, <1>a DEF MemoryCall, OneOwner
  <2> QED BY <2>1, MyTableTyped DEF MyTable
<1>b. p \in Pages
  BY DEF Pages
<1>7. ASSUME MapPage(p, el0)
      PROVE  /\ \E pt \in PageTable : vm' = [vm EXCEPT ![tcb[me].as] = pt]
             /\ UNCHANGED <<sched, tcb, pc, tgen, agen>>
             /\ live' \subseteq Frames /\ halt' \in Halts
  <2> DEFINE a    == tcb[me].as
             new  == MyTable.map[p] = None
             grow == new /\ ~HasLeaf(MyTable, p)
             f    == IF new THEN Frame(a, p) ELSE MyTable.map[p].frame
             pt   == [map   |-> [MyTable.map EXCEPT ![p] = [frame |-> f, el0 |-> el0]],
                      table |-> IF grow THEN "untracked" ELSE MyTable.table]
             alloc == (IF new THEN {f} ELSE {}) \cup (IF grow THEN {Frame(a, "table")} ELSE {})
  <2>1. /\ MemoryCall /\ vm' = [vm EXCEPT ![tcb[me].as] = pt] /\ Track(alloc, {})
        /\ UNCHANGED <<sched, tcb, pc, tgen, agen>>
    BY <1>7, Zenon DEF MapPage
  <2>2. f \in Frames /\ alloc \in SUBSET Frames
    BY <1>a, <1>b, <2>1, FrameTyped
  <2>3. [frame |-> f, el0 |-> el0] \in Pte
    BY <2>2 DEF Pte
  <2>4. pt \in PageTable
    BY <1>a, <1>b, <2>1, <2>3 DEF PageTable
  <2> HIDE DEF alloc, pt
  <2> QED BY <2>1, <2>2, <2>4, TrackTyped
<1>8. ASSUME Mprotect(p, el0)
      PROVE  /\ \E pt \in PageTable : vm' = [vm EXCEPT ![tcb[me].as] = pt]
             /\ UNCHANGED <<sched, tcb, pc, tgen, agen>>
             /\ live' \subseteq Frames /\ halt' \in Halts
  <2> DEFINE pt == [map   |-> [MyTable.map EXCEPT
                               ![p] = [frame |-> MyTable.map[p].frame, el0 |-> el0]],
                    table |-> MyTable.table]
  <2>1. /\ MemoryCall /\ vm' = [vm EXCEPT ![tcb[me].as] = pt] /\ MyTable.map[p] # None
        /\ UNCHANGED <<sched, tcb, pc, tgen, agen, live, halt>>
    BY <1>8 DEF Mprotect
  <2>2. [frame |-> MyTable.map[p].frame, el0 |-> el0] \in Pte
    BY <1>a, <1>b, <2>1 DEF Pte
  <2>3. pt \in PageTable
    BY <1>a, <1>b, <2>1, <2>2 DEF PageTable
  <2> HIDE DEF pt
  <2> QED BY <1>0, <2>1, <2>3
<1>9. ASSUME UnmapPage(p)
      PROVE  /\ \E pt \in PageTable : vm' = [vm EXCEPT ![tcb[me].as] = pt]
             /\ UNCHANGED <<sched, tcb, pc, tgen, agen>>
             /\ live' \subseteq Frames /\ halt' \in Halts
  <2> DEFINE pt == [map |-> [MyTable.map EXCEPT ![p] = None], table |-> MyTable.table]
  <2>1. /\ MemoryCall /\ vm' = [vm EXCEPT ![tcb[me].as] = pt]
        /\ Track({}, {MyTable.map[p].frame})
        /\ UNCHANGED <<sched, tcb, pc, tgen, agen>>
    BY <1>9 DEF UnmapPage
  <2>2. pt \in PageTable
    BY <1>a, <1>b, <2>1 DEF PageTable
  <2> HIDE DEF pt
  <2> QED BY <2>1, <2>2, TrackTyped
<1> QED BY <1>a, <1>7, <1>8, <1>9 DEF MapPage, Mprotect, UnmapPage

(* A wake before block_current(), schedule() or nothing.                   *)
LEMMA IpcTyped ==
  ASSUME TypeOK, \/ \E u \in Threads \cup {None}, sleeps \in BOOLEAN : IpcStep(u, sleeps)
                 \/ \E u \in Threads : Tick(u)
  PROVE  /\ sched' \in SchedState
         /\ \A t \in Threads : sched'.st[t] = "Free" => sched.st[t] = "Free"
         /\ UNCHANGED <<tcb, pc, tgen, vm, agen, live>> /\ halt' \in {halt, "stray"}
<1>0. sched \in SchedState
  BY TypeParts
<1>1. CASE \E u \in Threads : Tick(u)
  <2>1. PICK u \in Threads : Tick(u)
    BY <1>1
  <2>2. sched' = Schedule(Wake(sched, u)) /\ UNCHANGED <<tcb, pc, tgen, vm, agen, live, halt>>
    BY <2>1 DEF Tick
  <2> QED BY <1>0, <2>2, WakeTyped, ScheduleTyped
<1>2. CASE \E u \in Threads \cup {None}, sleeps \in BOOLEAN : IpcStep(u, sleeps)
  <2>1. PICK u \in Threads \cup {None}, sleeps \in BOOLEAN : IpcStep(u, sleeps)
    BY <1>2
  <2> DEFINE w == IF u = None THEN sched ELSE Wake(sched, u)
  <2>2. /\ sched' = (IF sleeps THEN Block(w, InIpc) ELSE w) /\ halt' \in {halt, "stray"}
        /\ UNCHANGED <<tcb, pc, tgen, vm, agen, live>>
    BY <2>1 DEF IpcStep
  <2>3. w \in SchedState /\ \A t \in Threads : w.st[t] = "Free" => sched.st[t] = "Free"
    BY <1>0, WakeTyped
  <2>4. InIpc \in IpcState
    BY DEF InIpc, On, IpcState, IpcReason
  <2> HIDE DEF w
  <2> QED BY <2>2, <2>3, <2>4, BlockTyped
<1> QED BY <1>1, <1>2

LEMMA NextType ==
  ASSUME TypeOK, SchedulerConsistent, OneOwner, [Next]_vars
  PROVE  TypeOK'
<1>0. /\ sched \in SchedState /\ me \in Threads /\ tcb \in [Threads -> Tcb]
      /\ pc \in [Threads -> Where] /\ halt \in Halts
      /\ tcb[me].parent \in Threads \cup {None} /\ tcb[me].as \in Spaces \cup {None}
      /\ calls \in Nat
  BY TypeParts
<1>1. ASSUME NEW t \in Threads, CreateThread(t) PROVE TypeOK'
  <2>1. NewThread(t) /\ Create(t, None, None, FALSE) /\ Track({Frame(t, "stack")}, {})
    BY <1>1 DEF CreateThread
  <2>2. {Frame(t, "stack")} \in SUBSET Frames
    BY FrameTyped
  <2> QED BY <1>1, <2>1, <2>2, CreateTyped, TrackTyped DEF CreateThread, TypeOK, Exists, Where
<1>2. ASSUME NEW t \in Threads, NEW a \in Spaces, Spawn(t, a) PROVE TypeOK'
  <2> DEFINE pt == Fresh(a, ProgPages)
  <2>1. /\ NewThread(t) /\ Create(t, None, a, FALSE)
        /\ Track(Uses(a, pt) \cup {Frame(t, "stack")}, {})
        /\ vm' = [vm EXCEPT ![a] = pt] /\ agen' = [agen EXCEPT ![a.i] = a.g]
        /\ calls' = calls
    BY <1>2 DEF Spawn, Register
  <2>2. pt \in PageTable /\ Uses(a, pt) \cup {Frame(t, "stack")} \in SUBSET Frames
    BY FrameTyped, FreshTyped DEF Pages
  <2> HIDE DEF pt
  <2>3. live' \subseteq Frames /\ halt' \in Halts
    BY <2>1, <2>2, TrackTyped
  <2>4. /\ sched' \in SchedState /\ tcb' \in [Threads -> Tcb]
        /\ pc' \in [Threads -> Where] /\ tgen' \in [ThreadSlots -> Nat]
        /\ \A u \in Threads : sched'.st[u] = "Free" => tcb'[u] = NoTcb
    BY <2>1, CreateTyped
  <2> QED BY <2>1, <2>2, <2>3, <2>4, NewSpaceTyped DEF TypeOK, Exists, Where
<1>3. ASSUME NEW t \in Threads, NEW a \in Spaces, Clone(t, a) PROVE TypeOK'
  <2> DEFINE pt == Forked(a, vm[tcb[me].as])
  <2>1. /\ NewThread(t) /\ Create(t, me, a, TRUE)
        /\ Track(Uses(a, pt) \cup {Frame(t, "stack")}, {})
        /\ vm' = [vm EXCEPT ![a] = pt] /\ agen' = [agen EXCEPT ![a.i] = a.g]
        /\ calls' = calls
    BY <1>3 DEF Clone, Register
  <2>2. pt \in PageTable /\ Uses(a, pt) \cup {Frame(t, "stack")} \in SUBSET Frames
    <3>1. UserPages(vm[tcb[me].as]) \in SUBSET Pages
      BY DEF UserPages
    <3> QED BY <3>1, FrameTyped, FreshTyped DEF Forked
  <2> HIDE DEF pt
  <2>3. live' \subseteq Frames /\ halt' \in Halts
    BY <2>1, <2>2, TrackTyped
  <2>4. /\ sched' \in SchedState /\ tcb' \in [Threads -> Tcb]
        /\ pc' \in [Threads -> Where] /\ tgen' \in [ThreadSlots -> Nat]
        /\ \A u \in Threads : sched'.st[u] = "Free" => tcb'[u] = NoTcb
    BY <1>0, <2>1, CreateTyped
  <2> QED BY <2>1, <2>2, <2>3, <2>4, NewSpaceTyped DEF TypeOK, Exists, Where
<1>4. ASSUME NEW a \in Spaces, SpawnFull(a) PROVE TypeOK'
  <2>1. {Frame(a, "spawn_stack")} \in SUBSET Frames
    BY FrameTyped
  <2>2. live' \subseteq Frames /\ halt' \in Halts
    BY <1>4, <2>1, TrackTyped DEF SpawnFull
  <2> QED BY <1>4, <2>2, NewSpaceTyped DEF SpawnFull, TypeOK, Exists
<1>5. ASSUME NEW a \in Spaces, CloneFull(a) PROVE TypeOK'
  BY <1>5, NewSpaceTyped DEF CloneFull, TypeOK, Exists
<1>6. ASSUME NEW a \in Spaces, Exec(a) PROVE TypeOK'
  <2> DEFINE old == tcb[me].as
             pt  == Execed(a, old)
             freed == IF old = None THEN {} ELSE Drop(old, Detached(vm[old]))
  <2>1. pt \in PageTable /\ Uses(a, pt) \in SUBSET Frames
    <3> DEFINE new == ProgPages \cup (IF old = None THEN {}
                                      ELSE UserPages(vm[old]) \cap LibPages)
    <3>1. new \in SUBSET Pages
      BY DEF Pages
    <3>2. pt = Fresh(a, new)
      BY DEF Execed
    <3> QED BY <3>1, <3>2, FreshTyped
  <2>2. /\ tcb' = [tcb EXCEPT ![me].as = a, ![me].linux = FALSE]
        /\ vm' = [b \in Spaces |-> IF b = a THEN pt ELSE IF b = old THEN None ELSE vm[b]]
        /\ agen' = [agen EXCEPT ![a.i] = a.g]
        /\ Track(Uses(a, pt), freed)
        /\ UNCHANGED <<sched, pc, tgen, calls>>
        /\ InUser
    BY <1>6 DEF Exec
  <2> HIDE DEF pt, freed
  <2>3. vm' \in [Spaces -> PageTable \cup {None}]
    BY <2>1, <2>2 DEF TypeOK
  <2>4. live' \subseteq Frames /\ halt' \in Halts
    BY <2>1, <2>2, TrackTyped
  <2>5. tcb' \in [Threads -> Tcb]
    <3>1. [tcb EXCEPT ![me].as = a] \in [Threads -> Tcb]
      BY <1>0 DEF Tcb
    <3>2. tcb' = [[tcb EXCEPT ![me].as = a] EXCEPT ![me].linux = FALSE]
      BY <2>2
    <3> QED BY <1>0, <3>1, <3>2 DEF Tcb
  <2>6. \A t \in Threads : ~Exists(t)' => tcb'[t] = NoTcb
    <3>1. Exists(me)
      BY <2>2, RunnerExists DEF InUser
    <3>2. \A t \in Threads : t # me => tcb'[t] = tcb[t]
      BY <1>0, <2>2
    <3> QED BY <2>2, <3>1, <3>2 DEF TypeOK, Exists
  <2>7. agen' \in [SpaceSlots -> Nat]
    BY <2>2, NewSpaceTyped
  <2> QED BY <2>2, <2>3, <2>4, <2>5, <2>6, <2>7 DEF TypeOK
<1>7. ASSUME NEW p \in ArgPages, NEW el0 \in BOOLEAN,
             MapPage(p, el0) \/ Mprotect(p, el0) \/ UnmapPage(p)
      PROVE  TypeOK'
  BY <1>7, PageCallTyped, TableTyped
<1>10. ASSUME NEW p \in ArgPages, AssertMapped(p) PROVE TypeOK'
  BY <1>0, <1>10, SchedTyped DEF AssertMapped, Halts
<1>11. ASSUME RegisterHandler PROVE TypeOK'
  <2>1. Exists(me)
    BY <1>11, RunnerExists DEF RegisterHandler, InUser
  <2>2. tcb' \in [Threads -> Tcb]
    BY <1>0, <1>11 DEF RegisterHandler, Tcb
  <2> QED BY <1>0, <1>11, <2>1, <2>2 DEF RegisterHandler, TypeOK, Exists
<1>12. ASSUME ExecFirst \/ OutOfMemory PROVE TypeOK'
  BY <1>0, <1>12, SchedTyped DEF ExecFirst, OutOfMemory, Halts
<1>13. ASSUME Exit PROVE TypeOK'
  <2> DEFINE d == Died(sched, me, tcb[me].parent)
  <2>1. /\ sched' = Schedule(d) /\ UNCHANGED <<tcb, pc, tgen, vm, agen, live, calls>>
        /\ halt' \in {"idle", halt}
    BY <1>13 DEF Exit
  <2>2. d \in SchedState /\ \A u \in Threads : d.st[u] = "Free" => sched.st[u] = "Free"
    BY <1>0, DiedTyped
  <2> HIDE DEF d
  <2>3. /\ sched' \in SchedState
        /\ \A u \in Threads : sched'.st[u] = "Free" => sched.st[u] = "Free"
    BY <2>1, <2>2, ScheduleTyped
  <2> QED BY <1>0, <2>1, <2>3, SchedTyped DEF Halts
<1>14. ASSUME NEW c \in Threads, Reap(c) PROVE TypeOK'
  <2>1. /\ sched' = [sched EXCEPT !.st[c] = "Free", !.ipc[c] = IpcReady]
        /\ tcb' = [tcb EXCEPT ![c] = NoTcb]
        /\ pc' = [pc EXCEPT ![me] = "user"]
        /\ vm' = [b \in Spaces |-> IF b = tcb[c].as THEN None ELSE vm[b]]
        /\ UNCHANGED <<tgen, agen, calls>>
        /\ \E freed : Track({}, freed)
    BY <1>14 DEF Reap
  <2>2. sched' \in SchedState
    BY <1>0, <2>1 DEF SchedState, ThreadState, IpcReady, On, IpcState, IpcReason
  <2>3. tcb' \in [Threads -> Tcb] /\ \A t \in Threads : ~Exists(t)' => tcb'[t] = NoTcb
    <3>1. NoTcb \in Tcb
      BY DEF NoTcb, Tcb
    <3> QED BY <1>0, <2>1, <3>1 DEF TypeOK, Exists, SchedState
  <2>4. live' \subseteq Frames /\ halt' \in Halts
    BY <2>1, TrackTyped
  <2> QED BY <1>0, <2>1, <2>2, <2>3, <2>4 DEF TypeOK, Where
<1>15. ASSUME WaitForChild PROVE TypeOK'
  <2>1. On("BlockedOnWait4", None) \in IpcState
    BY DEF On, IpcState, IpcReason
  <2>2. halt' \in Halts /\ pc' \in [Threads -> Where]
    BY <1>0, <1>15 DEF WaitForChild, Halts, Where
  <2> QED BY <1>0, <1>15, <2>1, <2>2, BlockTyped, SchedTyped DEF WaitForChild
<1>16. ASSUME NoChild PROVE TypeOK'
  BY <1>0, <1>16, SchedTyped DEF NoChild, Where
<1>17. ASSUME Yield PROVE TypeOK'
  BY <1>0, <1>17, ScheduleTyped, SchedTyped DEF Yield
<1>18. ASSUME Halted \/ UNCHANGED vars PROVE TypeOK'
  BY <1>18 DEF Halted, vars, TypeOK, Exists
<1>19. ASSUME NEW u \in Threads \cup {None}, NEW sleeps \in BOOLEAN,
              Ipc(u, sleeps) \/ Serve(u, sleeps)
       PROVE  TypeOK'
  <2>1. IpcStep(u, sleeps) /\ calls' \in Nat
    BY <1>0, <1>19 DEF Ipc, Serve
  <2> QED BY <1>0, <2>1, IpcTyped, SchedTyped DEF Halts
<1>20. ASSUME NEW u \in Threads, Tick(u) PROVE TypeOK'
  <2>1. calls' \in Nat
    BY <1>0, <1>20 DEF Tick
  <2> QED BY <1>0, <1>20, <2>1, IpcTyped, SchedTyped DEF Halts
<1> QED
  BY <1>1, <1>2, <1>3, <1>4, <1>5, <1>6, <1>7, <1>10, <1>11, <1>12, <1>13,
     <1>14, <1>15, <1>16, <1>17, <1>18, <1>19, <1>20 DEF Next


-----------------------------------------------------------------------------
(* What the entry points do to a consistent state, for the threads of one  *)
(* slot each.                                                              *)

(* Queued threads are in different slots, so the queue is no longer than   *)
(* the slots that are left.                                                *)
LEMMA SlotFits ==
  ASSUME NEW s \in SchedState, QueuedOnce(s),
         \A t, u \in Queued(s) : t.i = u.i => t = u,
         NEW S \in SUBSET ThreadSlots, \A t \in Queued(s) : t.i \in S
  PROVE  IsFiniteSet(S) /\ Len(s.rq) <= Cardinality(S)
<1> DEFINE n == Len(s.rq)
           f == [k \in 1 .. n |-> s.rq[k].i]
           R == {f[k] : k \in 1 .. n}
<1>1. s.rq \in Seq(Threads) /\ n \in Nat /\ s.rq \in [1 .. n -> Threads]
  BY DEF SchedState
<1>2. IsFiniteSet(S)
  BY FS_Subset, ReadyRoomAssumption
<1>3. R \subseteq S
  BY DEF Queued
<1>4. IsFiniteSet(R) /\ Cardinality(R) <= Cardinality(S)
  BY <1>2, <1>3, FS_Subset
<1>5. \A j, k \in 1 .. n : f[j] = f[k] => j = k
  <2> SUFFICES ASSUME NEW j \in 1 .. n, NEW k \in 1 .. n, f[j] = f[k] PROVE j = k
    OBVIOUS
  <2>1. s.rq[j] \in Queued(s) /\ s.rq[k] \in Queued(s)
    BY DEF Queued
  <2>2. s.rq[j].i = s.rq[k].i
    OBVIOUS
  <2> QED BY <2>1, <2>2 DEF QueuedOnce
<1>6. f \in Bijection(1 .. n, R)
  <2>1. f \in [1 .. n -> R]
    OBVIOUS
  <2> HIDE DEF f
  <2> QED BY <1>5, <2>1 DEF Bijection, Injection, Surjection, IsInjective
<1>7. Cardinality(R) = n
  <2>1. ExistsBijection(1 .. n, R)
    BY <1>6 DEF ExistsBijection
  <2> HIDE DEF R
  <2> QED BY <2>1, <1>1, FS_CountingElements
<1> QED BY <1>2, <1>4, <1>7

LEMMA SlotRoom ==
  ASSUME NEW s \in SchedState, QueuedOnce(s),
         \A t, u \in Queued(s) : t.i = u.i => t = u,
         NEW x \in ThreadSlots, \A t \in Queued(s) : t.i # x
  PROVE  /\ Len(s.rq) <= ReadyCap
         /\ \A y \in ThreadSlots \ {x} : (\A t \in Queued(s) : t.i # y) => Len(s.rq) < ReadyCap
<1>1. s.rq \in Seq(Threads) /\ Len(s.rq) \in Nat /\ \A t \in Queued(s) : t \in Threads
  BY DEF SchedState, Queued
<1>2. \A t \in Queued(s) : t.i \in ThreadSlots
  BY <1>1 DEF ThreadSlots
<1>3. /\ Cardinality(ThreadSlots) \in Nat /\ IsFiniteSet(ThreadSlots)
      /\ Cardinality(ThreadSlots) <= ReadyCap + 1 /\ ReadyCap \in Nat
  BY ReadyRoomAssumption, ReadyCapAssumption, FS_CardinalityType
<1>4. /\ IsFiniteSet(ThreadSlots \ {x})
      /\ Cardinality(ThreadSlots \ {x}) = Cardinality(ThreadSlots) - 1
  BY <1>3, FS_RemoveElement
<1>5. Len(s.rq) <= Cardinality(ThreadSlots \ {x})
  <2>1. \A t \in Queued(s) : t.i \in ThreadSlots \ {x}
    BY <1>2
  <2> QED BY <2>1, SlotFits
<1>6. ASSUME NEW y \in ThreadSlots \ {x}, \A t \in Queued(s) : t.i # y
      PROVE  Len(s.rq) < ReadyCap
  <2>1. Cardinality((ThreadSlots \ {x}) \ {y}) = Cardinality(ThreadSlots \ {x}) - 1
    BY <1>4, FS_RemoveElement
  <2>2. \A t \in Queued(s) : t.i \in (ThreadSlots \ {x}) \ {y}
    BY <1>2, <1>6
  <2>3. Len(s.rq) <= Cardinality((ThreadSlots \ {x}) \ {y})
    BY <2>2, SlotFits
  <2> QED BY <1>1, <1>3, <1>4, <2>1, <2>3
<1> QED BY <1>1, <1>3, <1>4, <1>5, <1>6

(* A thread that is neither Ready nor Running may change to another such   *)
(* state behind the scheduler's back.                                      *)
LEMMA IdleChange ==
  ASSUME NEW s \in SchedState, Consistent(s),
         NEW x \in Threads, s.st[x] \in {"Free", "Blocked", "Dying"},
         NEW v \in {"Free", "Blocked", "Dying"}, NEW ipc \in [Threads -> IpcState],
         NEW r, r = [st |-> [s.st EXCEPT ![x] = v], ipc |-> ipc, rq |-> s.rq, cur |-> s.cur]
  PROVE  r \in SchedState /\ Consistent(r)
<1>1. /\ s.st \in [Threads -> ThreadState] /\ s.rq \in Seq(Threads) /\ s.cur \in Threads
  BY DEF SchedState
<1>2. r \in SchedState
  BY <1>1 DEF SchedState, ThreadState
<1>3. Queued(r) = Queued(s) /\ Queued(s) \subseteq Threads
  BY <1>1 DEF Queued
<1>4. \A t \in Threads : r.st[t] = IF t = x THEN v ELSE s.st[t]
  BY <1>1
<1>5. QueueHoldsReady(r) /\ ReadyIsQueued(r)
  BY <1>3, <1>4 DEF Consistent, QueueHoldsReady, ReadyIsQueued
<1>6. QueuedOnce(r)
  BY DEF Consistent, QueuedOnce
<1>7. OneRunning(r)
  BY <1>1, <1>4 DEF Consistent, OneRunning
<1> QED BY <1>2, <1>5, <1>6, <1>7 DEF Consistent

(* schedule() by the Running thread moves Ready and Running only.          *)
LEMMA ScheduleKeeps ==
  ASSUME NEW s \in SchedState, Consistent(s)
  PROVE  \A t \in Threads :
           IF s.st[t] \in {"Ready", "Running"} THEN Schedule(s).st[t] \in {"Ready", "Running"}
                                               ELSE Schedule(s).st[t] = s.st[t]
<1>1. /\ s.st \in [Threads -> ThreadState] /\ s.rq \in Seq(Threads) /\ s.cur \in Threads
  BY DEF SchedState
<1>2. CASE s.rq = << >>
  BY <1>2 DEF Schedule
<1>3. CASE s.rq # << >>
  <2>1. Head(s.rq) \in Queued(s) /\ Head(s.rq) \in Threads
    BY <1>1, <1>3 DEF Queued
  <2>2. s.st[Head(s.rq)] = "Ready" /\ s.st[s.cur] = "Running"
    BY <1>1, <2>1 DEF Consistent, QueueHoldsReady, OneRunning
  <2>3. Schedule(s).st = [[s.st EXCEPT ![s.cur] = "Ready"] EXCEPT ![Head(s.rq)] = "Running"]
    BY <1>3, <2>2 DEF Schedule
  <2> QED BY <1>1, <2>1, <2>2, <2>3
<1> QED BY <1>2, <1>3

(* schedule() by a thread that has just marked itself Dying.               *)
LEMMA LeaveConsistent ==
  ASSUME NEW s \in SchedState, Consistent(s), s.rq # << >>,
         NEW d, d = [st |-> [s.st EXCEPT ![s.cur] = "Dying"], ipc |-> s.ipc, rq |-> s.rq,
                     cur |-> s.cur]
  PROVE  /\ Schedule(d) \in SchedState
         /\ Consistent(Schedule(d))
         /\ Schedule(d).ipc = s.ipc
         /\ \A t \in Threads :
              /\ t = s.cur => Schedule(d).st[t] = "Dying"
              /\ t # s.cur => IF s.st[t] = "Ready"
                              THEN Schedule(d).st[t] \in {"Ready", "Running"}
                              ELSE Schedule(d).st[t] = s.st[t]
<1> DEFINE next == Head(s.rq)
           b    == Block(s, s.ipc[s.cur])
           st1  == [s.st EXCEPT ![s.cur] = "Dying"]
<1>1. /\ s.st \in [Threads -> ThreadState] /\ s.rq \in Seq(Threads) /\ s.cur \in Threads
      /\ s.ipc \in [Threads -> IpcState] /\ s.ipc[s.cur] \in IpcState
  BY DEF SchedState
<1>2. /\ b \in SchedState /\ Consistent(b) /\ b.ipc = s.ipc
      /\ b.st = [[s.st EXCEPT ![s.cur] = "Blocked"] EXCEPT ![next] = "Running"]
      /\ b.cur = next /\ next \in Threads /\ next # s.cur
      /\ s.st[next] = "Ready"
  BY <1>1, BlockConsistent
<1>3. b.rq = Tail(s.rq)
  BY <1>1 DEF Block, Schedule
<1>4. Schedule(d) = [st |-> [st1 EXCEPT ![next] = "Running"], ipc |-> s.ipc,
                     rq |-> Tail(s.rq), cur |-> next]
  <2>1. /\ d.st = st1 /\ d.ipc = s.ipc /\ d.rq = s.rq /\ d.cur = s.cur
        /\ st1[s.cur] = "Dying" /\ [st1 EXCEPT ![s.cur] = st1[s.cur]] = st1
    BY <1>1
  <2>2. "Dying" \notin {"Running", "Ready"}
    OBVIOUS
  <2> HIDE DEF st1
  <2> QED BY <2>1, <2>2, Zenon DEF Schedule
<1>5. Schedule(d) = [st |-> [b.st EXCEPT ![s.cur] = "Dying"], ipc |-> s.ipc,
                     rq |-> b.rq, cur |-> b.cur]
  BY <1>1, <1>2, <1>3, <1>4
<1>6. b.st[s.cur] = "Blocked"
  BY <1>1, <1>2
<1>7. Schedule(d) \in SchedState /\ Consistent(Schedule(d))
  <2> HIDE DEF b
  <2> QED BY <1>1, <1>2, <1>5, <1>6, IdleChange
<1>8. \A t \in Threads : Schedule(d).st[t] = IF t = next THEN "Running"
                            ELSE IF t = s.cur THEN "Dying" ELSE s.st[t]
  BY <1>1, <1>2, <1>4
<1>9. Schedule(d).ipc = s.ipc
  BY <1>4
<1> HIDE DEF next
<1> QED BY <1>2, <1>7, <1>8, <1>9

-----------------------------------------------------------------------------
(* Threads in a consistent state.                                          *)
LEMMA RunningParts ==
  ASSUME TypeOK, ProcInv, halt = "no"
  PROVE  /\ Consistent(sched) /\ sched.st[me] = "Running" /\ Exists(me)
         /\ sched.ipc[me].why \notin {"BlockedOnWait4", "BlockedOnReceive"}
         /\ \A u \in Queued(sched) : u \in Threads /\ sched.st[u] = "Ready"
         /\ \A u, v \in Queued(sched) : u.i = v.i => u = v
         /\ Len(sched.rq) <= ReadyCap
         /\ \A x \in Threads : sched.st[x] # "Ready" /\ x # me
              /\ (\A u \in Queued(sched) : u.i # x.i) /\ x.i # me.i => Len(sched.rq) < ReadyCap
<1>1. Consistent(sched) /\ sched.st[me] = "Running" /\ Exists(me)
  BY RunnerExists DEF ProcInv, SchedulerConsistent
<1>2. sched \in SchedState /\ me \in Threads /\ me.i \in ThreadSlots
  BY TypeParts DEF ThreadSlots
<1>3. sched.ipc[me].why \notin {"BlockedOnWait4", "BlockedOnReceive"}
  BY <1>1, <1>2 DEF ProcInv, BlockedInv
<1>4. \A u \in Queued(sched) : u \in Threads /\ sched.st[u] = "Ready"
  BY <1>1, <1>2 DEF Consistent, QueueHoldsReady, Queued, SchedState
<1>5. \A u, v \in Queued(sched) : u.i = v.i => u = v
  BY <1>4 DEF ProcInv, IdsInv, Exists
<1>6. \A u \in Queued(sched) : u.i # me.i
  BY <1>1, <1>2, <1>4 DEF ProcInv, IdsInv, Exists
<1>7. QueuedOnce(sched)
  BY <1>1 DEF Consistent
<1>8. /\ Len(sched.rq) <= ReadyCap
      /\ \A y \in ThreadSlots \ {me.i} :
           (\A u \in Queued(sched) : u.i # y) => Len(sched.rq) < ReadyCap
  BY <1>2, <1>5, <1>6, <1>7, SlotRoom
<1> QED BY <1>1, <1>3, <1>4, <1>5, <1>8 DEF ThreadSlots

(* A step that moves no thread between Free, Dying, waiting and the rest,  *)
(* and leaves parents and generations alone.                               *)
LEMMA SameFamily ==
  ASSUME IdsInv, FamilyInv, WaiterHasLiveChild,
         \A t \in Threads :
           /\ sched'.st[t] = "Free" <=> sched.st[t] = "Free"
           /\ sched'.st[t] = "Dying" <=> sched.st[t] = "Dying"
           /\ sched'.ipc[t].why = "BlockedOnWait4" => sched.ipc[t].why = "BlockedOnWait4"
           /\ tcb'[t].parent = tcb[t].parent,
         tgen' = tgen
  PROVE  IdsInv' /\ FamilyInv' /\ WaiterHasLiveChild'
<1>1. \A t \in Threads : Exists(t)' <=> Exists(t)
  BY DEF Exists
<1>2. \A t \in Threads : Children(t)' = Children(t) /\ DyingChildren(t)' = DyingChildren(t)
  BY <1>1 DEF Children, DyingChildren
<1>3. IdsInv'
  BY <1>1 DEF IdsInv
<1>4. FamilyInv'
  BY DEF FamilyInv
<1>5. WaiterHasLiveChild'
  BY <1>2 DEF WaiterHasLiveChild
<1> QED BY <1>3, <1>4, <1>5

(* block_current(), whether it finds another thread or returns.            *)
LEMMA BlockMoves ==
  ASSUME NEW s \in SchedState, Consistent(s), NEW why \in IpcState,
         NEW b, b = Block(s, why)
  PROVE  /\ s.rq # << >> => Consistent(b)
         /\ \A t \in Threads :
              /\ b.ipc[t] = IF t = s.cur THEN why ELSE s.ipc[t]
              /\ t = s.cur => b.st[t] = "Blocked"
              /\ t # s.cur => IF s.st[t] = "Ready" THEN b.st[t] \in {"Ready", "Running"}
                                                   ELSE b.st[t] = s.st[t]
<1>1. /\ s.st \in [Threads -> ThreadState] /\ s.ipc \in [Threads -> IpcState]
      /\ s.rq \in Seq(Threads) /\ s.cur \in Threads
  BY DEF SchedState
<1>2. CASE s.rq # << >>
  <2>1. /\ Consistent(b) /\ b.ipc = [s.ipc EXCEPT ![s.cur] = why]
        /\ b.st = [[s.st EXCEPT ![s.cur] = "Blocked"] EXCEPT ![Head(s.rq)] = "Running"]
        /\ s.st[Head(s.rq)] = "Ready" /\ Head(s.rq) \in Threads /\ Head(s.rq) # s.cur
    BY <1>2, BlockConsistent
  <2>2. PICK next \in Threads :
          /\ s.st[next] = "Ready" /\ next # s.cur
          /\ b.st = [[s.st EXCEPT ![s.cur] = "Blocked"] EXCEPT ![next] = "Running"]
    BY <2>1
  <2> QED BY <1>1, <2>1, <2>2
<1>3. CASE s.rq = << >>
  <2>1. b = [st |-> [s.st EXCEPT ![s.cur] = "Blocked"],
             ipc |-> [s.ipc EXCEPT ![s.cur] = why], rq |-> s.rq, cur |-> s.cur]
    BY <1>3 DEF Block, Schedule
  <2> QED BY <1>1, <1>3, <2>1
<1> QED BY <1>2, <1>3

(* wake() of a thread that is asleep: the queue has room for it.           *)
LEMMA WakeSleeper ==
  ASSUME TypeOK, ProcInv, halt = "no", NEW u \in Threads, sched.st[u] = "Blocked",
         NEW w, w = Wake(sched, u)
  PROVE  /\ w \in SchedState /\ Consistent(w) /\ w.cur = me /\ u # me
         /\ w.st = [sched.st EXCEPT ![u] = "Ready"]
         /\ w.ipc = [sched.ipc EXCEPT ![u] = IpcReady]
         /\ w.rq = Append(sched.rq, u) /\ w.rq # << >> /\ Len(w.rq) <= ReadyCap
<1>1. sched \in SchedState /\ me = sched.cur /\ sched.rq \in Seq(Threads) /\ me \in Threads
  BY TypeParts DEF me
<1>2. /\ Consistent(sched) /\ Exists(me) /\ sched.st[me] = "Running"
      /\ \A v \in Queued(sched) : v \in Threads /\ sched.st[v] = "Ready"
      /\ \A x \in Threads : sched.st[x] # "Ready" /\ x # me
           /\ (\A v \in Queued(sched) : v.i # x.i) /\ x.i # me.i => Len(sched.rq) < ReadyCap
  BY RunningParts
<1>3. u # me /\ \A v \in Threads : Exists(v) /\ v # u => v.i # u.i
  BY <1>2 DEF ProcInv, IdsInv, Exists
<1>4. \A v \in Queued(sched) : v.i # u.i
  BY <1>2, <1>3 DEF Exists
<1>5. Len(sched.rq) < ReadyCap
  BY <1>1, <1>2, <1>3, <1>4
<1>6. /\ w \in SchedState /\ Consistent(w)
      /\ w.st = [sched.st EXCEPT ![u] = "Ready"]
      /\ w.ipc = [sched.ipc EXCEPT ![u] = IpcReady] /\ w.cur = sched.cur
  BY <1>1, <1>2, <1>5, WakeConsistent
<1>7. w.rq = Append(sched.rq, u) /\ w.rq # << >> /\ Len(w.rq) <= ReadyCap
  <2>1. ~ (Len(sched.rq) >= ReadyCap) /\ Len(sched.rq) + 1 <= ReadyCap
    BY <1>1, <1>5, ReadyCapAssumption
  <2>2. w.rq = Enqueue(sched.rq, u)
    BY DEF Wake
  <2> QED BY <1>1, <2>1, <2>2 DEF Enqueue
<1> QED BY <1>1, <1>3, <1>6, <1>7

(* What IPC and deadlines do to threads.                                   *)
LEMMA IpcMoves ==
  ASSUME TypeOK, ProcInv, IpcNext
  PROVE  /\ halt = "no" /\ UNCHANGED <<tcb, tgen>>
         /\ (halt' = "no" /\ Consistent(sched')) \/ halt' = "stray"
         /\ \A t \in Threads :
              /\ sched'.st[t] = "Free" <=> sched.st[t] = "Free"
              /\ sched'.st[t] = "Dying" <=> sched.st[t] = "Dying"
              /\ sched'.ipc[t].why = "BlockedOnWait4" => sched.ipc[t].why = "BlockedOnWait4"
              /\ sched'.ipc[t].why \in {"BlockedOnWait4", "BlockedOnReceive"}
                   <=> sched'.st[t] = "Blocked"
<1>1. /\ sched \in SchedState /\ me = sched.cur /\ me \in Threads
      /\ sched.st \in [Threads -> ThreadState] /\ sched.ipc \in [Threads -> IpcState]
  BY TypeParts DEF me
<1>2. halt = "no" /\ UNCHANGED <<tcb, tgen>>
  BY DEF IpcNext, Ipc, Serve, IpcStep, Tick, InUser
<1>3. /\ Consistent(sched) /\ sched.st[me] = "Running" /\ Len(sched.rq) <= ReadyCap
      /\ sched.ipc[me].why \notin {"BlockedOnWait4", "BlockedOnReceive"}
  BY <1>2, RunningParts
<1>4. \A t \in Threads : sched.ipc[t].why \in {"BlockedOnWait4", "BlockedOnReceive"}
                            <=> sched.st[t] = "Blocked"
  BY DEF ProcInv, BlockedInv
<1>5. /\ IpcReady.why = "Ready" /\ InIpc.why = "BlockedOnReceive" /\ InIpc \in IpcState
  BY DEF IpcReady, InIpc, On, IpcState, IpcReason
<1>6. CASE \E u \in Threads : Tick(u)
  <2>1. PICK u \in Threads : u \in Sleepers /\ sched' = Schedule(Wake(sched, u)) /\ halt' = halt
    BY <1>6 DEF Tick
  <2> DEFINE w == Wake(sched, u)
  <2>2. /\ w \in SchedState /\ Consistent(w) /\ Len(w.rq) <= ReadyCap
        /\ w.st = [sched.st EXCEPT ![u] = "Ready"]
        /\ w.ipc = [sched.ipc EXCEPT ![u] = IpcReady] /\ sched.st[u] = "Blocked"
    BY <1>2, <2>1, WakeSleeper DEF Sleepers
  <2>3. sched' = Schedule(w)
    BY <2>1
  <2> HIDE DEF w
  <2>4. Consistent(sched') /\ sched'.ipc = w.ipc
    BY <2>2, <2>3, ScheduleConsistent
  <2>5. \A t \in Threads :
          IF w.st[t] \in {"Ready", "Running"} THEN sched'.st[t] \in {"Ready", "Running"}
                                              ELSE sched'.st[t] = w.st[t]
    BY <2>2, <2>3, ScheduleKeeps
  <2>6. \A t \in Threads : /\ w.st[t] = IF t = u THEN "Ready" ELSE sched.st[t]
                           /\ w.ipc[t] = IF t = u THEN IpcReady ELSE sched.ipc[t]
    BY <1>1, <2>2
  <2> QED BY <1>2, <1>4, <1>5, <2>1, <2>2, <2>4, <2>5, <2>6
<1>7. CASE \E u \in Threads \cup {None}, sleeps \in BOOLEAN : IpcStep(u, sleeps)
  <2>1. PICK u \in Threads \cup {None}, sleeps \in BOOLEAN : IpcStep(u, sleeps)
    BY <1>7
  <2> DEFINE w == IF u = None THEN sched ELSE Wake(sched, u)
  <2>2. /\ sched' = (IF sleeps THEN Block(w, InIpc) ELSE w)
        /\ halt' = (IF sleeps /\ w.rq = << >> THEN "stray" ELSE halt)
        /\ u # None => u \in Sleepers
    BY <2>1 DEF IpcStep
  <2>3. /\ w \in SchedState /\ Consistent(w) /\ w.cur = me
        /\ \A t \in Threads : /\ w.st[t] = IF t = u THEN "Ready" ELSE sched.st[t]
                              /\ w.ipc[t] = IF t = u THEN IpcReady ELSE sched.ipc[t]
        /\ u # None => sched.st[u] = "Blocked" /\ u # me
    <3>1. CASE u = None
      BY <1>1, <1>3, <3>1, NoneAssumption
    <3>2. CASE u # None
      <4>1. u \in Threads /\ sched.st[u] = "Blocked" /\ w = Wake(sched, u)
        BY <2>2, <3>2 DEF Sleepers
      <4>2. /\ w \in SchedState /\ Consistent(w) /\ w.cur = me /\ u # me
            /\ w.st = [sched.st EXCEPT ![u] = "Ready"]
            /\ w.ipc = [sched.ipc EXCEPT ![u] = IpcReady]
        <5> HIDE DEF w
        <5> QED BY <1>2, <4>1, WakeSleeper
      <4> HIDE DEF w
      <4> QED BY <1>1, <4>1, <4>2
    <3> QED BY <3>1, <3>2
  <2> HIDE DEF w
  <2>4. CASE ~ sleeps
    <3>1. sched' = w /\ halt' = halt
      BY <2>2, <2>4
    <3>2. ASSUME NEW t \in Threads
          PROVE  /\ sched'.st[t] = "Free" <=> sched.st[t] = "Free"
                 /\ sched'.st[t] = "Dying" <=> sched.st[t] = "Dying"
                 /\ sched'.ipc[t].why = "BlockedOnWait4" => sched.ipc[t].why = "BlockedOnWait4"
                 /\ sched'.ipc[t].why \in {"BlockedOnWait4", "BlockedOnReceive"}
                      <=> sched'.st[t] = "Blocked"
      <4>1. CASE t = u
        BY <1>5, <2>3, <3>1, <4>1, NoneAssumption
      <4>2. CASE t # u
        <5>1. sched'.st[t] = sched.st[t] /\ sched'.ipc[t] = sched.ipc[t]
          BY <2>3, <3>1, <4>2
        <5> QED BY <1>4, <5>1
      <4> QED BY <4>1, <4>2
    <3> QED BY <1>2, <2>3, <3>1, <3>2
  <2>5. CASE sleeps
    <3>1. /\ w.rq # << >> => Consistent(sched')
          /\ \A t \in Threads :
               /\ sched'.ipc[t] = IF t = me THEN InIpc ELSE w.ipc[t]
               /\ t = me => sched'.st[t] = "Blocked"
               /\ t # me => IF w.st[t] = "Ready" THEN sched'.st[t] \in {"Ready", "Running"}
                                                 ELSE sched'.st[t] = w.st[t]
      BY <1>5, <2>2, <2>3, <2>5, BlockMoves
    <3>2. ASSUME NEW t \in Threads
          PROVE  /\ sched'.st[t] = "Free" <=> sched.st[t] = "Free"
                 /\ sched'.st[t] = "Dying" <=> sched.st[t] = "Dying"
                 /\ sched'.ipc[t].why = "BlockedOnWait4" => sched.ipc[t].why = "BlockedOnWait4"
                 /\ sched'.ipc[t].why \in {"BlockedOnWait4", "BlockedOnReceive"}
                      <=> sched'.st[t] = "Blocked"
      <4>1. CASE t = me
        BY <1>3, <1>5, <3>1, <4>1
      <4>2. CASE t # me /\ t = u
        <5>1. /\ sched.st[t] = "Blocked" /\ sched'.ipc[t] = IpcReady
              /\ sched'.st[t] \in {"Ready", "Running"}
          BY <2>3, <3>1, <4>2, NoneAssumption
        <5> QED BY <1>5, <5>1
      <4>3. CASE t # me /\ t # u
        <5>1. /\ sched'.ipc[t] = sched.ipc[t]
              /\ IF sched.st[t] = "Ready" THEN sched'.st[t] \in {"Ready", "Running"}
                                          ELSE sched'.st[t] = sched.st[t]
          BY <2>3, <3>1, <4>3
        <5> QED BY <1>4, <5>1
      <4> QED BY <4>1, <4>2, <4>3
    <3>3. (halt' = "no" /\ Consistent(sched')) \/ halt' = "stray"
      BY <1>2, <2>2, <2>5, <3>1
    <3> QED BY <1>2, <3>2, <3>3
  <2> QED BY <2>4, <2>5
<1> QED BY <1>2, <1>6, <1>7 DEF IpcNext, Ipc, Serve

(* A newborn: its id was never given out, so nobody is its child.          *)
LEMMA NewbornFresh ==
  ASSUME TypeOK, IdsInv, NEW t \in Threads, NewThread(t)
  PROVE  /\ ~Exists(t) /\ \A c \in Threads : tcb[c].parent # t
         /\ \A u \in Threads : Exists(u) => u.i # t.i
         /\ t.g = tgen[t.i] + 1 /\ tgen[t.i] \in Nat /\ t.i \in ThreadSlots
<1>1. t.i \in ThreadSlots /\ tgen[t.i] \in Nat /\ t.g = tgen[t.i] + 1
  BY TypeParts DEF ThreadSlots, NewThread
<1>2. \A u \in Threads : Exists(u) => u.i # t.i
  BY DEF NewThread
<1>3. \A c \in Threads : tcb[c].parent # t
  <2> SUFFICES ASSUME NEW c \in Threads, tcb[c].parent = t PROVE FALSE
    OBVIOUS
  <2>1. t # None
    BY NoneAssumption
  <2>2. t.g <= tgen[t.i]
    BY <2>1 DEF IdsInv
  <2> QED BY <1>1, <2>2
<1> QED BY <1>1, <1>2, <1>3

LEMMA BornProc ==
  ASSUME TypeOK, ProcInv, halt = "no", NEW t \in Threads, NewThread(t),
         NEW parent \in {None, me}, NEW as \in Spaces \cup {None}, NEW linux \in BOOLEAN,
         Create(t, parent, as, linux)
  PROVE  /\ Consistent(sched')
         /\ IdsInv' /\ FamilyInv' /\ BlockedInv' /\ WaiterHasLiveChild'
<1>1. /\ sched \in SchedState /\ me \in Threads /\ me = sched.cur
      /\ sched.st \in [Threads -> ThreadState] /\ sched.ipc \in [Threads -> IpcState]
      /\ tcb \in [Threads -> Tcb] /\ tgen \in [ThreadSlots -> Nat]
  BY TypeParts DEF me
<1>2. /\ ~Exists(t) /\ \A c \in Threads : tcb[c].parent # t
      /\ \A u \in Threads : Exists(u) => u.i # t.i
      /\ t.g = tgen[t.i] + 1 /\ tgen[t.i] \in Nat /\ t.i \in ThreadSlots
  BY NewbornFresh DEF ProcInv
<1>3. /\ Consistent(sched) /\ Exists(me) /\ sched.st[me] = "Running"
      /\ sched.ipc[me].why # "BlockedOnWait4" /\ Len(sched.rq) < ReadyCap
  BY <1>1, <1>2, RunningParts DEF Exists
<1>4. sched.st[t] = "Free" /\ t # me
  BY <1>2, <1>3 DEF Exists
<1>5. /\ sched' = [st  |-> [sched.st EXCEPT ![t] = "Ready"],
                   ipc |-> [sched.ipc EXCEPT ![t] = IpcReady],
                   rq  |-> Enqueue(sched.rq, t), cur |-> sched.cur]
      /\ tcb' = [tcb EXCEPT ![t] = [parent |-> parent, as |-> as, linux |-> linux]]
      /\ tgen' = [tgen EXCEPT ![t.i] = t.g]
  BY DEF Create
<1>6. Consistent(sched')
  <2> DEFINE s1 == [st |-> [sched.st EXCEPT ![t] = "Blocked"], ipc |-> sched.ipc,
                    rq |-> sched.rq, cur |-> sched.cur]
  <2>1. s1 \in SchedState /\ Consistent(s1)
    BY <1>1, <1>3, <1>4, IdleChange
  <2>2. s1.st[t] = "Blocked" /\ Len(s1.rq) < ReadyCap
    BY <1>1, <1>3
  <2>3. Consistent(Wake(s1, t))
    <3> HIDE DEF s1
    <3> QED BY <2>1, <2>2, WakeConsistent
  <2>4. Wake(s1, t) = sched'
    BY <1>1, <1>5, <2>2 DEF Wake
  <2> QED BY <2>3, <2>4
<1>7. \A u \in Threads : /\ u # t => /\ sched'.st[u] = sched.st[u] /\ tcb'[u] = tcb[u]
                                     /\ sched'.ipc[u] = sched.ipc[u]
                         /\ u = t => /\ sched'.st[u] = "Ready" /\ tcb'[u].parent = parent
                                     /\ sched'.ipc[u].why = "Ready"
  BY <1>1, <1>5 DEF IpcReady, On
<1>8. \A i \in ThreadSlots : tgen'[i] = IF i = t.i THEN t.g ELSE tgen[i]
  BY <1>1, <1>2, <1>5
<1>9. parent # t
  BY <1>4, NoneAssumption
<1>10. FamilyInv'
  <2> SUFFICES ASSUME NEW T \in SUBSET Threads, T # {}
               PROVE  \E u \in T : \A c \in T : tcb'[c].parent # u
    BY DEF FamilyInv
  <2>1. CASE t \in T
    BY <1>2, <1>7, <1>9, <2>1
  <2>2. CASE t \notin T
    <3>1. \A c \in T : tcb'[c] = tcb[c]
      BY <1>7, <2>2
    <3> QED BY <3>1 DEF ProcInv, FamilyInv
  <2> QED BY <2>1, <2>2
<1>11. IdsInv'
  <2>1. \A u \in Threads : Exists(u)' <=> Exists(u) \/ u = t
    BY <1>4, <1>7 DEF Exists
  <2>2. \A u, v \in Threads : Exists(u)' /\ Exists(v)' /\ u.i = v.i => u = v
    BY <1>2, <2>1 DEF ProcInv, IdsInv
  <2>3. \A u \in Threads : u.i \in ThreadSlots /\ u.g \in Nat
    BY IdsAssumption DEF ThreadSlots
  <2>4. \A u \in Threads : Exists(u)' => u.g <= tgen'[u.i]
    BY <1>2, <1>8, <2>1, <2>3 DEF ProcInv, IdsInv
  <2>5. ASSUME NEW c \in Threads, tcb'[c].parent # None
        PROVE  tcb'[c].parent.g <= tgen'[tcb'[c].parent.i]
    <3>1. CASE c = t
      <4>1. tcb'[c].parent = me
        BY <1>7, <2>5, <3>1
      <4> QED BY <1>1, <1>3, <2>1, <2>4, <4>1
    <3>2. CASE c # t
      <4>1. tcb'[c].parent = tcb[c].parent /\ tcb[c].parent \in Threads
        BY <1>1, <1>7, <2>5, <3>2 DEF Tcb
      <4>2. tcb[c].parent.g <= tgen[tcb[c].parent.i]
        BY <2>5, <4>1 DEF ProcInv, IdsInv
      <4> QED BY <1>1, <1>2, <1>8, <2>3, <4>1, <4>2
    <3> QED BY <3>1, <3>2
  <2> QED BY <2>2, <2>4, <2>5 DEF IdsInv
<1>12. BlockedInv'
  BY <1>7 DEF ProcInv, BlockedInv
<1>13. WaiterHasLiveChild'
  <2> SUFFICES ASSUME NEW w \in Threads, sched'.ipc[w].why = "BlockedOnWait4"
               PROVE  Children(w)' # {} /\ DyingChildren(w)' = {}
    BY DEF WaiterHasLiveChild
  <2>1. w # t /\ sched.ipc[w].why = "BlockedOnWait4" /\ w # me
    BY <1>3, <1>7
  <2>2. Children(w)' = Children(w)
    BY <1>2, <1>4, <1>7, <2>1, NoneAssumption DEF Children, Exists
  <2>3. DyingChildren(w)' = DyingChildren(w)
    BY <1>2, <1>7, <2>2 DEF DyingChildren, Children
  <2> QED BY <2>1, <2>2, <2>3 DEF ProcInv, WaiterHasLiveChild
<1> QED BY <1>6, <1>10, <1>11, <1>12, <1>13

(* When nobody is ready, everybody but the caller has exited or sleeps.    *)
LEMMA DryQueue ==
  ASSUME TypeOK, ProcInv, halt = "no", sched.rq = << >>
  PROVE  \A t \in Threads : t # me => sched.st[t] \in {"Free", "Dying", "Blocked"}
<1>1. /\ sched.st \in [Threads -> ThreadState] /\ me \in Threads /\ me = sched.cur
  BY TypeParts DEF me
<1>2. Consistent(sched) /\ Queued(sched) = {}
  BY RunningParts DEF Queued
<1> QED BY <1>1, <1>2 DEF Consistent, ReadyIsQueued, OneRunning, ThreadState

(* Once everybody has exited or sleeps, the waiting parents do not only    *)
(* wait for one another: the family is well founded, so one of any number  *)
(* of them has a live child that is not among them.                        *)
LEMMA AllAsleep ==
  ASSUME FamilyInv', WaiterHasLiveChild',
         \A t \in Threads : Exists(t)' => sched'.st[t] \in {"Dying", "Blocked"}
  PROVE  StopsOnlyForSleepers'
<1> SUFFICES ASSUME NEW T \in SUBSET Waiters', T # {}
             PROVE  \E t \in T : \E c \in Children(t)' \ T : sched'.st[c] = "Blocked"
  BY DEF StopsOnlyForSleepers
<1>1. T \in SUBSET Threads
  BY DEF Waiters
<1>2. PICK t \in T : \A c \in T : tcb'[c].parent # t
  BY <1>1 DEF FamilyInv
<1>3. Children(t)' # {} /\ DyingChildren(t)' = {}
  BY <1>1 DEF WaiterHasLiveChild, Waiters
<1>4. PICK c \in Children(t)' : sched'.st[c] # "Dying"
  BY <1>3 DEF DyingChildren
<1>5. c \in Threads /\ Exists(c)' /\ tcb'[c].parent = t
  BY DEF Children
<1> QED BY <1>2, <1>4, <1>5

(* sys_exit_thread: who moves, and when the kernel goes idle.              *)
LEMMA ExitMoves ==
  ASSUME TypeOK, ProcInv, Exit,
         NEW woken, woken = {p \in Threads : p = tcb[me].parent /\ sched.ipc[p].why = "BlockedOnWait4"}
  PROVE  /\ \A t \in Threads :
              /\ t = me => sched'.st[t] = "Dying"
              /\ t # me => IF sched.st[t] = "Ready" \/ t \in woken
                           THEN sched'.st[t] \in {"Ready", "Running"}
                           ELSE sched'.st[t] = sched.st[t]
              /\ sched'.ipc[t] = IF t \in woken THEN IpcReady ELSE sched.ipc[t]
         /\ halt' = "no" => Consistent(sched')
         /\ halt' = "no" \/ (halt' = "idle" /\ woken = {} /\ sched.rq = << >>)
         /\ me \notin woken
<1> DEFINE p == tcb[me].parent
           d == Died(sched, me, p)
<1>1. /\ sched \in SchedState /\ me \in Threads /\ me = sched.cur
      /\ sched.st \in [Threads -> ThreadState] /\ sched.ipc \in [Threads -> IpcState]
      /\ sched.rq \in Seq(Threads) /\ p \in Threads \cup {None}
      /\ sched = [st |-> sched.st, ipc |-> sched.ipc, rq |-> sched.rq, cur |-> sched.cur]
  BY TypeParts DEF me, SchedState
<1>2. /\ halt = "no" /\ sched' = Schedule(d)
      /\ halt' = IF d.rq = << >> THEN "idle" ELSE halt
  BY DEF Exit, InUser
<1>3. /\ Consistent(sched) /\ Exists(me) /\ sched.st[me] = "Running"
      /\ sched.ipc[me].why # "BlockedOnWait4"
      /\ \A u \in Queued(sched) : u \in Threads /\ sched.st[u] = "Ready"
      /\ \A u, v \in Queued(sched) : u.i = v.i => u = v
      /\ Len(sched.rq) <= ReadyCap
      /\ \A x \in Threads : sched.st[x] # "Ready" /\ x # me
           /\ (\A u \in Queued(sched) : u.i # x.i) /\ x.i # me.i => Len(sched.rq) < ReadyCap
  BY <1>2, RunningParts
<1>4. me \notin woken
  BY <1>3
<1> DEFINE e == [sched EXCEPT !.st[me] = "Dying"]
<1>5. e = [st |-> [sched.st EXCEPT ![me] = "Dying"], ipc |-> sched.ipc, rq |-> sched.rq,
           cur |-> sched.cur]
  BY <1>1
<1>6. \A x \in Threads : sched.ipc[x].why = "BlockedOnWait4" => sched.st[x] = "Blocked"
  BY DEF ProcInv, BlockedInv
<1>7. CASE woken # {}
  <2>1. /\ p \in Threads /\ sched.st[p] = "Blocked" /\ woken = {p} /\ p # me
        /\ sched.ipc[p].why = "BlockedOnWait4"
    BY <1>4, <1>6, <1>7
  <2>2. Len(sched.rq) < ReadyCap
    <3>1. \A u \in Threads : Exists(u) /\ u # p => u.i # p.i
      BY <2>1 DEF ProcInv, IdsInv, Exists
    <3>2. \A u \in Queued(sched) : u.i # p.i
      BY <1>3, <2>1, <3>1 DEF Exists
    <3> QED BY <1>1, <1>3, <2>1, <3>1, <3>2
  <2> DEFINE w == Wake(sched, p)
  <2>3. /\ w \in SchedState /\ Consistent(w)
        /\ w.st = [sched.st EXCEPT ![p] = "Ready"]
        /\ w.ipc = [sched.ipc EXCEPT ![p] = IpcReady] /\ w.cur = sched.cur
    BY <1>1, <1>3, <2>1, <2>2, WakeConsistent
  <2>4. w.rq = Append(sched.rq, p) /\ w.rq # << >>
    <3>1. ~ (Len(sched.rq) >= ReadyCap)
      BY <1>1, <2>2, ReadyCapAssumption
    <3>2. w.rq = Enqueue(sched.rq, p)
      BY <2>1 DEF Wake
    <3> HIDE DEF w
    <3> QED BY <1>1, <2>1, <3>1, <3>2 DEF Enqueue
  <2>5. d = Wake(e, p)
    BY <1>6, <2>1, NoneAssumption DEF Died
  <2>6. Wake(e, p) = [st |-> [w.st EXCEPT ![w.cur] = "Dying"], ipc |-> w.ipc,
                      rq |-> w.rq, cur |-> w.cur]
    <3>1. /\ e.st = [sched.st EXCEPT ![me] = "Dying"] /\ e.ipc = sched.ipc
          /\ e.rq = sched.rq /\ e.cur = sched.cur /\ e.st[p] = "Blocked"
      BY <1>1, <1>5, <2>1
    <3>2. [[sched.st EXCEPT ![me] = "Dying"] EXCEPT ![p] = "Ready"]
            = [[sched.st EXCEPT ![p] = "Ready"] EXCEPT ![me] = "Dying"]
      BY <1>1, <2>1
    <3>3. Enqueue(sched.rq, p) = w.rq
      BY <2>1 DEF Wake
    <3> HIDE DEF e, w
    <3> QED BY <1>1, <2>3, <3>1, <3>2, <3>3 DEF Wake
  <2>7. d.rq # << >>
    BY <2>4, <2>5, <2>6
  <2>8. /\ Consistent(sched') /\ sched'.ipc = w.ipc
        /\ \A t \in Threads :
             /\ t = w.cur => sched'.st[t] = "Dying"
             /\ t # w.cur => IF w.st[t] = "Ready" THEN sched'.st[t] \in {"Ready", "Running"}
                             ELSE sched'.st[t] = w.st[t]
    <3> HIDE DEF w, d, e
    <3>1. d = [st |-> [w.st EXCEPT ![w.cur] = "Dying"], ipc |-> w.ipc, rq |-> w.rq,
               cur |-> w.cur]
      BY <2>5, <2>6
    <3>2. w \in SchedState /\ Consistent(w) /\ w.rq # << >>
      BY <2>3, <2>4
    <3>3. sched' = Schedule(d)
      BY <1>2
    <3> QED BY <3>1, <3>2, <3>3, LeaveConsistent
  <2>9. halt' = "no"
    BY <1>2, <2>7
  <2> HIDE DEF w, d, e, p
  <2> QED BY <1>1, <1>4, <2>1, <2>3, <2>8, <2>9
<1>8. CASE woken = {} /\ sched.rq # << >>
  <2>1. d = e
    BY <1>1, <1>6, <1>8 DEF Died
  <2>2. d.rq # << >>
    BY <1>5, <1>8, <2>1
  <2>3. /\ Consistent(sched') /\ sched'.ipc = sched.ipc
        /\ \A t \in Threads :
             /\ t = me => sched'.st[t] = "Dying"
             /\ t # me => IF sched.st[t] = "Ready" THEN sched'.st[t] \in {"Ready", "Running"}
                          ELSE sched'.st[t] = sched.st[t]
    <3> HIDE DEF d, e
    <3> QED BY <1>1, <1>2, <1>3, <1>5, <1>8, <2>1, LeaveConsistent
  <2> QED BY <1>2, <1>4, <1>8, <2>2, <2>3
<1>9. CASE woken = {} /\ sched.rq = << >>
  <2>1. d = e
    BY <1>1, <1>6, <1>9 DEF Died
  <2>2. d.rq = << >>
    BY <1>5, <1>9, <2>1
  <2>3. sched' = e
    BY <1>2, <2>1, <2>2 DEF Schedule
  <2>4. \A t \in Threads : sched.st[t] # "Ready"
    BY <1>3, <1>9 DEF Consistent, ReadyIsQueued, Queued
  <2>5. /\ sched'.ipc = sched.ipc
        /\ \A t \in Threads : sched'.st[t] = IF t = me THEN "Dying" ELSE sched.st[t]
    BY <1>1, <1>5, <2>3
  <2> HIDE DEF d, e
  <2> QED BY <1>2, <1>4, <1>9, <2>2, <2>4, <2>5
<1> QED BY <1>7, <1>8, <1>9

LEMMA ExitProc ==
  ASSUME TypeOK, ProcInv, Exit
  PROVE  ProcInv'
<1> DEFINE woken == {p \in Threads : p = tcb[me].parent /\ sched.ipc[p].why = "BlockedOnWait4"}
<1>1. /\ \A t \in Threads :
           /\ t = me => sched'.st[t] = "Dying"
           /\ t # me => IF sched.st[t] = "Ready" \/ t \in woken
                        THEN sched'.st[t] \in {"Ready", "Running"}
                        ELSE sched'.st[t] = sched.st[t]
           /\ sched'.ipc[t] = IF t \in woken THEN IpcReady ELSE sched.ipc[t]
      /\ halt' = "no" => Consistent(sched')
      /\ halt' = "no" \/ (halt' = "idle" /\ woken = {} /\ sched.rq = << >>)
      /\ me \notin woken
  BY ExitMoves
<1>2. halt = "no" /\ tcb' = tcb /\ tgen' = tgen
  BY DEF Exit, InUser
<1>3. /\ sched.st[me] = "Running" /\ me \in Threads
      /\ sched.ipc[me].why \notin {"BlockedOnWait4", "BlockedOnReceive"}
      /\ \A t \in woken : sched.st[t] = "Blocked"
  BY <1>2, RunningParts, TypeParts DEF ProcInv, BlockedInv
<1>4. \A t \in Threads : Exists(t)' <=> Exists(t)
  BY <1>1, <1>3 DEF Exists
<1>5. IdsInv' /\ FamilyInv'
  BY <1>2, <1>4 DEF ProcInv, IdsInv, FamilyInv
<1>6. BlockedInv'
  <2>1. IpcReady.why \notin {"BlockedOnWait4", "BlockedOnReceive"}
    BY DEF IpcReady, On
  <2> HIDE DEF woken
  <2> QED BY <1>1, <1>3, <2>1 DEF ProcInv, BlockedInv
<1>7. WaiterHasLiveChild'
  <2> SUFFICES ASSUME NEW w \in Threads, sched'.ipc[w].why = "BlockedOnWait4"
               PROVE  Children(w)' # {} /\ DyingChildren(w)' = {}
    BY DEF WaiterHasLiveChild
  <2>1. w \notin woken /\ sched.ipc[w].why = "BlockedOnWait4"
    BY <1>1 DEF IpcReady, On
  <2>2. sched.st[w] = "Blocked" /\ tcb[me].parent # w
    BY <2>1 DEF ProcInv, BlockedInv
  <2>3. Children(w)' = Children(w)
    BY <1>2, <1>4 DEF Children
  <2>4. DyingChildren(w)' = DyingChildren(w)
    <3>1. \A c \in Children(w) : c \in Threads /\ c # me
      BY <2>2 DEF Children
    <3>2. \A c \in Children(w) : sched'.st[c] = "Dying" <=> sched.st[c] = "Dying"
      BY <1>1, <1>3, <3>1
    <3> QED BY <2>3, <3>2 DEF DyingChildren
  <2> QED BY <2>1, <2>3, <2>4 DEF ProcInv, WaiterHasLiveChild
<1>8. StopsOnlyForSleepers'
  <2>1. CASE halt' = "no"
    BY <2>1 DEF StopsOnlyForSleepers
  <2>2. CASE halt' # "no"
    <3>1. sched.rq = << >> /\ woken = {}
      BY <1>1, <2>2
    <3>2. \A t \in Threads : t # me => sched.st[t] \in {"Free", "Dying", "Blocked"}
      BY <1>2, <3>1, DryQueue
    <3>3. \A t \in Threads : Exists(t)' => sched'.st[t] \in {"Dying", "Blocked"}
      BY <1>1, <3>1, <3>2 DEF Exists
    <3> QED BY <1>5, <1>7, <3>3, AllAsleep
  <2> QED BY <2>1, <2>2
<1> QED BY <1>1, <1>5, <1>6, <1>7, <1>8 DEF ProcInv, SchedulerConsistent

LEMMA ReapProc ==
  ASSUME TypeOK, ProcInv, NEW c \in Threads, Reap(c)
  PROVE  ProcInv'
<1>1. /\ halt = "no" /\ c \in DyingChildren(me) /\ tgen' = tgen
      /\ sched' = [sched EXCEPT !.st[c] = "Free", !.ipc[c] = IpcReady]
      /\ tcb' = [tcb EXCEPT ![c] = NoTcb]
      /\ halt' \in {halt, "tracking"}
  BY DEF Reap, Track, InWait4
<1>2. /\ sched \in SchedState /\ me \in Threads /\ tcb \in [Threads -> Tcb]
      /\ sched.st \in [Threads -> ThreadState] /\ sched.ipc \in [Threads -> IpcState]
  BY TypeParts
<1>3. sched.st[c] = "Dying" /\ Exists(c) /\ tcb[c].parent = me
  BY <1>1 DEF DyingChildren, Children
<1>4. /\ Consistent(sched) /\ sched.ipc[me].why # "BlockedOnWait4"
  BY <1>1, RunningParts
<1>5. sched' = [st |-> [sched.st EXCEPT ![c] = "Free"],
                ipc |-> [sched.ipc EXCEPT ![c] = IpcReady], rq |-> sched.rq, cur |-> sched.cur]
  BY <1>1, <1>2 DEF SchedState
<1>6. [sched.ipc EXCEPT ![c] = IpcReady] \in [Threads -> IpcState]
  BY <1>2 DEF IpcReady, On, IpcState, IpcReason
<1>7. Consistent(sched')
  BY <1>2, <1>3, <1>4, <1>5, <1>6, IdleChange
<1>8. \A t \in Threads : /\ t = c => /\ sched'.st[t] = "Free" /\ sched'.ipc[t].why = "Ready"
                                     /\ tcb'[t].parent = None
                         /\ t # c => /\ sched'.st[t] = sched.st[t] /\ tcb'[t] = tcb[t]
                                     /\ sched'.ipc[t] = sched.ipc[t]
  BY <1>1, <1>2, <1>5 DEF IpcReady, On, NoTcb
<1>9. \A t \in Threads : Exists(t)' <=> Exists(t) /\ t # c
  BY <1>8 DEF Exists
<1>10. IdsInv'
  BY <1>1, <1>8, <1>9 DEF ProcInv, IdsInv
<1>11. FamilyInv'
  <2>1. \A t, u \in Threads : tcb[t].parent # u => tcb'[t].parent # u
    BY <1>8, NoneAssumption
  <2> QED BY <2>1 DEF ProcInv, FamilyInv
<1>12. BlockedInv'
  BY <1>8 DEF ProcInv, BlockedInv
<1>13. WaiterHasLiveChild'
  <2> SUFFICES ASSUME NEW w \in Threads, sched'.ipc[w].why = "BlockedOnWait4"
               PROVE  Children(w)' # {} /\ DyingChildren(w)' = {}
    BY DEF WaiterHasLiveChild
  <2>1. w # c /\ sched.ipc[w].why = "BlockedOnWait4" /\ w # me
    BY <1>4, <1>8
  <2>2. c \notin Children(w) /\ \A d \in Children(w) : d \in Threads
    BY <1>3, <2>1 DEF Children
  <2>3. Children(w)' = Children(w)
    BY <1>3, <1>8, <1>9, <2>1, NoneAssumption DEF Children
  <2>4. DyingChildren(w)' = DyingChildren(w)
    BY <1>8, <2>2, <2>3 DEF DyingChildren
  <2> QED BY <2>1, <2>3, <2>4 DEF ProcInv, WaiterHasLiveChild
<1> QED
  BY <1>1, <1>7, <1>10, <1>11, <1>12, <1>13
  DEF ProcInv, SchedulerConsistent, StopsOnlyForSleepers

LEMMA WaitProc ==
  ASSUME TypeOK, ProcInv, WaitForChild
  PROVE  ProcInv'
<1> DEFINE why == On("BlockedOnWait4", None)
<1>1. /\ halt = "no" /\ Children(me) # {} /\ DyingChildren(me) = {}
      /\ sched' = Block(sched, why) /\ UNCHANGED <<tcb, tgen>>
      /\ halt' = IF sched.rq = << >> THEN "spin" ELSE "no"
  BY DEF WaitForChild, InWait4
<1>2. /\ sched \in SchedState /\ me \in Threads /\ me = sched.cur
  BY TypeParts DEF me
<1>3. Consistent(sched) /\ sched.st[me] = "Running"
  BY <1>1, RunningParts
<1>4. why \in IpcState /\ why.why = "BlockedOnWait4"
  BY DEF On, IpcState, IpcReason
<1> HIDE DEF why
<1>5. /\ sched.rq # << >> => Consistent(sched')
      /\ \A t \in Threads :
           /\ sched'.ipc[t] = IF t = me THEN why ELSE sched.ipc[t]
           /\ t = me => sched'.st[t] = "Blocked"
           /\ t # me => IF sched.st[t] = "Ready" THEN sched'.st[t] \in {"Ready", "Running"}
                                                 ELSE sched'.st[t] = sched.st[t]
  BY <1>1, <1>2, <1>3, <1>4, BlockMoves
<1>6. \A t \in Threads : Exists(t)' <=> Exists(t)
  BY <1>3, <1>5 DEF Exists
<1>7. IdsInv' /\ FamilyInv'
  BY <1>1, <1>6 DEF ProcInv, IdsInv, FamilyInv
<1>8. BlockedInv'
  BY <1>4, <1>5 DEF ProcInv, BlockedInv
<1>9. \A t \in Threads : Children(t)' = Children(t) /\ DyingChildren(t)' = DyingChildren(t)
  <2>1. \A t \in Threads : sched'.st[t] = "Dying" <=> sched.st[t] = "Dying"
    BY <1>3, <1>5
  <2>2. \A t \in Threads : Children(t)' = Children(t)
    BY <1>1, <1>6 DEF Children
  <2> QED BY <2>1, <2>2 DEF DyingChildren, Children
<1>10. WaiterHasLiveChild'
  BY <1>1, <1>5, <1>9 DEF ProcInv, WaiterHasLiveChild
<1>11. StopsOnlyForSleepers'
  <2>1. CASE sched.rq # << >>
    BY <1>1, <2>1 DEF StopsOnlyForSleepers
  <2>2. CASE sched.rq = << >>
    <3>1. \A t \in Threads : t # me => sched.st[t] \in {"Free", "Dying", "Blocked"}
      BY <1>1, <2>2, DryQueue
    <3>2. \A t \in Threads : Exists(t)' => sched'.st[t] \in {"Dying", "Blocked"}
      BY <1>5, <3>1 DEF Exists
    <3> QED BY <1>7, <1>10, <3>2, AllAsleep
  <2> QED BY <2>1, <2>2
<1> QED
  BY <1>1, <1>5, <1>7, <1>8, <1>10, <1>11 DEF ProcInv, SchedulerConsistent

(* The process part of a step that leaves the scheduler alone.             *)
LEMMA QuietProc ==
  ASSUME ProcInv, sched' = sched, tgen' = tgen,
         \A t \in Threads : tcb'[t].parent = tcb[t].parent,
         halt' = halt \/ halt' \in {"panic", "tracking"}
  PROVE  ProcInv'
<1>1. IdsInv' /\ FamilyInv' /\ WaiterHasLiveChild'
  BY SameFamily DEF ProcInv
<1>2. SchedulerConsistent' /\ BlockedInv'
  BY DEF ProcInv, SchedulerConsistent, BlockedInv
<1>3. Waiters' = Waiters /\ \A t \in Threads : Children(t)' = Children(t)
  BY DEF Waiters, Children, Exists
<1>4. StopsOnlyForSleepers'
  <2> SUFFICES ASSUME halt' \in {"idle", "spin"}
               PROVE  /\ \A t \in Threads : Exists(t)' => sched'.st[t] \in {"Dying", "Blocked"}
                      /\ \A T \in SUBSET Waiters' : T # {} =>
                           \E t \in T : \E c \in Children(t)' \ T : sched'.st[c] = "Blocked"
    BY DEF StopsOnlyForSleepers
  <2>1. halt \in {"idle", "spin"}
    OBVIOUS
  <2>2. \A t \in Waiters : t \in Threads
    BY DEF Waiters
  <2> QED BY <1>3, <2>1, <2>2 DEF ProcInv, StopsOnlyForSleepers, Exists
<1> QED BY <1>1, <1>2, <1>4 DEF ProcInv

LEMMA NextProc ==
  ASSUME TypeOK, ProcInv, [Next]_vars
  PROVE  ProcInv'
<1>0. me \in Threads /\ tcb \in [Threads -> Tcb] /\ tcb[me].as \in Spaces \cup {None}
      /\ sched \in SchedState
  BY TypeParts
<1>a. ASSUME NEW alloc, NEW freed, Track(alloc, freed) PROVE halt' = halt \/ halt' = "tracking"
  BY <1>a DEF Track
<1>b. ASSUME halt = "no", NEW t \in Threads, NewThread(t), NEW parent \in {None, me},
             NEW as \in Spaces \cup {None}, NEW linux \in BOOLEAN,
             Create(t, parent, as, linux), halt' = halt \/ halt' = "tracking"
      PROVE  ProcInv'
  <2>1. /\ Consistent(sched') /\ IdsInv' /\ FamilyInv' /\ BlockedInv' /\ WaiterHasLiveChild'
    BY <1>b, BornProc
  <2> QED BY <1>b, <2>1 DEF ProcInv, SchedulerConsistent, StopsOnlyForSleepers
<1>1. ASSUME NEW t \in Threads, CreateThread(t) PROVE ProcInv'
  BY <1>1, <1>a, <1>b DEF CreateThread, InUser
<1>2. ASSUME NEW t \in Threads, NEW a \in Spaces, Spawn(t, a) PROVE ProcInv'
  BY <1>2, <1>a, <1>b DEF Spawn, InUser
<1>3. ASSUME NEW t \in Threads, NEW a \in Spaces, Clone(t, a) PROVE ProcInv'
  BY <1>3, <1>a, <1>b DEF Clone, InUser
<1>4. ASSUME NEW a \in Spaces, SpawnFull(a) \/ CloneFull(a) PROVE ProcInv'
  BY <1>4, <1>a, QuietProc DEF SpawnFull, CloneFull
<1>5. ASSUME NEW a \in Spaces, Exec(a) PROVE ProcInv'
  <2>1. /\ sched' = sched /\ tgen' = tgen /\ halt' \in {halt, "tracking"}
        /\ tcb' = [tcb EXCEPT ![me].as = a, ![me].linux = FALSE]
    BY <1>5, <1>a DEF Exec
  <2>2. \A t \in Threads : tcb'[t].parent = tcb[t].parent
    BY <1>0, <2>1 DEF Tcb
  <2> QED BY <2>1, <2>2, QuietProc
<1>6. ASSUME RegisterHandler PROVE ProcInv'
  <2>1. \A t \in Threads : tcb'[t].parent = tcb[t].parent
    BY <1>0, <1>6 DEF Tcb, RegisterHandler
  <2> QED BY <1>6, <2>1, QuietProc DEF RegisterHandler
<1>7. ASSUME NEW p \in ArgPages, NEW el0 \in BOOLEAN, MapPage(p, el0) \/ Mprotect(p, el0)
      PROVE  ProcInv'
  BY <1>7, <1>a, QuietProc DEF MapPage, Mprotect
<1>8. ASSUME NEW p \in ArgPages, UnmapPage(p) \/ AssertMapped(p) PROVE ProcInv'
  BY <1>8, <1>a, QuietProc DEF UnmapPage, AssertMapped
<1>9. ASSUME ExecFirst \/ OutOfMemory \/ NoChild PROVE ProcInv'
  BY <1>9, QuietProc DEF ExecFirst, OutOfMemory, NoChild
<1>10. ASSUME Yield PROVE ProcInv'
  <2>1. halt = "no" /\ sched' = Schedule(sched) /\ UNCHANGED <<tcb, tgen, halt>>
    BY <1>10 DEF Yield, InUser
  <2>2. Consistent(sched) /\ Len(sched.rq) <= ReadyCap
    BY <2>1, RunningParts
  <2>3. Consistent(sched') /\ sched'.ipc = sched.ipc
    BY <1>0, <2>1, <2>2, ScheduleConsistent
  <2>4. \A t \in Threads :
          IF sched.st[t] \in {"Ready", "Running"} THEN sched'.st[t] \in {"Ready", "Running"}
                                                  ELSE sched'.st[t] = sched.st[t]
    BY <1>0, <2>1, <2>2, ScheduleKeeps
  <2>5. IdsInv' /\ FamilyInv' /\ WaiterHasLiveChild'
    BY <2>1, <2>3, <2>4, SameFamily DEF ProcInv
  <2>6. BlockedInv'
    BY <2>3, <2>4 DEF ProcInv, BlockedInv
  <2> QED BY <2>1, <2>3, <2>5, <2>6 DEF ProcInv, SchedulerConsistent, StopsOnlyForSleepers
<1>12. ASSUME IpcNext PROVE ProcInv'
  <2>1. /\ halt = "no" /\ UNCHANGED <<tcb, tgen>>
        /\ (halt' = "no" /\ Consistent(sched')) \/ halt' = "stray"
        /\ \A t \in Threads :
             /\ sched'.st[t] = "Free" <=> sched.st[t] = "Free"
             /\ sched'.st[t] = "Dying" <=> sched.st[t] = "Dying"
             /\ sched'.ipc[t].why = "BlockedOnWait4" => sched.ipc[t].why = "BlockedOnWait4"
             /\ sched'.ipc[t].why \in {"BlockedOnWait4", "BlockedOnReceive"}
                  <=> sched'.st[t] = "Blocked"
    BY <1>12, IpcMoves
  <2>2. IdsInv' /\ FamilyInv' /\ WaiterHasLiveChild'
    BY <2>1, SameFamily DEF ProcInv
  <2>3. BlockedInv'
    BY <2>1 DEF BlockedInv
  <2> QED BY <2>1, <2>2, <2>3 DEF ProcInv, SchedulerConsistent, StopsOnlyForSleepers
<1>11. ASSUME Halted \/ UNCHANGED vars PROVE ProcInv'
  BY <1>11, QuietProc DEF Halted, vars
<1> QED
  BY <1>1, <1>2, <1>3, <1>4, <1>5, <1>6, <1>7, <1>8, <1>9, <1>10, <1>11, <1>12,
     ExitProc, ReapProc, WaitProc DEF Next, IpcNext

-----------------------------------------------------------------------------
(* Who owns which address space.                                           *)

(* A step after which the same address spaces are registered, for the same *)
(* threads.                                                                *)
LEMMA SameOwner ==
  ASSUME OneOwner, \A t \in Threads : tcb'[t].as = tcb[t].as,
         \A a \in Spaces : vm'[a] # None <=> vm[a] # None,
         \A t \in Threads : tcb[t].as \in Spaces \cup {None}
  PROVE  OneOwner'
BY DEF OneOwner, Registered

(* A newborn with the new address space a, or with none.                   *)
LEMMA BornOwner ==
  ASSUME TypeOK, ProcInv, OneOwner, NEW t \in Threads, NewThread(t),
         NEW parent, NEW as, NEW linux, Create(t, parent, as, linux),
         \/ as = None /\ vm' = vm
         \/ /\ as \in Spaces /\ NewSpace(as)
            /\ \E pt \in PageTable : vm' = [vm EXCEPT ![as] = pt]
  PROVE  OneOwner'
<1>1. tcb \in [Threads -> Tcb] /\ vm \in [Spaces -> PageTable \cup {None}]
  BY TypeParts
<1>2. ~Exists(t) /\ tcb[t].as = None
  BY NewbornFresh DEF ProcInv, TypeOK, NoTcb
<1>3. \A u \in Threads : /\ u = t => tcb'[u].as = as
                         /\ u # t => tcb'[u].as = tcb[u].as
                         /\ tcb[u].as \in Spaces \cup {None}
  BY <1>1 DEF Create, Tcb
<1>4. CASE as = None /\ vm' = vm
  BY <1>2, <1>3, <1>4, SameOwner
<1>5. CASE /\ as \in Spaces /\ NewSpace(as)
           /\ \E pt \in PageTable : vm' = [vm EXCEPT ![as] = pt]
  <2>1. vm[as] = None /\ as # None
    BY <1>5, IdsAssumption DEF NewSpace, Registered
  <2>2. \A b \in Spaces : vm'[b] # None <=> vm[b] # None \/ b = as
    BY <1>1, <1>5, NoneIsNothingAssumption
  <2>3. \A u \in Threads : tcb[u].as # as
    BY <1>3, <2>1 DEF OneOwner, Registered
  <2>4. \A u \in Threads : tcb'[u].as # None => vm'[tcb'[u].as] # None
    BY <1>3, <1>5, <2>2 DEF OneOwner, Registered
  <2>5. \A b \in Spaces : vm'[b] # None => \E u \in Threads : tcb'[u].as = b
    <3> SUFFICES ASSUME NEW b \in Spaces, vm'[b] # None
                 PROVE  \E u \in Threads : tcb'[u].as = b
      OBVIOUS
    <3>1. CASE b = as
      BY <1>3, <3>1
    <3>2. CASE b # as
      <4>1. vm[b] # None /\ b # None
        BY <2>2, <3>2, IdsAssumption
      <4>2. PICK u \in Threads : tcb[u].as = b
        BY <4>1 DEF OneOwner, Registered
      <4>3. u # t
        BY <1>2, <4>1, <4>2
      <4> QED BY <1>3, <4>2, <4>3
    <3> QED BY <3>1, <3>2
  <2>6. \A u, v \in Threads : tcb'[u].as # None /\ tcb'[u].as = tcb'[v].as => u = v
    <3> SUFFICES ASSUME NEW u \in Threads, NEW v \in Threads,
                        tcb'[u].as # None, tcb'[u].as = tcb'[v].as
                 PROVE  u = v
      OBVIOUS
    <3>1. CASE u # t /\ v # t
      <4>1. tcb[u].as # None /\ tcb[u].as = tcb[v].as
        BY <1>3, <3>1
      <4> QED BY <4>1 DEF OneOwner
    <3>2. CASE u = t \/ v = t
      BY <1>3, <2>3, <3>2
    <3> QED BY <3>1, <3>2
  <2> QED BY <2>4, <2>5, <2>6 DEF OneOwner, Registered
<1> QED BY <1>4, <1>5

LEMMA NextOwner ==
  ASSUME TypeOK, ProcInv, OneOwner, [Next]_vars
  PROVE  OneOwner'
<1>0. /\ me \in Threads /\ tcb \in [Threads -> Tcb] /\ tcb[me].as \in Spaces \cup {None}
      /\ vm \in [Spaces -> PageTable \cup {None}]
      /\ \A t \in Threads : tcb[t].as \in Spaces \cup {None}
  BY TypeParts DEF Tcb
<1>1. ASSUME NEW t \in Threads, CreateThread(t) PROVE OneOwner'
  BY <1>1, BornOwner DEF CreateThread
<1>2. ASSUME NEW t \in Threads, NEW a \in Spaces, Spawn(t, a) PROVE OneOwner'
  <2>1. Fresh(a, ProgPages) \in PageTable
    BY FreshTyped DEF Pages
  <2> QED BY <1>2, <2>1, BornOwner DEF Spawn, Register
<1>3. ASSUME NEW t \in Threads, NEW a \in Spaces, Clone(t, a) PROVE OneOwner'
  <2>1. Forked(a, vm[tcb[me].as]) \in PageTable
    <3>1. UserPages(vm[tcb[me].as]) \in SUBSET Pages
      BY DEF UserPages
    <3> QED BY <3>1, FreshTyped DEF Forked
  <2> QED BY <1>3, <2>1, BornOwner DEF Clone, Register
<1>4. ASSUME NEW a \in Spaces, SpawnFull(a) \/ CloneFull(a) PROVE OneOwner'
  BY <1>0, <1>4, SameOwner DEF SpawnFull, CloneFull
<1>5. ASSUME NEW a \in Spaces, Exec(a) PROVE OneOwner'
  <2> DEFINE old == tcb[me].as
             pt  == Execed(a, old)
  <2>1. pt \in PageTable
    <3> DEFINE new == ProgPages \cup (IF old = None THEN {}
                                      ELSE UserPages(vm[old]) \cap LibPages)
    <3>1. new \in SUBSET Pages
      BY DEF Pages
    <3>2. pt = Fresh(a, new)
      BY DEF Execed
    <3> QED BY <3>1, <3>2, FreshTyped
  <2>2. /\ tcb' = [tcb EXCEPT ![me].as = a, ![me].linux = FALSE]
        /\ vm' = [b \in Spaces |-> IF b = a THEN pt ELSE IF b = old THEN None ELSE vm[b]]
        /\ NewSpace(a)
    BY <1>5 DEF Exec
  <2>3. vm[a] = None /\ a # None
    BY <2>2, IdsAssumption DEF NewSpace, Registered
  <2>4. pt # None
    BY <2>1, NoneIsNothingAssumption
  <2>5. \A t \in Threads : /\ t = me => tcb'[t].as = a
                           /\ t # me => tcb'[t].as = tcb[t].as
    BY <1>0, <2>2 DEF Tcb
  <2>6. \A t \in Threads : tcb[t].as # a
    BY <1>0, <2>3 DEF OneOwner, Registered
  <2> HIDE DEF pt
  <2>7. \A b \in Spaces : vm'[b] # None <=> b = a \/ (vm[b] # None /\ b # old)
    BY <2>2, <2>3, <2>4
  <2> HIDE DEF old
  <2>8. \A t \in Threads : tcb[t].as # None /\ t # me => tcb[t].as # old
    BY <1>0 DEF OneOwner, old
  <2>9. \A b \in Spaces : vm[b] # None /\ b # old => \E t \in Threads : t # me /\ tcb[t].as = b
    BY <1>0 DEF OneOwner, Registered, old
  <2>10. \A t \in Threads : tcb'[t].as # None => vm'[tcb'[t].as] # None
    BY <1>0, <2>3, <2>5, <2>6, <2>7, <2>8 DEF OneOwner, Registered
  <2>11. \A b \in Spaces : vm'[b] # None => \E t \in Threads : tcb'[t].as = b
    BY <1>0, <2>5, <2>7, <2>9
  <2>12. \A t, u \in Threads : tcb'[t].as # None /\ tcb'[t].as = tcb'[u].as => t = u
    BY <2>5, <2>6 DEF OneOwner
  <2> QED BY <2>10, <2>11, <2>12 DEF OneOwner, Registered
<1>6. ASSUME RegisterHandler PROVE OneOwner'
  <2>1. \A t \in Threads : tcb'[t].as = tcb[t].as
    BY <1>0, <1>6 DEF Tcb, RegisterHandler
  <2> QED BY <1>0, <1>6, <2>1, SameOwner DEF RegisterHandler
<1>7. ASSUME NEW p \in ArgPages, NEW el0 \in BOOLEAN,
             MapPage(p, el0) \/ Mprotect(p, el0) \/ UnmapPage(p)
      PROVE  OneOwner'
  <2>1. tcb[me].as \in Spaces /\ vm[tcb[me].as] # None /\ tcb' = tcb
    BY <1>7, PageCallTyped DEF Registered
  <2>2. PICK pt \in PageTable : vm' = [vm EXCEPT ![tcb[me].as] = pt]
    BY <1>7, PageCallTyped
  <2>3. \A a \in Spaces : vm'[a] # None <=> vm[a] # None
    BY <1>0, <2>1, <2>2, NoneIsNothingAssumption
  <2> QED BY <1>0, <2>1, <2>3, SameOwner
<1>8. ASSUME ExecFirst \/ OutOfMemory \/ NoChild \/ Yield \/ Exit \/ WaitForChild
             \/ Halted \/ UNCHANGED vars \/ IpcNext
             \/ \E p \in ArgPages : AssertMapped(p)
      PROVE  OneOwner'
  <2>1. tcb' = tcb /\ vm' = vm
    BY <1>8 DEF ExecFirst, OutOfMemory, NoChild, Yield, Exit, WaitForChild, Halted, vars,
                AssertMapped, IpcNext, Ipc, Serve, IpcStep, Tick
  <2> QED BY <1>0, <2>1, SameOwner
<1>9. ASSUME NEW c \in Threads, Reap(c) PROVE OneOwner'
  <2>1. /\ tcb' = [tcb EXCEPT ![c] = NoTcb]
        /\ vm' = [b \in Spaces |-> IF b = tcb[c].as THEN None ELSE vm[b]]
    BY <1>9 DEF Reap
  <2>2. \A t \in Threads : /\ t = c => tcb'[t].as = None
                           /\ t # c => tcb'[t].as = tcb[t].as
    BY <1>0, <2>1 DEF NoTcb
  <2>3. \A b \in Spaces : vm'[b] # None <=> vm[b] # None /\ b # tcb[c].as
    BY <2>1
  <2>4. \A t \in Threads : tcb'[t].as # None => vm'[tcb'[t].as] # None
    BY <1>0, <2>2, <2>3 DEF OneOwner, Registered
  <2>5. \A b \in Spaces : vm'[b] # None => \E t \in Threads : tcb'[t].as = b
    BY <2>2, <2>3 DEF OneOwner, Registered
  <2>6. \A t, u \in Threads : tcb'[t].as # None /\ tcb'[t].as = tcb'[u].as => t = u
    BY <2>2 DEF OneOwner
  <2> QED BY <2>4, <2>5, <2>6 DEF OneOwner, Registered
<1> QED
  BY <1>1, <1>2, <1>3, <1>4, <1>5, <1>6, <1>7, <1>8, <1>9 DEF Next, IpcNext

-----------------------------------------------------------------------------
(* Where the kernel starts.                                                *)
LEMMA InitProc == Init => ProcInv /\ OneOwner
<1> SUFFICES ASSUME Init PROVE ProcInv /\ OneOwner
  OBVIOUS
<1>1. /\ Bash \in Threads /\ FirstSpace \in Spaces /\ Bash.i = 1 /\ Bash.g = 1
      /\ Boot \in Threads /\ Boot.i = 0 /\ Boot.g = 1 /\ Boot # Bash
      /\ None \notin Threads /\ None \notin Spaces
  BY IdsAssumption, NoneAssumption DEF Bash, Boot, FirstSpace
<1>2. /\ \A t \in Threads : sched.st[t] = IF t = Bash THEN "Running"
                                          ELSE IF t = Boot THEN "Blocked" ELSE "Free"
      /\ \A t \in Threads : sched.ipc[t] = IF t = Boot THEN InIpc ELSE IpcReady
      /\ sched.rq = << >> /\ sched.cur = Bash /\ halt = "no"
      /\ tgen[0] = 1 /\ tgen[1] = 1
  BY <1>1 DEF Init, ThreadSlots
<1>3. \A t \in Threads : /\ tcb[t].parent = None
                         /\ tcb[t].as = IF t = Bash THEN FirstSpace ELSE None
  BY <1>1 DEF Init, NoTcb
<1>4. \A a \in Spaces : vm[a] # None <=> a = FirstSpace
  <2>1. FirstTable \in PageTable
    BY <1>1, FreshTyped DEF FirstTable, Pages
  <2>2. \A a \in Spaces : vm[a] = IF a = FirstSpace THEN FirstTable ELSE None
    BY DEF Init
  <2> HIDE DEF FirstTable
  <2> QED BY <2>1, <2>2, NoneIsNothingAssumption
<1>5. IdsInv
  BY <1>1, <1>2, <1>3 DEF IdsInv, Exists
<1>6. FamilyInv
  BY <1>1, <1>3 DEF FamilyInv
<1>7. BlockedInv /\ WaiterHasLiveChild
  BY <1>1, <1>2 DEF BlockedInv, WaiterHasLiveChild, IpcReady, InIpc, On
<1>8. SchedulerConsistent
  BY <1>1, <1>2 DEF SchedulerConsistent, Consistent, QueueHoldsReady, ReadyIsQueued, QueuedOnce,
                   OneRunning, Queued
<1>9. StopsOnlyForSleepers
  BY <1>2 DEF StopsOnlyForSleepers
<1>10. OneOwner
  BY <1>1, <1>3, <1>4 DEF OneOwner, Registered
<1> QED BY <1>5, <1>6, <1>7, <1>8, <1>9, <1>10 DEF ProcInv

(* No step of the kernel leaves the types, the process invariant or the    *)
(* one-owner rule of address spaces.                                       *)
THEOREM LifeInvHolds == Spec => [](TypeOK /\ ProcInv /\ OneOwner)
<1>1. Init => TypeOK /\ ProcInv /\ OneOwner
  BY InitType, InitProc
<1>2. TypeOK /\ ProcInv /\ OneOwner /\ [Next]_vars => (TypeOK /\ ProcInv /\ OneOwner)'
  <2> SUFFICES ASSUME TypeOK, ProcInv, OneOwner, [Next]_vars
               PROVE  TypeOK' /\ ProcInv' /\ OneOwner'
    OBVIOUS
  <2>1. TypeOK'
    BY NextType DEF ProcInv
  <2>2. ProcInv'
    BY NextProc
  <2>3. OneOwner'
    BY NextOwner
  <2> QED BY <2>1, <2>2, <2>3
<1> QED BY <1>1, <1>2, PTL DEF Spec

(* The thread and address-space tables, page tables and the bitmap stay    *)
(* well typed, and an empty thread slot holds no TCB.                      *)
THEOREM TablesTyped == Spec => []TypeOK
BY LifeInvHolds, PTL

(* create_thread, spawn, clone, wait4, exit_thread, yield, ticks and IPC,  *)
(* as far as it puts threads to sleep and wakes them, keep the ready queue *)
(* exactly the Ready threads as long as the kernel runs.                   *)
THEOREM SchedulerStaysConsistent == Spec => []SchedulerConsistent
<1>1. ProcInv => SchedulerConsistent
  BY DEF ProcInv
<1> QED BY <1>1, LifeInvHolds, PTL

(* wait4 misses no exit: a blocked parent has a child still to exit.       *)
THEOREM ExitNeverMissed == Spec => []WaiterHasLiveChild
<1>1. ProcInv => WaiterHasLiveChild
  BY DEF ProcInv
<1> QED BY <1>1, LifeInvHolds, PTL

(* The final wfi loop of exit_thread, and a wait4 that finds nobody to run *)
(* and loops for ever, are never the fault of wait4 alone: the waiting     *)
(* parents' live children lead to a thread asleep in IPC.                  *)
THEOREM StopsOnlyForIpc == Spec => []StopsOnlyForSleepers
<1>1. ProcInv => StopsOnlyForSleepers
  BY DEF ProcInv
<1> QED BY <1>1, LifeInvHolds, PTL

(* Registered address spaces and their threads correspond one to one.      *)
THEOREM SpacesHaveOneOwner == Spec => []OneOwner
BY LifeInvHolds, PTL

-----------------------------------------------------------------------------
(* The steps that do not go through create_thread give no slot away.       *)
LEMMA SwitchMoves ==
  ASSUME TypeOK, ProcInv, WaitForChild \/ Yield \/ IpcNext
  PROVE  /\ UNCHANGED <<tcb, tgen>>
         /\ \A t \in Threads : /\ sched'.st[t] = "Free" <=> sched.st[t] = "Free"
                               /\ sched'.st[t] = "Dying" <=> sched.st[t] = "Dying"
<1>1. CASE IpcNext
  BY <1>1, IpcMoves
<1>2. CASE WaitForChild \/ Yield
  <2>1. /\ halt = "no" /\ UNCHANGED <<tcb, tgen>>
    BY <1>2 DEF WaitForChild, Yield, InUser, InWait4
  <2>2. sched \in SchedState /\ me \in Threads /\ me = sched.cur
    BY TypeParts DEF me
  <2>3. Consistent(sched) /\ sched.st[me] = "Running"
    BY <2>1, RunningParts
  <2>4. CASE Yield
    <3>1. \A t \in Threads :
            IF sched.st[t] \in {"Ready", "Running"} THEN sched'.st[t] \in {"Ready", "Running"}
                                                    ELSE sched'.st[t] = sched.st[t]
      BY <2>2, <2>3, <2>4, ScheduleKeeps DEF Yield
    <3> QED BY <2>1, <3>1
  <2>5. CASE WaitForChild
    <3>1. On("BlockedOnWait4", None) \in IpcState
      BY DEF On, IpcState, IpcReason
    <3>2. \A t \in Threads :
            /\ t = me => sched'.st[t] = "Blocked"
            /\ t # me => IF sched.st[t] = "Ready" THEN sched'.st[t] \in {"Ready", "Running"}
                                                  ELSE sched'.st[t] = sched.st[t]
      BY <2>2, <2>3, <2>5, <3>1, BlockMoves DEF WaitForChild
    <3> QED BY <2>1, <2>3, <3>2
  <2> QED BY <1>2, <2>4, <2>5
<1> QED BY <1>1, <1>2

LEMMA NoBirth ==
  ASSUME TypeOK, ProcInv,
         Exit \/ WaitForChild \/ Yield \/ IpcNext \/ \E c \in Threads : Reap(c)
  PROVE  \A t \in Threads : ~Exists(t) => ~Exists(t)'
<1>1. CASE WaitForChild \/ Yield \/ IpcNext
  BY <1>1, SwitchMoves DEF Exists
<1>2. CASE Exit
  <2> DEFINE woken == {p \in Threads : p = tcb[me].parent /\ sched.ipc[p].why = "BlockedOnWait4"}
  <2>1. \A t \in Threads :
          /\ t = me => sched'.st[t] = "Dying"
          /\ t # me => IF sched.st[t] = "Ready" \/ t \in woken
                       THEN sched'.st[t] \in {"Ready", "Running"}
                       ELSE sched'.st[t] = sched.st[t]
    BY <1>2, ExitMoves
  <2>2. /\ \A t \in woken : sched.st[t] = "Blocked"
        /\ sched.st[me] = "Running"
    BY <1>2, RunningParts DEF ProcInv, BlockedInv, Exit, InUser
  <2> QED BY <2>1, <2>2 DEF Exists
<1>3. CASE \E c \in Threads : Reap(c)
  <2> PICK c \in Threads : Reap(c)
    BY <1>3
  <2>1. /\ sched' = [sched EXCEPT !.st[c] = "Free", !.ipc[c] = IpcReady]
        /\ sched \in SchedState
    BY TypeParts DEF Reap
  <2>2. sched'.st = [sched.st EXCEPT ![c] = "Free"] /\ sched.st \in [Threads -> ThreadState]
    BY <2>1 DEF SchedState
  <2> QED BY <2>2 DEF Exists
<1> QED BY <1>1, <1>2, <1>3

(* wait4 reaps only the caller's own children: a ThreadId that a TCB names *)
(* as its parent is never given to a new thread.                           *)
THEOREM IdsNeverReused == Spec => NewbornHasNoChildren
<1> DEFINE A == \A t \in Threads : ~Exists(t) /\ Exists(t)'
                   => \A c \in Threads : tcb[c].parent # t
<1>1. TypeOK /\ ProcInv /\ [Next]_vars => [A]_sched
  <2> SUFFICES ASSUME TypeOK, ProcInv, Next, NEW t \in Threads, ~Exists(t), Exists(t)'
               PROVE  \A c \in Threads : tcb[c].parent # t
    BY DEF vars
  <2>1. ASSUME NEW u \in Threads, NewThread(u), NEW parent, NEW as, NEW linux,
               Create(u, parent, as, linux)
        PROVE  \A c \in Threads : tcb[c].parent # t
    <3>1. sched.st \in [Threads -> ThreadState]
      BY TypeParts DEF SchedState
    <3>2. t = u
      BY <2>1, <3>1 DEF Create, Exists
    <3> QED BY <2>1, <3>2, NewbornFresh DEF ProcInv
  <2>2. CASE \E u \in Threads : CreateThread(u)
    BY <2>1, <2>2 DEF CreateThread
  <2>3. CASE \E u \in Threads, a \in Spaces : Spawn(u, a) \/ Clone(u, a)
    BY <2>1, <2>3 DEF Spawn, Clone
  <2>4. CASE Exit \/ WaitForChild \/ Yield \/ IpcNext \/ \E c \in Threads : Reap(c)
    BY <2>4, NoBirth
  <2>5. CASE sched' = sched
    BY <2>5 DEF Exists
  <2> QED
    BY <2>2, <2>3, <2>4, <2>5
    DEF Next, IpcNext, SpawnFull, CloneFull, Exec, MapPage, Mprotect, UnmapPage, AssertMapped,
        RegisterHandler, ExecFirst, OutOfMemory, NoChild, Halted, vars
<1> QED BY <1>1, LifeInvHolds, PTL DEF Spec, NewbornHasNoChildren

-----------------------------------------------------------------------------
(* Every thread lives once (ProcessTree).                                  *)
LifeOf(s, gen, t) ==
  IF s.st[t] # "Free" THEN IF s.st[t] = "Dying" THEN "zombie" ELSE "alive"
  ELSE IF t.g <= gen[t.i] THEN "gone" ELSE "unborn"

LEMMA TreeAsFunctions ==
  /\ Life = [t \in Threads |-> LifeOf(sched, tgen, t)]
  /\ Life' = [t \in Threads |-> LifeOf(sched', tgen', t)]
  /\ ParentOf = [t \in Threads |-> tcb[t].parent]
  /\ ParentOf' = [t \in Threads |-> tcb'[t].parent]
<1>1. Life = [t \in Threads |-> LifeOf(sched, tgen, t)]
  BY Zenon DEF Life, LifeOf, Exists
<1>2. Life' = [t \in Threads |-> LifeOf(sched', tgen', t)]
  BY Zenon DEF Life, LifeOf, Exists
<1>3. ParentOf = [t \in Threads |-> tcb[t].parent]
  BY Zenon DEF ParentOf
<1>4. ParentOf' = [t \in Threads |-> tcb'[t].parent]
  BY Zenon DEF ParentOf
<1> QED BY <1>1, <1>2, <1>3, <1>4

(* A step in which nobody is born, exits or is collected.                  *)
LEMMA TreeStutters ==
  ASSUME tgen' = tgen,
         \A t \in Threads :
           /\ sched'.st[t] = "Free" <=> sched.st[t] = "Free"
           /\ sched'.st[t] = "Dying" <=> sched.st[t] = "Dying"
           /\ tcb'[t].parent = tcb[t].parent
  PROVE  UNCHANGED Tree!treeVars
<1>1. \A t \in Threads : LifeOf(sched', tgen', t) = LifeOf(sched, tgen, t)
  BY DEF LifeOf
<1> QED BY <1>1, TreeAsFunctions DEF Tree!treeVars

LEMMA BornTree ==
  ASSUME TypeOK, ProcInv, halt = "no", NEW t \in Threads, NewThread(t),
         NEW parent \in {None, me}, NEW as, NEW linux, Create(t, parent, as, linux)
  PROVE  Tree!Next
<1>1. /\ sched.st \in [Threads -> ThreadState] /\ me \in Threads /\ tcb \in [Threads -> Tcb]
      /\ tgen \in [ThreadSlots -> Nat]
  BY TypeParts
<1>2. /\ ~Exists(t) /\ \A u \in Threads : Exists(u) => u.i # t.i
      /\ t.g = tgen[t.i] + 1 /\ tgen[t.i] \in Nat /\ t.i \in ThreadSlots
  BY NewbornFresh DEF ProcInv
<1>3. sched.st[me] = "Running"
  BY RunningParts
<1>4. \A u \in Threads : /\ sched'.st[u] = IF u = t THEN "Ready" ELSE sched.st[u]
                         /\ tcb'[u].parent = IF u = t THEN parent ELSE tcb[u].parent
                         /\ tgen'[u.i] = IF u.i = t.i THEN t.g ELSE tgen[u.i]
  BY <1>1 DEF Create, ThreadSlots
<1>5. LifeOf(sched, tgen, t) = "unborn" /\ LifeOf(sched, tgen, me) = "alive"
  BY <1>2, <1>3 DEF LifeOf, Exists
<1>6. ASSUME NEW u \in Threads
      PROVE  LifeOf(sched', tgen', u) = IF u = t THEN "alive" ELSE LifeOf(sched, tgen, u)
  <2>1. CASE u = t
    BY <1>4, <2>1 DEF LifeOf
  <2>2. CASE u # t /\ u.i # t.i
    BY <1>4, <2>2 DEF LifeOf
  <2>3. CASE u # t /\ u.i = t.i
    <3>1. u.g # t.g /\ u.g \in Nat
      BY <2>3, IdsAssumption
    <3>2. u.g <= t.g <=> u.g <= tgen[t.i]
      BY <1>2, <3>1
    <3> QED BY <1>4, <2>3, <3>2 DEF LifeOf
  <2> QED BY <2>1, <2>2, <2>3
<1>7. Life' = [Life EXCEPT ![t] = "alive"] /\ ParentOf' = [ParentOf EXCEPT ![t] = parent]
  BY <1>4, <1>6, TreeAsFunctions
<1>8. Life[t] = "unborn" /\ Life[me] = "alive"
  BY <1>1, <1>5, TreeAsFunctions
<1>9. Tree!Birth(t, parent)
  BY <1>7, <1>8 DEF Tree!Birth
<1> QED BY <1>1, <1>9 DEF Tree!Next

LEMMA ExitTree ==
  ASSUME TypeOK, ProcInv, Exit
  PROVE  Tree!Next
<1> DEFINE woken == {p \in Threads : p = tcb[me].parent /\ sched.ipc[p].why = "BlockedOnWait4"}
<1>1. me \in Threads /\ halt = "no" /\ UNCHANGED <<tcb, tgen>>
  BY TypeParts DEF Exit, InUser
<1>2. sched.st[me] = "Running"
  BY <1>1, RunningParts
<1>3. \A t \in Threads :
        /\ t = me => sched'.st[t] = "Dying"
        /\ t # me => IF sched.st[t] = "Ready" \/ t \in woken
                     THEN sched'.st[t] \in {"Ready", "Running"}
                     ELSE sched'.st[t] = sched.st[t]
  BY ExitMoves
<1>4. \A t \in woken : sched.st[t] = "Blocked"
  BY DEF ProcInv, BlockedInv
<1> HIDE DEF woken
<1>5. \A t \in Threads :
        LifeOf(sched', tgen', t) = IF t = me THEN "zombie" ELSE LifeOf(sched, tgen, t)
  BY <1>1, <1>3, <1>4 DEF LifeOf
<1>6. Life' = [Life EXCEPT ![me] = "zombie"] /\ ParentOf' = ParentOf /\ Life[me] = "alive"
  BY <1>1, <1>2, <1>5, TreeAsFunctions DEF LifeOf
<1>7. Tree!Exit(me)
  BY <1>6 DEF Tree!Exit
<1> QED BY <1>1, <1>7 DEF Tree!Next

LEMMA ReapTree ==
  ASSUME TypeOK, ProcInv, NEW c \in Threads, Reap(c)
  PROVE  Tree!Next
<1>1. /\ halt = "no" /\ c \in DyingChildren(me) /\ tgen' = tgen
      /\ sched' = [sched EXCEPT !.st[c] = "Free", !.ipc[c] = IpcReady]
      /\ tcb' = [tcb EXCEPT ![c] = NoTcb]
  BY DEF Reap, InWait4
<1>2. /\ sched \in SchedState /\ sched.st \in [Threads -> ThreadState] /\ me \in Threads
      /\ tcb \in [Threads -> Tcb]
  BY TypeParts
<1>3. sched.st[c] = "Dying" /\ Exists(c) /\ tcb[c].parent = me
  BY <1>1 DEF DyingChildren, Children
<1>4. sched.st[me] = "Running"
  BY <1>1, RunningParts
<1>5. sched'.st = [sched.st EXCEPT ![c] = "Free"]
  BY <1>1, <1>2 DEF SchedState
<1>6. c.g <= tgen[c.i]
  BY <1>3 DEF ProcInv, IdsInv
<1>7. \A t \in Threads :
        LifeOf(sched', tgen', t) = IF t = c THEN "gone" ELSE LifeOf(sched, tgen, t)
  BY <1>1, <1>2, <1>5, <1>6 DEF LifeOf
<1>8. \A t \in Threads : tcb'[t].parent = IF t = c THEN None ELSE tcb[t].parent
  BY <1>1, <1>2 DEF NoTcb
<1>9. /\ Life' = [Life EXCEPT ![c] = "gone"] /\ ParentOf' = [ParentOf EXCEPT ![c] = None]
      /\ Life[c] = "zombie" /\ Life[me] = "alive" /\ ParentOf[c] = me
  BY <1>2, <1>3, <1>4, <1>7, <1>8, TreeAsFunctions DEF LifeOf
<1>10. Tree!Collect(c)
  BY <1>2, <1>9, NoneAssumption DEF Tree!Collect
<1> QED BY <1>2, <1>10 DEF Tree!Next

LEMMA StepTree ==
  ASSUME TypeOK, ProcInv, [Next]_vars
  PROVE  [Tree!Next]_(Tree!treeVars)
<1>1. me \in Threads /\ tcb \in [Threads -> Tcb]
  BY TypeParts
<1>2. CASE \E t \in Threads : CreateThread(t)
  BY <1>2, BornTree DEF CreateThread, InUser
<1>3. CASE \E t \in Threads, a \in Spaces : Spawn(t, a) \/ Clone(t, a)
  BY <1>3, BornTree DEF Spawn, Clone, InUser
<1>4. CASE Exit \/ \E c \in Threads : Reap(c)
  BY <1>4, ExitTree, ReapTree
<1>5. CASE WaitForChild \/ Yield \/ IpcNext
  BY <1>5, SwitchMoves, TreeStutters
<1>6. CASE \E a \in Spaces : Exec(a)
  <2>1. PICK a \in Spaces : tcb' = [tcb EXCEPT ![me].as = a, ![me].linux = FALSE]
    BY <1>6 DEF Exec
  <2>2. \A t \in Threads : tcb'[t].parent = tcb[t].parent
    BY <1>1, <2>1 DEF Tcb
  <2> QED BY <1>6, <2>2, TreeStutters DEF Exec
<1>7. CASE RegisterHandler
  <2>1. \A t \in Threads : tcb'[t].parent = tcb[t].parent
    BY <1>1, <1>7 DEF Tcb, RegisterHandler
  <2> QED BY <1>7, <2>1, TreeStutters DEF RegisterHandler
<1>8. CASE UNCHANGED <<sched, tcb, tgen>>
  BY <1>8, TreeStutters
<1> QED
  BY <1>2, <1>3, <1>4, <1>5, <1>6, <1>7, <1>8
  DEF Next, IpcNext, SpawnFull, CloneFull, MapPage, Mprotect, UnmapPage, AssertMapped,
      ExecFirst, OutOfMemory, NoChild, Halted, vars

(* For any slots and any reuse of them: every thread is born once, exits   *)
(* at most once, and is collected at most once, by its own parent and      *)
(* after its exit (ImplementsProcessTree).                                 *)
THEOREM ThreadsLiveOnce == Spec => ImplementsProcessTree
<1>1. Init => Tree!Init
  <2> SUFFICES ASSUME Init PROVE Tree!Init
    OBVIOUS
  <2>1. \A t \in Threads : LifeOf(sched, tgen, t) = IF t \in {Boot, Bash} THEN "alive" ELSE "unborn"
    <3> SUFFICES ASSUME NEW t \in Threads
                 PROVE  LifeOf(sched, tgen, t) = IF t \in {Boot, Bash} THEN "alive" ELSE "unborn"
      OBVIOUS
    <3>1. sched.st[t] = IF t = Bash THEN "Running" ELSE IF t = Boot THEN "Blocked" ELSE "Free"
      <4>1. Boot # Bash
        BY DEF Boot, Bash
      <4> QED BY <4>1 DEF Init
    <3>2. tgen[t.i] = (IF t.i \in {0, 1} THEN 1 ELSE 0) /\ t.g \in Nat \ {0}
      BY IdsAssumption DEF Init, ThreadSlots
    <3>3. /\ t.i = 1 /\ t.g = 1 => t = Bash
          /\ t.i = 0 /\ t.g = 1 => t = Boot
      BY IdsAssumption DEF Bash, Boot
    <3>4. t \notin {Boot, Bash} => ~(t.g <= tgen[t.i])
      BY <3>2, <3>3
    <3> QED BY <3>1, <3>4 DEF LifeOf
  <2>2. \A t \in Threads : tcb[t].parent = None
    BY DEF Init, NoTcb
  <2>3. {Boot, Bash} \in SUBSET Threads
    BY IdsAssumption
  <2> QED BY <2>1, <2>2, <2>3, TreeAsFunctions DEF Tree!Init
<1>2. TypeOK /\ ProcInv /\ OneOwner /\ [Next]_vars => [Tree!Next]_(Tree!treeVars)
  BY StepTree
<1> QED BY <1>1, <1>2, LifeInvHolds, PTL DEF Spec, ImplementsProcessTree, Tree!Spec

=============================================================================
