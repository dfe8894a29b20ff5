----------------------- MODULE LifecycleMemory_proofs -----------------------
(***************************************************************************)
(* Frames: no page table or thread refers to a freed frame, no frame has   *)
(* two users, and nothing is allocated or freed twice, across clone, exec, *)
(* wait4 and the page calls, for any number of slots, generations, pages   *)
(* and calls.                                                              *)
(***************************************************************************)
EXTENDS Lifecycle_proofs

SpaceParts == Pages \cup {"root", "table"}

(* Distinct names are distinct frames.                                     *)
LEMMA FrameNames ==
  ASSUME NEW x, NEW y, NEW p, NEW q
  PROVE  /\ Frame(x, p).of = x /\ Frame(x, p).part = p
         /\ Frame(x, p) = Frame(y, q) <=> x = y /\ p = q
BY DEF Frame

LEMMA PartNames == "root" \notin Pages /\ "table" \notin Pages /\ "stack" \notin SpaceParts
                     /\ "spawn_stack" \notin SpaceParts
BY PagesAssumption DEF Pages, SpaceParts

(* Whether frames are well named for a depends on the frames of a only.    *)
LEMMA NamedLocal ==
  ASSUME NEW a, NEW pt, NEW L, NEW M, WellNamed(a, pt, L),
         \A p \in SpaceParts : Frame(a, p) \in L <=> Frame(a, p) \in M
  PROVE  WellNamed(a, pt, M)
BY DEF WellNamed, SpaceParts

(* The frames of a page table that is well named.                          *)
LEMMA NamedUses ==
  ASSUME NEW a \in Spaces, NEW pt \in PageTable, NEW L, WellNamed(a, pt, L)
  PROVE  /\ Uses(a, pt) \subseteq L
         /\ \A f \in Uses(a, pt) : \E p \in SpaceParts : f = Frame(a, p)
         /\ Drop(a, pt) \subseteq Uses(a, pt)
         /\ Drop(a, Detached(pt)) \subseteq Uses(a, pt)
<1>1. pt.map \in [Pages -> Pte \cup {None}]
  BY DEF PageTable
<1>2. \A f \in Uses(a, pt) : f \in L /\ \E p \in SpaceParts : f = Frame(a, p)
  BY <1>1 DEF Uses, WellNamed, SpaceParts
<1>3. Drop(a, pt) \subseteq Uses(a, pt)
  BY <1>1 DEF Drop, Uses, UserPages
<1>4. /\ Detached(pt).table = pt.table
      /\ \A p \in Pages : Detached(pt).map[p] = IF p \in LibPages THEN None ELSE pt.map[p]
  BY DEF Detached, PageTable
<1>5. Drop(a, Detached(pt)) \subseteq Uses(a, pt)
  BY <1>1, <1>4 DEF Drop, Uses, UserPages
<1> QED BY <1>2, <1>3, <1>5

(* A page table made by the owning handle: what it uses is what is         *)
(* allocated for it.                                                       *)
LEMMA FreshUses ==
  ASSUME NEW a \in Spaces, NEW new \in SUBSET Pages
  PROVE  \A f : f \in Uses(a, Fresh(a, new)) <=>
           \E p \in SpaceParts :
              /\ f = Frame(a, p)
              /\ p = "root" \/ p \in new \/ (p = "table" /\ new \cap HeapPages # {})
<1> DEFINE pt == Fresh(a, new)
<1>1. /\ \A p \in Pages : pt.map[p] = IF p \in new THEN [frame |-> Frame(a, p), el0 |-> TRUE]
                                                   ELSE None
      /\ pt.table = IF new \cap HeapPages = {} THEN "none" ELSE "tracked"
  BY DEF Fresh
<1>2. \A p \in Pages : [frame |-> Frame(a, p), el0 |-> TRUE] # None
  <2> SUFFICES ASSUME NEW p \in Pages PROVE [frame |-> Frame(a, p), el0 |-> TRUE] # None
    OBVIOUS
  <2>1. [frame |-> Frame(a, p), el0 |-> TRUE] \in Pte
    BY FrameTyped DEF Pte
  <2> QED BY <2>1, NoneIsNothingAssumption
<1> HIDE DEF pt
<1>3. {pt.map[p].frame : p \in {q \in Pages : pt.map[q] # None}} = {Frame(a, p) : p \in new}
  <2>1. \A p \in Pages : pt.map[p] # None <=> p \in new
    BY <1>1, <1>2
  <2>2. ASSUME NEW p \in new PROVE p \in Pages /\ pt.map[p].frame = Frame(a, p)
    <3>1. p \in Pages
      OBVIOUS
    <3>2. pt.map[p] = [frame |-> Frame(a, p), el0 |-> TRUE]
      BY <1>1, <3>1
    <3> QED BY <3>1, <3>2
  <2>3. ASSUME NEW p \in new
        PROVE  Frame(a, p) \in {pt.map[r].frame : r \in {q \in Pages : pt.map[q] # None}}
    <3>1. p \in {q \in Pages : pt.map[q] # None} /\ pt.map[p].frame = Frame(a, p)
      BY <2>1, <2>2
    <3> QED BY <3>1
  <2>4. ASSUME NEW p \in {q \in Pages : pt.map[q] # None}
        PROVE  pt.map[p].frame \in {Frame(a, r) : r \in new}
    BY <2>1, <2>2
  <2> QED BY <2>3, <2>4
<1>4. Uses(a, pt) = {Frame(a, "root")} \cup {Frame(a, p) : p \in new}
                      \cup (IF new \cap HeapPages = {} THEN {} ELSE {Frame(a, "table")})
  BY <1>1, <1>3 DEF Uses
<1> QED BY <1>4 DEF SpaceParts, pt

LEMMA FreshNamed ==
  ASSUME NEW a \in Spaces, NEW new \in SUBSET Pages, NEW L,
         \A p \in SpaceParts : Frame(a, p) \in L <=> Frame(a, p) \in Uses(a, Fresh(a, new))
  PROVE  WellNamed(a, Fresh(a, new), L)
<1> DEFINE pt == Fresh(a, new)
<1>1. /\ \A p \in Pages : pt.map[p] = IF p \in new THEN [frame |-> Frame(a, p), el0 |-> TRUE]
                                                   ELSE None
      /\ pt.table = IF new \cap HeapPages = {} THEN "none" ELSE "tracked"
  BY DEF Fresh
<1>2. \A p \in SpaceParts : Frame(a, p) \in L <=>
        p = "root" \/ p \in new \/ (p = "table" /\ new \cap HeapPages # {})
  BY FreshUses, FrameNames
<1>3. \A p \in Pages : p \in new => pt.map[p] # None /\ pt.map[p].frame = Frame(a, p)
  <2> SUFFICES ASSUME NEW p \in Pages, p \in new
               PROVE  pt.map[p] # None /\ pt.map[p].frame = Frame(a, p)
    OBVIOUS
  <2>1. [frame |-> Frame(a, p), el0 |-> TRUE] \in Pte
    BY FrameTyped DEF Pte
  <2> QED BY <1>1, <2>1, NoneIsNothingAssumption
<1> HIDE DEF pt
<1>4. \A p \in Pages : Frame(a, p) \in L <=> p \in new
  BY <1>2, PartNames DEF SpaceParts
<1>5. Frame(a, "root") \in L /\ (Frame(a, "table") \in L <=> new \cap HeapPages # {})
  BY <1>2, PartNames DEF SpaceParts
<1>6. WellNamed(a, pt, L)
  BY <1>1, <1>3, <1>4, <1>5 DEF WellNamed
<1> QED BY <1>6 DEF pt

-----------------------------------------------------------------------------
(* A step that allocates only what is free and frees only what is          *)
(* allocated, touches no frame of an address space it does not change, and *)
(* leaves the ones it changes well named.                                  *)
LEMMA MemStep ==
  ASSUME TypeOK, MemInv, NEW alloc, NEW freed, Track(alloc, freed),
         alloc \cap live = {}, freed \subseteq live,
         \A a \in Spaces : agen[a.i] \in Nat /\ agen'[a.i] \in Nat /\ agen[a.i] <= agen'[a.i],
         \A a \in Spaces : vm'[a] # None =>
            \/ /\ vm'[a] = vm[a]
               /\ \A p \in SpaceParts : Frame(a, p) \notin alloc \cup freed
            \/ a.g <= agen'[a.i] /\ WellNamed(a, vm'[a], live'),
         \A u \in Threads : Exists(u)' =>
            \/ Frame(u, "stack") \in alloc \ freed
            \/ Exists(u) /\ Frame(u, "stack") \notin freed,
         \A u \in Threads : Exists(u) => Exists(u)' \/ Frame(u, "stack") \in freed,
         \A f \in alloc : IF f.part = "stack" THEN f.of \in Threads /\ Exists(f.of)'
                          ELSE f.of \in Spaces /\ f.of.g <= agen'[f.of.i]
  PROVE  MemInv'
<1>1. live' = (live \cup alloc) \ freed /\ halt' = halt
  BY DEF Track
<1>2. \A a \in Spaces : a.g \in Nat
  BY IdsAssumption
<1>3. ASSUME NEW a \in Spaces, vm'[a] # None
      PROVE  a.g <= agen'[a.i] /\ WellNamed(a, vm'[a], live')
  <2>1. CASE a.g <= agen'[a.i] /\ WellNamed(a, vm'[a], live')
    BY <2>1
  <2>2. CASE /\ vm'[a] = vm[a]
             /\ \A p \in SpaceParts : Frame(a, p) \notin alloc \cup freed
    <3>1. a.g <= agen[a.i] /\ WellNamed(a, vm[a], live)
      BY <1>3, <2>2 DEF MemInv, Registered
    <3>2. \A p \in SpaceParts : Frame(a, p) \in live <=> Frame(a, p) \in live'
      BY <1>1, <2>2
    <3>3. WellNamed(a, vm[a], live')
      BY <3>1, <3>2, NamedLocal
    <3>4. a.g <= agen'[a.i]
      BY <1>2, <3>1
    <3> QED BY <2>2, <3>3, <3>4
  <2> QED BY <1>3, <2>1, <2>2
<1>4. \A t \in Threads : Exists(t)' => Frame(t, "stack") \in live'
  BY <1>1 DEF MemInv
<1>5. GivenOutInv'
  <2> SUFFICES ASSUME NEW f \in live'
               PROVE  IF f.part = "stack" THEN f.of \in Threads /\ Exists(f.of)'
                      ELSE f.of \in Spaces /\ f.of.g <= agen'[f.of.i]
    BY DEF GivenOutInv, Exists
  <2>1. CASE f \in alloc
    BY <2>1
  <2>2. CASE f \in live /\ f \notin freed
    <3>1. IF f.part = "stack" THEN f.of \in Threads /\ Exists(f.of)
          ELSE f.of \in Spaces /\ f.of.g <= agen[f.of.i]
      BY <2>2 DEF MemInv, GivenOutInv
    <3>2. CASE f.part = "stack"
      <4>1. f = Frame(f.of, "stack")
        BY <2>2, <3>2 DEF TypeOK, Frames, Frame
      <4> QED BY <2>2, <3>1, <3>2, <4>1
    <3>3. CASE f.part # "stack"
      BY <1>2, <3>1, <3>3
    <3> QED BY <3>2, <3>3
  <2> QED BY <1>1, <2>1, <2>2
<1>6. PageTrackingQuiet'
  BY <1>1 DEF MemInv, PageTrackingQuiet
<1> QED BY <1>3, <1>4, <1>5, <1>6 DEF MemInv, Registered

(* A step that leaves memory alone.                                        *)
LEMMA MemSame ==
  ASSUME MemInv, UNCHANGED <<vm, agen, live>>, halt' = halt \/ halt' # "tracking",
         \A t \in Threads : Exists(t)' <=> Exists(t)
  PROVE  MemInv'
<1>1. GivenOutInv'
  BY DEF MemInv, GivenOutInv
<1> QED BY <1>1 DEF MemInv, PageTrackingQuiet, Registered

(* Nothing is allocated yet for an address space or a thread about to be   *)
(* made.                                                                   *)
LEMMA NewSpaceClean ==
  ASSUME TypeOK, MemInv, NEW a \in Spaces, NewSpace(a)
  PROVE  /\ \A p : p # "stack" => Frame(a, p) \notin live
         /\ ~Registered(a) /\ a.i \in SpaceSlots /\ a.g = agen[a.i] + 1 /\ agen[a.i] \in Nat
<1>1. /\ ~Registered(a) /\ a.i \in SpaceSlots /\ a.g = agen[a.i] + 1 /\ agen[a.i] \in Nat
  BY DEF NewSpace, TypeOK, SpaceSlots
<1>2. ASSUME NEW p, p # "stack", Frame(a, p) \in live PROVE FALSE
  <2>1. Frame(a, p).of = a /\ Frame(a, p).part = p
    BY FrameNames
  <2>2. a.g <= agen[a.i]
    BY <1>2, <2>1 DEF MemInv, GivenOutInv
  <2> QED BY <1>1, <2>2
<1> QED BY <1>1, <1>2

LEMMA NewThreadClean ==
  ASSUME MemInv, NEW t \in Threads, ~Exists(t)
  PROVE  Frame(t, "stack") \notin live
<1>1. Frame(t, "stack").of = t /\ Frame(t, "stack").part = "stack"
  BY FrameNames
<1> QED BY <1>1 DEF MemInv, GivenOutInv

(* The generations after giving out a.                                     *)
LEMMA GenGrows ==
  ASSUME TypeOK, NEW a \in Spaces, a.i \in SpaceSlots, a.g = agen[a.i] + 1,
         agen' = [agen EXCEPT ![a.i] = a.g]
  PROVE  /\ \A b \in Spaces : agen[b.i] \in Nat /\ agen'[b.i] \in Nat /\ agen[b.i] <= agen'[b.i]
         /\ a.g <= agen'[a.i]
<1>1. agen \in [SpaceSlots -> Nat] /\ a.g \in Nat /\ \A b \in Spaces : b.i \in SpaceSlots
  BY IdsAssumption DEF TypeOK, SpaceSlots
<1> QED BY <1>1

-----------------------------------------------------------------------------
(* The actions.                                                            *)

(* create_thread, alone or with a new address space: spawn and clone.      *)
LEMMA BornMem ==
  ASSUME TypeOK, ProcInv, MemInv, NEW t \in Threads, NewThread(t),
         NEW parent, NEW as, NEW linux, Create(t, parent, as, linux),
         \/ UNCHANGED <<vm, agen>> /\ Track({Frame(t, "stack")}, {})
         \/ \E a \in Spaces, new \in SUBSET Pages :
              /\ NewSpace(a) /\ Register(a, Fresh(a, new))
              /\ Track(Uses(a, Fresh(a, new)) \cup {Frame(t, "stack")}, {})
  PROVE  MemInv'
<1>1. ~Exists(t)
  BY NewbornFresh DEF ProcInv
<1>2. \A u \in Threads : Exists(u)' <=> Exists(u) \/ u = t
  <2>1. sched.st \in [Threads -> ThreadState] /\ sched'.st = [sched.st EXCEPT ![t] = "Ready"]
    BY TypeParts DEF SchedState, Create
  <2> QED BY <2>1 DEF Exists
<1>3. Frame(t, "stack") \notin live
  BY <1>1, NewThreadClean
<1>4. /\ agen \in [SpaceSlots -> Nat] /\ vm \in [Spaces -> PageTable \cup {None}]
      /\ \A b \in Spaces : b.i \in SpaceSlots
  BY DEF TypeOK, SpaceSlots
<1>5. \A u \in Threads : Frame(u, "stack") = Frame(t, "stack") <=> u = t
  BY FrameNames
<1>6. CASE UNCHANGED <<vm, agen>> /\ Track({Frame(t, "stack")}, {})
  <2> DEFINE alloc == {Frame(t, "stack")}
  <2>1. alloc \cap live = {} /\ {} \subseteq live
    BY <1>3
  <2>2. \A b \in Spaces : agen[b.i] \in Nat /\ agen'[b.i] \in Nat /\ agen[b.i] <= agen'[b.i]
    BY <1>4, <1>6
  <2>3. \A b \in Spaces, p \in SpaceParts : Frame(b, p) \notin alloc \cup {}
    BY FrameNames, PartNames
  <2>4. \A b \in Spaces : vm'[b] = vm[b]
    BY <1>6
  <2>5. \A f \in alloc : IF f.part = "stack" THEN f.of \in Threads /\ Exists(f.of)'
                          ELSE f.of \in Spaces /\ f.of.g <= agen'[f.of.i]
    BY <1>2, FrameNames
  <2>6. \A u \in Threads : Exists(u)' => \/ Frame(u, "stack") \in alloc \ {}
                                         \/ Exists(u) /\ Frame(u, "stack") \notin {}
    BY <1>2
  <2>7. Track(alloc, {})
    BY <1>6
  <2> HIDE DEF alloc
  <2> QED BY <1>2, <2>1, <2>2, <2>3, <2>4, <2>5, <2>6, <2>7, MemStep
<1>7. ASSUME NEW a \in Spaces, NEW new \in SUBSET Pages,
             NewSpace(a), Register(a, Fresh(a, new)),
             Track(Uses(a, Fresh(a, new)) \cup {Frame(t, "stack")}, {})
      PROVE  MemInv'
  <2> DEFINE uses  == Uses(a, Fresh(a, new))
             alloc == uses \cup {Frame(t, "stack")}
  <2>0. /\ \A p : p # "stack" => Frame(a, p) \notin live
        /\ ~Registered(a) /\ a.i \in SpaceSlots /\ a.g = agen[a.i] + 1
    BY <1>7, NewSpaceClean
  <2>a. \A f \in uses : \E p \in SpaceParts : f = Frame(a, p)
    BY FreshUses
  <2> HIDE DEF uses
  <2>b. \A f \in uses : f.of = a /\ f.part # "stack"
    BY <2>a, FrameNames, PartNames
  <2>1. alloc \cap live = {} /\ {} \subseteq live
    BY <1>3, <2>0, <2>a, PartNames
  <2>2. /\ \A b \in Spaces : agen[b.i] \in Nat /\ agen'[b.i] \in Nat /\ agen[b.i] <= agen'[b.i]
        /\ a.g <= agen'[a.i]
    BY <1>7, <2>0, GenGrows DEF Register
  <2>3. ASSUME NEW b \in Spaces, b # a
        PROVE  vm'[b] = vm[b] /\ \A p \in SpaceParts : Frame(b, p) \notin alloc \cup {}
    BY <1>4, <1>7, <2>3, <2>b, FrameNames, PartNames DEF Register
  <2>4. vm'[a] = Fresh(a, new) /\ live' = live \cup alloc
    BY <1>4, <1>7 DEF Register, Track, uses
  <2>5. WellNamed(a, vm'[a], live')
    <3>1. \A p \in SpaceParts : Frame(a, p) \in live' <=> Frame(a, p) \in uses
      BY <2>0, <2>4, FrameNames, PartNames
    <3> QED BY <2>4, <3>1, FreshNamed DEF uses
  <2>6. \A f \in alloc : IF f.part = "stack" THEN f.of \in Threads /\ Exists(f.of)'
                          ELSE f.of \in Spaces /\ f.of.g <= agen'[f.of.i]
    BY <1>2, <2>2, <2>b, FrameNames
  <2>7. \A u \in Threads : Exists(u)' => \/ Frame(u, "stack") \in alloc \ {}
                                         \/ Exists(u) /\ Frame(u, "stack") \notin {}
    BY <1>2
  <2>8. Track(alloc, {})
    BY <1>7 DEF uses
  <2> HIDE DEF alloc
  <2> QED BY <1>2, <2>1, <2>2, <2>3, <2>5, <2>6, <2>7, <2>8, MemStep
<1> QED BY <1>6, <1>7

(* sys_exec: a new address space, and the old one dropped.                 *)
LEMMA ExecMem ==
  ASSUME TypeOK, MemInv, OneOwner, NEW a \in Spaces, Exec(a)
  PROVE  MemInv'
<1> DEFINE old   == tcb[me].as
           new   == ProgPages \cup (IF old = None THEN {} ELSE UserPages(vm[old]) \cap LibPages)
           uses  == Uses(a, Fresh(a, new))
           freed == IF old = None THEN {} ELSE Drop(old, Detached(vm[old]))
<1>1. /\ NewSpace(a) /\ sched' = sched /\ agen' = [agen EXCEPT ![a.i] = a.g]
      /\ vm' = [b \in Spaces |-> IF b = a THEN Fresh(a, new)
                                 ELSE IF b = old THEN None ELSE vm[b]]
      /\ Track(uses, freed)
  BY DEF Exec, Execed
<1>2. old \in Spaces \cup {None} /\ new \in SUBSET Pages
      /\ vm \in [Spaces -> PageTable \cup {None}]
  BY TypeParts DEF Tcb, Pages
<1> HIDE DEF new
<1>3. /\ \A p : p # "stack" => Frame(a, p) \notin live
      /\ ~Registered(a) /\ a.i \in SpaceSlots /\ a.g = agen[a.i] + 1
  BY <1>1, NewSpaceClean
<1>4. \A f \in uses : \E p \in SpaceParts : f = Frame(a, p)
  BY <1>2, FreshUses
<1>5. /\ freed \subseteq live
      /\ \A f \in freed : old \in Spaces /\ \E p \in SpaceParts : f = Frame(old, p)
  <2>1. CASE old = None
    BY <2>1
  <2>2. CASE old # None
    <3>1. old \in Spaces /\ vm[old] # None /\ vm[old] \in PageTable
      BY <1>2, <2>2, TypeParts DEF OneOwner, Registered
    <3>2. WellNamed(old, vm[old], live)
      BY <3>1 DEF MemInv, Registered
    <3> QED BY <2>2, <3>1, <3>2, NamedUses
  <2> QED BY <2>1, <2>2
<1>6. old # a
  BY <1>2, <1>3, TypeParts, IdsAssumption DEF OneOwner, Registered
<1> HIDE DEF uses, freed
<1>a. /\ \A f \in uses : f.of = a /\ f.part # "stack"
      /\ \A f \in freed : f.of = old /\ f.part # "stack"
  BY <1>4, <1>5, FrameNames, PartNames
<1> HIDE DEF old
<1>7. uses \cap live = {}
  BY <1>3, <1>4, PartNames
<1>8. /\ \A b \in Spaces : agen[b.i] \in Nat /\ agen'[b.i] \in Nat /\ agen[b.i] <= agen'[b.i]
      /\ a.g <= agen'[a.i]
  BY <1>1, <1>3, GenGrows
<1>9. ASSUME NEW b \in Spaces, b # a, vm'[b] # None
      PROVE  vm'[b] = vm[b] /\ \A p \in SpaceParts : Frame(b, p) \notin uses \cup freed
  <2>1. b # old /\ vm'[b] = vm[b]
    BY <1>1, <1>9
  <2> QED BY <1>9, <1>a, <2>1, FrameNames
<1>10. WellNamed(a, vm'[a], live')
  <2>1. vm'[a] = Fresh(a, new) /\ live' = (live \cup uses) \ freed
    BY <1>1 DEF Track
  <2>2. \A p \in SpaceParts : Frame(a, p) \in live' <=> Frame(a, p) \in uses
    BY <1>3, <1>6, <1>a, <2>1, FrameNames, PartNames
  <2> QED BY <1>2, <2>1, <2>2, FreshNamed DEF uses
<1>11. \A f \in uses : IF f.part = "stack" THEN f.of \in Threads /\ Exists(f.of)'
                       ELSE f.of \in Spaces /\ f.of.g <= agen'[f.of.i]
  BY <1>8, <1>a
<1>12. \A u \in Threads : Frame(u, "stack") \notin freed /\ (Exists(u)' <=> Exists(u))
  BY <1>1, <1>a, FrameNames DEF Exists
<1> QED
  <2>1. \A b \in Spaces : vm'[b] # None =>
          \/ vm'[b] = vm[b] /\ \A p \in SpaceParts : Frame(b, p) \notin uses \cup freed
          \/ b.g <= agen'[b.i] /\ WellNamed(b, vm'[b], live')
    BY <1>8, <1>9, <1>10
  <2> QED BY <1>1, <1>5, <1>7, <1>8, <1>11, <1>12, <2>1, MemStep

(* wait4 frees the kernel stack and drops the page table of its child.     *)
LEMMA ReapMem ==
  ASSUME TypeOK, MemInv, OneOwner, NEW c \in Threads, Reap(c)
  PROVE  MemInv'
<1> DEFINE a     == tcb[c].as
           freed == {Frame(c, "stack")} \cup (IF a = None THEN {} ELSE Drop(a, vm[a]))
<1>1. /\ sched' = [sched EXCEPT !.st[c] = "Free", !.ipc[c] = IpcReady] /\ agen' = agen
      /\ vm' = [b \in Spaces |-> IF b = a THEN None ELSE vm[b]]
      /\ Track({}, freed)
  BY DEF Reap
<1>2. Exists(c)
  BY DEF Reap, DyingChildren, Children
<1>3. \A u \in Threads : Exists(u)' <=> Exists(u) /\ u # c
  <2>1. sched.st \in [Threads -> ThreadState] /\ sched'.st = [sched.st EXCEPT ![c] = "Free"]
    BY <1>1, TypeParts DEF SchedState
  <2> QED BY <2>1 DEF Exists
<1>4. a \in Spaces \cup {None} /\ vm \in [Spaces -> PageTable \cup {None}]
  BY TypeParts DEF Tcb
<1>5. /\ freed \subseteq live
      /\ \A f \in freed : \/ f = Frame(c, "stack")
                          \/ a \in Spaces /\ \E p \in SpaceParts : f = Frame(a, p)
  <2>1. Frame(c, "stack") \in live
    BY <1>2 DEF MemInv
  <2>2. CASE a = None
    BY <2>1, <2>2
  <2>3. CASE a # None
    <3>1. a \in Spaces /\ vm[a] # None /\ vm[a] \in PageTable
      BY <1>4, <2>3 DEF OneOwner, Registered
    <3>2. WellNamed(a, vm[a], live)
      BY <3>1 DEF MemInv, Registered
    <3> QED BY <2>1, <2>3, <3>1, <3>2, NamedUses
  <2> QED BY <2>2, <2>3
<1>6. Frame(c, "stack") \in freed
  OBVIOUS
<1> HIDE DEF freed
<1>7. ASSUME NEW b \in Spaces, vm'[b] # None
      PROVE  vm'[b] = vm[b] /\ \A p \in SpaceParts : Frame(b, p) \notin {} \cup freed
  <2>1. b # a /\ vm'[b] = vm[b]
    BY <1>1, <1>7
  <2> QED BY <1>5, <2>1, FrameNames, PartNames
<1>8. \A u \in Threads : u # c => Frame(u, "stack") \notin freed
  BY <1>5, FrameNames, PartNames
<1>9. \A b \in Spaces : agen[b.i] \in Nat /\ agen'[b.i] \in Nat /\ agen[b.i] <= agen'[b.i]
  BY <1>1 DEF TypeOK, SpaceSlots
<1>10. \A u \in Threads : Exists(u)' => Exists(u) /\ Frame(u, "stack") \notin freed
  BY <1>3, <1>8
<1>11. \A u \in Threads : Exists(u) => Exists(u)' \/ Frame(u, "stack") \in freed
  BY <1>3, <1>6
<1>12. Track({}, freed) /\ {} \cap live = {} /\ freed \subseteq live
  BY <1>1, <1>5
<1> QED BY <1>7, <1>9, <1>10, <1>11, <1>12, MemStep

(* The page calls change one page table.                                   *)
LEMMA OneTableMem ==
  ASSUME TypeOK, MemInv, NEW a \in Spaces, Registered(a), NEW pt,
         vm' = [vm EXCEPT ![a] = pt], UNCHANGED <<sched, agen>>,
         NEW alloc, NEW freed, Track(alloc, freed), alloc \cap live = {}, freed \subseteq live,
         \A f \in alloc \cup freed : \E p \in SpaceParts : f = Frame(a, p),
         WellNamed(a, pt, (live \cup alloc) \ freed)
  PROVE  MemInv'
<1>1. vm \in [Spaces -> PageTable \cup {None}] /\ a.g <= agen[a.i]
  BY DEF TypeOK, MemInv
<1>2. live' = (live \cup alloc) \ freed /\ vm'[a] = pt
  BY <1>1 DEF Track
<1>3. \A f \in alloc \cup freed : f.of = a /\ f.part # "stack"
  BY FrameNames, PartNames
<1>4. ASSUME NEW b \in Spaces, b # a
      PROVE  vm'[b] = vm[b] /\ \A p \in SpaceParts : Frame(b, p) \notin alloc \cup freed
  BY <1>1, <1>3, <1>4, FrameNames
<1>5. \A b \in Spaces : agen[b.i] \in Nat /\ agen'[b.i] \in Nat /\ agen[b.i] <= agen'[b.i]
  BY DEF TypeOK, SpaceSlots
<1>6. \A u \in Threads : Frame(u, "stack") \notin freed /\ (Exists(u)' <=> Exists(u))
  BY <1>3, FrameNames DEF Exists
<1>7. \A f \in alloc : IF f.part = "stack" THEN f.of \in Threads /\ Exists(f.of)'
                       ELSE f.of \in Spaces /\ f.of.g <= agen'[f.of.i]
  BY <1>1, <1>3
<1>8. \A b \in Spaces : vm'[b] # None =>
        \/ vm'[b] = vm[b] /\ \A p \in SpaceParts : Frame(b, p) \notin alloc \cup freed
        \/ b.g <= agen'[b.i] /\ WellNamed(b, vm'[b], live')
  BY <1>1, <1>2, <1>4
<1> QED BY <1>5, <1>6, <1>7, <1>8, MemStep

LEMMA PageCallMem ==
  ASSUME TypeOK, MemInv, OneOwner, NEW p \in ArgPages, NEW el0 \in BOOLEAN,
         MapPage(p, el0) \/ Mprotect(p, el0) \/ UnmapPage(p)
  PROVE  MemInv'
<1> DEFINE a  == tcb[me].as
           pt == vm[a]
<1>1. /\ a \in Spaces /\ Registered(a) /\ pt \in PageTable /\ pt.map \in [Pages -> Pte \cup {None}]
      /\ p \in Pages /\ vm \in [Spaces -> PageTable \cup {None}]
  <2>1. a \in Spaces /\ Registered(a)
    BY TypeParts DEF MapPage, Mprotect, UnmapPage, MemoryCall, OneOwner
  <2> QED BY <2>1, TypeParts, PagesAssumption DEF Registered, PageTable, Pages
<1>2. WellNamed(a, pt, live)
  BY <1>1 DEF MemInv
<1>3. p \in SpaceParts /\ "table" \in SpaceParts
  BY <1>1 DEF SpaceParts
<1>4. p # "table" /\ p # "root" /\ \A q \in Pages : q # "table" /\ q # "root"
  BY <1>1, PartNames
<1>5. ASSUME NEW e \in BOOLEAN, NEW f \in Frames PROVE [frame |-> f, el0 |-> e] # None
  <2>1. [frame |-> f, el0 |-> e] \in Pte
    BY DEF Pte
  <2> QED BY <2>1, NoneIsNothingAssumption
<1>6. Frame(a, p) \in Frames
  BY <1>1, FrameTyped
<1>7. pt.map[p] # None => pt.map[p].frame = Frame(a, p) /\ Frame(a, p) \in live
  BY <1>1, <1>2 DEF WellNamed
<1>8. CASE MapPage(p, el0)
  <2> DEFINE new   == pt.map[p] = None
             grow  == new /\ ~HasLeaf(pt, p)
             f     == IF new THEN Frame(a, p) ELSE pt.map[p].frame
             pt2   == [map   |-> [pt.map EXCEPT ![p] = [frame |-> f, el0 |-> el0]],
                       table |-> IF grow THEN "untracked" ELSE pt.table]
             alloc == (IF new THEN {f} ELSE {}) \cup (IF grow THEN {Frame(a, "table")} ELSE {})
  <2>1. vm' = [vm EXCEPT ![a] = pt2] /\ Track(alloc, {}) /\ UNCHANGED <<sched, agen>>
    BY <1>8 DEF MapPage, MyTable
  <2>2. f = Frame(a, p)
    BY <1>7
  <2>3. grow => pt.table = "none"
    BY DEF HasLeaf
  <2>4. alloc \cap live = {}
    BY <1>1, <1>2, <2>2, <2>3 DEF WellNamed
  <2>5. \A g \in alloc \cup {} : \E q \in SpaceParts : g = Frame(a, q)
    BY <1>3, <2>2
  <2>6. WellNamed(a, pt2, (live \cup alloc) \ {})
    <3> DEFINE L == (live \cup alloc) \ {}
    <3>1. \A q \in SpaceParts : Frame(a, q) \in L <=>
            Frame(a, q) \in live \/ (q = p /\ new) \/ (q = "table" /\ grow)
      BY <1>4, <2>2, FrameNames
    <3>2. /\ pt2.map[p] = [frame |-> Frame(a, p), el0 |-> el0]
          /\ \A q \in Pages : q # p => pt2.map[q] = pt.map[q]
          /\ pt2.table = IF grow THEN "untracked" ELSE pt.table
      BY <1>1, <2>2
    <3>3. pt2.map[p] # None /\ pt2.map[p].frame = Frame(a, p) /\ Frame(a, p) \in L
      BY <1>3, <1>5, <1>6, <1>7, <3>1, <3>2
    <3> HIDE DEF pt2, L, grow, new
    <3>4. ASSUME NEW q \in Pages
          PROVE  IF pt2.map[q] = None THEN Frame(a, q) \notin L
                 ELSE pt2.map[q].frame = Frame(a, q) /\ Frame(a, q) \in L
      <4>1. CASE q = p
        BY <3>3, <4>1
      <4>2. CASE q # p
        BY <1>2, <1>4, <3>1, <3>2, <4>2 DEF WellNamed, SpaceParts
      <4> QED BY <4>1, <4>2
    <3>5. Frame(a, "root") \in L
      BY <1>2, <3>1 DEF WellNamed, SpaceParts
    <3>6. Frame(a, "table") \in L <=> pt2.table # "none"
      BY <1>2, <1>3, <1>4, <3>1, <3>2 DEF WellNamed
    <3> QED BY <3>4, <3>5, <3>6 DEF WellNamed, L
  <2> HIDE DEF alloc, pt2
  <2> QED BY <1>1, <2>1, <2>4, <2>5, <2>6, OneTableMem
<1>9. CASE UnmapPage(p)
  <2> DEFINE pt2 == [map |-> [pt.map EXCEPT ![p] = None], table |-> pt.table]
  <2>1. /\ vm' = [vm EXCEPT ![a] = pt2] /\ UNCHANGED <<sched, agen>>
        /\ pt.map[p] # None /\ Track({}, {Frame(a, p)})
    BY <1>7, <1>9 DEF UnmapPage, MyTable
  <2>2. {Frame(a, p)} \subseteq live /\ {} \cap live = {}
    BY <1>7, <2>1
  <2>3. \A g \in {} \cup {Frame(a, p)} : \E q \in SpaceParts : g = Frame(a, q)
    BY <1>3
  <2>4. WellNamed(a, pt2, (live \cup {}) \ {Frame(a, p)})
    <3>1. \A q \in SpaceParts : Frame(a, q) \in (live \cup {}) \ {Frame(a, p)} <=>
            Frame(a, q) \in live /\ q # p
      BY FrameNames
    <3>2. /\ pt2.map[p] = None /\ pt2.table = pt.table
          /\ \A q \in Pages : q # p => pt2.map[q] = pt.map[q]
      BY <1>1
    <3> HIDE DEF pt2
    <3> QED BY <1>2, <1>4, <3>1, <3>2 DEF WellNamed, SpaceParts
  <2> HIDE DEF pt2
  <2> QED BY <1>1, <2>1, <2>2, <2>3, <2>4, OneTableMem
<1>10. CASE Mprotect(p, el0)
  <2> DEFINE pt2 == [map   |-> [pt.map EXCEPT ![p] = [frame |-> pt.map[p].frame, el0 |-> el0]],
                     table |-> pt.table]
  <2>1. /\ vm' = [vm EXCEPT ![a] = pt2] /\ UNCHANGED <<sched, agen, live, halt>>
        /\ pt.map[p] # None
    BY <1>10 DEF Mprotect, MyTable
  <2>2. Track({}, {})
    BY <2>1 DEF Track
  <2>3. WellNamed(a, pt2, (live \cup {}) \ {})
    <3>1. /\ pt2.map[p] = [frame |-> Frame(a, p), el0 |-> el0] /\ pt2.table = pt.table
          /\ \A q \in Pages : q # p => pt2.map[q] = pt.map[q]
      BY <1>1, <1>7, <2>1
    <3>2. pt2.map[p] # None /\ pt2.map[p].frame = Frame(a, p) /\ Frame(a, p) \in live
      BY <1>5, <1>6, <1>7, <2>1, <3>1
    <3> HIDE DEF pt2
    <3> QED BY <1>2, <3>1, <3>2 DEF WellNamed
  <2>4. {} \cap live = {} /\ {} \subseteq live /\ \A g \in {} \cup {} : \E q \in SpaceParts : g = Frame(a, q)
    OBVIOUS
  <2> HIDE DEF pt2
  <2> QED BY <1>1, <2>1, <2>2, <2>3, <2>4, OneTableMem
<1> QED BY <1>8, <1>9, <1>10

(* exit, wait4, yield and IPC neither create nor remove a thread.          *)
LEMMA SameThreads ==
  ASSUME TypeOK, ProcInv, Exit \/ WaitForChild \/ Yield \/ IpcNext
  PROVE  \A t \in Threads : Exists(t)' <=> Exists(t)
<1>1. CASE WaitForChild \/ Yield \/ IpcNext
  BY <1>1, SwitchMoves DEF Exists
<1>2. CASE Exit
  <2> DEFINE d == Died(sched, me, tcb[me].parent)
  <2>1. sched' = Schedule(d)
    BY <1>2 DEF Exit
  <2>2. d \in SchedState /\ \A t \in Threads : d.st[t] = "Free" => sched.st[t] = "Free"
    BY TypeParts, DiedTyped
  <2>3. \A t \in Threads : sched'.st[t] = "Free" => sched.st[t] = "Free"
    <3> HIDE DEF d
    <3> QED BY <2>1, <2>2, ScheduleTyped
  <2> QED BY <1>2, <2>3, NoBirth DEF Exists
<1> QED BY <1>1, <1>2

LEMMA NextMem ==
  ASSUME TypeOK, ProcInv, OneOwner, MemInv, [Next]_vars
  PROVE  MemInv'
<1>1. ASSUME NEW t \in Threads, CreateThread(t) PROVE MemInv'
  BY <1>1, BornMem DEF CreateThread
<1>2. ASSUME NEW t \in Threads, NEW a \in Spaces, Spawn(t, a) PROVE MemInv'
  <2>1. ProgPages \in SUBSET Pages
    BY DEF Pages
  <2> QED BY <1>2, <2>1, BornMem DEF Spawn
<1>3. ASSUME NEW t \in Threads, NEW a \in Spaces, Clone(t, a) PROVE MemInv'
  <2>1. UserPages(vm[tcb[me].as]) \in SUBSET Pages
    BY DEF UserPages
  <2> QED BY <1>3, <2>1, BornMem DEF Clone, Forked
<1>4. ASSUME NEW a \in Spaces, SpawnFull(a) PROVE MemInv'
  <2> DEFINE alloc == {Frame(a, "spawn_stack")}
  <2>1. /\ NewSpace(a) /\ agen' = [agen EXCEPT ![a.i] = a.g] /\ Track(alloc, {})
        /\ UNCHANGED <<sched, vm>>
    BY <1>4 DEF SpawnFull
  <2>2. alloc \cap live = {} /\ {} \subseteq live /\ a.i \in SpaceSlots /\ a.g = agen[a.i] + 1
    BY <2>1, NewSpaceClean
  <2>3. /\ \A b \in Spaces : agen[b.i] \in Nat /\ agen'[b.i] \in Nat /\ agen[b.i] <= agen'[b.i]
        /\ a.g <= agen'[a.i]
    BY <2>1, <2>2, GenGrows
  <2>4. \A b \in Spaces : vm'[b] = vm[b]
                          /\ \A p \in SpaceParts : Frame(b, p) \notin alloc \cup {}
    BY <2>1, FrameNames, PartNames
  <2>5. \A f \in alloc : IF f.part = "stack" THEN f.of \in Threads /\ Exists(f.of)'
                         ELSE f.of \in Spaces /\ f.of.g <= agen'[f.of.i]
    BY <2>3, FrameNames
  <2>6. \A u \in Threads : Exists(u)' <=> Exists(u)
    BY <2>1 DEF Exists
  <2> HIDE DEF alloc
  <2> QED BY <2>1, <2>2, <2>3, <2>4, <2>5, <2>6, MemStep
<1>5. ASSUME NEW a \in Spaces, CloneFull(a) PROVE MemInv'
  <2>1. /\ NewSpace(a) /\ agen' = [agen EXCEPT ![a.i] = a.g]
        /\ UNCHANGED <<sched, vm, live, halt>>
    BY <1>5 DEF CloneFull
  <2>2. a.i \in SpaceSlots /\ a.g = agen[a.i] + 1
    BY <2>1, NewSpaceClean
  <2>3. /\ \A b \in Spaces : agen[b.i] \in Nat /\ agen'[b.i] \in Nat /\ agen[b.i] <= agen'[b.i]
    BY <2>1, <2>2, GenGrows
  <2>4. Track({}, {}) /\ {} \cap live = {} /\ {} \subseteq live
    BY <2>1 DEF Track
  <2>5. \A u \in Threads : Exists(u)' <=> Exists(u)
    BY <2>1 DEF Exists
  <2> QED BY <2>1, <2>3, <2>4, <2>5, MemStep
<1>6. ASSUME NEW a \in Spaces, Exec(a) PROVE MemInv'
  BY <1>6, ExecMem
<1>7. ASSUME NEW c \in Threads, Reap(c) PROVE MemInv'
  BY <1>7, ReapMem
<1>8. ASSUME NEW p \in ArgPages, NEW el0 \in BOOLEAN,
             MapPage(p, el0) \/ Mprotect(p, el0) \/ UnmapPage(p)
      PROVE  MemInv'
  BY <1>8, PageCallMem
<1>9. CASE Exit \/ WaitForChild \/ Yield \/ IpcNext
  <2>1. UNCHANGED <<vm, agen, live>> /\ (halt' = halt \/ halt' # "tracking")
    BY <1>9 DEF Exit, WaitForChild, Yield, IpcNext, Ipc, Serve, IpcStep, Tick
  <2> QED BY <1>9, <2>1, SameThreads, MemSame
<1>10. CASE \/ RegisterHandler \/ ExecFirst \/ OutOfMemory \/ NoChild \/ Halted
            \/ UNCHANGED vars \/ \E p \in ArgPages : AssertMapped(p)
  <2>1. /\ UNCHANGED <<vm, agen, live>> /\ (halt' = halt \/ halt' # "tracking")
        /\ \A t \in Threads : Exists(t)' <=> Exists(t)
    BY <1>10 DEF RegisterHandler, ExecFirst, OutOfMemory, NoChild, Halted, vars, AssertMapped,
                 Exists
  <2> QED BY <2>1, MemSame
<1> QED
  BY <1>1, <1>2, <1>3, <1>4, <1>5, <1>6, <1>7, <1>8, <1>9, <1>10 DEF Next, IpcNext

LEMMA InitMem == Init => MemInv
<1> SUFFICES ASSUME Init PROVE MemInv
  OBVIOUS
<1> DEFINE new == LibPages \cup ProgPages
<1>1. {Boot, Bash} \subseteq Threads /\ FirstSpace \in Spaces /\ new \in SUBSET Pages
  BY IdsAssumption DEF Pages
<1>2. FirstTable = Fresh(FirstSpace, new)
  BY DEF FirstTable
<1> HIDE DEF new
<1>3. /\ live = Uses(FirstSpace, FirstTable) \cup {Frame(Boot, "stack"), Frame(Bash, "stack")}
      /\ halt = "no"
      /\ \A a \in Spaces : vm[a] # None => a = FirstSpace
      /\ vm[FirstSpace] = FirstTable
      /\ \A t \in Threads : Exists(t) <=> t \in {Boot, Bash}
  <2>1. Boot # Bash
    BY DEF Boot, Bash
  <2>2. \A t \in Threads : sched.st[t] = IF t = Bash THEN "Running"
                                        ELSE IF t = Boot THEN "Blocked" ELSE "Free"
    BY <2>1 DEF Init
  <2> QED BY <1>1, <2>2 DEF Init, Exists
<1>4. FirstSpace.g <= agen[FirstSpace.i]
  BY <1>1 DEF Init, FirstSpace, SpaceSlots
<1>5. \A f \in Uses(FirstSpace, FirstTable) : \E p \in SpaceParts : f = Frame(FirstSpace, p)
  BY <1>1, <1>2, FreshUses
<1>6. WellNamed(FirstSpace, FirstTable, live)
  <2>1. \A p \in SpaceParts : Frame(FirstSpace, p) \in live
                                <=> Frame(FirstSpace, p) \in Uses(FirstSpace, FirstTable)
    BY <1>3, FrameNames, PartNames
  <2> QED BY <1>1, <1>2, <2>1, FreshNamed
<1>7. GivenOutInv
  <2> SUFFICES ASSUME NEW f \in live
               PROVE  IF f.part = "stack" THEN f.of \in Threads /\ Exists(f.of)
                      ELSE f.of \in Spaces /\ f.of.g <= agen[f.of.i]
    BY DEF GivenOutInv
  <2>1. CASE f \in {Frame(Boot, "stack"), Frame(Bash, "stack")}
    BY <1>1, <1>3, <2>1, FrameNames
  <2>2. CASE \E p \in SpaceParts : f = Frame(FirstSpace, p)
    BY <1>1, <1>4, <2>2, FrameNames, PartNames
  <2> QED BY <1>3, <1>5, <2>1, <2>2
<1> QED BY <1>3, <1>4, <1>6, <1>7 DEF MemInv, Registered, PageTrackingQuiet

-----------------------------------------------------------------------------
(* Frames have the users their names say, in every reachable state.        *)
THEOREM MemInvHolds == Spec => [](TypeOK /\ ProcInv /\ OneOwner /\ MemInv)
<1>1. TypeOK /\ ProcInv /\ OneOwner /\ MemInv /\ [Next]_vars => MemInv'
  BY NextMem
<1> QED BY <1>1, InitMem, LifeInvHolds, PTL DEF Spec

LEMMA SafeFromInv == TypeOK /\ MemInv => FramesSafe
<1> SUFFICES ASSUME TypeOK, MemInv PROVE FramesSafe
  OBVIOUS
<1>1. ASSUME NEW a \in Spaces, Registered(a) PROVE Uses(a, vm[a]) \subseteq live
  BY <1>1, MyTableTyped, NamedUses DEF MemInv
<1>2. ASSUME NEW a \in Spaces, NEW b \in Spaces, NEW p \in Pages, NEW q \in Pages,
             Registered(a), Registered(b), vm[a].map[p] # None, vm[b].map[q] # None,
             vm[a].map[p].frame = vm[b].map[q].frame
      PROVE  a = b /\ p = q
  <2>1. vm[a].map[p].frame = Frame(a, p) /\ vm[b].map[q].frame = Frame(b, q)
    BY <1>2 DEF MemInv, WellNamed
  <2>2. Frame(a, p) = Frame(b, q)
    BY <1>2, <2>1
  <2> QED BY <2>2, FrameNames
<1> QED BY <1>1, <1>2 DEF FramesSafe, MemInv

(* No page-table entry dangles and no frame is mapped twice: clone, exec,  *)
(* the page calls and the teardown in wait4, in any order.                 *)
THEOREM NoDanglingFrames == Spec => []FramesSafe
BY MemInvHolds, SafeFromInv, PTL

(* track_mark() never finds a frame allocated twice or freed twice.        *)
THEOREM NoDoubleFree == Spec => []PageTrackingQuiet
<1>1. MemInv => PageTrackingQuiet
  BY DEF MemInv
<1> QED BY <1>1, MemInvHolds, PTL

-----------------------------------------------------------------------------
(* Leaks.  A frame is lost exactly when it is the stack of a failed spawn  *)
(* or was made for an address space that is gone.                          *)
LostShape ==
  \A f : f \in Lost <=>
     f \in live /\ \/ f.part = "spawn_stack"
                   \/ f.part \in SpaceParts /\ f.of \in Spaces /\ ~Registered(f.of)

LEMMA LostFrames == TypeOK /\ MemInv => LostShape
<1> SUFFICES ASSUME TypeOK, MemInv, NEW f \in live
             PROVE  f \in Lost <=> \/ f.part = "spawn_stack"
                                   \/ f.part \in SpaceParts /\ f.of \in Spaces /\ ~Registered(f.of)
  BY DEF Lost, LostShape
<1>0. f \in Lost <=> /\ \A a \in Spaces : Registered(a) => f \notin Uses(a, vm[a])
                    /\ \A t \in Threads : Exists(t) => f # Frame(t, "stack")
  <2>1. f \in UsedFrames <=> \E a \in Spaces : Registered(a) /\ f \in Uses(a, vm[a])
    BY Zenon DEF UsedFrames
  <2>2. f \in StackFrames <=> \E t \in Threads : Exists(t) /\ f = Frame(t, "stack")
    BY Zenon DEF StackFrames, Existing
  <2> QED BY <2>1, <2>2 DEF Lost
<1>1. /\ f = Frame(f.of, f.part)
      /\ f.part \in SpaceParts \cup {"stack", "spawn_stack"}
  BY DEF TypeOK, Frames, Frame, SpaceParts
<1>2. IF f.part = "stack" THEN f.of \in Threads /\ Exists(f.of) ELSE f.of \in Spaces
  BY DEF MemInv, GivenOutInv
<1>3. \A a \in Spaces : Registered(a) =>
        (f \in Uses(a, vm[a]) <=> f.of = a /\ f.part \in SpaceParts)
  <2> SUFFICES ASSUME NEW a \in Spaces, Registered(a)
               PROVE  f \in Uses(a, vm[a]) <=> f.of = a /\ f.part \in SpaceParts
    OBVIOUS
  <2>1. WellNamed(a, vm[a], live) /\ vm[a] \in PageTable
    BY MyTableTyped DEF MemInv
  <2>2. f \in Uses(a, vm[a]) => f.of = a /\ f.part \in SpaceParts
    BY <2>1, NamedUses, FrameNames
  <2>3. ASSUME f.of = a, f.part \in SpaceParts PROVE f \in Uses(a, vm[a])
    <3>1. CASE f.part = "root"
      BY <1>1, <2>3, <3>1 DEF Uses
    <3>2. CASE f.part = "table"
      BY <1>1, <2>1, <2>3, <3>2 DEF Uses, WellNamed
    <3>3. CASE f.part \in Pages
      <4>1. vm[a].map[f.part] # None /\ vm[a].map[f.part].frame = f
        BY <1>1, <2>1, <2>3, <3>3 DEF WellNamed
      <4> QED BY <3>3, <4>1 DEF Uses
    <3> QED BY <2>3, <3>1, <3>2, <3>3 DEF SpaceParts
  <2> QED BY <2>2, <2>3
<1>4. f.part # "stack" => \A t \in Threads : f # Frame(t, "stack")
  BY FrameNames
<1>5. CASE f.part = "stack"
  BY <1>0, <1>1, <1>2, <1>5, PartNames
<1>6. CASE f.part = "spawn_stack"
  BY <1>0, <1>3, <1>4, <1>6, PartNames
<1>7. CASE f.part \in SpaceParts
  BY <1>0, <1>2, <1>3, <1>4, <1>7, PartNames
<1> QED BY <1>1, <1>5, <1>6, <1>7

(* What a step allocates for an address space, it registers; and only exec *)
(* and wait4 unregister.                                                   *)
LEMMA NewFrames ==
  ASSUME TypeOK, OneOwner, MemInv, Next, NEW f \in live', f \notin live, f.part \in SpaceParts,
         NEW a \in Spaces, f.of = a, vm'[a] = None
  PROVE  FALSE
<1>0. vm \in [Spaces -> PageTable \cup {None}]
  BY TypeParts
<1>a. ASSUME NEW x, NEW y PROVE Frame(x, y).of = x /\ Frame(x, y).part = y
  BY FrameNames
<1>b. ASSUME NEW b \in Spaces, NEW new \in SUBSET Pages, f \in Uses(b, Fresh(b, new))
      PROVE  a = b /\ Fresh(b, new) # None
  <2>1. Fresh(b, new) \in PageTable
    BY FreshTyped
  <2>2. f.of = b
    BY <1>a, <1>b, FreshUses
  <2> QED BY <2>1, <2>2, NoneIsNothingAssumption
<1>1. ASSUME NEW t \in Threads, CreateThread(t) PROVE FALSE
  BY <1>1, <1>a, PartNames DEF CreateThread, Track
<1>2. ASSUME NEW t \in Threads, NEW b \in Spaces, NEW new \in SUBSET Pages,
             Register(b, Fresh(b, new)), Track(Uses(b, Fresh(b, new)) \cup {Frame(t, "stack")}, {})
      PROVE FALSE
  <2>1. f \in Uses(b, Fresh(b, new))
    BY <1>2, <1>a, PartNames DEF Track
  <2> QED BY <1>0, <1>2, <1>b, <2>1 DEF Register
<1>3. ASSUME NEW t \in Threads, NEW b \in Spaces, Spawn(t, b) \/ Clone(t, b) PROVE FALSE
  <2>1. ProgPages \in SUBSET Pages /\ UserPages(vm[tcb[me].as]) \in SUBSET Pages
    BY DEF Pages, UserPages
  <2> QED BY <1>2, <1>3, <2>1 DEF Spawn, Clone, Forked
<1>4. ASSUME NEW b \in Spaces, SpawnFull(b) PROVE FALSE
  BY <1>4, <1>a, PartNames DEF SpawnFull, Track
<1>5. ASSUME NEW b \in Spaces, Exec(b) PROVE FALSE
  <2> DEFINE old == tcb[me].as
             new == ProgPages \cup (IF old = None THEN {} ELSE UserPages(vm[old]) \cap LibPages)
  <2>1. new \in SUBSET Pages
    BY DEF Pages
  <2>2. f \in Uses(b, Fresh(b, new)) /\ vm'[b] = Fresh(b, new)
    BY <1>5 DEF Exec, Execed, Track
  <2> HIDE DEF new
  <2> QED BY <1>b, <2>1, <2>2
<1>6. ASSUME NEW p \in ArgPages, NEW el0 \in BOOLEAN,
             MapPage(p, el0) \/ Mprotect(p, el0) \/ UnmapPage(p)
      PROVE  FALSE
  <2>1. \A b \in Spaces : vm[b] # None => vm'[b] # None
    <3>1. PICK pt \in PageTable : vm' = [vm EXCEPT ![tcb[me].as] = pt]
      BY <1>6, PageCallTyped
    <3> QED BY <1>0, <3>1, NoneIsNothingAssumption
  <2>2. tcb[me].as \in Spaces /\ vm[tcb[me].as] # None
    BY <1>6, PageCallTyped DEF Registered
  <2>3. f.of = tcb[me].as
    <3>1. CASE MapPage(p, el0)
      <4>1. f = Frame(tcb[me].as, p) \/ f = Frame(tcb[me].as, "table")
        BY <3>1 DEF MapPage, Track
      <4> QED BY <1>a, <4>1
    <3>2. CASE Mprotect(p, el0) \/ UnmapPage(p)
      BY <3>2 DEF Mprotect, UnmapPage, Track
    <3> QED BY <1>6, <3>1, <3>2
  <2> QED BY <2>1, <2>2, <2>3
<1>7. CASE \E c \in Threads : Reap(c)
  BY <1>7 DEF Reap, Track
<1>8. CASE UNCHANGED live
  BY <1>8
<1> QED
  BY <1>1, <1>3, <1>4, <1>5, <1>6, <1>7, <1>8
  DEF Next, CloneFull, AssertMapped, RegisterHandler, ExecFirst, OutOfMemory, Exit, WaitForChild,
      NoChild, Yield, Ipc, Serve, IpcStep, Tick, Halted, vars

LEMMA Unregistered ==
  ASSUME TypeOK, OneOwner, Next, NEW a \in Spaces, vm[a] # None, vm'[a] = None
  PROVE  \/ \E c \in Threads : Reap(c) /\ tcb[c].as = a
         \/ \E b \in Spaces : Exec(b) /\ tcb[me].as = a
<1>0. vm \in [Spaces -> PageTable \cup {None}]
  BY TypeParts
<1>1. ASSUME NEW t \in Threads, NEW b \in Spaces, Spawn(t, b) \/ Clone(t, b) PROVE FALSE
  <2>1. \A new \in SUBSET Pages : Fresh(b, new) # None
    BY FreshTyped, NoneIsNothingAssumption
  <2>2. ProgPages \in SUBSET Pages /\ UserPages(vm[tcb[me].as]) \in SUBSET Pages
    BY DEF Pages, UserPages
  <2>3. PICK new \in SUBSET Pages : vm' = [vm EXCEPT ![b] = Fresh(b, new)]
    BY <1>1, <2>2 DEF Spawn, Clone, Forked, Register
  <2> QED BY <1>0, <2>1, <2>3
<1>2. ASSUME NEW b \in Spaces, Exec(b) PROVE tcb[me].as = a
  <2>1. vm'[a] = IF a = b THEN Execed(b, tcb[me].as) ELSE IF a = tcb[me].as THEN None ELSE vm[a]
    BY <1>2 DEF Exec
  <2>2. a # b
    BY <1>2 DEF Exec, NewSpace, Registered
  <2> QED BY <2>1, <2>2
<1>3. ASSUME NEW p \in ArgPages, NEW el0 \in BOOLEAN,
             MapPage(p, el0) \/ Mprotect(p, el0) \/ UnmapPage(p)
      PROVE  FALSE
  <2>1. PICK pt \in PageTable : vm' = [vm EXCEPT ![tcb[me].as] = pt]
    BY <1>3, PageCallTyped
  <2> QED BY <1>0, <2>1, NoneIsNothingAssumption
<1>4. ASSUME NEW c \in Threads, Reap(c) PROVE tcb[c].as = a
  <2>1. vm'[a] = IF a = tcb[c].as THEN None ELSE vm[a]
    BY <1>4 DEF Reap
  <2> QED BY <2>1
<1>5. vm' # vm
  OBVIOUS
<1> QED
  BY <1>1, <1>2, <1>3, <1>4, <1>5
  DEF Next, CreateThread, SpawnFull, CloneFull, AssertMapped, RegisterHandler, ExecFirst,
      OutOfMemory, Exit, WaitForChild, NoChild, Yield, Ipc, Serve, IpcStep, Tick, Halted, vars

(* What the teardown of an address space leaves allocated.                 *)
LEMMA LeftBehind ==
  ASSUME TypeOK, MemInv, NEW a \in Spaces, Registered(a), NEW f \in live, f.of = a,
         f.part \in SpaceParts
  PROVE  \/ f \in Drop(a, vm[a]) /\ (f.part \notin LibPages => f \in Drop(a, Detached(vm[a])))
         \/ f = Frame(a, "table") /\ vm[a].table = "untracked"
         \/ \E p \in Pages : /\ vm[a].map[p] # None /\ vm[a].map[p].frame = f
                             /\ ~vm[a].map[p].el0
<1> DEFINE pt == vm[a]
<1>1. /\ WellNamed(a, pt, live) /\ pt \in PageTable /\ pt.map \in [Pages -> Pte \cup {None}]
      /\ pt.table \in {"none", "tracked", "untracked"}
  BY MyTableTyped DEF MemInv
<1>2. f = Frame(a, f.part)
  BY DEF TypeOK, Frames, Frame
<1>3. /\ Detached(pt).table = pt.table
      /\ \A p \in Pages : Detached(pt).map[p] = IF p \in LibPages THEN None ELSE pt.map[p]
  BY <1>1 DEF Detached, PageTable
<1> HIDE DEF pt
<1>4. CASE f.part = "root"
  BY <1>2, <1>4 DEF Drop, pt
<1>5. CASE f.part = "table"
  <2>1. pt.table # "none"
    BY <1>1, <1>2, <1>5 DEF WellNamed
  <2>2. CASE pt.table = "tracked"
    BY <1>2, <1>3, <1>5, <2>2 DEF Drop, pt
  <2>3. CASE pt.table = "untracked"
    BY <1>2, <1>5, <2>3 DEF pt
  <2> QED BY <1>1, <2>1, <2>2, <2>3
<1>6. CASE f.part \in Pages
  <2> DEFINE p == f.part
  <2>1. pt.map[p] # None /\ pt.map[p].frame = f /\ pt.map[p].el0 \in BOOLEAN
    BY <1>1, <1>2, <1>6 DEF WellNamed, Pte
  <2>2. CASE pt.map[p].el0
    <3>1. p \in UserPages(pt) /\ (p \notin LibPages => p \in UserPages(Detached(pt)))
      BY <1>3, <1>6, <2>1, <2>2 DEF UserPages
    <3>2. p \notin LibPages => Detached(pt).map[p].frame = f
      BY <1>3, <1>6, <2>1
    <3> QED BY <2>1, <3>1, <3>2 DEF Drop, pt
  <2>3. CASE ~pt.map[p].el0
    BY <1>6, <2>1, <2>3 DEF pt
  <2> QED BY <2>2, <2>3
<1> QED BY <1>4, <1>5, <1>6 DEF SpaceParts

(* The frames the kernel loses are the four kinds of OnlyKnownLeaks; every *)
(* other frame is freed with its thread or address space.                  *)
THEOREM LeaksAreKnown == Spec => OnlyKnownLeaks
<1> DEFINE Known(f) ==
      \/ f.part = "spawn_stack"
      \/ \E a \in Spaces :
           /\ Registered(a) /\ ~Registered(a)'
           /\ \/ f = Frame(a, "table") /\ vm[a].table = "untracked"
              \/ \E p \in Pages :
                   /\ vm[a].map[p] # None /\ vm[a].map[p].frame = f
                   /\ \/ ~vm[a].map[p].el0
                      \/ /\ p \in LibPages
                         /\ \E t \in Threads : tcb[t].as = a /\ Exists(t)'
<1>0. (TypeOK /\ MemInv)' => LostShape'
  BY LostFrames, PTL
<1>1. /\ TypeOK /\ ProcInv /\ OneOwner /\ MemInv /\ [Next]_vars
      /\ (TypeOK /\ MemInv)'
      => [\A f \in Lost' \ Lost : Known(f)]_<<Existing, vm, live>>
  <2> SUFFICES ASSUME TypeOK, ProcInv, OneOwner, MemInv, Next, (TypeOK /\ MemInv)',
                      NEW f \in Lost' \ Lost, f.part # "spawn_stack"
               PROVE  Known(f)
    BY DEF vars, Existing, Exists
  <2>1. f \in live' /\ f.part \in SpaceParts /\ f.of \in Spaces /\ vm'[f.of] = None
    BY <1>0 DEF LostShape, Registered
  <2>2. f \in live
    BY <2>1, NewFrames
  <2> DEFINE a == f.of
  <2>3. Registered(a)
    BY <2>1, <2>2, LostFrames DEF LostShape
  <2>4. \/ f \in Drop(a, vm[a]) /\ (f.part \notin LibPages => f \in Drop(a, Detached(vm[a])))
        \/ f = Frame(a, "table") /\ vm[a].table = "untracked"
        \/ \E p \in Pages : /\ vm[a].map[p] # None /\ vm[a].map[p].frame = f
                            /\ ~vm[a].map[p].el0
    BY <2>1, <2>2, <2>3, LeftBehind
  <2>5. ~Registered(a)' /\ a \in Spaces /\ a # None
    BY <2>1, IdsAssumption DEF Registered
  <2> HIDE DEF a
  <2>6. CASE f = Frame(a, "table") /\ vm[a].table = "untracked"
    BY <2>3, <2>5, <2>6
  <2>7. CASE \E p \in Pages : /\ vm[a].map[p] # None /\ vm[a].map[p].frame = f
                              /\ ~vm[a].map[p].el0
    BY <2>3, <2>5, <2>7
  <2>8. CASE f \in Drop(a, vm[a]) /\ (f.part \notin LibPages => f \in Drop(a, Detached(vm[a])))
    <3>1. ASSUME NEW c \in Threads, Reap(c), tcb[c].as = a PROVE FALSE
      BY <2>1, <2>5, <2>8, <3>1 DEF Reap, Track
    <3>2. ASSUME NEW b \in Spaces, Exec(b), tcb[me].as = a PROVE Known(f)
      <4>1. f \notin Drop(a, Detached(vm[a])) /\ sched' = sched /\ halt = "no"
        BY <2>1, <2>5, <3>2 DEF Exec, Track, InUser
      <4>2. f.part \in LibPages /\ f.part \in Pages
        BY <2>8, <4>1 DEF Pages
      <4>3. vm[a].map[f.part] # None /\ vm[a].map[f.part].frame = f
        <5>1. f = Frame(a, f.part)
          BY <2>2 DEF TypeOK, Frames, Frame, a
        <5> QED BY <2>2, <2>3, <2>5, <4>2, <5>1 DEF MemInv, WellNamed
      <4>4. \E t \in Threads : tcb[t].as = a /\ Exists(t)'
        <5>1. me \in Threads /\ Exists(me)
          BY <4>1, RunnerExists, TypeParts DEF ProcInv
        <5>2. PICK t \in Threads : t = me /\ Exists(t)
          BY <5>1
        <5>3. tcb[t].as = a /\ Exists(t)'
          BY <3>2, <4>1, <5>2 DEF Exists
        <5> QED BY <5>3
      <4> QED BY <2>3, <2>5, <4>2, <4>3, <4>4
    <3>3. \/ \E c \in Threads : Reap(c) /\ tcb[c].as = a
          \/ \E b \in Spaces : Exec(b) /\ tcb[me].as = a
      BY <2>3, <2>5, Unregistered DEF Registered
    <3> QED BY <3>1, <3>2, <3>3
  <2> QED BY <2>4, <2>6, <2>7, <2>8
<1> QED BY <1>1, MemInvHolds, PTL DEF Spec, OnlyKnownLeaks

=============================================================================
