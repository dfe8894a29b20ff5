----------------------------- MODULE Lifecycle -----------------------------
(***************************************************************************)
(* The life of threads and address spaces: create_thread, spawn, clone,    *)
(* exec, exit_thread and wait4 of kernel/trap/native.rs, with the thread   *)
(* table (kernel/sche/thread.rs), the address-space table (kernel/bmm),    *)
(* page tables and who frees their frames (arch/.../mm/page_table.rs), and *)
(* the allocation bitmap (arch/.../mm/mod.rs), on top of the Scheduler.    *)
(*                                                                         *)
(* A system call runs with interrupts masked on one core, so it is one     *)
(* step, except that wait4 loops around block_current().                   *)
(*                                                                         *)
(* Physical frames are named by the allocation that produced them: the     *)
(* thread or address space they were allocated for and the use they were   *)
(* allocated for.  The free list is unbounded; an allocation that fails    *)
(* and undoes everything changes nothing and is not an action.             *)
(*                                                                         *)
(* Threads sleep in wait4 and in IPC.  Of IPC only this much is here: a    *)
(* call may put its thread to sleep, and any call, reply or deadline may   *)
(* wake any one that sleeps; KernelIpc says which.  The boot thread, which *)
(* became the file server, is one of the sleepers.                         *)
(***************************************************************************)
EXTENDS Scheduler

CONSTANTS
  Spaces,     \* the AddressSpaceIds; like Threads, slot index and generation
  LibPages,   \* pages of the liblinux image (LIBLINUX_VA_START .. _END)
  ProgPages,  \* pages the ELF loader maps: program, BootInfo, user stack
  HeapPages,  \* pages of the brk/mmap region, which starts without a table
  ArgPages,   \* the pages programs name in map, unmap and mprotect calls
  MaxCalls    \* bound on the number of these calls and of programs' IPC calls

(* The boot thread, in slot 0 of the thread table; bash, the first         *)
(* process, and its address space (usr/init.rs).                           *)
Boot == [i |-> 0, g |-> 1]
Bash == [i |-> 1, g |-> 1]
FirstSpace == [i |-> 0, g |-> 1]

(* Ids are pairs of an index and a generation from 1 on.  The sets bound   *)
(* how often a slot is reused: up to 65535 times in the code, where the    *)
(* generation is a u16.                                                    *)
ASSUME IdsAssumption ==
  /\ Threads \subseteq [i : Nat, g : Nat \ {0}] /\ {Boot, Bash} \subseteq Threads
  /\ Spaces \subseteq [i : Nat, g : Nat \ {0}] /\ FirstSpace \in Spaces
  /\ None \notin Spaces

ThreadSlots == {t.i : t \in Threads}
SpaceSlots  == {a.i : a \in Spaces}

(* A level of the ready queue holds every thread but the running one.      *)
ASSUME ReadyRoomAssumption ==
  IsFiniteSet(ThreadSlots) /\ Cardinality(ThreadSlots) <= ReadyCap + 1

ASSUME PagesAssumption ==
  /\ LibPages \cap ProgPages = {} /\ LibPages \cap HeapPages = {}
  /\ ProgPages \cap HeapPages = {}
  /\ {"root", "table", "stack", "spawn_stack"}
       \cap (LibPages \cup ProgPages \cup HeapPages) = {}
  /\ ArgPages \subseteq LibPages \cup ProgPages \cup HeapPages

Pages == LibPages \cup ProgPages \cup HeapPages

-----------------------------------------------------------------------------
Frames ==
  [of   : Threads \cup Spaces,
   part : Pages \cup {"root", "table", "stack", "spawn_stack"}]

Frame(x, p) == [of |-> x, part |-> p]

(* A valid leaf entry: its frame, and AP[1], whether EL0 may access it.    *)
Pte == [frame : Frames, el0 : BOOLEAN]

(* struct PageTable.  "root" stands for the root with the tables of the    *)
(* low region and the tracker pages, all made by the owning handle; table  *)
(* says whether the heap region has its table and whether that table is on *)
(* the tracker list.                                                       *)
PageTable ==
  [map   : [Pages -> Pte \cup {None}],
   table : {"none", "tracked", "untracked"}]

ASSUME NoneIsNothingAssumption == None \notin Pte /\ None \notin PageTable

Tcb ==
  [parent : Threads \cup {None},  \* parent_tid
   as     : Spaces \cup {None},   \* asid
   linux  : BOOLEAN]              \* linux_handler_pc and linux_save_area set

NoTcb == [parent |-> None, as |-> None, linux |-> FALSE]

VARIABLES
  sched,  \* the Scheduler's state; "Free" is an empty slot
  tcb,    \* the rest of each TCB
  pc,     \* "user", "wait" inside the loop of sys_wait4, "serve" in the
          \* loop of the file server
  tgen,   \* generations of the thread table
  vm,     \* AS_TABLE: the registered page tables
  agen,   \* generations of the address-space table
  live,   \* TRACK_BITMAP: the allocated frames
  calls,  \* memory and IPC calls made, for the bound only
  halt    \* "no", or why the kernel spins for ever; "stray" when a Blocked
          \* thread goes on running, which KernelIpc follows

vars == <<sched, tcb, pc, tgen, vm, agen, live, calls, halt>>

Halts == {"no", "idle", "spin", "stray", "tracking", "panic"}

me == sched.cur
Exists(t) == sched.st[t] # "Free"
Registered(a) == vm[a] # None
InUser == halt = "no" /\ pc[me] = "user"

(* The ipc_state of a thread asleep in a send, a receive or notify_wait.   *)
InIpc == On("BlockedOnReceive", None)
Sleepers == {t \in Threads : sched.st[t] = "Blocked" /\ sched.ipc[t] = InIpc}

-----------------------------------------------------------------------------
(* alloc_page() and free_page() through track_mark(): a frame allocated    *)
(* while allocated or freed while free stops the machine.                  *)
Track(alloc, freed) ==
  /\ live' = (live \cup alloc) \ freed
  /\ halt' = IF alloc \cap live = {} /\ freed \subseteq live \cup alloc
             THEN halt ELSE "tracking"

(* Mutant: the slot is reused with the generation it had.                  *)
NewThreadSameGen(t) ==
  LET free == {j \in ThreadSlots : \A u \in Threads : u.i = j => ~Exists(u)}
  IN  /\ t.i \in free /\ \A j \in free : t.i <= j
      /\ t.g = 1

(* ThreadTableInner::alloc_slot: the lowest empty slot, its generation     *)
(* advanced.                                                               *)
NewThread(t) ==
  LET free == {j \in ThreadSlots : \A u \in Threads : u.i = j => ~Exists(u)}
  IN  /\ t.i \in free /\ \A j \in free : t.i <= j
      /\ t.g = tgen[t.i] + 1

ThreadTableFull == \A j \in ThreadSlots : \E u \in Threads : u.i = j /\ Exists(u)

(* AsTable::alloc, likewise.                                               *)
NewSpace(a) ==
  LET free == {j \in SpaceSlots : \A b \in Spaces : b.i = j => ~Registered(b)}
  IN  /\ a.i \in free /\ \A j \in free : a.i <= j
      /\ a.g = agen[a.i] + 1

(* create_thread() and the enqueue_ready() every caller adds.              *)
Create(t, parent, as, linux) ==
  /\ sched' = [st  |-> [sched.st EXCEPT ![t] = "Ready"],
               ipc |-> [sched.ipc EXCEPT ![t] = IpcReady],
               rq  |-> Enqueue(sched.rq, t),
               cur |-> sched.cur]
  /\ tcb' = [tcb EXCEPT ![t] = [parent |-> parent, as |-> as, linux |-> linux]]
  /\ pc' = [pc EXCEPT ![t] = "user"]
  /\ tgen' = [tgen EXCEPT ![t.i] = t.g]

Register(a, pt) ==
  /\ vm' = [vm EXCEPT ![a] = pt]
  /\ agen' = [agen EXCEPT ![a.i] = a.g]

(* PageTable::map through the owning handle for every page of new, with a  *)
(* fresh frame each; a table it needs is tracked.                          *)
Fresh(a, new) ==
  [map   |-> [p \in Pages |->
                IF p \in new THEN [frame |-> Frame(a, p), el0 |-> TRUE] ELSE None],
   table |-> IF new \cap HeapPages = {} THEN "none" ELSE "tracked"]

(* The frames a page table refers to.                                      *)
Uses(a, pt) ==
  {Frame(a, "root")} \cup {pt.map[p].frame : p \in {q \in Pages : pt.map[q] # None}}
    \cup (IF pt.table = "none" THEN {} ELSE {Frame(a, "table")})

(* The pages EL0 may access: what clone_user_range copies and what         *)
(* free_user_data_pages frees.                                             *)
UserPages(pt) == {p \in Pages : pt.map[p] # None /\ pt.map[p].el0}

(* Mutant: dropping a page table leaves its root allocated.                *)
DropKeepsRoot(a, pt) ==
  {pt.map[p].frame : p \in UserPages(pt)}
    \cup (IF pt.table = "tracked" THEN {Frame(a, "table")} ELSE {})

(* Drop for PageTable: the data pages EL0 may access, the root, and the    *)
(* tracked tables.                                                         *)
Drop(a, pt) ==
  {Frame(a, "root")} \cup {pt.map[p].frame : p \in UserPages(pt)}
    \cup (IF pt.table = "tracked" THEN {Frame(a, "table")} ELSE {})

-----------------------------------------------------------------------------
(* bash is running; its image and liblinux's are in the first address      *)
(* space.  The boot thread waits for the first request; its stack is the   *)
(* kernel image's, and is never freed.                                     *)
FirstTable == Fresh(FirstSpace, LibPages \cup ProgPages)

Init ==
  /\ sched = [st  |-> [t \in Threads |-> CASE t = Bash -> "Running"
                                           [] t = Boot -> "Blocked"
                                           [] OTHER    -> "Free"],
              ipc |-> [t \in Threads |-> IF t = Boot THEN InIpc ELSE IpcReady],
              rq  |-> << >>,
              cur |-> Bash]
  /\ tcb = [t \in Threads |-> IF t = Bash THEN [NoTcb EXCEPT !.as = FirstSpace]
                                          ELSE NoTcb]
  /\ pc = [t \in Threads |-> IF t = Boot THEN "serve" ELSE "user"]
  /\ tgen = [i \in ThreadSlots |-> IF i \in {0, 1} THEN 1 ELSE 0]
  /\ vm = [a \in Spaces |-> IF a = FirstSpace THEN FirstTable ELSE None]
  /\ agen = [i \in SpaceSlots |-> IF i = 0 THEN 1 ELSE 0]
  /\ live = Uses(FirstSpace, FirstTable) \cup {Frame(Boot, "stack"), Frame(Bash, "stack")}
  /\ calls = 0
  /\ halt = "no"

-----------------------------------------------------------------------------
(* sys_create_thread: no address space of its own and no parent.  (A full  *)
(* table frees the stack again and changes nothing.)                       *)
CreateThread(t) ==
  /\ InUser /\ NewThread(t)
  /\ Create(t, None, None, FALSE)
  /\ Track({Frame(t, "stack")}, {})
  /\ UNCHANGED <<vm, agen, calls>>

(* sys_spawn: a page table with the program only, then a thread without a  *)
(* parent.  With a full AS table the page table is dropped and nothing     *)
(* changes.                                                                *)
Spawn(t, a) ==
  LET pt == Fresh(a, ProgPages)
  IN  /\ InUser /\ NewSpace(a) /\ NewThread(t)
      /\ Create(t, None, a, FALSE)
      /\ Register(a, pt)
      /\ Track(Uses(a, pt) \cup {Frame(t, "stack")}, {})
      /\ UNCHANGED calls

(* sys_spawn when the thread table is full: the address space is           *)
(* unregistered again, the kernel stack of spawn_user_thread_in_as is not  *)
(* freed.                                                                  *)
SpawnFull(a) ==
  /\ InUser /\ NewSpace(a) /\ ThreadTableFull
  /\ agen' = [agen EXCEPT ![a.i] = a.g]
  /\ Track({Frame(a, "spawn_stack")}, {})
  /\ UNCHANGED <<sched, tcb, pc, tgen, vm, calls>>

(* sys_register_linux_handler.                                             *)
RegisterHandler ==
  /\ InUser
  /\ tcb' = [tcb EXCEPT ![me].linux = TRUE]
  /\ UNCHANGED <<sched, pc, tgen, vm, agen, live, halt, calls>>

(* Mutant: the child maps the frames of its parent.                        *)
ForkedShared(a, parent) ==
  [map   |-> [p \in Pages |-> IF p \in UserPages(parent) THEN parent.map[p]
                                                        ELSE None],
   table |-> IF UserPages(parent) \cap HeapPages = {} THEN "none" ELSE "tracked"]

(* bmm clone_user_mappings: a copy of every page EL0 may access, mapped    *)
(* through the child's owning handle.                                      *)
Forked(a, parent) == Fresh(a, UserPages(parent))

(* sys_clone: needs a registered Linux handler and an address space.       *)
Clone(t, a) ==
  /\ InUser /\ tcb[me].linux /\ tcb[me].as # None
  /\ NewSpace(a) /\ NewThread(t)
  /\ LET pt == Forked(a, vm[tcb[me].as])
     IN  /\ Create(t, me, a, TRUE)
         /\ Register(a, pt)
         /\ Track(Uses(a, pt) \cup {Frame(t, "stack")}, {})
  /\ UNCHANGED calls

(* sys_clone when the thread table is full: page table and stack are freed *)
(* again, the address-space id is spent.                                   *)
CloneFull(a) ==
  /\ InUser /\ tcb[me].linux /\ tcb[me].as # None
  /\ NewSpace(a) /\ ThreadTableFull
  /\ agen' = [agen EXCEPT ![a.i] = a.g]
  /\ UNCHANGED <<sched, tcb, pc, tgen, vm, live, halt, calls>>

(* The page table sys_exec builds: the liblinux pages of the old one       *)
(* copied, the new program loaded.                                         *)
Execed(a, old) ==
  Fresh(a, ProgPages \cup
           (IF old = None THEN {} ELSE UserPages(vm[old]) \cap LibPages))

(* sys_exec's last words on the old page table: the liblinux entries are   *)
(* cleared, not freed, before it is dropped.                               *)
Detached(pt) ==
  [pt EXCEPT !.map = [p \in Pages |-> IF p \in LibPages THEN None ELSE pt.map[p]]]

(* Mutant: the old address space is never unregistered.                    *)
ExecKeepsOld(a) ==
  /\ InUser /\ tcb[me].as # FirstSpace /\ NewSpace(a)
  /\ tcb' = [tcb EXCEPT ![me].as = a, ![me].linux = FALSE]
  /\ Register(a, Execed(a, tcb[me].as))
  /\ Track(Uses(a, Execed(a, tcb[me].as)), {})
  /\ UNCHANGED <<sched, pc, tgen, calls>>

(* sys_exec: the new address space is registered while the old one still   *)
(* holds its slot; the Linux handler is forgotten.                         *)
Exec(a) ==
  LET old == tcb[me].as
      pt  == Execed(a, old)
  IN  /\ InUser /\ old # FirstSpace /\ NewSpace(a)
      /\ tcb' = [tcb EXCEPT ![me].as = a, ![me].linux = FALSE]
      /\ vm' = [b \in Spaces |-> IF b = a THEN pt
                                 ELSE IF b = old THEN None ELSE vm[b]]
      /\ agen' = [agen EXCEPT ![a.i] = a.g]
      /\ Track(Uses(a, pt), IF old = None THEN {} ELSE Drop(old, Detached(vm[old])))
      /\ UNCHANGED <<sched, pc, tgen, calls>>

(* sys_exec of bash itself: a check for address space 0x10000 stops the    *)
(* machine.                                                                *)
ExecFirst ==
  /\ InUser /\ tcb[me].as = FirstSpace
  /\ halt' = "panic"
  /\ UNCHANGED <<sched, tcb, pc, tgen, vm, agen, live, calls>>

-----------------------------------------------------------------------------
(* find_pte(): the walk reaches a leaf entry, valid or not.                *)
HasLeaf(pt, p) == p \notin HeapPages \/ pt.table # "none"

MyTable == vm[tcb[me].as]

MemoryCall ==
  /\ InUser /\ tcb[me].as # None
  /\ calls < MaxCalls /\ calls' = calls + 1

(* Mutant: the entry is written although no frame was allocated.           *)
MapUnbacked(p, el0) ==
  /\ MemoryCall
  /\ vm' = [vm EXCEPT ![tcb[me].as].map[p] = [frame |-> None, el0 |-> el0]]
  /\ UNCHANGED <<sched, tcb, pc, tgen, agen, live, halt>>

(* sys_map_page through the borrowed view of current_page_table(): a page  *)
(* already mapped keeps its frame; a table it needs is not tracked.  A     *)
(* protection without read and write leaves AP[1] clear.                   *)
MapPage(p, el0) ==
  /\ MemoryCall
  /\ LET a    == tcb[me].as
         pt   == MyTable
         new  == pt.map[p] = None
         grow == new /\ ~HasLeaf(pt, p)
         f    == IF new THEN Frame(a, p) ELSE pt.map[p].frame
     IN  /\ vm' = [vm EXCEPT ![a] =
                     [map   |-> [pt.map EXCEPT ![p] = [frame |-> f, el0 |-> el0]],
                      table |-> IF grow THEN "untracked" ELSE pt.table]]
         /\ Track((IF new THEN {f} ELSE {})
                    \cup (IF grow THEN {Frame(a, "table")} ELSE {}), {})
  /\ UNCHANGED <<sched, tcb, pc, tgen, agen>>

(* Mutant: the frame is freed and the entry stays.                         *)
UnmapKeepsEntry(p) ==
  /\ MemoryCall
  /\ MyTable.map[p] # None
  /\ Track({}, {MyTable.map[p].frame})
  /\ UNCHANGED <<sched, tcb, pc, tgen, vm, agen>>

(* sys_unmap_page of a mapped page.                                        *)
UnmapPage(p) ==
  /\ MemoryCall
  /\ MyTable.map[p] # None
  /\ vm' = [vm EXCEPT ![tcb[me].as] =
              [map |-> [MyTable.map EXCEPT ![p] = None], table |-> MyTable.table]]
  /\ Track({}, {MyTable.map[p].frame})
  /\ UNCHANGED <<sched, tcb, pc, tgen, agen>>

(* sys_mprotect of a mapped page.                                          *)
Mprotect(p, el0) ==
  /\ MemoryCall
  /\ MyTable.map[p] # None
  /\ vm' = [vm EXCEPT ![tcb[me].as] =
              [map   |-> [MyTable.map EXCEPT
                            ![p] = [frame |-> MyTable.map[p].frame, el0 |-> el0]],
               table |-> MyTable.table]]
  /\ UNCHANGED <<sched, tcb, pc, tgen, agen, live, halt>>

(* sys_unmap_page and sys_mprotect of a page whose leaf entry exists and   *)
(* is invalid: the assert! of unmap() or remap() panics the kernel.        *)
AssertMapped(p) ==
  /\ InUser /\ tcb[me].as # None
  /\ MyTable.map[p] = None /\ HasLeaf(MyTable, p)
  /\ halt' = "panic"
  /\ UNCHANGED <<sched, tcb, pc, tgen, vm, agen, live, calls>>

(* PageTable::new, map and track_frame panic when alloc_page fails, in     *)
(* spawn, clone, exec and map (within the bound on calls).                 *)
OutOfMemory ==
  /\ InUser /\ calls < MaxCalls
  /\ halt' = "panic"
  /\ UNCHANGED <<sched, tcb, pc, tgen, vm, agen, live, calls>>

-----------------------------------------------------------------------------
(* Mutant: the parent is not woken.                                        *)
DiedSilently(s, t, parent) == [s EXCEPT !.st[t] = "Dying"]

(* Mutant: the parent is woken whether it waits for a child or not.        *)
DiedWakesAlways(s, t, parent) ==
  LET d == [s EXCEPT !.st[t] = "Dying"]
  IN  IF parent # None THEN Wake(d, parent) ELSE d

(* The caller of sys_exit_thread is Dying, and its parent is woken if it   *)
(* still exists and waits.                                                 *)
Died(s, t, parent) ==
  LET d == [s EXCEPT !.st[t] = "Dying"]
  IN  IF parent # None /\ s.st[parent] # "Free"
                      /\ s.ipc[parent].why = "BlockedOnWait4"
      THEN Wake(d, parent) ELSE d

(* sys_exit_thread.  When schedule() finds no other thread it returns and  *)
(* the caller spins for ever.                                              *)
Exit ==
  LET d == Died(sched, me, tcb[me].parent)
  IN  /\ InUser
      /\ sched' = Schedule(d)
      /\ halt' = IF d.rq = << >> THEN "idle" ELSE halt
      /\ UNCHANGED <<tcb, pc, tgen, vm, agen, live, calls>>

Children(t) == {c \in Threads : Exists(c) /\ tcb[c].parent = t}

(* Mutant: a child is taken for dead that only is not running.             *)
IdleChildren(t) == {c \in Children(t) : sched.st[c] \in {"Dying", "Blocked"}}

DyingChildren(t) == {c \in Children(t) : sched.st[c] = "Dying"}

InWait4 == halt = "no" /\ pc[me] \in {"user", "wait"}

(* One turn of the loop of sys_wait4, entered or resumed: reap the dying   *)
(* child of the lowest slot ...                                            *)
Reap(c) ==
  /\ InWait4
  /\ c \in DyingChildren(me) /\ \A d \in DyingChildren(me) : c.i <= d.i
  /\ sched' = [sched EXCEPT !.st[c] = "Free", !.ipc[c] = IpcReady]
  /\ tcb' = [tcb EXCEPT ![c] = NoTcb]
  /\ pc' = [pc EXCEPT ![me] = "user"]
  /\ LET a == tcb[c].as
     IN  /\ vm' = [b \in Spaces |-> IF b = a THEN None ELSE vm[b]]
         /\ Track({}, {Frame(c, "stack")}
                       \cup (IF a = None THEN {} ELSE Drop(a, vm[a])))
  /\ UNCHANGED <<tgen, agen, calls>>

(* Mutant: block although a child has already exited.                      *)
WaitBlocksAnyway ==
  /\ InWait4
  /\ Children(me) # {}
  /\ sched' = Block(sched, On("BlockedOnWait4", None))
  /\ halt' = IF sched.rq = << >> THEN "spin" ELSE halt
  /\ pc' = [pc EXCEPT ![me] = "wait"]
  /\ UNCHANGED <<tcb, tgen, vm, agen, live, calls>>

(* ... or block until a child exits.  When schedule() finds no other       *)
(* thread it returns, and the loop turns for ever with interrupts masked;  *)
(* ...                                                                     *)
WaitForChild ==
  /\ InWait4
  /\ Children(me) # {} /\ DyingChildren(me) = {}
  /\ sched' = Block(sched, On("BlockedOnWait4", None))
  /\ halt' = IF sched.rq = << >> THEN "spin" ELSE halt
  /\ pc' = [pc EXCEPT ![me] = "wait"]
  /\ UNCHANGED <<tcb, tgen, vm, agen, live, calls>>

(* ... or, without children, return ECHILD.                                *)
NoChild ==
  /\ InWait4
  /\ Children(me) = {}
  /\ pc' = [pc EXCEPT ![me] = "user"]
  /\ UNCHANGED <<sched, tcb, tgen, vm, agen, live, halt, calls>>

-----------------------------------------------------------------------------
(* A step of IPC as the thread table sees it: a partner, if there is one,  *)
(* is woken, and the caller sleeps or goes on.  When a caller that should  *)
(* sleep finds no other thread ready, schedule() returns to it.            *)
IpcStep(u, sleeps) ==
  LET s == IF u = None THEN sched ELSE Wake(sched, u)
  IN  /\ halt = "no"
      /\ u \in Sleepers \cup {None} /\ (u # None \/ sleeps)
      /\ sched' = IF sleeps THEN Block(s, InIpc) ELSE s
      /\ halt' = IF sleeps /\ s.rq = << >> THEN "stray" ELSE halt
      /\ UNCHANGED <<tcb, pc, tgen, vm, agen, live>>

(* sys_ipc_send, sys_ipc_recv, sys_ipc_call, sys_notify_send and           *)
(* sys_notify_wait.                                                        *)
Ipc(u, sleeps) ==
  /\ pc[me] = "user" /\ IpcStep(u, sleeps)
  /\ calls < MaxCalls /\ calls' = calls + 1

(* The loop of the file server: kernel_recv() and kernel_send().           *)
Serve(u, sleeps) == pc[me] = "serve" /\ IpcStep(u, sleeps) /\ UNCHANGED calls

(* The timer interrupt in user mode when a deadline has passed; the file   *)
(* server sets none.                                                       *)
Tick(u) ==
  /\ InUser /\ u \in Sleepers \ {Boot}
  /\ sched' = Schedule(Wake(sched, u))
  /\ UNCHANGED <<tcb, pc, tgen, vm, agen, live, halt, calls>>

(* sys_yield, and the timer interrupt in user mode when none has.          *)
Yield ==
  /\ InUser
  /\ sched' = Schedule(sched)
  /\ UNCHANGED <<tcb, pc, tgen, vm, agen, live, halt, calls>>

(* The wfi and panic loops.                                                *)
Halted == halt # "no" /\ UNCHANGED vars

Next ==
  \/ \E t \in Threads : CreateThread(t) \/ Reap(t)
  \/ \E t \in Threads, a \in Spaces : Spawn(t, a) \/ Clone(t, a)
  \/ \E a \in Spaces : SpawnFull(a) \/ CloneFull(a) \/ Exec(a)
  \/ \E p \in ArgPages, el0 \in BOOLEAN : MapPage(p, el0) \/ Mprotect(p, el0)
  \/ \E p \in ArgPages : UnmapPage(p) \/ AssertMapped(p)
  \/ RegisterHandler \/ ExecFirst \/ OutOfMemory
  \/ \E u \in Threads \cup {None}, sleeps \in BOOLEAN : Ipc(u, sleeps) \/ Serve(u, sleeps)
  \/ \E u \in Threads : Tick(u)
  \/ Exit \/ WaitForChild \/ NoChild \/ Yield \/ Halted

Spec == Init /\ [][Next]_vars

(* Whoever runs in user mode passes the CPU on again and again, by yield   *)
(* or by a tick, and kernel code keeps running: the loop of wait4 and that *)
(* of the file server, which no interrupt leaves.                          *)
FairSpec ==
  /\ Spec
  /\ SF_vars(Yield)
  /\ WF_vars(pc[me] = "wait" /\ (WaitForChild \/ NoChild \/ \E c \in Threads : Reap(c)))
  /\ WF_vars(\E u \in Threads \cup {None}, sleeps \in BOOLEAN : Serve(u, sleeps))

-----------------------------------------------------------------------------
(* Types of the tables of thread.rs, bmm and page_table.rs: an empty slot  *)
(* of the thread table holds no TCB.                                       *)
TypeOK ==
  /\ sched \in SchedState
  /\ tcb \in [Threads -> Tcb]
  /\ pc \in [Threads -> {"user", "wait", "serve"}]
  /\ tgen \in [ThreadSlots -> Nat]
  /\ vm \in [Spaces -> PageTable \cup {None}]
  /\ agen \in [SpaceSlots -> Nat]
  /\ live \subseteq Frames
  /\ calls \in Nat
  /\ halt \in Halts
  /\ \A t \in Threads : ~Exists(t) => tcb[t] = NoTcb

(* As long as the kernel runs, the ready queue holds exactly the Ready     *)
(* threads, each once, and the CPU runs the one Running thread: the        *)
(* enqueue of every new thread and the wakes of exit, IPC and ticks never  *)
(* meet a thread that is queued already, and a thread asleep in IPC is not *)
(* woken by the exit of its child.                                         *)
SchedulerConsistent == halt = "no" => Consistent(sched)

(* sys_wait4 against sys_exit_thread: no wakeup is lost.  A thread blocked *)
(* in wait4 has a child that has not exited, and none that has.            *)
WaiterHasLiveChild ==
  \A t \in Threads :
    sched.ipc[t].why = "BlockedOnWait4"
      => Children(t) # {} /\ DyingChildren(t) = {}

Waiters == {t \in Threads : sched.ipc[t].why = "BlockedOnWait4"}

(* The wfi loop at the end of sys_exit_thread and the endless loop of      *)
(* wait4 are reached only with every thread exited or asleep, and never    *)
(* because of wait4 alone: from every waiting parent on, live children     *)
(* lead to a thread asleep in IPC.  So when nobody but the file server     *)
(* sleeps there, every other thread has exited.                            *)
StopsOnlyForSleepers ==
  halt \in {"idle", "spin"} =>
    /\ \A t \in Threads : Exists(t) => sched.st[t] \in {"Dying", "Blocked"}
    /\ \A T \in SUBSET Waiters : T # {} =>
         \E t \in T : \E c \in Children(t) \ T : sched.st[c] = "Blocked"

(* What page tables and threads refer to is allocated, and no data frame   *)
(* is mapped twice, in one address space or in two: clone, exec, unmap and *)
(* the teardown in wait4 leave no dangling entry and share no frame.       *)
FramesSafe ==
  /\ \A a \in Spaces : Registered(a) => Uses(a, vm[a]) \subseteq live
  /\ \A t \in Threads : Exists(t) => Frame(t, "stack") \in live
  /\ \A a, b \in Spaces : \A p, q \in Pages :
       /\ Registered(a) /\ Registered(b)
       /\ vm[a].map[p] # None /\ vm[b].map[q] # None
       /\ vm[a].map[p].frame = vm[b].map[q].frame
       => a = b /\ p = q

(* track_mark() never reports DOUBLE-ALLOC or DOUBLE-FREE.                 *)
PageTrackingQuiet == halt # "tracking"

(* Every thread's address space is registered, and every registered        *)
(* address space belongs to exactly one thread, a dead one until wait4     *)
(* reaps it.                                                               *)
OneOwner ==
  /\ \A t \in Threads : tcb[t].as # None => Registered(tcb[t].as)
  /\ \A a \in Spaces : Registered(a) => \E t \in Threads : tcb[t].as = a
  /\ \A t, u \in Threads : tcb[t].as # None /\ tcb[t].as = tcb[u].as => t = u

Existing == {t \in Threads : Exists(t)}

(* The frames allocated and out of reach.                                  *)
UsedFrames == UNION {Uses(a, vm[a]) : a \in {b \in Spaces : Registered(b)}}
StackFrames == {Frame(t, "stack") : t \in Existing}
Lost == live \ (UsedFrames \cup StackFrames)

(* Frames are lost in four ways only: the kernel stack of a spawn that     *)
(* finds the thread table full; and, when an address space goes away, a    *)
(* table that sys_map_page made, a page EL0 may not access, and, in exec,  *)
(* the old copy of liblinux.                                               *)
OnlyKnownLeaks ==
  [][\A f \in Lost' \ Lost :
       \/ f.part = "spawn_stack"
       \/ \E a \in Spaces :
            /\ Registered(a) /\ ~Registered(a)'
            /\ \/ f = Frame(a, "table") /\ vm[a].table = "untracked"
               \/ \E p \in Pages :
                    /\ vm[a].map[p] # None /\ vm[a].map[p].frame = f
                    /\ \/ ~vm[a].map[p].el0
                       \/ /\ p \in LibPages
                          /\ \E t \in Threads : tcb[t].as = a /\ Exists(t)']_<<Existing, vm, live>>

(* A ThreadId is never given out twice: no thread names a newborn as its   *)
(* parent, so wait4 cannot reap the children of an earlier occupant of the *)
(* slot.                                                                   *)
NewbornHasNoChildren ==
  [][\A t \in Threads : ~Exists(t) /\ Exists(t)'
       => \A c \in Threads : tcb[c].parent # t]_sched

(* wait4 returns once a child has exited, unless the kernel stops.         *)
WaitReturns ==
  \A t \in Threads :
    (pc[t] = "wait" /\ DyingChildren(t) # {}) ~> (pc[t] = "user" \/ halt # "no")

-----------------------------------------------------------------------------
(* The life of a ThreadId: an id without a thread is gone when its slot    *)
(* has already given it out.                                               *)
Life ==
  [t \in Threads |->
     IF Exists(t) THEN IF sched.st[t] = "Dying" THEN "zombie" ELSE "alive"
     ELSE IF t.g <= tgen[t.i] THEN "gone" ELSE "unborn"]

ParentOf == [t \in Threads |-> tcb[t].parent]

Tree == INSTANCE ProcessTree WITH life <- Life, parent <- ParentOf

(* Every thread lives once: through reuse of slots, clone, exec, failed    *)
(* calls and preemption, sys_wait4 collects a thread exactly once, after   *)
(* its sys_exit_thread and in its own parent.                              *)
ImplementsProcessTree == Tree!Spec

-----------------------------------------------------------------------------
(* The strengthening the proofs use.  Slots and generations: one thread    *)
(* per slot, none beyond the generation of its slot, no parent_tid that    *)
(* has not been given out.                                                 *)
IdsInv ==
  /\ \A t, u \in Threads : Exists(t) /\ Exists(u) /\ t.i = u.i => t = u
  /\ \A t \in Threads : Exists(t) => t.g <= tgen[t.i]
  /\ \A c \in Threads : tcb[c].parent # None
       => tcb[c].parent.g <= tgen[tcb[c].parent.i]

(* The parent relation is well founded: every set of threads has a member  *)
(* without a child in the set.                                             *)
FamilyInv ==
  \A T \in SUBSET Threads : T # {} => \E t \in T : \A c \in T : tcb[c].parent # t

(* Blocked means waiting for a child or for IPC.                           *)
BlockedInv ==
  \A t \in Threads :
    sched.ipc[t].why \in {"BlockedOnWait4", "BlockedOnReceive"} <=> sched.st[t] = "Blocked"

ProcInv ==
  /\ IdsInv /\ FamilyInv /\ BlockedInv
  /\ SchedulerConsistent /\ WaiterHasLiveChild /\ StopsOnlyForSleepers

(* The frames of a page table are where their names say, and allocated     *)
(* exactly when the page table refers to them.                             *)
WellNamed(a, pt, L) ==
  /\ Frame(a, "root") \in L
  /\ \A p \in Pages : IF pt.map[p] = None THEN Frame(a, p) \notin L
                       ELSE pt.map[p].frame = Frame(a, p) /\ Frame(a, p) \in L
  /\ Frame(a, "table") \in L <=> pt.table # "none"

(* Stacks belong to existing threads, and no other frame is named for an   *)
(* address space ahead of the generation of its slot.                      *)
GivenOutInv ==
  \A f \in live :
    IF f.part = "stack" THEN f.of \in Threads /\ Exists(f.of)
    ELSE f.of \in Spaces /\ f.of.g <= agen[f.of.i]

MemInv ==
  /\ \A a \in Spaces : Registered(a) => a.g <= agen[a.i] /\ WellNamed(a, vm[a], live)
  /\ \A t \in Threads : Exists(t) => Frame(t, "stack") \in live
  /\ GivenOutInv /\ PageTrackingQuiet

=============================================================================
