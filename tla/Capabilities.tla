--------------------------- MODULE Capabilities ---------------------------
(***************************************************************************)
(* Capabilities of the QuackOS kernel: the global derivation table of      *)
(* cap/derive.rs, the per-process CSpaces of cap/cspace.rs, and the system *)
(* calls of trap/native.rs that work on both (mint, derive, revoke, move,  *)
(* delete).  A call runs to its end with interrupts masked, so a call is   *)
(* one step; but it changes the table and the CSpace one after the other,  *)
(* and a failure in between leaves the first change in place.              *)
(***************************************************************************)
EXTENDS Naturals, Sequences, FiniteSets

CONSTANTS
  Pids,            \* the callers; every thread is a process of its own here
  Objects,         \* kernel objects: an obj_id with its CapType
  Rights,          \* the single rights
  None,
  MaxDerivations,  \* MAX_DERIVATIONS, 256
  MaxChildren,     \* MAX_CHILDREN, 16
  SlotCount,       \* CSLOT_COUNT, 64
  MaxSpaces        \* MAX_CSPACES, 64

ASSUME CapAssumption ==
  /\ MaxDerivations \in Nat /\ MaxChildren \in Nat /\ SlotCount \in Nat
  /\ None \notin Nat

CapRights == SUBSET Rights

(* A capability in a slot: what it allows on which object, and its own     *)
(* index in the derivation table (kept in the field parent_id).            *)
Capability == [obj : Objects, rights : CapRights, id : Nat \ {0}]

(* An entry of the table, with the children array cut at child_count.      *)
DeriveEntry ==
  [obj : Objects, rights : CapRights, parent : Nat \cup {None},
   revoked : BOOLEAN, children : Seq(Nat)]

Slots == 0 .. (SlotCount - 1)

(* The CPtrs a caller may pass: any number; SlotCount stands for all that  *)
(* are out of range.                                                       *)
CPtr == 0 .. SlotCount

VARIABLES
  table,   \* DERIVE_TABLE, numbered from 1: entries are added, never removed
  spaces,  \* CSPACES: the processes that have a CSpace
  slots    \* per process: the slots of its root CNode

vars == <<table, spaces, slots>>

Ids == DOMAIN table

TypeOK ==
  /\ table \in Seq(DeriveEntry)
  /\ Len(table) <= MaxDerivations
  /\ spaces \subseteq Pids
  /\ slots \in [Pids -> [Slots -> Capability \cup {None}]]

Init ==
  /\ table = << >>
  /\ spaces = {}
  /\ slots = [p \in Pids |-> [i \in Slots |-> None]]

-----------------------------------------------------------------------------
(* with_cspace_mut(): a CSpace is made on first use, also by a call that   *)
(* fails afterwards, while the table of CSpaces has room.                  *)
HasRoom(p) == p \in spaces \/ Cardinality(spaces) < MaxSpaces

OpenSpace(p) == spaces' = IF HasRoom(p) THEN spaces \cup {p} ELSE spaces

(* CNode::insert: the first empty slot.                                    *)
FirstFree(p, i) == slots[p][i] = None /\ \A j \in 0 .. (i - 1) : slots[p][j] # None

InsertCap(p, c) ==
  /\ OpenSpace(p)
  /\ IF HasRoom(p) /\ \E i \in Slots : slots[p][i] = None
     THEN \E i \in Slots : FirstFree(p, i) /\ slots' = [slots EXCEPT ![p][i] = c]
     ELSE UNCHANGED slots

(* lookup_cap(): no CSpace, a CPtr out of range or an empty slot fail.     *)
Held(p, i) == i \in Slots /\ slots[p][i] # None

NewEntry(o, r, parent) ==
  [obj |-> o, rights |-> r, parent |-> parent, revoked |-> FALSE, children |-> << >>]

-----------------------------------------------------------------------------
(* Mutant: the table has no end.                                           *)
MintUnbounded(p, o, r) ==
  /\ table' = Append(table, NewEntry(o, r, None))
  /\ InsertCap(p, [obj |-> o, rights |-> r, id |-> Len(table) + 1])

(* sys_cspace_mint: a root capability with any rights the caller names.    *)
(* Without a free slot the entry stays in the table.                       *)
Mint(p, o, r) ==
  /\ Len(table) < MaxDerivations
  /\ table' = Append(table, NewEntry(o, r, None))
  /\ InsertCap(p, [obj |-> o, rights |-> r, id |-> Len(table) + 1])

(* Mutant: the rights are not compared.                                    *)
MayDeriveAny(cap, r) == ~ table[cap.id].revoked

(* Mutant: the parent does not learn of its child.                         *)
LinkedNot(cap, child) == table

(* derive_cap(): a child with no more rights, of a parent that is not      *)
(* itself marked revoked; the chain above is not walked.  When the parent  *)
(* has no room for another child, the child's entry is already in the      *)
(* table and stays there.                                                  *)
MayDerive(cap, r) == r \subseteq cap.rights /\ ~ table[cap.id].revoked

Linked(cap, child) == [table EXCEPT ![cap.id].children = Append(@, child)]

Derive(p, src, r) ==
  /\ Held(p, src)
  /\ LET cap   == slots[p][src]
         child == Len(table) + 1
         entry == NewEntry(cap.obj, r, cap.id)
     IN  /\ MayDerive(cap, r)
         /\ Len(table) < MaxDerivations
         /\ \/ /\ Len(table[cap.id].children) < MaxChildren
               /\ table' = Append(Linked(cap, child), entry)
               /\ InsertCap(p, [obj |-> cap.obj, rights |-> r, id |-> child])
            \/ /\ Len(table[cap.id].children) >= MaxChildren
               /\ table' = Append(table, entry)
               /\ UNCHANGED <<spaces, slots>>

Children(i) == {table[i].children[k] : k \in 1 .. Len(table[i].children)}

(* Mutant: the recursion stops after one level.                            *)
ReachedChildren(id) == {id} \cup Children(id)

(* Mutant: every capability on the object is revoked with it.              *)
ReachedObject(id) == {k \in Ids : table[k].obj = table[id].obj}

(* revoke_recursive(): what the recursion marks, which stops at entries    *)
(* that are already revoked: the least set that holds id and the           *)
(* unrevoked children of its members.                                      *)
Reached(id) ==
  {k \in Ids : /\ ~ table[id].revoked
               /\ \A S \in SUBSET Ids :
                    (id \in S /\ \A i \in S : \A c \in Children(i) :
                                   ~ table[c].revoked => c \in S) => k \in S}

(* sys_cspace_revoke: mark the tree below the capability, then empty the   *)
(* caller's own slot.                                                      *)
Revoke(p, i) ==
  /\ Held(p, i)
  /\ LET marked == Reached(slots[p][i].id)
     IN  table' = [k \in Ids |-> [table[k] EXCEPT !.revoked = @ \/ k \in marked]]
  /\ slots' = [slots EXCEPT ![p][i] = None]
  /\ UNCHANGED spaces

(* Mutant: the source keeps its capability.                                *)
MoveCopies(p, src, dst) ==
  /\ OpenSpace(p)
  /\ slots' = IF Held(p, src)
              THEN [slots EXCEPT ![p] = [i \in Slots |-> IF i = dst THEN slots[p][src]
                                                         ELSE slots[p][i]]]
              ELSE slots
  /\ UNCHANGED table

(* sys_cspace_move: take the capability out, then put it over whatever the *)
(* destination holds; a destination out of range loses it.                 *)
Move(p, src, dst) ==
  /\ OpenSpace(p)
  /\ slots' = IF Held(p, src)
              THEN [slots EXCEPT ![p] = [i \in Slots |-> IF i = dst THEN slots[p][src]
                                                         ELSE IF i = src THEN None
                                                         ELSE slots[p][i]]]
              ELSE slots
  /\ UNCHANGED table

(* sys_cspace_delete: only the slot; the entry stays in the table.         *)
Delete(p, i) ==
  /\ OpenSpace(p)
  /\ slots' = IF Held(p, i) THEN [slots EXCEPT ![p][i] = None] ELSE slots
  /\ UNCHANGED table

Next ==
  \E p \in Pids :
    \/ \E o \in Objects, r \in CapRights : Mint(p, o, r)
    \/ \E i \in CPtr : \/ \E r \in CapRights : Derive(p, i, r)
                       \/ Revoke(p, i)
                       \/ Delete(p, i)
                       \/ \E j \in CPtr : Move(p, i, j)

Spec == Init /\ [][Next]_vars

-----------------------------------------------------------------------------
(* check_grant_chain(): the entry and all above it are unrevoked.          *)
Ancestors(id) ==
  {a \in Ids : \A S \in SUBSET Ids :
     (id \in S /\ \A i \in S : table[i].parent # None => table[i].parent \in S) => a \in S}

ChainIntact(id) == \A a \in Ancestors(id) : ~ table[a].revoked

(* ipc/capability.rs check_send_right() and its like: the first slot of    *)
(* the caller that names the object decides.                               *)
RightFound(p, o, right) ==
  \E i \in Slots :
    /\ slots[p][i] # None /\ slots[p][i].obj = o
    /\ \A j \in 0 .. (i - 1) : slots[p][j] = None \/ slots[p][j].obj # o
    /\ right \in slots[p][i].rights

HeldCaps == {c \in {slots[p][i] : p \in Pids, i \in Slots} : c # None}

(* A capability in a slot is marked revoked exactly when its chain is      *)
(* broken: revoking an ancestor has reached it through every derivation,   *)
(* failed one and deletion in between.  derive_cap() relies on it, for it  *)
(* looks at the parent's own mark only.                                    *)
MarkTellsChain ==
  \A c \in HeldCaps : c.id \in Ids /\ (table[c.id].revoked <=> ~ ChainIntact(c.id))

(* The rights of a capability in a slot are within those of every          *)
(* capability it was derived from, and it names the same object (cap/mod.rs: *)
(* "Rights can only be removed when deriving a child capability, never     *)
(* added").                                                                *)
RightsOnlyShrink ==
  \A c \in HeldCaps : \A a \in Ancestors(c.id) :
    c.rights \subseteq table[a].rights /\ c.obj = table[a].obj

(* A capability is in one slot of one process: no sequence of moves,       *)
(* deletions and failed calls duplicates one.                              *)
HeldOnce ==
  \A p, q \in Pids : \A i, j \in Slots :
    slots[p][i] # None /\ slots[q][j] # None /\ slots[p][i].id = slots[q][j].id
      => p = q /\ i = j

(* The entries that a step marks were derived, directly or not, from a     *)
(* capability that the same step takes from its holder; no mark is cleared. *)
MarksOnlyBelow ==
  \A k \in Ids :
    /\ k \in Ids' /\ (table[k].revoked => table'[k].revoked)
    /\ table'[k].revoked /\ ~ table[k].revoked =>
         \E c \in HeldCaps : c.id \in Ancestors(k) /\ c \notin HeldCaps'

(* Revocation is final and hits nothing beside: revoke() of cap/derive.rs  *)
(* marks the capability it is called with and what was derived from it, no *)
(* sibling and no ancestor, and no later call makes a revoked entry valid. *)
RevokesOnlyBelow == [][MarksOnlyBelow]_vars

(* After a revocation no capability derived from the revoked one grants a  *)
(* right: what the look-up of IPC finds rests on an unrevoked capability   *)
(* (cap/README.md: everything derived from it is cut off at once).         *)
RevokedUnusable ==
  \A p \in Pids, o \in Objects, r \in Rights :
    RightFound(p, o, r) =>
      \E i \in Slots : slots[p][i] # None /\ slots[p][i].obj = o
                       /\ r \in slots[p][i].rights /\ ~ table[slots[p][i].id].revoked

-----------------------------------------------------------------------------
(* The inductive strengthening.  A child entry that its parent could not   *)
(* take in is held by nobody, and everything that is held hangs on its     *)
(* ancestors by children links, the links revoke() follows.                *)
Hangs(i) == table[i].parent # None => i \in Children(table[i].parent)

TreeShape ==
  \A i \in Ids :
    /\ table[i].parent # None =>
         /\ table[i].parent \in Ids
         /\ Hangs(table[i].parent)
         /\ table[i].rights \subseteq table[table[i].parent].rights
         /\ table[i].obj = table[table[i].parent].obj
    /\ \A c \in Children(i) : c \in Ids /\ table[c].parent = i

MarksGoDown ==
  \A i \in Ids : table[i].revoked => \A c \in Children(i) : table[c].revoked

HeldHang ==
  \A c \in HeldCaps : /\ c.id \in Ids /\ Hangs(c.id)
                      /\ c.rights = table[c.id].rights /\ c.obj = table[c.id].obj

CapInv == TypeOK /\ TreeShape /\ MarksGoDown /\ HeldHang /\ HeldOnce

=============================================================================
