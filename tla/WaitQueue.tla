----------------------------- MODULE WaitQueue -----------------------------
(***************************************************************************)
(* The ring buffer behind every wait queue of a channel: ipc/channel.rs    *)
(* WaitQueue with push, pop and remove_by_tid.  NotifyWaitQueue in         *)
(* ipc/notification.rs and RingBuffer in sche/queue.rs are the same ring   *)
(* with the same push and pop.                                             *)
(***************************************************************************)
EXTENDS Naturals, Sequences

CONSTANTS
  Threads,
  Cap,         \* WAIT_QUEUE_CAP
  None,        \* an empty slot (Option::None)
  FullRemoval  \* may the head of a full ring be removed?

ASSUME RingAssumption ==
  /\ Cap \in Nat \ {0}
  /\ None \notin Threads
  /\ FullRemoval \in BOOLEAN

VARIABLES
  items, head, tail, count,  \* the fields of WaitQueue
  out                        \* what the last operation returned

ringVars == <<items, head, tail, count>>
vars == <<items, head, tail, count, out>>

Slots == 0 .. (Cap - 1)

(* i % WAIT_QUEUE_CAP, for the i below 2 * WAIT_QUEUE_CAP that occur.      *)
Wrap(i) == IF i >= Cap THEN i - Cap ELSE i

TypeOK ==
  /\ items \in [Slots -> Threads \cup {None}]
  /\ head \in Slots
  /\ tail \in Slots
  /\ count \in 0 .. Cap

Init ==
  /\ items = [i \in Slots |-> None]
  /\ head = 0 /\ tail = 0 /\ count = 0
  /\ out = None

(* Mutant: a full ring is not refused.                                     *)
PushUnchecked(t) ==
  /\ items' = [items EXCEPT ![tail] = t]
  /\ tail' = Wrap(tail + 1)
  /\ count' = count + 1
  /\ out' = "Ok"
  /\ UNCHANGED head

Push(t) ==
  \/ /\ count >= Cap
     /\ out' = "Err"
     /\ UNCHANGED ringVars
  \/ /\ count < Cap
     /\ items' = [items EXCEPT ![tail] = t]
     /\ tail' = Wrap(tail + 1)
     /\ count' = count + 1
     /\ out' = "Ok"
     /\ UNCHANGED head

Pop ==
  \/ /\ count = 0
     /\ out' = None
     /\ UNCHANGED ringVars
  \/ /\ count # 0
     /\ out' = items[head]
     /\ items' = [items EXCEPT ![head] = None]
     /\ head' = Wrap(head + 1)
     /\ count' = count - 1
     /\ UNCHANGED tail

(* Mutant: the loop stops at the end of the array.                         *)
MovedToEnd(idx) == IF idx < tail THEN tail - idx - 1 ELSE Cap - 1 - idx

(* The compaction loop of remove_by_tid, started on the slot idx that was  *)
(* just emptied: it moves every entry between idx and tail one slot        *)
(* forward, and none when idx is the tail.                                 *)
Moved(idx) ==
  CASE idx = tail -> 0
    [] idx < tail -> tail - idx - 1
    [] OTHER      -> tail + Cap - idx - 1

Offset(i, from) == IF i >= from THEN i - from ELSE i + Cap - from

(* Mutant: the last entry takes the place of the removed one.              *)
CompactedSwap(idx) ==
  LET last == Wrap(idx + Moved(idx))
  IN  [items EXCEPT ![idx] = items[last], ![last] = None]

Compacted(idx) ==
  [i \in Slots |->
     CASE Offset(i, idx) < Moved(idx) -> items[Wrap(i + 1)]
       [] Offset(i, idx) = Moved(idx) -> None
       [] OTHER                       -> items[i]]

(* i is where the scan from head on meets the thread.                      *)
FoundAt(t, i) ==
  /\ items[Wrap(head + i)] = t
  /\ \A j \in 0 .. (i - 1) : items[Wrap(head + j)] # t

RemoveByTid(t) ==
  /\ FullRemoval \/ count < Cap \/ items[head] # t
  /\ \/ \E i \in Slots :
          /\ FoundAt(t, i)
          /\ LET idx == Wrap(head + i)
             IN  /\ items' = Compacted(idx)
                 /\ tail' = Wrap(idx + Moved(idx))
          /\ count' = count - 1
          /\ UNCHANGED head
     \/ /\ \A i \in Slots : items[i] # t
        /\ UNCHANGED ringVars
  /\ out' = "Ok"

Next ==
  \/ \E t \in Threads : Push(t) \/ RemoveByTid(t)
  \/ Pop

Spec == Init /\ [][Next]_vars

-----------------------------------------------------------------------------
(* The count entries from head on are occupied and the other slots empty,  *)
(* with tail right behind them: pop() with count > 0 always returns a      *)
(* waiting thread ("Compact: shift subsequent elements forward to fill the *)
(* gap", channel.rs).                                                      *)
NoHoles ==
  /\ tail = Wrap(head + count)
  /\ \A i \in Slots : items[Wrap(head + i)] # None <=> i < count

(* The ring as the queue it represents.                                    *)
Contents == [i \in 1 .. count |-> items[Wrap(head + i - 1)]]

Fifo == INSTANCE BoundedFifo WITH q <- Contents

(* The ring implements the bounded FIFO: threads leave in the order they   *)
(* came, whatever the wrap-around and the removals in between, and a       *)
(* removal takes out its thread and nobody else.                           *)
ImplementsFifo == Fifo!Spec

=============================================================================
