----------------------------- MODULE Rendezvous -----------------------------
(***************************************************************************)
(* What the IPC of the kernel promises its callers, without scheduler,     *)
(* queues, system call phases or deadlines: threads meet on channels.      *)
(*                                                                         *)
(* A thread waits in at most one place.  A message goes from one sender to *)
(* one receiver of the same channel, exactly once, and names its sender;   *)
(* nobody waits on a channel where a partner is waiting already.  A        *)
(* receiver may give up, and then has received nothing.  A signal releases *)
(* one waiter of the notification, or is remembered when there is none.    *)
(***************************************************************************)
CONSTANTS
  Threads, Channels, Notifs,
  Buffered,  \* the threads that have somewhere to receive a message
  Message    \* what a message may be: a record that names its sender, src

VARIABLES
  senders,    \* per channel: the waiting senders, each with its message
  receivers,  \* per channel: the waiting receivers
  waiters,    \* per notification: the waiting threads
  pending,    \* per notification: a signal nobody has taken yet
  box         \* per thread: the last message handed to it

chans == <<senders, receivers>>
notifs == <<waiters, pending>>
rdvVars == <<chans, notifs, box>>

Init ==
  /\ senders = [c \in Channels |-> {}]
  /\ receivers = [c \in Channels |-> {}]
  /\ waiters = [n \in Notifs |-> {}]
  /\ pending = [n \in Notifs |-> FALSE]

(* t waits nowhere.                                                        *)
Free(t) ==
  /\ \A c \in Channels : t \notin receivers[c] /\ \A e \in senders[c] : e.tid # t
  /\ \A n \in Notifs : t \notin waiters[n]

Receives(t, m) == box' = IF t \in Buffered THEN [box EXCEPT ![t] = m] ELSE box

SendWaits(t, c, m) ==
  /\ m.src = t
  /\ receivers[c] = {}
  /\ senders' = [senders EXCEPT ![c] = @ \cup {[tid |-> t, msg |-> m]}]
  /\ UNCHANGED <<receivers, notifs, box>>

(* t, which does not wait, meets a waiting receiver.                       *)
Hand(t, c, r, m) ==
  /\ m.src = t
  /\ r \in receivers[c]
  /\ receivers' = [receivers EXCEPT ![c] = @ \ {r}]
  /\ Receives(r, m)
  /\ UNCHANGED <<senders, notifs>>

RecvWaits(t, c) ==
  /\ senders[c] = {}
  /\ receivers' = [receivers EXCEPT ![c] = @ \cup {t}]
  /\ UNCHANGED <<senders, notifs, box>>

(* t, which does not wait, meets a waiting sender.                         *)
Take(t, c, e) ==
  /\ e \in senders[c]
  /\ senders' = [senders EXCEPT ![c] = @ \ {e}]
  /\ Receives(t, e.msg)
  /\ UNCHANGED <<receivers, notifs>>

GiveUp(t, c) ==
  /\ t \in receivers[c]
  /\ receivers' = [receivers EXCEPT ![c] = @ \ {t}]
  /\ UNCHANGED <<senders, notifs, box>>

Release(n, w) ==
  /\ w \in waiters[n]
  /\ waiters' = [waiters EXCEPT ![n] = @ \ {w}]
  /\ UNCHANGED <<chans, pending, box>>

Remember(n) ==
  /\ waiters[n] = {}
  /\ pending' = [pending EXCEPT ![n] = TRUE]
  /\ UNCHANGED <<chans, waiters, box>>

Await(t, n) ==
  /\ \/ /\ pending[n]
        /\ pending' = [pending EXCEPT ![n] = FALSE]
        /\ UNCHANGED waiters
     \/ /\ ~ pending[n]
        /\ waiters' = [waiters EXCEPT ![n] = @ \cup {t}]
        /\ UNCHANGED pending
  /\ UNCHANGED <<chans, box>>

(* What a thread that does not wait may do, and what befalls one that does. *)
Next ==
  \/ \E t \in Threads :
       /\ Free(t)
       /\ \/ \E c \in Channels :
               \/ \E m \in Message : SendWaits(t, c, m) \/ \E r \in receivers[c] : Hand(t, c, r, m)
               \/ RecvWaits(t, c)
               \/ \E e \in senders[c] : Take(t, c, e)
          \/ \E n \in Notifs : Await(t, n)
  \/ \E c \in Channels : \E r \in receivers[c] : GiveUp(r, c)
  \/ \E n \in Notifs : Remember(n) \/ \E w \in waiters[n] : Release(n, w)

Spec == Init /\ [][Next]_rdvVars

=============================================================================
