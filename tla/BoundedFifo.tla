---------------------------- MODULE BoundedFifo ----------------------------
(***************************************************************************)
(* What a wait queue of the kernel promises its users: a FIFO of threads   *)
(* that refuses a push when it is full, and from which a thread that gave  *)
(* up waiting can be taken out.                                            *)
(***************************************************************************)
EXTENDS Queues

CONSTANTS Threads, Cap, None

VARIABLES
  q,    \* the waiting threads, front first
  out   \* what the last operation returned

Init == q = << >> /\ out = None

Push(t) ==
  /\ IF Len(q) < Cap THEN q' = Append(q, t) /\ out' = "Ok"
                     ELSE q' = q /\ out' = "Err"

Pop ==
  /\ IF q = << >> THEN q' = q /\ out' = None
                  ELSE q' = Tail(q) /\ out' = Head(q)

Remove(t) == q' = Without(q, t) /\ out' = "Ok"

Next ==
  \/ \E t \in Threads : Push(t) \/ Remove(t)
  \/ Pop

Spec == Init /\ [][Next]_<<q, out>>

=============================================================================
