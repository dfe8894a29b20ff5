------------------------------- MODULE Queues -------------------------------
(***************************************************************************)
(* Operations on queues of threads, seen as sequences (front first).       *)
(***************************************************************************)
EXTENDS Naturals, Sequences

(* The queue without the first entry of t, if it has one.                  *)
Without(q, t) ==
  IF \E i \in 1 .. Len(q) : q[i] = t
  THEN LET first == CHOOSE i \in 1 .. Len(q) :
                      q[i] = t /\ \A j \in 1 .. (i - 1) : q[j] # t
       IN  SubSeq(q, 1, first - 1) \o SubSeq(q, first + 1, Len(q))
  ELSE q

(* The queue with t put after its first i entries.                         *)
Inserted(q, i, t) == SubSeq(q, 1, i) \o <<t>> \o SubSeq(q, i + 1, Len(q))

=============================================================================
