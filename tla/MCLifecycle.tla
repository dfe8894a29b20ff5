---------------------------- MODULE MCLifecycle ----------------------------
(* Constants of the Lifecycle run: the boot thread, three more slots, of   *)
(* which the second is used twice, and three address-space slots, of which *)
(* the third is used twice.                                                *)
EXTENDS Lifecycle

Ids(slot, gens) == [i : {slot}, g : 1 .. gens]

MCThreads == Ids(0, 1) \cup Ids(1, 1) \cup Ids(2, 2) \cup Ids(3, 1)
MCSpaces  == Ids(0, 1) \cup Ids(1, 1) \cup Ids(2, 2)

=============================================================================
