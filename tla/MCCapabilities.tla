-------------------------- MODULE MCCapabilities --------------------------
(***************************************************************************)
(* Capabilities for TLC: interchangeable processes.                        *)
(***************************************************************************)
EXTENDS Capabilities, TLC

Symmetry == Permutations(Pids)

=============================================================================
