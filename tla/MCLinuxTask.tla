---------------------------- MODULE MCLinuxTask ----------------------------
(* Constants of the LinuxTask run: one file of one payload, one of two.    *)
EXTENDS LinuxTask

CONSTANTS a, b

MCSize == [path \in {a, b} |-> IF path = a THEN 1 ELSE 2]

=============================================================================
