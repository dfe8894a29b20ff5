---------------------------- MODULE ProcessTree ----------------------------
(***************************************************************************)
(* What the thread table promises of the life of a thread, without         *)
(* scheduler, slots, generations or memory: every thread lives once.  It   *)
(* is born to a parent that lives, or to none; it exits; and then its own  *)
(* parent, and nobody else, collects it, once.                             *)
(***************************************************************************)
CONSTANTS Threads, None

VARIABLES
  life,   \* per thread: "unborn", "alive", "zombie" or "gone"
  parent  \* per thread: who may collect it

treeVars == <<life, parent>>

Init ==
  /\ \E first \in SUBSET Threads :
       life = [t \in Threads |-> IF t \in first THEN "alive" ELSE "unborn"]
  /\ parent = [t \in Threads |-> None]

Birth(t, p) ==
  /\ life[t] = "unborn"
  /\ p = None \/ life[p] = "alive"
  /\ life' = [life EXCEPT ![t] = "alive"]
  /\ parent' = [parent EXCEPT ![t] = p]

Exit(t) ==
  /\ life[t] = "alive"
  /\ life' = [life EXCEPT ![t] = "zombie"]
  /\ UNCHANGED parent

(* By the parent of t, which lives.                                        *)
Collect(t) ==
  /\ life[t] = "zombie"
  /\ parent[t] # None /\ life[parent[t]] = "alive"
  /\ life' = [life EXCEPT ![t] = "gone"]
  /\ parent' = [parent EXCEPT ![t] = None]

Next ==
  \E t \in Threads :
    \/ \E p \in Threads \cup {None} : Birth(t, p)
    \/ Exit(t)
    \/ Collect(t)

Spec == Init /\ [][Next]_treeVars

=============================================================================
