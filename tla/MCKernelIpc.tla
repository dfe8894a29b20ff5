---------------------------- MODULE MCKernelIpc ----------------------------
(***************************************************************************)
(* Instances of KernelIpc for TLC: who runs which program.                 *)
(***************************************************************************)
EXTENDS KernelIpc, TLC

CONSTANTS s, a, b, d, p, ch1, ch2, n1

(* Peers a, b and d use every untimed call; p is always runnable, as a shell  *)
(* polling the console with yield is.                                      *)
PeerProgram ==
  (a :> {"send", "recv", "call", "notifyWait", "notifySend"}) @@
  (b :> {"send", "recv", "notifyWait", "notifySend"}) @@
  (d :> {"send", "recv", "notifyWait", "yield"}) @@ (p :> {"yield", "notifySend"})

PeerUses == [t \in Threads |-> IF t = d THEN {ch1} ELSE Channels]
OnAll == [t \in Threads |-> Channels]

(* Two clients of the file server on its one channel.                      *)
TwoClientProgram ==
  (s :> {"serve"}) @@ (a :> {"call"}) @@ (b :> {"call"}) @@ (p :> {"yield"})

(* Timed calls on ch1 to a server b that takes requests and never answers, *)
(* and timed receives on ch2 where nobody sends: every deadline passes.    *)
(* Beside them b waits for signals of p, and d for either.                 *)
DeafProgram ==
  (a :> {"callT", "recvT"}) @@ (b :> {"recv", "notifyWait"}) @@
  (d :> {"recvT", "notifyWait"}) @@ (p :> {"yield", "notifySend"})
DeafUses == [t \in Threads |-> IF t = d THEN {ch2} ELSE {ch1}]

(* A receiver with a timeout, a sender, and a thread that polls.           *)
TimeoutProgram == (a :> {"recvT"}) @@ (b :> {"send"}) @@ (p :> {"yield"})

(* Two threads and nobody to keep the CPU when both wait.                  *)
IdleProgram == (a :> {"notifyWait"}) @@ (b :> {"notifyWait", "notifySend"})

=============================================================================
