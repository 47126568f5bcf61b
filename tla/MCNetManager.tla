---------------------------- MODULE MCNetManager ----------------------------
(***************************************************************************)
(* NetManager with few connections, descriptors and callers.               *)
(***************************************************************************)
EXTENDS NetManager, TLC

(* Connections, hosts and callers are interchangeable. *)
Interchangeable == Permutations(Peer) \cup Permutations(Host) \cup Permutations(Caller)

(* All variables but out, which no guard reads. *)
AllButOut == <<listening, registry, objects, worker, adder, callers, sending, kernel>>
=============================================================================
