---------------------------- MODULE MCDashboard ----------------------------
(***************************************************************************)
(* Instances of Dashboard: a local session a, its successor a2 of the same *)
(* name, another user's local session b, and session c of a peer.          *)
(***************************************************************************)
EXTENDS Dashboard

CONSTANTS a, a2, b, c, h1, ann, bob

OnePeer == <<h1>>
Hosting == [k \in Keys |-> IF k = c THEN h1 ELSE Local]
Owning == [k \in Keys |-> IF k = b THEN bob ELSE ann]
Naming == [k \in Keys |-> IF k = a2 THEN a ELSE k]
=============================================================================
