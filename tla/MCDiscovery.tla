---------------------------- MODULE MCDiscovery -----------------------------
(* Auto plays are interchangeable. *)
EXTENDS SourceDiscovery, TLC

AnyAuto == Permutations(Autos)
=============================================================================
