----------------------------- MODULE MCSyncProtocol -----------------------------
(* SyncProtocol with two browsers and a few operations, for TLC. *)
EXTENDS SyncProtocol, TLC

Symmetric == Permutations(Clients)
===============================================================================
