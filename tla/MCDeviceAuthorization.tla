------------------------- MODULE MCDeviceAuthorization -------------------------
(* DeviceAuthorization on small sets of devices and requests, for TLC. *)
EXTENDS DeviceAuthorization, TLC

Symmetric == Permutations(Devices) \cup Permutations(Tokens) \cup
             Permutations(Requests) \cup Permutations(Clis)
===============================================================================
