---------------------------- MODULE MCDriveUploads ----------------------------
(* DriveUploads with a few capabilities, files and requests, for TLC. *)
EXTENDS DriveUploads, TLC

Symmetric == Permutations(Starts) \cup Permutations(Files) \cup Permutations(Requests)
===============================================================================
