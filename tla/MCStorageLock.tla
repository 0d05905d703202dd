--------------------------- MODULE MCStorageLock ---------------------------
(* StorageLock for TLC. *)
EXTENDS StorageLock, TLC

CONSTANTS t1, t2, t3

Symmetric == Permutations(Threads)
=============================================================================
