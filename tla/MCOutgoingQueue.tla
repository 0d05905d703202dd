-------------------------- MODULE MCOutgoingQueue --------------------------
(* OutgoingQueue for TLC: the values a and b of one type, d of another. *)
EXTENDS OutgoingQueue, TLC

CONSTANTS n1, n2, a, b, d

Types == (a :> "double") @@ (b :> "double") @@ (d :> "string")

\* A user who never clears, and one who never makes an entry persistent.
FlagsOrClear == {{"write", "flags", "delete"}, {"write", "delete", "clear"}}

FlagsAndClear == {{"write", "flags", "clear"}}

Symmetric == Permutations(Names)
=============================================================================
