------------------------------- MODULE SeqNum -------------------------------
(***************************************************************************)
(* The serial arithmetic of the sequence number every NetworkTables entry  *)
(* carries.  The code keeps it in 16 bits (SeqSpace = 65536) and decides     *)
(* which of two values of an entry is the later one by comparing numbers   *)
(* "around the circle".                                                    *)
(***************************************************************************)
EXTENDS Integers

CONSTANT SeqSpace    \* how many sequence numbers there are; 2^16 in the code

ASSUME SeqSpaceAssumption == SeqSpace \in Nat /\ SeqSpace >= 4 /\ SeqSpace % 2 = 0

SeqNums == 0 .. (SeqSpace - 1)

Half == SeqSpace \div 2

\* A sequence number that is k steps later.
Later(a, k) == (a + k) % SeqSpace

IncrementSeqnum(a) == Later(a, 1)

\* isSeqNewerThan: a > b.  Two numbers exactly half the circle apart are
\* not newer than each other.
IsSeqNewerThan(a, b) ==
    \/ a < b /\ b - a > Half
    \/ a > b /\ a - b < Half

\* isSeqNewerOrEqual: a >= b.
IsSeqNewerOrEqual(a, b) == a = b \/ IsSeqNewerThan(a, b)

=============================================================================
