------------------------------ MODULE MCNTSync ------------------------------
(***************************************************************************)
(* NTSync for TLC: two clients, the values a and b of one type and d of    *)
(* another, and for each node the kinds of operations it performs.         *)
(***************************************************************************)
EXTENDS NTSync, TLC

CONSTANTS c1, c2, n1, n2, a, b, d

Types == (a :> "double") @@ (b :> "double") @@ (d :> "string")

\* Every node does everything.
EveryoneAll == [p \in Nodes |-> OpKinds]

\* One client writes and sets flags.
OneWriter == [p \in Nodes |-> IF p = c1 THEN {"write", "flags"} ELSE {}]

\* The code compares types only for being different, so two values of
\* different types can be exchanged, as clients and names can.
Interchangeable ==
    Permutations(Clients) \cup Permutations(Values) \cup Permutations(Names)

\* Bound: a connection breaks or the server restarts, not both.
OneFailure == breaks + restarts <= 1
=============================================================================
