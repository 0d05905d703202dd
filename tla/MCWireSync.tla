----------------------------- MODULE MCWireSync -----------------------------
(***************************************************************************)
(* WireSync for TLC: a boolean, a raw value, and an array that either      *)
(* revision cuts, of strings that revision 2 cuts and that take two LEB128 *)
(* digits; and what they are cut to.                                       *)
(***************************************************************************)
EXTENDS WireSync, TLC

V(type, data) == [type |-> type, data |-> data]

SomeValues ==
    {V("boolean", TRUE), V("raw", 2),
     V("string[]", << 3, 3 >>), V("string[]", << 3 >>), V("string[]", << 2 >>)}

TypesOfValues == [v \in SomeValues |-> v.type]
=============================================================================
