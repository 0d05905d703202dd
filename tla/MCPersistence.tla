--------------------------- MODULE MCPersistence ---------------------------
(* Persistence for TLC: "empty" is the array [""], which is read as []. *)
EXTENDS Persistence, TLC

CONSTANTS n1, n2, nil, empty

Types == (nil :> "string array") @@ (empty :> "string array")

ReadNil == (nil :> nil) @@ (empty :> nil)

ReadAll == (nil :> nil) @@ (empty :> empty)
=============================================================================
