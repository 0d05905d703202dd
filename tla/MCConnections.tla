---------------------------- MODULE MCConnections ----------------------------
(***************************************************************************)
(* Connections for TLC: one listener or none, and the starts that are      *)
(* tried.                                                                  *)
(***************************************************************************)
EXTENDS Connections, TLC

CONSTANTS l1

OneListener == {l1}
NoListener == {}

ServerOrClient == {<< "server" >>, << "client" >>}
ServerOrClientAgain == {<< "server" >>, << "client", "client" >>}
=============================================================================
