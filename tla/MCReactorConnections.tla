------------------------ MODULE MCReactorConnections ------------------------
(* ReactorConnections with one reactor, which all connections share: what  *)
(* one of them does may keep the others waiting.  The safety properties,   *)
(* which are proved for any number of reactors, are checked along.         *)
EXTENDS ReactorConnections
=============================================================================
