--------------------------- MODULE MCConnections ---------------------------
(* Instances of Connections for TLC: agents and sockets are model values.    *)
EXTENDS Connections
=============================================================================
