---------------------------- MODULE MCTickEngine ----------------------------
(* Instances of TickEngine for TLC: two events of one category, of which one  *)
(* outlasts the tick that fires it.                                           *)
EXTENDS TickEngine

CONSTANTS drought, storm

Category(e) == "weather"
Duration(e) == IF e = storm THEN 1 ELSE 2
=============================================================================
