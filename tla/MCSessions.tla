----------------------------- MODULE MCSessions -----------------------------
(* Instances of Sessions for TLC: the tick pays agent 2 in the auction, so   *)
(* that it locks the rows in another order than a request; agent 1 is fined  *)
(* more than it has at the start, or has a salary to pay, or both.           *)
EXTENDS Sessions

Cases == {<<1, 2, 2>>}
Jobs  == {<<1, 2>>}
=============================================================================
