------------------------------ MODULE MCMarket ------------------------------
(* Instances of Market for TLC: which rows and which agents is immaterial.   *)
EXTENDS Market, TLC

\* Requests within the limits and on both sides of them.
Asked == -1..3

Symmetry == Permutations(Agents) \cup Permutations(Orders)
=============================================================================
