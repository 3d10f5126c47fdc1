----------------------------- MODULE MCSociety -----------------------------
(* Instances of Society for TLC.  ada can pay for everything, bob for little; *)
(* wheat grows where bob is.                                                  *)
EXTENDS Society

CONSTANTS ada, bob, wheat

Balances == [a \in Agents |-> IF a = ada THEN 10000 ELSE 600]

Scores == [a \in Agents |-> IF a = ada THEN 60 ELSE 20]

Stock == [a \in Agents |-> [i \in Items |-> 1]]

Hauls == [a \in Agents |-> IF a = bob THEN {[i \in Items |-> IF i = wheat THEN 1 ELSE 0]}
                                      ELSE {[i \in Items |-> 0]}]

\* A gift, and a quantity that passes only because the request names the same good.
Each(n) == [i \in Items |-> n]
Trades  == {<<Each(1), Each(0)>>, <<Each(-1), Each(1)>>}
=============================================================================
