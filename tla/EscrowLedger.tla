---------------------------- MODULE EscrowLedger ----------------------------
(***************************************************************************)
(* What the market promises about money and goods, without prices, books   *)
(* or priorities: every order is an escrow with one owner, and cash and    *)
(* goods only ever move                                                    *)
(*   - from a wallet into a fresh escrow of the same agent,                *)
(*   - from an escrow back to its owner, all of it, or                     *)
(*   - between two escrows of different owners, cash one way and goods the *)
(*     other, out of what is held.                                         *)
(* Market implements this specification (Market!LedgerSpec).               *)
(***************************************************************************)
EXTENDS Integers, FiniteSets, Functions

CONSTANTS Agents,      (* the agents that own wallets                      *)
          Items,       (* the kinds of goods                               *)
          Orders,      (* the escrows                                      *)
          NoOwner,     (* the owner of an escrow that was never opened     *)
          InitBalance, (* cash of every wallet at the start                *)
          InitStock    (* units of every good in every wallet at the start *)

VARIABLES cash,      (* cash[a]: the wallet of agent a                      *)
          goods,     (* goods[a][i]: units of item i agent a has            *)
          owner,     (* owner[o]: whose escrow o is                         *)
          heldCash,  (* heldCash[o]: cash in escrow o                       *)
          heldGoods  (* heldGoods[o][i]: units of item i in escrow o        *)

vars == <<cash, goods, owner, heldCash, heldGoods>>

NoGoods == [i \in Items |-> 0]

Init ==
  /\ cash = [a \in Agents |-> InitBalance]
  /\ goods = [a \in Agents |-> [i \in Items |-> InitStock]]
  /\ owner = [o \in Orders |-> NoOwner]
  /\ heldCash = [o \in Orders |-> 0]
  /\ heldGoods = [o \in Orders |-> NoGoods]

\* A wallet pays amount units of cash into a fresh escrow.
LockCash(o, a, amount) ==
  /\ owner[o] = NoOwner
  /\ amount <= cash[a]
  /\ owner' = [owner EXCEPT ![o] = a]
  /\ cash' = [cash EXCEPT ![a] = @ - amount]
  /\ heldCash' = [heldCash EXCEPT ![o] = amount]
  /\ UNCHANGED <<goods, heldGoods>>

\* A wallet puts q units of item i into a fresh escrow.
LockGoods(o, a, i, q) ==
  /\ owner[o] = NoOwner
  /\ q <= goods[a][i]
  /\ owner' = [owner EXCEPT ![o] = a]
  /\ goods' = [goods EXCEPT ![a][i] = @ - q]
  /\ heldGoods' = [heldGoods EXCEPT ![o][i] = q]
  /\ UNCHANGED <<cash, heldCash>>

\* An escrow is dissolved: everything it holds goes back to its owner.
Return(o) ==
  /\ owner[o] # NoOwner
  /\ cash' = [cash EXCEPT ![owner[o]] = @ + heldCash[o]]
  /\ goods' = [goods EXCEPT ![owner[o]] = [i \in Items |-> @[i] + heldGoods[o][i]]]
  /\ heldCash' = [heldCash EXCEPT ![o] = 0]
  /\ heldGoods' = [heldGoods EXCEPT ![o] = NoGoods]
  /\ UNCHANGED owner

\* q units of i leave escrow s for the owner of b; pay leaves escrow b for the
\* owner of s, and back leaves escrow b for its own owner.
Exchange(b, s, i, q, pay, back) ==
  /\ owner[b] # NoOwner /\ owner[s] # NoOwner
  /\ owner[b] # owner[s]
  /\ q <= heldGoods[s][i]
  /\ pay + back <= heldCash[b]
  /\ cash' = [cash EXCEPT ![owner[s]] = @ + pay, ![owner[b]] = @ + back]
  /\ goods' = [goods EXCEPT ![owner[b]][i] = @ + q]
  /\ heldCash' = [heldCash EXCEPT ![b] = @ - (pay + back)]
  /\ heldGoods' = [heldGoods EXCEPT ![s][i] = @ - q]
  /\ UNCHANGED owner

Next ==
  \/ \E o \in Orders, a \in Agents : \E amount \in 1..cash[a] : LockCash(o, a, amount)
  \/ \E o \in Orders, a \in Agents, i \in Items : \E q \in 1..goods[a][i] : LockGoods(o, a, i, q)
  \/ \E o \in Orders : Return(o)
  \/ \E b, s \in Orders, i \in Items :
       \E q \in 1..heldGoods[s][i], pay, back \in 0..heldCash[b] :
         Exchange(b, s, i, q, pay, back)

Spec == Init /\ [][Next]_vars

-----------------------------------------------------------------------------
\* Cash and goods are neither created nor destroyed by the exchange: what is in
\* wallets and escrows together never changes.
TotalCash == SumFunctionOnSet(cash, Agents) + SumFunctionOnSet(heldCash, Orders)
TotalGoods(i) == SumFunctionOnSet([a \in Agents |-> goods[a][i]], Agents)
                   + SumFunctionOnSet([o \in Orders |-> heldGoods[o][i]], Orders)
Conservation ==
  /\ TotalCash = InitBalance * Cardinality(Agents)
  /\ \A i \in Items : TotalGoods(i) = InitStock * Cardinality(Agents)
=============================================================================
