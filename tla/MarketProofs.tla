---------------------------- MODULE MarketProofs ----------------------------
(***************************************************************************)
(* Theorems about Market, for every value of its constants.                *)
(***************************************************************************)
EXTENDS Market, SumLemmas, TLAPS

(* Types, the agreement of status and fill, and what an auction has queued:
   each needs the others to be preserved by a step. *)
MarketInv == TypeOK /\ FillAgreesWithStatus /\ QueueIsLive

-----------------------------------------------------------------------------
(* Arithmetic the market relies on. *)

\* The price of a match, the floor of the midpoint, lies between the two limits.
LEMMA Midpoint ==
  ASSUME NEW x \in Nat \ {0}, NEW y \in Nat \ {0}, y <= x
  PROVE  LET m == (x + y) \div 2 IN m \in Nat \ {0} /\ y <= m /\ m <= x
OBVIOUS

\* A product of naturals is a natural.
LEMMA ProductNat ==
  ASSUME NEW x \in Nat, NEW y \in Nat
  PROVE  x * y \in Nat
OBVIOUS

-----------------------------------------------------------------------------
(* Facts about an order of a state that satisfies MarketInv. *)

\* An order in the book has terms, and a live one has something left to trade.
LEMMA LiveOrder ==
  ASSUME MarketInv, NEW o \in Orders, status[o] \in Live
  PROVE  /\ terms[o] \in OrderTerms
         /\ Remaining(o) \in Nat \ {0}
         /\ Remaining(o) + filled[o] = terms[o].quantity
<1>1. terms[o] \in OrderTerms
  BY DEF MarketInv, TypeOK, FillAgreesWithStatus, Live
<1>2. filled[o] \in Nat /\ terms[o].quantity \in Nat \ {0}
  BY <1>1 DEF MarketInv, TypeOK, OrderTerms
<1>3. filled[o] < terms[o].quantity
  BY <1>2 DEF MarketInv, FillAgreesWithStatus, Live
<1> QED BY <1>1, <1>2, <1>3 DEF Remaining

\* The initial state satisfies the invariant.
LEMMA InitInv == Init => MarketInv
BY MarketAssumption
   DEF Init, MarketInv, TypeOK, FillAgreesWithStatus, QueueIsLive, Statuses, Live, Final

\* Placing an order preserves the invariant.
LEMMA PlaceOrderInv == MarketInv /\ PlaceOrder => MarketInv'
<1> SUFFICES ASSUME MarketInv,
                    NEW o \in Orders, NEW a \in Agents, NEW i \in Items,
                    NEW p \in AskedPrices, NEW q \in AskedQuantities, NEW e \in Expiries,
                    PlaceBuy(o, a, i, p, q, e) \/ PlaceSell(o, a, i, p, q, e)
             PROVE  MarketInv'
  BY DEF PlaceOrder
<1> DEFINE side == IF PlaceBuy(o, a, i, p, q, e) THEN "BUY" ELSE "SELL"
           row  == [agent |-> a, item |-> i, side |-> side, price |-> p, quantity |-> q,
                    created |-> tick, expires |-> e]
<1>1. NewOrder(o, a, i, side, p, q, e) /\ side \in Sides
  BY DEF PlaceBuy, PlaceSell, Sides
<1>2. p \in Nat \ {0} /\ q \in Nat \ {0} /\ p * q \in Nat
  <2>1. p \in Int /\ q \in Int /\ p > 0 /\ q > 0
    BY <1>1, MarketAssumption DEF NewOrder, ValidOrder
  <2> QED BY <2>1, ProductNat
<1>3. row \in OrderTerms
  <2>1. tick \in Nat /\ e \in Nat \cup {NoExpiry}
    BY MarketAssumption DEF MarketInv, TypeOK
  <2> QED BY <1>1, <1>2, <2>1 DEF OrderTerms
<1>4. row # NoTerms
  BY <1>3, MarketAssumption
<1> HIDE DEF side
<1>5. /\ phase = "idle" /\ status[o] = "NONE"
      /\ terms' = [terms EXCEPT ![o] = row]
      /\ status' = [status EXCEPT ![o] = "OPEN"]
      /\ UNCHANGED <<tick, phase, queue, filled, totalTrades, totalEarnings, trades>>
  BY <1>1 DEF NewOrder, stats
<1> HIDE DEF row
<1>6. balance' \in [Agents -> Nat] /\ inventory' \in [Agents -> [Items -> Nat]]
  <2>1. CASE PlaceBuy(o, a, i, p, q, e)
    <3>1. balance[a] - p * q \in Nat
      BY <1>2, <2>1 DEF PlaceBuy, MarketInv, TypeOK
    <3> QED BY <2>1, <3>1 DEF PlaceBuy, MarketInv, TypeOK
  <2>2. CASE PlaceSell(o, a, i, p, q, e)
    <3>1. inventory[a][i] - q \in Nat
      BY <1>2, <2>2 DEF PlaceSell, MarketInv, TypeOK
    <3> QED BY <2>2, <3>1 DEF PlaceSell, MarketInv, TypeOK
  <2> QED BY <2>1, <2>2
<1>7. TypeOK'
  BY <1>3, <1>5, <1>6 DEF MarketInv, TypeOK, Statuses, Live
<1>8. FillAgreesWithStatus'
  BY <1>4, <1>5 DEF MarketInv, TypeOK, FillAgreesWithStatus
<1>9. QueueIsLive'
  BY <1>5 DEF MarketInv, TypeOK, QueueIsLive
<1> QED BY <1>7, <1>8, <1>9 DEF MarketInv

\* A refund of a live order keeps wallets natural.
LEMMA RefundTypes ==
  ASSUME MarketInv, NEW o \in Orders, status[o] \in Live, Refund(o)
  PROVE  balance' \in [Agents -> Nat] /\ inventory' \in [Agents -> [Items -> Nat]]
<1> DEFINE t == terms[o]
           r == Remaining(o)
<1>1. t \in OrderTerms /\ r \in Nat
  BY LiveOrder
<1>2. t.agent \in Agents /\ t.item \in Items /\ t.price \in Nat
  BY <1>1 DEF OrderTerms
<1> HIDE DEF r
<1>3. t.price * r \in Nat
  BY <1>1, <1>2, ProductNat
<1>4. balance[t.agent] + t.price * r \in Nat /\ inventory[t.agent][t.item] + r \in Nat
  BY <1>1, <1>2, <1>3 DEF MarketInv, TypeOK
<1>5. \/ balance' = [balance EXCEPT ![t.agent] = balance[t.agent] + t.price * r]
         /\ inventory' = inventory
      \/ inventory' = [inventory EXCEPT ![t.agent][t.item] = inventory[t.agent][t.item] + r]
         /\ balance' = balance
  BY DEF Refund, r, MarketInv, TypeOK
<1>6. balance \in [Agents -> Nat] /\ inventory \in [Agents -> [Items -> Nat]]
  BY DEF MarketInv, TypeOK
<1> HIDE DEF t
<1>7. [inventory[t.agent] EXCEPT ![t.item] = inventory[t.agent][t.item] + r] \in [Items -> Nat]
  BY <1>2, <1>4, <1>6
<1> QED BY <1>2, <1>4, <1>5, <1>6, <1>7

\* Cancelling preserves the invariant.
LEMMA CancelOrderInv ==
  ASSUME MarketInv, NEW o \in Orders, NEW a \in Agents, CancelOrder(o, a)
  PROVE  MarketInv'
<1>1. balance' \in [Agents -> Nat] /\ inventory' \in [Agents -> [Items -> Nat]]
  BY RefundTypes DEF CancelOrder
<1>2. filled[o] < terms[o].quantity
  BY LiveOrder DEF CancelOrder, MarketInv, TypeOK, FillAgreesWithStatus, Live, OrderTerms
<1>3. TypeOK'
  BY <1>1 DEF CancelOrder, MarketInv, TypeOK, Statuses, Final, stats
<1>4. FillAgreesWithStatus'
  BY <1>2 DEF CancelOrder, MarketInv, TypeOK, FillAgreesWithStatus, Live
<1>5. QueueIsLive'
  BY DEF CancelOrder, MarketInv, TypeOK, QueueIsLive
<1> QED BY <1>3, <1>4, <1>5 DEF MarketInv

\* Expiring an order preserves the invariant.
LEMMA ExpireOrderInv ==
  ASSUME MarketInv, NEW o \in Orders, ExpireOrder(o)
  PROVE  MarketInv'
<1>0. status[o] \in Live
  BY DEF ExpireOrder, MarketInv, QueueIsLive
<1>1. balance' \in [Agents -> Nat] /\ inventory' \in [Agents -> [Items -> Nat]]
  BY <1>0, RefundTypes DEF ExpireOrder
<1>2. filled[o] < terms[o].quantity
  BY <1>0, LiveOrder DEF MarketInv, TypeOK, FillAgreesWithStatus, Live, OrderTerms
<1>3. TypeOK'
  BY <1>1 DEF ExpireOrder, MarketInv, TypeOK, Statuses, Final, stats
<1>4. FillAgreesWithStatus'
  BY <1>0, <1>2 DEF ExpireOrder, MarketInv, TypeOK, FillAgreesWithStatus, Live
<1>5. QueueIsLive'
  BY DEF ExpireOrder, MarketInv, TypeOK, QueueIsLive, Remaining
<1> QED BY <1>3, <1>4, <1>5 DEF MarketInv

\* The two orders of a match: live orders of different agents for one item.
LEMMA MatchedOrders ==
  ASSUME MarketInv, NEW i \in Items,
         NEW b \in Heads(i, "BUY"), NEW s \in Heads(i, "SELL")
  PROVE  /\ b \in Orders /\ s \in Orders /\ b # s
         /\ b \in queue /\ s \in queue
         /\ status[b] \in Live /\ status[s] \in Live
         /\ terms[b].side = "BUY" /\ terms[s].side = "SELL"
         /\ terms[b].item = i /\ terms[s].item = i
<1>1. b \in QueueOf(i, "BUY") /\ s \in QueueOf(i, "SELL")
  BY DEF Heads
<1>2. /\ b \in queue /\ terms[b].item = i /\ terms[b].side = "BUY"
      /\ s \in queue /\ terms[s].item = i /\ terms[s].side = "SELL"
  BY <1>1 DEF QueueOf
<1>3. queue \subseteq Orders
  BY DEF MarketInv, TypeOK
<1> QED BY <1>2, <1>3 DEF MarketInv, QueueIsLive

\* What a match computes: its price lies between the limits, its quantity is positive
\* and fits in what remains of both orders.
LEMMA MatchNumbers ==
  ASSUME MarketInv, NEW b \in Orders, NEW s \in Orders,
         status[b] \in Live, status[s] \in Live, Crosses(b, s)
  PROVE  /\ MatchPrice(b, s) \in Nat \ {0}
         /\ terms[s].price <= MatchPrice(b, s) /\ MatchPrice(b, s) <= terms[b].price
         /\ MatchQuantity(b, s) \in Nat \ {0}
         /\ MatchQuantity(b, s) <= Remaining(b) /\ MatchQuantity(b, s) <= Remaining(s)
<1>1. /\ terms[b].price \in Nat \ {0} /\ terms[s].price \in Nat \ {0}
      /\ Remaining(b) \in Nat \ {0} /\ Remaining(s) \in Nat \ {0}
  BY LiveOrder DEF OrderTerms
<1>2. terms[s].price <= terms[b].price
  BY <1>1 DEF Crosses
<1>3. /\ MatchPrice(b, s) \in Nat \ {0}
      /\ terms[s].price <= MatchPrice(b, s) /\ MatchPrice(b, s) <= terms[b].price
  BY <1>1, <1>2, Midpoint DEF MatchPrice
<1> QED BY <1>1, <1>3 DEF MatchQuantity

\* A match leaves the fills, statuses and the queue in order.
LEMMA FillOrdersInv ==
  ASSUME MarketInv, NEW b \in Orders, NEW s \in Orders, b # s,
         b \in queue, s \in queue, status[b] \in Live, status[s] \in Live,
         NEW q \in Nat \ {0}, q <= Remaining(b), q <= Remaining(s),
         FillOrders(b, s, q), UNCHANGED <<terms, phase>>, phase # "idle"
  PROVE  /\ filled' \in [Orders -> Nat] /\ status' \in [Orders -> Statuses]
         /\ queue' \in SUBSET Orders
         /\ FillAgreesWithStatus'
         /\ QueueIsLive'
<1>1. \A o \in {b, s} : /\ terms[o] \in OrderTerms
                        /\ terms[o].quantity \in Nat \ {0}
                        /\ filled[o] \in Nat
                        /\ filled[o] + q <= terms[o].quantity
  <2> SUFFICES ASSUME NEW o \in {b, s}
               PROVE  /\ terms[o] \in OrderTerms
                      /\ terms[o].quantity \in Nat \ {0}
                      /\ filled[o] \in Nat
                      /\ filled[o] + q <= terms[o].quantity
    OBVIOUS
  <2>1. terms[o] \in OrderTerms /\ Remaining(o) + filled[o] = terms[o].quantity
        /\ Remaining(o) \in Nat
    BY LiveOrder
  <2>2. filled[o] \in Nat
    BY DEF MarketInv, TypeOK
  <2> QED BY <2>1, <2>2 DEF OrderTerms
<1>2. \A o \in {b, s} : /\ StatusAfter(o, q) = "FILLED" <=> filled[o] + q = terms[o].quantity
                        /\ StatusAfter(o, q) \in {"FILLED", "PARTIALLY_FILLED"}
  BY <1>1 DEF StatusAfter
<1>3. /\ filled' = [filled EXCEPT ![b] = filled[b] + q, ![s] = filled[s] + q]
      /\ status' = [status EXCEPT ![b] = StatusAfter(b, q), ![s] = StatusAfter(s, q)]
      /\ filled \in [Orders -> Nat] /\ status \in [Orders -> Statuses]
      /\ queue' = {o \in queue : ~(o \in {b, s} /\ StatusAfter(o, q) = "FILLED")}
      /\ queue \subseteq Orders
  BY DEF FillOrders, MarketInv, TypeOK
<1>4. /\ filled' \in [Orders -> Nat]
      /\ status' \in [Orders -> Statuses]
      /\ queue' \in SUBSET Orders
      /\ \A o \in {b, s} : filled'[o] = filled[o] + q /\ status'[o] = StatusAfter(o, q)
      /\ \A o \in Orders \ {b, s} : filled'[o] = filled[o] /\ status'[o] = status[o]
  BY <1>1, <1>2, <1>3 DEF Statuses, Live, Final
<1>5. FillAgreesWithStatus'
  <2> SUFFICES ASSUME NEW o \in Orders
               PROVE  (/\ status[o] = "NONE" <=> terms[o] = NoTerms
                       /\ status[o] \in {"NONE", "OPEN"} => filled[o] = 0
                       /\ status[o] = "PARTIALLY_FILLED" => filled[o] \in 1..(terms[o].quantity - 1)
                       /\ status[o] = "FILLED" => filled[o] = terms[o].quantity
                       /\ status[o] \in {"CANCELLED", "EXPIRED"} => filled[o] < terms[o].quantity)'
    BY DEF FillAgreesWithStatus
  <2>1. CASE o \in {b, s}
    <3>1. terms[o] # NoTerms
      BY <2>1, <1>1, MarketAssumption
    <3> QED BY <2>1, <3>1, <1>1, <1>2, <1>4
  <2>2. CASE o \notin {b, s}
    BY <2>2, <1>4 DEF MarketInv, FillAgreesWithStatus
  <2> QED BY <2>1, <2>2
<1>6. QueueIsLive'
  <2> SUFFICES ASSUME NEW o \in queue'
               PROVE  (status[o] \in Live /\ Remaining(o) > 0)'
    BY DEF QueueIsLive
  <2>1. o \in queue /\ o \in Orders
    BY <1>3
  <2>2. CASE o \in {b, s}
    <3>1. StatusAfter(o, q) = "PARTIALLY_FILLED" /\ filled[o] + q # terms[o].quantity
      BY <1>2, <1>3, <2>2
    <3>2. status'[o] \in Live
      BY <1>4, <2>1, <2>2, <3>1 DEF Live
    <3>3. terms'[o].quantity - filled'[o] = terms[o].quantity - (filled[o] + q)
      BY <1>4, <2>1, <2>2
    <3>4. terms'[o].quantity - filled'[o] > 0
      <4>1. /\ terms[o].quantity \in Nat /\ filled[o] \in Nat
            /\ filled[o] + q <= terms[o].quantity
        BY <1>1, <2>2
      <4> QED BY <3>1, <3>3, <4>1
    <3> QED BY <3>2, <3>4 DEF Remaining
  <2>3. CASE o \notin {b, s}
    BY <1>4, <2>1, <2>3 DEF MarketInv, QueueIsLive, Remaining
  <2> QED BY <2>2, <2>3
<1> QED BY <1>4, <1>5, <1>6

\* Matching a pair preserves the invariant.
LEMMA MatchInv ==
  ASSUME MarketInv, NEW i \in Items, Match(i)
  PROVE  MarketInv'
<1> PICK b \in Heads(i, "BUY"), s \in Heads(i, "SELL") : MatchPair(b, s)
  BY DEF Match
<1> DEFINE p == MatchPrice(b, s)
           q == MatchQuantity(b, s)
           buyer == terms[b].agent
           seller == terms[s].agent
<1>1. /\ b \in Orders /\ s \in Orders /\ b # s
      /\ b \in queue /\ s \in queue
      /\ status[b] \in Live /\ status[s] \in Live
      /\ terms[b].item = i
  BY MatchedOrders
<1>2. /\ Crosses(b, s) /\ ~SameAgent(b, s)
      /\ FillOrders(b, s, q)
      /\ PayAndDeliver(b, s, p, q)
      /\ trades' = trades \cup {[tick |-> tick, buy |-> b, sell |-> s, price |-> p, quantity |-> q]}
      /\ phase = "matching" /\ UNCHANGED <<tick, phase, terms>>
  BY DEF Match, MatchPair
<1>3. /\ p \in Nat \ {0} /\ p <= terms[b].price
      /\ q \in Nat \ {0} /\ q <= Remaining(b) /\ q <= Remaining(s)
  BY <1>1, <1>2, MatchNumbers
<1>4. /\ buyer \in Agents /\ seller \in Agents /\ buyer # seller
      /\ terms[b].price \in Nat
  BY <1>1, <1>2, LiveOrder DEF OrderTerms, SameAgent
<1> HIDE DEF p, q, buyer, seller
<1>5. /\ filled' \in [Orders -> Nat] /\ status' \in [Orders -> Statuses]
      /\ queue' \in SUBSET Orders
      /\ FillAgreesWithStatus' /\ QueueIsLive'
  BY <1>1, <1>2, <1>3, FillOrdersInv
<1>6. p * q \in Nat /\ (terms[b].price - p) * q \in Nat
  <2>1. terms[b].price - p \in Nat /\ p \in Nat /\ q \in Nat
    BY <1>3, <1>4
  <2> QED BY <2>1, ProductNat
<1>7. balance' \in [Agents -> Nat] /\ totalEarnings' \in [Agents -> Nat]
      /\ totalTrades' \in [Agents -> Nat]
  <2> DEFINE back == (terms[b].price - p) * q
             pay  == p * q
  <2>1. /\ balance' = [balance EXCEPT ![buyer] = @ + back, ![seller] = @ + pay]
        /\ totalTrades' = [totalTrades EXCEPT ![buyer] = @ + 1, ![seller] = @ + 1]
        /\ totalEarnings' = [totalEarnings EXCEPT ![seller] = @ + pay]
    BY <1>2 DEF PayAndDeliver, buyer, seller
  <2>2. back \in Nat /\ pay \in Nat
    BY <1>6
  <2> HIDE DEF back, pay
  <2> QED BY <1>4, <2>1, <2>2 DEF MarketInv, TypeOK
<1>8. inventory' \in [Agents -> [Items -> Nat]]
  <2>1. inventory' = [inventory EXCEPT ![buyer][i] = @ + q]
    BY <1>1, <1>2 DEF PayAndDeliver, buyer
  <2>2. inventory \in [Agents -> [Items -> Nat]]
    BY DEF MarketInv, TypeOK
  <2>3. [inventory[buyer] EXCEPT ![i] = inventory[buyer][i] + q] \in [Items -> Nat]
    BY <1>3, <1>4, <2>2
  <2> QED BY <1>4, <2>1, <2>2, <2>3
<1>9. trades' \subseteq TradeRows
  <2>1. [tick |-> tick, buy |-> b, sell |-> s, price |-> p, quantity |-> q] \in TradeRows
    BY <1>1, <1>3 DEF TradeRows, MarketInv, TypeOK
  <2> QED BY <1>2, <2>1 DEF MarketInv, TypeOK
<1>10. TypeOK'
  BY <1>2, <1>5, <1>7, <1>8, <1>9 DEF MarketInv, TypeOK
<1> QED BY <1>5, <1>10 DEF MarketInv

\* The steps of an auction that only move its queue or its phase, and the tick.
LEMMA AuctionControlInv ==
  ASSUME MarketInv,
         \/ BeginAuction \/ SelectOpen \/ EndAuction \/ AdvanceTick
         \/ \E i \in Items : SkipOwnSell(i) \/ CloseItem(i)
  PROVE  MarketInv'
<1>1. UNCHANGED <<book, wallets, stats>>
  BY DEF BeginAuction, SelectOpen, EndAuction, AdvanceTick, SkipOwnSell, CloseItem
<1>2. tick' \in Nat /\ phase' \in {"idle", "expiring", "matching"}
  BY DEF MarketInv, TypeOK, BeginAuction, SelectOpen, EndAuction, AdvanceTick,
         SkipOwnSell, CloseItem
<1>3. queue' \in SUBSET Orders /\ \A o \in queue' : status[o] \in Live
  BY DEF MarketInv, TypeOK, QueueIsLive, BeginAuction, SelectOpen, EndAuction, AdvanceTick,
         SkipOwnSell, CloseItem, Expired, Live
<1>4. TypeOK'
  BY <1>1, <1>2, <1>3 DEF MarketInv, TypeOK, book, wallets, stats
<1>5. FillAgreesWithStatus'
  BY <1>1 DEF MarketInv, FillAgreesWithStatus, book
<1>6. QueueIsLive'
  <2>1. phase' = "idle" => queue' = {}
    BY DEF MarketInv, QueueIsLive, BeginAuction, SelectOpen, EndAuction, AdvanceTick,
           SkipOwnSell, CloseItem
  <2>2. \A o \in queue' : Remaining(o) > 0
    BY <1>3, LiveOrder
  <2>3. \A o : Remaining(o)' = Remaining(o) /\ status'[o] = status[o]
    BY <1>1 DEF Remaining, book
  <2> QED BY <1>3, <2>1, <2>2, <2>3 DEF QueueIsLive
<1> QED BY <1>4, <1>5, <1>6 DEF MarketInv

-----------------------------------------------------------------------------
(* The theorems. *)

\* Every step preserves the invariant.
LEMMA NextInv == MarketInv /\ [Next]_vars => MarketInv'
<1> SUFFICES ASSUME MarketInv, [Next]_vars PROVE MarketInv'
  OBVIOUS
<1>1. CASE PlaceOrder
  BY <1>1, PlaceOrderInv
<1>2. CASE \E o \in Orders, a \in Agents : CancelOrder(o, a)
  BY <1>2, CancelOrderInv
<1>3. CASE \E o \in Orders : ExpireOrder(o)
  BY <1>3, ExpireOrderInv
<1>4. CASE \E i \in Items : Match(i)
  BY <1>4, MatchInv
<1>5. CASE \/ BeginAuction \/ SelectOpen \/ EndAuction \/ AdvanceTick
           \/ \E i \in Items : SkipOwnSell(i) \/ CloseItem(i)
  BY <1>5, AuctionControlInv
<1>6. CASE UNCHANGED vars
  BY <1>6 DEF vars, book, wallets, stats, MarketInv, TypeOK, FillAgreesWithStatus,
              QueueIsLive, Remaining
<1> QED BY <1>1, <1>2, <1>3, <1>4, <1>5, <1>6 DEF Next

\* MarketInv is an invariant of the market.
THEOREM MarketInvariant == Spec => []MarketInv
BY InitInv, NextInv, PTL DEF Spec

\* No wallet and no stock of any agent is ever negative: the reservations of
\* place_order are enough for every fill, refund and expiry that follows.
THEOREM MarketTypeOK == Spec => []TypeOK
BY MarketInvariant, PTL DEF MarketInv

\* The status of an order always agrees with how much of it is filled.
THEOREM StatusTellsFill == Spec => []FillAgreesWithStatus
BY MarketInvariant, PTL DEF MarketInv

\* The running auction never holds an order that is not live or has nothing left:
\* the "remaining <= 0" and "match_quantity <= 0" branches are dead code.
THEOREM AuctionHandlesLiveOrders == Spec => []QueueIsLive
BY MarketInvariant, PTL DEF MarketInv

-----------------------------------------------------------------------------
(* Final orders stay final. *)

\* One step, one order: what is final stays, fills grow, terms stay.
OrderOnlyAdvances(o) ==
  /\ status[o] \in Final => status'[o] = status[o] /\ filled'[o] = filled[o]
  /\ filled[o] <= filled'[o]
  /\ status[o] # "NONE" => terms'[o] = terms[o]

LEMMA StepAdvancesOrders ==
  ASSUME MarketInv, [Next]_vars
  PROVE  \A o \in Orders : OrderOnlyAdvances(o)
<1> SUFFICES ASSUME NEW o \in Orders PROVE OrderOnlyAdvances(o)
  OBVIOUS
<1>0. /\ filled[o] \in Nat
      /\ terms \in [Orders -> OrderTerms \cup {NoTerms}]
      /\ status \in [Orders -> Statuses]
      /\ filled \in [Orders -> Nat]
  BY DEF MarketInv, TypeOK
<1>1. ASSUME NEW x \in Orders, NEW a \in Agents, NEW i \in Items,
             NEW p \in AskedPrices, NEW q \in AskedQuantities, NEW e \in Expiries,
             PlaceBuy(x, a, i, p, q, e) \/ PlaceSell(x, a, i, p, q, e)
      PROVE  OrderOnlyAdvances(o)
  <2>1. /\ status[x] = "NONE"
        /\ \A y \in Orders \ {x} : terms'[y] = terms[y] /\ status'[y] = status[y]
        /\ filled' = filled
    BY <1>0, <1>1 DEF PlaceBuy, PlaceSell, NewOrder
  <2> QED BY <1>0, <2>1 DEF OrderOnlyAdvances, Final
<1>2. ASSUME NEW x \in Orders, status[x] \in Live,
             (\E a \in Agents : CancelOrder(x, a)) \/ ExpireOrder(x)
      PROVE  OrderOnlyAdvances(o)
  <2>1. /\ \A y \in Orders \ {x} : status'[y] = status[y]
        /\ terms' = terms /\ filled' = filled
    BY <1>0, <1>2 DEF CancelOrder, ExpireOrder
  <2> QED BY <1>0, <1>2, <2>1 DEF OrderOnlyAdvances, Live, Final
<1>3. ASSUME NEW x \in Orders, ExpireOrder(x) PROVE status[x] \in Live
  BY <1>3 DEF ExpireOrder, MarketInv, QueueIsLive
<1>4. ASSUME NEW i \in Items, Match(i)
      PROVE  OrderOnlyAdvances(o)
  <2> PICK b \in Heads(i, "BUY"), s \in Heads(i, "SELL") : MatchPair(b, s)
    BY <1>4 DEF Match
  <2> DEFINE q == MatchQuantity(b, s)
  <2>1. b \in Orders /\ s \in Orders /\ b # s /\ status[b] \in Live /\ status[s] \in Live
    BY MatchedOrders
  <2>2. q \in Nat
    BY <2>1, MatchNumbers DEF MatchPair
  <2>3. FillOrders(b, s, q) /\ terms' = terms
    BY <1>4 DEF MatchPair, Match
  <2> HIDE DEF q
  <2>4. /\ \A y \in Orders \ {b, s} : status'[y] = status[y] /\ filled'[y] = filled[y]
        /\ filled'[b] = filled[b] + q /\ filled'[s] = filled[s] + q
    BY <1>0, <2>1, <2>3 DEF FillOrders
  <2>5. CASE o \in {b, s}
    BY <1>0, <2>1, <2>2, <2>3, <2>4, <2>5 DEF OrderOnlyAdvances, Live, Final
  <2>6. CASE o \notin {b, s}
    BY <1>0, <2>3, <2>4, <2>6 DEF OrderOnlyAdvances
  <2> QED BY <2>5, <2>6
<1>5. ASSUME UNCHANGED book PROVE OrderOnlyAdvances(o)
  BY <1>0, <1>5 DEF book, OrderOnlyAdvances
<1>6. ASSUME \/ BeginAuction \/ SelectOpen \/ EndAuction \/ AdvanceTick
             \/ \E i \in Items : SkipOwnSell(i) \/ CloseItem(i)
             \/ UNCHANGED vars
      PROVE  UNCHANGED book
  BY <1>6 DEF BeginAuction, SelectOpen, EndAuction, AdvanceTick, SkipOwnSell, CloseItem, vars
<1>7. CASE PlaceOrder
  BY <1>1, <1>7 DEF PlaceOrder
<1>8. CASE \/ \E x \in Orders, a \in Agents : CancelOrder(x, a)
           \/ \E x \in Orders : ExpireOrder(x)
  BY <1>2, <1>3, <1>8 DEF CancelOrder
<1> QED BY <1>4, <1>5, <1>6, <1>7, <1>8 DEF Next

\* An order that is FILLED, CANCELLED or EXPIRED never changes again, and no fill is
\* ever taken back: no order is matched or refunded twice.
THEOREM FinalOrdersStayFinal == Spec => FinalStatusIsFinal
<1>1. MarketInv /\ [Next]_vars =>
        [\A o \in Orders :
           /\ status[o] \in Final => status'[o] = status[o] /\ filled'[o] = filled[o]
           /\ filled[o] <= filled'[o]
           /\ status[o] # "NONE" => terms'[o] = terms[o]]_vars
  BY StepAdvancesOrders DEF OrderOnlyAdvances
<1> QED BY <1>1, MarketInvariant, PTL DEF Spec, FinalStatusIsFinal

-----------------------------------------------------------------------------
(* The market implements the ledger of escrows. *)

\* The owner of the escrow that is order o.
OwnerOf(o) == IF status[o] = "NONE" THEN NoTerms ELSE terms[o].agent

\* What an order holds is a natural amount, and goods of its own item only.
LEMMA HeldTypes ==
  ASSUME MarketInv, NEW o \in Orders
  PROVE  /\ HeldCash(o) \in Nat
         /\ HeldGoods(o) \in [Items -> Nat]
         /\ status[o] # "NONE" => terms[o] \in OrderTerms /\ OwnerOf(o) \in Agents
<1>1. status[o] \in Live => Remaining(o) \in Nat /\ terms[o].price \in Nat
                            /\ terms[o].price * Remaining(o) \in Nat
  <2> HAVE status[o] \in Live
  <2>1. Remaining(o) \in Nat /\ terms[o].price \in Nat
    BY LiveOrder DEF OrderTerms
  <2> QED BY <2>1, ProductNat
<1>2. HeldCash(o) \in Nat /\ HeldGoods(o) \in [Items -> Nat]
  BY <1>1 DEF HeldCash, HeldGoods
<1>3. status[o] # "NONE" => terms[o] \in OrderTerms
  BY DEF MarketInv, TypeOK, FillAgreesWithStatus
<1> QED BY <1>2, <1>3 DEF OwnerOf, OrderTerms

\* An order a step does not touch holds what it held.
LEMMA HeldLocal ==
  ASSUME NEW o, status'[o] = status[o], filled'[o] = filled[o], terms'[o] = terms[o]
  PROVE  HeldCash(o)' = HeldCash(o) /\ HeldGoods(o)' = HeldGoods(o) /\ OwnerOf(o)' = OwnerOf(o)
BY DEF HeldCash, HeldGoods, OwnerOf, Remaining

\* The initial states correspond.
LEMMA LedgerInit == Init => Ledger!Init
<1> SUFFICES ASSUME Init PROVE Ledger!Init
  OBVIOUS
<1>1. \A o \in Orders : HeldCash(o) = 0 /\ HeldGoods(o) = [i \in Items |-> 0]
  BY DEF Init, HeldCash, HeldGoods, Live
<1> QED BY <1>1 DEF Init, Ledger!Init, Ledger!NoGoods

\* Steps that leave orders and wallets alone are stuttering steps of the ledger.
LEMMA LedgerStutter ==
  ASSUME UNCHANGED <<book, wallets>>
  PROVE  UNCHANGED Ledger!vars
<1>1. \A o : HeldCash(o)' = HeldCash(o) /\ HeldGoods(o)' = HeldGoods(o)
  BY HeldLocal DEF book
<1> QED BY <1>1 DEF book, wallets, Ledger!vars

\* Placing an order locks cash or goods.
LEMMA LedgerPlace ==
  ASSUME MarketInv, PlaceOrder
  PROVE  Ledger!Next
<1> PICK o \in Orders, a \in Agents, i \in Items,
         p \in AskedPrices, q \in AskedQuantities, e \in Expiries :
           PlaceBuy(o, a, i, p, q, e) \/ PlaceSell(o, a, i, p, q, e)
  BY DEF PlaceOrder
<1>1. p \in Nat \ {0} /\ q \in Nat \ {0} /\ p * q \in Nat \ {0}
  <2>1. p \in Nat \ {0} /\ q \in Nat \ {0}
    BY MarketAssumption DEF PlaceBuy, PlaceSell, NewOrder, ValidOrder
  <2>2. p * q \in Nat /\ p * q >= 1
    BY <2>1
  <2> QED BY <2>1, <2>2
<1>2. /\ status \in [Orders -> Statuses] /\ filled \in [Orders -> Nat]
      /\ terms \in [Orders -> OrderTerms \cup {NoTerms}]
      /\ balance \in [Agents -> Nat] /\ inventory \in [Agents -> [Items -> Nat]]
  BY DEF MarketInv, TypeOK
<1>3. /\ status[o] = "NONE" /\ filled[o] = 0
      /\ status'[o] = "OPEN" /\ filled'[o] = 0
      /\ terms'[o].agent = a /\ terms'[o].item = i
      /\ terms'[o].price = p /\ terms'[o].quantity = q
      /\ \A x \in Orders \ {o} :
           status'[x] = status[x] /\ filled'[x] = filled[x] /\ terms'[x] = terms[x]
  BY <1>2 DEF PlaceBuy, PlaceSell, NewOrder, MarketInv, FillAgreesWithStatus
<1>4. Remaining(o)' = q
  BY <1>1, <1>3 DEF Remaining
<1>5. /\ OwnerOf(o) = NoTerms /\ OwnerOf(o)' = a
      /\ HeldCash(o) = 0 /\ HeldGoods(o) = [k \in Items |-> 0]
  BY <1>3 DEF OwnerOf, HeldCash, HeldGoods, Live
<1>6. \A x \in Orders \ {o} : /\ HeldCash(x)' = HeldCash(x)
                              /\ HeldGoods(x)' = HeldGoods(x)
                              /\ OwnerOf(x)' = OwnerOf(x)
  BY <1>3, HeldLocal
<1>7. CASE PlaceBuy(o, a, i, p, q, e)
  <2>1. /\ terms'[o].side = "BUY" /\ p * q <= balance[a]
        /\ balance' = [balance EXCEPT ![a] = @ - p * q] /\ inventory' = inventory
    BY <1>2, <1>7 DEF PlaceBuy, NewOrder
  <2>2. HeldCash(o)' = p * q /\ HeldGoods(o)' = [k \in Items |-> 0]
    BY <1>3, <1>4, <2>1 DEF HeldCash, HeldGoods, Live
  <2>3. Ledger!LockCash(o, a, p * q)
    <3> DEFINE amount == p * q
    <3>1. amount <= balance[a] /\ balance' = [balance EXCEPT ![a] = @ - amount]
      BY <2>1
    <3>2. HeldCash(o)' = amount /\ \A x \in Orders : HeldGoods(x)' = HeldGoods(x)
      BY <1>5, <1>6, <2>2
    <3> HIDE DEF amount
    <3>3. [x \in Orders |-> OwnerOf(x)]' = [[x \in Orders |-> OwnerOf(x)] EXCEPT ![o] = a]
      BY <1>5, <1>6
    <3>4. [x \in Orders |-> HeldCash(x)]' = [[x \in Orders |-> HeldCash(x)] EXCEPT ![o] = amount]
      BY <1>6, <3>2
    <3>5. UNCHANGED <<inventory, [x \in Orders |-> HeldGoods(x)]>>
      BY <2>1, <3>2
    <3>6. [x \in Orders |-> OwnerOf(x)][o] = NoTerms
      BY <1>5
    <3>7. Ledger!LockCash(o, a, amount)
      BY <3>1, <3>3, <3>4, <3>5, <3>6 DEF Ledger!LockCash, OwnerOf
    <3> QED BY <3>7 DEF amount
  <2>4. p * q \in 1..balance[a]
    BY <1>1, <1>2, <2>1
  <2> QED BY <2>3, <2>4 DEF Ledger!Next
<1>8. CASE PlaceSell(o, a, i, p, q, e)
  <2>1. /\ terms'[o].side = "SELL" /\ q <= inventory[a][i]
        /\ inventory' = [inventory EXCEPT ![a][i] = @ - q] /\ balance' = balance
    BY <1>1, <1>2, <1>8 DEF PlaceSell, NewOrder
  <2>2. HeldCash(o)' = 0 /\ HeldGoods(o)' = [HeldGoods(o) EXCEPT ![i] = q]
    BY <1>3, <1>4, <1>5, <2>1 DEF HeldCash, HeldGoods, Live
  <2>3. Ledger!LockGoods(o, a, i, q)
    BY <1>5, <1>6, <2>1, <2>2 DEF Ledger!LockGoods, OwnerOf
  <2>4. q \in 1..inventory[a][i]
    BY <1>1, <1>2, <2>1
  <2> QED BY <2>3, <2>4 DEF Ledger!Next
<1> QED BY <1>7, <1>8

\* Cancelling or expiring an order gives back what its escrow holds.
LEMMA LedgerReturn ==
  ASSUME MarketInv, NEW o \in Orders, status[o] \in Live, Refund(o),
         NEW final \in {"CANCELLED", "EXPIRED"},
         status' = [status EXCEPT ![o] = final], UNCHANGED <<terms, filled>>
  PROVE  Ledger!Next
<1> DEFINE t == terms[o]
           r == Remaining(o)
<1>1. /\ t \in OrderTerms /\ r \in Nat /\ OwnerOf(o) = t.agent /\ OwnerOf(o) # NoTerms
  <2>1. t \in OrderTerms /\ r \in Nat
    BY LiveOrder
  <2>2. OwnerOf(o) = t.agent
    BY DEF OwnerOf, Live
  <2> QED BY <2>1, <2>2, MarketAssumption DEF OrderTerms
<1>2. t.agent \in Agents /\ t.item \in Items /\ t.side \in Sides /\ t.price \in Nat
  BY <1>1 DEF OrderTerms
<1>3. balance \in [Agents -> Nat] /\ inventory \in [Agents -> [Items -> Nat]]
      /\ status \in [Orders -> Statuses]
  BY DEF MarketInv, TypeOK
<1>4. HeldCash(o)' = 0 /\ HeldGoods(o)' = [k \in Items |-> 0] /\ OwnerOf(o)' = OwnerOf(o)
  BY <1>3 DEF HeldCash, HeldGoods, OwnerOf, Live
<1>5. \A x \in Orders \ {o} : /\ HeldCash(x)' = HeldCash(x)
                              /\ HeldGoods(x)' = HeldGoods(x)
                              /\ OwnerOf(x)' = OwnerOf(x)
  BY <1>3, HeldLocal
<1>6. /\ balance' = [balance EXCEPT ![t.agent] = @ + HeldCash(o)]
      /\ inventory' = [inventory EXCEPT ![t.agent] = [k \in Items |-> @[k] + HeldGoods(o)[k]]]
  <2>1. CASE t.side = "BUY"
    <3>1. HeldCash(o) = t.price * r /\ HeldGoods(o) = [k \in Items |-> 0]
      BY <2>1 DEF HeldCash, HeldGoods
    <3>2. balance' = [balance EXCEPT ![t.agent] = @ + t.price * r] /\ inventory' = inventory
      BY <2>1 DEF Refund
    <3>3. [k \in Items |-> inventory[t.agent][k] + HeldGoods(o)[k]] = inventory[t.agent]
      BY <1>2, <1>3, <3>1
    <3> QED BY <1>2, <1>3, <3>1, <3>2, <3>3
  <2>2. CASE t.side = "SELL"
    <3>1. HeldCash(o) = 0 /\ HeldGoods(o) = [k \in Items |-> IF t.item = k THEN r ELSE 0]
      BY <2>2 DEF HeldCash, HeldGoods
    <3>2. inventory' = [inventory EXCEPT ![t.agent][t.item] = @ + r] /\ balance' = balance
      BY <2>2 DEF Refund
    <3>3. [k \in Items |-> inventory[t.agent][k] + HeldGoods(o)[k]]
            = [inventory[t.agent] EXCEPT ![t.item] = @ + r]
      BY <1>1, <1>2, <1>3, <3>1
    <3>4. balance' = [balance EXCEPT ![t.agent] = @ + HeldCash(o)]
      BY <1>2, <1>3, <3>1, <3>2
    <3> QED BY <1>2, <1>3, <3>2, <3>3, <3>4
  <2> QED BY <1>2, <2>1, <2>2 DEF Sides
<1> HIDE DEF t
<1>7. Ledger!Return(o)
  BY <1>1, <1>4, <1>5, <1>6 DEF Ledger!Return, Ledger!NoGoods, OwnerOf
<1> QED BY <1>7 DEF Ledger!Next

\* A partial fill of a live order takes q units out of what it holds.
LEMMA HeldAfterFill ==
  ASSUME MarketInv, NEW o \in Orders, status[o] \in Live,
         NEW q \in Nat \ {0}, q <= Remaining(o),
         status'[o] = StatusAfter(o, q), filled'[o] = filled[o] + q, terms'[o] = terms[o]
  PROVE  /\ OwnerOf(o)' = OwnerOf(o)
         /\ terms[o].side = "BUY" =>
              /\ HeldCash(o)' = HeldCash(o) - terms[o].price * q
              /\ terms[o].price * q <= HeldCash(o)
              /\ HeldGoods(o)' = HeldGoods(o)
         /\ terms[o].side = "SELL" =>
              /\ HeldCash(o)' = HeldCash(o)
              /\ HeldGoods(o)' = [HeldGoods(o) EXCEPT ![terms[o].item] = @ - q]
              /\ q <= HeldGoods(o)[terms[o].item]
<1> DEFINE t == terms[o]
           r == Remaining(o)
<1>1. /\ t \in OrderTerms /\ r \in Nat \ {0} /\ r + filled[o] = t.quantity
      /\ filled[o] \in Nat
  BY LiveOrder DEF MarketInv, TypeOK
<1>2. t.price \in Nat /\ t.quantity \in Nat /\ t.item \in Items
  BY <1>1 DEF OrderTerms
<1>3. Remaining(o)' = r - q /\ r - q \in Nat
  BY <1>1, <1>2 DEF Remaining
<1>4. status'[o] \in Live \/ (status'[o] = "FILLED" /\ r - q = 0)
  BY <1>1, <1>2 DEF StatusAfter, Live
<1>5. status'[o] # "NONE" /\ status[o] # "NONE"
  BY <1>4 DEF Live
<1>6. OwnerOf(o)' = OwnerOf(o)
  BY <1>5 DEF OwnerOf
<1>7. ASSUME t.side = "BUY"
      PROVE  /\ HeldCash(o)' = HeldCash(o) - t.price * q
             /\ t.price * q <= HeldCash(o)
             /\ HeldGoods(o)' = HeldGoods(o)
  <2>1. HeldCash(o) = t.price * r /\ HeldGoods(o) = [k \in Items |-> 0]
    BY <1>7 DEF HeldCash, HeldGoods
  <2>2. HeldGoods(o)' = [k \in Items |-> 0]
    BY <1>7 DEF HeldGoods
  <2>3. t.price * (r - q) = t.price * r - t.price * q /\ t.price * (r - q) \in Nat
    BY <1>1, <1>2, <1>3
  <2>4. HeldCash(o)' = t.price * (r - q)
    <3>1. CASE status'[o] \in Live
      BY <1>3, <1>7, <3>1 DEF HeldCash
    <3>2. CASE status'[o] = "FILLED" /\ r - q = 0
      <4>1. t.price * 0 = 0
        BY <1>2
      <4> QED BY <3>2, <4>1 DEF HeldCash, Live
    <3> QED BY <1>4, <3>1, <3>2
  <2>5. t.price * r \in Nat /\ t.price * q \in Nat
    BY <1>1, <1>2, ProductNat
  <2> HIDE DEF t, r
  <2> QED BY <2>1, <2>2, <2>3, <2>4, <2>5
<1>8. ASSUME t.side = "SELL"
      PROVE  /\ HeldCash(o)' = HeldCash(o)
             /\ HeldGoods(o)' = [HeldGoods(o) EXCEPT ![t.item] = @ - q]
             /\ q <= HeldGoods(o)[t.item]
  <2>1. HeldCash(o) = 0 /\ HeldGoods(o) = [k \in Items |-> IF t.item = k THEN r ELSE 0]
    BY <1>8 DEF HeldCash, HeldGoods
  <2>2. HeldCash(o)' = 0
    BY <1>8 DEF HeldCash
  <2>3. HeldGoods(o)' = [k \in Items |-> IF t.item = k THEN r - q ELSE 0]
    BY <1>3, <1>4, <1>8 DEF HeldGoods, Live
  <2> DEFINE held == HeldGoods(o)
  <2>4. held = [k \in Items |-> IF t.item = k THEN r ELSE 0]
    BY <2>1
  <2> HIDE DEF t, r, held
  <2>5. held[t.item] = r
    BY <1>2, <2>4
  <2>6. [held EXCEPT ![t.item] = @ - q] = [k \in Items |-> IF t.item = k THEN r - q ELSE 0]
    BY <1>2, <2>4, <2>5
  <2>7. q <= r
    BY DEF r
  <2> QED BY <2>1, <2>2, <2>3, <2>5, <2>6, <2>7 DEF held
<1> QED BY <1>6, <1>7, <1>8

\* A match is one exchange between the escrows of its two orders.
LEMMA LedgerMatch ==
  ASSUME MarketInv, NEW i \in Items, Match(i)
  PROVE  Ledger!Next
<1> PICK b \in Heads(i, "BUY"), s \in Heads(i, "SELL") : MatchPair(b, s)
  BY DEF Match
<1> DEFINE p == MatchPrice(b, s)
           q == MatchQuantity(b, s)
           limit == terms[b].price
           buyer == terms[b].agent
           seller == terms[s].agent
           pay == p * q
           back == (limit - p) * q
<1>1. /\ b \in Orders /\ s \in Orders /\ b # s
      /\ status[b] \in Live /\ status[s] \in Live
      /\ terms[b].side = "BUY" /\ terms[s].side = "SELL"
      /\ terms[b].item = i /\ terms[s].item = i
  BY MatchedOrders
<1>2. /\ Crosses(b, s) /\ FillOrders(b, s, q) /\ PayAndDeliver(b, s, p, q)
      /\ UNCHANGED terms
  BY DEF Match, MatchPair
<1>3. /\ p \in Nat \ {0} /\ p <= limit /\ q \in Nat \ {0}
      /\ q <= Remaining(b) /\ q <= Remaining(s)
  BY <1>1, <1>2, MatchNumbers
<1>4. /\ buyer \in Agents /\ seller \in Agents /\ buyer # seller /\ limit \in Nat
  BY <1>1, LiveOrder DEF OrderTerms, MatchPair, SameAgent
<1>5. OwnerOf(b) = buyer /\ OwnerOf(s) = seller /\ buyer # NoTerms /\ seller # NoTerms
  BY <1>1, <1>4, MarketAssumption DEF OwnerOf, Live
<1>6. /\ status \in [Orders -> Statuses] /\ filled \in [Orders -> Nat]
      /\ balance \in [Agents -> Nat] /\ inventory \in [Agents -> [Items -> Nat]]
  BY DEF MarketInv, TypeOK
<1>7. /\ \A o \in {b, s} : status'[o] = StatusAfter(o, q) /\ filled'[o] = filled[o] + q
      /\ \A o \in Orders \ {b, s} : status'[o] = status[o] /\ filled'[o] = filled[o]
      /\ terms' = terms
  BY <1>1, <1>2, <1>6 DEF FillOrders
<1>8. \A o \in Orders \ {b, s} : /\ HeldCash(o)' = HeldCash(o)
                                 /\ HeldGoods(o)' = HeldGoods(o)
                                 /\ OwnerOf(o)' = OwnerOf(o)
  BY <1>7, HeldLocal
<1>9. /\ OwnerOf(b)' = OwnerOf(b) /\ HeldGoods(b)' = HeldGoods(b)
      /\ HeldCash(b)' = HeldCash(b) - limit * q /\ limit * q <= HeldCash(b)
  BY <1>1, <1>3, <1>7, HeldAfterFill
<1>10. /\ OwnerOf(s)' = OwnerOf(s) /\ HeldCash(s)' = HeldCash(s)
       /\ HeldGoods(s)' = [HeldGoods(s) EXCEPT ![i] = @ - q] /\ q <= HeldGoods(s)[i]
  BY <1>1, <1>3, <1>7, HeldAfterFill
<1>11. pay + back = limit * q /\ pay \in Nat /\ back \in Nat
  <2>1. limit - p \in Nat /\ p \in Nat /\ q \in Nat
    BY <1>3, <1>4
  <2> HIDE DEF p, q, limit
  <2>2. p * q + (limit - p) * q = limit * q
    BY <1>4, <2>1
  <2> QED BY <2>1, <2>2, ProductNat
<1>12. /\ balance' = [balance EXCEPT ![buyer] = @ + back, ![seller] = @ + pay]
       /\ inventory' = [inventory EXCEPT ![buyer][i] = @ + q]
  BY <1>1, <1>2 DEF PayAndDeliver
<1>13. HeldCash(b) \in Nat /\ HeldGoods(s) \in [Items -> Nat]
  BY <1>1, HeldTypes
<1> HIDE DEF p, q, limit, buyer, seller, pay, back
<1>14. balance' = [balance EXCEPT ![seller] = @ + pay, ![buyer] = @ + back]
  BY <1>4, <1>6, <1>12
<1>15. pay \in 0..HeldCash(b) /\ back \in 0..HeldCash(b) /\ q \in 1..HeldGoods(s)[i]
  BY <1>3, <1>9, <1>10, <1>11, <1>13
<1>16. Ledger!Exchange(b, s, i, q, pay, back)
  <2>1. pay + back <= HeldCash(b) /\ HeldCash(b)' = HeldCash(b) - (pay + back)
    BY <1>9, <1>11
  <2>2. [o \in Orders |-> HeldCash(o)]'
          = [[o \in Orders |-> HeldCash(o)] EXCEPT ![b] = @ - (pay + back)]
    BY <1>1, <1>8, <1>10, <2>1
  <2>3. [o \in Orders |-> HeldGoods(o)]'
          = [[o \in Orders |-> HeldGoods(o)] EXCEPT ![s][i] = @ - q]
    BY <1>1, <1>8, <1>9, <1>10
  <2>4. [o \in Orders |-> OwnerOf(o)]' = [o \in Orders |-> OwnerOf(o)]
    BY <1>8, <1>9, <1>10
  <2> QED BY <1>1, <1>4, <1>5, <1>10, <1>12, <1>14, <2>1, <2>2, <2>3, <2>4
       DEF Ledger!Exchange, OwnerOf
<1> QED BY <1>1, <1>15, <1>16 DEF Ledger!Next

\* Every step of the market is a step of the ledger or leaves it alone.
LEMMA LedgerStep == MarketInv /\ [Next]_vars => [Ledger!Next]_(Ledger!vars)
<1> SUFFICES ASSUME MarketInv, [Next]_vars PROVE Ledger!Next \/ UNCHANGED Ledger!vars
  OBVIOUS
<1>1. CASE PlaceOrder
  BY <1>1, LedgerPlace
<1>2. CASE \E o \in Orders, a \in Agents : CancelOrder(o, a)
  BY <1>2, LedgerReturn DEF CancelOrder
<1>3. CASE \E o \in Orders : ExpireOrder(o)
  <2> PICK o \in Orders : ExpireOrder(o)
    BY <1>3
  <2>1. status[o] \in Live
    BY DEF ExpireOrder, MarketInv, QueueIsLive
  <2> QED BY <2>1, LedgerReturn DEF ExpireOrder
<1>4. CASE \E i \in Items : Match(i)
  BY <1>4, LedgerMatch
<1>5. CASE \/ BeginAuction \/ SelectOpen \/ EndAuction \/ AdvanceTick
           \/ \E i \in Items : SkipOwnSell(i) \/ CloseItem(i)
           \/ UNCHANGED vars
  <2>1. UNCHANGED <<book, wallets>>
    BY <1>5 DEF BeginAuction, SelectOpen, EndAuction, AdvanceTick, SkipOwnSell, CloseItem, vars
  <2> QED BY <2>1, LedgerStutter
<1> QED BY <1>1, <1>2, <1>3, <1>4, <1>5 DEF Next

\* The market implements the ledger of escrows: money and goods move only between a
\* wallet and the escrow of its own order, or in an exchange between two of them.
THEOREM MarketImplementsLedger == Spec => LedgerSpec
<1>1. Spec => Ledger!Init
  BY LedgerInit DEF Spec
<1>2. Spec => [][Ledger!Next]_(Ledger!vars)
  BY LedgerStep, MarketInvariant, PTL DEF Spec
<1> QED BY <1>1, <1>2 DEF LedgerSpec, Ledger!Spec

-----------------------------------------------------------------------------
(* Every trade respects the limits of its orders. *)

\* The orders of a trade exist, so that their terms no longer change.
TradesInv ==
  /\ TradesRespectOrders
  /\ \A t \in trades : status[t.buy] # "NONE" /\ status[t.sell] # "NONE"

\* A step adds at most the trade of one match.
LEMMA StepTrades ==
  ASSUME MarketInv, [Next]_vars
  PROVE  \/ trades' = trades
         \/ \E i \in Items : Match(i)
<1>1. ASSUME NEW o \in Orders, NEW a \in Agents, NEW i \in Items,
             NEW p, NEW q, NEW e,
             PlaceBuy(o, a, i, p, q, e) \/ PlaceSell(o, a, i, p, q, e)
      PROVE  trades' = trades
  BY <1>1 DEF PlaceBuy, PlaceSell, NewOrder, stats
<1> QED
  BY <1>1 DEF Next, PlaceOrder, CancelOrder, BeginAuction, ExpireOrder, SelectOpen, SkipOwnSell,
              CloseItem, EndAuction, AdvanceTick, vars, stats

LEMMA TradesStep == MarketInv /\ MarketInv' /\ TradesInv /\ [Next]_vars => TradesInv'
<1> SUFFICES ASSUME MarketInv, MarketInv', TradesInv, [Next]_vars PROVE TradesInv'
  OBVIOUS
<1> DEFINE Respected(t) ==
      /\ terms[t.buy].side = "BUY" /\ terms[t.sell].side = "SELL"
      /\ terms[t.buy].item = terms[t.sell].item
      /\ terms[t.buy].agent # terms[t.sell].agent
      /\ terms[t.sell].price <= t.price /\ t.price <= terms[t.buy].price
      /\ 0 < t.quantity
      /\ t.quantity <= terms[t.buy].quantity /\ t.quantity <= terms[t.sell].quantity
      /\ status[t.buy] # "NONE" /\ status[t.sell] # "NONE"
<1>1. \A o \in Orders : status[o] # "NONE" => terms'[o] = terms[o] /\ status'[o] # "NONE"
  <2> TAKE o \in Orders
  <2> HAVE status[o] # "NONE"
  <2>1. terms'[o] = terms[o]
    BY StepAdvancesOrders DEF OrderOnlyAdvances
  <2>2. terms[o] # NoTerms /\ (status'[o] = "NONE" <=> terms'[o] = NoTerms)
    BY DEF MarketInv, FillAgreesWithStatus
  <2> QED BY <2>1, <2>2
<1>2. \A t \in trades : Respected(t)'
  <2> TAKE t \in trades
  <2>1. t.buy \in Orders /\ t.sell \in Orders
    BY DEF MarketInv, TypeOK, TradeRows
  <2>2. Respected(t)
    BY DEF TradesInv, TradesRespectOrders
  <2> QED BY <1>1, <2>1, <2>2
<1>3. ASSUME NEW i \in Items, Match(i)
      PROVE  \A t \in trades' \ trades : Respected(t)'
  <2> PICK b \in Heads(i, "BUY"), s \in Heads(i, "SELL") : MatchPair(b, s)
    BY <1>3 DEF Match
  <2> TAKE t \in trades' \ trades
  <2>1. t.buy = b /\ t.sell = s /\ t.price = MatchPrice(b, s) /\ t.quantity = MatchQuantity(b, s)
    BY DEF MatchPair
  <2>2. /\ b \in Orders /\ s \in Orders /\ status[b] \in Live /\ status[s] \in Live
        /\ terms[b].side = "BUY" /\ terms[s].side = "SELL" /\ terms[b].item = terms[s].item
    BY MatchedOrders
  <2>3. terms[b].agent # terms[s].agent
    BY DEF MatchPair, SameAgent
  <2>4. terms[s].price <= MatchPrice(b, s) /\ MatchPrice(b, s) <= terms[b].price
    BY <2>2, MatchNumbers DEF MatchPair
  <2>5. /\ terms'[b] = terms[b] /\ terms'[s] = terms[s]
        /\ status'[b] # "NONE" /\ status'[s] # "NONE"
    BY <1>1, <2>2 DEF Live
  <2>6. /\ 0 < MatchQuantity(b, s)
        /\ MatchQuantity(b, s) <= terms[b].quantity /\ MatchQuantity(b, s) <= terms[s].quantity
    <3>1. /\ MatchQuantity(b, s) \in Nat \ {0}
          /\ MatchQuantity(b, s) <= Remaining(b) /\ MatchQuantity(b, s) <= Remaining(s)
      BY <2>2, MatchNumbers DEF MatchPair
    <3>2. \A o \in {b, s} : terms[o].quantity \in Nat /\ filled[o] \in Nat
      BY <2>2, LiveOrder DEF OrderTerms, MarketInv, TypeOK
    <3> QED BY <3>1, <3>2 DEF Remaining
  <2> QED BY <2>1, <2>2, <2>3, <2>4, <2>5, <2>6
<1>4. \A t \in trades' : Respected(t)'
  BY <1>2, <1>3, StepTrades
<1> QED BY <1>4 DEF TradesInv, TradesRespectOrders

\* Every trade is between different agents, for one item, at a price that neither the
\* buyer's nor the seller's limit forbids, and of no more than either order is for.
THEOREM TradesAreWithinLimits == Spec => []TradesRespectOrders
<1>1. Init => TradesInv
  BY DEF Init, TradesInv, TradesRespectOrders
<1>2. TradesInv => TradesRespectOrders
  BY DEF TradesInv
<1> QED BY <1>1, <1>2, TradesStep, MarketInvariant, PTL DEF Spec

-----------------------------------------------------------------------------
(* Cash and goods are conserved. *)

\* What the wallets and the live orders hold of item i.
StockOf(i)   == [a \in Agents |-> inventory[a][i]]
ReserveOf(i) == [o \in Orders |-> HeldGoods(o)[i]]
Reserve      == [o \in Orders |-> HeldCash(o)]

Totals ==
  /\ Ledger!TotalCash = SumFunctionOnSet(balance, Agents) + SumFunctionOnSet(Reserve, Orders)
  /\ \A i \in Items : Ledger!TotalGoods(i) =
       SumFunctionOnSet(StockOf(i), Agents) + SumFunctionOnSet(ReserveOf(i), Orders)

\* The ledger sums as this module does.
LEMMA LedgerSum ==
  ASSUME NEW f, NEW S
  PROVE  Ledger!SumFunctionOnSet(f, S) = SumFunctionOnSet(f, S)
BY Zenon DEF Ledger!SumFunctionOnSet, Ledger!FoldFunctionOnSet, Ledger!MapThenFoldSet,
             SumFunctionOnSet, FoldFunctionOnSet, MapThenFoldSet

\* It counts as this module does.
LEMMA LedgerCount ==
  ASSUME NEW S
  PROVE  Ledger!Cardinality(S) = Cardinality(S)
BY Zenon DEF Ledger!Cardinality, Cardinality, Ledger!IsFiniteSet, IsFiniteSet

\* The totals of the ledger, as sums over the state of the market.
LEMMA LedgerTotals == Totals /\ Totals'
<1> DEFINE held == [o \in Orders |-> HeldGoods(o)]
<1>1. \A i : [o \in Orders |-> held[o][i]] = ReserveOf(i)
  BY DEF ReserveOf
<1>2. \A i : [o \in Orders |-> held'[o][i]] = ReserveOf(i)'
  BY DEF ReserveOf
<1>3. Totals
  BY <1>1, LedgerSum, Zenon DEF Totals, Ledger!TotalCash, Ledger!TotalGoods, Reserve, StockOf
<1>4. Totals'
  BY <1>2, LedgerSum, Zenon DEF Totals, Ledger!TotalCash, Ledger!TotalGoods, Reserve, StockOf
<1> QED BY <1>3, <1>4

\* The summands are integers.
Summands ==
  /\ balance \in [Agents -> Int] /\ Reserve \in [Orders -> Int]
  /\ inventory \in [Agents -> [Items -> Int]]
  /\ \A o \in Orders : HeldGoods(o) \in [Items -> Int]
  /\ \A i \in Items : StockOf(i) \in [Agents -> Int] /\ ReserveOf(i) \in [Orders -> Int]

LEMMA SummandTypes == MarketInv => Summands
<1> SUFFICES ASSUME MarketInv PROVE Summands
  OBVIOUS
<1>1. balance \in [Agents -> Int] /\ inventory \in [Agents -> [Items -> Int]]
  BY DEF MarketInv, TypeOK
<1>2. \A o \in Orders : HeldCash(o) \in Int /\ HeldGoods(o) \in [Items -> Int]
  BY HeldTypes
<1> QED BY <1>1, <1>2 DEF Summands, Reserve, StockOf, ReserveOf

LEMMA NextSummandTypes == MarketInv' => Summands'
BY SummandTypes, PTL

\* The totals before and after a step.
CashKept ==
  SumFunctionOnSet(balance', Agents) + SumFunctionOnSet(Reserve', Orders)
    = SumFunctionOnSet(balance, Agents) + SumFunctionOnSet(Reserve, Orders)

GoodsKept(i) ==
  SumFunctionOnSet(StockOf(i)', Agents) + SumFunctionOnSet(ReserveOf(i)', Orders)
    = SumFunctionOnSet(StockOf(i), Agents) + SumFunctionOnSet(ReserveOf(i), Orders)

\* Cash that moves between one wallet and one order.
LEMMA CashMoves ==
  ASSUME Summands, Summands', NEW a \in Agents, NEW o \in Orders,
         \A x \in Agents \ {a} : balance'[x] = balance[x],
         \A x \in Orders \ {o} : Reserve'[x] = Reserve[x],
         balance'[a] + Reserve'[o] = balance[a] + Reserve[o]
  PROVE  CashKept
<1>1. /\ \A x \in Agents : balance[x] \in Int /\ balance'[x] \in Int
                           /\ (x # a => balance'[x] = balance[x])
      /\ \A x \in Orders : Reserve[x] \in Int /\ Reserve'[x] \in Int
                           /\ (x # o => Reserve'[x] = Reserve[x])
  BY DEF Summands
<1> QED BY <1>1, SumTransfer, MarketAssumption DEF CashKept

\* Units of one item that move between the stock of one agent and one order.
LEMMA GoodsMove ==
  ASSUME Summands, Summands', NEW a \in Agents, NEW o \in Orders, NEW i \in Items,
         \A x \in Agents \ {a} : inventory'[x] = inventory[x],
         \A x \in Orders \ {o} : HeldGoods(x)' = HeldGoods(x),
         inventory'[a][i] + HeldGoods(o)'[i] = inventory[a][i] + HeldGoods(o)[i]
  PROVE  GoodsKept(i)
<1> DEFINE f == StockOf(i)
           g == ReserveOf(i)
<1>1. f \in [Agents -> Int] /\ f' \in [Agents -> Int] /\ g \in [Orders -> Int] /\ g' \in [Orders -> Int]
  BY DEF Summands
<1>2. /\ \A x \in Agents : f[x] = inventory[x][i] /\ f'[x] = inventory'[x][i]
      /\ \A x \in Orders : g[x] = HeldGoods(x)[i] /\ g'[x] = HeldGoods(x)'[i]
  BY DEF StockOf, ReserveOf
<1> HIDE DEF f, g
<1>3. /\ \A x \in Agents : f[x] \in Int /\ f'[x] \in Int /\ (x # a => f'[x] = f[x])
      /\ \A x \in Orders : g[x] \in Int /\ g'[x] \in Int /\ (x # o => g'[x] = g[x])
      /\ f'[a] + g'[o] = f[a] + g[o]
  BY <1>1, <1>2
<1>4. SumFunctionOnSet(f', Agents) + SumFunctionOnSet(g', Orders)
        = SumFunctionOnSet(f, Agents) + SumFunctionOnSet(g, Orders)
  BY <1>3, SumTransfer, MarketAssumption
<1> QED BY <1>4 DEF GoodsKept, f, g

\* Cash or goods that do not move keep their totals.
LEMMA CashRests ==
  ASSUME balance' = balance, \A x \in Orders : HeldCash(x)' = HeldCash(x)
  PROVE  CashKept
BY DEF CashKept, Reserve

LEMMA GoodsRest ==
  ASSUME NEW i \in Items, \A a \in Agents : inventory'[a][i] = inventory[a][i],
         \A x \in Orders : HeldGoods(x)'[i] = HeldGoods(x)[i]
  PROVE  GoodsKept(i)
<1>1. StockOf(i)' = StockOf(i) /\ ReserveOf(i)' = ReserveOf(i)
  BY DEF StockOf, ReserveOf
<1> QED BY <1>1 DEF GoodsKept

TotalsKept == CashKept /\ \A i \in Items : GoodsKept(i)

\* Paying into a fresh escrow.
LEMMA LockKeepsTotals ==
  ASSUME Summands, Summands', NEW o \in Orders, NEW a \in Agents,
         HeldCash(o) = 0, HeldGoods(o) = [i \in Items |-> 0],
         \/ \E amount \in Nat : Ledger!LockCash(o, a, amount)
         \/ \E i \in Items, q \in Nat : Ledger!LockGoods(o, a, i, q)
  PROVE  TotalsKept
<1>1. ASSUME NEW amount \in Nat, Ledger!LockCash(o, a, amount)
      PROVE  TotalsKept
  <2>1. /\ balance' = [balance EXCEPT ![a] = @ - amount]
        /\ Reserve' = [Reserve EXCEPT ![o] = amount]
        /\ inventory' = inventory
        /\ [x \in Orders |-> HeldGoods(x)]' = [x \in Orders |-> HeldGoods(x)]
    BY <1>1 DEF Ledger!LockCash, Reserve
  <2>2. Reserve[o] = 0
    BY DEF Reserve
  <2>3. CashKept
    BY <2>1, <2>2, CashMoves DEF Summands
  <2>4. \A x \in Orders : HeldGoods(x)' = HeldGoods(x)
    BY <2>1
  <2> QED BY <2>1, <2>3, <2>4, GoodsRest DEF TotalsKept
<1>2. ASSUME NEW i \in Items, NEW q \in Nat, Ledger!LockGoods(o, a, i, q)
      PROVE  TotalsKept
  <2> DEFINE held == [x \in Orders |-> HeldGoods(x)]
  <2>1. /\ inventory' = [inventory EXCEPT ![a][i] = @ - q]
        /\ held' = [held EXCEPT ![o][i] = q]
        /\ balance' = balance
        /\ [x \in Orders |-> HeldCash(x)]' = [x \in Orders |-> HeldCash(x)]
    BY <1>2 DEF Ledger!LockGoods
  <2>2. /\ HeldGoods(o)' = [HeldGoods(o) EXCEPT ![i] = q]
        /\ \A x \in Orders \ {o} : HeldGoods(x)' = HeldGoods(x)
    BY <2>1
  <2>3. \A x \in Orders : HeldCash(x)' = HeldCash(x)
    BY <2>1
  <2>4. ASSUME NEW j \in Items PROVE GoodsKept(j)
    <3>1. inventory'[a][j] + HeldGoods(o)'[j] = inventory[a][j] + HeldGoods(o)[j]
      BY <2>1, <2>2 DEF Summands
    <3>2. \A x \in Agents \ {a} : inventory'[x] = inventory[x]
      BY <2>1 DEF Summands
    <3> QED BY <2>2, <3>1, <3>2, GoodsMove
  <2> QED BY <2>1, <2>3, <2>4, CashRests DEF TotalsKept
<1> QED BY <1>1, <1>2

\* Giving an escrow back.
LEMMA ReturnKeepsTotals ==
  ASSUME Summands, Summands', NEW o \in Orders, Ledger!Return(o),
         OwnerOf(o) \in Agents
  PROVE  TotalsKept
<1> DEFINE a == OwnerOf(o)
           held == [x \in Orders |-> HeldGoods(x)]
<1>1. /\ balance' = [balance EXCEPT ![a] = @ + Reserve[o]]
      /\ inventory' = [inventory EXCEPT ![a] = [i \in Items |-> @[i] + held[o][i]]]
      /\ Reserve' = [Reserve EXCEPT ![o] = 0]
      /\ held' = [held EXCEPT ![o] = [i \in Items |-> 0]]
  BY DEF Ledger!Return, Ledger!NoGoods, Reserve, OwnerOf
<1> HIDE DEF a
<1>2. a \in Agents
  BY DEF a
<1>3. CashKept
  BY <1>1, <1>2, CashMoves DEF Summands
<1>4. /\ HeldGoods(o)' = [i \in Items |-> 0]
      /\ \A x \in Orders \ {o} : HeldGoods(x)' = HeldGoods(x)
      /\ held[o] = HeldGoods(o)
  BY <1>1
<1>5. ASSUME NEW i \in Items PROVE GoodsKept(i)
  <2>1. inventory'[a][i] + HeldGoods(o)'[i] = inventory[a][i] + HeldGoods(o)[i]
    BY <1>1, <1>2, <1>4 DEF Summands
  <2>2. \A x \in Agents \ {a} : inventory'[x] = inventory[x]
    BY <1>1, <1>2 DEF Summands
  <2> QED BY <1>2, <1>4, <2>1, <2>2, GoodsMove
<1> QED BY <1>3, <1>5 DEF TotalsKept

\* An exchange between two escrows.
LEMMA ExchangeKeepsTotals ==
  ASSUME Summands, Summands', NEW b \in Orders, NEW s \in Orders, NEW i \in Items,
         NEW q \in Nat, NEW pay \in Nat, NEW back \in Nat,
         Ledger!Exchange(b, s, i, q, pay, back),
         OwnerOf(b) \in Agents, OwnerOf(s) \in Agents
  PROVE  TotalsKept
<1> DEFINE buyer == OwnerOf(b)
           seller == OwnerOf(s)
           held == [x \in Orders |-> HeldGoods(x)]
<1>1. /\ buyer # seller
      /\ balance' = [balance EXCEPT ![seller] = @ + pay, ![buyer] = @ + back]
      /\ inventory' = [inventory EXCEPT ![buyer][i] = @ + q]
      /\ Reserve' = [Reserve EXCEPT ![b] = @ - (pay + back)]
      /\ held' = [held EXCEPT ![s][i] = @ - q]
  BY DEF Ledger!Exchange, Reserve, OwnerOf
<1> HIDE DEF buyer, seller
<1>2. buyer \in Agents /\ seller \in Agents
  BY DEF buyer, seller
<1>3. CashKept
  <2>1. /\ \A x \in Agents : balance[x] \in Int /\ balance'[x] \in Int
        /\ \A x \in Agents : x # seller /\ x # buyer => balance'[x] = balance[x]
        /\ balance'[seller] = balance[seller] + pay /\ balance'[buyer] = balance[buyer] + back
    BY <1>1, <1>2 DEF Summands
  <2>2. SumFunctionOnSet(balance', Agents)
          = SumFunctionOnSet(balance, Agents) + (balance'[seller] - balance[seller])
                                              + (balance'[buyer] - balance[buyer])
    <3>1. IsFiniteSet(Agents) /\ seller # buyer
      BY <1>1, MarketAssumption
    <3> QED BY <1>2, <2>1, <3>1, SumChangeTwo
  <2>3. /\ \A x \in Orders : Reserve[x] \in Int /\ Reserve'[x] \in Int
        /\ \A x \in Orders : x # b => Reserve'[x] = Reserve[x]
        /\ Reserve'[b] = Reserve[b] - (pay + back)
    BY <1>1 DEF Summands
  <2>4. SumFunctionOnSet(Reserve', Orders) = SumFunctionOnSet(Reserve, Orders) + Reserve'[b] - Reserve[b]
    BY <2>3, SumChange, MarketAssumption
  <2>5. SumFunctionOnSet(balance, Agents) \in Int /\ SumFunctionOnSet(Reserve, Orders) \in Int
    BY <2>1, <2>3, SumInt, MarketAssumption
  <2>6. /\ balance[seller] \in Int /\ balance[buyer] \in Int /\ Reserve[b] \in Int
        /\ balance'[seller] \in Int /\ balance'[buyer] \in Int /\ Reserve'[b] \in Int
    BY <1>2, <2>1, <2>3
  <2>7. balance'[seller] - balance[seller] = pay /\ balance'[buyer] - balance[buyer] = back
        /\ Reserve'[b] - Reserve[b] = -(pay + back)
    BY <2>1, <2>3, <2>6
  <2> QED BY <2>2, <2>4, <2>5, <2>6, <2>7 DEF CashKept
<1>4. /\ HeldGoods(s)' = [HeldGoods(s) EXCEPT ![i] = @ - q]
      /\ \A x \in Orders \ {s} : HeldGoods(x)' = HeldGoods(x)
  BY <1>1
<1>5. ASSUME NEW j \in Items PROVE GoodsKept(j)
  <2>1. inventory'[buyer][j] + HeldGoods(s)'[j] = inventory[buyer][j] + HeldGoods(s)[j]
    BY <1>1, <1>2, <1>4 DEF Summands
  <2>2. \A x \in Agents \ {buyer} : inventory'[x] = inventory[x]
    BY <1>1, <1>2 DEF Summands
  <2> QED BY <1>2, <1>4, <2>1, <2>2, GoodsMove
<1> QED BY <1>3, <1>5 DEF TotalsKept

\* Every step of the market keeps the totals.
LEMMA StepKeepsTotals == MarketInv /\ MarketInv' /\ [Next]_vars => TotalsKept
<1> SUFFICES ASSUME MarketInv, MarketInv', [Next]_vars PROVE TotalsKept
  OBVIOUS
<1>0. Summands /\ Summands'
  BY SummandTypes, NextSummandTypes
<1>1. Ledger!Next \/ UNCHANGED Ledger!vars
  BY LedgerStep
<1>2. CASE UNCHANGED Ledger!vars
  <2>1. /\ balance' = balance /\ inventory' = inventory
        /\ [o \in Orders |-> HeldCash(o)]' = [o \in Orders |-> HeldCash(o)]
        /\ [o \in Orders |-> HeldGoods(o)]' = [o \in Orders |-> HeldGoods(o)]
    BY <1>2 DEF Ledger!vars
  <2>2. \A o \in Orders : HeldCash(o)' = HeldCash(o) /\ HeldGoods(o)' = HeldGoods(o)
    BY <2>1
  <2> QED BY <2>1, <2>2, CashRests, GoodsRest DEF TotalsKept
<1>3. \A o \in Orders : OwnerOf(o) # NoTerms => OwnerOf(o) \in Agents
  BY HeldTypes DEF OwnerOf
<1>4. \A o \in Orders : OwnerOf(o) = NoTerms => HeldCash(o) = 0 /\ HeldGoods(o) = [i \in Items |-> 0]
  <2> SUFFICES ASSUME NEW o \in Orders, OwnerOf(o) = NoTerms
               PROVE  HeldCash(o) = 0 /\ HeldGoods(o) = [i \in Items |-> 0]
    OBVIOUS
  <2>1. status[o] = "NONE"
    BY HeldTypes, MarketAssumption
  <2> QED BY <2>1 DEF HeldCash, HeldGoods, Live
<1>5. ASSUME NEW o \in Orders, NEW a \in Agents,
             \/ \E amount \in 1..balance[a] : Ledger!LockCash(o, a, amount)
             \/ \E i \in Items : \E q \in 1..inventory[a][i] : Ledger!LockGoods(o, a, i, q)
      PROVE  TotalsKept
  <2>1. OwnerOf(o) = NoTerms
    BY <1>5 DEF Ledger!LockCash, Ledger!LockGoods, OwnerOf
  <2>2. \/ \E amount \in Nat : Ledger!LockCash(o, a, amount)
        \/ \E i \in Items, q \in Nat : Ledger!LockGoods(o, a, i, q)
    BY <1>0, <1>5 DEF Summands
  <2> QED BY <1>0, <1>4, <2>1, <2>2, LockKeepsTotals
<1>6. ASSUME NEW o \in Orders, Ledger!Return(o) PROVE TotalsKept
  <2>1. OwnerOf(o) # NoTerms
    BY <1>6 DEF Ledger!Return, OwnerOf
  <2> QED BY <1>0, <1>3, <1>6, <2>1, ReturnKeepsTotals
<1>7. ASSUME NEW b \in Orders, NEW s \in Orders, NEW i \in Items,
             NEW q \in 1..HeldGoods(s)[i], NEW pay \in 0..HeldCash(b), NEW back \in 0..HeldCash(b),
             Ledger!Exchange(b, s, i, q, pay, back)
      PROVE  TotalsKept
  <2>1. OwnerOf(b) # NoTerms /\ OwnerOf(s) # NoTerms
    BY <1>7 DEF Ledger!Exchange, OwnerOf
  <2>2. q \in Nat /\ pay \in Nat /\ back \in Nat
    BY <1>0, HeldTypes
  <2> QED BY <1>0, <1>3, <1>7, <2>1, <2>2, ExchangeKeepsTotals
<1> QED BY <1>1, <1>2, <1>5, <1>6, <1>7 DEF Ledger!Next

\* The totals at the start.
LEMMA InitTotals == Init => Conservation
<1> SUFFICES ASSUME Init PROVE Conservation
  OBVIOUS
<1>1. /\ \A a \in Agents : balance[a] = InitBalance
      /\ \A o \in Orders : Reserve[o] = 0
      /\ \A i \in Items : /\ \A a \in Agents : StockOf(i)[a] = InitStock
                          /\ \A o \in Orders : ReserveOf(i)[o] = 0
  BY DEF Init, Reserve, StockOf, ReserveOf, HeldCash, HeldGoods, Live
<1>2. Cardinality(Agents) \in Nat /\ Cardinality(Orders) \in Nat
  BY MarketAssumption, FS_CardinalityType
<1>3. SumFunctionOnSet(balance, Agents) = InitBalance * Cardinality(Agents)
      /\ SumFunctionOnSet(Reserve, Orders) = 0 * Cardinality(Orders)
  BY <1>1, SumConstant, MarketAssumption
<1>4. ASSUME NEW i \in Items
      PROVE  SumFunctionOnSet(StockOf(i), Agents) = InitStock * Cardinality(Agents)
             /\ SumFunctionOnSet(ReserveOf(i), Orders) = 0 * Cardinality(Orders)
  BY <1>1, SumConstant, MarketAssumption
<1>5. 0 * Cardinality(Orders) = 0
      /\ InitBalance * Cardinality(Agents) \in Nat /\ InitStock * Cardinality(Agents) \in Nat
  BY <1>2, ProductNat, MarketAssumption
<1>6. Ledger!TotalCash = InitBalance * Cardinality(Agents)
  BY <1>3, <1>5, LedgerTotals DEF Totals
<1>7. \A i \in Items : Ledger!TotalGoods(i) = InitStock * Cardinality(Agents)
  BY <1>4, <1>5, LedgerTotals DEF Totals
<1> QED BY <1>6, <1>7, LedgerCount DEF Conservation, Ledger!Conservation

\* Cash and goods are conserved: no fill, refund of a price difference, expiry or
\* cancellation creates or destroys a cent or a unit, for any number of agents and orders.
THEOREM CashAndGoodsConserved == Spec => []Conservation
<1>1. MarketInv /\ MarketInv' /\ [Next]_vars /\ Conservation => Conservation'
  <2> SUFFICES ASSUME MarketInv, MarketInv', [Next]_vars, Conservation PROVE Conservation'
    OBVIOUS
  <2>1. TotalsKept
    BY StepKeepsTotals
  <2>2. Ledger!TotalCash' = Ledger!TotalCash
        /\ \A i \in Items : Ledger!TotalGoods(i)' = Ledger!TotalGoods(i)
    BY <2>1, LedgerTotals DEF Totals, TotalsKept, CashKept, GoodsKept
  <2> QED BY <2>2 DEF Conservation, Ledger!Conservation
<1> QED BY <1>1, InitTotals, MarketInvariant, PTL DEF Spec

-----------------------------------------------------------------------------
(* The trade log explains fills, trade counts and earnings. *)

\* The trades of an order, and those an agent sold or bought in.
TradesOf(o) == {t \in trades : o \in {t.buy, t.sell}}
SoldBy(a)   == {t \in trades : terms[t.sell].agent = a}
BoughtBy(a) == {t \in trades : terms[t.buy].agent = a}

Quantities == [t \in trades |-> t.quantity]
Proceeds   == [t \in trades |-> t.price * t.quantity]

OrdersExplained ==
  \A o \in Orders : filled[o] = SumFunctionOnSet(Quantities, TradesOf(o))
AgentsExplained ==
  \A a \in Agents :
    /\ totalTrades[a] = Cardinality(SoldBy(a)) + Cardinality(BoughtBy(a))
    /\ totalEarnings[a] = SumFunctionOnSet(Proceeds, SoldBy(a))

\* A trade used up one of its two orders, so that no later trade repeats it.
TradeUsesUpAnOrder ==
  \A t \in trades : status[t.buy] = "FILLED" \/ status[t.sell] = "FILLED"

LogInv ==
  /\ IsFiniteSet(trades)
  /\ TradeUsesUpAnOrder
  /\ OrdersExplained
  /\ AgentsExplained

LEMMA LogInit == Init => LogInv
<1> SUFFICES ASSUME Init PROVE LogInv
  OBVIOUS
<1>1. trades = {} /\ \A o : TradesOf(o) = {} /\ SoldBy(o) = {} /\ BoughtBy(o) = {}
  BY DEF Init, TradesOf, SoldBy, BoughtBy
<1>2. IsFiniteSet({}) /\ Cardinality({}) = 0 /\ \A f : SumFunctionOnSet(f, {}) = 0
  BY FS_EmptySet, SumEmpty
<1>3. OrdersExplained
  BY <1>1, <1>2 DEF Init, OrdersExplained
<1>4. AgentsExplained
  <2>1. \A a \in Agents : totalTrades[a] = 0 /\ totalEarnings[a] = 0
    BY DEF Init
  <2>2. \A a \in Agents : /\ Cardinality(SoldBy(a)) = 0 /\ Cardinality(BoughtBy(a)) = 0
                          /\ SumFunctionOnSet(Proceeds, SoldBy(a)) = 0
    BY <1>1, <1>2
  <2> QED BY <2>1, <2>2 DEF AgentsExplained
<1>5. TradeUsesUpAnOrder
  BY <1>1 DEF TradeUsesUpAnOrder
<1> QED BY <1>1, <1>2, <1>3, <1>4, <1>5 DEF LogInv

\* A step that records no trade touches neither a fill nor a statistic, nor the terms of
\* an order that has traded.
LEMMA LogKept ==
  ASSUME MarketInv, TradesInv, LogInv, [Next]_vars, ~ \E i \in Items : Match(i)
  PROVE  LogInv'
<1>1. UNCHANGED <<filled, stats>>
  <2>1. ASSUME PlaceOrder PROVE UNCHANGED <<filled, stats>>
    BY <2>1 DEF PlaceOrder, PlaceBuy, PlaceSell, NewOrder
  <2> QED BY <2>1 DEF Next, CancelOrder, BeginAuction, ExpireOrder, SelectOpen, SkipOwnSell,
                      CloseItem, EndAuction, AdvanceTick, vars, book
<1>2. \A t \in trades : t.buy \in Orders /\ t.sell \in Orders
  BY DEF MarketInv, TypeOK, TradeRows
<1>3. \A t \in trades : terms'[t.buy] = terms[t.buy] /\ terms'[t.sell] = terms[t.sell]
  BY <1>2, StepAdvancesOrders DEF TradesInv, OrderOnlyAdvances
<1>4. /\ \A o : TradesOf(o)' = TradesOf(o)
      /\ \A a : SoldBy(a)' = SoldBy(a) /\ BoughtBy(a)' = BoughtBy(a)
      /\ Quantities' = Quantities /\ Proceeds' = Proceeds
  BY <1>1, <1>3 DEF TradesOf, SoldBy, BoughtBy, Quantities, Proceeds, stats
<1>5. TradeUsesUpAnOrder'
  BY <1>1, <1>2, StepAdvancesOrders DEF LogInv, TradeUsesUpAnOrder, OrderOnlyAdvances, Final, stats
<1>6. OrdersExplained' /\ AgentsExplained'
  BY <1>1, <1>4 DEF LogInv, OrdersExplained, AgentsExplained, stats
<1> QED BY <1>1, <1>5, <1>6 DEF LogInv, stats

\* One more row in a set of rows adds its value to a sum and one to a count.
LEMMA LogSum ==
  ASSUME NEW S, IsFiniteSet(S), NEW r, r \notin S,
         NEW f, NEW g, \A t \in S : f[t] \in Int /\ g[t] = f[t], g[r] \in Int
  PROVE  /\ SumFunctionOnSet(g, S \cup {r}) = SumFunctionOnSet(f, S) + g[r]
         /\ SumFunctionOnSet(g, S) = SumFunctionOnSet(f, S)
         /\ Cardinality(S \cup {r}) = Cardinality(S) + 1
<1>1. SumFunctionOnSet(g, S) = SumFunctionOnSet(f, S)
  BY SumSame
<1>2. SumFunctionOnSet(g, S \cup {r}) = g[r] + SumFunctionOnSet(g, S)
  BY SumAdd
<1>3. SumFunctionOnSet(f, S) \in Int
  BY SumInt
<1>4. Cardinality(S \cup {r}) = Cardinality(S) + 1
  BY FS_AddElement
<1> QED BY <1>1, <1>2, <1>3, <1>4

\* A match is recorded by one new row.
LEMMA LogMatch ==
  ASSUME MarketInv, TradesInv, LogInv, NEW i \in Items, Match(i)
  PROVE  LogInv'
<1> PICK b \in Heads(i, "BUY"), s \in Heads(i, "SELL") : MatchPair(b, s)
  BY DEF Match
<1> DEFINE p == MatchPrice(b, s)
           q == MatchQuantity(b, s)
           buyer == terms[b].agent
           seller == terms[s].agent
           r == [tick |-> tick, buy |-> b, sell |-> s, price |-> p, quantity |-> q]
<1>1. /\ b \in Orders /\ s \in Orders /\ b # s
      /\ status[b] \in Live /\ status[s] \in Live
  BY MatchedOrders
<1>2. /\ Crosses(b, s) /\ FillOrders(b, s, q) /\ PayAndDeliver(b, s, p, q)
      /\ UNCHANGED terms /\ buyer # seller
      /\ trades' = trades \cup {r}
  BY DEF Match, MatchPair, SameAgent
<1>3. p \in Nat /\ q \in Nat \ {0} /\ p * q \in Nat
  <2>1. p \in Nat /\ q \in Nat \ {0}
    BY <1>1, <1>2, MatchNumbers
  <2> HIDE DEF p, q
  <2> QED BY <2>1, ProductNat
<1>4. buyer \in Agents /\ seller \in Agents
  BY <1>1, LiveOrder DEF OrderTerms
<1>5. r.buy = b /\ r.sell = s /\ r.price = p /\ r.quantity = q
  OBVIOUS
<1>6. r \notin trades
  BY <1>1, <1>5 DEF LogInv, TradeUsesUpAnOrder, Live
<1>7. /\ filled \in [Orders -> Nat] /\ status \in [Orders -> Statuses]
      /\ totalTrades \in [Agents -> Nat] /\ totalEarnings \in [Agents -> Nat]
      /\ trades \subseteq TradeRows
  BY DEF MarketInv, TypeOK
<1>8. /\ filled' = [filled EXCEPT ![b] = @ + q, ![s] = @ + q]
      /\ status' = [status EXCEPT ![b] = StatusAfter(b, q), ![s] = StatusAfter(s, q)]
  BY <1>2 DEF FillOrders
<1>9. /\ totalTrades' = [totalTrades EXCEPT ![buyer] = @ + 1, ![seller] = @ + 1]
      /\ totalEarnings' = [totalEarnings EXCEPT ![seller] = @ + p * q]
  BY <1>2 DEF PayAndDeliver
<1>10. StatusAfter(b, q) = "FILLED" \/ StatusAfter(s, q) = "FILLED"
  <2>1. q = Remaining(b) \/ q = Remaining(s)
    BY DEF MatchQuantity
  <2>2. \A o \in {b, s} : /\ filled[o] \in Nat /\ terms[o].quantity \in Nat
                          /\ Remaining(o) = terms[o].quantity - filled[o]
    BY <1>1, <1>7, LiveOrder DEF Remaining, OrderTerms
  <2> HIDE DEF q
  <2>3. \A o \in {b, s} : q = Remaining(o) => filled[o] + q >= terms[o].quantity
    BY <2>2
  <2> QED BY <2>1, <2>3 DEF StatusAfter
<1> HIDE DEF p, q, buyer, seller, r
<1>11. \A t \in trades : /\ t.quantity \in Int /\ t.price * t.quantity \in Int
                         /\ t.buy \in Orders /\ t.sell \in Orders
  <2> TAKE t \in trades
  <2>1. t.price \in Nat /\ t.quantity \in Nat /\ t.buy \in Orders /\ t.sell \in Orders
    BY <1>7 DEF TradeRows
  <2>2. t.price * t.quantity \in Nat
    BY <2>1, ProductNat
  <2> QED BY <2>1, <2>2
<1>12. IsFiniteSet(trades')
  BY <1>2, FS_AddElement DEF LogInv
<1>13. TradeUsesUpAnOrder'
  <2> SUFFICES ASSUME NEW t \in trades'
               PROVE  status'[t.buy] = "FILLED" \/ status'[t.sell] = "FILLED"
    BY DEF TradeUsesUpAnOrder
  <2>1. CASE t = r
    BY <1>1, <1>5, <1>7, <1>8, <1>10, <2>1
  <2>2. CASE t \in trades
    <3>1. \A o \in Orders : status[o] = "FILLED" => status'[o] = "FILLED"
      BY <1>1, <1>7, <1>8 DEF Live
    <3> QED BY <1>11, <2>2, <3>1 DEF LogInv, TradeUsesUpAnOrder
  <2> QED BY <1>2, <2>1, <2>2
<1>14. /\ \A t \in trades : Quantities[t] \in Int /\ Quantities'[t] = Quantities[t]
       /\ \A t \in trades : Proceeds[t] \in Int /\ Proceeds'[t] = Proceeds[t]
       /\ Quantities'[r] = q /\ Proceeds'[r] = p * q
  BY <1>2, <1>5, <1>11 DEF Quantities, Proceeds
<1>15. \A S \in SUBSET trades : IsFiniteSet(S) /\ Cardinality(S) \in Nat
  BY FS_Subset, FS_CardinalityType DEF LogInv
<1>16. ASSUME NEW S \in SUBSET trades
       PROVE  /\ SumFunctionOnSet(Quantities', S \cup {r}) = SumFunctionOnSet(Quantities, S) + q
              /\ SumFunctionOnSet(Quantities', S) = SumFunctionOnSet(Quantities, S)
              /\ SumFunctionOnSet(Proceeds', S \cup {r}) = SumFunctionOnSet(Proceeds, S) + p * q
              /\ SumFunctionOnSet(Proceeds', S) = SumFunctionOnSet(Proceeds, S)
              /\ Cardinality(S \cup {r}) = Cardinality(S) + 1
  <2>1. IsFiniteSet(S) /\ S \subseteq trades /\ r \notin S
    BY <1>6, <1>15
  <2>2. /\ SumFunctionOnSet(Quantities', S \cup {r}) = SumFunctionOnSet(Quantities, S) + Quantities'[r]
        /\ SumFunctionOnSet(Quantities', S) = SumFunctionOnSet(Quantities, S)
        /\ Cardinality(S \cup {r}) = Cardinality(S) + 1
    <3> DEFINE f == Quantities
               g == Quantities'
    <3>1. (\A t \in S : f[t] \in Int /\ g[t] = f[t]) /\ g[r] \in Int
      BY <1>3, <1>14, <2>1
    <3> HIDE DEF f, g
    <3>2. /\ SumFunctionOnSet(g, S \cup {r}) = SumFunctionOnSet(f, S) + g[r]
          /\ SumFunctionOnSet(g, S) = SumFunctionOnSet(f, S)
          /\ Cardinality(S \cup {r}) = Cardinality(S) + 1
      BY <2>1, <3>1, LogSum
    <3> QED BY <3>2 DEF f, g
  <2>3. /\ SumFunctionOnSet(Proceeds', S \cup {r}) = SumFunctionOnSet(Proceeds, S) + Proceeds'[r]
        /\ SumFunctionOnSet(Proceeds', S) = SumFunctionOnSet(Proceeds, S)
    <3> DEFINE f == Proceeds
               g == Proceeds'
    <3>1. (\A t \in S : f[t] \in Int /\ g[t] = f[t]) /\ g[r] \in Int
      BY <1>3, <1>14, <2>1
    <3> HIDE DEF f, g
    <3>2. /\ SumFunctionOnSet(g, S \cup {r}) = SumFunctionOnSet(f, S) + g[r]
          /\ SumFunctionOnSet(g, S) = SumFunctionOnSet(f, S)
          /\ Cardinality(S \cup {r}) = Cardinality(S) + 1
      BY <2>1, <3>1, LogSum
    <3> QED BY <3>2 DEF f, g
  <2> QED BY <1>14, <2>2, <2>3
<1>17. OrdersExplained'
  <2> SUFFICES ASSUME NEW o \in Orders
               PROVE  filled'[o] = SumFunctionOnSet(Quantities', TradesOf(o)')
    BY DEF OrdersExplained
  <2>1. filled[o] = SumFunctionOnSet(Quantities, TradesOf(o)) /\ TradesOf(o) \in SUBSET trades
    BY DEF LogInv, OrdersExplained, TradesOf
  <2>2. CASE o \in {b, s}
    <3>1. TradesOf(o)' = TradesOf(o) \cup {r}
      BY <1>2, <1>5, <2>2 DEF TradesOf
    <3>2. filled'[o] = filled[o] + q
      BY <1>1, <1>7, <1>8, <2>2
    <3> QED BY <1>16, <2>1, <3>1, <3>2
  <2>3. CASE o \notin {b, s}
    <3>1. TradesOf(o)' = TradesOf(o)
      BY <1>2, <1>5, <2>3 DEF TradesOf
    <3>2. filled'[o] = filled[o]
      BY <1>7, <1>8, <2>3
    <3> QED BY <1>16, <2>1, <3>1, <3>2
  <2> QED BY <2>2, <2>3
<1>18. AgentsExplained'
  <2> SUFFICES ASSUME NEW a \in Agents
               PROVE  /\ totalTrades'[a] = Cardinality(SoldBy(a)') + Cardinality(BoughtBy(a)')
                      /\ totalEarnings'[a] = SumFunctionOnSet(Proceeds', SoldBy(a)')
    BY DEF AgentsExplained
  <2>1. /\ totalTrades[a] = Cardinality(SoldBy(a)) + Cardinality(BoughtBy(a))
        /\ totalEarnings[a] = SumFunctionOnSet(Proceeds, SoldBy(a))
        /\ SoldBy(a) \in SUBSET trades /\ BoughtBy(a) \in SUBSET trades
    BY DEF LogInv, AgentsExplained, SoldBy, BoughtBy
  <2>2. /\ SoldBy(a)' = IF a = seller THEN SoldBy(a) \cup {r} ELSE SoldBy(a)
        /\ BoughtBy(a)' = IF a = buyer THEN BoughtBy(a) \cup {r} ELSE BoughtBy(a)
    BY <1>2, <1>5 DEF SoldBy, BoughtBy, seller, buyer
  <2>3. /\ totalTrades'[a] = IF a \in {buyer, seller} THEN totalTrades[a] + 1 ELSE totalTrades[a]
        /\ totalEarnings'[a] = IF a = seller THEN totalEarnings[a] + p * q ELSE totalEarnings[a]
    BY <1>2, <1>4, <1>7, <1>9
  <2>4. Cardinality(SoldBy(a)) \in Nat /\ Cardinality(BoughtBy(a)) \in Nat
    BY <1>15, <2>1
  <2>5. totalTrades'[a] = Cardinality(SoldBy(a)') + Cardinality(BoughtBy(a)')
    <3>1. CASE a = buyer
      <4>1. /\ SoldBy(a)' = SoldBy(a) /\ BoughtBy(a)' = BoughtBy(a) \cup {r}
            /\ totalTrades'[a] = totalTrades[a] + 1
        BY <1>2, <2>2, <2>3, <3>1
      <4>2. Cardinality(BoughtBy(a) \cup {r}) = Cardinality(BoughtBy(a)) + 1
        BY <1>16, <2>1
      <4> QED BY <2>1, <2>4, <4>1, <4>2
    <3>2. CASE a = seller
      <4>1. /\ SoldBy(a)' = SoldBy(a) \cup {r} /\ BoughtBy(a)' = BoughtBy(a)
            /\ totalTrades'[a] = totalTrades[a] + 1
        BY <1>2, <2>2, <2>3, <3>2
      <4>2. Cardinality(SoldBy(a) \cup {r}) = Cardinality(SoldBy(a)) + 1
        BY <1>16, <2>1
      <4> QED BY <2>1, <2>4, <4>1, <4>2
    <3>3. CASE a \notin {buyer, seller}
      BY <2>1, <2>2, <2>3, <3>3
    <3> QED BY <3>1, <3>2, <3>3
  <2>6. totalEarnings'[a] = SumFunctionOnSet(Proceeds', SoldBy(a)')
    <3>1. CASE a = seller
      <4>1. SoldBy(a)' = SoldBy(a) \cup {r} /\ totalEarnings'[a] = totalEarnings[a] + p * q
        BY <2>2, <2>3, <3>1
      <4>2. SumFunctionOnSet(Proceeds', SoldBy(a) \cup {r}) = SumFunctionOnSet(Proceeds, SoldBy(a)) + p * q
        BY <1>16, <2>1
      <4> QED BY <2>1, <4>1, <4>2
    <3>2. CASE a # seller
      <4>1. SoldBy(a)' = SoldBy(a) /\ totalEarnings'[a] = totalEarnings[a]
        BY <2>2, <2>3, <3>2
      <4>2. SumFunctionOnSet(Proceeds', SoldBy(a)) = SumFunctionOnSet(Proceeds, SoldBy(a))
        BY <1>16, <2>1
      <4> QED BY <2>1, <4>1, <4>2
    <3> QED BY <3>1, <3>2
  <2> QED BY <2>5, <2>6
<1> QED BY <1>12, <1>13, <1>17, <1>18 DEF LogInv

\* The log of trades is enough to rebuild what each order has filled, how often each agent
\* has traded and what it has earned, for any number of auctions.
THEOREM TradesExplainState == Spec => []TradeLogExplainsState
<1>1. MarketInv /\ TradesInv /\ LogInv /\ [Next]_vars => LogInv'
  BY LogKept, LogMatch
<1>2. LogInv => TradeLogExplainsState
  BY DEF LogInv, OrdersExplained, AgentsExplained, TradeLogExplainsState, TradesOf, SoldBy,
         BoughtBy, Quantities, Proceeds
<1>3. Init => TradesInv
  BY DEF Init, TradesInv, TradesRespectOrders
<1> QED BY <1>1, <1>2, <1>3, LogInit, TradesStep, MarketInvariant, PTL DEF Spec

-----------------------------------------------------------------------------
(* Price, time and missed trades.                                          *)

\* What the matching of an auction has done so far: a part-filled order is still a best one of
\* its queue; an OPEN order that left the queue left it with its item, or is a sell of an agent
\* that bids for the item too; and no pair that left it was a missed trade.
HeadsStay ==
  \A o \in queue : filled[o] > 0 =>
    \A x \in QueueOf(terms[o].item, terms[o].side) : ~Before(x, o)

PassedOver ==
  \A x \in Orders \ queue : status[x] = "OPEN" =>
    \/ QueueOf(terms[x].item, "BUY") \cup QueueOf(terms[x].item, "SELL") = {}
    \/ terms[x].side = "SELL" /\ OwnBids(x) # {}

HandledPairs ==
  \A b, s \in Orders : b \notin queue \/ s \notin queue => ~MissedTrade(b, s, {"OPEN"})

AuctionInv == phase = "matching" => HeadsStay /\ PassedOver /\ HandledPairs

\* The sort keys are the priority.
LEMMA PriorityIsBefore == \A x, o : HasPriority(x, o) <=> Before(x, o)
BY Zenon DEF HasPriority, Before

LEMMA OrderNumbers ==
  ASSUME MarketInv, NEW o \in Orders, status[o] # "NONE"
  PROVE  terms[o].price \in Nat /\ terms[o].created \in Nat /\ terms[o].side \in {"BUY", "SELL"}
<1>1. terms[o] \in OrderTerms
  BY DEF MarketInv, TypeOK, FillAgreesWithStatus
<1> QED BY <1>1 DEF OrderTerms, Sides

\* A finite set that is not empty has an element with the least key.
LEMMA LeastKey ==
  ASSUME NEW S, IsFiniteSet(S), S # {}, NEW key, \A x \in S : key[x] \in Int
  PROVE  \E m \in S : \A x \in S : key[m] <= key[x]
<1> DEFINE T == {s \in SUBSET S : s = {} \/ \E m \in s : \A x \in s : key[m] <= key[x]}
<1>1. {} \in T
  OBVIOUS
<1>2. ASSUME NEW s \in SUBSET S, NEW y \in S \ s, s \in T PROVE s \cup {y} \in T
  <2>1. CASE s = {}
    <3>1. \A x \in s \cup {y} : key[y] <= key[x]
      BY <2>1
    <3> QED BY <3>1
  <2>2. CASE s # {}
    <3>1. PICK m \in s : \A x \in s : key[m] <= key[x]
      BY <1>2, <2>2
    <3>2. CASE key[m] <= key[y]
      BY <3>1, <3>2
    <3>3. CASE ~(key[m] <= key[y])
      <4>1. \A x \in s \cup {y} : key[y] <= key[x]
        BY <3>1, <3>3
      <4> QED BY <4>1
    <3> QED BY <3>2, <3>3
  <2> QED BY <2>1, <2>2
<1>3. S \in T
  <2> HIDE DEF T
  <2> QED BY <1>1, <1>2, FiniteSetInduction
<1> QED BY <1>3

\* A queue that is not empty has a head.
LEMMA HeadExists ==
  ASSUME MarketInv, HeadsStay, NEW i, NEW side \in Sides, QueueOf(i, side) # {}
  PROVE  Heads(i, side) # {}
<1> DEFINE Q == QueueOf(i, side)
           cost == [x \in Q |-> IF side = "BUY" THEN -terms[x].price ELSE terms[x].price]
           age  == [x \in Q |-> terms[x].created]
<1>1. IsFiniteSet(Q) /\ \A x \in Q : x \in queue /\ terms[x].item = i /\ terms[x].side = side
  <2>1. Q \subseteq Orders
    BY DEF QueueOf, MarketInv, TypeOK
  <2>2. IsFiniteSet(Q)
    BY <2>1, FS_Subset, MarketAssumption
  <2> QED BY <2>2 DEF QueueOf
<1>2. \A x \in Q : terms[x].price \in Nat /\ terms[x].created \in Nat
  <2> SUFFICES ASSUME NEW x \in Q PROVE terms[x].price \in Nat /\ terms[x].created \in Nat
    OBVIOUS
  <2>1. x \in Orders /\ status[x] # "NONE"
    BY <1>1 DEF MarketInv, TypeOK, QueueIsLive, Live
  <2> QED BY <2>1, OrderNumbers
<1> HIDE DEF Q
<1>3. CASE \E x \in Q : filled[x] > 0
  <2>1. PICK x \in Q : filled[x] > 0
    BY <1>3
  <2>2. \A y \in Q : ~Before(y, x)
    BY <1>1, <2>1 DEF HeadsStay, Q
  <2> QED BY <2>1, <2>2 DEF Heads, Q
<1>4. CASE ~ \E x \in Q : filled[x] > 0
  <2>1. \A x \in Q : cost[x] \in Int /\ age[x] \in Int
    BY <1>2
  <2>2. \A x \in Q : /\ side = "BUY" => cost[x] = -terms[x].price
                     /\ side = "SELL" => cost[x] = terms[x].price
                     /\ age[x] = terms[x].created
    OBVIOUS
  <2> HIDE DEF cost, age
  <2>3. PICK m \in Q : \A x \in Q : cost[m] <= cost[x]
    BY <1>1, <2>1, LeastKey DEF Q
  <2> DEFINE P == {x \in Q : cost[x] = cost[m]}
  <2>4. IsFiniteSet(P) /\ P # {} /\ \A x \in P : age[x] \in Int
    BY <1>1, <2>1, <2>3, FS_Subset
  <2>5. PICK o \in P : \A x \in P : age[o] <= age[x]
    BY <2>4, LeastKey
  <2>6. ASSUME NEW x \in Q, Before(x, o) PROVE FALSE
    <3>1. o \in Q /\ cost[o] = cost[m] /\ cost[o] <= cost[x]
      BY <2>3, <2>5
    <3>2. cost[x] < cost[o] \/ (cost[x] = cost[o] /\ age[x] < age[o])
      <4>1. side = "BUY" \/ side = "SELL"
        BY DEF Sides
      <4>2. CASE side = "BUY"
        BY <1>1, <1>2, <2>2, <2>6, <3>1, <4>2 DEF Before
      <4>3. CASE side = "SELL"
        BY <1>1, <1>2, <2>2, <2>6, <3>1, <4>3 DEF Before
      <4> QED BY <4>1, <4>2, <4>3
    <3>3. cost[x] = cost[o] /\ age[x] < age[o]
      BY <2>1, <3>1, <3>2
    <3>4. x \in P
      BY <3>1, <3>3
    <3> QED BY <2>1, <2>5, <3>1, <3>3, <3>4
  <2> QED BY <1>4, <2>5, <2>6 DEF Heads, Q
<1> QED BY <1>3, <1>4

\* A step of the matching: orders leave the queue, and their status.
MatchingStep ==
  /\ terms' = terms /\ queue' \subseteq queue
  /\ \A o \in Orders :
       /\ status'[o] = "OPEN" => status[o] = "OPEN"
       /\ status'[o] \in Live \cup {"FILLED"} <=> status[o] \in Live \cup {"FILLED"}

LEMMA MatchingSteps ==
  ASSUME MarketInv, NEW i \in Items, SkipOwnSell(i) \/ Match(i) \/ CloseItem(i)
  PROVE  MatchingStep
<1>1. CASE SkipOwnSell(i) \/ CloseItem(i)
  BY <1>1 DEF SkipOwnSell, CloseItem, MatchingStep, book
<1>2. CASE Match(i)
  <2> PICK b \in Heads(i, "BUY"), s \in Heads(i, "SELL") : MatchPair(b, s)
    BY <1>2 DEF Match
  <2> DEFINE q == MatchQuantity(b, s)
  <2>1. b \in Orders /\ s \in Orders /\ b # s /\ status[b] \in Live /\ status[s] \in Live
    BY MatchedOrders
  <2>2. FillOrders(b, s, q) /\ terms' = terms
    BY <1>2 DEF MatchPair, Match
  <2> HIDE DEF q
  <2>3. status \in [Orders -> Statuses]
    BY DEF MarketInv, TypeOK
  <2>4. /\ queue' \subseteq queue
        /\ \A y \in Orders \ {b, s} : status'[y] = status[y]
        /\ status'[b] \in {"FILLED", "PARTIALLY_FILLED"}
        /\ status'[s] \in {"FILLED", "PARTIALLY_FILLED"}
    BY <2>1, <2>2, <2>3 DEF FillOrders, StatusAfter
  <2> QED BY <2>1, <2>2, <2>4 DEF MatchingStep, Live
<1> QED BY <1>1, <1>2

LEMMA MatchingKeeps ==
  ASSUME MatchingStep
  PROVE  /\ \A i, side : QueueOf(i, side)' \subseteq QueueOf(i, side)
         /\ \A x : OwnBids(x)' = OwnBids(x)
         /\ \A b, s \in Orders : MissedTrade(b, s, {"OPEN"})' => MissedTrade(b, s, {"OPEN"})
<1>1. \A i, side : QueueOf(i, side)' \subseteq QueueOf(i, side)
  BY DEF MatchingStep, QueueOf
<1>2. \A x, side : Rivals(x, side)' = Rivals(x, side)
  BY DEF MatchingStep, Rivals
<1>3. \A x : OwnBids(x)' = OwnBids(x)
  BY <1>2 DEF MatchingStep, OwnBids
<1>4. \A x, o : HasPriority(x, o)' <=> HasPriority(x, o)
  BY DEF MatchingStep, HasPriority
<1>5. \A b, s \in Orders : MissedTrade(b, s, {"OPEN"})' => MissedTrade(b, s, {"OPEN"})
  BY <1>2, <1>3, <1>4 DEF MatchingStep, MissedTrade
<1> QED BY <1>1, <1>3, <1>5

\* Orders that leave the queue of an auction: what is to be shown of them alone.
LEMMA LeaveQueue ==
  ASSUME MatchingStep, PassedOver, HandledPairs, queue \subseteq Orders,
         \A x \in queue \ queue' : status'[x] = "OPEN" =>
           \/ QueueOf(terms[x].item, "BUY")' \cup QueueOf(terms[x].item, "SELL")' = {}
           \/ terms[x].side = "SELL" /\ OwnBids(x) # {},
         \A b, s \in queue : b \notin queue' \/ s \notin queue' => ~MissedTrade(b, s, {"OPEN"})'
  PROVE  PassedOver' /\ HandledPairs'
<1>1. /\ terms' = terms
      /\ \A i, side : QueueOf(i, side)' \subseteq QueueOf(i, side)
      /\ \A x : OwnBids(x)' = OwnBids(x)
      /\ \A b, s \in Orders : MissedTrade(b, s, {"OPEN"})' => MissedTrade(b, s, {"OPEN"})
      /\ \A x \in Orders : status'[x] = "OPEN" => status[x] = "OPEN"
  BY MatchingKeeps DEF MatchingStep
<1>2. ASSUME NEW x \in Orders \ queue', status'[x] = "OPEN"
      PROVE  \/ QueueOf(terms[x].item, "BUY")' \cup QueueOf(terms[x].item, "SELL")' = {}
             \/ terms[x].side = "SELL" /\ OwnBids(x) # {}
  <2>1. CASE x \in queue
    BY <1>2, <2>1
  <2>2. CASE x \notin queue
    <3>1. \/ QueueOf(terms[x].item, "BUY") \cup QueueOf(terms[x].item, "SELL") = {}
          \/ terms[x].side = "SELL" /\ OwnBids(x) # {}
      BY <1>1, <1>2, <2>2 DEF PassedOver
    <3>2. /\ QueueOf(terms[x].item, "BUY")' \subseteq QueueOf(terms[x].item, "BUY")
          /\ QueueOf(terms[x].item, "SELL")' \subseteq QueueOf(terms[x].item, "SELL")
      BY <1>1
    <3> QED BY <3>1, <3>2
  <2> QED BY <2>1, <2>2
<1>3. PassedOver'
  BY <1>1, <1>2 DEF PassedOver
<1>4. HandledPairs'
  BY <1>1 DEF HandledPairs
<1> QED BY <1>3, <1>4

LEMMA SkipAuction ==
  ASSUME MarketInv, AuctionInv, NEW i \in Items, SkipOwnSell(i)
  PROVE  HeadsStay' /\ PassedOver' /\ HandledPairs'
<1>1. HeadsStay /\ PassedOver /\ HandledPairs /\ MatchingStep /\ queue \subseteq Orders
  BY MatchingSteps DEF SkipOwnSell, AuctionInv, MarketInv, TypeOK
<1>2. PICK b \in Heads(i, "BUY"), s \in Heads(i, "SELL") :
        SameAgent(b, s) /\ queue' = queue \ {s}
  BY DEF SkipOwnSell
<1>3. /\ b \in Orders /\ s \in Orders /\ status[b] \in Live
      /\ terms[b].side = "BUY" /\ terms[s].side = "SELL"
      /\ terms[b].item = i /\ terms[s].item = i
  BY MatchedOrders
<1>4. b \in OwnBids(s)
  BY <1>2, <1>3 DEF OwnBids, Rivals, SameAgent
<1>5. ASSUME NEW y \in queue, NEW z \in queue, y \notin queue' \/ z \notin queue',
             MissedTrade(y, z, {"OPEN"})'
      PROVE  FALSE
  <2>1. y \in Orders /\ z \in Orders /\ MissedTrade(y, z, {"OPEN"})
    BY <1>1, <1>5, MatchingKeeps
  <2>2. terms[y].side = "BUY" /\ terms[z].item = terms[y].item
        /\ \A w \in OwnBids(z) : HasPriority(y, w)
    BY <2>1 DEF MissedTrade, Rivals
  <2>3. z = s
    BY <1>2, <1>3, <1>5, <2>2
  <2>4. y \in QueueOf(i, "BUY")
    BY <1>3, <2>2, <2>3 DEF QueueOf
  <2>5. ~Before(y, b)
    BY <2>4 DEF Heads
  <2> QED BY <1>4, <2>2, <2>3, <2>5, PriorityIsBefore
<1>6. PassedOver' /\ HandledPairs'
  <2>1. \A x \in queue \ queue' : x = s
    BY <1>2
  <2> QED BY <1>1, <1>3, <1>4, <1>5, <2>1, LeaveQueue
<1>7. HeadsStay'
  <2>1. filled' = filled /\ terms' = terms
    BY DEF SkipOwnSell, book
  <2>2. queue' \subseteq queue /\ \A j, side : QueueOf(j, side)' \subseteq QueueOf(j, side)
    BY <1>1, MatchingKeeps DEF MatchingStep
  <2>3. \A x, o : Before(x, o)' <=> Before(x, o)
    BY <2>1 DEF Before
  <2> QED BY <1>1, <2>1, <2>2, <2>3 DEF HeadsStay
<1> QED BY <1>6, <1>7

LEMMA MatchAuction ==
  ASSUME MarketInv, AuctionInv, NEW i \in Items, Match(i)
  PROVE  HeadsStay' /\ PassedOver' /\ HandledPairs'
<1>1. HeadsStay /\ PassedOver /\ HandledPairs /\ MatchingStep /\ queue \subseteq Orders
  BY MatchingSteps DEF Match, AuctionInv, MarketInv, TypeOK
<1>2. PICK b \in Heads(i, "BUY"), s \in Heads(i, "SELL") : MatchPair(b, s)
  BY DEF Match
<1> DEFINE q == MatchQuantity(b, s)
<1>3. /\ b \in Orders /\ s \in Orders /\ b # s
      /\ terms[b].side = "BUY" /\ terms[s].side = "SELL"
      /\ terms[b].item = i /\ terms[s].item = i
  BY MatchedOrders
<1>4. FillOrders(b, s, q)
  BY <1>2 DEF MatchPair
<1> HIDE DEF q
<1>5. ASSUME NEW x \in queue \ queue' PROVE status'[x] = "FILLED"
  BY <1>3, <1>4 DEF FillOrders, MarketInv, TypeOK
<1>6. \A x \in queue \ queue' : status'[x] # "OPEN"
  BY <1>5
<1>7. PassedOver' /\ HandledPairs'
  <2>1. \A y, z : MissedTrade(y, z, {"OPEN"})' => status'[y] = "OPEN" /\ status'[z] = "OPEN"
    BY DEF MissedTrade
  <2>2. \A y, z \in queue :
          y \notin queue' \/ z \notin queue' => ~MissedTrade(y, z, {"OPEN"})'
    BY <1>6, <2>1
  <2> QED BY <1>1, <1>6, <2>2, LeaveQueue
<1>8. \A o \in queue : filled'[o] = filled[o] \/ o = b \/ o = s
  BY <1>1, <1>4 DEF FillOrders, MarketInv, TypeOK
<1>9. /\ \A x \in QueueOf(i, "BUY") : ~Before(x, b)
      /\ \A x \in QueueOf(i, "SELL") : ~Before(x, s)
  BY DEF Heads
<1>10. HeadsStay'
  <2>1. terms' = terms /\ queue' \subseteq queue
    BY <1>1 DEF MatchingStep
  <2>2. ASSUME NEW o \in queue', filled'[o] > 0,
               NEW x \in QueueOf(terms[o].item, terms[o].side)
        PROVE  ~Before(x, o)
    <3>1. CASE o = b
      BY <1>3, <1>9, <2>2, <3>1
    <3>2. CASE o = s
      BY <1>3, <1>9, <2>2, <3>2
    <3>3. CASE o # b /\ o # s
      BY <1>1, <1>8, <2>1, <2>2, <3>3 DEF HeadsStay
    <3> QED BY <3>1, <3>2, <3>3
  <2>3. \A j, side : QueueOf(j, side)' \subseteq QueueOf(j, side)
    BY <1>1, MatchingKeeps
  <2>4. \A x, o : Before(x, o)' <=> Before(x, o)
    BY <2>1 DEF Before
  <2> QED BY <2>1, <2>2, <2>3, <2>4 DEF HeadsStay
<1> QED BY <1>7, <1>10

LEMMA CloseAuction ==
  ASSUME MarketInv, AuctionInv, NEW i \in Items, CloseItem(i)
  PROVE  HeadsStay' /\ PassedOver' /\ HandledPairs'
<1>1. HeadsStay /\ PassedOver /\ HandledPairs /\ MatchingStep /\ queue \subseteq Orders
  BY MatchingSteps DEF CloseItem, AuctionInv, MarketInv, TypeOK
<1>2. /\ \A b \in Heads(i, "BUY"), s \in Heads(i, "SELL") : ~Crosses(b, s)
      /\ queue' = {o \in queue : terms[o].item # i}
      /\ terms' = terms /\ filled' = filled
  BY DEF CloseItem, book
<1>3. ASSUME NEW y \in queue, NEW z \in queue, y \notin queue' \/ z \notin queue',
             MissedTrade(y, z, {"OPEN"})'
      PROVE  FALSE
  <2>1. y \in Orders /\ z \in Orders /\ MissedTrade(y, z, {"OPEN"})
    BY <1>1, <1>3, MatchingKeeps
  <2>2. /\ terms[y].side = "BUY" /\ terms[z].side = "SELL" /\ terms[z].item = terms[y].item
        /\ terms[y].price >= terms[z].price
    BY <2>1 DEF MissedTrade, Rivals
  <2>3. y \in QueueOf(i, "BUY") /\ z \in QueueOf(i, "SELL")
    BY <1>2, <1>3, <2>2 DEF QueueOf
  <2>4. Heads(i, "BUY") # {} /\ Heads(i, "SELL") # {}
    BY <1>1, <2>3, HeadExists DEF Sides
  <2>5. PICK b \in Heads(i, "BUY"), s \in Heads(i, "SELL") : TRUE
    BY <2>4
  <2>6. ~Before(y, b) /\ ~Before(z, s) /\ ~(terms[b].price >= terms[s].price)
    BY <1>2, <2>3 DEF Heads, Crosses
  <2>7. ASSUME NEW o \in {y, z, b, s} PROVE terms[o].price \in Nat
    <3>1. o \in queue
      BY <2>5 DEF Heads, QueueOf
    <3>2. o \in Orders /\ status[o] # "NONE"
      BY <1>1, <3>1 DEF MarketInv, QueueIsLive, Live
    <3> QED BY <3>2, OrderNumbers
  <2>8. ~(terms[y].price > terms[b].price) /\ ~(terms[z].price < terms[s].price)
    BY <2>2, <2>6 DEF Before
  <2> QED BY <2>2, <2>6, <2>7, <2>8
<1>4. PassedOver' /\ HandledPairs'
  <2>1. ASSUME NEW x \in queue \ queue'
        PROVE  QueueOf(terms[x].item, "BUY")' \cup QueueOf(terms[x].item, "SELL")' = {}
    BY <1>2 DEF QueueOf
  <2> QED BY <1>1, <1>3, <2>1, LeaveQueue
<1>5. HeadsStay'
  <2>1. queue' \subseteq queue /\ \A j, side : QueueOf(j, side)' \subseteq QueueOf(j, side)
    BY <1>1, MatchingKeeps DEF MatchingStep
  <2>2. \A x, o : Before(x, o)' <=> Before(x, o)
    BY <1>2 DEF Before
  <2> QED BY <1>1, <1>2, <2>1, <2>2 DEF HeadsStay
<1> QED BY <1>4, <1>5

LEMMA AuctionStep == MarketInv /\ AuctionInv /\ [Next]_vars => AuctionInv'
<1> SUFFICES ASSUME MarketInv, AuctionInv, [Next]_vars, phase' = "matching"
             PROVE  HeadsStay' /\ PassedOver' /\ HandledPairs'
  BY DEF AuctionInv
<1>1. CASE SelectOpen
  <2>1. /\ queue' = {o \in Orders : status[o] = "OPEN"}
        /\ status' = status /\ filled' = filled /\ terms' = terms
    BY <1>1 DEF SelectOpen, book
  <2>2. \A o \in queue' : filled'[o] = 0
    BY <2>1 DEF MarketInv, FillAgreesWithStatus
  <2>3. HeadsStay'
    <3>1. ~(0 > 0)
      OBVIOUS
    <3> QED BY <2>2, <3>1, Zenon DEF HeadsStay
  <2>4. \A o \in Orders \ queue' : status'[o] # "OPEN"
    BY <2>1
  <2>5. PassedOver' /\ HandledPairs'
    BY <2>4 DEF PassedOver, HandledPairs, MissedTrade
  <2> QED BY <2>3, <2>5
<1>2. CASE \E i \in Items : SkipOwnSell(i) \/ Match(i) \/ CloseItem(i)
  BY <1>2, SkipAuction, MatchAuction, CloseAuction
<1>3. CASE UNCHANGED vars
  <2>1. /\ HeadsStay /\ PassedOver /\ HandledPairs
        /\ queue' = queue /\ terms' = terms /\ status' = status /\ filled' = filled
    BY <1>3 DEF AuctionInv, vars, book
  <2> QED BY <2>1 DEF HeadsStay, PassedOver, HandledPairs, QueueOf, Before, OwnBids, Rivals,
                      MissedTrade, HasPriority
<1>4. ~(PlaceOrder \/ \E o \in Orders, a \in Agents : CancelOrder(o, a))
  BY DEF PlaceOrder, PlaceBuy, PlaceSell, NewOrder, CancelOrder
<1>5. ~(BeginAuction \/ EndAuction \/ AdvanceTick \/ \E o \in Orders : ExpireOrder(o))
  BY DEF BeginAuction, EndAuction, AdvanceTick, ExpireOrder
<1> QED BY <1>1, <1>2, <1>3, <1>4, <1>5 DEF Next

\* Only a match fills an order.
LEMMA FilledByMatch ==
  ASSUME MarketInv, [Next]_vars, NEW o \in Orders, filled'[o] > filled[o]
  PROVE  \E i \in Items : Match(i)
<1>1. filled' # filled
  <2>1. filled[o] \in Nat
    BY DEF MarketInv, TypeOK
  <2>2. ~(filled[o] > filled[o])
    BY <2>1
  <2> QED BY <2>2
<1> QED BY <1>1 DEF Next, vars, book, PlaceOrder, PlaceBuy, PlaceSell, NewOrder, CancelOrder,
                    BeginAuction, ExpireOrder, SelectOpen, SkipOwnSell, CloseItem, EndAuction,
                    AdvanceTick

LEMMA PriorityStep ==
  ASSUME MarketInv, AuctionInv, [Next]_vars, NEW o \in Orders, filled'[o] > filled[o],
         NEW x \in Rivals(o, terms[o].side), status'[x] = "OPEN", HasPriority(x, o)
  PROVE  terms[x].side = "SELL" /\ OwnBids(x) # {}
<1>1. PICK i \in Items : Match(i)
  BY FilledByMatch
<1>2. PassedOver /\ MatchingStep
  BY <1>1, MatchingSteps DEF Match, AuctionInv
<1>3. PICK b \in Heads(i, "BUY"), s \in Heads(i, "SELL") : MatchPair(b, s)
  BY <1>1 DEF Match
<1>4. /\ b \in Orders /\ s \in Orders /\ b \in queue /\ s \in queue
      /\ terms[b].side = "BUY" /\ terms[s].side = "SELL"
      /\ terms[b].item = i /\ terms[s].item = i
  BY MatchedOrders
<1>5. o = b \/ o = s
  <2>1. filled' = [filled EXCEPT ![b] = filled[b] + MatchQuantity(b, s),
                                 ![s] = filled[s] + MatchQuantity(b, s)]
    <3>1. b # s
      BY MatchedOrders
    <3> QED BY <1>3, <3>1 DEF MatchPair, FillOrders
  <2>2. filled[o] \in Nat /\ filled \in [Orders -> Nat]
    BY DEF MarketInv, TypeOK
  <2>3. ~(filled[o] > filled[o])
    BY <2>2
  <2>4. filled'[o] # filled[o]
    BY <2>3
  <2> QED BY <2>1, <2>2, <2>4
<1>6. x \in Orders /\ terms[x].side = terms[o].side /\ terms[x].item = i /\ status[x] = "OPEN"
  BY <1>2, <1>4, <1>5 DEF Rivals, MatchingStep
<1>7. x \notin queue
  <2>1. Before(x, o)
    BY PriorityIsBefore
  <2>2. x \in queue => x \in QueueOf(i, terms[o].side)
    BY <1>6 DEF QueueOf
  <2> QED BY <1>4, <1>5, <2>1, <2>2 DEF Heads
<1>8. b \in QueueOf(terms[x].item, "BUY")
  BY <1>4, <1>6 DEF QueueOf
<1> QED BY <1>2, <1>6, <1>7, <1>8 DEF PassedOver

LEMMA InitAuction == Init => AuctionInv
BY DEF Init, AuctionInv

\* Price-time priority (market.py:142): whatever the order of the rows and whatever auctions came
\* before, no order is filled past an untouched rival with a better claim, save for a sell whose
\* agent bids for the item itself.
THEOREM BetterClaimsComeFirst == Spec => PriceTimePriority
<1>1. MarketInv /\ AuctionInv /\ [Next]_vars =>
        [\A o \in Orders : filled'[o] > filled[o] =>
           \A x \in Rivals(o, terms[o].side) :
             (status'[x] = "OPEN" /\ HasPriority(x, o))
               => terms[x].side = "SELL" /\ OwnBids(x) # {}]_vars
  BY PriorityStep
<1> QED BY <1>1, InitAuction, AuctionStep, MarketInvariant, PTL DEF Spec, PriceTimePriority

\* No missed trade (market.py:161): when an auction ends, two OPEN orders of different agents whose
\* limits meet are left only where the seller's own bid came first.
THEOREM NoTradeIsMissed == Spec => NoMissedTrade
<1>1. MarketInv /\ AuctionInv /\ [Next]_vars =>
        [phase = "matching" /\ phase' = "idle" =>
           \A b, s \in Orders : ~MissedTrade(b, s, {"OPEN"})]_vars
  <2> SUFFICES ASSUME AuctionInv, [Next]_vars, phase = "matching", phase' = "idle"
               PROVE  HandledPairs /\ queue = {}
    BY DEF HandledPairs
  <2>1. HandledPairs
    BY DEF AuctionInv
  <2>2. EndAuction
    BY DEF Next, vars, PlaceOrder, PlaceBuy, PlaceSell, NewOrder, CancelOrder, BeginAuction,
           ExpireOrder, SelectOpen, SkipOwnSell, Match, CloseItem, AdvanceTick
  <2> QED BY <2>1, <2>2 DEF EndAuction
<1> QED BY <1>1, InitAuction, AuctionStep, MarketInvariant, PTL DEF Spec, NoMissedTrade
=============================================================================
