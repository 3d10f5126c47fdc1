------------------------------- MODULE Market -------------------------------
(***************************************************************************)
(* The market exchange: services/market.py of the server.  An agent places *)
(* a limit order and the money (BUY) or the goods (SELL) behind it leave   *)
(* its wallet; once a tick a batch auction expires old orders, selects the *)
(* OPEN ones and matches them by price, then age.                          *)
(*                                                                         *)
(* A call of run_batch_auction is the sequence of steps                    *)
(*   BeginAuction, ExpireOrder*, SelectOpen, (SkipOwnSell | Match |        *)
(*   CloseItem)*, EndAuction                                               *)
(* of one database session; "phase" is its program counter and no other    *)
(* session runs while it is not "idle" (what READ COMMITTED really lets    *)
(* through is not the subject of this module).                             *)
(***************************************************************************)
EXTENDS Integers, FiniteSets, Functions

CONSTANTS Agents,             (* the agents of the world                   *)
          Items,              (* item names                                *)
          Orders,             (* the rows of market_orders, used or not    *)
          NoTerms,            (* the terms of a row that does not exist    *)
          NoExpiry,           (* tick_expires is NULL                      *)
          AskedPrices,        (* prices a request may carry                *)
          AskedQuantities,    (* quantities a request may carry            *)
          Expiries,           (* values of tick_expires a caller may pass  *)
          MAX_ORDER_PRICE,    (* the limits of place_order                 *)
          MAX_ORDER_QUANTITY,
          InitBalance,        (* cash of an agent at the start             *)
          InitStock,          (* units of each item it has at the start    *)
          MaxTick             (* bound: the world ends at this tick        *)

VARIABLES tick,          (* the engine's macro tick                        *)
          phase,         (* where run_batch_auction is, or "idle"          *)
          queue,         (* orders the running auction has still to handle *)
          terms,         (* terms[o]: the immutable columns of an order    *)
          status,        (* status[o]: its status, "NONE" while no row     *)
          filled,        (* filled[o]: its filled_quantity                 *)
          balance,       (* balance[a]: cash of agent a                    *)
          inventory,     (* inventory[a][i]: units of item i agent a has   *)
          totalTrades,   (* totalTrades[a]: Agent.total_trades             *)
          totalEarnings, (* totalEarnings[a]: Agent.total_earnings         *)
          trades         (* the rows of trades                             *)

book    == <<terms, status, filled>>
wallets == <<balance, inventory>>
stats   == <<totalTrades, totalEarnings, trades>>
vars    == <<tick, phase, queue, book, wallets, stats>>

-----------------------------------------------------------------------------
Sides    == {"BUY", "SELL"}
Live     == {"OPEN", "PARTIALLY_FILLED"}
Final    == {"FILLED", "CANCELLED", "EXPIRED"}
Statuses == {"NONE"} \cup Live \cup Final

OrderTerms == [agent : Agents, item : Items, side : Sides,
               price : Nat \ {0}, quantity : Nat \ {0}, created : Nat,
               expires : Nat \cup {NoExpiry}]

ASSUME MarketAssumption ==
  /\ NoTerms \notin OrderTerms \cup Agents
  /\ NoExpiry \notin Int
  /\ AskedPrices \subseteq Int
  /\ AskedQuantities \subseteq Int
  /\ Expiries \subseteq Nat \cup {NoExpiry}
  /\ InitBalance \in Nat
  /\ InitStock \in Nat
  /\ IsFiniteSet(Agents) /\ IsFiniteSet(Orders)

TradeRows == [tick : Nat, buy : Orders, sell : Orders, price : Nat, quantity : Nat]

Remaining(o) == terms[o].quantity - filled[o]

\* What place_order reserved for o and was neither traded nor given back.
HeldCash(o) ==
  IF status[o] \in Live /\ terms[o].side = "BUY" THEN terms[o].price * Remaining(o) ELSE 0
HeldGoods(o) ==
  [i \in Items |-> IF status[o] \in Live /\ terms[o].side = "SELL" /\ terms[o].item = i
                   THEN Remaining(o) ELSE 0]

Init ==
  /\ tick = 0
  /\ phase = "idle"
  /\ queue = {}
  /\ terms = [o \in Orders |-> NoTerms]
  /\ status = [o \in Orders |-> "NONE"]
  /\ filled = [o \in Orders |-> 0]
  /\ balance = [a \in Agents |-> InitBalance]
  /\ inventory = [a \in Agents |-> [i \in Items |-> InitStock]]
  /\ totalTrades = [a \in Agents |-> 0]
  /\ totalEarnings = [a \in Agents |-> 0]
  /\ trades = {}

-----------------------------------------------------------------------------
(* place_order: a request that fails a check leaves no trace.              *)

ValidOrder(p, q) ==
  /\ p > 0 /\ q > 0
  /\ p <= MAX_ORDER_PRICE
  /\ q <= MAX_ORDER_QUANTITY

NewOrder(o, a, i, side, p, q, e) ==
  /\ phase = "idle"
  /\ status[o] = "NONE"
  /\ ValidOrder(p, q)
  /\ terms' = [terms EXCEPT ![o] =
       [agent |-> a, item |-> i, side |-> side, price |-> p, quantity |-> q,
        created |-> tick, expires |-> e]]
  /\ status' = [status EXCEPT ![o] = "OPEN"]
  /\ UNCHANGED <<tick, phase, queue, filled, stats>>

PlaceBuy(o, a, i, p, q, e) ==
  /\ NewOrder(o, a, i, "BUY", p, q, e)
  /\ balance[a] >= p * q
  /\ balance' = [balance EXCEPT ![a] = @ - p * q]
  /\ UNCHANGED inventory

\* Faulty variant: the inventory is not checked before it is reserved.
PlaceSellUnchecked(o, a, i, p, q, e) ==
  /\ NewOrder(o, a, i, "SELL", p, q, e)
  /\ inventory' = [inventory EXCEPT ![a][i] = @ - q]
  /\ UNCHANGED balance

PlaceSell(o, a, i, p, q, e) ==
  /\ NewOrder(o, a, i, "SELL", p, q, e)
  /\ inventory[a][i] >= q
  /\ inventory' = [inventory EXCEPT ![a][i] = @ - q]
  /\ UNCHANGED balance

-----------------------------------------------------------------------------
\* Faulty variant: the refund is for the whole order, not for what remains of it.
RefundWholeOrder(o) ==
  LET t == terms[o] IN
  \/ /\ t.side = "BUY"
     /\ balance' = [balance EXCEPT ![t.agent] = @ + t.price * t.quantity]
     /\ UNCHANGED inventory
  \/ /\ t.side = "SELL"
     /\ inventory' = [inventory EXCEPT ![t.agent][t.item] = @ + t.quantity]
     /\ UNCHANGED balance

\* The refund that cancel_order and _expire_orders share: the reserve of the
\* remaining quantity goes back to the agent of the order.
Refund(o) ==
  LET t == terms[o] IN
  \/ /\ t.side = "BUY"
     /\ balance' = [balance EXCEPT ![t.agent] = @ + t.price * Remaining(o)]
     /\ UNCHANGED inventory
  \/ /\ t.side = "SELL"
     /\ inventory' = [inventory EXCEPT ![t.agent][t.item] = @ + Remaining(o)]
     /\ UNCHANGED balance

\* cancel_order: only the order's own agent, only while it is live.
CancelOrder(o, a) ==
  /\ phase = "idle"
  /\ status[o] \in Live
  /\ terms[o].agent = a
  /\ Refund(o)
  /\ status' = [status EXCEPT ![o] = "CANCELLED"]
  /\ UNCHANGED <<tick, phase, queue, terms, filled, stats>>

-----------------------------------------------------------------------------
(* run_batch_auction                                                       *)

\* The query of _expire_orders.
Expired(o) ==
  /\ status[o] \in Live
  /\ terms[o].expires # NoExpiry
  /\ terms[o].expires <= tick

BeginAuction ==
  /\ phase = "idle"
  /\ phase' = "expiring"
  /\ queue' = {o \in Orders : Expired(o)}
  /\ UNCHANGED <<tick, book, wallets, stats>>

ExpireOrder(o) ==
  /\ phase = "expiring"
  /\ o \in queue
  /\ Refund(o)
  /\ status' = [status EXCEPT ![o] = "EXPIRED"]
  /\ queue' = queue \ {o}
  /\ UNCHANGED <<tick, phase, terms, filled, stats>>

\* The SELECT ... WHERE status = OPEN of the auction.
SelectOpen ==
  /\ phase = "expiring"
  /\ queue = {}
  /\ phase' = "matching"
  /\ queue' = {o \in Orders : status[o] = "OPEN"}
  /\ UNCHANGED <<tick, book, wallets, stats>>

\* Faulty variant: both sides sorted by ascending price.
BeforeAscending(x, y) ==
  \/ terms[x].price < terms[y].price
  \/ terms[x].price = terms[y].price /\ terms[x].created < terms[y].created

\* The sort keys: (-price, tick_created) for buys, (price, tick_created) for
\* sells; rows with equal keys come in any order.
Before(x, y) ==
  LET t == terms[x]
      u == terms[y]
  IN  \/ t.side = "BUY"  /\ t.price > u.price
      \/ t.side = "SELL" /\ t.price < u.price
      \/ t.price = u.price /\ t.created < u.created

QueueOf(i, side) == {o \in queue : terms[o].item = i /\ terms[o].side = side}

\* The rows buys[bi] and sells[si] can be.  Only the head is ever filled in part
\* and it stays the head, so among equals it comes first.
Heads(i, side) ==
  {o \in QueueOf(i, side) :
     /\ \A x \in QueueOf(i, side) : ~Before(x, o)
     /\ (\E x \in QueueOf(i, side) : filled[x] > 0) => filled[o] > 0}

Crosses(b, s) == terms[b].price >= terms[s].price

SameAgent(b, s) == terms[b].agent = terms[s].agent

\* Faulty variant: the buy is dropped instead of the sell.
SkipOwnBuy(i) ==
  /\ phase = "matching"
  /\ \E b \in Heads(i, "BUY"), s \in Heads(i, "SELL") :
       /\ Crosses(b, s)
       /\ SameAgent(b, s)
       /\ queue' = queue \ {b}
  /\ UNCHANGED <<tick, phase, book, wallets, stats>>

\* An agent is not matched with itself: its sell is dropped for this auction.
SkipOwnSell(i) ==
  /\ phase = "matching"
  /\ \E b \in Heads(i, "BUY"), s \in Heads(i, "SELL") :
       /\ Crosses(b, s)
       /\ SameAgent(b, s)
       /\ queue' = queue \ {s}
  /\ UNCHANGED <<tick, phase, book, wallets, stats>>

MatchPrice(b, s) == (terms[b].price + terms[s].price) \div 2
MatchQuantity(b, s) == IF Remaining(b) <= Remaining(s) THEN Remaining(b) ELSE Remaining(s)

StatusAfter(o, q) ==
  IF filled[o] + q >= terms[o].quantity THEN "FILLED" ELSE "PARTIALLY_FILLED"

\* The fills, the statuses and the positions bi and si after a match of q units.
FillOrders(b, s, q) ==
  /\ filled' = [filled EXCEPT ![b] = @ + q, ![s] = @ + q]
  /\ status' = [status EXCEPT ![b] = StatusAfter(b, q), ![s] = StatusAfter(s, q)]
  /\ queue' = {o \in queue : ~(o \in {b, s} /\ StatusAfter(o, q) = "FILLED")}

\* Faulty variant: the price difference stays with nobody.
PayWithoutRefund(b, s, p, q) ==
  LET buyer  == terms[b].agent
      seller == terms[s].agent
  IN  /\ balance' = [balance EXCEPT ![seller] = @ + p * q]
      /\ inventory' = [inventory EXCEPT ![buyer][terms[b].item] = @ + q]
      /\ totalTrades' = [totalTrades EXCEPT ![buyer] = @ + 1, ![seller] = @ + 1]
      /\ totalEarnings' = [totalEarnings EXCEPT ![seller] = @ + p * q]

\* Faulty variant: the earnings are booked at the price of the buy order.
EarnBuyPrice(b, s, p, q) ==
  LET buyer  == terms[b].agent
      seller == terms[s].agent
  IN  /\ balance' = [balance EXCEPT ![buyer] = @ + (terms[b].price - p) * q,
                                    ![seller] = @ + p * q]
      /\ inventory' = [inventory EXCEPT ![buyer][terms[b].item] = @ + q]
      /\ totalTrades' = [totalTrades EXCEPT ![buyer] = @ + 1, ![seller] = @ + 1]
      /\ totalEarnings' = [totalEarnings EXCEPT ![seller] = @ + terms[b].price * q]

\* The buyer reserved q units at its own price and pays p for each.
PayAndDeliver(b, s, p, q) ==
  LET buyer  == terms[b].agent
      seller == terms[s].agent
  IN  /\ balance' = [balance EXCEPT ![buyer] = @ + (terms[b].price - p) * q,
                                    ![seller] = @ + p * q]
      /\ inventory' = [inventory EXCEPT ![buyer][terms[b].item] = @ + q]
      /\ totalTrades' = [totalTrades EXCEPT ![buyer] = @ + 1, ![seller] = @ + 1]
      /\ totalEarnings' = [totalEarnings EXCEPT ![seller] = @ + p * q]

MatchPair(b, s) ==
  LET p == MatchPrice(b, s)
      q == MatchQuantity(b, s)
  IN  /\ Crosses(b, s)
      /\ ~SameAgent(b, s)
      /\ q > 0
      /\ FillOrders(b, s, q)
      /\ PayAndDeliver(b, s, p, q)
      /\ trades' = trades \cup {[tick |-> tick, buy |-> b, sell |-> s,
                                 price |-> p, quantity |-> q]}

Match(i) ==
  /\ phase = "matching"
  /\ \E b \in Heads(i, "BUY"), s \in Heads(i, "SELL") : MatchPair(b, s)
  /\ UNCHANGED <<tick, phase, terms>>

\* One side of an item is used up, or its best orders do not cross.
CloseItem(i) ==
  /\ phase = "matching"
  /\ QueueOf(i, "BUY") \cup QueueOf(i, "SELL") # {}
  /\ \A b \in Heads(i, "BUY"), s \in Heads(i, "SELL") : ~Crosses(b, s)
  /\ queue' = {o \in queue : terms[o].item # i}
  /\ UNCHANGED <<tick, phase, book, wallets, stats>>

EndAuction ==
  /\ phase = "matching"
  /\ queue = {}
  /\ phase' = "idle"
  /\ UNCHANGED <<tick, queue, book, wallets, stats>>

\* The engine advances its tick between two auctions.
AdvanceTick ==
  /\ phase = "idle"
  /\ tick < MaxTick
  /\ tick' = tick + 1
  /\ UNCHANGED <<phase, queue, book, wallets, stats>>

-----------------------------------------------------------------------------
PlaceOrder ==
  \E o \in Orders, a \in Agents, i \in Items,
     p \in AskedPrices, q \in AskedQuantities, e \in Expiries :
       PlaceBuy(o, a, i, p, q, e) \/ PlaceSell(o, a, i, p, q, e)

Next ==
  \/ PlaceOrder
  \/ \E o \in Orders, a \in Agents : CancelOrder(o, a)
  \/ BeginAuction
  \/ \E o \in Orders : ExpireOrder(o)
  \/ SelectOpen
  \/ \E i \in Items : SkipOwnSell(i)
  \/ \E i \in Items : Match(i)
  \/ \E i \in Items : CloseItem(i)
  \/ EndAuction
  \/ AdvanceTick

Spec == Init /\ [][Next]_vars
-----------------------------------------------------------------------------
(* Properties                                                              *)

\* Every variable has its type: in particular no balance and no inventory entry
\* ever goes below zero, although neither place_order nor the auction writes a
\* lower bound down (the agents table has no CHECK on them).
TypeOK ==
  /\ tick \in Nat
  /\ phase \in {"idle", "expiring", "matching"}
  /\ queue \in SUBSET Orders
  /\ terms \in [Orders -> OrderTerms \cup {NoTerms}]
  /\ status \in [Orders -> Statuses]
  /\ filled \in [Orders -> Nat]
  /\ balance \in [Agents -> Nat]
  /\ inventory \in [Agents -> [Items -> Nat]]
  /\ totalTrades \in [Agents -> Nat]
  /\ totalEarnings \in [Agents -> Nat]
  /\ trades \subseteq TradeRows

\* status and filled_quantity, two columns written at different places, always
\* tell the same story, and a cancelled or expired order was never complete.
FillAgreesWithStatus ==
  \A o \in Orders :
    /\ status[o] = "NONE" <=> terms[o] = NoTerms
    /\ status[o] \in {"NONE", "OPEN"} => filled[o] = 0
    /\ status[o] = "PARTIALLY_FILLED" => filled[o] \in 1..(terms[o].quantity - 1)
    /\ status[o] = "FILLED" => filled[o] = terms[o].quantity
    /\ status[o] \in {"CANCELLED", "EXPIRED"} => filled[o] < terms[o].quantity

\* Whatever the running auction has still to handle can still be handled: an order
\* it will refund or match is live and has something left, so the branches of the
\* code for "remaining <= 0" and "match_quantity <= 0" are never taken.
QueueIsLive ==
  /\ phase = "idle" => queue = {}
  /\ \A o \in queue : status[o] \in Live /\ Remaining(o) > 0

\* The trade log is enough to rebuild the aggregates: the fills of each order and
\* the total_trades and total_earnings of each agent are the sums over trades.
TradeLogExplainsState ==
  /\ \A o \in Orders :
       filled[o] = SumFunctionOnSet([t \in trades |-> t.quantity], {t \in trades : o \in {t.buy, t.sell}})
  /\ \A a \in Agents :
       LET sold   == {t \in trades : terms[t.sell].agent = a}
           bought == {t \in trades : terms[t.buy].agent = a}
       IN  /\ totalTrades[a] = Cardinality(sold) + Cardinality(bought)
           /\ totalEarnings[a] = SumFunctionOnSet([t \in trades |-> t.price * t.quantity], sold)

\* Nobody trades beyond its limit or with itself: a trade of any auction is at a
\* price between the limits of its two orders, which belong to different agents
\* and are for the same item, and of something that both orders ask for.
TradesRespectOrders ==
  \A t \in trades :
    LET b == terms[t.buy]
        s == terms[t.sell]
    IN  /\ b.side = "BUY" /\ s.side = "SELL"
        /\ b.item = s.item
        /\ b.agent # s.agent
        /\ s.price <= t.price /\ t.price <= b.price
        /\ 0 < t.quantity /\ t.quantity <= b.quantity /\ t.quantity <= s.quantity

\* An order that is FILLED, CANCELLED or EXPIRED never changes again, fills never
\* shrink and the terms of an existing order never change: no order is refunded or
\* matched twice, whatever order expiry, cancellation and auction come in.
FinalStatusIsFinal ==
  [][\A o \in Orders :
       /\ status[o] \in Final => status'[o] = status[o] /\ filled'[o] = filled[o]
       /\ filled[o] <= filled'[o]
       /\ status[o] # "NONE" => terms'[o] = terms[o]]_vars

\* The orders of this side for the item of x that nobody has withdrawn.
Rivals(x, side) ==
  {o \in Orders : status[o] \in Live \cup {"FILLED"} 
                  /\ terms[o].side = side /\ terms[o].item = terms[x].item}

\* x has a strictly better claim than its rival o: a better limit, or the same
\* limit since an earlier tick.
HasPriority(x, o) ==
  \/ terms[x].side = "BUY"  /\ terms[x].price > terms[o].price
  \/ terms[x].side = "SELL" /\ terms[x].price < terms[o].price
  \/ terms[x].price = terms[o].price /\ terms[x].created < terms[o].created

\* The owner of sell s bids for the item itself.
OwnBids(s) == {y \in Rivals(s, "BUY") : terms[y].agent = terms[s].agent}

\* Price-time priority: no order is filled in an auction while an OPEN rival with a
\* better claim stays untouched -- unless that rival is a sell which the auction
\* dropped because its own agent bids for the item too.
PriceTimePriority ==
  [][\A o \in Orders : filled'[o] > filled[o] =>
       \A x \in Rivals(o, terms[o].side) :
         (status'[x] = "OPEN" /\ HasPriority(x, o))
           => terms[x].side = "SELL" /\ OwnBids(x) # {}]_vars

\* Orders of these statuses that a finished auction left unmatched although they are
\* of different agents and their limits meet, where no bid of the seller at least as
\* good as the buy explains it.
MissedTrade(b, s, statuses) ==
  /\ status[b] \in statuses /\ status[s] \in statuses
  /\ terms[b].side = "BUY" /\ s \in Rivals(b, "SELL")
  /\ terms[b].agent # terms[s].agent
  /\ terms[b].price >= terms[s].price
  /\ \A y \in OwnBids(s) : HasPriority(b, y)

\* No missed trade among OPEN orders: when an auction ends, two of them that belong
\* to different agents still cross only where the sell was passed over for a bid of
\* its own agent that is at least as good as the buy left waiting.
NoMissedTrade ==
  [][phase = "matching" /\ phase' = "idle" =>
       \A b, s \in Orders : ~MissedTrade(b, s, {"OPEN"})]_vars

\* The market implements the ledger of escrows: an order is an escrow of its agent.
Ledger == INSTANCE EscrowLedger WITH
  NoOwner   <- NoTerms,
  cash      <- balance,
  goods     <- inventory,
  owner     <- [o \in Orders |-> IF status[o] = "NONE" THEN NoTerms ELSE terms[o].agent],
  heldCash  <- [o \in Orders |-> HeldCash(o)],
  heldGoods <- [o \in Orders |-> HeldGoods(o)]

\* Every step of the market is a step the ledger allows, or none of its business.
LedgerSpec == Ledger!Spec

\* Cash and goods are conserved: what wallets and live orders hold together is
\* what the world started with, after any mix of fills, refunds of the price
\* difference, expiries and cancellations, each of which moves it by hand.
Conservation == Ledger!Conservation
=============================================================================
