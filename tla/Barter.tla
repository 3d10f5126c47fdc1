------------------------------- MODULE Barter -------------------------------
(***************************************************************************)
(* services/social.py: trade offers between two agents, and building.  An  *)
(* offer is a row of contracts; nothing is reserved for it.                *)
(***************************************************************************)
EXTENDS Town

CONSTANTS
  MAX_TRADE_ITEMS,      (* 10 in the source                                      *)
  MAX_TRADE_QUANTITY    (* 10_000                                                *)

ASSUME BarterAssumption == MAX_TRADE_ITEMS \in Nat /\ MAX_TRADE_QUANTITY \in Nat

VARIABLES
  offers,     (* trade offers in the order they were made                        *)
  estate      (* market value of what each agent has built                       *)

barterVars == <<offers, estate>>

\* A dict of items and quantities; an item it does not have is 0.
Goods == [Items -> Int]

Named(goods) == {i \in Items : goods[i] # 0}

OfferRow == [from : Agents, to : Agents, offer : Goods, request : Goods,
             status : {"proposed", "completed", "terminated"}]

BarterTypeOK ==
  /\ offers \in Seq(OfferRow)
  /\ estate \in [Agents -> Nat]

BarterInit == offers = <<>> /\ estate = [a \in Agents |-> 0]

Holds(a, goods) == \A i \in Named(goods) : inventory[a][i] >= goods[i]

\* {**offer_items, **request_items}: an item on both sides has the quantity of the request.
Merged(offer, request) == [i \in Items |-> IF i \in Named(request) THEN request[i] ELSE offer[i]]

ValidTrade(offer, request) ==
  LET both == Merged(offer, request)
  IN
  /\ Cardinality(Named(offer)) + Cardinality(Named(request)) \in 1..MAX_TRADE_ITEMS
  /\ \A i \in Named(both) : both[i] \in 1..MAX_TRADE_QUANTITY

CreateTradeOffer(a, b, offer, request) ==
  /\ a # b
  /\ ValidTrade(offer, request)
  /\ Holds(a, offer)
  /\ offers' = Append(offers,
       [from |-> a, to |-> b, offer |-> offer, request |-> request, status |-> "proposed"])
  /\ UNCHANGED <<inventory, estate>>

\* Faulty variant of Swap: what falls below zero stays.
SwapAll(inv, lost, gained) == [i \in Items |-> inv[i] - lost[i] + gained[i]]

\* An inventory that loses some goods, gains others and keeps what is above zero.
Swap(inv, lost, gained) == [i \in Items |-> Max2(0, inv[i] - lost[i] + gained[i])]

\* Faulty variant of AcceptTradeOffer: what the offerer holds by now is not looked at.
AcceptUnchecked(b, o) ==
  /\ offers[o].to = b /\ offers[o].status = "proposed"
  /\ Holds(b, offers[o].request)
  /\ inventory' = [inventory EXCEPT
       ![offers[o].from] = Swap(@, offers[o].offer, offers[o].request),
       ![b]              = Swap(@, offers[o].request, offers[o].offer)]
  /\ offers' = [offers EXCEPT ![o].status = "completed"]
  /\ UNCHANGED estate

AcceptTradeOffer(b, o) ==
  /\ offers[o].to = b /\ offers[o].status = "proposed"
  /\ Holds(offers[o].from, offers[o].offer) /\ Holds(b, offers[o].request)
  /\ inventory' = [inventory EXCEPT
       ![offers[o].from] = Swap(@, offers[o].offer, offers[o].request),
       ![b]              = Swap(@, offers[o].request, offers[o].offer)]
  /\ offers' = [offers EXCEPT ![o].status = "completed"]
  /\ UNCHANGED estate

RejectTradeOffer(b, o) ==
  /\ offers[o].to = b /\ offers[o].status = "proposed"
  /\ offers' = [offers EXCEPT ![o].status = "terminated"]
  /\ UNCHANGED <<inventory, estate>>

BuildCost == [land |-> 2000, building |-> 10000, shop |-> 8000, factory |-> 20000, house |-> 6000]

BuildProperty(a, type) ==
  /\ agents[a].balance >= BuildCost[type]
  /\ agents' = Pay(a, BuildCost[type])
  /\ estate' = [estate EXCEPT ![a] = @ + BuildCost[type]]
=============================================================================
