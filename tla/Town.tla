-------------------------------- MODULE Town --------------------------------
(***************************************************************************)
(* What bank, court, businesses and barter of the world server share: the  *)
(* rows of the agents (models/agent.py) and the macro tick that works on   *)
(* them between the agents' requests.                                      *)
(*                                                                         *)
(* A macro tick is one transaction.  Its phases are steps of their own     *)
(* here, so that the rows of a phase are taken in any order (no SELECT of  *)
(* it says ORDER BY); requests run between ticks only.                     *)
(***************************************************************************)
EXTENDS Integers, Sequences, FiniteSets

CONSTANTS
  Agents,         (* agents; rows of agents are never deleted                   *)
  Items,          (* goods                                                      *)
  HaulsOf,        (* what an agent may produce in a tick, by PRODUCTION_TABLE   *)
                  (* and its location                                           *)
  InitBalance,    (* balances, inventories when the story begins                *)
  InitInventory,
  InitScore,      (* their credit scores: 500 in the source                     *)
  MaxTick,        (* bound: the last tick                                       *)
  MaxRestarts     (* bound: restarts of the server                              *)

ASSUME TownAssumption ==
  /\ IsFiniteSet(Agents)
  /\ HaulsOf \in [Agents -> SUBSET [Items -> Nat]]
  /\ InitBalance \in [Agents -> Nat]
  /\ InitInventory \in [Agents -> [Items -> Nat]]
  /\ InitScore \in [Agents -> 0..1000]
  /\ MaxTick \in Nat /\ MaxRestarts \in Nat

VARIABLES
  agents,     (* balance, reputation, credit_score, lawsuits_won, lawsuits_lost, *)
              (* status of each agent                                            *)
  inventory,  (* quantity of each item each agent holds                          *)
  tick,       (* tick of the engine, lost with the process                       *)
  phase,      (* "requests" between ticks; "court", "payroll", "interest" inside *)
  restarts    (* bound: restarts so far                                          *)

townVars == <<agents, inventory, tick, phase, restarts>>

Max2(a, b) == IF a > b THEN a ELSE b
Min2(a, b) == IF a < b THEN a ELSE b

Ratings == 0..1000

AgentRow == [balance : Int, reputation : Ratings, credit_score : Ratings,
             lawsuits_won : Nat, lawsuits_lost : Nat, status : {"active", "jailed"}]

TownTypeOK ==
  /\ agents \in [Agents -> AgentRow]
  /\ inventory \in [Agents -> [Items -> Nat]]
  /\ tick \in Nat
  /\ phase \in {"requests", "court", "payroll", "interest"}
  /\ restarts \in Nat

TownInit ==
  /\ agents = [a \in Agents |->
       [balance |-> InitBalance[a], reputation |-> 500, credit_score |-> InitScore[a],
        lawsuits_won |-> 0, lawsuits_lost |-> 0, status |-> "active"]]
  /\ inventory = InitInventory
  /\ tick = 0 /\ phase = "requests" /\ restarts = 0

\* The rows after a pays n, and after a pays n to b (who may be a).
Pay(a, n) == [agents EXCEPT ![a].balance = @ - n]
Transfer(a, b, n) == [Pay(a, n) EXCEPT ![b].balance = @ + n]

BASE_INCOME == 500

Working == {a \in Agents : agents[a].status = "active"}

\* Income and goods for the agents whose status is ACTIVE.
ProcessProduction ==
  /\ agents' = [a \in Agents |->
       IF a \in Working THEN [agents[a] EXCEPT !.balance = @ + BASE_INCOME] ELSE agents[a]]
  /\ \E haul \in [Working -> UNION {HaulsOf[a] : a \in Working}] :
       /\ \A a \in Working : haul[a] \in HaulsOf[a]
       /\ inventory' = [a \in Agents |-> [i \in Items |->
            inventory[a][i] + IF a \in Working THEN haul[a][i] ELSE 0]]

\* The process ends between two ticks (a tick it ends in never happened) and a new
\* engine counts from zero.
Restart ==
  /\ phase = "requests" /\ tick > 0 /\ restarts < MaxRestarts
  /\ restarts' = restarts + 1 /\ tick' = 0
  /\ UNCHANGED <<agents, inventory, phase>>
=============================================================================
