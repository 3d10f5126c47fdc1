# Ashenmere in TLA+

A TLA+ development of Ashenmere (AgentBurg), a simulated economy: a FastAPI
server that owns all state in PostgreSQL and advances a world tick by tick,
and clients that play agents in it over a WebSocket. It holds specifications,
TLC configurations that model-check them on small instances, and theorems that
TLAPS proves for instances of every size. Paths below are relative to the
repository; `S/` is `server/src/agentburg_server/`, `C/` is
`client/src/agentburg_client/`.

    tlc -workers 2 -config MCMarket.cfg MCMarket     (every .cfg names its run below)
    tlapm MarketProofs.tla

## The system

Components, the state they keep, and what makes each of them correct.

| Component | State | Operations | Correct when |
|---|---|---|---|
| Tick engine, `S/engine/tick.py`, `S/main.py` | `tick`, `day`, `micro_tick`, task (memory); `seasons` (database) | start, stop, micro tick, macro tick (one transaction), broadcasts, season change | every tick's economy is committed, in order, and the loop goes on whatever fails |
| World events, `S/services/world_events.py` | `active_events` (memory) | `roll_events` | two events of one category are never in effect together |
| Market, `S/services/market.py` | `market_orders`, `trades`, wallet and inventory of agents | place, cancel, expire, batch auction | escrow is conserved; price-time priority; no crossing pair is missed |
| Bank, `S/services/bank.py` | `accounts`, wallet, `credit_score` | open, deposit, withdraw, borrow, repay, daily interest | no request changes what an agent is worth; no account but a loan is overdrawn |
| Court, `S/services/court.py` | `court_cases`, wallet, reputation, credit, status | file, process pending cases | a verdict moves the fine it states, once and in time; only fines make debts (the documentation wants none at all) |
| Businesses and employment, `S/services/business.py`, `_process_contract_payments` in `S/engine/tick.py` | `businesses`, `contracts` | start, close, price, hire, fire, pay salaries | head counts agree with contracts; payments only move money |
| Social, `S/services/social.py` | trade offers (rows of `contracts`), `properties`, chat events | offer, accept, reject, invest, build | goods change hands completely or not at all |
| Production, `S/services/production.py` | wallet, inventory | income and goods per tick | every active agent once per tick |
| Game master, `S/services/game_master.py` | last evaluation | daily evaluation | at most once per day |
| Action handler, `S/services/action_handler.py`, `S/db.py` | a database session per request | dispatch, commit or roll back | a request takes effect completely or not at all, also when others overlap it |
| Agent connections, `S/api/ws.py` | `_connections`, `is_connected` | authenticate, message loop, disconnect, broadcast | the registry holds the live connection of each agent |
| Dashboard broadcast, `S/api/ws.py` | `_dashboard_viewers` | join, leave, broadcast | a viewer's leaving concerns nobody else |
| Rate limiter, `S/services/rate_limiter.py` | a sorted set per key in Redis | check | at most `limit` requests per window |
| Users and agents, `S/services/auth.py` | `users`, `agents` | register, log in, create agent | no user has more than `max_agents` agents |
| Client connection, `C/connection.py`, `C/__main__.py` | socket, flags, back-off | connect, reconnect, heartbeat, listen, shut down, restart | a shutdown stops it; a lost connection is made again |
| Client brain, `C/brain.py` | the tries of one decision | decide, process observation | a model that fails costs one decision, not the agent |
| Client memory, `C/memory.py` | window (memory), SQLite table | store, prune, persist, load | what was remembered and saved in time survives; nothing is remembered twice in one life |

How they interact. Requests arrive over an agent's WebSocket, one at a time per
connection; each opens a session, calls one service, and commits. Meanwhile
the tick engine, a task of the same process, opens one session per macro tick
and in it runs auction, court, production, salaries, interest and game master
before it commits; then it broadcasts, then it counts the tick. All services
meet in the wallet (`Agent.balance`), which every one of them reads, changes in
Python and writes back. Sessions interleave at every await, the database runs
at READ COMMITTED, and the deployment manifest asks for two replicas.

Hard behaviours: failures on either side of a commit; counters in memory
against rows in the database; iteration over shared sets across awaits;
overlapping sessions; partial fills and refunds; old connections outliving new
ones. `PROJECT.json` lists every hazard with its line and the properties that
watch it.

## Modules

| Module | Models | Checked by | Proved in |
|---|---|---|---|
| `EscrowLedger` | what the market promises about money and goods: lock, return, exchange | through `Market!LedgerSpec` | `MarketProofs` |
| `Market` | `S/services/market.py` | `MCMarket` | `MarketProofs` |
| `TickEngine` | `S/engine/tick.py`, `S/main.py`, `roll_events`, `broadcast_to_dashboard` | `MCTickEngine` | `TickEngineProofs` |
| `Connections` | the agents' half of `S/api/ws.py`, `_broadcast_tick_update` | `MCConnections` | `ConnectionsProofs` |
| `Society` | the requests of `S/services/action_handler.py` for bank, court, business and social, and the macro tick over them; composes the five modules below | `MCSociety` | `SocietyProofs` |
| `Town` | what those share: rows of agents, production, the tick and its restart | through `Society` | through `Society` |
| `Bank` | `S/services/bank.py` | through `Society` | `BankProofs`, cited by `SocietyProofs` |
| `Court` | `S/services/court.py` | through `Society` | through `Society` |
| `Employment` | `S/services/business.py`, investments, the payroll of `S/engine/tick.py` | through `Society` | through `Society` |
| `Barter` | trade offers and buildings of `S/services/social.py` | through `Society` | through `Society` |
| `Sessions` | the database sessions of requests, routes, starting servers and ticks | `MCSessions` | `SessionsProofs` |
| `AgentClient` | `C/connection.py`, the loops of `C/__main__.py`, the tries of `C/brain.py` | `MCAgentClient` | `AgentProofs` |
| `AgentMemory` | `C/memory.py` and where the agent stores, persists and prunes | `MCAgentMemory` | `AgentProofs` |

`SumLemmas` models nothing: it proves what the other proof modules use of sums over finite sets.

### Market

State: the rows of `market_orders` (`terms` are the columns that never change,
`status` and `filled` those that do), `balance` and `inventory` of the agents
with the escrow already deducted as in the code, their trade counters, the
`trades` log, and the auction in progress (`phase`, and `queue`, the orders the
auction has selected and not yet passed).

`PlaceBuy`, `PlaceSell` and `CancelOrder` are whole requests and thus atomic.
An auction runs inside one transaction in which no request takes part; it is
nevertheless modelled pair by pair (`BeginAuction`, `ExpireOrder`,
`SelectOpen`, `MatchPair`, `SkipOwnSell`, `CloseItem`, `EndAuction`) so that
properties can speak of each match. The two cursors of the code are the heads
of the sorted queues; orders of equal price and tick come in no particular
order, as the sort leaves them in the order the database returned.
`EscrowLedger` is the abstract specification: cash and goods are free or held
by an order, and a step locks, returns or exchanges. `LedgerSpec` maps what
live orders still reserve to what the ledger holds.

The handlers never pass `tick_expires` and offer no cancellation. Both exist in
the service and are exercised by the repository's tests, so both are modelled.

### TickEngine

State: where the task is (`pc`), the counters, the event roller, the viewers and
the iteration over them (`cast`); the database (`season`, `committed`,
`logged`); and the disturbances so far (`spent`). `pc` stands at the awaits
between which something else can happen: each `send_json` of a broadcast,
roll, economy, season check and commit, the agents' broadcast, the viewers'
broadcast, the pause after an exception. `Raise` is the `except Exception` of
`_run`; `Stop` is both a graceful stop and a crash, since either loses the
memory and rolls back. What the services do in a tick is opaque here: a tick is
the number in `committed`.

The variable `seasonCheckBound`, chosen among `Builds` at the start, says
whether `self._check_season_end` can be called. In the source it cannot: the
method is indented into `_process_contract_payments`, behind a `return`. The run `tick_engine_stuck`
checks the loop as it is; the run `tick_engine` checks both the loop as it is
and what it does once the method is where `self` finds it, since otherwise
nothing ever commits. The theorems hold for both.

### Connections

State: for each socket the await its handler stands at (`pc`), the agent whose
token it presented, whether the client's end is still there, and `is_connected`
as its open session read it; the registry `_connections`, the column
`is_connected`, the metric; the running broadcast, that is the agents it has
still to reach and the send it awaits. `alone` is a history variable: the
socket has been the only trace of its agent since it was opened.

A handler authenticates (`FindAgent`, `CommitConnected`, `Welcome`), is entered
in the registry (`Enter`), leaves its loop (`LoopDisconnected`, `LoopMalformed`)
and cleans up (`Unregister`, `FindAgentAgain`, `CommitDisconnected`), with the
exceptions at the points where the code meets them. A commit writes nothing
when the session found the value it wants, as SQLAlchemy does. The broadcast
looks up an entry, awaits the send, and may remove what the entry has become
by then. The requests inside the loop belong to the other modules.

### Society

State: rows of agents, accounts, cases, businesses, contracts and offers, each
table a sequence in the order of insertion, inventories, and the macro tick:
between ticks requests run one at a time, and inside a tick `Judge` decides one
due case after the other, `Produce` pays the income, `PayOne` takes one due
salary, `AccrueOne` visits one account at the end of a day. Verdicts, salaries
and accounts come in any order, as no SELECT of them has an ORDER BY, and each
is judged by what the ones before have left. The auction touches none of these
tables and is in `Market`; requests that overlap a tick are in `Sessions`.

A verdict is taken whole: `Convict` moves the fine from the defendant to the
plaintiff, whatever the defendant has, and lowers reputation and credit. So a
balance can be negative, and every other operation, the bank's included, works
on such balances; what the documentation says of them is finding 5. A
verdict's roll is a hash whose chance the code keeps within 10 and 90 %: either
verdict is possible. The dismissal of a case whose agent is missing cannot
happen, as rows of agents are never deleted. No action type reaches
`open_account`; `Save` stands for whoever sets a world up, as the tests do.
`Restart` loses the tick and keeps the rows. Amounts, rates, limits, fines, fees
and costs are the numbers of the source; `PAYMENT_INTERVAL` is a constant (720
in the source, more than the ticks of any small instance). `LastRequest` bounds
the ticks in which requests come, not those the world goes on for.

### Sessions

State: the committed amount of each agent's row and the number of rows of the
counted tables; of each session, where it is, what it still has to do, the
copies it has read and the rows it has changed and not flushed; the locks. A
session reads without a lock and once, computes on the copy, and flushes
absolute values in the order of the keys (the unit of work sorts by primary
key); what it has flushed stays locked until commit or rollback. A request
flushes once; a tick flushes after each phase, since the SELECT of the next
one triggers autoflush, so its locks come in no global order. A tick has four
phases here: the auction pays a seller, a verdict fines a defendant (unchecked,
as in the code), production pays everybody, and an employer that can pays a
salary; `Sellers`, `Judged` and `Employed` say who may be concerned, and a tick
need not have a case or a salary. Each phase says what becomes of it if there
is too little to pay with: a request is refused, a salary skipped, a fine
forced. `Abort` is
PostgreSQL's deadlock detector. `OpenInsert`, `Count`, `Insert` and
`CommitInsert` are the sessions that count first and insert then: registration,
creation of an agent, the active season. `due`, `effect`, `fines`, `fined`,
`overlapped` and `contended` are history variables.

### AgentClient

State: where the process is (`main`: connecting, in the loop, between two lives,
over), the connection state and the shutdown event, the websocket (open,
half-open, closed normally or not) and what is unread on it, the two tasks
`listener` and `heartbeat`, the queue between them and the loop, and the three
counters with limits. Every await of a task is a value at which the others, a
signal or the network may act. The websocket library, server and network are
external. `BUFFER` and `QueueBound` bound the frames in flight. Time is left
out: whatever a timer bounds may end at any moment.

### AgentMemory

State: the window of the process, the rows of SQLite, the tick update counter,
the lives. Entries are a value, a tick and the life they were stored in: the key
of a row is a hash that each process salts anew. A restart after a crash inside
one process keeps the salt, and a row of equal value and tick is then replaced
by its equal, where the model keeps one row for each life. Scores of
importance are a function of the value, `Importance`; pruning ranks by
importance and recency with the weights of the source. What the loop does
between two messages is one step, since nothing else touches the memory.
`stored`, `loaded` and `excused` are history variables; `excused` holds what
left the window before any persist could save it.

## Runs

| Run | Instance | Shows |
|---|---|---|
| `market` | 2 agents, 3 orders, 1 item, prices and quantities to 2, expiry at tick 1 or never; 661,688 states | price-time priority and no missed trade within an auction; the trade log accounts for every balance and fill; `Conservation`; the market refines the ledger |
| `tick_engine` | 3 ticks of 2 micro ticks, days and seasons of 2 ticks, 2 events of a category, 1 viewer, 1 failure, 1 restart; 1,257,931 states | each disturbance repeats a tick at most once, nothing of a failed tick is kept, no stacking, seasons end in time; `WorldGoesOn`: the loop always reaches the last tick |
| `tick_engine_stuck` | the code as it is, no disturbance at all | **violated**: tick 0 is never left |
| `connections` | 2 agents, 2 sockets, 2 failed commits or restarts; 27,297 states | no stale entry, a sole connection is always listed and marked; `LostEntriesGo`: the entry of a lost connection goes |
| `connections_listed` | 1 agent, 2 sockets, no fault | **violated**: the end of an old connection removes the new one from the registry |
| `society` | a rich and a poor agent, any 3 rows among accounts, cases, businesses, contracts and offers, requests until tick 1 of each life, 4 ticks, days of 3, 1 restart, salaries every 2 ticks; 2,804,771 states | `JobsAddUp`, `DebtIsFines`, `VerdictsAreInTime`, `ClosedLoansStayPaid`; `WealthIsAccounted`, `BankingKeepsWorth` and `BarterIsFair` of every step |
| `society_debts` | 2 cases, land to buy, requests until tick 3 | **violated**: two fines in one tick leave a negative balance when the tick is committed |
| `sessions` | 2 agents, 2 requests or starting servers, 1 tick with a fine of 2 and a salary of 1 or without; 198,392 states | updates are lost and limits exceeded only by overlap, only fines overdraw an amount, no deadlock without a tick; `SessionsEnd` |
| `sessions_lost` | the same | **violated**: an update of a balance is lost |
| `client` | 2 attempts, 2 tries, 3 crashes, 2 frames and 2 messages; 57,804 states | `ConnectionIsWatched`; `LossIsNoticed`, `ShutdownEnds`, `GivesUp` |
| `client_shutdown` | 2 attempts, 1 try, 2 crashes | **violated**: `connect` returns True after a shutdown was requested |
| `memory` | a window of 3, 2 texts, 3 tick updates, 2 lives; 824,248 states | `NothingForgotten`, `DuplicatesAreLoaded`, the window never exceeds its size |

Why the bounds are enough. Three orders are the fewest with a partial fill that
continues, a choice by price or time, and a self-match skip that passes over a
crossing pair; prices 1 and 2 give a midpoint that rounds; asked prices and
quantities reach from -1 past the limits. Two ticks make a day and a season, so
that both boundaries are crossed; each kind of disturbance occurs at every
point of the loop, and the theorems take away the bounds of the safety
properties. Two sockets are one agent that reconnects or two agents that are
served side by side. In `society` a business with a contract and a contract
more, or two cases of two agents against each other, fit in three rows; four
ticks are the deliberation and one more, or two salaries, and cross the end of a
day; 600 pays for one lawsuit and no fine; a score of 20 falls to
zero by one conviction, and with a score of 60 a loan of 6,000 is the largest
that is granted, can be repaid or deposited by the rich agent, and closes.
Requests in ticks 0 and 1, and again after the restart, bring every pair of rows
about before the verdicts, salaries and interest of the later ticks;
`society_debts` has two rows and needs requests until tick 3. In `sessions` the
fine exceeds what there is, and a request, the income or another session's copy
meets what it leaves. Two requests and a tick are the fewest sessions with a
circle that has a tick in it and one that might not. Two frames fill a buffer
and block a pong; three crashes are a restart after a restart. A window of
three pushes out, prunes to two and loads less than there is. The theorems
hold for any number of all of these. Runs whose bounds let the system stop
(sockets used up, sessions over, the last tick, the last life) do not ask for
deadlocks; `market`, `client` and `tick_engine` do. Symmetry is used
only where values are interchangeable and no liveness is checked.

Fairness. `TickEngine!FairSpec` has weak fairness of the process's own steps:
asyncio runs a task that is ready, and the sleeps end. It assumes nothing of
the environment: no viewer needs to come or leave, nothing needs to fail. The
number of failures, restarts and joins is bounded; with endless joins the
micro ticks could be interrupted for ever, which is listed as a hazard. A
`send_json` that never returns would stop the loop; the model assumes it
returns or raises. `Connections!FairSpec` has weak fairness of each handler, for
the same reason, and of nothing else. `Sessions!FairSpec` has weak fairness of
each open session and of the deadlock detector; no session needs to be opened.
`AgentClient!FairSpec` has weak fairness of the agent's own tasks, each of whose
waits a timer of the code ends; nothing is assumed of server, network or
user: `GivesUp` speaks of a server that is gone for good, the others of none.

Each passing property is paired with a mutant (`Faulty variant` or `Mutant` in
the modules): a definition changed as a plausible bug would, under which TLC
finds the property violated.

## Findings

1. `S/engine/tick.py:187`: the world never leaves tick 0 (`tick_engine_stuck`).
   `_check_season_end` is no attribute of the engine, so each macro tick raises
   and is rolled back completely.
2. `S/api/ws.py:183`: the handler of an old connection removes the newer one
   from the registry (`connections_listed`).
3. `S/services/action_handler.py:51`: overlapping sessions lose updates of a
   balance, against `docs/SECURITY.md:423` (`sessions_lost`).
4. `C/connection.py:136`: `connect` overwrites a shutdown that was requested
   while it awaited, against its docstring (`client_shutdown`).
5. `S/services/court.py:120`: a fine is at least 500 (or the base fine) and is
   taken unchecked, so balances become negative, and two fines in one tick are
   committed as a negative balance; `docs/SECURITY.md:438` ("No negative
   balances allowed") and `:628` ("NEVER negative") and the comment of
   `court.py:180` ("to avoid immediate bankruptcy") say otherwise
   (`society_debts`). `DebtIsFines` and `OnlyFinesOverdraw` say what does hold:
   nothing but fines makes a debt, and how large it can be.

Seen while modelling, without a run of their own:

- The auction selects open orders only, so a partially filled order is never
  matched again (`S/services/market.py:129`).
- The set of viewers is iterated across awaits: a viewer that comes or leaves
  during a broadcast aborts it, and the tick is repeated (`S/api/ws.py:260`).
- Repaying a loan that is closed improves the score again (`S/services/bank.py:219`).
- A client that leaves before its welcome stays marked as connected (`S/api/ws.py:56`).
- An item on both sides of a trade offer is validated for one side only, and
  accepting such an offer can make or lose goods (`S/services/social.py:49`);
  `BarterIsFair` leaves such offers out.
- Fines of fraud and theft are at most 5,000 and jail asks for more: nobody is
  ever jailed (`S/services/court.py:134`; theorem `NobodyGoesToJail`).
- A contract's payment interval defaults to 720 ticks, 120 days of 6 ticks (`S/engine/tick.py:345`).
- `active_events` is pruned by `get_active_modifiers` only, which nobody calls.
- Refused requests are counted by the rate limiter (`S/services/rate_limiter.py:60`).
- A client that reconnects drops its old websocket unclosed and keeps the old
  link's messages in the queue; a signal during the clean-up after a crash is
  forgotten by the next life.

## Proofs

All proofs are hierarchical and checked to the leaves by tlapm with Z3, Zenon
and LS4. They rest on the constants' assumptions only (the named
ASSUMEs of each module), which TLC evaluates in every run. Every invariant and
every action property of the passing runs is a theorem; what stays with TLC is
liveness.

`SumLemmas`. Money and goods are conserved "in total", and a total is the fold
`SumFunctionOnSet`. An induction principle that takes a predicate is out of the
prover's reach, one that takes a set is not: `FiniteSetInduction` says that a
set of subsets which holds the empty set and is closed under adding an element
holds every finite one, and follows from the least element of a set of
naturals. With it `SumDefined` and `SumUnique` show that the equation of the
fold has exactly one solution (the library's own proof of that takes an
operator), and the laws follow: any element can be taken out (`SumElement`),
one or two changed summands (`SumChange`, `SumChangeTwo`), a transfer between
two sums (`SumTransfer`), pointwise sums and constants. Hence the assumption
that agents and orders are finite sets.

`MarketProofs`. The inductive invariant `MarketInv` joins `TypeOK` and
`FillAgreesWithStatus` with what the auction knows of the orders it holds
(`QueueIsLive`): without it a match could fill an order beyond its quantity, or
one already cancelled. From it: types, statuses, the finality of final orders,
the limits of trades, and `MarketImplementsLedger`, which maps every step to a
step of `EscrowLedger` or a stutter.

- `CashAndGoodsConserved` uses the ledger twice over: a step of the market is
  a step of the ledger, and each of its three moves keeps the totals.
- `TradesExplainState` is about a set of rows, so each match must add a new
  one. `TradeUsesUpAnOrder` is why it does: a trade fills one of its two orders,
  and a filled order is never matched again.
- `BetterClaimsComeFirst` and `NoTradeIsMissed` rest on `AuctionInv`, the state
  of the matching: a part-filled order is still a best one of its queue
  (`HeadsStay`), an open order that left the queue left it with its item or is
  a sell of an agent that bids itself (`PassedOver`), and no pair that left it
  was a missed trade (`HandledPairs`). When an item is closed, the heads that do
  not cross exist because a finite queue has a least element under the sort
  keys (`HeadExists`), and no other pair crosses if they do not.

`TickEngineProofs`. Types first. `TickInv` then joins the four properties with
`OpenTransaction`: between roll and commit the pending rows are those of this
tick, otherwise there are none. A season but the first begins in the commit of
the tick it starts at (`SeasonMoves`). `NoTickSkipped` needs that the loop behind the
commit has just committed its tick, which is part of `NothingOfAFailedTick`.
`DisturbancesBoundRepetition` is not inductive: `RepeatsPaid` adds that a tick
the loop has yet to commit has been committed no more often than disturbances
have occurred, any other tick once more at most. It has to hold for every
viewer that leaves in the middle of a broadcast, which is why the set of
viewers is shown to be finite along with the types.

`BankProofs` holds the lemmas on accounts that `SocietyProofs` cites. Every request
of the bank is an `Entry`: one account, new or rewritten, changes by some amount
and the pocket of its owner by the opposite, so the books stay in order
(`EntryBooks`) and nobody's worth changes (`EntryWorth`); `VisitBooks` and
`InterestSigns` say what a day's interest does to an account.

`ConnectionsProofs`. `ConnectionsInv` adds to the types and `EntriesAreServing`
that only authenticated handlers get on (`Authenticated`) and what the sole
handler of an agent knows (`SoleHandlers`): no other handler and no send of the
agent exists, and column and registry are right from the moment it wrote them.
A send left over from an earlier connection would break it, which is why
`alone` asks that none is under way when the socket is opened.

`SocietyProofs`. The inductive invariant has one part per table: `Clock`,
`agents \in Sound` (types, the debt bound, nobody in jail), `Docket` (cases,
whose parties differ, and the time each may wait, by phase), `Staff` (jobs add
up), `Stock` and `Books` (accounts). `Sound` holds because every payment but a fine is checked
against the balance, a fine is at most 500 or what is there, and the fines of
fraud and theft never reach the bound that jails; that the parties of a case
differ (`Adversaries`) keeps the two rows of a verdict apart. Each operation on
`agents` is shown to preserve `Sound` once (`PaySound`, `TransferSound`,
`ConvictSound`, ...), and the actions cite it. `JobsAddUp` needs that the
business of a contract is there and that the payroll holds active contracts
only (`Hired`). `AcceptingIsFair` needs that every offer in the table was valid
when it was made (`Checked`): of a valid offer whose sides have no item in
common no quantity is negative (`PlainOffer`), so that the clamp at zero of
`Swap` never cuts anything off (`SwapMoves`). `WealthIsAccountedFor` is one
lemma per kind of step on the three sums it consists of, what agents, businesses
and accounts hold: a fine or a salary is two changes of the first, an investment
one of the first and one of the second, a deposit one of the first and one of
the third, and a closed business is the one step in which they do not cancel.

`SessionsProofs`. `Copies` says that what a session has changed or locked it
has read; `Backed` that amounts and copies are below zero by no more than the
fines committed or done on them;
`Effects` that on a row nobody overlapped the one session with an effect holds
the committed amount plus that effect, and so commits what is due; `Counted`
that the only inserter of a table has counted what is there.
`DeadlocksNeedATick` is about circles of any length. `InCircle(s)` says that
s belongs to a finite set of waiting sessions that is exactly the set of those
they wait for. Requests flush once and in the order of the keys
(`RequestsFlushInOrder`), so the key a request waits for is above every key it
has locked. In a circle of requests alone, whoever holds the greatest of the
keys waited for would itself wait for a greater one: a circle holds a tick.

`AgentProofs`, the client. Types are split into places, flags and counters (a frame
leaves the socket when it enters the queue, so the two are bounded together).
`ConnectsAlone` needs that a process between two lives has no tasks.
`ConnectionIsWatched` is inductive as it stands: each task that ends takes the
state with it, or the shutdown event or the clean close that excuses it lasts.

`AgentProofs`, the memory. `PushedWindow` says how a push shifts a window, and the
lemmas on pruning that survivors are entries of the window in their order.
`NothingForgotten` is inductive with the fact that a dead process has no
window; `DuplicatesAreLoaded` needs the shift of `PushedWindow` and that
pruning keeps the order and the identity of entries.

Checked by TLC only: the liveness properties `WorldGoesOn`, `LostEntriesGo`,
`SessionsEnd`, `LossIsNoticed`, `ShutdownEnds` and `GivesUp`. They hold under
fairness, whose proof rules need ENABLED, which the prover does not have.

## Not modelled

- Rate limiter: one Redis transaction per request on keys that nothing else
  reads; its answer decides whether a request is made, and every module lets
  any request be made or not.
- Game master: its evaluation only logs events with text a language model
  returns; the day at which it runs is `DayFollowsTick`.
- Read-only code: query handler, HTTP queries, `get_market_prices`,
  `get_active_modifiers`, `recall` and `get_recent`.
- Code without callers: `prune_db` and `clear` of the memory, `send_query`
  and `receive` of the connection.
- Chat, which appends to the event log; prompts and answers of language models
  (an answer is a free choice of action); password and token cryptography;
  the refusal of a malformed server address, a configuration error that ends
  the process at once.
- Message schemas, configuration, metrics, logging, locations, the dashboard's
  front end, migrations, seeds, manifests and benchmarks.
- 32-bit columns in the market; an overflow is a database error and thus one of
  the failures of a tick.
- Two replicas with a tick counter each: their sessions are in `Sessions`, their
  two counters over one set of rows are not modelled, since nothing in the
  repository says which of them should be right.

## Plan

Done: the modules above, their runs, and a theorem for each of their invariants
and action properties. What remains is the safety half of the liveness
properties, stated without ENABLED: that in every reachable state a step of the
process itself is possible (the guards of `TickEngine`, `AgentClient` and
`Connections`), and the measures that bound how often it can be put off.
