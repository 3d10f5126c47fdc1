------------------------------ MODULE Sessions ------------------------------
(***************************************************************************)
(* The database sessions of the world server: the transactions of          *)
(* handle_action, of the HTTP routes, of the start of a server and of the  *)
(* macro tick, all over the same rows.                                     *)
(*                                                                         *)
(* A session reads a row without a lock and once (its identity map), works *)
(* on the copy, and flushes the absolute values of the rows it changed, in *)
(* the order of their keys; a row it has flushed is locked until it ends   *)
(* (PostgreSQL, READ COMMITTED).  Requests flush once; the tick flushes    *)
(* after each of its phases, because the next one begins with a SELECT.    *)
(* A row of agents has one amount here: its balance, or an item it holds.  *)
(***************************************************************************)
EXTENDS Integers, Sequences, FiniteSets

CONSTANTS
  N,            (* agents; their keys are 1..N                                 *)
  Clients,      (* sessions of requests and of starting servers                *)
  Ticks,        (* sessions of macro ticks, one for each replica               *)
  Free,         (* nobody holds the lock                                       *)
  Unread,       (* the session has not read the row                            *)
  InitAmount,   (* amount of each agent at the start                           *)
  MAX_AGENTS,   (* User.max_agents, 3 in the source                            *)
  Sellers,      (* agents a tick may find a buyer for                          *)
  Judged,       (* defendants, plaintiffs, fines of cases it may decide        *)
  Employed      (* employers and employees it may find a salary due between    *)

ASSUME SessionsAssumption ==
  /\ N \in Nat /\ InitAmount \in Nat /\ MAX_AGENTS \in Nat
  /\ Clients \cap Ticks = {}
  /\ Free \notin Clients \cup Ticks
  /\ Unread \notin Int
  /\ Sellers \subseteq 1..N
  /\ \A c \in Judged : c \in (1..N) \X (1..N) \X Nat /\ c[1] # c[2]
  /\ \A c \in Employed : c \in (1..N) \X (1..N) /\ c[1] # c[2]

Agents   == 1..N
Sessions == Clients \cup Ticks

\* Tables that are counted before a row is inserted: users with one name, agents of one user,
\* active seasons.
Tables == {"users", "agents", "seasons"}

Limit == [users |-> 1, agents |-> MAX_AGENTS, seasons |-> 1]

\* What a phase of a transaction does to the amounts (0 leaves a row alone), and what becomes of it
\* if there is too little to pay with: the transaction is refused, or the phase skipped, or forced.
Phases == [change : [Agents -> Int], poor : {"refuse", "skip", "force"}]

VARIABLES
  amount,      (* amount[a]: as committed                                      *)
  rows,        (* rows[t]: rows of a table, as committed                       *)
  lock,        (* lock[a]: the session that has flushed row a                  *)
  pc,          (* pc[s]: where session s is                                    *)
  plan,        (* plan[s]: the phases it still has to do, this one included    *)
  table,       (* table[s]: the table it inserts into                          *)
  view,        (* view[s][a]: its copy of row a                                *)
  dirty,       (* dirty[s]: rows it changed and has not flushed                *)
  due,         (* history: amount[a] if every committed effect had been kept   *)
  effect,      (* history: effect[s][a], what s has done so far                *)
  fines,       (* history: fines[a], committed; fined[s][a], by s so far       *)
  fined,
  overlapped,  (* history: rows two open sessions have read                    *)
  contended    (* history: tables two open sessions insert into                *)

history == <<due, effect, fines, fined, overlapped>>

vars == <<amount, rows, lock, pc, plan, table, view, dirty, history, contended>>

Final == {"done", "refused", "failed"}

\* Only a session that is still open holds a lock.
LocksAreHeld == \A a \in Agents : lock[a] = Free \/ pc[lock[a]] \in {"reading", "flushing"}

TypeOK ==
  /\ LocksAreHeld
  /\ amount \in [Agents -> Int] /\ due \in [Agents -> Int]
  /\ rows \in [Tables -> Nat]
  /\ lock \in [Agents -> Sessions \cup {Free}]
  /\ pc \in [Sessions -> {"idle", "reading", "flushing", "counting", "inserting", "inserted"} \cup Final]
  /\ plan \in [Sessions -> Seq(Phases)]
  /\ table \in [Sessions -> Tables]
  /\ view \in [Sessions -> [Agents -> Int \cup {Unread}]]
  /\ dirty \in [Sessions -> SUBSET Agents]
  /\ effect \in [Sessions -> [Agents -> Int]]
  /\ fines \in [Agents -> Nat] /\ fined \in [Sessions -> [Agents -> Nat]]
  /\ overlapped \subseteq Agents /\ contended \subseteq Tables

NothingRead == [a \in Agents |-> Unread]
NoEffect    == [a \in Agents |-> 0]

Init ==
  /\ amount = [a \in Agents |-> InitAmount] /\ due = amount
  /\ rows = [t \in Tables |-> 0]
  /\ lock = [a \in Agents |-> Free]
  /\ pc = [s \in Sessions |-> "idle"]
  /\ plan = [s \in Sessions |-> <<>>]
  /\ table = [s \in Sessions |-> "users"]
  /\ view = [s \in Sessions |-> NothingRead]
  /\ dirty = [s \in Sessions |-> {}]
  /\ effect = [s \in Sessions |-> NoEffect]
  /\ fines = NoEffect /\ fined = effect
  /\ overlapped = {} /\ contended = {}

-----------------------------------------------------------------------------
(* Transactions over the rows of agents.                                   *)

\* One amount up or down, or from an agent to another (accept_trade_offer).
Change(a, n)  == [b \in Agents |-> IF b = a THEN n ELSE 0]
Move(a, b, n) == [c \in Agents |-> IF c = a THEN -n ELSE IF c = b THEN n ELSE 0]

Phase(change, poor) == [change |-> change, poor |-> poor]

RequestPhases ==
  {Phase(Change(a, n), "refuse") : a \in Agents, n \in {-1, 1}}
    \cup {Phase(Move(a, b, 1), "refuse") : a \in Agents, b \in Agents}

\* The phases of a tick: the auction pays a seller, verdicts take fines from a defendant
\* whatever it has, production pays everybody, and an employer pays a salary or, if it cannot,
\* breaches the contract.  There is not always somebody to judge or to pay.
Nothing  == Phase(NoEffect, "skip")
Sales    == {Phase(Change(a, 1), "force") : a \in Sellers}
Verdicts == {Nothing} \cup {Phase(Move(c[1], c[2], c[3]), "force") : c \in Judged}
Income   == Phase([a \in Agents |-> 1], "force")
Salaries == {Nothing} \cup {Phase(Move(c[1], c[2], 1), "skip") : c \in Employed}

TickPlans ==
  {<<sale, verdict, Income, salary>> : sale \in Sales, verdict \in Verdicts, salary \in Salaries}

Open(s, p) ==
  /\ pc[s] = "idle"
  /\ pc' = [pc EXCEPT ![s] = "reading"] /\ plan' = [plan EXCEPT ![s] = p]
  /\ UNCHANGED <<amount, rows, lock, table, view, dirty, history, contended>>

OpenRequest(s) == s \in Clients /\ \E f \in RequestPhases : Open(s, <<f>>)
OpenTick(s)    == s \in Ticks /\ \E p \in TickPlans : Open(s, p)

Touched(s) == {a \in Agents : Head(plan[s]).change[a] # 0}

AllRead(s) == \A a \in Touched(s) : view[s][a] # Unread

Poor(s) == \E a \in Agents : Head(plan[s]).change[a] < 0 /\ view[s][a] < -Head(plan[s]).change[a]

\* What the phase does, and the fines among it.
Doing(s) == IF Head(plan[s]).poor = "skip" /\ Poor(s) THEN NoEffect ELSE Head(plan[s]).change

Fining(s) ==
  [a \in Agents |-> IF Head(plan[s]).poor = "force" /\ Doing(s)[a] < 0 THEN -Doing(s)[a] ELSE 0]

\* session.get and the SELECTs of the tick: a row in the identity map keeps its copy.
Read(s, a) ==
  /\ pc[s] = "reading"
  /\ a \in Touched(s) /\ view[s][a] = Unread
  /\ view' = [view EXCEPT ![s][a] = amount[a]]
  /\ overlapped' = IF \E r \in Sessions \ {s} : view[r][a] # Unread
                   THEN overlapped \cup {a} ELSE overlapped
  /\ UNCHANGED <<amount, rows, lock, pc, plan, table, dirty, due, effect, fines, fined, contended>>

\* Faulty variant of Close: the locks stay.
CloseLocked(s, how) ==
  /\ pc' = [pc EXCEPT ![s] = how]
  /\ view' = [view EXCEPT ![s] = NothingRead]
  /\ dirty' = [dirty EXCEPT ![s] = {}]
  /\ plan' = [plan EXCEPT ![s] = <<>>] /\ effect' = [effect EXCEPT ![s] = NoEffect]
  /\ fined' = [fined EXCEPT ![s] = NoEffect]
  /\ UNCHANGED lock

\* The session ends: its copies are gone, its locks free.
Close(s, how) ==
  /\ pc' = [pc EXCEPT ![s] = how]
  /\ view' = [view EXCEPT ![s] = NothingRead]
  /\ dirty' = [dirty EXCEPT ![s] = {}]
  /\ lock' = [a \in Agents |-> IF lock[a] = s THEN Free ELSE lock[a]]
  /\ plan' = [plan EXCEPT ![s] = <<>>] /\ effect' = [effect EXCEPT ![s] = NoEffect]
  /\ fined' = [fined EXCEPT ![s] = NoEffect]

\* A ValueError before the first flush: too little to pay with.
Refuse(s) ==
  /\ pc[s] = "reading" /\ AllRead(s) /\ Poor(s) /\ Head(plan[s]).poor = "refuse"
  /\ Close(s, "refused")
  /\ UNCHANGED <<amount, rows, table, due, fines, overlapped, contended>>

Compute(s) ==
  /\ pc[s] = "reading" /\ AllRead(s)
  /\ Head(plan[s]).poor = "refuse" => ~Poor(s)
  /\ pc' = [pc EXCEPT ![s] = "flushing"]
  /\ view' = [view EXCEPT ![s] = [a \in Agents |->
       IF Doing(s)[a] # 0 THEN @[a] + Doing(s)[a] ELSE @[a]]]
  /\ effect' = [effect EXCEPT ![s] = [a \in Agents |-> @[a] + Doing(s)[a]]]
  /\ fined' = [fined EXCEPT ![s] = [a \in Agents |-> @[a] + Fining(s)[a]]]
  /\ dirty' = [dirty EXCEPT ![s] = {a \in Agents : Doing(s)[a] # 0}]
  /\ UNCHANGED <<amount, rows, lock, plan, table, due, fines, overlapped, contended>>

\* The row session s is about to update, or waits to update.
Wants(s, a) == pc[s] = "flushing" /\ a \in dirty[s] /\ \A b \in dirty[s] : a <= b

\* Faulty variant of Flush: the rows are updated in any order.
FlushAnyOrder(s, a) ==
  /\ pc[s] = "flushing" /\ a \in dirty[s]
  /\ lock[a] \in {Free, s}
  /\ lock' = [lock EXCEPT ![a] = s]
  /\ dirty' = [dirty EXCEPT ![s] = @ \ {a}]
  /\ UNCHANGED <<amount, rows, pc, plan, table, view, history, contended>>

Flush(s, a) ==
  /\ Wants(s, a)
  /\ lock[a] \in {Free, s}
  /\ lock' = [lock EXCEPT ![a] = s]
  /\ dirty' = [dirty EXCEPT ![s] = @ \ {a}]
  /\ UNCHANGED <<amount, rows, pc, plan, table, view, history, contended>>

Flushed(s) == pc[s] = "flushing" /\ dirty[s] = {}

\* Faulty variant of NextPhase: the next phase reads its rows anew, in a session of its own.
NextPhaseAnew(s) ==
  /\ Flushed(s) /\ Len(plan[s]) > 1
  /\ plan' = [plan EXCEPT ![s] = Tail(@)] /\ pc' = [pc EXCEPT ![s] = "reading"]
  /\ view' = [view EXCEPT ![s] = NothingRead]
  /\ UNCHANGED <<amount, rows, lock, table, dirty, history, contended>>

NextPhase(s) ==
  /\ Flushed(s) /\ Len(plan[s]) > 1
  /\ plan' = [plan EXCEPT ![s] = Tail(@)] /\ pc' = [pc EXCEPT ![s] = "reading"]
  /\ UNCHANGED <<amount, rows, lock, table, view, dirty, history, contended>>

\* Faulty variant of Commit: the effects are added to what others have committed meanwhile.
CommitRelative(s) ==
  /\ Flushed(s) /\ Len(plan[s]) = 1
  /\ amount' = [a \in Agents |-> amount[a] + effect[s][a]]
  /\ due' = [a \in Agents |-> due[a] + effect[s][a]]
  /\ fines' = [a \in Agents |-> fines[a] + fined[s][a]]
  /\ Close(s, "done")
  /\ UNCHANGED <<rows, table, overlapped, contended>>

Commit(s) ==
  /\ Flushed(s) /\ Len(plan[s]) = 1
  /\ amount' = [a \in Agents |-> IF lock[a] = s THEN view[s][a] ELSE amount[a]]
  /\ due' = [a \in Agents |-> due[a] + effect[s][a]]
  /\ fines' = [a \in Agents |-> fines[a] + fined[s][a]]
  /\ Close(s, "done")
  /\ UNCHANGED <<rows, table, overlapped, contended>>

\* Whom a session waits for (itself if it does not wait), and the sessions that wait in a circle.
WaitsFor(s) ==
  IF \E a \in Agents : Wants(s, a) /\ lock[a] # Free
  THEN lock[CHOOSE a \in Agents : Wants(s, a)]
  ELSE s

InCircle(s) ==
  \E C \in SUBSET Sessions :
    /\ s \in C /\ IsFiniteSet(C)
    /\ \A r \in C : WaitsFor(r) # r
    /\ {WaitsFor(r) : r \in C} = C

\* Faulty variant of Abort: nobody notices the circle.
AbortNobody(s) ==
  /\ FALSE /\ InCircle(s)
  /\ UNCHANGED vars

\* PostgreSQL ends one session of a circle; its handler answers with an internal error, and
\* leaving the session rolls it back.
Abort(s) ==
  /\ InCircle(s)
  /\ Close(s, "failed")
  /\ UNCHANGED <<amount, rows, table, due, fines, overlapped, contended>>

-----------------------------------------------------------------------------
(* Transactions that count the rows of a table and insert one.             *)

Inserting == {"counting", "inserting", "inserted"}

\* register_user, create_agent, _ensure_active_season.
OpenInsert(s, t) ==
  /\ s \in Clients /\ pc[s] = "idle"
  /\ pc' = [pc EXCEPT ![s] = "counting"] /\ table' = [table EXCEPT ![s] = t]
  /\ contended' = IF \E r \in Sessions : pc[r] \in Inserting /\ table[r] = t
                   THEN contended \cup {t} ELSE contended
  /\ UNCHANGED <<amount, rows, lock, plan, view, dirty, due, effect, fines, fined, overlapped>>

\* Faulty variant of Count: one row too many is let in.
CountOneMore(s) ==
  /\ pc[s] = "counting"
  /\ pc' = [pc EXCEPT ![s] = IF rows[table[s]] > Limit[table[s]] THEN "refused" ELSE "inserting"]
  /\ UNCHANGED <<amount, rows, lock, plan, table, view, dirty, history, contended>>

\* Only committed rows are seen.
Count(s) ==
  /\ pc[s] = "counting"
  /\ pc' = [pc EXCEPT ![s] = IF rows[table[s]] >= Limit[table[s]] THEN "refused" ELSE "inserting"]
  /\ UNCHANGED <<amount, rows, lock, plan, table, view, dirty, history, contended>>

\* Names of users are unique columns: an insert waits for the end of another one with the same
\* name, and fails if that one was committed (IntegrityError, no ValueError: the route answers
\* with an internal error).
Insert(s) ==
  /\ pc[s] = "inserting"
  /\ table[s] = "users" => \A r \in Sessions : ~(pc[r] = "inserted" /\ table[r] = "users")
  /\ pc' = [pc EXCEPT ![s] = IF table[s] = "users" /\ rows["users"] > 0 THEN "failed" ELSE "inserted"]
  /\ UNCHANGED <<amount, rows, lock, plan, table, view, dirty, history, contended>>

CommitInsert(s) ==
  /\ pc[s] = "inserted"
  /\ pc' = [pc EXCEPT ![s] = "done"]
  /\ rows' = [rows EXCEPT ![table[s]] = @ + 1]
  /\ UNCHANGED <<amount, lock, plan, table, view, dirty, history, contended>>

-----------------------------------------------------------------------------

\* The steps of a session once it is open.
Work(s) ==
  \/ \E a \in Agents : Read(s, a) \/ Flush(s, a)
  \/ Refuse(s) \/ Compute(s) \/ NextPhase(s) \/ Commit(s)
  \/ Count(s) \/ Insert(s) \/ CommitInsert(s)

Next ==
  \E s \in Sessions :
    \/ OpenRequest(s) \/ OpenTick(s) \/ \E t \in Tables : OpenInsert(s, t)
    \/ Work(s) \/ Abort(s)

Spec == Init /\ [][Next]_vars

\* The event loop and the database go on with every open session, and the deadlock detector
\* with every circle.
FairSpec == Spec /\ \A s \in Sessions : WF_vars(Work(s)) /\ WF_vars(Abort(s))

-----------------------------------------------------------------------------
(* Correctness.                                                            *)

\* An amount is what the committed transactions make it, and no refused, aborted or half done
\* one has left anything, unless two open sessions have read the row.
LostOnlyByOverlap == \A a \in Agents \ overlapped : amount[a] = due[a]

\* The checks are made on copies that may be stale, still only fines, which are not checked, can
\* overdraw an amount, each by itself: whatever else a session commits it has checked, because it
\* writes the value it has checked, not what it has to subtract.
OnlyFinesOverdraw == \A a \in Agents : amount[a] >= -fines[a]

\* The limits of agents and seasons hold unless two sessions have counted at the same time; names
\* of users are unique in any case.
LimitsHold ==
  /\ \A t \in Tables \ contended : rows[t] <= Limit[t]
  /\ rows["users"] <= 1

\* Requests change at most two rows and update them in one order: only a tick, which flushes
\* in phases, can make a circle.
OnlyTicksDeadlock == \A s \in Sessions : InCircle(s) => \E t \in Ticks : InCircle(t)

\* Every session that is opened ends, be it as the victim of a deadlock.
SessionsEnd == \A s \in Sessions : pc[s] # "idle" ~> pc[s] \in Final

\* No update of an amount is lost, whatever overlaps.
NoLostUpdate == \A a \in Agents : amount[a] = due[a]
=============================================================================
