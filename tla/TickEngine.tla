----------------------------- MODULE TickEngine -----------------------------
(***************************************************************************)
(* The tick loop of the world server: engine/tick.py with the event roller *)
(* of services/world_events.py, the dashboard broadcast of api/ws.py, and  *)
(* the season that main.py and the loop keep in the database.              *)
(*                                                                         *)
(* One process runs the loop as an asyncio task.  "pc" says where the task *)
(* is; between two awaits other tasks of the process run: dashboard        *)
(* viewers come and go.  A macro tick is one database transaction, whose   *)
(* economic content (Market, Bank, ...) appears here only as "the economy  *)
(* of this tick was committed".  The process may be stopped or crash       *)
(* anywhere; what it keeps in memory is lost, the database stays.          *)
(***************************************************************************)
EXTENDS Integers, Sequences, FiniteSets

CONSTANTS
  Builds,           (* may _check_season_end be an attribute of TickEngine?  The   *)
                    (* source is {FALSE}: nested in _process_contract_payments    *)
  Events,           (* the registry of world events                               *)
  CategoryOf(_),    (* category of an event                                       *)
  DurationOf(_),    (* its duration in ticks                                      *)
  Viewers,          (* dashboard connections that may come up                     *)
  TicksPerDay,      (* settings.ticks_per_day                                     *)
  MicrosPerMacro,   (* macro_interval / micro_interval                            *)
  SeasonTicks,      (* length of a season, ticks_per_day * 168                    *)
  MaxTick,          (* bound: the world stops after this tick                     *)
  MaxFailures,      (* bound: exceptions other than the dashboard's               *)
  MaxRestarts,      (* bound: stops and crashes of the process                    *)
  MaxChurn          (* bound: dashboard viewers joining                           *)

ASSUME TickAssumption ==
  /\ Builds \subseteq BOOLEAN
  /\ \A e \in Events : DurationOf(e) \in Nat \ {0}
  /\ TicksPerDay \in Nat \ {0}
  /\ MicrosPerMacro \in Nat \ {0}
  /\ SeasonTicks \in Nat \ {0}
  /\ MaxTick \in Nat /\ MaxFailures \in Nat /\ MaxRestarts \in Nat /\ MaxChurn \in Nat

VARIABLES
  (* memory of the process *)
  pc,        (* where the loop is; "down" while there is no process             *)
  serving,   (* has _ensure_active_season returned?                             *)
  tick,      (* macro tick counter                                              *)
  day,       (* simulated day                                                   *)
  micro,     (* micro tick counter                                              *)
  active,    (* active_events of the event roller, never pruned by the loop     *)
  fired,     (* new_events of the transaction that is open                      *)
  viewers,   (* the set _dashboard_viewers                                      *)
  cast,      (* the iteration over it that is under way, or NoCast              *)
  (* database *)
  season,    (* the ACTIVE season, or NoSeason                                  *)
  committed, (* the ticks whose economy was committed, in that order            *)
  logged,    (* world_event rows of world_event_log                             *)
  (* code *)
  seasonCheckBound, (* self._check_season_end is found; one of Builds           *)
  (* bounds *)
  spent      (* failures, restarts and joins so far                             *)

loop     == <<pc, serving, tick, day, micro>>
memory   == <<loop, active, fired, viewers, cast>>
\* What outlasts the process: the tables, and the code.
database == <<season, committed, logged, seasonCheckBound>>
vars     == <<memory, database, spent>>

NoCast   == [size |-> 0, todo |-> {}, dead |-> {}]
NoSeason == [num |-> 0, start |-> 0, end |-> 0]
Seasons  == [num : Nat, start : Nat, end : Nat]

PCs == {"down", "micro", "roll", "economy", "season", "agents", "dashboard", "sleep"}

Init ==
  /\ pc = "down" /\ serving = FALSE
  /\ tick = 0 /\ day = 0 /\ micro = 0
  /\ active = {} /\ fired = {}
  /\ viewers = {} /\ cast = NoCast
  /\ season = NoSeason /\ committed = <<>> /\ logged = {}
  /\ seasonCheckBound \in Builds
  /\ spent = [failures |-> 0, restarts |-> 0, joins |-> 0]

-----------------------------------------------------------------------------
(* Start and end of the process.                                           *)

\* lifespan starts the loop before it looks for a season.
Start ==
  /\ pc = "down"
  /\ pc' = "micro"
  /\ UNCHANGED <<serving, tick, day, micro, active, fired, viewers, cast, database, spent>>

\* _ensure_active_season; requests are served from then on.
EnsureActiveSeason ==
  /\ pc # "down" /\ ~serving
  /\ serving' = TRUE
  /\ season' = IF season = NoSeason
               THEN [num |-> 1, start |-> tick, end |-> tick + SeasonTicks] ELSE season
  /\ UNCHANGED <<pc, tick, day, micro, active, fired, viewers, cast, committed, logged,
                 seasonCheckBound, spent>>

\* The process stops (the task is cancelled at its await) or crashes: an open
\* transaction is rolled back and every counter is gone.
Stop ==
  /\ pc # "down"
  /\ spent.restarts < MaxRestarts
  /\ spent' = [spent EXCEPT !.restarts = @ + 1]
  /\ pc' = "down" /\ serving' = FALSE
  /\ tick' = 0 /\ day' = 0 /\ micro' = 0
  /\ active' = {} /\ fired' = {}
  /\ viewers' = {} /\ cast' = NoCast
  /\ UNCHANGED database

\* Mutant of Raise: the event log is written in a session of its own.
RaiseKeepingLog ==
  /\ pc' = "sleep"
  /\ logged' = logged \cup fired
  /\ fired' = {} /\ cast' = NoCast
  /\ UNCHANGED <<serving, tick, day, micro, active, season, committed, seasonCheckBound>>

\* The except clause of the loop: the tick is given up, its transaction is rolled
\* back, and after a pause the loop begins again with the micro ticks.
Raise ==
  /\ pc' = "sleep"
  /\ fired' = {} /\ cast' = NoCast
  /\ UNCHANGED <<serving, tick, day, micro, active, database>>

\* Mutant of Sleep: an error ends the loop.
SleepForever ==
  /\ pc = "sleep"
  /\ UNCHANGED vars

Sleep ==
  /\ pc = "sleep"
  /\ pc' = "micro" /\ micro' = 0
  /\ UNCHANGED <<serving, tick, day, active, fired, viewers, cast, database, spent>>

-----------------------------------------------------------------------------
(* Dashboard viewers, and the broadcast that iterates over the live set.   *)

Join(v) ==
  /\ serving /\ v \notin viewers
  /\ spent.joins < MaxChurn
  /\ spent' = [spent EXCEPT !.joins = @ + 1]
  /\ viewers' = viewers \cup {v}
  /\ UNCHANGED <<loop, active, fired, cast, database>>

Leave(v) ==
  /\ v \in viewers
  /\ viewers' = viewers \ {v}
  /\ UNCHANGED <<loop, active, fired, cast, database, spent>>

Casting == pc \in {"micro", "dashboard"}

\* Where the loop goes when a broadcast returns: to the next micro tick or on to the
\* macro tick; after the macro tick, tick and day advance.
\* Mutant of NextMicro: one micro tick too many.
NextMicroOffByOne ==
  /\ pc = "micro" /\ micro + 1 <= MicrosPerMacro
  /\ micro' = micro + 1
  /\ UNCHANGED <<pc, tick, day>>

NextMicro ==
  /\ pc = "micro" /\ micro + 1 < MicrosPerMacro
  /\ micro' = micro + 1
  /\ UNCHANGED <<pc, tick, day>>

EndMicros ==
  /\ pc = "micro" /\ micro + 1 = MicrosPerMacro
  /\ pc' = "roll"
  /\ UNCHANGED <<tick, day, micro>>

\* Mutant of AdvanceTick: the counter advances only while somebody watches.
AdvanceTickIfWatched ==
  /\ pc = "dashboard"
  /\ pc' = "micro" /\ micro' = 0
  /\ tick' = IF viewers # {} THEN tick + 1 ELSE tick
  /\ day' = tick' \div TicksPerDay

AdvanceTick ==
  /\ pc = "dashboard"
  /\ pc' = "micro" /\ micro' = 0
  /\ tick' = tick + 1
  /\ day' = IF (tick + 1) % TicksPerDay = 0 THEN day + 1 ELSE day

Returned == NextMicro \/ EndMicros \/ AdvanceTick

CastNobody ==
  /\ Casting /\ cast = NoCast /\ viewers = {} /\ tick <= MaxTick
  /\ Returned
  /\ UNCHANGED <<serving, active, fired, viewers, cast, database, spent>>

BeginCast ==
  /\ Casting /\ cast = NoCast /\ viewers # {} /\ tick <= MaxTick
  /\ cast' = [size |-> Cardinality(viewers), todo |-> viewers, dead |-> {}]
  /\ UNCHANGED <<loop, active, fired, viewers, database, spent>>

\* A Python set iterator raises when the size of the set has changed.
SizeChanged == Cardinality(viewers) # cast.size

\* One send_json; one that raises is remembered.  A viewer that joined meanwhile
\* without changing the size is sent to or not.
SendTo(v) ==
  /\ Casting /\ cast # NoCast /\ ~SizeChanged
  /\ v \in cast.todo \cap viewers
  /\ \/ cast' = [cast EXCEPT !.todo = @ \ {v}]
     \/ cast' = [cast EXCEPT !.todo = @ \ {v}, !.dead = @ \cup {v}]
  /\ UNCHANGED <<loop, active, fired, viewers, database, spent>>

\* The loop is through: the viewers that could not be reached are dropped.
EndCast ==
  /\ Casting /\ cast # NoCast /\ ~SizeChanged
  /\ cast.todo \cap viewers = {}
  /\ viewers' = viewers \ cast.dead
  /\ cast' = NoCast
  /\ Returned
  /\ UNCHANGED <<serving, active, fired, database, spent>>

\* "Set changed size during iteration" leaves broadcast_to_dashboard and, past the
\* commit, _process_tick.
CastRaises ==
  /\ Casting /\ cast # NoCast /\ SizeChanged
  /\ Raise
  /\ UNCHANGED <<viewers, spent>>

-----------------------------------------------------------------------------
(* _process_tick.                                                          *)

\* An event that is in effect at tick t.
InEffect(t) == {e \in active : e.until > t}

\* Mutant of RollEvents: events fired by this roll do not block their category.
RollEventsStacking ==
  /\ pc = "roll"
  /\ \E new \in SUBSET Events :
       /\ \A e \in new : \A x \in InEffect(tick) : CategoryOf(e) # CategoryOf(x.event)
       /\ fired' = {[event |-> e, start |-> tick, until |-> tick + DurationOf(e)] : e \in new}
  /\ active' = active \cup fired'
  /\ pc' = "economy"
  /\ UNCHANGED <<serving, tick, day, micro, viewers, cast, database, spent>>

\* roll_events: any set of events of distinct categories, none of a category that
\* is in effect already.
RollEvents ==
  /\ pc = "roll"
  /\ \E new \in SUBSET Events :
       /\ \A e \in new : \A x \in InEffect(tick) : CategoryOf(e) # CategoryOf(x.event)
       /\ \A e, f \in new : e # f => CategoryOf(e) # CategoryOf(f)
       /\ fired' = {[event |-> e, start |-> tick, until |-> tick + DurationOf(e)] : e \in new}
  /\ active' = active \cup fired'
  /\ pc' = "economy"
  /\ UNCHANGED <<serving, tick, day, micro, viewers, cast, database, spent>>

\* Auction, court, production, payments, interest and game master of this tick,
\* inside the open transaction.
Economy ==
  /\ pc = "economy"
  /\ pc' = "season"
  /\ UNCHANGED <<serving, tick, day, micro, active, fired, viewers, cast, database, spent>>

\* self._check_season_end(session): not an attribute, so AttributeError.
SeasonCheckMissing ==
  /\ pc = "season" /\ ~seasonCheckBound
  /\ Raise
  /\ UNCHANGED <<viewers, spent>>

\* Mutant of SeasonAfter: the season ends one tick late.
SeasonAfterLate(t) ==
  IF season # NoSeason /\ t > season.end
  THEN [num |-> season.num + 1, start |-> t, end |-> t + SeasonTicks] ELSE season

\* The season the database holds when _check_season_end has run at tick t.
SeasonAfter(t) ==
  IF season # NoSeason /\ t >= season.end
  THEN [num |-> season.num + 1, start |-> t, end |-> t + SeasonTicks] ELSE season

\* _check_season_end, then the commit of all that the tick did.
Commit ==
  /\ pc = "season" /\ seasonCheckBound
  /\ season' = SeasonAfter(tick)
  /\ committed' = Append(committed, tick)
  /\ logged' = logged \cup fired
  /\ fired' = {}
  /\ pc' = "agents"
  /\ UNCHANGED <<serving, tick, day, micro, active, viewers, cast, seasonCheckBound, spent>>

\* _broadcast_tick_update, which reads the database again.
TellAgents ==
  /\ pc = "agents"
  /\ pc' = "dashboard"
  /\ UNCHANGED <<serving, tick, day, micro, active, fired, viewers, cast, database, spent>>

\* Any other exception: before the commit (a service or the database fails) or after
\* it (a query of _broadcast_tick_update fails).
Fail ==
  /\ pc \in {"economy", "season", "agents"}
  /\ spent.failures < MaxFailures
  /\ spent' = [spent EXCEPT !.failures = @ + 1]
  /\ Raise
  /\ UNCHANGED viewers

-----------------------------------------------------------------------------
Step ==
  \/ Start \/ EnsureActiveSeason \/ Sleep
  \/ CastNobody \/ BeginCast \/ (\E v \in Viewers : SendTo(v)) \/ EndCast \/ CastRaises
  \/ RollEvents \/ Economy \/ SeasonCheckMissing \/ Commit \/ TellAgents

Environment ==
  \/ Stop \/ Fail
  \/ \E v \in Viewers : Join(v) \/ Leave(v)

\* The model's end of the world: past MaxTick the loop casts no more.
Finished == pc = "micro" /\ tick > MaxTick /\ UNCHANGED vars

Next == Step \/ Environment \/ Finished

Spec == Init /\ [][Next]_vars

\* The event loop of Python runs every task that is ready; nothing makes viewers
\* come, sends fail or the process stop.
FairSpec == Spec /\ WF_vars(Step)

-----------------------------------------------------------------------------
Rows == [event : Events, start : Nat, until : Nat]

LoopType ==
  /\ pc \in PCs /\ serving \in BOOLEAN
  /\ tick \in Nat /\ day \in Nat /\ micro \in 0..(MicrosPerMacro - 1)

EventType == active \subseteq Rows /\ fired \subseteq Rows /\ logged \subseteq Rows

CastType ==
  /\ viewers \subseteq Viewers
  /\ cast \in [size : Nat, todo : SUBSET Viewers, dead : SUBSET Viewers]

WorldType == season \in Seasons /\ committed \in Seq(Nat) /\ seasonCheckBound \in Builds

SpentType == spent \in [failures : Nat, restarts : Nat, joins : Nat]

\* The fields of TickEngine, the roller and the tables hold values of their columns.
TypeOK == LoopType /\ EventType /\ CastType /\ WorldType /\ SpentType

\* However often ticks fail and the process restarts, the day the game master is told
\* is the one the tick lies in, so the daily work (interest, game master) and the day
\* counter never drift apart.
DayFollowsTick == day = tick \div TicksPerDay

\* The economy of no tick is left out: committed ticks follow one another by at most
\* one, or start from 0 again after a restart, and the loop is at most one ahead.
NoTickSkipped ==
  /\ committed # <<>> => committed[1] = 0
  /\ \A i \in 2..Len(committed) :
       committed[i] \in {0, committed[i - 1], committed[i - 1] + 1}
  /\ tick > 0 => committed # <<>> /\ committed[Len(committed)] \in {tick - 1, tick}

Times(t) == Cardinality({i \in DOMAIN committed : committed[i] = t})

\* The commit comes before the broadcasts and the counter advances after them, so a
\* tick may be committed again; each exception and each restart costs at most one
\* repetition of a tick (a viewer's coming and its going can each break a broadcast).
EachDisturbanceRedoesATickOnce ==
  \A i \in DOMAIN committed :
    Times(committed[i]) <= 1 + spent.failures + spent.restarts + 2 * spent.joins

\* "Events of the same category cannot stack" (roll_events): also when a failed tick
\* rolls again, two events in effect are of different categories.
NoStacking ==
  \A x, y \in InEffect(tick) : CategoryOf(x.event) = CategoryOf(y.event) => x = y

\* A tick that failed before its commit leaves nothing in the database: every logged
\* event, and every season but the first (which no tick creates), is from a committed tick.
NothingOfAFailedTick ==
  /\ \A x \in logged : \E i \in DOMAIN committed : committed[i] = x.start
  /\ season.num > 1 => \E i \in DOMAIN committed : committed[i] = season.start
  /\ pc \in {"agents", "dashboard"} =>
       committed # <<>> /\ committed[Len(committed)] = tick

\* When a tick has been committed and agents are told of it, the season that the
\* database calls active has not ended.
SeasonNotOverdue ==
  pc \in {"agents", "dashboard"} /\ season # NoSeason => tick < season.end

\* README: a macro tick every 10 minutes.  The world leaves its first tick.
WorldAdvances == <>(tick > 0)

\* The same, to the last tick of the model and for good, whatever the (finitely many)
\* disturbances, if the season check can be called.
WorldGoesOn == seasonCheckBound => <>[](tick > MaxTick)

=============================================================================
