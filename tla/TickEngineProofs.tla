-------------------------- MODULE TickEngineProofs --------------------------
(***************************************************************************)
(* Theorems about TickEngine, for every number of viewers, events, ticks,  *)
(* failures and restarts.  Type correctness comes first; every other proof *)
(* uses it, and adds what the position of the loop says of the transaction *)
(* that is open.                                                           *)
(***************************************************************************)
EXTENDS TickEngine, FiniteSetTheorems, TLAPS

LEMMA LoopTypeStep ==
  ASSUME LoopType, [Next]_vars
  PROVE  LoopType'
<1>0. 0 \in 0..(MicrosPerMacro - 1)
  BY TickAssumption
<1>1. CASE Start \/ EnsureActiveSeason \/ Sleep \/ Stop
  <2>1. CASE Start
    BY <2>1, <1>0 DEF LoopType, Start, PCs
  <2>2. CASE EnsureActiveSeason
    BY <2>2 DEF LoopType, EnsureActiveSeason
  <2>3. CASE Sleep
    BY <2>3, <1>0 DEF LoopType, Sleep, PCs
  <2>4. CASE Stop
    BY <2>4, <1>0 DEF LoopType, Stop, PCs
  <2> QED BY <1>1, <2>1, <2>2, <2>3, <2>4
<1>2. CASE CastNobody \/ EndCast
  BY <1>2, TickAssumption
  DEF LoopType, CastNobody, EndCast, Returned, NextMicro, EndMicros, AdvanceTick, PCs
<1>3. CASE CastRaises \/ SeasonCheckMissing \/ Fail
  BY <1>3 DEF LoopType, CastRaises, SeasonCheckMissing, Fail, Raise, PCs
<1>4. CASE BeginCast \/ \E v \in Viewers : SendTo(v) \/ Join(v) \/ Leave(v)
  BY <1>4 DEF LoopType, BeginCast, SendTo, Join, Leave, loop
<1>5. CASE RollEvents \/ Economy \/ Commit \/ TellAgents
  BY <1>5 DEF LoopType, RollEvents, Economy, Commit, TellAgents, PCs
<1>6. CASE Finished \/ UNCHANGED vars
  BY <1>6 DEF LoopType, Finished, vars, memory, loop
<1> QED BY <1>1, <1>2, <1>3, <1>4, <1>5, <1>6 DEF Next, Step, Environment

LEMMA EventTypeStep ==
  ASSUME LoopType, EventType, [Next]_vars
  PROVE  EventType'
<1>1. CASE Start \/ EnsureActiveSeason \/ Sleep \/ Stop
  BY <1>1 DEF EventType, Start, EnsureActiveSeason, Sleep, Stop, database
<1>2. CASE CastNobody \/ EndCast
  BY <1>2 DEF EventType, CastNobody, EndCast, database
<1>3. CASE CastRaises \/ SeasonCheckMissing \/ Fail
  BY <1>3 DEF EventType, CastRaises, SeasonCheckMissing, Fail, Raise, database
<1>4. CASE BeginCast \/ \E v \in Viewers : SendTo(v) \/ Join(v) \/ Leave(v)
  BY <1>4 DEF EventType, BeginCast, SendTo, Join, Leave, database
<1>5. CASE RollEvents
  <2>1. PICK new \in SUBSET Events :
          fired' = {[event |-> e, start |-> tick, until |-> tick + DurationOf(e)] : e \in new}
    BY <1>5 DEF RollEvents
  <2>2. \A e \in new : tick + DurationOf(e) \in Nat
    BY TickAssumption DEF LoopType
  <2>3. fired' \subseteq Rows
    BY <2>1, <2>2 DEF Rows, LoopType
  <2>4. active' = active \cup fired' /\ logged' = logged
    BY <1>5 DEF RollEvents, database
  <2> QED BY <2>3, <2>4 DEF EventType, Rows
<1>6. CASE Economy \/ Commit \/ TellAgents
  BY <1>6 DEF EventType, Economy, Commit, TellAgents, database
<1>7. CASE Finished \/ UNCHANGED vars
  BY <1>7 DEF EventType, Finished, vars, memory, database
<1> QED BY <1>1, <1>2, <1>3, <1>4, <1>5, <1>6, <1>7 DEF Next, Step, Environment

LEMMA CastTypeStep ==
  ASSUME CastType, IsFiniteSet(viewers), [Next]_vars
  PROVE  CastType' /\ IsFiniteSet(viewers)'
<1>1. Cardinality(viewers) \in Nat
  BY FS_CardinalityType
<1>2. NoCast \in [size : Nat, todo : SUBSET Viewers, dead : SUBSET Viewers]
  BY DEF NoCast
<1>3. CASE Start \/ EnsureActiveSeason \/ Sleep \/ CastNobody
  BY <1>3 DEF CastType, Start, EnsureActiveSeason, Sleep, CastNobody
<1>4. CASE Stop
  BY <1>4, <1>2, FS_EmptySet DEF CastType, Stop
<1>5. CASE EndCast
  <2>1. viewers' = viewers \ cast.dead /\ cast' = NoCast
    BY <1>5 DEF EndCast
  <2>2. IsFiniteSet(viewers \ cast.dead)
    BY FS_Difference
  <2> QED BY <2>1, <2>2, <1>2 DEF CastType
<1>6. CASE CastRaises \/ SeasonCheckMissing \/ Fail
  BY <1>6, <1>2 DEF CastType, CastRaises, SeasonCheckMissing, Fail, Raise
<1>7. CASE BeginCast
  <2>1. cast' = [size |-> Cardinality(viewers), todo |-> viewers, dead |-> {}]
    BY <1>7 DEF BeginCast
  <2> QED BY <1>7, <2>1, <1>1 DEF BeginCast, CastType
<1>8. ASSUME NEW v \in Viewers, SendTo(v)
      PROVE  CastType' /\ IsFiniteSet(viewers)'
  <2>1. cast' \in [size : Nat, todo : SUBSET Viewers, dead : SUBSET Viewers]
    BY <1>8 DEF SendTo, CastType
  <2> QED BY <1>8, <2>1 DEF SendTo, CastType
<1>9. ASSUME NEW v \in Viewers, Join(v) \/ Leave(v)
      PROVE  CastType' /\ IsFiniteSet(viewers)'
  <2>1. IsFiniteSet(viewers \cup {v}) /\ IsFiniteSet(viewers \ {v})
    BY FS_AddElement, FS_RemoveElement
  <2> QED BY <1>9, <2>1 DEF Join, Leave, CastType
<1>10. CASE RollEvents \/ Economy \/ Commit \/ TellAgents
  BY <1>10 DEF CastType, RollEvents, Economy, Commit, TellAgents
<1>11. CASE Finished \/ UNCHANGED vars
  BY <1>11 DEF CastType, Finished, vars, memory
<1> QED
  BY <1>3, <1>4, <1>5, <1>6, <1>7, <1>8, <1>9, <1>10, <1>11 DEF Next, Step, Environment

LEMMA WorldTypeStep ==
  ASSUME LoopType, WorldType, [Next]_vars
  PROVE  WorldType'
<1>1. CASE EnsureActiveSeason
  BY <1>1, TickAssumption DEF LoopType, WorldType, EnsureActiveSeason, Seasons
<1>2. CASE Commit
  <2>1. SeasonAfter(tick) \in Seasons
    BY TickAssumption DEF LoopType, WorldType, SeasonAfter, Seasons
  <2>2. season' \in Seasons /\ committed' \in Seq(Nat)
    BY <1>2, <2>1 DEF LoopType, WorldType, Commit
  <2>3. seasonCheckBound' = seasonCheckBound
    BY <1>2 DEF Commit
  <2> QED BY <2>2, <2>3 DEF WorldType
<1>3. ASSUME UNCHANGED <<season, committed, seasonCheckBound>>
      PROVE  WorldType'
  BY <1>3 DEF WorldType
<1>4. [Next]_vars => EnsureActiveSeason \/ Commit \/ UNCHANGED <<season, committed, seasonCheckBound>>
  BY DEF Next, Step, Environment, Start, Sleep, CastNobody, BeginCast, SendTo, EndCast,
         CastRaises, RollEvents, Economy, SeasonCheckMissing, TellAgents, Stop, Fail, Join,
         Leave, Raise, Finished, vars, database
<1> QED BY <1>1, <1>2, <1>3, <1>4

LEMMA SpentTypeStep ==
  ASSUME SpentType, [Next]_vars
  PROVE  SpentType'
<1>1. \/ UNCHANGED spent
      \/ spent' = [spent EXCEPT !.failures = @ + 1]
      \/ spent' = [spent EXCEPT !.restarts = @ + 1]
      \/ spent' = [spent EXCEPT !.joins = @ + 1]
  BY DEF Next, Step, Environment, Start, EnsureActiveSeason, Sleep, CastNobody, BeginCast,
         SendTo, EndCast, CastRaises, RollEvents, Economy, SeasonCheckMissing, Commit,
         TellAgents, Stop, Fail, Join, Leave, Finished, vars
<1> QED BY <1>1 DEF SpentType

\* The induction needs the viewers finite, for their number to be a natural one.
LEMMA TickTypes == Spec => [](TypeOK /\ IsFiniteSet(viewers))
<1>1. Init => TypeOK /\ IsFiniteSet(viewers)
  <2>1. Init => LoopType
    <3>1. 0 \in 0..(MicrosPerMacro - 1)
      BY TickAssumption
    <3>2. Init => serving \in BOOLEAN
      BY DEF Init
    <3>3. Init => pc \in PCs /\ tick = 0 /\ day = 0 /\ micro = 0
      BY DEF Init, PCs
    <3> QED BY <3>1, <3>2, <3>3 DEF LoopType
  <2>2. Init => EventType
    BY DEF Init, EventType
  <2>3. Init => CastType /\ IsFiniteSet(viewers)
    BY FS_EmptySet DEF Init, CastType, NoCast
  <2>4. Init => WorldType
    BY DEF Init, WorldType, NoSeason, Seasons
  <2>5. Init => SpentType
    BY DEF Init, SpentType
  <2> QED BY <2>1, <2>2, <2>3, <2>4, <2>5 DEF TypeOK
<1>2. TypeOK /\ IsFiniteSet(viewers) /\ [Next]_vars => TypeOK' /\ IsFiniteSet(viewers)'
  BY LoopTypeStep, EventTypeStep, CastTypeStep, WorldTypeStep, SpentTypeStep DEF TypeOK
<1> QED BY <1>1, <1>2, PTL DEF Spec

\* Every field of the engine, the roller and the tables stays in its type.
THEOREM TickTypeOK == Spec => []TypeOK
BY TickTypes, PTL

-----------------------------------------------------------------------------
\* The steps by which tick moves: the end of a macro tick, and the end of the process.
LEMMA TickMoves ==
  ASSUME [Next]_vars
  PROVE  \/ UNCHANGED <<tick, day>>
         \/ AdvanceTick /\ UNCHANGED <<active, fired, database>>
         \/ Stop
  BY DEF Next, Step, Environment, Start, EnsureActiveSeason, Sleep, CastNobody, BeginCast,
         SendTo, EndCast, CastRaises, RollEvents, Economy, SeasonCheckMissing, Commit,
         TellAgents, Fail, Join, Leave, Raise, Finished, Returned, NextMicro, EndMicros,
         vars, memory, loop

\* The days of consecutive ticks.
LEMMA DayOfNext ==
  ASSUME NEW n \in Nat, NEW k \in Nat \ {0}
  PROVE  (n + 1) \div k = IF (n + 1) % k = 0 THEN (n \div k) + 1 ELSE n \div k
  OBVIOUS

\* The day counter is the day of the tick in every run of the server.
THEOREM DayIsDayOfTick == Spec => []DayFollowsTick
<1>1. Init => DayFollowsTick
  BY TickAssumption DEF Init, DayFollowsTick
<1>2. TypeOK /\ DayFollowsTick /\ [Next]_vars => DayFollowsTick'
  <2> SUFFICES ASSUME TypeOK, DayFollowsTick, [Next]_vars PROVE DayFollowsTick'
    OBVIOUS
  <2>1. CASE UNCHANGED <<tick, day>>
    BY <2>1 DEF DayFollowsTick
  <2>2. CASE AdvanceTick
    <3>1. tick \in Nat
      BY DEF TypeOK, LoopType
    <3> QED BY <2>2, <3>1, DayOfNext, TickAssumption DEF AdvanceTick, DayFollowsTick
  <2>3. CASE Stop
    BY <2>3, TickAssumption DEF Stop, DayFollowsTick
  <2> QED BY <2>1, <2>2, <2>3, TickMoves
<1> QED BY <1>1, <1>2, TickTypeOK, PTL DEF Spec
-----------------------------------------------------------------------------
\* What is in the open transaction: the event rows of this tick, and nothing when no
\* transaction is open.
OpenTransaction ==
  /\ pc \in {"economy", "season"} => \A x \in fired : x.start = tick
  /\ pc \notin {"economy", "season"} => fired = {}

LEMMA OpenTransactionStep ==
  ASSUME TypeOK, OpenTransaction, [Next]_vars
  PROVE  OpenTransaction'
<1>1. CASE Start \/ EnsureActiveSeason \/ Sleep \/ Stop
  BY <1>1 DEF OpenTransaction, Start, EnsureActiveSeason, Sleep, Stop
<1>2. CASE CastNobody \/ EndCast
  BY <1>2 DEF OpenTransaction, CastNobody, EndCast, Casting, Returned, NextMicro, EndMicros,
              AdvanceTick
<1>3. CASE CastRaises \/ SeasonCheckMissing \/ Fail
  BY <1>3 DEF OpenTransaction, CastRaises, SeasonCheckMissing, Fail, Raise
<1>4. CASE BeginCast \/ \E v \in Viewers : SendTo(v) \/ Join(v) \/ Leave(v)
  BY <1>4 DEF OpenTransaction, BeginCast, SendTo, Join, Leave, loop
<1>5. CASE RollEvents
  BY <1>5 DEF OpenTransaction, RollEvents
<1>6. CASE Economy \/ Commit \/ TellAgents
  BY <1>6 DEF OpenTransaction, Economy, Commit, TellAgents
<1>7. CASE Finished \/ UNCHANGED vars
  BY <1>7 DEF OpenTransaction, Finished, vars, memory, loop
<1> QED BY <1>1, <1>2, <1>3, <1>4, <1>5, <1>6, <1>7 DEF Next, Step, Environment

\* The steps by which the database moves on, and the position of the loop after the
\* commit.
LEMMA Committing ==
  ASSUME [Next]_vars
  PROVE  \/ /\ UNCHANGED <<committed, logged>>
            /\ pc' \in {"agents", "dashboard"} =>
                 pc \in {"agents", "dashboard"} /\ tick' = tick
         \/ Commit
  BY DEF Next, Step, Environment, Start, EnsureActiveSeason, Sleep, CastNobody, BeginCast,
         SendTo, EndCast, CastRaises, RollEvents, Economy, SeasonCheckMissing, Stop,
         TellAgents, Fail, Join, Leave, Raise, Finished, Returned, NextMicro, EndMicros,
         AdvanceTick, vars, memory, loop, database

\* What Commit does to the log of committed ticks.
LEMMA AppendTick ==
  ASSUME TypeOK, Commit
  PROVE  /\ committed' \in Seq(Nat) /\ Len(committed') = Len(committed) + 1
         /\ \A i \in 1..Len(committed) : committed'[i] = committed[i]
         /\ committed'[Len(committed')] = tick
         /\ tick' = tick
  BY DEF TypeOK, LoopType, WorldType, Commit

\* Only a commit begins a season that is not the first.
LEMMA SeasonMoves ==
  ASSUME [Next]_vars
  PROVE  Commit \/ season' = season \/ season'.num = 1
<1>1. EnsureActiveSeason \/ Commit \/ UNCHANGED season
  BY DEF Next, Step, Environment, Start, Sleep, CastNobody, BeginCast, SendTo, EndCast,
         CastRaises, RollEvents, Economy, SeasonCheckMissing, TellAgents, Stop, Fail, Join,
         Leave, Raise, Finished, vars, database
<1>2. EnsureActiveSeason => season' = season \/ season'.num = 1
  BY DEF EnsureActiveSeason
<1> QED BY <1>1, <1>2

LEMMA NothingOfAFailedTickStep ==
  ASSUME TypeOK, OpenTransaction, NothingOfAFailedTick, [Next]_vars
  PROVE  NothingOfAFailedTick'
<1>1. CASE Commit
  <2>1. logged' = logged \cup fired /\ \A x \in fired : x.start = tick
    BY <1>1 DEF Commit, OpenTransaction
  <2>2. ASSUME NEW x \in logged
        PROVE  \E i \in DOMAIN committed' : committed'[i] = x.start
    <3>1. PICK i \in DOMAIN committed : committed[i] = x.start
      BY DEF NothingOfAFailedTick
    <3>2. i \in 1..Len(committed)
      BY DEF TypeOK, WorldType
    <3>3. i \in DOMAIN committed' /\ committed'[i] = committed[i]
      BY <1>1, <3>2, AppendTick DEF TypeOK, WorldType
    <3> QED BY <3>1, <3>3
  <2>3. \A x \in fired : \E i \in DOMAIN committed' : committed'[i] = x.start
    BY <1>1, <2>1, AppendTick DEF TypeOK, WorldType
  <2>4. committed' # <<>> /\ committed'[Len(committed')] = tick'
    BY <1>1, AppendTick DEF TypeOK, WorldType
  <2>5. season'.num > 1 => \E i \in DOMAIN committed' : committed'[i] = season'.start
    <3>1. CASE season' = season
      <4>1. ASSUME season.num > 1
            PROVE  \E i \in DOMAIN committed' : committed'[i] = season.start
        <5>1. PICK i \in DOMAIN committed : committed[i] = season.start
          BY <4>1 DEF NothingOfAFailedTick
        <5>2. i \in 1..Len(committed)
          BY DEF TypeOK, WorldType
        <5>3. i \in DOMAIN committed' /\ committed'[i] = committed[i]
          BY <1>1, <5>2, AppendTick DEF TypeOK, WorldType
        <5> QED BY <5>1, <5>3
      <4> QED BY <3>1, <4>1
    <3>2. CASE season' # season
      <4>1. season'.start = tick
        BY <1>1, <3>2 DEF Commit, SeasonAfter
      <4>2. Len(committed') \in DOMAIN committed'
        BY <1>1, AppendTick DEF TypeOK, WorldType
      <4> QED BY <1>1, <4>1, <4>2, AppendTick
    <3> QED BY <3>1, <3>2
  <2> QED BY <2>1, <2>2, <2>3, <2>4, <2>5 DEF NothingOfAFailedTick
<1>2. CASE /\ UNCHANGED <<committed, logged>>
           /\ pc' \in {"agents", "dashboard"} =>
                pc \in {"agents", "dashboard"} /\ tick' = tick
  <2>1. season' = season \/ season'.num = 1
    <3>1. ~Commit
      <4>1. Commit => committed' = Append(committed, tick)
        BY DEF Commit
      <4>2. Append(committed, tick) # committed
        BY DEF TypeOK, WorldType, LoopType
      <4> QED BY <1>2, <4>1, <4>2
    <3> QED BY <3>1, SeasonMoves
  <2> QED BY <1>2, <2>1 DEF NothingOfAFailedTick
<1> QED BY <1>1, <1>2, Committing

LEMMA NoTickSkippedStep ==
  ASSUME TypeOK, NothingOfAFailedTick, NoTickSkipped, [Next]_vars
  PROVE  NoTickSkipped'
<1>1. CASE Commit
  <2>1. committed = <<>> => tick = 0
    BY DEF NoTickSkipped, TypeOK, LoopType
  <2>2. committed' # <<>> /\ committed'[1] = 0
    <3>1. CASE committed = <<>>
      BY <1>1, <2>1, <3>1, AppendTick
    <3>2. CASE committed # <<>>
      BY <1>1, <3>2, AppendTick DEF NoTickSkipped, TypeOK, WorldType
    <3> QED BY <3>1, <3>2
  <2>3. ASSUME NEW i \in 2..Len(committed')
        PROVE  committed'[i] \in {0, committed'[i - 1], committed'[i - 1] + 1}
    <3>1. CASE i \in 2..Len(committed)
      <4>1. i - 1 \in 1..Len(committed) /\ i \in 1..Len(committed)
        BY <3>1 DEF TypeOK, WorldType
      <4> QED BY <1>1, <3>1, <4>1, AppendTick DEF NoTickSkipped
    <3>2. CASE i = Len(committed) + 1
      <4>1. i - 1 = Len(committed) /\ Len(committed) \in 1..Len(committed)
        BY <3>2, <2>3 DEF TypeOK, WorldType
      <4>2. committed'[i] = tick /\ committed'[i - 1] = committed[Len(committed)]
        BY <1>1, <3>2, <4>1, AppendTick
      <4>3. tick = 0 \/ committed[Len(committed)] \in {tick - 1, tick}
        BY DEF NoTickSkipped, TypeOK, LoopType
      <4> QED BY <4>2, <4>3 DEF TypeOK, LoopType
    <3> QED BY <1>1, <3>1, <3>2, AppendTick DEF TypeOK, WorldType
  <2> QED BY <1>1, <2>2, <2>3, AppendTick DEF NoTickSkipped
<1>2. CASE UNCHANGED <<committed, tick>>
  BY <1>2 DEF NoTickSkipped
<1>3. CASE AdvanceTick /\ UNCHANGED committed
  <2>1. committed # <<>> /\ committed[Len(committed)] = tick' - 1
    BY <1>3 DEF AdvanceTick, NothingOfAFailedTick, TypeOK, LoopType
  <2> QED BY <1>3, <2>1 DEF NoTickSkipped
<1>4. CASE Stop
  BY <1>4 DEF Stop, NoTickSkipped, database
<1> QED BY <1>1, <1>2, <1>3, <1>4, TickMoves, Committing DEF database
\* The roller: what it adds to the events in effect.
LEMMA NoStackingStep ==
  ASSUME TypeOK, NoStacking, [Next]_vars
  PROVE  NoStacking'
<1>1. CASE RollEvents
  <2>1. PICK new \in SUBSET Events :
          /\ \A e \in new : \A x \in InEffect(tick) : CategoryOf(e) # CategoryOf(x.event)
          /\ \A e, f \in new : e # f => CategoryOf(e) # CategoryOf(f)
          /\ fired' = {[event |-> e, start |-> tick, until |-> tick + DurationOf(e)] : e \in new}
    BY <1>1 DEF RollEvents
  <2>2. active' = active \cup fired' /\ tick' = tick
    BY <1>1 DEF RollEvents
  <2>3. \A x \in fired' : x.event \in new /\ \A y \in fired' : x.event = y.event => x = y
    BY <2>1
  <2>4. \A x \in InEffect(tick)' : x \in InEffect(tick) \/ x \in fired'
    BY <2>2 DEF InEffect
  <2>5. ASSUME NEW x \in InEffect(tick)', NEW y \in InEffect(tick)',
               CategoryOf(x.event) = CategoryOf(y.event)
        PROVE  x = y
    <3>1. CASE x \in InEffect(tick) /\ y \in InEffect(tick)
      BY <2>5, <3>1 DEF NoStacking
    <3>2. CASE x \in fired' /\ y \in fired'
      BY <2>1, <2>3, <2>5, <3>2
    <3>3. CASE x \in InEffect(tick) /\ y \in fired'
      BY <2>1, <2>3, <2>5, <3>3
    <3>4. CASE x \in fired' /\ y \in InEffect(tick)
      BY <2>1, <2>3, <2>5, <3>4
    <3> QED BY <2>4, <3>1, <3>2, <3>3, <3>4
  <2> QED BY <2>5 DEF NoStacking, InEffect
<1>2. CASE UNCHANGED <<active, tick>>
  BY <1>2 DEF NoStacking, InEffect
<1>3. CASE AdvanceTick /\ UNCHANGED active
  <2>1. tick' = tick + 1 /\ tick \in Nat
    BY <1>3 DEF AdvanceTick, TypeOK, LoopType
  <2>2. \A x \in InEffect(tick)' : x \in InEffect(tick)
    <3> SUFFICES ASSUME NEW x \in active, x.until > tick + 1 PROVE x.until > tick
      BY <1>3, <2>1 DEF InEffect
    <3>1. x.until \in Nat
      BY DEF TypeOK, EventType, Rows
    <3> QED BY <2>1, <3>1
  <2> QED BY <2>2 DEF NoStacking
<1>4. CASE Stop
  BY <1>4 DEF Stop, NoStacking, InEffect
<1>5. RollEvents \/ UNCHANGED active \/ Stop
  BY DEF Next, Step, Environment, Start, EnsureActiveSeason, Sleep, CastNobody, BeginCast,
         SendTo, EndCast, CastRaises, Economy, SeasonCheckMissing, Commit, TellAgents, Fail,
         Join, Leave, Raise, Finished, vars, memory
<1> QED BY <1>1, <1>2, <1>3, <1>4, <1>5, TickMoves

LEMMA SeasonNotOverdueStep ==
  ASSUME TypeOK, SeasonNotOverdue, [Next]_vars
  PROVE  SeasonNotOverdue'
<1>1. CASE EnsureActiveSeason
  <2>1. pc' = pc /\ tick' = tick /\ season' \in {season, [num |-> 1, start |-> tick, end |-> tick + SeasonTicks]}
    BY <1>1 DEF EnsureActiveSeason
  <2>2. season = NoSeason \/ season' = season
    BY <1>1 DEF EnsureActiveSeason
  <2>3. tick < tick + SeasonTicks
    BY TickAssumption DEF TypeOK, LoopType
  <2> QED BY <2>1, <2>2, <2>3 DEF SeasonNotOverdue
<1>2. CASE Commit
  <2>1. season' = SeasonAfter(tick) /\ tick' = tick
    BY <1>2 DEF Commit
  <2>2. SeasonAfter(tick) = NoSeason \/ tick < SeasonAfter(tick).end
    BY TickAssumption DEF SeasonAfter, TypeOK, LoopType, WorldType, Seasons
  <2> QED BY <2>1, <2>2 DEF SeasonNotOverdue
<1>3. CASE UNCHANGED season /\ ~Commit
  BY <1>3, Committing DEF SeasonNotOverdue
<1>4. EnsureActiveSeason \/ Commit \/ UNCHANGED season
  BY DEF Next, Step, Environment, Start, Sleep, CastNobody, BeginCast, SendTo, EndCast,
         CastRaises, RollEvents, Economy, SeasonCheckMissing, TellAgents, Stop, Fail, Join,
         Leave, Raise, Finished, vars, database
<1> QED BY <1>1, <1>2, <1>3, <1>4

-----------------------------------------------------------------------------
TickInv ==
  OpenTransaction /\ NothingOfAFailedTick /\ NoTickSkipped /\ NoStacking /\ SeasonNotOverdue

\* The five together are inductive, given the types.
THEOREM TickInvariant == Spec => []TickInv
<1>1. Init => TickInv
  BY DEF Init, TickInv, OpenTransaction, NothingOfAFailedTick, NoTickSkipped, NoStacking,
         InEffect, SeasonNotOverdue, NoSeason
<1>2. TypeOK /\ TickInv /\ [Next]_vars => TickInv'
  BY OpenTransactionStep, NothingOfAFailedTickStep, NoTickSkippedStep, NoStackingStep,
     SeasonNotOverdueStep
  DEF TickInv
<1> QED BY <1>1, <1>2, TickTypeOK, PTL DEF Spec

\* Two world events in effect never share a category, whatever ticks failed and rolled
\* again (roll_events: "events of the same category cannot stack").
THEOREM EventsDoNotStack == Spec => []NoStacking
<1>1. TickInv => NoStacking
  BY DEF TickInv
<1> QED BY <1>1, TickInvariant, PTL

\* No tick's economy is left out, in spite of failures on either side of the commit.
THEOREM TicksAreCommittedInOrder == Spec => []NoTickSkipped
<1>1. TickInv => NoTickSkipped
  BY DEF TickInv
<1> QED BY <1>1, TickInvariant, PTL

\* A tick that fails before its commit leaves no event behind in the database.
THEOREM FailedTicksLeaveNothing == Spec => []NothingOfAFailedTick
<1>1. TickInv => NothingOfAFailedTick
  BY DEF TickInv
<1> QED BY <1>1, TickInvariant, PTL

\* A tick is announced only in a season that has not ended.
THEOREM SeasonsEndInTime == Spec => []SeasonNotOverdue
<1>1. TickInv => SeasonNotOverdue
  BY DEF TickInv
<1> QED BY <1>1, TickInvariant, PTL
-----------------------------------------------------------------------------
(* How often the economy of a tick is run.                                 *)

\* A broadcast is under way that will raise.
Late == IF cast # NoCast /\ SizeChanged THEN 1 ELSE 0

\* The repetitions that the disturbances so far have caused already: a failure and a
\* restart cause one each; a viewer causes one by joining and one by leaving, and the
\* second is still to come while it is connected, as is that of a broadcast that will raise.
Repeats == spent.failures + spent.restarts + 2 * spent.joins - Cardinality(viewers) - Late

\* The loop has yet to commit tick t (t is the tick it is at, before the commit, or later).
Undone(t) == t >= tick /\ (pc \in {"agents", "dashboard"} => t # tick)

\* A tick that is still to be committed has been committed Repeats times at most, any
\* other at most once more.
RepeatsPaid ==
  \A t \in Nat : Times(t) <= IF Undone(t) THEN Repeats ELSE Repeats + 1

LEMMA TimesType ==
  ASSUME TypeOK, NEW t
  PROVE  Times(t) \in Nat /\ IsFiniteSet({i \in DOMAIN committed : committed[i] = t})
<1>1. DOMAIN committed = 1..Len(committed) /\ Len(committed) \in Nat
  BY DEF TypeOK, WorldType
<1>2. IsFiniteSet(1..Len(committed))
  BY <1>1, FS_Interval
<1>3. IsFiniteSet({i \in DOMAIN committed : committed[i] = t})
  BY <1>1, <1>2, FS_Subset
<1> QED BY <1>3, FS_CardinalityType DEF Times

LEMMA RepeatsType ==
  ASSUME TypeOK, IsFiniteSet(viewers)
  PROVE  Repeats \in Int /\ Late \in {0, 1} /\ Cardinality(viewers) \in Nat
<1>1. Cardinality(viewers) \in Nat
  BY FS_CardinalityType
<1> QED BY <1>1 DEF TypeOK, SpentType, Repeats, Late

\* The commit counts its tick once more, and no other.
LEMMA TimesAfterCommit ==
  ASSUME TypeOK, Commit, NEW t \in Nat
  PROVE  Times(t)' = IF t = tick THEN Times(t) + 1 ELSE Times(t)
<1> DEFINE n == Len(committed)
           at == {i \in DOMAIN committed : committed[i] = t}
<1>1. /\ n \in Nat /\ Len(committed') = n + 1
      /\ DOMAIN committed = 1..n /\ DOMAIN committed' = 1..(n + 1)
  BY AppendTick DEF TypeOK, WorldType
<1>2. /\ \A i \in 1..n : committed'[i] = committed[i]
      /\ committed'[n + 1] = tick
  BY <1>1, AppendTick
<1>3. CASE t = tick
  <2>1. {i \in DOMAIN committed' : committed'[i] = t} = at \cup {n + 1}
    <3>1. \A i \in 1..(n + 1) : i \in 1..n \/ i = n + 1
      BY <1>1
    <3>2. n + 1 \in 1..(n + 1) /\ 1..n \subseteq 1..(n + 1)
      BY <1>1
    <3>3. n + 1 \in DOMAIN committed' /\ committed'[n + 1] = t
      BY <1>1, <1>2, <1>3, <3>2
    <3>4. ASSUME NEW i \in 1..n
          PROVE  i \in DOMAIN committed' /\ (committed'[i] = t <=> i \in at)
      BY <1>1, <1>2, <3>2
    <3>5. at \subseteq 1..n
      BY <1>1
    <3> HIDE DEF at
    <3> QED BY <1>1, <3>1, <3>3, <3>4, <3>5, Zenon
  <2>2. n + 1 \notin at /\ IsFiniteSet(at)
    <3>1. IsFiniteSet(at)
      BY TimesType
    <3>2. at \subseteq 1..n /\ n + 1 \notin 1..n
      BY <1>1
    <3> QED BY <3>1, <3>2
  <2>3. Cardinality(at \cup {n + 1}) = Cardinality(at) + 1
    BY <2>2, FS_AddElement
  <2> QED BY <1>3, <2>1, <2>3 DEF Times
<1>4. CASE t # tick
  <2>1. {i \in DOMAIN committed' : committed'[i] = t} = at
    BY <1>1, <1>2, <1>4
  <2> QED BY <1>4, <2>1 DEF Times
<1> QED BY <1>3, <1>4

\* No step forgets a repetition, and one that gives up the tick under way has caused one.
LEMMA RepeatsGrow ==
  ASSUME TypeOK, IsFiniteSet(viewers), IsFiniteSet(viewers)', SpentType', [Next]_vars
  PROVE  /\ Repeats' >= Repeats
         /\ Stop \/ Fail \/ CastRaises => Repeats' >= Repeats + 1
<1> DEFINE n == Cardinality(viewers)
           paid == spent.failures + spent.restarts + 2 * spent.joins
<1>1. n \in Nat /\ n' \in Nat /\ Late \in {0, 1} /\ Late' \in {0, 1}
  BY FS_CardinalityType DEF Late
<1>2. /\ Repeats = paid - n - Late /\ Repeats' = paid' - n' - Late'
      /\ paid \in Nat /\ paid' \in Nat
  <2>1. \A f, r, j \in Nat : f + r + 2 * j \in Nat
    OBVIOUS
  <2>2. paid \in Nat /\ paid' \in Nat
    BY <2>1 DEF TypeOK, SpentType
  <2>3. \A f, r, j, k, l \in Nat : f + r + 2 * j - k - l = (f + r + 2 * j) - k - l
    OBVIOUS
  <2>4. Repeats = paid - n - Late /\ Repeats' = paid' - n' - Late'
    BY <1>1, <2>3 DEF Repeats, TypeOK, SpentType
  <2> QED BY <2>2, <2>4
<1>3. spent \in [failures : Nat, restarts : Nat, joins : Nat]
  BY DEF TypeOK, SpentType
<1>4. CASE Stop
  <2>1. paid' = paid + 1
    BY <1>3, <1>4 DEF Stop
  <2>2. n' = 0 /\ Late' = 0
    BY <1>4, FS_EmptySet DEF Stop, Late
  <2> QED BY <1>1, <1>2, <2>1, <2>2
<1>5. CASE Fail
  <2>1. paid' = paid + 1
    BY <1>3, <1>5 DEF Fail
  <2>2. n' = n /\ Late' = 0
    BY <1>5 DEF Fail, Raise, Late
  <2> QED BY <1>1, <1>2, <2>1, <2>2
<1>6. CASE CastRaises
  <2>1. paid' = paid /\ n' = n /\ Late = 1 /\ Late' = 0
    BY <1>6 DEF CastRaises, Raise, Late
  <2> QED BY <1>1, <1>2, <2>1
<1>7. CASE \E v \in Viewers : Join(v)
  <2>1. PICK v \in Viewers : Join(v)
    BY <1>7
  <2>2. paid' = paid + 2
    BY <1>3, <2>1 DEF Join
  <2>3. n' = n + 1
    BY <2>1, FS_AddElement DEF Join
  <2>4. Repeats' >= Repeats
    BY <1>1, <1>2, <2>2, <2>3
  <2> QED BY <2>4, <1>4, <1>5, <1>6
<1>8. CASE \E v \in Viewers : Leave(v)
  <2>1. PICK v \in Viewers : Leave(v)
    BY <1>8
  <2>2. paid' = paid
    BY <2>1 DEF Leave
  <2>3. n' = n - 1
    BY <2>1, FS_RemoveElement DEF Leave
  <2>4. Repeats' >= Repeats
    BY <1>1, <1>2, <2>2, <2>3
  <2> QED BY <2>4, <1>4, <1>5, <1>6
<1>9. CASE EndCast
  <2>1. paid' = paid /\ Late' = 0 /\ viewers' \subseteq viewers
    BY <1>9 DEF EndCast, Late
  <2>2. n' <= n
    BY <2>1, FS_Subset
  <2>3. Repeats' >= Repeats
    BY <1>1, <1>2, <2>1, <2>2
  <2> QED BY <2>3, <1>4, <1>5, <1>6
<1>10. CASE UNCHANGED <<viewers, spent>> /\ Late' <= Late
  <2>1. Repeats' >= Repeats
    BY <1>1, <1>2, <1>10
  <2> QED BY <2>1, <1>4, <1>5, <1>6
<1>11. ASSUME ~(Stop \/ Fail \/ CastRaises \/ EndCast),
              ~ \E v \in Viewers : Join(v) \/ Leave(v)
       PROVE  UNCHANGED <<viewers, spent>> /\ Late' <= Late
  <2>1. CASE SeasonCheckMissing
    BY <2>1, <1>1 DEF SeasonCheckMissing, Raise, Late
  <2>2. CASE BeginCast
    BY <2>2, <1>1 DEF BeginCast, Late, SizeChanged
  <2>3. CASE \E v \in Viewers : SendTo(v)
    <3>1. viewers' = viewers /\ spent' = spent /\ cast'.size = cast.size /\ ~SizeChanged
      BY <2>3 DEF SendTo, TypeOK, CastType
    <3> QED BY <3>1, <1>1 DEF Late, SizeChanged
  <2>4. CASE UNCHANGED <<viewers, cast, spent>>
    BY <2>4, <1>1 DEF Late, SizeChanged
  <2> QED
    BY <1>11, <2>1, <2>2, <2>3, <2>4
    DEF Next, Step, Environment, Start, EnsureActiveSeason, Sleep, CastNobody, RollEvents,
        Economy, Commit, TellAgents, Finished, vars, memory
<1> QED BY <1>4, <1>5, <1>6, <1>7, <1>8, <1>9, <1>10, <1>11

\* A tick that was done stays done unless the step gives it up.
LEMMA DoneStaysDone ==
  ASSUME TypeOK, [Next]_vars, ~(Stop \/ Fail \/ CastRaises), NEW t \in Nat, Undone(t)'
  PROVE  Undone(t)
<1>1. tick \in Nat
  BY DEF TypeOK, LoopType
<1>2. CASE UNCHANGED <<pc, tick>>
  BY <1>2 DEF Undone
<1>3. CASE AdvanceTick
  BY <1>1, <1>3 DEF Undone, AdvanceTick
<1>4. CASE tick' = tick /\ (pc \in {"agents", "dashboard"} => pc' \in {"agents", "dashboard"})
  BY <1>4 DEF Undone
<1> QED
  BY <1>2, <1>3, <1>4
  DEF Next, Step, Environment, Start, EnsureActiveSeason, Sleep, CastNobody, BeginCast,
      SendTo, EndCast, RollEvents, Economy, SeasonCheckMissing, Commit, TellAgents, Join,
      Leave, Raise, Finished, Returned, NextMicro, EndMicros, vars, memory, loop

LEMMA RepeatsPaidStep ==
  ASSUME TypeOK, IsFiniteSet(viewers), TypeOK', IsFiniteSet(viewers)', RepeatsPaid, [Next]_vars
  PROVE  RepeatsPaid'
<1> SUFFICES ASSUME NEW t \in Nat
             PROVE  Times(t)' <= IF Undone(t)' THEN Repeats' ELSE Repeats' + 1
  BY DEF RepeatsPaid
<1>1. /\ Times(t) \in Nat /\ Repeats \in Int /\ Repeats' \in Int
      /\ Times(t) <= IF Undone(t) THEN Repeats ELSE Repeats + 1
  <2>1. Repeats \in Int /\ Repeats' \in Int
    <3>1. Cardinality(viewers)' \in Nat /\ Late' \in {0, 1}
      BY FS_CardinalityType DEF Late
    <3> QED BY <3>1, RepeatsType DEF Repeats, TypeOK, SpentType
  <2>2. Times(t) \in Nat
    BY TimesType
  <2> QED BY <2>1, <2>2 DEF RepeatsPaid
<1>2. Repeats' >= Repeats /\ (Stop \/ Fail \/ CastRaises => Repeats' >= Repeats + 1)
  BY RepeatsGrow DEF TypeOK
<1>3. CASE Commit
  <2>1. Times(t)' = IF t = tick THEN Times(t) + 1 ELSE Times(t)
    BY <1>3, TimesAfterCommit
  <2>2. (t = tick => Undone(t) /\ ~Undone(t)') /\ (Undone(t)' => Undone(t))
    BY <1>3 DEF Commit, Undone, TypeOK, LoopType
  <2> QED BY <1>1, <1>2, <2>1, <2>2
<1>4. CASE UNCHANGED committed
  <2>1. Times(t)' = Times(t)
    BY <1>4 DEF Times
  <2>2. CASE Stop \/ Fail \/ CastRaises
    BY <1>1, <1>2, <2>1, <2>2
  <2>3. CASE ~(Stop \/ Fail \/ CastRaises)
    <3>1. Undone(t)' => Undone(t)
      BY <2>3, DoneStaysDone
    <3> QED BY <1>1, <1>2, <2>1, <3>1
  <2> QED BY <2>2, <2>3
<1> QED BY <1>3, <1>4, Committing

\* However failures, restarts and viewers that come and go fall, the economy of a tick is
\* run again at most once for each of them, twice for a viewer.
THEOREM DisturbancesBoundRepetition == Spec => []EachDisturbanceRedoesATickOnce
<1>1. Init => RepeatsPaid
  <2> SUFFICES ASSUME Init, NEW t \in Nat PROVE Times(t) = 0 /\ Repeats = 0
    BY DEF RepeatsPaid
  <2>1. committed = <<>> /\ viewers = {} /\ cast = NoCast
    BY DEF Init
  <2>2. {i \in DOMAIN committed : committed[i] = t} = {}
    BY <2>1
  <2>3. Times(t) = 0 /\ Cardinality(viewers) = 0 /\ Late = 0
    BY <2>1, <2>2, FS_EmptySet DEF Times, Late
  <2> QED BY <2>3 DEF Init, Repeats
<1>2. TypeOK /\ IsFiniteSet(viewers) /\ RepeatsPaid => EachDisturbanceRedoesATickOnce
  <2> SUFFICES ASSUME TypeOK, IsFiniteSet(viewers), RepeatsPaid, NEW i \in DOMAIN committed
               PROVE  Times(committed[i]) <= 1 + spent.failures + spent.restarts + 2 * spent.joins
    BY DEF EachDisturbanceRedoesATickOnce
  <2>1. committed[i] \in Nat
    BY DEF TypeOK, WorldType
  <2>2. Times(committed[i]) \in Nat /\ Times(committed[i]) <= Repeats + 1 /\ Repeats \in Int
    <3>1. Repeats \in Int
      BY RepeatsType
    <3>2. Times(committed[i]) \in Nat
      BY TimesType
    <3> QED BY <2>1, <3>1, <3>2 DEF RepeatsPaid
  <2>3. Late \in {0, 1} /\ Cardinality(viewers) \in Nat
    BY RepeatsType
  <2> QED BY <2>2, <2>3 DEF Repeats, TypeOK, SpentType
<1>3. /\ TypeOK /\ IsFiniteSet(viewers) /\ (TypeOK /\ IsFiniteSet(viewers))'
      /\ RepeatsPaid /\ [Next]_vars
      => RepeatsPaid'
  BY RepeatsPaidStep
<1> QED BY <1>1, <1>2, <1>3, TickTypes, PTL DEF Spec
=============================================================================
