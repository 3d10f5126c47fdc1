--------------------------- MODULE SessionsProofs ---------------------------
(***************************************************************************)
(* Theorems of Sessions, for any number of agents, of requests and of      *)
(* ticks at once.                                                          *)
(***************************************************************************)
EXTENDS Sessions, SumLemmas, TLAPS

AtWork == {"reading", "flushing"}

Stages == {"idle", "reading", "flushing", "counting", "inserting", "inserted"} \cup Final

(* ------------------------------ invariant -------------------------------- *)

Typed ==
  /\ amount \in [Agents -> Int] /\ due \in [Agents -> Int]
  /\ rows \in [Tables -> Nat]
  /\ lock \in [Agents -> Sessions \cup {Free}]
  /\ pc \in [Sessions -> Stages]
  /\ plan \in [Sessions -> Seq(Phases)]
  /\ table \in [Sessions -> Tables]
  /\ view \in [Sessions -> [Agents -> Int \cup {Unread}]]
  /\ dirty \in [Sessions -> SUBSET Agents]
  /\ effect \in [Sessions -> [Agents -> Int]]
  /\ fines \in [Agents -> Nat] /\ fined \in [Sessions -> [Agents -> Nat]]
  /\ overlapped \subseteq Agents /\ contended \subseteq Tables

\* A session at work has a phase to do; what it has changed or locked it has read.
Copies ==
  /\ \A s \in Sessions : pc[s] \in AtWork => plan[s] # <<>>
  /\ \A s \in Sessions : pc[s] # "flushing" => dirty[s] = {}
  /\ \A s \in Sessions : \A a \in dirty[s] : view[s][a] # Unread
  /\ \A a \in Agents : lock[a] # Free => pc[lock[a]] \in AtWork /\ view[lock[a]][a] # Unread

\* Committed amounts and copies of them are overdrawn by no more than fines.
Backed ==
  /\ \A a \in Agents : amount[a] >= -fines[a]
  /\ \A s \in Sessions, a \in Agents :
       view[s][a] # Unread => view[s][a] >= -(fines[a] + fined[s][a])

\* A row only one open session has read is what the history makes it, and the copy is that
\* and the effect of the session.  What a session has changed it will write, or holds locked.
Effects ==
  /\ \A s \in Sessions, a \in Agents : effect[s][a] # 0 => lock[a] = s \/ a \in dirty[s]
  /\ \A a \in Agents \ overlapped :
       /\ amount[a] = due[a]
       /\ \A s \in Sessions : view[s][a] # Unread => view[s][a] = amount[a] + effect[s][a]
       /\ \A r, s \in Sessions : view[r][a] # Unread /\ view[s][a] # Unread => r = s

Invariant == Typed /\ Copies

LEMMA Apart == Free \notin Sessions /\ Unread \notin Int /\ Agents \subseteq Int
BY SessionsAssumption DEF Sessions, Agents

USE DEF history

LEMMA StagesApart ==
  /\ AtWork \subseteq Stages /\ Final \subseteq Stages
  /\ AtWork \cap Final = {} /\ AtWork \cap Inserting = {}
  /\ Inserting \cap Final = {} /\ Inserting \subseteq Stages
BY DEF AtWork, Stages, Final, Inserting

\* The phase a session is in changes numbers, and rows that it has read.
LEMMA PhaseOf ==
  ASSUME Invariant, NEW s \in Sessions, pc[s] \in AtWork
  PROVE  /\ Head(plan[s]) \in Phases
         /\ Doing(s) \in [Agents -> Int]
         /\ \A a \in Agents : Doing(s)[a] # 0 => a \in Touched(s)
         /\ Fining(s) \in [Agents -> Nat]
<1>1. plan[s] \in Seq(Phases) /\ plan[s] # <<>>
  BY DEF Invariant, Typed, Copies
<1>2. Head(plan[s]) \in Phases
  BY <1>1
<1>3. Head(plan[s]).change \in [Agents -> Int]
  BY <1>2 DEF Phases
<1>4. NoEffect \in [Agents -> Int] /\ \A a \in Agents : NoEffect[a] = 0
  BY DEF NoEffect
<1>5. Doing(s) \in [Agents -> Int]
  BY <1>3, <1>4 DEF Doing
<1>6. \A a \in Agents : Doing(s)[a] # 0 => a \in Touched(s)
  BY <1>4 DEF Doing, Touched
<1>7. Fining(s) \in [Agents -> Nat]
  <2>1. ASSUME NEW a \in Agents, Doing(s)[a] < 0 PROVE -Doing(s)[a] \in Nat
    BY <1>5, <2>1
  <2> QED  BY <2>1 DEF Fining
<1> QED  BY <1>2, <1>5, <1>6, <1>7

\* What a session is about to do is a sequence of phases.
LEMMA PlansAreSequences ==
  /\ \A f \in RequestPhases : <<f>> \in Seq(Phases) /\ <<f>> # <<>>
  /\ \A p \in TickPlans : p \in Seq(Phases) /\ p # <<>>
<1>1. ASSUME NEW f \in [Agents -> Int], NEW how \in {"refuse", "skip", "force"}
      PROVE  Phase(f, how) \in Phases
  BY DEF Phase, Phases
<1>2. ASSUME NEW a, NEW n \in Int PROVE Change(a, n) \in [Agents -> Int]
  BY DEF Change
<1>3. ASSUME NEW a, NEW b, NEW n \in Int PROVE Move(a, b, n) \in [Agents -> Int]
  BY DEF Move
<1>4. RequestPhases \subseteq Phases
  <2>1. ASSUME NEW a \in Agents, NEW n \in {-1, 1} PROVE Phase(Change(a, n), "refuse") \in Phases
    BY <1>1, <1>2
  <2>2. ASSUME NEW a \in Agents, NEW b \in Agents PROVE Phase(Move(a, b, 1), "refuse") \in Phases
    BY <1>1, <1>3
  <2> QED  BY <2>1, <2>2 DEF RequestPhases
<1>5. Nothing \in Phases /\ Income \in Phases
  BY <1>1 DEF Nothing, Income, NoEffect
<1>6. Sales \subseteq Phases
  <2>1. ASSUME NEW a \in Sellers PROVE Phase(Change(a, 1), "force") \in Phases
    BY <1>1, <1>2
  <2> QED  BY <2>1 DEF Sales
<1>7. Verdicts \subseteq Phases
  <2>1. ASSUME NEW c \in Judged PROVE Phase(Move(c[1], c[2], c[3]), "force") \in Phases
    <3>1. c[3] \in Int
      BY SessionsAssumption
    <3> QED  BY <1>1, <1>3, <3>1
  <2> QED  BY <1>5, <2>1 DEF Verdicts
<1>8. Salaries \subseteq Phases
  <2>1. ASSUME NEW c \in Employed PROVE Phase(Move(c[1], c[2], 1), "skip") \in Phases
    BY <1>1, <1>3
  <2> QED  BY <1>5, <2>1 DEF Salaries
<1>9. \A f \in Phases : <<f>> \in Seq(Phases) /\ <<f>> # <<>>
  OBVIOUS
<1>10. \A f, g, h, k \in Phases : <<f, g, h, k>> \in Seq(Phases) /\ <<f, g, h, k>> # <<>>
  OBVIOUS
<1>11. ASSUME NEW p \in TickPlans PROVE p \in Seq(Phases) /\ p # <<>>
  <2>1. PICK f \in Sales, g \in Verdicts, k \in Salaries : p = <<f, g, Income, k>>
    BY <1>11 DEF TickPlans
  <2> QED  BY <1>5, <1>6, <1>7, <1>8, <1>10, <2>1
<1> QED  BY <1>4, <1>9, <1>11

(* ------------------------- types and copies ------------------------------ *)

LEMMA OpenStep ==
  ASSUME Invariant, NEW s \in Sessions, NEW p \in Seq(Phases), p # <<>>, Open(s, p)
  PROVE  Invariant'
<1>1. Typed'
  BY DEF Invariant, Typed, Open, Stages
<1>2. Copies'
  BY Apart DEF Invariant, Typed, Copies, Open, AtWork
<1> QED  BY <1>1, <1>2 DEF Invariant

LEMMA ReadStep ==
  ASSUME Invariant, NEW s \in Sessions, NEW a \in Agents, Read(s, a)
  PROVE  Invariant'
<1>1. Typed'
  BY DEF Invariant, Typed, Read, Stages
<1>2. Copies'
  BY Apart DEF Invariant, Typed, Copies, Read, AtWork
<1> QED  BY <1>1, <1>2 DEF Invariant

LEMMA ComputeStep ==
  ASSUME Invariant, NEW s \in Sessions, Compute(s)
  PROVE  Invariant'
<1> DEFINE f == Doing(s)
           changed == {a \in Agents : f[a] # 0}
<1>1. f \in [Agents -> Int] /\ Fining(s) \in [Agents -> Nat] /\ changed \subseteq Touched(s)
  BY PhaseOf DEF Compute, AtWork
<1>2. \A a \in changed : view[s][a] \in Int
  BY <1>1 DEF Compute, AllRead, Touched, Invariant, Typed
<1>3. /\ view[s] \in [Agents -> Int \cup {Unread}] /\ effect[s] \in [Agents -> Int]
      /\ fined[s] \in [Agents -> Nat]
  BY DEF Invariant, Typed
<1> DEFINE v == [a \in Agents |-> IF f[a] # 0 THEN view[s][a] + f[a] ELSE view[s][a]]
           e == [a \in Agents |-> effect[s][a] + f[a]]
           t == [a \in Agents |-> fined[s][a] + Fining(s)[a]]
<1>4. /\ pc' = [pc EXCEPT ![s] = "flushing"] /\ pc[s] = "reading"
      /\ view' = [view EXCEPT ![s] = v]
      /\ effect' = [effect EXCEPT ![s] = e]
      /\ fined' = [fined EXCEPT ![s] = t]
      /\ dirty' = [dirty EXCEPT ![s] = changed]
      /\ UNCHANGED <<amount, rows, lock, plan, table, due, fines, overlapped, contended>>
  BY DEF Compute, Invariant, Typed
<1> HIDE DEF f
<1>5. v \in [Agents -> Int \cup {Unread}]
      /\ \A a \in Agents : (view[s][a] # Unread \/ a \in changed) => v[a] # Unread
  <2>1. ASSUME NEW a \in changed PROVE view[s][a] + f[a] \in Int
    BY <1>1, <1>2
  <2> QED  BY <2>1, <1>2, <1>3, Apart
<1>6. e \in [Agents -> Int]
  <2>1. ASSUME NEW a \in Agents PROVE effect[s][a] + f[a] \in Int
    BY <1>1, <1>3
  <2> QED  BY <2>1
<1>7. t \in [Agents -> Nat]
  <2>1. ASSUME NEW a \in Agents PROVE fined[s][a] + Fining(s)[a] \in Nat
    BY <1>1, <1>3
  <2> QED  BY <2>1
<1>8. changed \subseteq Agents
  OBVIOUS
<1> HIDE DEF v, e, t, changed
<1>9. Typed'
  BY <1>4, <1>5, <1>6, <1>7, <1>8 DEF Invariant, Typed, Stages
<1>10. Copies'
  BY <1>4, <1>5, <1>8, Apart DEF Invariant, Typed, Copies, AtWork
<1> QED  BY <1>9, <1>10 DEF Invariant

LEMMA FlushStep ==
  ASSUME Invariant, NEW s \in Sessions, NEW a \in Agents, Flush(s, a)
  PROVE  Invariant'
<1>1. /\ a \in dirty[s] /\ pc[s] = "flushing" /\ s # Free
      /\ lock' = [lock EXCEPT ![a] = s] /\ dirty' = [dirty EXCEPT ![s] = dirty[s] \ {a}]
      /\ UNCHANGED <<amount, rows, pc, plan, table, view, history, contended>>
  BY Apart DEF Flush, Wants
<1>2. Typed'
  BY <1>1 DEF Invariant, Typed
<1>3. \A r \in Sessions : dirty'[r] \subseteq dirty[r]
  BY <1>1 DEF Invariant, Typed
<1>4. ASSUME NEW b \in Agents, lock'[b] # Free
      PROVE  pc[lock'[b]] \in AtWork /\ view[lock'[b]][b] # Unread
  <2>1. CASE b = a
    BY <1>1, <2>1 DEF Invariant, Typed, Copies, AtWork
  <2>2. CASE b # a
    BY <1>1, <1>4, <2>2 DEF Invariant, Typed, Copies
  <2> QED  BY <2>1, <2>2
<1>5. Copies'
  BY <1>1, <1>3, <1>4 DEF Invariant, Copies
<1> QED  BY <1>2, <1>5 DEF Invariant

LEMMA NextPhaseStep ==
  ASSUME Invariant, NEW s \in Sessions, NextPhase(s)
  PROVE  Invariant'
<1>1. Tail(plan[s]) \in Seq(Phases) /\ Tail(plan[s]) # <<>>
  <2>1. plan[s] \in Seq(Phases) /\ Len(plan[s]) > 1
    BY DEF NextPhase, Invariant, Typed
  <2>2. \A q \in Seq(Phases) : Len(q) > 1 => Tail(q) \in Seq(Phases) /\ Len(Tail(q)) > 0
    OBVIOUS
  <2>3. Tail(plan[s]) \in Seq(Phases) /\ Len(Tail(plan[s])) > 0
    BY <2>1, <2>2
  <2>4. Tail(plan[s]) # <<>>
    <3>1. Len(<<>>) = 0 /\ ~(0 > 0)
      OBVIOUS
    <3> QED  BY <2>3, <3>1, Zenon
  <2> QED  BY <2>3, <2>4
<1>2. Typed'
  BY <1>1 DEF NextPhase, Invariant, Typed, Stages
<1>3. Copies'
  BY <1>1, Apart DEF NextPhase, Flushed, Invariant, Typed, Copies, AtWork
<1> QED  BY <1>2, <1>3 DEF Invariant

\* The end of a session, whatever it does to the rows that are committed.
LEMMA CloseStep ==
  ASSUME Invariant, NEW s \in Sessions, NEW how \in Final, Close(s, how),
         amount' \in [Agents -> Int], due' \in [Agents -> Int], fines' \in [Agents -> Nat],
         UNCHANGED <<rows, table, overlapped, contended>>
  PROVE  Invariant'
<1>1. NothingRead \in [Agents -> Int \cup {Unread}] /\ NoEffect \in [Agents -> Nat]
  BY DEF NothingRead, NoEffect
<1>2. <<>> \in Seq(Phases) /\ how \in Stages /\ how \notin AtWork
  BY StagesApart
<1>3. Typed'
  BY <1>1, <1>2 DEF Invariant, Typed, Close
<1>4. Copies'
  BY <1>2, Apart DEF Invariant, Typed, Copies, Close, AtWork
<1> QED  BY <1>3, <1>4 DEF Invariant

\* Who commits writes copies, which are numbers.
LEMMA CommitTyped ==
  ASSUME Invariant, NEW s \in Sessions, Commit(s)
  PROVE  amount' \in [Agents -> Int] /\ due' \in [Agents -> Int] /\ fines' \in [Agents -> Nat]
<1>1. ASSUME NEW a \in Agents, lock[a] = s PROVE view[s][a] \in Int
  BY <1>1, Apart DEF Invariant, Typed, Copies
<1>2. amount' = [a \in Agents |-> IF lock[a] = s THEN view[s][a] ELSE amount[a]]
  BY DEF Commit
<1>3. amount' \in [Agents -> Int]
  BY <1>1, <1>2 DEF Invariant, Typed
<1>4. due' = [a \in Agents |-> due[a] + effect[s][a]]
  BY DEF Commit
<1>5. due' \in [Agents -> Int]
  BY <1>4 DEF Invariant, Typed
<1>6. fines' = [a \in Agents |-> fines[a] + fined[s][a]]
  BY DEF Commit
<1>7. fines' \in [Agents -> Nat]
  BY <1>6 DEF Invariant, Typed
<1> QED  BY <1>3, <1>5, <1>7

LEMMA InsertSteps ==
  ASSUME Invariant, NEW s \in Sessions, NEW t \in Tables,
         OpenInsert(s, t) \/ Count(s) \/ Insert(s) \/ CommitInsert(s)
  PROVE  Invariant'
<1>1. PICK to \in Stages \ AtWork : pc' = [pc EXCEPT ![s] = to]
  BY DEF OpenInsert, Count, Insert, CommitInsert, Stages, AtWork, Final
<1>2. pc[s] \notin AtWork
  BY DEF OpenInsert, Count, Insert, CommitInsert, AtWork
<1>3. UNCHANGED <<amount, lock, plan, view, dirty, history>>
  BY DEF OpenInsert, Count, Insert, CommitInsert
<1>4. table' \in [Sessions -> Tables] /\ contended' \subseteq Tables
  BY DEF OpenInsert, Count, Insert, CommitInsert, Invariant, Typed
<1>5. rows' \in [Tables -> Nat]
  <2>1. CASE CommitInsert(s)
    BY <2>1 DEF CommitInsert, Invariant, Typed
  <2>2. CASE OpenInsert(s, t) \/ Count(s) \/ Insert(s)
    BY <2>2 DEF OpenInsert, Count, Insert, Invariant, Typed
  <2> QED  BY <2>1, <2>2
<1>6. Typed'
  BY <1>1, <1>3, <1>4, <1>5 DEF Invariant, Typed
<1>7. Copies'
  BY <1>1, <1>2, <1>3, Apart DEF Invariant, Typed, Copies, AtWork
<1> QED  BY <1>6, <1>7 DEF Invariant

\* A session begins with what it has to do, a request with one phase.
OpenPlan(s, p) == p # <<>> /\ (s \in Clients => Len(p) = 1) /\ Open(s, p)

\* The steps of sessions; who is refused or aborted leaves what is committed alone.
LEMMA StepOf ==
  ASSUME [Next]_vars
  PROVE  \/ \E s \in Sessions, p \in Seq(Phases) : OpenPlan(s, p)
         \/ \E s \in Sessions, a \in Agents : Read(s, a)
         \/ \E s \in Sessions, a \in Agents : Flush(s, a)
         \/ \E s \in Sessions : Compute(s)
         \/ \E s \in Sessions : NextPhase(s)
         \/ \E s \in Sessions, how \in Final :
              Close(s, how) /\ UNCHANGED <<amount, rows, table, due, fines, overlapped, contended>>
         \/ \E s \in Sessions : Commit(s)
         \/ \E s \in Sessions, t \in Tables :
              OpenInsert(s, t) \/ Count(s) \/ Insert(s) \/ CommitInsert(s)
         \/ UNCHANGED vars
<1> DEFINE P == \/ \E s \in Sessions, p \in Seq(Phases) : OpenPlan(s, p)
                \/ \E s \in Sessions, a \in Agents : Read(s, a)
                \/ \E s \in Sessions, a \in Agents : Flush(s, a)
                \/ \E s \in Sessions : Compute(s)
                \/ \E s \in Sessions : NextPhase(s)
                \/ \E s \in Sessions, how \in Final :
                     Close(s, how) /\ UNCHANGED <<amount, rows, table, due, fines, overlapped, contended>>
                \/ \E s \in Sessions : Commit(s)
                \/ \E s \in Sessions, t \in Tables :
                     OpenInsert(s, t) \/ Count(s) \/ Insert(s) \/ CommitInsert(s)
                \/ UNCHANGED vars
<1>1. ASSUME NEW s \in Sessions, OpenRequest(s) PROVE P
  <2>1. PICK f \in RequestPhases : Open(s, <<f>>)
    BY <1>1 DEF OpenRequest
  <2>2. Len(<<f>>) = 1
    OBVIOUS
  <2>3. OpenPlan(s, <<f>>)
    BY <2>1, <2>2, PlansAreSequences DEF OpenPlan
  <2> QED  BY <2>3, PlansAreSequences, Zenon
<1>2. ASSUME NEW s \in Sessions, OpenTick(s) PROVE P
  <2>1. PICK p \in TickPlans : Open(s, p)
    BY <1>2 DEF OpenTick
  <2>2. s \notin Clients
    BY <1>2, SessionsAssumption DEF OpenTick
  <2>3. OpenPlan(s, p)
    BY <2>1, <2>2, PlansAreSequences DEF OpenPlan
  <2> QED  BY <2>3, PlansAreSequences, Zenon
<1>3. "users" \in Tables /\ "refused" \in Final /\ "failed" \in Final
  BY DEF Tables, Final
<1>4. ASSUME NEW s \in Sessions, Refuse(s) \/ Abort(s) PROVE P
  <2>1. UNCHANGED <<amount, rows, table, due, fines, overlapped, contended>>
        /\ (Close(s, "refused") \/ Close(s, "failed"))
    BY <1>4 DEF Refuse, Abort
  <2> QED  BY <1>3, <2>1, Zenon
<1>5. ASSUME NEW s \in Sessions, Work(s) PROVE P
  BY <1>3, <1>4, <1>5, Zenon DEF Work
<1> QED  BY <1>1, <1>2, <1>4, <1>5, Zenon DEF Next

LEMMA InvariantStep ==
  ASSUME Invariant, [Next]_vars
  PROVE  Invariant'
<1>1. ASSUME NEW s \in Sessions, NEW how \in Final, Close(s, how),
             UNCHANGED <<amount, rows, table, due, fines, overlapped, contended>>
      PROVE  Invariant'
  <2>1. amount' \in [Agents -> Int] /\ due' \in [Agents -> Int] /\ fines' \in [Agents -> Nat]
    BY <1>1 DEF Invariant, Typed
  <2> QED  BY <1>1, <2>1, CloseStep
<1>2. ASSUME NEW s \in Sessions, Commit(s) PROVE Invariant'
  <2>1. Close(s, "done") /\ "done" \in Final /\ UNCHANGED <<rows, table, overlapped, contended>>
    BY <1>2 DEF Commit, Final
  <2> QED  BY <1>2, <2>1, CommitTyped, CloseStep
<1>3. ASSUME UNCHANGED vars PROVE Invariant'
  BY <1>3 DEF vars, Invariant, Typed, Copies
<1> QED  BY <1>1, <1>2, <1>3, StepOf, OpenStep, ReadStep, FlushStep, ComputeStep,
            NextPhaseStep, InsertSteps, Zenon DEF OpenPlan

LEMMA InvariantInit == Init => Invariant
<1> SUFFICES ASSUME Init PROVE Invariant
  OBVIOUS
<1>1. <<>> \in Seq(Phases) /\ "users" \in Tables
  BY DEF Tables
<1>2. Typed
  BY <1>1, SessionsAssumption DEF Init, Typed, Stages, NothingRead, NoEffect
<1>3. Copies
  BY DEF Init, Copies, AtWork, NothingRead
<1> QED  BY <1>2, <1>3 DEF Invariant

\* Type correctness; a lock is only ever held by a session that is still open, whatever others
\* commit, abort or refuse (database.py: leaving the session rolls it back).
THEOREM SessionsTypeOK == Spec => []TypeOK
<1>1. Invariant => TypeOK
  BY DEF Invariant, Typed, Copies, TypeOK, LocksAreHeld, AtWork, Stages
<1> QED  BY <1>1, InvariantInit, InvariantStep, PTL DEF Spec

(* ---------------------------- overdrafts --------------------------------- *)

\* A copy that is read, and the rows that are committed, are numbers.
LEMMA Numbers ==
  ASSUME Invariant, NEW s \in Sessions, NEW a \in Agents
  PROVE  /\ amount[a] \in Int /\ fines[a] \in Nat /\ fined[s][a] \in Nat
         /\ view[s][a] # Unread => view[s][a] \in Int
BY DEF Invariant, Typed

\* A phase takes what the copy has, or the fine counts.
LEMMA ComputeBacked ==
  ASSUME Invariant, Backed, NEW s \in Sessions, Compute(s)
  PROVE  Backed'
<1> DEFINE f == Doing(s)
<1>1. f \in [Agents -> Int] /\ \A a \in Agents : f[a] # 0 => a \in Touched(s)
  BY PhaseOf DEF Compute, AtWork
<1>2. /\ \A a \in Agents : view'[s][a] = IF f[a] # 0 THEN view[s][a] + f[a] ELSE view[s][a]
      /\ \A a \in Agents : fined'[s][a] = fined[s][a] + Fining(s)[a]
      /\ \A r \in Sessions \ {s} : view'[r] = view[r] /\ fined'[r] = fined[r]
      /\ UNCHANGED <<amount, fines>>
  BY DEF Compute, Invariant, Typed
<1>3. \A a \in Agents : f[a] # 0 => view[s][a] # Unread
  BY <1>1 DEF Compute, AllRead
<1>4. ASSUME NEW a \in Agents, f[a] < 0
      PROVE  Fining(s)[a] = -f[a] \/ view[s][a] + f[a] >= 0
  <2>1. Head(plan[s]).poor \in {"refuse", "skip", "force"}
    BY PhaseOf DEF Compute, AtWork, Phases
  <2>2. CASE Head(plan[s]).poor = "force"
    BY <1>4, <2>2 DEF Fining
  <2>3. CASE Head(plan[s]).poor # "force"
    <3>1. ~Poor(s)
      <4>1. CASE Head(plan[s]).poor = "refuse"
        BY <4>1 DEF Compute
      <4>2. CASE Head(plan[s]).poor = "skip"
        BY <1>4, <4>2 DEF Doing, NoEffect
      <4> QED  BY <2>1, <2>3, <4>1, <4>2
    <3>2. f = Head(plan[s]).change
      BY <3>1 DEF Doing
    <3>3. ~(view[s][a] < -f[a])
      BY <1>4, <3>1, <3>2 DEF Poor
    <3>4. view[s][a] \in Int /\ f[a] \in Int
      BY <1>1, <1>3, <1>4, Numbers
    <3> QED  BY <3>3, <3>4
  <2> QED  BY <2>2, <2>3
<1>5. Fining(s) \in [Agents -> Nat]
  BY PhaseOf DEF Compute, AtWork
<1> HIDE DEF f
<1>6. ASSUME NEW r \in Sessions, NEW a \in Agents, view'[r][a] # Unread
      PROVE  view'[r][a] >= -(fines[a] + fined'[r][a])
  <2>1. CASE r # s
    BY <1>2, <1>6, <2>1 DEF Backed
  <2>2. CASE r = s
    <3>1. view[s][a] # Unread
      BY <1>2, <1>3, <1>6, <2>2
    <3>2. /\ view[s][a] \in Int /\ f[a] \in Int /\ fines[a] \in Nat /\ fined[s][a] \in Nat
          /\ Fining(s)[a] \in Nat
      BY <1>1, <1>5, <3>1, Numbers
    <3>3. view[s][a] >= -(fines[a] + fined[s][a])
      BY <3>1 DEF Backed
    <3>4. view'[s][a] = view[s][a] + f[a] /\ fined'[s][a] = fined[s][a] + Fining(s)[a]
      BY <1>2, <3>2
    <3> QED  BY <1>4, <2>2, <3>2, <3>3, <3>4
  <2> QED  BY <2>1, <2>2
<1> QED  BY <1>2, <1>6 DEF Backed

\* The end of a session leaves the copies of the others alone, which no more fines can hurt.
LEMMA CloseBacked ==
  ASSUME Invariant, Backed, NEW s \in Sessions, NEW how, Close(s, how),
         \A a \in Agents : fines'[a] \in Nat /\ fines'[a] >= fines[a] /\ amount'[a] >= -fines'[a]
  PROVE  Backed'
<1>1. /\ \A a \in Agents : view'[s][a] = Unread
      /\ \A r \in Sessions \ {s} : view'[r] = view[r] /\ fined'[r] = fined[r]
  BY DEF Close, NothingRead, Invariant, Typed
<1>2. ASSUME NEW r \in Sessions, NEW a \in Agents, view'[r][a] # Unread
      PROVE  view'[r][a] >= -(fines'[a] + fined'[r][a])
  <2>1. view'[r][a] = view[r][a] /\ fined'[r][a] = fined[r][a]
    BY <1>1, <1>2
  <2>2. view[r][a] >= -(fines[a] + fined[r][a])
    BY <1>2, <2>1 DEF Backed
  <2> QED  BY <1>2, <2>1, <2>2, Numbers
<1> QED  BY <1>2 DEF Backed

LEMMA CommitBacked ==
  ASSUME Invariant, Backed, NEW s \in Sessions, Commit(s)
  PROVE  Backed'
<1>1. /\ \A a \in Agents : amount'[a] = IF lock[a] = s THEN view[s][a] ELSE amount[a]
      /\ \A a \in Agents : fines'[a] = fines[a] + fined[s][a]
      /\ Close(s, "done")
  BY DEF Commit
<1>2. \A a \in Agents : lock[a] = s => view[s][a] # Unread
  BY Apart DEF Invariant, Copies
<1>3. ASSUME NEW a \in Agents
      PROVE  fines'[a] \in Nat /\ fines'[a] >= fines[a] /\ amount'[a] >= -fines'[a]
  <2>1. CASE lock[a] = s
    BY <1>1, <1>2, <2>1, Numbers DEF Backed
  <2>2. CASE lock[a] # s
    BY <1>1, <2>2, Numbers DEF Backed
  <2> QED  BY <2>1, <2>2
<1> QED  BY <1>1, <1>3, CloseBacked

LEMMA BackedStep ==
  ASSUME Invariant, Backed, [Next]_vars
  PROVE  Backed'
<1>1. ASSUME NEW s \in Sessions, NEW p \in Seq(Phases), Open(s, p) PROVE Backed'
  BY <1>1 DEF Open, Backed
<1>2. ASSUME NEW s \in Sessions, NEW a \in Agents, Read(s, a) PROVE Backed'
  <2>1. /\ view' = [view EXCEPT ![s][a] = amount[a]]
        /\ UNCHANGED <<amount, fines, fined>>
    BY <1>2 DEF Read
  <2>2. amount[a] >= -(fines[a] + fined[s][a])
    BY Numbers DEF Backed
  <2> QED  BY <2>1, <2>2 DEF Backed, Invariant, Typed
<1>3. ASSUME NEW s \in Sessions, NEW a \in Agents, Flush(s, a) PROVE Backed'
  BY <1>3 DEF Flush, Backed
<1>4. ASSUME NEW s \in Sessions, NextPhase(s) PROVE Backed'
  BY <1>4 DEF NextPhase, Backed
<1>5. ASSUME NEW s \in Sessions, NEW how \in Final, Close(s, how),
             UNCHANGED <<amount, rows, table, due, fines, overlapped, contended>>
      PROVE  Backed'
  <2>1. \A a \in Agents : fines'[a] \in Nat /\ fines'[a] >= fines[a] /\ amount'[a] >= -fines'[a]
    BY <1>5, Numbers DEF Backed
  <2> QED  BY <1>5, <2>1, CloseBacked
<1>6. ASSUME NEW s \in Sessions, NEW t \in Tables,
             OpenInsert(s, t) \/ Count(s) \/ Insert(s) \/ CommitInsert(s)
      PROVE  Backed'
  BY <1>6 DEF OpenInsert, Count, Insert, CommitInsert, Backed
<1>7. ASSUME UNCHANGED vars PROVE Backed'
  BY <1>7 DEF vars, Backed
<1> QED  BY <1>1, <1>2, <1>3, <1>4, <1>5, <1>6, <1>7, StepOf, ComputeBacked, CommitBacked, Zenon
         DEF OpenPlan

\* An amount is overdrawn by fines alone (court.py:120): all else that a request
\* (action_handler.py) or a tick (tick.py) takes it has checked, and however stale the copy was,
\* it writes the value it has checked.
THEOREM OnlyFinesOverdrawAmounts == Spec => []OnlyFinesOverdraw
<1>1. Backed => OnlyFinesOverdraw
  BY DEF Backed, OnlyFinesOverdraw
<1>2. Init => Backed
  BY SessionsAssumption DEF Init, Backed, NothingRead, NoEffect
<1>3. Invariant /\ Backed /\ [Next]_vars => (Invariant /\ Backed)'
  BY InvariantStep, BackedStep
<1> QED  BY <1>1, <1>2, <1>3, InvariantInit, PTL DEF Spec

(* --------------------------- lost updates -------------------------------- *)

LEMMA ReadEffects ==
  ASSUME Invariant, Effects, NEW s \in Sessions, NEW a \in Agents, Read(s, a)
  PROVE  Effects'
<1>1. overlapped \subseteq overlapped'
  BY DEF Read
<1>2. \A r \in Sessions, b \in Agents : effect'[r][b] # 0 => lock'[b] = r \/ b \in dirty'[r]
  BY DEF Read, Effects
<1>3. effect[s][a] = 0
  BY Apart DEF Read, Effects, Invariant, Typed, Copies
<1>4. view'[s][a] = amount[a] /\ amount[a] \in Int
      /\ \A r \in Sessions, b \in Agents : r # s \/ b # a => view'[r][b] = view[r][b]
  BY DEF Read, Invariant, Typed
<1>5. ASSUME NEW b \in Agents \ overlapped'
      PROVE  /\ amount'[b] = due'[b]
             /\ \A r \in Sessions : view'[r][b] # Unread => view'[r][b] = amount'[b] + effect'[r][b]
             /\ \A r, q \in Sessions : view'[r][b] # Unread /\ view'[q][b] # Unread => r = q
  <2>1. b \in Agents \ overlapped
    BY <1>1, <1>5
  <2>2. UNCHANGED <<amount, due, effect>>
    BY DEF Read
  <2>3. CASE b # a
    BY <1>4, <2>1, <2>2, <2>3 DEF Effects
  <2>4. CASE b = a
    <3>1. \A r \in Sessions \ {s} : view[r][a] = Unread
      BY <1>5, <2>4 DEF Read
    <3>2. \A r \in Sessions \ {s} : view'[r][a] = Unread
      BY <1>4, <3>1
    <3> QED  BY <1>3, <1>4, <2>1, <2>2, <2>4, <3>2 DEF Effects
  <2> QED  BY <2>3, <2>4
<1> QED  BY <1>2, <1>5 DEF Effects

LEMMA ComputeEffects ==
  ASSUME Invariant, Effects, NEW s \in Sessions, Compute(s)
  PROVE  Effects'
<1> DEFINE f == Doing(s)
           changed == {a \in Agents : f[a] # 0}
<1>1. (\A a \in Agents : f[a] \in Int) /\ changed \subseteq Touched(s)
  BY PhaseOf DEF Compute, AtWork
<1>2. \A a \in changed : a \in Agents /\ view[s][a] \in Int
  BY <1>1 DEF Compute, AllRead, Touched, Invariant, Typed
<1>3. dirty[s] = {} /\ dirty' = [dirty EXCEPT ![s] = changed]
      /\ UNCHANGED <<amount, lock, due, overlapped>>
  BY DEF Compute, Invariant, Copies
<1>4. /\ \A a \in Agents : view'[s][a] = IF a \in changed THEN view[s][a] + f[a] ELSE view[s][a]
      /\ \A a \in Agents : effect'[s][a] = effect[s][a] + f[a] /\ effect[s][a] \in Int
      /\ \A r \in Sessions \ {s} : view'[r] = view[r] /\ effect'[r] = effect[r]
  BY DEF Compute, Invariant, Typed
<1>0. \A a \in Agents : a \notin changed => f[a] = 0
  OBVIOUS
<1> HIDE DEF f, changed
<1>5. \A r \in Sessions, a \in Agents : effect'[r][a] # 0 => lock'[a] = r \/ a \in dirty'[r]
  <2> SUFFICES ASSUME NEW r \in Sessions, NEW a \in Agents, effect'[r][a] # 0
               PROVE  lock'[a] = r \/ a \in dirty'[r]
    OBVIOUS
  <2>1. CASE r # s
    BY <1>3, <1>4, <2>1 DEF Effects, Invariant, Typed
  <2>2. CASE r = s /\ a \in changed
    BY <1>3, <2>2 DEF Invariant, Typed
  <2>3. CASE r = s /\ a \notin changed
    BY <1>0, <1>3, <1>4, <2>3 DEF Effects
  <2> QED  BY <2>1, <2>2, <2>3
<1>6. ASSUME NEW a \in Agents \ overlapped'
      PROVE  /\ amount'[a] = due'[a]
             /\ \A r \in Sessions : view'[r][a] # Unread => view'[r][a] = amount'[a] + effect'[r][a]
             /\ \A r, q \in Sessions : view'[r][a] # Unread /\ view'[q][a] # Unread => r = q
  <2>1. a \in Agents \ overlapped /\ amount[a] \in Int
    BY <1>3, <1>6 DEF Invariant, Typed
  <2>2. \A r \in Sessions : view'[r][a] # Unread => view[r][a] # Unread
    BY <1>2, <1>4, Apart
  <2>3. ASSUME NEW r \in Sessions, view'[r][a] # Unread
        PROVE  view'[r][a] = amount[a] + effect'[r][a]
    <3>1. view[r][a] = amount[a] + effect[r][a]
      BY <2>1, <2>2, <2>3 DEF Effects
    <3>2. CASE r # s
      BY <1>4, <3>1, <3>2
    <3>3. CASE r = s
      BY <1>0, <1>1, <1>4, <2>1, <3>1, <3>3
    <3> QED  BY <3>2, <3>3
  <2> QED  BY <1>3, <2>1, <2>2, <2>3 DEF Effects
<1> QED  BY <1>5, <1>6 DEF Effects

\* The end of session s: what it leaves is its effect (all of it, or nothing).
LEMMA CloseEffects ==
  ASSUME Invariant, Effects, NEW s \in Sessions, NEW how, Close(s, how), UNCHANGED overlapped,
         \A a \in Agents \ overlapped : amount'[a] = due'[a],
         \A a \in Agents : view[s][a] = Unread => amount'[a] = amount[a]
  PROVE  Effects'
<1>1. /\ \A a \in Agents : view'[s][a] = Unread /\ effect'[s][a] = 0
      /\ \A r \in Sessions \ {s} : view'[r] = view[r] /\ effect'[r] = effect[r] /\ dirty'[r] = dirty[r]
      /\ \A a \in Agents : lock[a] # s => lock'[a] = lock[a]
  BY DEF Close, NothingRead, NoEffect, Invariant, Typed
<1>2. \A r \in Sessions, a \in Agents : effect'[r][a] # 0 => lock'[a] = r \/ a \in dirty'[r]
  BY <1>1 DEF Effects
<1>3. ASSUME NEW a \in Agents \ overlapped
      PROVE  /\ \A r \in Sessions : view'[r][a] # Unread => view'[r][a] = amount'[a] + effect'[r][a]
             /\ \A r, q \in Sessions : view'[r][a] # Unread /\ view'[q][a] # Unread => r = q
  <2>1. \A r \in Sessions : view'[r][a] # Unread => r # s /\ view'[r][a] = view[r][a]
    BY <1>1
  <2>2. \A r \in Sessions : view'[r][a] # Unread => view[s][a] = Unread
    BY <2>1 DEF Effects
  <2> QED  BY <1>1, <2>1, <2>2 DEF Effects
<1> QED  BY <1>2, <1>3 DEF Effects

LEMMA CommitEffects ==
  ASSUME Invariant, Effects, NEW s \in Sessions, Commit(s)
  PROVE  Effects'
<1>1. \A a \in Agents : amount'[a] = IF lock[a] = s THEN view[s][a] ELSE amount[a]
  BY DEF Commit
<1>2. \A a \in Agents : due'[a] = due[a] + effect[s][a]
  BY DEF Commit
<1>3. dirty[s] = {} /\ Close(s, "done") /\ UNCHANGED overlapped
  BY DEF Commit, Flushed
<1>4. \A a \in Agents : lock[a] = s => view[s][a] # Unread
  BY Apart DEF Invariant, Copies
<1>5. \A a \in Agents \ overlapped : amount'[a] = due'[a]
  <2> SUFFICES ASSUME NEW a \in Agents \ overlapped PROVE amount'[a] = due'[a]
    OBVIOUS
  <2>1. amount[a] = due[a] /\ amount[a] \in Int /\ effect[s][a] \in Int
    BY DEF Effects, Invariant, Typed
  <2>2. CASE lock[a] = s
    BY <1>1, <1>2, <1>4, <2>1, <2>2 DEF Effects
  <2>3. CASE lock[a] # s
    BY <1>1, <1>2, <1>3, <2>1, <2>3 DEF Effects
  <2> QED  BY <2>2, <2>3
<1>6. \A a \in Agents : view[s][a] = Unread => amount'[a] = amount[a]
  BY <1>1, <1>4
<1> QED  BY <1>3, <1>5, <1>6, CloseEffects

LEMMA EffectsStep ==
  ASSUME Invariant, Effects, [Next]_vars
  PROVE  Effects'
<1>1. ASSUME NEW s \in Sessions, NEW p \in Seq(Phases), Open(s, p) PROVE Effects'
  BY <1>1 DEF Open, Effects
<1>2. ASSUME NEW s \in Sessions, NEW a \in Agents, Flush(s, a) PROVE Effects'
  <2>1. UNCHANGED <<amount, due, effect, view, overlapped>>
    BY <1>2 DEF Flush
  <2>2. \A r \in Sessions, b \in Agents : effect[r][b] # 0 => lock'[b] = r \/ b \in dirty'[r]
    <3>1. lock' = [lock EXCEPT ![a] = s] /\ dirty' = [dirty EXCEPT ![s] = @ \ {a}]
          /\ lock[a] \in {Free, s}
      BY <1>2 DEF Flush
    <3>2. a \in dirty[s] /\ view[s][a] # Unread
      BY <1>2 DEF Flush, Wants, Invariant, Copies
    <3>3. ASSUME NEW r \in Sessions, NEW b \in Agents, effect[r][b] # 0
          PROVE  lock'[b] = r \/ b \in dirty'[r]
      <4>1. lock[b] = r \/ b \in dirty[r]
        BY <3>3 DEF Effects
      <4>2. CASE b = a /\ r = s
        BY <3>1, <4>2 DEF Invariant, Typed
      <4>3. CASE b = a /\ r # s
        BY <3>1, <4>1, <4>3, Apart DEF Invariant, Typed
      <4>4. CASE b # a
        BY <3>1, <4>1, <4>4 DEF Invariant, Typed
      <4> QED  BY <4>2, <4>3, <4>4
    <3> QED  BY <3>3
  <2> QED  BY <2>1, <2>2 DEF Effects
<1>3. ASSUME NEW s \in Sessions, NextPhase(s) PROVE Effects'
  BY <1>3 DEF NextPhase, Effects
<1>4. ASSUME NEW s \in Sessions, NEW how \in Final, Close(s, how),
             UNCHANGED <<amount, rows, table, due, fines, overlapped, contended>>
      PROVE  Effects'
  <2>1. \A a \in Agents \ overlapped : amount'[a] = due'[a]
    BY <1>4 DEF Effects
  <2> QED  BY <1>4, <2>1, CloseEffects
<1>5. ASSUME NEW s \in Sessions, NEW t \in Tables,
             OpenInsert(s, t) \/ Count(s) \/ Insert(s) \/ CommitInsert(s)
      PROVE  Effects'
  BY <1>5 DEF OpenInsert, Count, Insert, CommitInsert, Effects
<1>6. ASSUME UNCHANGED vars PROVE Effects'
  BY <1>6 DEF vars, Effects
<1> QED  BY <1>1, <1>2, <1>3, <1>4, <1>5, <1>6, StepOf, ReadEffects, ComputeEffects,
            CommitEffects, Zenon DEF OpenPlan

\* An amount is what the committed transactions make it unless two open sessions have read the
\* row (database.py, action_handler.py, tick.py): rollbacks, refusals, deadlocks and phases of a
\* tick leave nothing behind.
THEOREM UpdatesAreLostOnlyByOverlap == Spec => []LostOnlyByOverlap
<1>1. Effects => LostOnlyByOverlap
  BY DEF Effects, LostOnlyByOverlap
<1>2. Init => Effects
  BY DEF Init, Effects, NothingRead, NoEffect
<1>3. Invariant /\ Effects /\ [Next]_vars => (Invariant /\ Effects)'
  BY InvariantStep, EffectsStep
<1> QED  BY <1>1, <1>2, <1>3, InvariantInit, PTL DEF Spec

(* ------------------------------ limits ----------------------------------- *)

\* Whoever inserts into a table that nobody else inserts into has counted what is there; a row of
\* users that is inserted is the first one, and the only one.
Counted ==
  /\ \A r, s \in Sessions :
       pc[r] \in Inserting /\ pc[s] \in Inserting /\ table[r] = table[s]
         => r = s \/ table[s] \in contended
  /\ \A s \in Sessions :
       pc[s] \in {"inserting", "inserted"} /\ table[s] \notin contended
         => rows[table[s]] < Limit[table[s]]
  /\ \A s \in Sessions : pc[s] = "inserted" /\ table[s] = "users" => rows["users"] = 0
  /\ \A r, s \in Sessions :
       pc[r] = "inserted" /\ pc[s] = "inserted" /\ table[r] = "users" /\ table[s] = "users"
         => r = s
  /\ LimitsHold

LEMMA Limits == "users" \in Tables /\ \A t \in Tables : Limit[t] \in Nat
BY SessionsAssumption DEF Tables, Limit

LEMMA OtherSteps ==
  ASSUME Invariant, Counted, NEW s \in Sessions, NEW to \in Stages \ Inserting,
         pc' = [pc EXCEPT ![s] = to], UNCHANGED <<rows, table, contended>>
  PROVE  Counted'
BY DEF Invariant, Typed, Counted, LimitsHold, Inserting

LEMMA CountedStep ==
  ASSUME Invariant, Counted, [Next]_vars
  PROVE  Counted'
<1> USE Limits
<1>1. ASSUME NEW s \in Sessions, NEW p \in Seq(Phases), Open(s, p) PROVE Counted'
  BY <1>1, OtherSteps DEF Open, Stages, Inserting
<1>2. ASSUME NEW s \in Sessions, NEW a \in Agents, Read(s, a) \/ Flush(s, a) PROVE Counted'
  BY <1>2 DEF Read, Flush, Counted, LimitsHold
<1>3. ASSUME NEW s \in Sessions, Compute(s) \/ NextPhase(s) PROVE Counted'
  BY <1>3, OtherSteps DEF Compute, NextPhase, Stages, Inserting
<1>4. ASSUME NEW s \in Sessions, NEW how \in Final, Close(s, how),
             UNCHANGED <<amount, rows, table, due, fines, overlapped, contended>>
      PROVE  Counted'
  BY <1>4, StagesApart, OtherSteps DEF Close
<1>5. ASSUME NEW s \in Sessions, Commit(s) PROVE Counted'
  <2>1. "done" \in Stages \ Inserting
    BY DEF Stages, Final, Inserting
  <2> QED  BY <1>5, <2>1, OtherSteps DEF Commit, Close
<1>6. ASSUME NEW s \in Sessions, NEW t \in Tables, OpenInsert(s, t) PROVE Counted'
  <2>1. /\ pc[s] = "idle" /\ pc' = [pc EXCEPT ![s] = "counting"]
        /\ table' = [table EXCEPT ![s] = t] /\ rows' = rows /\ contended \subseteq contended'
        /\ \A r \in Sessions : pc[r] \in Inserting /\ table[r] = t => t \in contended'
    BY <1>6 DEF OpenInsert
  <2>2. \A q, r \in Sessions :
          pc'[q] \in Inserting /\ pc'[r] \in Inserting /\ table'[q] = table'[r]
            => q = r \/ table'[r] \in contended'
    BY <2>1 DEF Invariant, Typed, Counted, Inserting
  <2> QED  BY <2>1, <2>2 DEF Invariant, Typed, Counted, LimitsHold
<1>7. ASSUME NEW s \in Sessions, Count(s) PROVE Counted'
  <2>1. CASE rows[table[s]] >= Limit[table[s]]
    BY <1>7, <2>1, OtherSteps DEF Count, Stages, Inserting, Final
  <2>2. CASE ~(rows[table[s]] >= Limit[table[s]])
    <3>1. pc[s] = "counting" /\ pc' = [pc EXCEPT ![s] = "inserting"]
          /\ UNCHANGED <<rows, table, contended>>
      BY <1>7, <2>2 DEF Count
    <3>2. rows[table[s]] < Limit[table[s]]
      BY <2>2 DEF Invariant, Typed
    <3> QED  BY <3>1, <3>2 DEF Invariant, Typed, Counted, LimitsHold, Inserting
  <2> QED  BY <2>1, <2>2
<1>8. ASSUME NEW s \in Sessions, Insert(s) PROVE Counted'
  <2>1. CASE table[s] = "users" /\ rows["users"] > 0
    BY <1>8, <2>1, OtherSteps DEF Insert, Stages, Inserting, Final
  <2>2. CASE ~(table[s] = "users" /\ rows["users"] > 0)
    <3>1. /\ pc[s] = "inserting" /\ pc' = [pc EXCEPT ![s] = "inserted"]
          /\ table[s] = "users" =>
               \A r \in Sessions : ~(pc[r] = "inserted" /\ table[r] = "users")
          /\ UNCHANGED <<rows, table, contended>>
      BY <1>8, <2>2 DEF Insert
    <3>2. table[s] = "users" => rows["users"] = 0
      BY <2>2 DEF Invariant, Typed
    <3> QED  BY <3>1, <3>2 DEF Invariant, Typed, Counted, LimitsHold, Inserting
  <2> QED  BY <2>1, <2>2
<1>9. ASSUME NEW s \in Sessions, CommitInsert(s) PROVE Counted'
  <2>1. /\ pc[s] = "inserted" /\ pc' = [pc EXCEPT ![s] = "done"]
        /\ rows' = [rows EXCEPT ![table[s]] = rows[table[s]] + 1]
        /\ UNCHANGED <<table, contended>>
        /\ table[s] \in Tables
    BY <1>9 DEF CommitInsert, Invariant, Typed
  <2>2. \A t \in Tables : t # table[s] => rows'[t] = rows[t]
    BY <2>1 DEF Invariant, Typed
  <2>3. rows'[table[s]] = rows[table[s]] + 1 /\ rows[table[s]] \in Nat
    BY <2>1 DEF Invariant, Typed
  <2>4. \A r \in Sessions : r # s => pc'[r] = pc[r]
    BY <2>1 DEF Invariant, Typed
  <2>5. pc'[s] = "done"
    BY <2>1 DEF Invariant, Typed
  <2>6. LimitsHold'
    <3>1. \A t \in Tables \ contended' : rows'[t] <= Limit[t]
      <4> SUFFICES ASSUME NEW t \in Tables \ contended PROVE rows'[t] <= Limit[t]
        BY <2>1
      <4>1. CASE t = table[s]
        <5>1. rows[t] < Limit[t]
          BY <2>1, <4>1 DEF Counted
        <5> QED  BY <2>3, <4>1, <5>1
      <4>2. CASE t # table[s]
        BY <2>2, <4>2 DEF Counted, LimitsHold
      <4> QED  BY <4>1, <4>2
    <3>2. rows'["users"] <= 1
      <4>1. CASE table[s] = "users"
        BY <2>1, <2>3, <4>1 DEF Counted
      <4>2. CASE table[s] # "users"
        BY <2>2, <4>2 DEF Counted, LimitsHold
      <4> QED  BY <4>1, <4>2
    <3> QED  BY <3>1, <3>2 DEF LimitsHold
  <2>7. \A r \in Sessions : pc'[r] \in Inserting => pc[r] \in Inserting /\ r # s
    BY <2>4, <2>5 DEF Inserting
  <2>8. \A r \in Sessions :
          pc'[r] \in {"inserting", "inserted"} /\ table'[r] \notin contended'
            => rows'[table'[r]] < Limit[table'[r]]
    <3> SUFFICES ASSUME NEW r \in Sessions, pc'[r] \in {"inserting", "inserted"},
                        table[r] \notin contended
                 PROVE  rows'[table[r]] < Limit[table[r]]
      BY <2>1
    <3>1. r # s /\ pc[r] \in {"inserting", "inserted"} /\ table[r] \in Tables
      BY <2>4, <2>5 DEF Invariant, Typed
    <3>2. table[r] # table[s]
      BY <2>1, <3>1 DEF Counted, Inserting
    <3> QED  BY <2>2, <3>1, <3>2 DEF Counted
  <2>9. \A r \in Sessions : pc'[r] = "inserted" /\ table'[r] = "users" => rows'["users"] = 0
    <3> SUFFICES ASSUME NEW r \in Sessions, pc'[r] = "inserted", table[r] = "users"
                 PROVE  rows'["users"] = 0
      BY <2>1
    <3>1. r # s /\ pc[r] = "inserted"
      BY <2>4, <2>5
    <3>2. table[s] # "users"
      BY <2>1, <3>1 DEF Counted
    <3> QED  BY <2>2, <3>1, <3>2 DEF Counted
  <2>10. \A q, r \in Sessions :
           pc'[q] \in Inserting /\ pc'[r] \in Inserting /\ table'[q] = table'[r]
             => q = r \/ table'[r] \in contended'
    BY <2>1, <2>7 DEF Counted
  <2>11. \A q, r \in Sessions :
           pc'[q] = "inserted" /\ pc'[r] = "inserted" /\ table'[q] = "users" /\ table'[r] = "users"
             => q = r
    BY <2>1, <2>4, <2>5 DEF Counted
  <2> QED  BY <2>6, <2>8, <2>9, <2>10, <2>11 DEF Counted
<1>10. ASSUME UNCHANGED vars PROVE Counted'
  BY <1>10 DEF vars, Counted, LimitsHold
<1> QED  BY <1>1, <1>2, <1>3, <1>4, <1>5, <1>6, <1>7, <1>8, <1>9, <1>10, StepOf, Zenon DEF OpenPlan

\* The limits that are counted before a row is inserted (auth.py, main.py) hold where two sessions
\* have not counted at once; a name of a user is never taken twice.
THEOREM CountedLimitsHold == Spec => []LimitsHold
<1>1. Counted => LimitsHold
  BY DEF Counted
<1>2. Init => Counted
  BY Limits DEF Init, Counted, LimitsHold, Inserting
<1>3. Invariant /\ Counted /\ [Next]_vars => (Invariant /\ Counted)'
  BY InvariantStep, CountedStep
<1> QED  BY <1>1, <1>2, <1>3, InvariantInit, PTL DEF Spec

(* ----------------------------- deadlocks ---------------------------------- *)

\* A request has one phase, so it flushes once, and what it has locked comes before all that
\* it has still to flush.
RequestsFlushInOrder ==
  \A s \in Clients :
    /\ pc[s] \in AtWork => Len(plan[s]) = 1
    /\ \A a \in Agents : lock[a] = s => pc[s] = "flushing" /\ \A b \in dirty[s] : a < b

LEMMA RequestsStep ==
  ASSUME Invariant, RequestsFlushInOrder, [Next]_vars
  PROVE  RequestsFlushInOrder'
<1>1. ASSUME NEW s \in Sessions, NEW p \in Seq(Phases), OpenPlan(s, p)
      PROVE  RequestsFlushInOrder'
  <2>1. /\ pc[s] = "idle" /\ pc' = [pc EXCEPT ![s] = "reading"] /\ plan' = [plan EXCEPT ![s] = p]
        /\ UNCHANGED <<lock, dirty>> /\ (s \in Clients => Len(p) = 1)
    BY <1>1 DEF OpenPlan, Open
  <2> QED  BY <2>1 DEF RequestsFlushInOrder, Invariant, Typed, AtWork, Sessions
<1>2. ASSUME NEW s \in Sessions, NEW a \in Agents, Read(s, a) PROVE RequestsFlushInOrder'
  BY <1>2 DEF Read, RequestsFlushInOrder
<1>3. ASSUME NEW s \in Sessions, NEW a \in Agents, Flush(s, a) PROVE RequestsFlushInOrder'
  <2>1. /\ pc[s] = "flushing" /\ a \in dirty[s] /\ \A b \in dirty[s] : a <= b
        /\ lock' = [lock EXCEPT ![a] = s] /\ dirty' = [dirty EXCEPT ![s] = dirty[s] \ {a}]
        /\ UNCHANGED <<pc, plan>>
    BY <1>3 DEF Flush, Wants
  <2>2. \A r \in Sessions : dirty'[r] \subseteq dirty[r]
    BY <2>1 DEF Invariant, Typed
  <2>3. \A b \in dirty'[s] : a < b
    <3>1. dirty'[s] = dirty[s] \ {a} /\ dirty[s] \subseteq Agents
      BY <2>1 DEF Invariant, Typed
    <3> QED  BY <2>1, <3>1, Apart
  <2>4. ASSUME NEW r \in Clients, NEW c \in Agents, lock'[c] = r
        PROVE  pc'[r] = "flushing" /\ \A b \in dirty'[r] : c < b
    <3>1. CASE c = a
      <4>1. r = s
        BY <2>1, <2>4, <3>1 DEF Invariant, Typed
      <4> QED  BY <2>1, <2>3, <3>1, <4>1
    <3>2. CASE c # a
      <4>1. lock[c] = r /\ r \in Sessions
        BY <2>1, <2>4, <3>2 DEF Invariant, Typed, Sessions
      <4> QED  BY <2>1, <2>2, <4>1 DEF RequestsFlushInOrder
    <3> QED  BY <3>1, <3>2
  <2> QED  BY <2>1, <2>4 DEF RequestsFlushInOrder
<1>4. ASSUME NEW s \in Sessions, Compute(s) PROVE RequestsFlushInOrder'
  <2>1. /\ pc[s] = "reading" /\ pc' = [pc EXCEPT ![s] = "flushing"]
        /\ dirty' = [dirty EXCEPT ![s] = {a \in Agents : Doing(s)[a] # 0}] /\ UNCHANGED <<lock, plan>>
    BY <1>4 DEF Compute
  <2> QED  BY <2>1 DEF RequestsFlushInOrder, Invariant, Typed, AtWork, Sessions
<1>5. ASSUME NEW s \in Sessions, NextPhase(s) PROVE RequestsFlushInOrder'
  <2>1. /\ pc[s] = "flushing" /\ Len(plan[s]) > 1
        /\ pc' = [pc EXCEPT ![s] = "reading"] /\ plan' = [plan EXCEPT ![s] = Tail(@)]
        /\ UNCHANGED <<lock, dirty>>
    BY <1>5 DEF NextPhase, Flushed
  <2>2. s \notin Clients
    <3>1. s \in Clients => Len(plan[s]) = 1
      BY <2>1 DEF RequestsFlushInOrder, AtWork
    <3>2. ~(1 > 1)
      OBVIOUS
    <3> QED  BY <2>1, <3>1, <3>2, Zenon
  <2>3. \A r \in Clients : r # s /\ r \in Sessions
    BY <2>2 DEF Sessions
  <2> QED  BY <2>1, <2>3 DEF RequestsFlushInOrder, Invariant, Typed
<1>6. ASSUME NEW s \in Sessions, NEW how \in Final, Close(s, how) PROVE RequestsFlushInOrder'
  <2>1. /\ pc' = [pc EXCEPT ![s] = how] /\ how \notin AtWork
        /\ plan' = [plan EXCEPT ![s] = <<>>] /\ dirty' = [dirty EXCEPT ![s] = {}]
        /\ lock' = [a \in Agents |-> IF lock[a] = s THEN Free ELSE lock[a]]
    BY <1>6, StagesApart DEF Close
  <2>2. \A a \in Agents, r \in Sessions : lock'[a] = r => lock[a] = r /\ r # s
    BY <2>1, Apart
  <2>3. \A r \in Clients : r \in Sessions
    BY DEF Sessions
  <2>4. \A r \in Sessions \ {s} : pc'[r] = pc[r] /\ plan'[r] = plan[r] /\ dirty'[r] = dirty[r]
    BY <2>1 DEF Invariant, Typed
  <2>5. pc'[s] \notin AtWork
    BY <2>1 DEF Invariant, Typed
  <2> QED  BY <2>2, <2>3, <2>4, <2>5 DEF RequestsFlushInOrder
<1>7. ASSUME NEW s \in Sessions, Commit(s) PROVE RequestsFlushInOrder'
  BY <1>6, <1>7 DEF Commit, Final
<1>8. ASSUME NEW s \in Sessions, NEW t \in Tables,
             OpenInsert(s, t) \/ Count(s) \/ Insert(s) \/ CommitInsert(s)
      PROVE  RequestsFlushInOrder'
  <2>1. PICK to \in Stages \ AtWork : pc' = [pc EXCEPT ![s] = to]
    BY <1>8 DEF OpenInsert, Count, Insert, CommitInsert, Stages, AtWork, Final
  <2>2. pc[s] \notin AtWork /\ UNCHANGED <<lock, plan, dirty>>
    BY <1>8 DEF OpenInsert, Count, Insert, CommitInsert, AtWork
  <2> QED  BY <2>1, <2>2 DEF RequestsFlushInOrder, Invariant, Typed, AtWork, Sessions
<1>9. ASSUME UNCHANGED vars PROVE RequestsFlushInOrder'
  BY <1>9 DEF vars, RequestsFlushInOrder
<1> QED  BY <1>1, <1>2, <1>3, <1>4, <1>5, <1>6, <1>7, <1>8, <1>9, StepOf, Zenon

\* A session waits for one row.
LEMMA WantsOne ==
  ASSUME Invariant, NEW s \in Sessions, NEW a \in Agents, NEW b \in Agents, Wants(s, a), Wants(s, b)
  PROVE  a = b
<1>1. a <= b /\ b <= a
  BY DEF Wants
<1> QED  BY <1>1, Apart

LEMMA WaitingFor ==
  ASSUME Invariant, NEW s \in Sessions, WaitsFor(s) # s
  PROVE  \E a \in Agents : Wants(s, a) /\ lock[a] = WaitsFor(s)
<1>1. PICK a \in Agents : Wants(s, a) /\ lock[a] # Free
  BY DEF WaitsFor
<1>2. (CHOOSE b \in Agents : Wants(s, b)) = a
  BY <1>1, WantsOne
<1> QED  BY <1>1, <1>2 DEF WaitsFor

\* In a circle of requests alone, each would hold a row before the one it waits for, and the
\* one that waits for the last row would wait for nobody.
LEMMA CirclesHaveTicks ==
  ASSUME Invariant, RequestsFlushInOrder, NEW s \in Sessions, InCircle(s)
  PROVE  \E t \in Ticks : InCircle(t)
<1>1. PICK C \in SUBSET Sessions :
        /\ s \in C /\ IsFiniteSet(C)
        /\ \A r \in C : WaitsFor(r) # r
        /\ {WaitsFor(r) : r \in C} = C
  BY Zenon DEF InCircle
<1>2. ASSUME NEW t \in C \cap Ticks PROVE InCircle(t)
  BY <1>1, <1>2, Zenon DEF InCircle
<1>3. CASE C \subseteq Clients
  <2> DEFINE Gaps == {N - a : a \in {b \in Agents : \E r \in C : Wants(r, b)}}
  <2>1. \A r \in C : \E a \in Agents : Wants(r, a) /\ lock[a] = WaitsFor(r)
    BY <1>1, WaitingFor
  <2>2. Gaps \in SUBSET Nat /\ Gaps # {}
    <3>1. \A a \in Agents : N - a \in Nat
      BY SessionsAssumption DEF Agents
    <3> QED  BY <1>1, <2>1, <3>1
  <2>3. PICK g \in Gaps : \A h \in Gaps : g <= h
    BY <2>2, LeastNatural
  <2>4. PICK a \in Agents, r \in C : Wants(r, a) /\ g = N - a
    BY <2>3
  <2>5. lock[a] = WaitsFor(r) /\ WaitsFor(r) \in C
    <3>1. PICK b \in Agents : Wants(r, b) /\ lock[b] = WaitsFor(r)
      BY <2>1
    <3>2. b = a
      BY <2>4, <3>1, WantsOne
    <3> QED  BY <1>1, <3>1, <3>2
  <2>6. PICK b \in Agents : Wants(WaitsFor(r), b)
    BY <2>1, <2>5
  <2>7. a < b
    BY <1>3, <2>5, <2>6 DEF RequestsFlushInOrder, Wants
  <2>8. N - b \in Gaps
    BY <2>5, <2>6
  <2>9. N - a <= N - b
    BY <2>3, <2>4, <2>8
  <2> QED  BY <2>7, <2>9, SessionsAssumption DEF Agents
<1> QED  BY <1>2, <1>3 DEF Sessions

\* A deadlock always has a macro tick among those that wait for each other: requests, whatever
\* they are and however many run at once, update rows in one order (action_handler.py, tick.py).
THEOREM DeadlocksNeedATick == Spec => []OnlyTicksDeadlock
<1>1. Invariant /\ RequestsFlushInOrder => OnlyTicksDeadlock
  BY CirclesHaveTicks DEF OnlyTicksDeadlock
<1>2. Init => RequestsFlushInOrder
  BY SessionsAssumption DEF Init, RequestsFlushInOrder, AtWork, Sessions
<1>3. Invariant /\ RequestsFlushInOrder /\ [Next]_vars => (Invariant /\ RequestsFlushInOrder)'
  BY InvariantStep, RequestsStep
<1> QED  BY <1>1, <1>2, <1>3, InvariantInit, PTL DEF Spec
=============================================================================
