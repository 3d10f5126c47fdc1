------------------------- MODULE ConnectionsProofs -------------------------
(***************************************************************************)
(* Proofs about Connections, for any number of agents and sockets: types,  *)
(* the absence of stale entries, and what a client with one connection at  *)
(* a time can rely on.                                                     *)
(***************************************************************************)
EXTENDS Connections, TLAPS

\* Only handlers that were given an agent get past the authentication, and a socket
\* that was never opened has none.
Authenticated ==
  \A s \in Sockets :
    /\ pc[s] \notin {"unused", "auth", "closed"} => who[s] \in Agents
    /\ pc[s] = "unused" => who[s] = NoAgent

\* The handler of s, while it is the only trace of its agent: no other handler and no
\* send of the agent exists, and column and registry are right as soon as it wrote them.
SoleHandler(s) ==
  /\ \A x \in Sockets \ {s} : who[x] = who[s] => pc[x] \in Gone
  /\ \A x \in Sockets \ {s} : sending # <<who[s], x>>
  /\ pc[s] = "flagging" /\ seen[s] => isConnected[who[s]]
  /\ pc[s] \in {"welcoming", "entering", "serving"} => isConnected[who[s]]
  /\ pc[s] = "serving" /\ alive[s] => connections[who[s]] = s

SoleHandlers == \A s \in Sockets : alone[s] /\ pc[s] \notin Gone => SoleHandler(s)

ConnectionsInv == TypeOK /\ Authenticated /\ EntriesAreServing /\ SoleHandlers

-----------------------------------------------------------------------------
\* The initial state satisfies the invariant: nobody is connected.
LEMMA InitInv == Init => ConnectionsInv
<1> SUFFICES ASSUME Init PROVE ConnectionsInv
  OBVIOUS
<1>1. TypeOK
  <2>1. FALSE \in BOOLEAN /\ 0 \in Int /\ 0 \in 0..MaxFaults
    BY ConnectionsAssumption
  <2> QED BY <2>1 DEF Init, TypeOK, Awaits
<1>2. Authenticated
  BY DEF Init, Authenticated
<1>3. EntriesAreServing
  BY DEF Init, EntriesAreServing
<1>4. SoleHandlers
  BY DEF Init, SoleHandlers, Gone
<1> QED BY <1>1, <1>2, <1>3, <1>4 DEF ConnectionsInv

\* What a handler does of itself moves it along from a place in the middle.
LEMMA HandlerMoves ==
  ASSUME NEW s \in Sockets, Handler(s) \/ LoopMalformed(s) \/ FailConnected(s) \/ FailDisconnected(s)
  PROVE  \E here \in Awaits \ Gone, next \in Awaits \ {"unused", "auth"} :
           /\ At(s, here, next)
           /\ here = "auth" /\ next # "closed" => who[s] # NoAgent
<1>1. /\ Refuse(s) => At(s, "auth", "closed")
      /\ FindAgent(s) => At(s, "auth", "flagging") /\ who[s] # NoAgent
      /\ CommitConnected(s) => At(s, "flagging", "welcoming")
      /\ FailConnected(s) => At(s, "flagging", "closed")
      /\ Welcome(s) => At(s, "welcoming", "entering")
      /\ FailWelcome(s) => At(s, "welcoming", "closed")
  BY DEF Refuse, FindAgent, CommitConnected, FailConnected, Welcome, FailWelcome
<1>2. /\ Enter(s) => At(s, "entering", "serving")
      /\ LoopDisconnected(s) \/ LoopMalformed(s) => At(s, "serving", "leaving")
      /\ FindAgentAgain(s) => At(s, "leaving", "unflagging")
      /\ CommitDisconnected(s) \/ FailDisconnected(s) => At(s, "unflagging", "closed")
  BY DEF Enter, LoopDisconnected, LoopMalformed, Unregister, FindAgentAgain,
     CommitDisconnected, FailDisconnected
<1>3. CASE At(s, "auth", "closed") \/ (At(s, "auth", "flagging") /\ who[s] # NoAgent)
  BY <1>3 DEF Awaits, Gone
<1>4. CASE At(s, "flagging", "welcoming") \/ At(s, "flagging", "closed")
           \/ At(s, "welcoming", "entering") \/ At(s, "welcoming", "closed")
  BY <1>4 DEF Awaits, Gone
<1>5. CASE At(s, "entering", "serving") \/ At(s, "serving", "leaving")
           \/ At(s, "leaving", "unflagging") \/ At(s, "unflagging", "closed")
  BY <1>5 DEF Awaits, Gone
<1> QED BY <1>1, <1>2, <1>3, <1>4, <1>5 DEF Handler

\* Every action keeps the types.  The column is only read for an authenticated agent.
LEMMA TypeStep == ASSUME TypeOK, Authenticated, [Next]_vars PROVE TypeOK'
<1> USE ConnectionsAssumption DEF TypeOK
<1>1. ASSUME NEW s \in Sockets, Handler(s) PROVE TypeOK'
  <2>1. pc' \in [Sockets -> Awaits]
    <3>1. PICK next \in Awaits : pc' = [pc EXCEPT ![s] = next]
      BY <1>1, HandlerMoves DEF At
    <3> QED BY <3>1
  <2>2. UNCHANGED <<who, alive, alone, targets, sending, faults>>
    BY <1>1 DEF Handler, Refuse, Welcome, FailWelcome, FindAgent, FindAgentAgain,
       CommitConnected, CommitDisconnected, Enter, LoopDisconnected, Unregister, At, process
  <2>3. seen' \in [Sockets -> BOOLEAN] /\ isConnected' \in [Agents -> BOOLEAN]
    <3>1. CASE FindAgent(s) \/ FindAgentAgain(s)
      <4>1. who[s] \in Agents
        BY <3>1 DEF FindAgent, FindAgentAgain, At, Authenticated
      <4> QED BY <3>1, <4>1 DEF FindAgent, FindAgentAgain
    <3>2. CASE CommitConnected(s) \/ CommitDisconnected(s)
      <4>1. \E b \in BOOLEAN : Write(s, b)
        BY <3>2 DEF CommitConnected, CommitDisconnected
      <4> QED BY <3>2, <4>1 DEF CommitConnected, CommitDisconnected, Write
    <3>3. CASE UNCHANGED <<seen, isConnected>>
      BY <3>3
    <3> QED BY <1>1, <3>1, <3>2, <3>3 DEF Handler, Refuse, Welcome, FailWelcome, Enter,
            LoopDisconnected, Unregister
  <2>4. connections' \in [Agents -> Sockets \cup {NoSocket}] /\ gauge' \in Int
    <3>1. CASE Enter(s) \/ LoopDisconnected(s)
      BY <3>1 DEF Enter, LoopDisconnected, Unregister
    <3>2. CASE UNCHANGED <<connections, gauge>>
      BY <3>2
    <3> QED BY <1>1, <3>1, <3>2 DEF Handler, Refuse, Welcome, FailWelcome, FindAgent,
            FindAgentAgain, CommitConnected, CommitDisconnected, process
  <2> QED BY <2>1, <2>2, <2>3, <2>4
<1>2. ASSUME NEW s \in Sockets, Disturbance(s) PROVE TypeOK'
  <2>1. ASSUME NEW a \in Agents \cup {NoAgent}, Connect(s, a) PROVE TypeOK'
    <3>1. alone' \in [Sockets -> BOOLEAN]
      BY <2>1 DEF Connect, NothingLeftOf
    <3> QED BY <2>1, <3>1 DEF Connect, Awaits, process
  <2>2. CASE LoseLink(s)
    BY <2>2 DEF LoseLink, process
  <2>3. CASE LoopMalformed(s)
    <3>1. pc' \in [Sockets -> Awaits] /\ UNCHANGED <<who, alive, alone>>
      BY <2>3 DEF LoopMalformed, Unregister, At, Awaits
    <3>2. connections' \in [Agents -> Sockets \cup {NoSocket}]
      BY <2>3 DEF LoopMalformed, Unregister
    <3>3. gauge' \in Int
      BY <2>3 DEF LoopMalformed, Unregister
    <3>4. UNCHANGED <<seen, isConnected, targets, sending, faults>>
      BY <2>3 DEF LoopMalformed, Unregister
    <3> QED BY <3>1, <3>2, <3>3, <3>4
  <2>4. CASE FailConnected(s) \/ FailDisconnected(s)
    BY <2>4 DEF FailConnected, FailDisconnected, At, Awaits, process
  <2> QED BY <1>2, <2>1, <2>2, <2>3, <2>4 DEF Disturbance
<1>3. CASE BeginBroadcast
  BY <1>3 DEF BeginBroadcast, Connected
<1>4. ASSUME NEW a \in Agents, PickAgent(a) PROVE TypeOK'
  BY <1>4 DEF PickAgent
<1>5. CASE Delivered \/ Undeliverable
  BY <1>5 DEF Delivered, Undeliverable
<1>6. CASE Restart
  BY <1>6 DEF Restart, Awaits
<1>7. CASE UNCHANGED vars
  BY <1>7 DEF vars
<1> QED BY <1>1, <1>2, <1>3, <1>4, <1>5, <1>6, <1>7 DEF Next, Broadcast

\* Nobody gets past the authentication without an agent.
LEMMA AuthenticatedStep == ASSUME TypeOK, Authenticated, [Next]_vars PROVE Authenticated'
<1> SUFFICES ASSUME NEW s \in Sockets
             PROVE  /\ pc'[s] \notin {"unused", "auth", "closed"} => who'[s] \in Agents
                    /\ pc'[s] = "unused" => who'[s] = NoAgent
  BY DEF Authenticated
<1>1. CASE \E x \in Sockets : Handler(x) \/ LoopMalformed(x) \/ FailConnected(x)
                              \/ FailDisconnected(x)
  <2> PICK x \in Sockets : Handler(x) \/ LoopMalformed(x) \/ FailConnected(x) \/ FailDisconnected(x)
    BY <1>1
  <2> PICK here \in Awaits \ Gone, next \in Awaits \ {"unused", "auth"} :
             /\ At(x, here, next)
             /\ here = "auth" /\ next # "closed" => who[x] # NoAgent
    BY HandlerMoves
  <2>1. who' = who /\ pc' = [pc EXCEPT ![x] = next] /\ pc[x] = here
    BY DEF At
  <2> QED BY <2>1 DEF Authenticated, TypeOK, Gone
<1>2. ASSUME NEW x \in Sockets, NEW a \in Agents \cup {NoAgent}, Connect(x, a)
      PROVE  /\ pc'[s] \notin {"unused", "auth", "closed"} => who'[s] \in Agents
             /\ pc'[s] = "unused" => who'[s] = NoAgent
  BY <1>2 DEF Connect, Authenticated, TypeOK
<1>3. CASE UNCHANGED <<pc, who>>
  BY <1>3 DEF Authenticated
<1>4. CASE Restart
  BY <1>4 DEF Restart, Authenticated
<1> QED BY <1>1, <1>2, <1>3, <1>4 DEF Next, Disturbance, LoseLink, Broadcast, BeginBroadcast,
        PickAgent, Delivered, Undeliverable, vars

\* No entry is left behind: an entry is made by the handler that enters its loop, and
\* leaving the loop removes the entry of the agent, so whatever entry it has.
LEMMA EntriesStep ==
  ASSUME ConnectionsInv, [Next]_vars PROVE EntriesAreServing'
<1> USE ConnectionsAssumption DEF ConnectionsInv, TypeOK
<1> DEFINE Keeps == /\ UNCHANGED <<connections, sending, who>>
                    /\ \A s \in Sockets : pc[s] = "serving" => pc'[s] = "serving"
<1>1. ASSUME Keeps PROVE EntriesAreServing'
  BY <1>1 DEF EntriesAreServing
<1>2. ASSUME NEW s \in Sockets, Unregister(s) PROVE EntriesAreServing'
  <2>1. who[s] \in Agents
    BY <1>2 DEF Unregister, At, Authenticated
  <2>2. ASSUME NEW a \in Agents, connections'[a] # NoSocket
        PROVE  who'[connections'[a]] = a /\ pc'[connections'[a]] = "serving"
    <3>1. a # who[s] /\ connections'[a] = connections[a] /\ who' = who
      BY <1>2, <2>1, <2>2 DEF Unregister, At
    <3>2. who[connections[a]] = a /\ pc[connections[a]] = "serving" /\ connections[a] \in Sockets
      BY <2>2, <3>1 DEF EntriesAreServing
    <3>3. connections[a] # s
      BY <3>1, <3>2
    <3> QED BY <1>2, <3>1, <3>2, <3>3 DEF Unregister, At
  <2>3. sending' = sending /\ who' = who
    BY <1>2 DEF Unregister, At
  <2> QED BY <2>2, <2>3 DEF EntriesAreServing
<1>3. ASSUME NEW s \in Sockets, Handler(s) PROVE EntriesAreServing'
  <2>1. CASE Enter(s)
    <3>1. who[s] \in Agents /\ who' = who /\ pc' = [pc EXCEPT ![s] = "serving"]
          /\ connections' = [connections EXCEPT ![who[s]] = s] /\ sending' = sending
      BY <2>1 DEF Enter, At, Authenticated
    <3> QED BY <3>1 DEF EntriesAreServing
  <2>2. CASE LoopDisconnected(s)
    BY <1>2, <2>2 DEF LoopDisconnected
  <2>3. CASE ~Enter(s) /\ ~LoopDisconnected(s)
    <3>1. Keeps
      BY <1>3, <2>3 DEF Handler, Refuse, Welcome, FailWelcome, FindAgent, FindAgentAgain,
         CommitConnected, CommitDisconnected, At, process
    <3> QED BY <1>1, <3>1
  <2> QED BY <2>1, <2>2, <2>3
<1>4. ASSUME NEW s \in Sockets, Disturbance(s) PROVE EntriesAreServing'
  <2>1. ASSUME NEW a \in Agents \cup {NoAgent}, Connect(s, a) PROVE EntriesAreServing'
    <3>1. UNCHANGED <<connections, sending>> /\ pc[s] = "unused"
          /\ pc' = [pc EXCEPT ![s] = "auth"] /\ who' = [who EXCEPT ![s] = a]
      BY <2>1 DEF Connect, process
    <3>2. \A b \in Agents : connections[b] # s
      BY <3>1 DEF EntriesAreServing
    <3>3. sending # NoSend => sending[2] # s
      <4>1. who[s] \notin Agents
        BY <3>1 DEF Authenticated
      <4> QED BY <4>1 DEF EntriesAreServing
    <3> QED BY <3>1, <3>2, <3>3 DEF EntriesAreServing
  <2>2. CASE LoopMalformed(s)
    BY <1>2, <2>2 DEF LoopMalformed
  <2>3. CASE LoseLink(s) \/ FailConnected(s) \/ FailDisconnected(s)
    <3>1. Keeps
      BY <2>3 DEF LoseLink, FailConnected, FailDisconnected, At, process
    <3> QED BY <1>1, <3>1
  <2> QED BY <1>4, <2>1, <2>2, <2>3 DEF Disturbance
<1>5. ASSUME NEW a \in Agents, PickAgent(a) PROVE EntriesAreServing'
  <2>1. UNCHANGED <<connections, who, pc>>
        /\ sending' = IF connections[a] = NoSocket THEN NoSend ELSE <<a, connections[a]>>
    BY <1>5 DEF PickAgent
  <2> QED BY <2>1 DEF EntriesAreServing
<1>6. CASE BeginBroadcast
  BY <1>1, <1>6 DEF BeginBroadcast
<1>7. CASE Delivered \/ Undeliverable
  <2>1. sending' = NoSend /\ UNCHANGED <<who, pc>>
        /\ \A a \in Agents : connections'[a] # NoSocket => connections'[a] = connections[a]
    BY <1>7 DEF Delivered, Undeliverable
  <2> QED BY <2>1 DEF EntriesAreServing
<1>8. CASE Restart
  BY <1>8 DEF Restart, EntriesAreServing
<1>9. CASE UNCHANGED vars
  BY <1>1, <1>9 DEF vars
<1> QED BY <1>3, <1>4, <1>5, <1>6, <1>7, <1>8, <1>9 DEF Next, Broadcast

\* What another handler does leaves the sole handler of an agent alone.
LEMMA SoleUndisturbed ==
  ASSUME NEW s \in Sockets, SoleHandler(s), pc[s] \notin Gone,
         who' = who, sending' = sending, pc'[s] = pc[s], seen'[s] = seen[s],
         pc[s] # "auth" => who[s] \in Agents,
         who[s] \in Agents => /\ isConnected'[who[s]] = isConnected[who[s]]
                              /\ connections'[who[s]] = connections[who[s]],
         alive'[s] => alive[s],
         \A x \in Sockets : who[x] = who[s] /\ x # s => pc'[x] = pc[x]
  PROVE  SoleHandler(s)'
BY DEF SoleHandler, Gone

\* A handler that is there was there before, or its connection has just been made.
LEMMA HandlerOrigin ==
  ASSUME TypeOK, [Next]_vars, NEW s \in Sockets, pc[s] \in Gone, pc'[s] \notin Gone
  PROVE  \E a \in Agents \cup {NoAgent} : Connect(s, a)
<1> USE DEF TypeOK, Gone
<1>1. ASSUME NEW x \in Sockets, Handler(x) PROVE FALSE
  BY <1>1 DEF Handler, Refuse, Welcome, FailWelcome, FindAgent, FindAgentAgain,
     CommitConnected, CommitDisconnected, Enter, LoopDisconnected, Unregister, At
<1>2. ASSUME NEW x \in Sockets, Disturbance(x)
      PROVE  \E a \in Agents \cup {NoAgent} : Connect(s, a)
  <2>1. ASSUME NEW a \in Agents \cup {NoAgent}, Connect(x, a)
        PROVE  \E b \in Agents \cup {NoAgent} : Connect(s, b)
    <3>1. x = s
      BY <2>1 DEF Connect
    <3> QED BY <2>1, <3>1
  <2>2. ~(LoseLink(x) \/ LoopMalformed(x) \/ FailConnected(x) \/ FailDisconnected(x))
    BY DEF LoseLink, LoopMalformed, FailConnected, FailDisconnected, Unregister, At
  <2> QED BY <1>2, <2>1, <2>2 DEF Disturbance
<1>3. ~(Broadcast \/ Restart \/ UNCHANGED vars)
  BY DEF Broadcast, BeginBroadcast, PickAgent, Delivered, Undeliverable, Restart, vars
<1> QED BY <1>1, <1>2, <1>3 DEF Next

\* The sole handler of an agent stays right about column and registry.
LEMMA SoleStep == ASSUME ConnectionsInv, [Next]_vars PROVE SoleHandlers'
<1> SUFFICES ASSUME NEW s \in Sockets, alone'[s], pc'[s] \notin Gone PROVE SoleHandler(s)'
  BY DEF SoleHandlers
<1> USE ConnectionsAssumption DEF ConnectionsInv, TypeOK
<1>1. CASE \E a \in Agents \cup {NoAgent} : Connect(s, a)
  <2> PICK a \in Agents \cup {NoAgent} : Connect(s, a)
    BY <1>1
  <2>1. /\ pc' = [pc EXCEPT ![s] = "auth"] /\ who' = [who EXCEPT ![s] = a]
        /\ sending' = sending /\ NothingLeftOf(a)
    BY DEF Connect, process
  <2> QED BY <2>1 DEF SoleHandler, NothingLeftOf
<1>2. CASE ~(\E a \in Agents \cup {NoAgent} : Connect(s, a))
  <2> DEFINE others == Sockets \ {s}
  <2>1. alone[s] /\ pc[s] \notin Gone /\ who'[s] = who[s]
    <3>1. ASSUME NEW x \in others, NEW a \in Agents \cup {NoAgent}, Connect(x, a)
          PROVE  alone[s] /\ pc[s] \notin Gone /\ who'[s] = who[s]
      BY <3>1 DEF Connect
    <3>2. CASE UNCHANGED <<alone, who>>
      <4>1. pc[s] \notin Gone
        BY <1>2, HandlerOrigin
      <4> QED BY <3>2, <4>1
    <3>3. ASSUME NEW x \in Sockets, Handler(x) \/ Disturbance(x),
                 \A a \in Agents \cup {NoAgent} : ~Connect(x, a)
          PROVE  UNCHANGED <<alone, who>>
      <4>1. CASE LoseLink(x)
        BY <4>1 DEF LoseLink
      <4>2. CASE ~LoseLink(x)
        BY <3>3, <4>2, HandlerMoves DEF Disturbance, At
      <4> QED BY <4>1, <4>2
    <3>4. CASE Broadcast \/ UNCHANGED vars
      BY <3>2, <3>4 DEF Broadcast, BeginBroadcast, PickAgent, Delivered, Undeliverable, vars
    <3>5. CASE Restart
      BY <3>2, <3>5 DEF Restart
    <3> QED BY <1>2, <3>1, <3>2, <3>3, <3>4, <3>5 DEF Next
  <2>2. SoleHandler(s)
    BY <2>1 DEF SoleHandlers
  <2>3. \A x \in others : who[x] = who[s] => pc[x] \in Gone
    BY <2>2 DEF SoleHandler
  <2>4. pc[s] # "auth" => who[s] \in Agents
    BY <2>1 DEF Authenticated, Gone
  <2>5. ASSUME NEW x \in others, Handler(x) PROVE SoleHandler(s)'
    <3>1. who[x] # who[s]
      BY <2>3, <2>5 DEF Gone, Handler, Refuse, Welcome, FailWelcome, FindAgent, FindAgentAgain,
         CommitConnected, CommitDisconnected, Enter, LoopDisconnected, Unregister, At
    <3>2. /\ UNCHANGED <<who, alive, sending>>
          /\ \A y \in Sockets \ {x} : pc'[y] = pc[y] /\ seen'[y] = seen[y]
          /\ who[s] \in Agents => /\ isConnected'[who[s]] = isConnected[who[s]]
                                  /\ connections'[who[s]] = connections[who[s]]
      BY <2>5, <3>1 DEF Handler, Refuse, Welcome, FailWelcome, FindAgent, FindAgentAgain,
         CommitConnected, CommitDisconnected, Enter, LoopDisconnected, Unregister, At, Write,
         process
    <3> QED BY <2>1, <2>2, <2>4, <3>1, <3>2, SoleUndisturbed
  <2>6. ASSUME NEW x \in others, Disturbance(x) PROVE SoleHandler(s)'
    <3>1. ASSUME NEW a \in Agents \cup {NoAgent}, Connect(x, a) PROVE SoleHandler(s)'
      <4>1. a # who[s] /\ who' = [who EXCEPT ![x] = a] /\ pc' = [pc EXCEPT ![x] = "auth"]
            /\ alive'[s] = alive[s]
            /\ UNCHANGED <<seen, isConnected, connections, sending>>
        BY <3>1 DEF Connect, process
      <4> QED BY <2>2, <4>1 DEF SoleHandler
    <3>2. CASE LoseLink(x)
      BY <2>1, <2>2, <2>4, <3>2, SoleUndisturbed DEF LoseLink, process
    <3>3. CASE LoopMalformed(x) \/ FailConnected(x) \/ FailDisconnected(x)
      <4>1. who[x] # who[s]
        BY <2>3, <3>3 DEF Gone, LoopMalformed, FailConnected, FailDisconnected, Unregister, At
      <4>2. /\ UNCHANGED <<who, alive, sending, seen, isConnected>>
            /\ \A y \in Sockets \ {x} : pc'[y] = pc[y]
            /\ who[s] \in Agents => connections'[who[s]] = connections[who[s]]
        BY <3>3, <4>1 DEF LoopMalformed, FailConnected, FailDisconnected, Unregister, At, process
      <4> QED BY <2>1, <2>2, <2>4, <4>1, <4>2, SoleUndisturbed
    <3> QED BY <2>6, <3>1, <3>2, <3>3 DEF Disturbance
  <2>7. CASE Handler(s)
    <3>1. /\ UNCHANGED <<who, alive, sending>>
          /\ \A y \in others : pc'[y] = pc[y]
      BY <2>7 DEF Handler, Refuse, Welcome, FailWelcome, FindAgent, FindAgentAgain,
         CommitConnected, CommitDisconnected, Enter, LoopDisconnected, Unregister, At, process
    <3>2. /\ \A x \in others : who'[x] = who'[s] => pc'[x] \in Gone
          /\ \A x \in others : sending' # <<who'[s], x>>
      BY <2>2, <3>1 DEF SoleHandler
    <3>3. pc'[s] = "flagging" /\ seen'[s] => isConnected'[who[s]]
      <4>1. CASE FindAgent(s)
        <5>1. seen'[s] = isConnected[who[s]] /\ isConnected' = isConnected
          BY <4>1 DEF FindAgent
        <5> QED BY <5>1
      <4>2. CASE ~FindAgent(s)
        BY <2>7, <4>2 DEF Handler, Refuse, Welcome, FailWelcome, FindAgentAgain,
           CommitConnected, CommitDisconnected, Enter, LoopDisconnected, Unregister, At
      <4> QED BY <4>1, <4>2
    <3>4. pc'[s] \in {"welcoming", "entering", "serving"} => isConnected'[who[s]]
      <4>1. CASE CommitConnected(s)
        <5>1. pc[s] = "flagging" /\ who[s] \in Agents /\ Write(s, TRUE)
          BY <4>1 DEF CommitConnected, At, Authenticated
        <5>2. CASE seen[s]
          BY <2>2, <5>1, <5>2 DEF SoleHandler, Write
        <5>3. CASE ~seen[s]
          BY <5>1, <5>3 DEF Write
        <5> QED BY <5>2, <5>3
      <4>2. CASE Welcome(s) \/ Enter(s)
        BY <2>2, <4>2 DEF Welcome, Enter, At, SoleHandler
      <4>3. CASE Refuse(s) \/ FindAgent(s) \/ FailWelcome(s) \/ FindAgentAgain(s)
        BY <4>3 DEF Refuse, FindAgent, FailWelcome, FindAgentAgain, At
      <4>4. CASE LoopDisconnected(s) \/ CommitDisconnected(s)
        <5>1. At(s, "serving", "leaving") \/ At(s, "unflagging", "closed")
          BY <4>4 DEF LoopDisconnected, Unregister, CommitDisconnected
        <5>2. pc'[s] \in {"leaving", "closed"}
          BY <5>1 DEF At
        <5> QED BY <5>2
      <4> QED BY <2>7, <4>1, <4>2, <4>3, <4>4 DEF Handler
    <3>5. pc'[s] = "serving" /\ alive'[s] => connections'[who[s]] = s
      <4>1. CASE Enter(s)
        BY <4>1 DEF Enter, At, Authenticated
      <4>2. CASE ~Enter(s)
        BY <2>7, <4>2 DEF Handler, Refuse, Welcome, FailWelcome, FindAgent, FindAgentAgain,
           CommitConnected, CommitDisconnected, LoopDisconnected, Unregister, At
      <4> QED BY <4>1, <4>2
    <3> QED BY <3>1, <3>2, <3>3, <3>4, <3>5 DEF SoleHandler
  <2>8. CASE Disturbance(s)
    <3>1. CASE LoseLink(s)
      BY <2>1, <2>2, <2>4, <3>1, SoleUndisturbed DEF LoseLink, process
    <3>2. CASE LoopMalformed(s)
      <4>1. pc'[s] = "leaving" /\ UNCHANGED <<who, sending>> /\ \A y \in others : pc'[y] = pc[y]
        BY <3>2 DEF LoopMalformed, Unregister, At
      <4> QED BY <2>2, <4>1 DEF SoleHandler
    <3>3. CASE FailConnected(s) \/ FailDisconnected(s)
      BY <3>3 DEF FailConnected, FailDisconnected, At, Gone
    <3> QED BY <1>2, <2>8, <3>1, <3>2, <3>3 DEF Disturbance
  <2>9. ASSUME NEW a \in Agents, PickAgent(a) PROVE SoleHandler(s)'
    <3>1. UNCHANGED <<pc, who, alive, seen, connections, isConnected>>
          /\ sending' = IF connections[a] = NoSocket THEN NoSend ELSE <<a, connections[a]>>
      BY <2>9 DEF PickAgent
    <3>2. ASSUME a = who[s] PROVE connections[a] \in {NoSocket, s}
      BY <2>3, <3>2 DEF EntriesAreServing, Gone
    <3>3. \A x \in others : sending' # <<who[s], x>>
      BY <3>1, <3>2
    <3> QED BY <2>2, <3>1, <3>3 DEF SoleHandler
  <2>10. CASE Undeliverable
    <3>1. /\ UNCHANGED <<pc, who, alive, seen, isConnected>>
          /\ sending' = NoSend
          /\ connections' = [connections EXCEPT ![sending[1]] = NoSocket]
      BY <2>10 DEF Undeliverable
    <3>2. pc[s] = "serving" /\ alive[s] => connections'[who[s]] = s
      <4> SUFFICES ASSUME pc[s] = "serving", alive[s] PROVE connections'[who[s]] = s
        OBVIOUS
      <4>1. sending[1] # who[s]
        <5>1. sending = <<sending[1], sending[2]>> /\ sending[2] \in Sockets
          BY <2>10 DEF Undeliverable
        <5>2. sending[2] # s
          BY <2>10 DEF Undeliverable
        <5> QED BY <2>2, <5>1, <5>2 DEF SoleHandler
      <4>2. connections[who[s]] = s
        BY <2>2 DEF SoleHandler
      <4> QED BY <3>1, <4>1, <4>2
    <3>3. \A x \in others : sending' # <<who[s], x>>
      <4>1. who[s] \in Agents => \A x \in others : <<who[s], x>> # NoSend
        OBVIOUS
      <4> QED BY <3>1, <4>1
    <3> QED BY <2>2, <3>1, <3>2, <3>3 DEF SoleHandler
  <2>11. CASE BeginBroadcast \/ Delivered \/ UNCHANGED vars
    BY <2>2, <2>11 DEF BeginBroadcast, Delivered, vars, SoleHandler
  <2>12. CASE Restart
    BY <2>12 DEF Restart, Gone
  <2> QED BY <2>5, <2>6, <2>7, <2>8, <2>9, <2>10, <2>11, <2>12 DEF Next, Broadcast
<1> QED BY <1>1, <1>2

-----------------------------------------------------------------------------
\* ConnectionsInv is an inductive invariant of the connections.
THEOREM ConnectionsAlwaysInv == Spec => []ConnectionsInv
<1>1. ConnectionsInv /\ [Next]_vars => ConnectionsInv'
  <2> SUFFICES ASSUME ConnectionsInv, [Next]_vars PROVE ConnectionsInv'
    OBVIOUS
  <2>1. TypeOK' /\ Authenticated'
    BY TypeStep, AuthenticatedStep DEF ConnectionsInv
  <2>2. EntriesAreServing' /\ SoleHandlers'
    BY EntriesStep, SoleStep
  <2> QED BY <2>1, <2>2 DEF ConnectionsInv
<1> QED BY <1>1, InitInv, PTL DEF Spec

\* Columns, registry and handlers keep their types, for any number of sockets.
THEOREM ConnectionsTypeOK == Spec => []TypeOK
<1>1. ConnectionsInv => TypeOK
  BY DEF ConnectionsInv
<1> QED BY <1>1, ConnectionsAlwaysInv, PTL

\* An entry of the registry is always a socket of its own agent that is being served:
\* no update with an agent's balance is ever sent to another agent's socket.
THEOREM NoStaleEntries == Spec => []EntriesAreServing
<1>1. ConnectionsInv => EntriesAreServing
  BY DEF ConnectionsInv
<1> QED BY <1>1, ConnectionsAlwaysInv, PTL

\* A client with one connection at a time is listed and marked while it is served,
\* whatever its earlier connections, failed commits and restarts left behind.
THEOREM SoleConnectionsAreListed == Spec => []SoleConnectionIsListed
<1>1. ConnectionsInv => SoleConnectionIsListed
  <2> SUFFICES ASSUME ConnectionsInv, NEW s \in Sockets, pc[s] = "serving", alive[s], alone[s]
               PROVE  connections[who[s]] = s /\ isConnected[who[s]]
    BY DEF SoleConnectionIsListed
  <2>1. SoleHandler(s)
    BY DEF ConnectionsInv, SoleHandlers, Gone
  <2> QED BY <2>1 DEF SoleHandler
<1> QED BY <1>1, ConnectionsAlwaysInv, PTL
=============================================================================
