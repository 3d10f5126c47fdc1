---------------------------- MODULE Connections ----------------------------
(***************************************************************************)
(* The agents' connections: agent_websocket, _authenticate and             *)
(* broadcast_to_agent of api/ws.py, with the loop of the tick engine that  *)
(* broadcasts to every connected agent.                                    *)
(*                                                                         *)
(* Every socket has a handler, a coroutine of its own that stands at one   *)
(* await at a time (pc); the broadcast is one more.  An agent may open a   *)
(* second socket while the handler of its first is still there: a lost     *)
(* link is noticed by the client long before the server's receive raises.  *)
(***************************************************************************)
EXTENDS Integers, FiniteSets

CONSTANTS Agents,     (* the agents with a valid token                     *)
          Sockets,    (* the connections clients will ever open            *)
          NoAgent,    (* whose socket it is if authentication is refused   *)
          NoSocket,   (* the registry has no entry                         *)
          NoSend,     (* the broadcast awaits no send                      *)
          MaxFaults   (* bound: failed commits and restarts                *)

ASSUME ConnectionsAssumption ==
  /\ NoAgent \notin Agents
  /\ NoSocket \notin Sockets
  /\ NoSend \notin (Agents \cup {NoAgent}) \X Sockets
  /\ MaxFaults \in Nat

VARIABLES pc,           (* pc[s]: the await the handler of s stands at      *)
          who,          (* who[s]: the agent whose token s presents         *)
          alive,        (* alive[s]: the client's end of s is still there   *)
          seen,         (* seen[s]: is_connected as the open session read it *)
          connections,  (* _connections: the socket of each agent           *)
          isConnected,  (* isConnected[a]: column agents.is_connected       *)
          gauge,        (* metric agents_connected                          *)
          targets,      (* agents the running broadcast has still to reach  *)
          sending,      (* the send the broadcast awaits: agent and socket  *)
          alone,        (* history: s never shared its agent with another   *)
          faults        (* failed commits and restarts so far               *)

process  == <<connections, gauge, targets, sending>>
vars     == <<pc, who, alive, seen, connections, isConnected, gauge,
              targets, sending, alone, faults>>

Awaits == {"unused", "auth", "flagging", "welcoming", "entering", "serving",
           "leaving", "unflagging", "closed"}
Gone   == {"unused", "closed"}

Init ==
  /\ pc = [s \in Sockets |-> "unused"]
  /\ who = [s \in Sockets |-> NoAgent]
  /\ alive = [s \in Sockets |-> FALSE]
  /\ seen = [s \in Sockets |-> FALSE]
  /\ connections = [a \in Agents |-> NoSocket]
  /\ isConnected = [a \in Agents |-> FALSE]
  /\ gauge = 0
  /\ targets = {}
  /\ sending = NoSend
  /\ alone = [s \in Sockets |-> FALSE]
  /\ faults = 0

-----------------------------------------------------------------------------
(* The clients                                                             *)

\* Nothing of an earlier connection of a is left in the process.
NothingLeftOf(a) ==
  /\ \A x \in Sockets : who[x] = a => pc[x] \in Gone
  /\ \A x \in Sockets : sending # <<a, x>>

\* A client opens s and sends its first message; NoAgent is a token nobody has, or
\* a message that is no authentication.
Connect(s, a) ==
  /\ pc[s] = "unused"
  /\ pc' = [pc EXCEPT ![s] = "auth"]
  /\ who' = [who EXCEPT ![s] = a]
  /\ alive' = [alive EXCEPT ![s] = TRUE]
  /\ alone' = [x \in Sockets |-> IF x = s THEN NothingLeftOf(a) ELSE alone[x] /\ who[x] # a]
  /\ UNCHANGED <<seen, isConnected, process, faults>>

\* The client closes s, or its link is lost.
LoseLink(s) ==
  /\ pc[s] \notin Gone
  /\ alive[s]
  /\ alive' = [alive EXCEPT ![s] = FALSE]
  /\ UNCHANGED <<pc, who, seen, isConnected, process, alone, faults>>

-----------------------------------------------------------------------------
(* _authenticate                                                           *)

At(s, here, next) ==
  /\ pc[s] = here
  /\ pc' = [pc EXCEPT ![s] = next]
  /\ UNCHANGED <<who, alive, alone>>

Refuse(s) ==
  /\ At(s, "auth", "closed")
  /\ who[s] = NoAgent
  /\ UNCHANGED <<seen, isConnected, process, faults>>

\* The SELECT of the agent by the hash of its token.
FindAgent(s) ==
  /\ At(s, "auth", "flagging")
  /\ who[s] # NoAgent
  /\ seen' = [seen EXCEPT ![s] = isConnected[who[s]]]
  /\ UNCHANGED <<isConnected, process, faults>>

\* A commit writes the column only if the session changed what it had read.
Write(s, value) ==
  isConnected' = IF seen[s] = value THEN isConnected
                 ELSE [isConnected EXCEPT ![who[s]] = value]

CommitConnected(s) ==
  /\ At(s, "flagging", "welcoming")
  /\ Write(s, TRUE)
  /\ UNCHANGED <<seen, process, faults>>

\* The commit raises: agent_id is still None and the finally clause does nothing.
FailConnected(s) ==
  /\ At(s, "flagging", "closed")
  /\ faults < MaxFaults
  /\ faults' = faults + 1
  /\ UNCHANGED <<seen, isConnected, process>>

Welcome(s) ==
  /\ At(s, "welcoming", "entering")
  /\ UNCHANGED <<seen, isConnected, process, faults>>

\* The send raises since the client is gone; again agent_id is None.
FailWelcome(s) ==
  /\ At(s, "welcoming", "closed")
  /\ ~alive[s]
  /\ UNCHANGED <<seen, isConnected, process, faults>>

-----------------------------------------------------------------------------
(* agent_websocket                                                         *)

Enter(s) ==
  /\ At(s, "entering", "serving")
  /\ gauge' = gauge + 1
  /\ connections' = [connections EXCEPT ![who[s]] = s]
  /\ UNCHANGED <<seen, isConnected, targets, sending, faults>>

\* Faulty variant: the registry is left to broadcast_to_agent to clean.
UnregisterLater(s) ==
  /\ At(s, "serving", "leaving")
  /\ gauge' = gauge - 1
  /\ UNCHANGED <<connections, seen, isConnected, targets, sending, faults>>

\* The finally clause up to its first await: the entry of the agent goes, whichever
\* socket it holds.
Unregister(s) ==
  /\ At(s, "serving", "leaving")
  /\ gauge' = gauge - 1
  /\ connections' = [connections EXCEPT ![who[s]] = NoSocket]
  /\ UNCHANGED <<seen, isConnected, targets, sending, faults>>

\* The message loop ends because receive or send raises ...
LoopDisconnected(s) == ~alive[s] /\ Unregister(s)

\* ... or because of a message that is no JSON object, which nobody catches.
LoopMalformed(s) == alive[s] /\ Unregister(s)

FindAgentAgain(s) ==
  /\ At(s, "leaving", "unflagging")
  /\ seen' = [seen EXCEPT ![s] = isConnected[who[s]]]
  /\ UNCHANGED <<isConnected, process, faults>>

CommitDisconnected(s) ==
  /\ At(s, "unflagging", "closed")
  /\ Write(s, FALSE)
  /\ UNCHANGED <<seen, process, faults>>

\* The commit raises; the exception is logged.
FailDisconnected(s) ==
  /\ At(s, "unflagging", "closed")
  /\ faults < MaxFaults
  /\ faults' = faults + 1
  /\ UNCHANGED <<seen, isConnected, process>>

-----------------------------------------------------------------------------
(* _broadcast_tick_update and broadcast_to_agent                         *)

Connected == {a \in Agents : connections[a] # NoSocket}

BeginBroadcast ==
  /\ targets = {} /\ sending = NoSend
  /\ Connected # {}
  /\ targets' = Connected
  /\ UNCHANGED <<pc, who, alive, seen, connections, isConnected, gauge, sending, alone, faults>>

\* Faulty variant: an agent without an entry is not left out.
PickUnchecked(a) ==
  /\ sending = NoSend
  /\ a \in targets
  /\ targets' = targets \ {a}
  /\ sending' = <<a, connections[a]>>
  /\ UNCHANGED <<pc, who, alive, seen, connections, isConnected, gauge, alone, faults>>

\* The entry is read again, after the awaits that fetched the agent's own data.
PickAgent(a) ==
  /\ sending = NoSend
  /\ a \in targets
  /\ targets' = targets \ {a}
  /\ sending' = IF connections[a] = NoSocket THEN NoSend ELSE <<a, connections[a]>>
  /\ UNCHANGED <<pc, who, alive, seen, connections, isConnected, gauge, alone, faults>>

\* Faulty variant: the entry is dropped whatever the send did.
DropAfterSend ==
  /\ sending # NoSend
  /\ sending' = NoSend
  /\ connections' = [connections EXCEPT ![sending[1]] = NoSocket]
  /\ UNCHANGED <<pc, who, alive, seen, isConnected, gauge, targets, alone, faults>>

Delivered ==
  /\ sending # NoSend
  /\ sending' = NoSend
  /\ UNCHANGED <<pc, who, alive, seen, connections, isConnected, gauge, targets, alone, faults>>

\* The send raises: the entry of the agent goes.
Undeliverable ==
  /\ sending # NoSend
  /\ ~alive[sending[2]] \/ pc[sending[2]] # "serving"
  /\ sending' = NoSend
  /\ connections' = [connections EXCEPT ![sending[1]] = NoSocket]
  /\ UNCHANGED <<pc, who, alive, seen, isConnected, gauge, targets, alone, faults>>

\* The process dies and comes back: memory is gone, the column is not.
Restart ==
  /\ faults < MaxFaults
  /\ faults' = faults + 1
  /\ pc' = [s \in Sockets |-> IF pc[s] = "unused" THEN "unused" ELSE "closed"]
  /\ alive' = [s \in Sockets |-> FALSE]
  /\ connections' = [a \in Agents |-> NoSocket]
  /\ gauge' = 0
  /\ targets' = {}
  /\ sending' = NoSend
  /\ UNCHANGED <<who, seen, isConnected, alone>>

-----------------------------------------------------------------------------
\* What the process does of itself.
Handler(s) ==
  \/ Refuse(s) \/ FindAgent(s) \/ CommitConnected(s) \/ Welcome(s) \/ FailWelcome(s)
  \/ Enter(s) \/ LoopDisconnected(s) \/ FindAgentAgain(s) \/ CommitDisconnected(s)

Broadcast ==
  \/ BeginBroadcast
  \/ \E a \in Agents : PickAgent(a)
  \/ Delivered \/ Undeliverable

\* What clients and the database do to it.
Disturbance(s) ==
  \/ \E a \in Agents \cup {NoAgent} : Connect(s, a)
  \/ LoseLink(s) \/ LoopMalformed(s) \/ FailConnected(s) \/ FailDisconnected(s)

Next ==
  \/ \E s \in Sockets : Handler(s) \/ Disturbance(s)
  \/ Broadcast
  \/ Restart

Spec == Init /\ [][Next]_vars

\* asyncio runs every coroutine that is ready, and a receive on a lost link raises
\* (the server pings its peers); no client has to come, leave or misbehave, and
\* nothing has to be broadcast.
FairSpec ==
  /\ Spec
  /\ \A s \in Sockets : WF_vars(Handler(s))

-----------------------------------------------------------------------------
(* Properties                                                              *)

TypeOK ==
  /\ pc \in [Sockets -> Awaits]
  /\ who \in [Sockets -> Agents \cup {NoAgent}]
  /\ alive \in [Sockets -> BOOLEAN]
  /\ seen \in [Sockets -> BOOLEAN]
  /\ connections \in [Agents -> Sockets \cup {NoSocket}]
  /\ isConnected \in [Agents -> BOOLEAN]
  /\ gauge \in Int
  /\ targets \in SUBSET Agents
  /\ sending \in (Agents \X Sockets) \cup {NoSend}
  /\ alone \in [Sockets -> BOOLEAN]
  /\ faults \in 0..MaxFaults

\* No stale entry: whatever connections come and go, an entry of _connections is a
\* socket that its own agent authenticated and whose handler is in the message loop,
\* and so an update with an agent's balance is only sent to a socket of that agent.
EntriesAreServing ==
  /\ \A a \in Agents : connections[a] # NoSocket =>
       /\ who[connections[a]] = a
       /\ pc[connections[a]] = "serving"
  /\ sending # NoSend => who[sending[2]] = sending[1]

\* A client that never has two connections at a time can rely on the registry and on
\* the column: while it is served and its link is up it is sent updates and is known
\* as connected, whatever earlier connections, failed commits and restarts left.
SoleConnectionIsListed ==
  \A s \in Sockets :
    pc[s] = "serving" /\ alive[s] /\ alone[s] =>
      connections[who[s]] = s /\ isConnected[who[s]]

\* The entry of a lost connection goes eventually, even if nothing is ever sent to it.
LostEntriesGo ==
  \A a \in Agents, s \in Sockets :
    (connections[a] = s /\ ~alive[s]) ~> connections[a] # s

\* get_connected_agents: the "list of currently connected agent IDs".  An agent that is
\* being served over a working link is on it.
ServedAgentsAreListed ==
  \A s \in Sockets : pc[s] = "serving" /\ alive[s] => who[s] \in Connected

=============================================================================
