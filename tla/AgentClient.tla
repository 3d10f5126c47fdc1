---------------------------- MODULE AgentClient ----------------------------
(* One agent process: the crash-recovery loop of __main__.main, the agent     *)
(* loop of run_agent, and the three asyncio tasks that share one              *)
(* ServerConnection (connection.py): the loop itself, the listener and the    *)
(* heartbeat.  A task runs undisturbed between two awaits; every await is a   *)
(* value of `main`, `listener` or `heartbeat` at which the others, a signal   *)
(* or the network may act.  Times (timeouts, back-off, intervals) are left    *)
(* out: whatever a timer bounds may end at any moment.                        *)
EXTENDS Naturals

CONSTANTS
  MAX_ATTEMPTS,       \* max_reconnect_attempts of the config; 0 is "unlimited"
  MAX_RETRIES,        \* max_retries of the config: tries of one decision
  MAX_CRASH_RESTARTS, \* of __main__
  BUFFER,             \* frames a websocket holds before it stops reading
  QueueBound          \* bound of the model: no message is sent to a longer queue

ASSUME ClientConstants ==
  /\ MAX_ATTEMPTS \in Nat
  /\ MAX_RETRIES \in Nat \ {0}
  /\ MAX_CRASH_RESTARTS \in Nat \ {0}
  /\ BUFFER \in Nat \ {0}
  /\ QueueBound \in Nat \ {0}

VARIABLES
  main,      \* where the process is; see Places
  state,     \* ServerConnection._state
  shutdown,  \* _shutdown_event is set
  link,      \* the websocket behind _ws; see Links
  unread,    \* frames received on it that nobody has read
  listener,  \* the task of listen()
  heartbeat, \* the task of _heartbeat_loop()
  queue,     \* messages in _message_queue
  attempt,   \* attempt of connect(); counts only while attempts are limited
  retry,     \* attempt of decide()
  crashes,   \* crash_count of main(), of all lives of the process
  up         \* the server answers

vars == <<main, state, shutdown, link, unread, listener, heartbeat, queue,
          attempt, retry, crashes, up>>

(* Awaits of the agent loop: in connect(), in get_message(), in decide() and  *)
(* at the send; then the finally of run_agent after a return or a crash, and  *)
(* the process between two lives or over.                                     *)
Connecting == {"dialing", "authenticating"}
InLoop     == {"top", "reading", "deciding", "sending"}
Over       == {"exited", "gave_up"}
Places     == Connecting \union {"backoff"} \union InLoop
                \union {"leaving", "crashing", "resting"} \union Over

ConnectionState == {"disconnected", "connecting", "authenticating",
                    "connected", "reconnecting", "shutting_down"}

(* "stale": the peer is gone and nothing has told the socket; "clean" and     *)
(* "broken": closed with a normal code, or otherwise.                         *)
Links == {"none", "open", "stale", "clean", "broken"}

Running == main \notin {"resting"} \union Over
Closed  == link \in {"clean", "broken"}
Paused  == unread = BUFFER /\ listener # "listening" \* nobody drains: no pong
----------------------------------------------------------------------------
(* A new life: run_agent makes a new ServerConnection and calls connect().    *)
Init ==
  /\ main = "dialing" /\ state = "connecting" /\ attempt = 1 /\ retry = 1
  /\ shutdown = FALSE /\ link = "none" /\ unread = 0 /\ queue = 0
  /\ listener = "none" /\ heartbeat = "none"
  /\ crashes = 0 /\ up \in BOOLEAN

(* Mutants of Attempt: one attempt too many; the event is not looked at.      *)
AttemptOnceMore(n) ==
  \/ /\ shutdown
     /\ state' = "shutting_down" /\ main' = "leaving"
     /\ UNCHANGED attempt
  \/ /\ ~shutdown
     /\ MAX_ATTEMPTS > 0 /\ n > MAX_ATTEMPTS + 1
     /\ main' = "leaving"
     /\ UNCHANGED <<state, attempt>>
  \/ /\ ~shutdown
     /\ MAX_ATTEMPTS > 0 => n <= MAX_ATTEMPTS + 1
     /\ state' = "connecting" /\ main' = "dialing"
     /\ attempt' = IF MAX_ATTEMPTS > 0 THEN n ELSE 1

AttemptDespiteShutdown(n) ==
  \/ /\ MAX_ATTEMPTS > 0 /\ n > MAX_ATTEMPTS
     /\ main' = "leaving"
     /\ UNCHANGED <<state, attempt>>
  \/ /\ MAX_ATTEMPTS > 0 => n <= MAX_ATTEMPTS
     /\ state' = "connecting" /\ main' = "dialing"
     /\ attempt' = IF MAX_ATTEMPTS > 0 THEN n ELSE 1

(* connect(), the head of its loop: stop, give up, or dial.                   *)
Attempt(n) ==
  \/ /\ shutdown
     /\ state' = "shutting_down" /\ main' = "leaving"
     /\ UNCHANGED attempt
  \/ /\ ~shutdown
     /\ MAX_ATTEMPTS > 0 /\ n > MAX_ATTEMPTS
     /\ main' = "leaving"
     /\ UNCHANGED <<state, attempt>>
  \/ /\ ~shutdown
     /\ MAX_ATTEMPTS > 0 => n <= MAX_ATTEMPTS
     /\ state' = "connecting" /\ main' = "dialing"
     /\ attempt' = IF MAX_ATTEMPTS > 0 THEN n ELSE 1

(* The websocket is open; it replaces _ws, the old one is dropped unclosed.   *)
(* The state becomes AUTHENTICATING whatever it has become meanwhile.         *)
DialSucceeds ==
  /\ main = "dialing" /\ up
  /\ main' = "authenticating" /\ state' = "authenticating"
  /\ link' = "open" /\ unread' = 0
  /\ UNCHANGED <<shutdown, listener, heartbeat, queue, attempt, retry,
                 crashes, up>>

(* The attempt fails or times out, at the dial or at the authentication:      *)
(* _close_ws() and the back-off.                                              *)
AttemptFails ==
  /\ main \in Connecting
  /\ main' = "backoff" /\ link' = "none" /\ unread' = 0
  /\ UNCHANGED <<state, shutdown, listener, heartbeat, queue, attempt, retry,
                 crashes, up>>

(* success: CONNECTED, again whatever the state was; the heartbeat starts,    *)
(* and the caller starts the listener.                                        *)
Authenticated ==
  /\ main = "authenticating" /\ link = "open" /\ up
  /\ main' = "top" /\ state' = "connected"
  /\ heartbeat' = "sleeping" /\ listener' = "listening"
  /\ UNCHANGED <<shutdown, link, unread, queue, attempt, retry, crashes, up>>

(* The token is refused: not transient, no retry.                             *)
AuthenticationFails ==
  /\ main = "authenticating" /\ link = "open" /\ up
  /\ main' = "leaving" /\ state' = "disconnected"
  /\ link' = "none" /\ unread' = 0
  /\ UNCHANGED <<shutdown, listener, heartbeat, queue, attempt, retry,
                 crashes, up>>

(* Mutant of BackoffEnds: the attempt is not counted.                         *)
BackoffEndsUncounted ==
  /\ main = "backoff"
  /\ Attempt(attempt)
  /\ UNCHANGED <<shutdown, link, unread, listener, heartbeat, queue, retry,
                 crashes, up>>

(* The back-off ends, by its delay or by the shutdown event.                  *)
BackoffEnds ==
  /\ main = "backoff"
  /\ Attempt(attempt + 1)
  /\ UNCHANGED <<shutdown, link, unread, listener, heartbeat, queue, retry,
                 crashes, up>>
----------------------------------------------------------------------------
(* _agent_loop, the head of its loop.                                         *)
LeaveLoop ==
  /\ main = "top" /\ state = "shutting_down"
  /\ main' = "leaving"
  /\ UNCHANGED <<state, shutdown, link, unread, listener, heartbeat, queue,
                 attempt, retry, crashes, up>>

(* The listener is cancelled, then reconnect(): the heartbeat is stopped and  *)
(* connect() starts over.  The queue keeps the messages of the old link.      *)
Reconnect ==
  /\ main = "top" /\ state \notin {"connected", "shutting_down"}
  /\ listener' = "none" /\ heartbeat' = "none"
  /\ Attempt(1)
  /\ UNCHANGED <<shutdown, link, unread, queue, retry, crashes, up>>

AwaitMessage ==
  /\ main = "top" /\ state = "connected"
  /\ main' = "reading"
  /\ UNCHANGED <<state, shutdown, link, unread, listener, heartbeat, queue,
                 attempt, retry, crashes, up>>

(* get_message() times out, or returns what only feeds the memory.            *)
NothingToDo ==
  /\ main = "reading"
  /\ queue' \in {queue, IF queue > 0 THEN queue - 1 ELSE queue}
  /\ main' = "top"
  /\ UNCHANGED <<state, shutdown, link, unread, listener, heartbeat, attempt,
                 retry, crashes, up>>

(* ... or a tick update: decide() calls the model.                            *)
ReadTick ==
  /\ main = "reading" /\ queue > 0
  /\ queue' = queue - 1
  /\ main' = "deciding" /\ retry' = 1
  /\ UNCHANGED <<state, shutdown, link, unread, listener, heartbeat, attempt,
                 crashes, up>>

(* A call of the model fails or times out and another is made.                *)
TryAgain ==
  /\ main = "deciding" /\ retry < MAX_RETRIES
  /\ retry' = retry + 1
  /\ UNCHANGED <<main, state, shutdown, link, unread, listener, heartbeat,
                 queue, attempt, crashes, up>>

(* The model answers, or the last try fails and the decision is IDLE.         *)
Decided ==
  /\ main = "deciding"
  /\ main' = "sending"
  /\ UNCHANGED <<state, shutdown, link, unread, listener, heartbeat, queue,
                 attempt, retry, crashes, up>>

(* send_action(): not CONNECTED is a ConnectionError, which the loop catches; *)
(* a closed websocket under a state still CONNECTED is a ConnectionClosed,    *)
(* which it does not.  On a stale link the send succeeds.                     *)
Send ==
  /\ main = "sending"
  /\ main' = IF state = "connected" /\ Closed THEN "crashing" ELSE "top"
  /\ UNCHANGED <<state, shutdown, link, unread, listener, heartbeat, queue,
                 attempt, retry, crashes, up>>

(* The finally of run_agent (memories persisted, disconnect()), the end of    *)
(* asyncio.run with the tasks that are left, and main()'s verdict.            *)
Finish ==
  /\ main \in {"leaving", "crashing"}
  /\ IF main = "leaving"
       THEN main' = "exited" /\ UNCHANGED crashes
       ELSE /\ crashes' = crashes + 1
            /\ main' = IF crashes' >= MAX_CRASH_RESTARTS THEN "gave_up"
                                                         ELSE "resting"
  /\ state' = "disconnected" /\ shutdown' = TRUE
  /\ link' = "none" /\ unread' = 0 /\ queue' = 0
  /\ listener' = "none" /\ heartbeat' = "none"
  /\ UNCHANGED <<attempt, retry, up>>

(* time.sleep(CRASH_RESTART_DELAY) is over: as at the start, but for crashes. *)
Restart ==
  /\ main = "resting"
  /\ main' = "dialing" /\ state' = "connecting" /\ attempt' = 1 /\ retry' = 1
  /\ shutdown' = FALSE
  /\ UNCHANGED <<link, unread, listener, heartbeat, queue, crashes, up>>
----------------------------------------------------------------------------
(* listen(): a frame goes to the queue; after a shutdown it ends the task.    *)
ListenerReads ==
  /\ listener = "listening" /\ unread > 0
  /\ unread' = unread - 1
  /\ IF shutdown THEN listener' = "ended" /\ UNCHANGED queue
                 ELSE queue' = queue + 1 /\ UNCHANGED listener
  /\ UNCHANGED <<main, state, shutdown, link, heartbeat, attempt, retry,
                 crashes, up>>

(* Mutant of ListenerEnds: an abnormal close leaves the state, too.           *)
ListenerEndsSilently ==
  /\ listener = "listening" /\ unread = 0 /\ Closed
  /\ listener' = "ended"
  /\ UNCHANGED <<main, state, shutdown, link, unread, heartbeat, queue,
                 attempt, retry, crashes, up>>

(* A normal close ends the iteration without an exception: the state stays.   *)
ListenerEnds ==
  /\ listener = "listening" /\ unread = 0 /\ Closed
  /\ listener' = "ended"
  /\ state' = IF link = "broken" /\ state # "shutting_down"
                THEN "disconnected" ELSE state
  /\ UNCHANGED <<main, shutdown, link, unread, heartbeat, queue, attempt,
                 retry, crashes, up>>

(* _heartbeat_loop(): the sleep is over and a ping is sent; its pong arrives; *)
(* the task finds the connection no longer CONNECTED.                         *)
Ping ==
  /\ heartbeat = "sleeping" /\ state = "connected"
  /\ heartbeat' = "pinging"
  /\ UNCHANGED <<main, state, shutdown, link, unread, listener, queue,
                 attempt, retry, crashes, up>>

Pong ==
  /\ heartbeat = "pinging" /\ link = "open" /\ ~Paused
  /\ heartbeat' = "sleeping"
  /\ UNCHANGED <<main, state, shutdown, link, unread, listener, queue,
                 attempt, retry, crashes, up>>

HeartbeatEnds ==
  /\ heartbeat = "sleeping" /\ state # "connected"
  /\ heartbeat' = "ended"
  /\ UNCHANGED <<main, state, shutdown, link, unread, listener, queue,
                 attempt, retry, crashes, up>>

(* Mutant of HeartbeatFails: the wait for the pong has no limit.              *)
HeartbeatAwaitsPong ==
  /\ heartbeat = "pinging" /\ Closed
  /\ heartbeat' = "ended" /\ state' = "disconnected"
  /\ UNCHANGED <<main, shutdown, link, unread, listener, queue, attempt,
                 retry, crashes, up>>

(* No pong in time, or the websocket is closed: DISCONNECTED, unconditionally.*)
HeartbeatFails ==
  /\ heartbeat = "pinging" /\ (link # "open" \/ Paused)
  /\ heartbeat' = "ended" /\ state' = "disconnected"
  /\ UNCHANGED <<main, shutdown, link, unread, listener, queue, attempt,
                 retry, crashes, up>>
----------------------------------------------------------------------------
(* SIGINT or SIGTERM.  request_shutdown() while run_agent runs; between two   *)
(* lives the default handlers end the process.                                *)
request_shutdown ==
  \/ /\ Running
     /\ state' = "shutting_down" /\ shutdown' = TRUE
     /\ UNCHANGED <<main, link, unread, listener, heartbeat, queue, attempt,
                    retry, crashes, up>>
  \/ /\ main = "resting"
     /\ main' = "exited"
     /\ UNCHANGED <<state, shutdown, link, unread, listener, heartbeat, queue,
                    attempt, retry, crashes, up>>

(* The server and the network: a message, the end of the link, an outage.     *)
ServerSends ==
  /\ link = "open" /\ up /\ main \notin Connecting
  /\ unread < BUFFER /\ queue < QueueBound
  /\ unread' = unread + 1
  /\ UNCHANGED <<main, state, shutdown, link, listener, heartbeat, queue,
                 attempt, retry, crashes, up>>

LinkFails ==
  /\ \/ link = "open" /\ link' \in {"stale", "clean", "broken"}
     \/ link = "stale" /\ link' = "broken"
  /\ UNCHANGED <<main, state, shutdown, unread, listener, heartbeat, queue,
                 attempt, retry, crashes, up>>

ServerStops ==
  /\ up
  /\ up' = FALSE
  /\ IF link = "open" THEN link' \in {"stale", "clean", "broken"}
                      ELSE UNCHANGED link
  /\ UNCHANGED <<main, state, shutdown, unread, listener, heartbeat, queue,
                 attempt, retry, crashes>>

ServerStarts ==
  /\ ~up
  /\ up' = TRUE
  /\ UNCHANGED <<main, state, shutdown, link, unread, listener, heartbeat,
                 queue, attempt, retry, crashes>>

Terminated == main \in Over /\ UNCHANGED vars

Connect == \/ DialSucceeds \/ AttemptFails \/ Authenticated
           \/ AuthenticationFails \/ BackoffEnds
Loop    == \/ LeaveLoop \/ Reconnect \/ AwaitMessage \/ NothingToDo
           \/ ReadTick \/ TryAgain \/ Decided \/ Send \/ Finish
Listen  == ListenerReads \/ ListenerEnds
Beat    == Ping \/ Pong \/ HeartbeatEnds \/ HeartbeatFails
World   == ServerSends \/ LinkFails \/ ServerStops \/ ServerStarts

Next == \/ Connect \/ Loop \/ Restart \/ Listen \/ Beat
        \/ request_shutdown \/ World \/ Terminated

Spec == Init /\ [][Next]_vars

(* Every wait of the client is bounded by a timer (open_timeout, 15 s, the    *)
(* back-off, get_message's 60 s, the timeout of the model's call and its      *)
(* retries, the 10 s of a pong, the sleeps) and asyncio runs what is ready.   *)
(* Nothing is assumed of the server, the network or the user.                 *)
Fairness ==
  /\ WF_vars(Connect) /\ WF_vars(Loop) /\ WF_vars(Restart)
  /\ WF_vars(Listen) /\ WF_vars(Beat)

FairSpec == Spec /\ Fairness
----------------------------------------------------------------------------
(* Types.                                                                     *)
TypeOK ==
  /\ main \in Places /\ state \in ConnectionState /\ shutdown \in BOOLEAN
  /\ link \in Links /\ unread \in 0..BUFFER
  /\ listener \in {"none", "listening", "ended"}
  /\ heartbeat \in {"none", "sleeping", "pinging", "ended"}
  /\ queue \in 0..(QueueBound + BUFFER)
  /\ attempt \in Nat /\ (MAX_ATTEMPTS > 0 => attempt <= MAX_ATTEMPTS)
  /\ retry \in 1..MAX_RETRIES
  /\ crashes \in 0..MAX_CRASH_RESTARTS
  /\ up \in BOOLEAN

(* A connection the loop takes for connected is watched: its heartbeat is     *)
(* alive, and the listener is, too, unless a shutdown or a normal close ended *)
(* it.  Both tasks end on what the other tasks do to `state`, and both are    *)
(* stopped and started anew by every reconnect: a task that survived one, or  *)
(* that saw a stale state, would leave an agent that waits for ever on a      *)
(* connection nobody reads.                                                   *)
ConnectionIsWatched ==
  main \in InLoop /\ state = "connected" =>
    /\ heartbeat \in {"sleeping", "pinging"}
    /\ listener = "listening" \/ shutdown \/ link = "clean"

(* No task of an old connection outlives it: while the process dials or backs *)
(* off, nothing but a signal can write `state` behind connect()'s back.       *)
ConnectsAlone ==
  main \in Connecting \union {"backoff"} =>
    heartbeat = "none" /\ listener = "none"

(* What the docstring of connect() says: it returns True only while no        *)
(* shutdown has been requested.                                               *)
ConnectHeedsShutdown ==
  [][main = "authenticating" /\ main' = "top" => ~shutdown]_vars

(* A lost connection does not go unnoticed, not even a half-open one on which *)
(* every send succeeds: the loop comes to reconnect or ends.                  *)
LossIsNoticed ==
  main \in InLoop /\ link # "open" ~> main \notin InLoop

(* A shutdown requested while the loop runs or backs off ends the process,    *)
(* even when the heartbeat overwrites the request with DISCONNECTED.          *)
ShutdownEnds ==
  main \in InLoop \union {"backoff"} /\ state = "shutting_down"
    ~> main \in Over

(* With a limit on the attempts a process whose server is gone for good ends, *)
(* however its crashes, restarts and reconnects interleave.                   *)
GivesUp == []<>up \/ <>(main \in Over)
=============================================================================
