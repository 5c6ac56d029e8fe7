---------------------------- MODULE EventStream ----------------------------
(***************************************************************************)
(* The server-sent events of backend/routes/agent_routes.py and the        *)
(* listeners of the SDK (start_listening, agent.py) that read them.  Every *)
(* connection has a queue without bound.  A broadcast puts its event into  *)
(* each queue while it holds _connection_lock; the connection's generator  *)
(* takes events out, or sends a ping after 30 seconds without one, and     *)
(* learns only from a failing write that nobody reads any more.            *)
(*                                                                         *)
(* An event is known by its number in the order of the broadcasts.  What   *)
(* an agent does with an event is no concern of the stream.                *)
(***************************************************************************)
EXTENDS Naturals, Sequences

CONSTANTS
    Agents,     \* the agent objects of the SDK
    Conns,      \* connections, one per GET /agents/ws/events
    AgentOf,    \* AgentOf[c]: the agent whose start_listening opens c
    Senders,    \* request threads that broadcast
    NoThread,   \* the lock's owner when it is free
    MaxEvents   \* bound: broadcasts

ASSUME EventStreamAssumption ==
    /\ NoThread \notin Senders
    /\ AgentOf \in [Conns -> Agents]
    /\ MaxEvents \in Nat

VARIABLES
    active,   \* _active_connections; in which order they are gone through tells nothing
    lock,     \* the owner of _connection_lock
    sent,     \* the number of broadcasts begun, which numbers their events; read by no code
    rest,     \* rest[s]: the connections s has still to put its event into
    event,    \* event[s]: the event s broadcasts
    queue,    \* queue[c]: the connection's queue
    stream,   \* stream[c]: where the generator of the connection stands
    out,      \* out[c]: the message it yields, Ping for "connected" and "ping"
    link,     \* link[c]: what TCP knows of the client
    running,  \* running[a]: is_running of the agent, which all its listeners read
    got,      \* got[c]: the events the listener received
    since     \* since[c]: the events broadcast before c was registered; read by no code

vars == <<active, lock, sent, rest, event, queue, stream, out, link, running, got, since>>

Events == 1..MaxEvents
Ping == 0

Init ==
    /\ active = {}
    /\ lock = NoThread
    /\ sent = 0
    /\ rest = [s \in Senders |-> {}]
    /\ event = [s \in Senders |-> Ping]
    /\ queue = [c \in Conns |-> <<>>]
    /\ stream = [c \in Conns |-> "closed"]
    /\ out = [c \in Conns |-> Ping]
    /\ link = [c \in Conns |-> "up"]
    /\ running = [a \in Agents |-> FALSE]
    /\ got = [c \in Conns |-> <<>>]
    /\ since = [c \in Conns |-> 0]

----------------------------------------------------------------------------
(* broadcast_event *)

\* Mutant: the lock is not taken.
BroadcastUnlocked(s) ==
    /\ event[s] = Ping
    /\ sent < MaxEvents
    /\ sent' = sent + 1
    /\ event' = [event EXCEPT ![s] = sent + 1]
    /\ rest' = [rest EXCEPT ![s] = active]
    /\ UNCHANGED <<active, lock, queue, stream, out, link, running, got, since>>

\* The lock, and the copy of the list the loop goes over.
Broadcast(s) ==
    /\ lock = NoThread
    /\ sent < MaxEvents
    /\ lock' = s
    /\ sent' = sent + 1
    /\ event' = [event EXCEPT ![s] = sent + 1]
    /\ rest' = [rest EXCEPT ![s] = active]
    /\ UNCHANGED <<active, queue, stream, out, link, running, got, since>>

\* Mutant: one connection ends the loop.
PutFirstOnly(s, c) ==
    /\ c \in rest[s]
    /\ queue' = [queue EXCEPT ![c] = Append(@, event[s])]
    /\ rest' = [rest EXCEPT ![s] = {}]
    /\ UNCHANGED <<active, lock, sent, event, stream, out, link, running, got, since>>

\* connection.put, which an unbounded queue never refuses.
Put(s, c) ==
    /\ c \in rest[s]
    /\ queue' = [queue EXCEPT ![c] = Append(@, event[s])]
    /\ rest' = [rest EXCEPT ![s] = @ \ {c}]
    /\ UNCHANGED <<active, lock, sent, event, stream, out, link, running, got, since>>

BroadcastDone(s) ==
    /\ event[s] # Ping
    /\ rest[s] = {}
    /\ event' = [event EXCEPT ![s] = Ping]
    /\ lock' = IF lock = s THEN NoThread ELSE lock
    /\ UNCHANGED <<active, sent, rest, queue, stream, out, link, running, got, since>>

----------------------------------------------------------------------------
(* agent_events_ws: the generator of one connection *)

\* start_listening: the agent's flag is set, whatever a stop_listening made of it before,
\* the request arrives, and its generator makes a queue. (A connection that is over lends
\* its name to a new one.)
Connect(c) ==
    /\ stream[c] = "closed"
    /\ running' = [running EXCEPT ![AgentOf[c]] = TRUE]
    /\ stream' = [stream EXCEPT ![c] = "registering"]
    /\ UNCHANGED <<active, lock, sent, rest, event, queue, out, link, got, since>>

\* register_connection, and the yield of "connected".
Register(c) ==
    /\ stream[c] = "registering"
    /\ lock = NoThread
    /\ active' = active \cup {c}
    /\ since' = [since EXCEPT ![c] = sent]
    /\ stream' = [stream EXCEPT ![c] = "sending"]
    /\ UNCHANGED <<lock, sent, rest, event, queue, out, link, running, got>>

\* q.get
Take(c) ==
    /\ stream[c] = "waiting"
    /\ queue[c] # <<>>
    /\ out' = [out EXCEPT ![c] = Head(queue[c])]
    /\ queue' = [queue EXCEPT ![c] = Tail(@)]
    /\ stream' = [stream EXCEPT ![c] = "sending"]
    /\ UNCHANGED <<active, lock, sent, rest, event, link, running, got, since>>

\* Mutant: a wait without an event sends nothing.
TakePingSilently(c) ==
    /\ stream[c] = "waiting"
    /\ queue[c] = <<>>
    /\ UNCHANGED vars

\* queue.Empty after 30 seconds.
TakePing(c) ==
    /\ stream[c] = "waiting"
    /\ queue[c] = <<>>
    /\ out' = [out EXCEPT ![c] = Ping]
    /\ stream' = [stream EXCEPT ![c] = "sending"]
    /\ UNCHANGED <<active, lock, sent, rest, event, queue, link, running, got, since>>

\* Mutant: pings are handed on like events.
DeliverPings(c) ==
    /\ stream[c] = "sending"
    /\ link[c] = "up"
    /\ running[AgentOf[c]]
    /\ got' = [got EXCEPT ![c] = Append(@, out[c])]
    /\ stream' = [stream EXCEPT ![c] = "waiting"]
    /\ UNCHANGED <<active, lock, sent, rest, event, queue, out, link, running, since>>

\* The client reads the message, and the generator runs on.
Deliver(c) ==
    /\ stream[c] = "sending"
    /\ link[c] = "up"
    /\ running[AgentOf[c]]
    /\ got' = IF out[c] = Ping THEN got ELSE [got EXCEPT ![c] = Append(@, out[c])]
    /\ stream' = [stream EXCEPT ![c] = "waiting"]
    /\ UNCHANGED <<active, lock, sent, rest, event, queue, out, link, running, since>>

\* The loop of start_listening looks at its agent's is_running once per message: it ends, the
\* response goes.
DeliverLast(c) ==
    /\ stream[c] = "sending"
    /\ link[c] = "up"
    /\ ~running[AgentOf[c]]
    /\ link' = [link EXCEPT ![c] = "cut"]
    /\ stream' = [stream EXCEPT ![c] = "waiting"]
    /\ UNCHANGED <<active, lock, sent, rest, event, queue, out, running, got, since>>

\* The first write after the client went may still be taken by the socket.
Swallow(c) ==
    /\ stream[c] = "sending"
    /\ link[c] = "cut"
    /\ link' = [link EXCEPT ![c] = "reset"]
    /\ stream' = [stream EXCEPT ![c] = "waiting"]
    /\ UNCHANGED <<active, lock, sent, rest, event, queue, out, running, got, since>>

\* The write fails, which closes the generator: its finally is next.
WriteFails(c) ==
    /\ stream[c] = "sending"
    /\ link[c] # "up"
    /\ stream' = [stream EXCEPT ![c] = "closing"]
    /\ UNCHANGED <<active, lock, sent, rest, event, queue, out, link, running, got, since>>

\* Nothing is left of a connection that is over.
Over(c) ==
    /\ stream' = [stream EXCEPT ![c] = "closed"]
    /\ queue' = [queue EXCEPT ![c] = <<>>]
    /\ out' = [out EXCEPT ![c] = Ping]
    /\ link' = [link EXCEPT ![c] = "up"]
    /\ got' = [got EXCEPT ![c] = <<>>]
    /\ since' = [since EXCEPT ![c] = 0]

\* Mutant: the connection stays in the list.
UnregisterForgets(c) ==
    /\ stream[c] = "closing"
    /\ lock = NoThread
    /\ Over(c)
    /\ UNCHANGED <<active, lock, sent, rest, event, running>>

\* unregister_connection
Unregister(c) ==
    /\ stream[c] = "closing"
    /\ lock = NoThread
    /\ active' = active \ {c}
    /\ Over(c)
    /\ UNCHANGED <<lock, sent, rest, event, running>>

----------------------------------------------------------------------------
(* The listener and the network *)

\* stop_listening, at any time, clears is_running; a loop sees it with its next message.
StopListening(a) ==
    /\ running' = [running EXCEPT ![a] = FALSE]
    /\ UNCHANGED <<active, lock, sent, rest, event, queue, stream, out, link, got, since>>

\* The connection breaks, or the agent's process ends. A listener that sees an error clears
\* is_running, for the other listeners of its agent too; one that sees none waits for ever.
\* It does not reconnect.
Cut(c) ==
    /\ stream[c] # "closed"
    /\ link[c] = "up"
    /\ link' = [link EXCEPT ![c] = "cut"]
    /\ running' \in {running, [running EXCEPT ![AgentOf[c]] = FALSE]}
    /\ UNCHANGED <<active, lock, sent, rest, event, queue, stream, out, got, since>>

Broadcasting(s) == (\E c \in Conns : Put(s, c)) \/ BroadcastDone(s)

Generator(c) ==
    \/ Register(c) \/ Take(c) \/ TakePing(c) \/ Deliver(c) \/ DeliverLast(c)
    \/ Swallow(c) \/ WriteFails(c) \/ Unregister(c)

Next ==
    \/ \E s \in Senders : Broadcast(s) \/ Broadcasting(s)
    \/ \E c \in Conns : Connect(c) \/ Generator(c) \/ Cut(c)
    \/ \E a \in Agents : StopListening(a)

Spec == Init /\ [][Next]_vars

\* A loop under the lock goes on, and a generator's wait, write and lock end: the wait after
\* 30 seconds, a write because the client reads or TCP gives up.
FairSpec ==
    /\ Spec
    /\ \A s \in Senders : WF_vars(Broadcasting(s))
    /\ \A c \in Conns : WF_vars(Generator(c))

----------------------------------------------------------------------------
(* Properties *)

\* The variables have their types.
TypeOK ==
    /\ active \subseteq Conns
    /\ lock \in Senders \cup {NoThread}
    /\ sent \in 0..MaxEvents
    /\ rest \in [Senders -> SUBSET Conns]
    /\ event \in [Senders -> Events \cup {Ping}]
    /\ queue \in [Conns -> Seq(Events)]
    /\ stream \in [Conns -> {"registering", "waiting", "sending", "closing", "closed"}]
    /\ out \in [Conns -> Events \cup {Ping}]
    /\ link \in [Conns -> {"up", "cut", "reset"}]
    /\ running \in [Agents -> BOOLEAN]
    /\ got \in [Conns -> Seq(Events)]
    /\ since \in [Conns -> 0..MaxEvents]

\* A listener receives the events broadcast since its connection, each once, in the order
\* of the broadcasts and without a gap: so any two listeners agree on the order, although
\* threads broadcast concurrently and connections come and go.
ReceivedWithoutGaps ==
    \A c \in Conns : got[c] = [i \in 1..Len(got[c]) |-> since[c] + i]

\* broadcast_event reaches everyone: an event broadcast after a connection was registered
\* is received by it, unless its connection breaks or its agent is told to stop.
BroadcastReachesListeners ==
    \A c \in Conns, e \in Events :
        stream[c] \in {"waiting", "sending"} /\ since[c] < e /\ e <= sent
            ~> Len(got[c]) >= e - since[c] \/ link[c] # "up"
               \/ ~running[AgentOf[c]]

\* The finally of event_stream: a connection nobody reads leaves the list, even when no
\* event is broadcast any more (the ping finds out).
DeadConnectionsLeave ==
    \A c \in Conns : link[c] # "up" ~> c \notin active /\ stream[c] = "closed"

\* stop_listening ends every loop of the agent at its next message, at the latest with a
\* ping, unless the agent starts to listen again before: is_running is then set for the
\* loops that were to stop as well.
StopTakesEffect ==
    \A a \in Agents :
        ~running[a] ~> running[a] \/ \A c \in Conns : AgentOf[c] = a =>
                                        link[c] # "up" \/ stream[c] = "closed"
=============================================================================
