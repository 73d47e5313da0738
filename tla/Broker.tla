------------------------------- MODULE Broker -------------------------------
(***************************************************************************)
(* The event broker (internal/events/broker.go) together with the SSE      *)
(* request handlers that subscribe to it (HandleSSE of                     *)
(* internal/handlers/sse.go).                                              *)
(*                                                                         *)
(* One goroutine, run, owns the set of client channels.  Every open        *)
(* /events request is a goroutine that creates a channel, hands it to run, *)
(* copies events from it to the HTTP response, and hands it back when the  *)
(* request ends.  The poller broadcasts; main closes the broker when the   *)
(* process shuts down.                                                     *)
(*                                                                         *)
(* An element of Conn names one request and the channel that it creates;   *)
(* a name is used again once nothing refers to the old channel.  An event  *)
(* is the number of the Broadcast call that made it; what it carries is    *)
(* the business of the modules that broadcast.  Go channels behave as the  *)
(* language defines them: a send on a closed channel and a second close    *)
(* panic, a receive from a closed channel gives first what is buffered and *)
(* then, for ever and at once, the zero Event.                             *)
(***************************************************************************)
EXTENDS Naturals, Sequences

CONSTANTS
    Conn,           \* names of /events requests, and of their channels
    NoConn,         \* no request
    BroadcastCap,   \* capacity of b.broadcast: 10 in the code
    ClientCap,      \* capacity of a client channel: 5 in the code
    MaxEvents       \* bound: how many times Broadcast is called

ASSUME BrokerAssumption ==
    /\ NoConn \notin Conn
    /\ BroadcastCap \in Nat \ {0}
    /\ ClientCap \in Nat \ {0}
    /\ MaxEvents \in Nat

VARIABLES
    clients,        \* b.clients, the registered channels
    queue,          \* what b.broadcast buffers
    done,           \* b.done is closed
    runPc,          \* where the goroutine run is
    cur,            \* run's local "client"
    event,          \* run's local "event": the last one taken from queue
    left,           \* the clients that run's broadcast loop has yet to visit
    buffer,         \* buffer[c]: what the channel of c buffers
    closed,         \* the channels that are closed
    pc,             \* pc[c]: where the handler of c is
    gone,           \* the requests whose context is done
    last,           \* history: last[c] is the last event c received
    offered         \* history: how many times Broadcast was called

runVars == <<clients, runPc, cur, event, left>>
connVars == <<pc, gone, last>>
vars == <<clients, queue, done, runPc, cur, event, left,
          buffer, closed, pc, gone, last, offered>>

Event == 1..MaxEvents

(* No event yet.                                                           *)
NoEvent == 0

(* The places where run, and a handler, can be.                            *)
RunPc == {"select", "adding", "removing", "sending", "stopped", "panic"}

HandlerPc == {"idle",           \* no such request, or HandleSSE returned
              "subscribing",    \* blocked in b.register <- client
              "starting",       \* subscribed, nothing sent yet
              "streaming",      \* at the select of the streaming loop
              "writing",        \* writing an event to the response
              "writingZero",    \* writing the zero Event to the response
              "leaving"}        \* blocked in b.unregister <- client

(* The handler has its channel and reads, or will read, from it.           *)
Subscribed(c) == pc[c] \in {"starting", "streaming", "writing", "writingZero", "leaving"}

(* Types, and the capacities of the Go channels.                           *)
RunTypeOK ==
    /\ clients \subseteq Conn
    /\ runPc \in RunPc
    /\ cur \in Conn \cup {NoConn}
    /\ cur # NoConn <=> runPc \in {"adding", "removing"}
    /\ event \in Event \cup {NoEvent}
    /\ runPc = "sending" => event # NoEvent
    /\ left \subseteq Conn
    /\ done \in BOOLEAN
    /\ offered \in 0..MaxEvents

ChannelTypeOK ==
    /\ queue \in Seq(Event)
    /\ Len(queue) <= BroadcastCap
    /\ buffer \in [Conn -> Seq(Event)]
    /\ \A c \in Conn : Len(buffer[c]) <= ClientCap
    /\ closed \subseteq Conn

HandlerTypeOK ==
    /\ pc \in [Conn -> HandlerPc]
    /\ gone \subseteq Conn
    /\ last \in [Conn -> Event \cup {NoEvent}]

TypeOK == RunTypeOK /\ ChannelTypeOK /\ HandlerTypeOK

(* NewBroker, before the first request is served.                          *)
Init ==
    /\ clients = {}
    /\ queue = <<>>
    /\ done = FALSE
    /\ runPc = "select"
    /\ cur = NoConn
    /\ event = NoEvent
    /\ left = {}
    /\ buffer = [c \in Conn |-> <<>>]
    /\ closed = {}
    /\ pc = [c \in Conn |-> "idle"]
    /\ gone = {}
    /\ last = [c \in Conn |-> NoEvent]
    /\ offered = 0

-----------------------------------------------------------------------------
(* The callers of the broker.                                              *)

(* Mutant of Broadcast: no default case, and a channel without a limit.    *)
BroadcastUnbounded ==
    /\ offered < MaxEvents
    /\ offered' = offered + 1
    /\ queue' = Append(queue, offered + 1)
    /\ UNCHANGED <<runVars, connVars, done, buffer, closed>>

(* Broadcast: never blocks; the event is dropped when b.broadcast is full. *)
Broadcast ==
    /\ offered < MaxEvents
    /\ offered' = offered + 1
    /\ queue' = IF Len(queue) < BroadcastCap THEN Append(queue, offered + 1) ELSE queue
    /\ UNCHANGED <<runVars, connVars, done, buffer, closed>>

(* Close, which main defers once.                                          *)
Close ==
    /\ ~done
    /\ done' = TRUE
    /\ UNCHANGED <<runVars, connVars, queue, buffer, closed, offered>>

(* GET /events arrives: HandleSSE calls Subscribe, which makes a channel   *)
(* and blocks until run takes it.                                          *)
Connect(c) ==
    /\ pc[c] = "idle"
    /\ c \notin clients /\ cur # c
    /\ pc' = [pc EXCEPT ![c] = "subscribing"]
    /\ buffer' = [buffer EXCEPT ![c] = <<>>]
    /\ closed' = closed \ {c}
    /\ last' = [last EXCEPT ![c] = NoEvent]
    /\ gone' = gone \ {c}
    /\ UNCHANGED <<runVars, queue, done, offered>>

(* The browser closes the page, or the connection breaks: net/http cancels *)
(* the request's context.                                                  *)
Disconnect(c) ==
    /\ pc[c] # "idle"
    /\ c \notin gone
    /\ gone' = gone \cup {c}
    /\ UNCHANGED <<runVars, queue, done, buffer, closed, pc, last, offered>>

-----------------------------------------------------------------------------
(* HandleSSE after Subscribe returned.                                     *)

MoveHandler(c, from, to) ==
    /\ pc[c] = from
    /\ pc' = [pc EXCEPT ![c] = to]
    /\ UNCHANGED <<runVars, queue, done, closed, gone, offered>>

(* The response can be flushed: the "connected" message is sent.           *)
StartStreaming(c) ==
    /\ MoveHandler(c, "starting", "streaming")
    /\ UNCHANGED <<buffer, last>>

(* Mutant of RefuseStreaming: returns without the deferred Unsubscribe.    *)
RefuseStreamingNoDefer(c) ==
    /\ MoveHandler(c, "starting", "idle")
    /\ UNCHANGED <<buffer, last>>

(* It cannot: error 500, and the deferred Unsubscribe.                     *)
RefuseStreaming(c) ==
    /\ MoveHandler(c, "starting", "leaving")
    /\ UNCHANGED <<buffer, last>>

(* event := <-clientChan, from a channel with a buffered event.            *)
ReceiveEvent(c) ==
    /\ buffer[c] # <<>>
    /\ MoveHandler(c, "streaming", "writing")
    /\ last' = [last EXCEPT ![c] = Head(buffer[c])]
    /\ buffer' = [buffer EXCEPT ![c] = Tail(@)]

(* The same receive from a closed channel: the handler has no check for it *)
(* and streams the zero Event.                                             *)
ReceiveZero(c) ==
    /\ buffer[c] = <<>>
    /\ c \in closed
    /\ MoveHandler(c, "streaming", "writingZero")
    /\ UNCHANGED <<buffer, last>>

(* The write and flush end; their errors are ignored.                      *)
WriteEvent(c) ==
    /\ MoveHandler(c, "writing", "streaming") \/ MoveHandler(c, "writingZero", "streaming")
    /\ UNCHANGED <<buffer, last>>

(* Mutant of NoticeGone: returns without the deferred Unsubscribe.         *)
NoticeGoneNoDefer(c) ==
    /\ c \in gone
    /\ MoveHandler(c, "streaming", "idle")
    /\ UNCHANGED <<buffer, last>>

(* case <-r.Context().Done()                                               *)
NoticeGone(c) ==
    /\ c \in gone
    /\ MoveHandler(c, "streaming", "leaving")
    /\ UNCHANGED <<buffer, last>>

-----------------------------------------------------------------------------
(* The cases of run's select.  Each runs its body under b.mu, so a body is *)
(* one step; what is between the receive and the lock is another, and so   *)
(* is every turn of the broadcast loop, whose clients read meanwhile.      *)

(* case client := <-b.register, a rendezvous with Subscribe.               *)
AcceptRegister(c) ==
    /\ runPc = "select"
    /\ pc[c] = "subscribing"
    /\ runPc' = "adding"
    /\ cur' = c
    /\ pc' = [pc EXCEPT ![c] = "starting"]
    /\ UNCHANGED <<clients, queue, done, event, left, buffer, closed, gone, last, offered>>

(* Mutant of AddClient: the map entry is not made.                         *)
AddClientForgets ==
    /\ runPc = "adding"
    /\ runPc' = "select"
    /\ cur' = NoConn
    /\ UNCHANGED <<connVars, clients, queue, done, event, left, buffer, closed, offered>>

AddClient ==
    /\ runPc = "adding"
    /\ clients' = clients \cup {cur}
    /\ runPc' = "select"
    /\ cur' = NoConn
    /\ UNCHANGED <<connVars, queue, done, event, left, buffer, closed, offered>>

(* case client := <-b.unregister, a rendezvous with Unsubscribe; HandleSSE *)
(* then returns.                                                           *)
AcceptUnregister(c) ==
    /\ runPc = "select"
    /\ pc[c] = "leaving"
    /\ runPc' = "removing"
    /\ cur' = c
    /\ pc' = [pc EXCEPT ![c] = "idle"]
    /\ UNCHANGED <<clients, queue, done, event, left, buffer, closed, gone, last, offered>>

(* Mutant of RemoveClient: closes the channel, keeps the map entry.        *)
RemoveClientNoDelete ==
    /\ runPc = "removing"
    /\ cur' = NoConn
    /\ closed' = closed \cup {cur}
    /\ runPc' = IF cur \in closed THEN "panic" ELSE "select"
    /\ UNCHANGED <<connVars, clients, queue, done, event, left, buffer, offered>>

RemoveClient ==
    /\ runPc = "removing"
    /\ cur' = NoConn
    /\ IF cur \in clients
       THEN /\ clients' = clients \ {cur}
            /\ closed' = closed \cup {cur}
            /\ runPc' = IF cur \in closed THEN "panic" ELSE "select"
       ELSE /\ runPc' = "select"
            /\ UNCHANGED <<clients, closed>>
    /\ UNCHANGED <<connVars, queue, done, event, left, buffer, offered>>

(* case event := <-b.broadcast                                             *)
TakeBroadcast ==
    /\ runPc = "select"
    /\ queue # <<>>
    /\ event' = Head(queue)
    /\ queue' = Tail(queue)
    /\ left' = clients
    /\ runPc' = "sending"
    /\ UNCHANGED <<connVars, clients, done, cur, buffer, closed, offered>>

(* Mutant of SendTo: a send without a default case waits for a slow client. *)
SendToBlocking(c) ==
    /\ runPc = "sending"
    /\ c \in left
    /\ Len(buffer[c]) < ClientCap
    /\ left' = left \ {c}
    /\ buffer' = [buffer EXCEPT ![c] = Append(@, event)]
    /\ UNCHANGED <<runPc, clients, cur, event, connVars, queue, done, closed, offered>>

(* Mutant of SendTo: a client is visited until its channel is full.        *)
SendToRepeats(c) ==
    /\ runPc = "sending"
    /\ c \in left
    /\ IF Len(buffer[c]) < ClientCap
       THEN buffer' = [buffer EXCEPT ![c] = Append(@, event)] /\ UNCHANGED left
       ELSE left' = left \ {c} /\ UNCHANGED buffer
    /\ UNCHANGED <<runPc, clients, cur, event, connVars, queue, done, closed, offered>>

(* Mutant of SendTo: one place of the channel is never used.               *)
SendToOffByOne(c) ==
    /\ runPc = "sending"
    /\ c \in left
    /\ left' = left \ {c}
    /\ buffer' = IF Len(buffer[c]) + 1 < ClientCap
                 THEN [buffer EXCEPT ![c] = Append(@, event)]
                 ELSE buffer
    /\ UNCHANGED <<runPc, clients, cur, event, connVars, queue, done, closed, offered>>

(* One turn of the loop: a send that does not block.                       *)
SendTo(c) ==
    /\ runPc = "sending"
    /\ c \in left
    /\ left' = left \ {c}
    /\ IF c \in closed
       THEN runPc' = "panic" /\ UNCHANGED buffer
       ELSE /\ buffer' = IF Len(buffer[c]) < ClientCap
                         THEN [buffer EXCEPT ![c] = Append(@, event)]
                         ELSE buffer
            /\ UNCHANGED runPc
    /\ UNCHANGED <<connVars, clients, queue, done, cur, event, closed, offered>>

EndBroadcast ==
    /\ runPc = "sending"
    /\ left = {}
    /\ runPc' = "select"
    /\ UNCHANGED <<connVars, clients, queue, done, cur, event, left, buffer, closed, offered>>

(* Mutant of Shutdown: the map is not emptied.                             *)
ShutdownKeepsClients ==
    /\ runPc = "select"
    /\ done
    /\ runPc' = "stopped"
    /\ closed' = closed \cup clients
    /\ UNCHANGED <<connVars, clients, queue, done, cur, event, left, buffer, offered>>

(* case <-b.done: close every channel, forget them, and return.            *)
Shutdown ==
    /\ runPc = "select"
    /\ done
    /\ runPc' = IF clients \cap closed # {} THEN "panic" ELSE "stopped"
    /\ closed' = closed \cup clients
    /\ clients' = {}
    /\ UNCHANGED <<connVars, queue, done, cur, event, left, buffer, offered>>

-----------------------------------------------------------------------------
Handler(c) ==
    \/ StartStreaming(c) \/ RefuseStreaming(c)
    \/ ReceiveEvent(c) \/ ReceiveZero(c)
    \/ WriteEvent(c) \/ NoticeGone(c)

Run ==
    \/ \E c \in Conn : AcceptRegister(c) \/ AcceptUnregister(c) \/ SendTo(c)
    \/ AddClient \/ RemoveClient \/ TakeBroadcast \/ EndBroadcast \/ Shutdown

(* Everything but the two calls made from outside: the modules that        *)
(* compose the broker supply those.                                        *)
Internal ==
    \/ \E c \in Conn : Connect(c) \/ Disconnect(c) \/ Handler(c)
    \/ Run

Next == Internal \/ Broadcast \/ Close

Spec == Init /\ [][Next]_vars

(* The steps of run between two selects, and those of a handler that does  *)
(* not write to a connection that is alive but takes no data.              *)
RunBody == AddClient \/ RemoveClient \/ EndBroadcast \/ \E c \in Conn : SendTo(c)

HandlerRuns(c) ==
    /\ pc[c] \in {"writing", "writingZero"} => c \in gone
    /\ Handler(c)

(***************************************************************************)
(* Fairness.  Goroutines that can run do run: weak fairness.  A select     *)
(* with several ready cases chooses among them at random, and a channel    *)
(* serves its blocked senders first come, first served, so a case that is  *)
(* ready again and again is taken: strong fairness.  Nothing is assumed of *)
(* browsers, nor of a write to a connection that is alive but does not     *)
(* read; a write to a broken connection returns.                           *)
(***************************************************************************)
Fairness ==
    /\ WF_vars(RunBody)
    /\ SF_vars(TakeBroadcast) /\ SF_vars(Shutdown)
    /\ \A c \in Conn :
          /\ SF_vars(AcceptRegister(c)) /\ SF_vars(AcceptUnregister(c))
          /\ WF_vars(HandlerRuns(c)) /\ SF_vars(NoticeGone(c))

FairSpec == Spec /\ Fairness

-----------------------------------------------------------------------------
(* Safety.                                                                 *)

(* The process never dies of a send on a closed client channel, nor of     *)
(* closing one twice, however Subscribe, Unsubscribe, Broadcast and Close  *)
(* interleave (broker.go, the three places that use a client channel).     *)
NoPanic == runPc # "panic"

(* The registry follows the handlers: a handler between Subscribe and the  *)
(* end of Unsubscribe is registered, but for the moment in which run is    *)
(* about to add it and but for a broker that stopped; and a registered     *)
(* channel has such a handler, or run is about to remove it: no channel    *)
(* leaks, so the poller's ClientCount is right.                            *)
RegistryFollowsHandlers ==
    /\ \A c \in Conn : Subscribed(c) =>
          \/ c \in clients
          \/ runPc = "adding" /\ cur = c
          \/ runPc = "stopped"
    /\ \A c \in clients : Subscribed(c) \/ (runPc = "removing" /\ cur = c)

(* Who may use which channel: a registered channel is open, a channel on   *)
(* its way into the registry is new, run works on at most one channel      *)
(* besides those that its broadcast loop has yet to visit, and these are   *)
(* all registered.  This is why NoPanic holds.                             *)
ChannelsInUse ==
    /\ clients \cap closed = {}
    /\ left \subseteq clients
    /\ runPc # "sending" => left = {}
    /\ runPc = "adding" => cur \notin clients \cup closed /\ Subscribed(cur)
    /\ runPc = "removing" => pc[cur] = "idle"
    /\ \A c \in Conn : pc[c] = "subscribing" => c \notin clients \cup closed /\ cur # c

(* No two places of a sequence of events are out of order.                 *)
Increasing(s) == \A i, j \in 1..Len(s) : i < j => s[i] < s[j]

QueueInOrder ==
    /\ Increasing(queue)
    /\ event <= offered
    /\ \A i \in 1..Len(queue) : event < queue[i] /\ queue[i] <= offered

ClientInOrder(c) ==
    /\ Increasing(buffer[c])
    /\ last[c] <= event
    /\ c \in left => last[c] < event
    /\ \A i \in 1..Len(buffer[c]) :
          /\ last[c] < buffer[c][i]
          /\ buffer[c][i] <= event
          /\ c \in left => buffer[c][i] < event

(* A client gets each event at most once and in the order of the Broadcast *)
(* calls: what it received, what its channel buffers, what run is sending  *)
(* to it and what is still queued form an increasing sequence.  A page     *)
(* that swaps in each table it is sent thus never goes back to an older    *)
(* one of the same broker.                                                 *)
EventsInOrder == QueueInOrder /\ \A c \in Conn : ClientInOrder(c)

(* The broker implements the abstract feed: an event is lost to a client   *)
(* that was registered when run took it only if that client's own channel  *)
(* was full then, never because of another client.                         *)
Feed == INSTANCE EventFeed WITH
    Subscriber <- Conn,
    Event <- Event,
    InboxCap <- ClientCap,
    members <- clients,
    newest <- event,
    pending <- [c \in Conn |-> IF c \in left THEN <<event>> ELSE <<>>],
    inbox <- buffer,
    seen <- last

FeedSpec == Feed!Spec

-----------------------------------------------------------------------------
(* Liveness of a broker that is not shut down, under FairSpec.             *)

(* "Automatic cleanup": a request that ended is unregistered and its       *)
(* handler returns, even if it ended while Subscribe was blocked, while an *)
(* event was being written, or under a stream of broadcasts.               *)
GoneIsForgotten ==
    \A c \in Conn : c \in gone ~> done \/ (pc[c] = "idle" /\ c \notin clients)

(* Subscribe returns, and the channel gets into the registry.              *)
SubscribeSucceeds ==
    \A c \in Conn : pc[c] = "subscribing" ~> done \/ c \in clients

(* A slow client blocks nobody: an event that b.broadcast accepted is taken *)
(* and offered to all, although browsers may stop reading for ever.        *)
AcceptedIsDispatched ==
    \A e \in Event : (\E i \in 1..Len(queue) : queue[i] = e)
                         ~> done \/ (event >= e /\ left = {})

(* What broker.go:105 says of Close: "Close shuts down the broker and      *)
(* closes all client connections".                                         *)
CloseEndsConnections == done ~> \A c \in Conn : pc[c] = "idle"
=============================================================================
