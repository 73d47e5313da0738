---------------------------- MODULE BrokerProofs ----------------------------
(***************************************************************************)
(* Proofs about the broker, for every set of requests and all capacities.  *)
(*                                                                         *)
(* The inductive invariant is IInv.  NoPanic alone is not inductive: that  *)
(* a send meets no closed channel needs that registered channels are open, *)
(* which needs that a channel enters the registry once, which needs that   *)
(* the registry follows the handlers.                                      *)
(***************************************************************************)
EXTENDS Broker, TLAPS

IInv == TypeOK /\ NoPanic /\ RegistryFollowsHandlers /\ ChannelsInUse

USE BrokerAssumption DEF BrokerAssumption

-----------------------------------------------------------------------------
(* Sequences.                                                              *)

(* What is known of a sequence after Append.                               *)
LEMMA AppendFacts ==
    ASSUME NEW S, NEW s \in Seq(S), NEW e \in S
    PROVE  /\ Append(s, e) \in Seq(S)
           /\ Len(Append(s, e)) = Len(s) + 1
           /\ \A i \in 1..Len(s) : Append(s, e)[i] = s[i]
           /\ Append(s, e)[Len(s) + 1] = e
  OBVIOUS

(* What is known of the empty sequence.                                    *)
LEMMA EmptyFacts == Len(<<>>) = 0 /\ \A S : <<>> \in Seq(S)
  OBVIOUS

(* What is known of a sequence after Tail.                                 *)
LEMMA TailFacts ==
    ASSUME NEW S, NEW s \in Seq(S), s # <<>>
    PROVE  /\ Head(s) = s[1] /\ Head(s) \in S
           /\ Tail(s) \in Seq(S)
           /\ Len(Tail(s)) = Len(s) - 1 /\ Len(s) \in Nat \ {0}
           /\ \A i \in 1..Len(Tail(s)) : Tail(s)[i] = s[i + 1]
  OBVIOUS

-----------------------------------------------------------------------------
(* Type correctness.                                                       *)

LEMMA InitTypeOK == Init => TypeOK
<1> SUFFICES ASSUME Init PROVE TypeOK
  OBVIOUS
<1>1. RunTypeOK
  <2>1. cur # NoConn <=> runPc \in {"adding", "removing"}
    BY DEF Init
  <2>2. offered \in 0..MaxEvents
    BY DEF Init
  <2> QED
    BY <2>1, <2>2 DEF Init, RunTypeOK, RunPc
<1>2. ChannelTypeOK
  <2>1. \A c \in Conn : buffer[c] = <<>>
    BY DEF Init
  <2>2. ASSUME NEW c \in Conn PROVE Len(buffer[c]) <= ClientCap
    BY <2>1, EmptyFacts
  <2>3. queue \in Seq(Event) /\ Len(queue) <= BroadcastCap
    BY EmptyFacts DEF Init
  <2>4. buffer \in [Conn -> Seq(Event)]
    BY EmptyFacts DEF Init
  <2> QED
    BY <2>2, <2>3, <2>4 DEF Init, ChannelTypeOK
<1>3. HandlerTypeOK
  BY DEF Init, HandlerTypeOK, HandlerPc
<1> QED
  BY <1>1, <1>2, <1>3 DEF TypeOK

(* Storing a sequence that fits in one channel keeps the channels' types.  *)
LEMMA StoreKeepsType ==
    ASSUME ChannelTypeOK, NEW c \in Conn, NEW s \in Seq(Event), Len(s) <= ClientCap,
           buffer' = [buffer EXCEPT ![c] = s],
           queue' = queue, closed' \subseteq Conn
    PROVE  ChannelTypeOK'
  BY DEF ChannelTypeOK

LEMMA NextTypeOK == TypeOK /\ [Next]_vars => TypeOK'
<1> SUFFICES ASSUME TypeOK, [Next]_vars PROVE TypeOK'
  OBVIOUS
<1> USE DEF TypeOK, runVars, connVars
<1>1. CASE Broadcast
  <2>1. offered + 1 \in Event /\ RunTypeOK' /\ HandlerTypeOK'
    BY <1>1 DEF Broadcast, Event, RunTypeOK, HandlerTypeOK
  <2>2. queue' \in Seq(Event) /\ Len(queue') <= BroadcastCap
    BY <1>1, <2>1, AppendFacts DEF Broadcast, ChannelTypeOK
  <2> QED
    BY <1>1, <2>1, <2>2 DEF Broadcast, ChannelTypeOK
<1>2. CASE Close
  BY <1>2 DEF Close, RunTypeOK, ChannelTypeOK, HandlerTypeOK
<1>3. ASSUME NEW c \in Conn, Connect(c) PROVE TypeOK'
  <2>1. RunTypeOK' /\ HandlerTypeOK'
    BY <1>3 DEF Connect, RunTypeOK, HandlerTypeOK, HandlerPc
  <2>2. ChannelTypeOK'
    <3>1. closed' \subseteq Conn
      BY <1>3 DEF Connect, ChannelTypeOK
    <3>2. <<>> \in Seq(Event) /\ Len(<<>>) <= ClientCap
      BY EmptyFacts
    <3> QED
      BY <1>3, <3>1, <3>2, StoreKeepsType DEF Connect
  <2> QED
    BY <2>1, <2>2
<1>4. ASSUME NEW c \in Conn, Disconnect(c) PROVE TypeOK'
  BY <1>4 DEF Disconnect, RunTypeOK, ChannelTypeOK, HandlerTypeOK
<1>5. ASSUME NEW c \in Conn, Handler(c) PROVE TypeOK'
  <2>1. CASE ReceiveEvent(c)
    <3>1. Head(buffer[c]) \in Event /\ Tail(buffer[c]) \in Seq(Event)
          /\ Len(Tail(buffer[c])) <= ClientCap
      BY <2>1, TailFacts DEF ReceiveEvent, ChannelTypeOK
    <3>2. RunTypeOK' /\ HandlerTypeOK'
      BY <2>1, <3>1 DEF ReceiveEvent, MoveHandler, RunTypeOK, HandlerTypeOK, HandlerPc
    <3>3. ChannelTypeOK'
      BY <2>1, <3>1, StoreKeepsType DEF ReceiveEvent, MoveHandler, ChannelTypeOK
    <3> QED
      BY <3>2, <3>3
  <2>2. CASE StartStreaming(c) \/ RefuseStreaming(c) \/ ReceiveZero(c)
             \/ WriteEvent(c) \/ NoticeGone(c)
    BY <2>2 DEF StartStreaming, RefuseStreaming, ReceiveZero, WriteEvent, NoticeGone,
                MoveHandler, RunTypeOK, ChannelTypeOK, HandlerTypeOK, HandlerPc
  <2> QED
    BY <1>5, <2>1, <2>2 DEF Handler
<1>6. ASSUME NEW c \in Conn, AcceptRegister(c) \/ AcceptUnregister(c) PROVE TypeOK'
  BY <1>6 DEF AcceptRegister, AcceptUnregister, RunTypeOK, RunPc, ChannelTypeOK,
              HandlerTypeOK, HandlerPc
<1>7. ASSUME NEW c \in Conn, SendTo(c) PROVE TypeOK'
  <2>1. RunTypeOK' /\ HandlerTypeOK'
    BY <1>7 DEF SendTo, RunTypeOK, RunPc, HandlerTypeOK
  <2>2. CASE c \in closed \/ ~(Len(buffer[c]) < ClientCap)
    BY <1>7, <2>1, <2>2 DEF SendTo, ChannelTypeOK
  <2>3. CASE c \notin closed /\ Len(buffer[c]) < ClientCap
    <3>1. event \in Event
      BY <1>7 DEF SendTo, RunTypeOK
    <3>2. Append(buffer[c], event) \in Seq(Event)
          /\ Len(Append(buffer[c], event)) <= ClientCap
      BY <2>3, <3>1, AppendFacts DEF ChannelTypeOK
    <3>3. buffer' = [buffer EXCEPT ![c] = Append(buffer[c], event)]
          /\ queue' = queue /\ closed' = closed
      BY <1>7, <2>3 DEF SendTo
    <3>4. ChannelTypeOK'
      BY <3>2, <3>3, StoreKeepsType DEF ChannelTypeOK
    <3> QED
      BY <2>1, <3>4
  <2> QED
    BY <2>2, <2>3
<1>8. CASE AddClient \/ RemoveClient \/ EndBroadcast \/ Shutdown
  BY <1>8 DEF AddClient, RemoveClient, EndBroadcast, Shutdown,
              RunTypeOK, RunPc, ChannelTypeOK, HandlerTypeOK
<1>9. CASE TakeBroadcast
  <2>1. Head(queue) \in Event /\ Tail(queue) \in Seq(Event) /\ Len(Tail(queue)) <= BroadcastCap
    BY <1>9, TailFacts DEF TakeBroadcast, ChannelTypeOK
  <2> QED
    BY <1>9, <2>1 DEF TakeBroadcast, RunTypeOK, RunPc, Event, NoEvent, ChannelTypeOK, HandlerTypeOK
<1>10. CASE UNCHANGED vars
  BY <1>10 DEF vars, RunTypeOK, ChannelTypeOK, HandlerTypeOK
<1> QED
  BY <1>1, <1>2, <1>3, <1>4, <1>5, <1>6, <1>7, <1>8, <1>9, <1>10
     DEF Next, Internal, Run

(* Every variable keeps its type and no Go channel holds more than its     *)
(* capacity, whatever the capacities and however many browsers there are.  *)
THEOREM TypeCorrect == Spec => []TypeOK
<1> QED
  BY InitTypeOK, NextTypeOK, PTL DEF Spec

-----------------------------------------------------------------------------
(* No panic.                                                               *)

LEMMA InitSafe == Init => NoPanic /\ RegistryFollowsHandlers /\ ChannelsInUse
  BY DEF Init, NoPanic, RegistryFollowsHandlers, ChannelsInUse, Subscribed

(* A step of the handler of c that leaves it subscribed keeps all three.   *)
LEMMA HandlerKeepsSafe ==
    ASSUME TypeOK, NoPanic, RegistryFollowsHandlers, ChannelsInUse,
           NEW c \in Conn, NEW to, Subscribed(c),
           to \in {"starting", "streaming", "writing", "writingZero", "leaving"},
           pc' = [pc EXCEPT ![c] = to],
           UNCHANGED <<runVars, closed>>
    PROVE  NoPanic' /\ RegistryFollowsHandlers' /\ ChannelsInUse'
<1> USE DEF TypeOK, RunTypeOK, HandlerTypeOK, runVars, Subscribed
<1>1. NoPanic'
  BY DEF NoPanic
<1>2. RegistryFollowsHandlers'
  BY DEF RegistryFollowsHandlers
<1>3. ChannelsInUse'
  BY DEF ChannelsInUse
<1> QED
  BY <1>1, <1>2, <1>3

LEMMA NextSafe ==
    ASSUME TypeOK, NoPanic, RegistryFollowsHandlers, ChannelsInUse, [Next]_vars
    PROVE  NoPanic' /\ RegistryFollowsHandlers' /\ ChannelsInUse'
<1> USE DEF TypeOK, RunTypeOK, ChannelTypeOK, HandlerTypeOK, connVars
<1>1. CASE Broadcast \/ Close \/ UNCHANGED vars
  BY <1>1 DEF Broadcast, Close, vars, runVars, Subscribed,
              NoPanic, RegistryFollowsHandlers, ChannelsInUse
<1>2. ASSUME NEW c \in Conn, Connect(c)
      PROVE  NoPanic' /\ RegistryFollowsHandlers' /\ ChannelsInUse'
  <2> USE DEF Connect, runVars, Subscribed
  <2>1. NoPanic'
    BY <1>2 DEF NoPanic
  <2>2. RegistryFollowsHandlers'
    BY <1>2 DEF RegistryFollowsHandlers
  <2>3. ChannelsInUse'
    BY <1>2 DEF ChannelsInUse
  <2> QED
    BY <2>1, <2>2, <2>3
<1>3. ASSUME NEW c \in Conn, Disconnect(c)
      PROVE  NoPanic' /\ RegistryFollowsHandlers' /\ ChannelsInUse'
  BY <1>3 DEF Disconnect, runVars, Subscribed,
              NoPanic, RegistryFollowsHandlers, ChannelsInUse
<1>4. ASSUME NEW c \in Conn, Handler(c)
      PROVE  NoPanic' /\ RegistryFollowsHandlers' /\ ChannelsInUse'
  <2>1. PICK to \in {"starting", "streaming", "writing", "writingZero", "leaving"} :
             pc' = [pc EXCEPT ![c] = to]
    BY <1>4 DEF Handler, StartStreaming, RefuseStreaming, ReceiveEvent, ReceiveZero,
                WriteEvent, NoticeGone, MoveHandler
  <2>2. Subscribed(c) /\ UNCHANGED <<runVars, closed>>
    BY <1>4 DEF Handler, StartStreaming, RefuseStreaming, ReceiveEvent, ReceiveZero,
                WriteEvent, NoticeGone, MoveHandler, Subscribed
  <2> QED
    BY <2>1, <2>2, HandlerKeepsSafe
<1>5. ASSUME NEW c \in Conn, AcceptRegister(c)
      PROVE  NoPanic' /\ RegistryFollowsHandlers' /\ ChannelsInUse'
  <2> USE DEF AcceptRegister, Subscribed
  <2>1. NoPanic'
    BY <1>5 DEF NoPanic
  <2>2. RegistryFollowsHandlers'
    BY <1>5 DEF RegistryFollowsHandlers
  <2>3. ChannelsInUse'
    BY <1>5 DEF ChannelsInUse
  <2> QED
    BY <2>1, <2>2, <2>3
<1>6. ASSUME NEW c \in Conn, AcceptUnregister(c)
      PROVE  NoPanic' /\ RegistryFollowsHandlers' /\ ChannelsInUse'
  <2> USE DEF AcceptUnregister, Subscribed
  <2>1. NoPanic'
    BY <1>6 DEF NoPanic
  <2>2. RegistryFollowsHandlers'
    BY <1>6 DEF RegistryFollowsHandlers
  <2>3. ChannelsInUse'
    BY <1>6 DEF ChannelsInUse
  <2> QED
    BY <2>1, <2>2, <2>3
<1>7. ASSUME NEW c \in Conn, SendTo(c)
      PROVE  NoPanic' /\ RegistryFollowsHandlers' /\ ChannelsInUse'
  <2>1. c \notin closed
    BY <1>7 DEF SendTo, ChannelsInUse
  <2> QED
    BY <1>7, <2>1 DEF SendTo, Subscribed, NoPanic, RegistryFollowsHandlers, ChannelsInUse
<1>8. CASE AddClient
  <2> USE DEF AddClient, Subscribed
  <2>1. NoPanic'
    BY <1>8 DEF NoPanic
  <2>2. RegistryFollowsHandlers'
    BY <1>8 DEF RegistryFollowsHandlers, ChannelsInUse
  <2>3. ChannelsInUse'
    BY <1>8 DEF ChannelsInUse
  <2> QED
    BY <2>1, <2>2, <2>3
<1>9. CASE RemoveClient
  <2> USE DEF RemoveClient, Subscribed
  <2>1. NoPanic'
    BY <1>9 DEF NoPanic, ChannelsInUse
  <2>2. RegistryFollowsHandlers'
    BY <1>9 DEF RegistryFollowsHandlers, ChannelsInUse
  <2>3. ChannelsInUse'
    BY <1>9 DEF ChannelsInUse, RegistryFollowsHandlers
  <2> QED
    BY <2>1, <2>2, <2>3
<1>10. CASE TakeBroadcast \/ EndBroadcast
  BY <1>10 DEF TakeBroadcast, EndBroadcast, Subscribed,
               NoPanic, RegistryFollowsHandlers, ChannelsInUse
<1>11. CASE Shutdown
  <2> USE DEF Shutdown, Subscribed
  <2>1. NoPanic' /\ runPc' = "stopped"
    BY <1>11 DEF NoPanic, ChannelsInUse
  <2>2. RegistryFollowsHandlers'
    BY <1>11, <2>1 DEF RegistryFollowsHandlers
  <2>3. ChannelsInUse'
    BY <1>11, <2>1 DEF ChannelsInUse
  <2> QED
    BY <2>1, <2>2, <2>3
<1> QED
  BY <1>1, <1>2, <1>3, <1>4, <1>5, <1>6, <1>7, <1>8, <1>9, <1>10, <1>11
     DEF Next, Internal, Run

LEMMA Invariance == Spec => []IInv
<1>1. Init => IInv
  BY InitTypeOK, InitSafe DEF IInv
<1>2. IInv /\ [Next]_vars => IInv'
  BY NextTypeOK, NextSafe DEF IInv
<1> QED
  BY <1>1, <1>2, PTL DEF Spec

(* No interleaving of Subscribe, Unsubscribe, Broadcast and Close sends on *)
(* a closed channel or closes one twice.                                   *)
THEOREM PanicFreedom == Spec => []NoPanic
<1>1. IInv => NoPanic
  BY DEF IInv
<1> QED
  BY <1>1, Invariance, PTL

(* The registry holds the channels of the live handlers and no others.     *)
THEOREM RegistryCorrect == Spec => []RegistryFollowsHandlers
<1>1. IInv => RegistryFollowsHandlers
  BY DEF IInv
<1> QED
  BY <1>1, Invariance, PTL

(* A channel is used only by those who may: what is registered is open,    *)
(* and what a blocked Subscribe holds is new.                              *)
THEOREM Channels == Spec => []ChannelsInUse
<1>1. IInv => ChannelsInUse
  BY DEF IInv
<1> QED
  BY <1>1, Invariance, PTL

-----------------------------------------------------------------------------
(* Order.                                                                  *)

(* Events are numbers.                                                     *)
LEMMA ElementFacts ==
    ASSUME NEW S \in SUBSET Nat, NEW s \in Seq(S)
    PROVE  Len(s) \in Nat /\ \A i \in 1..Len(s) : s[i] \in Nat
<1>1. Len(s) \in Nat /\ \A i \in 1..Len(s) : s[i] \in S
  OBVIOUS
<1> QED
  BY <1>1

(* A later event at the end of an increasing sequence.                     *)
LEMMA AppendIncreasing ==
    ASSUME NEW S \in SUBSET Nat, NEW s \in Seq(S), NEW e \in S,
           Increasing(s), \A i \in 1..Len(s) : s[i] < e
    PROVE  Increasing(Append(s, e))
<1> DEFINE t == Append(s, e)
<1> SUFFICES ASSUME NEW i \in 1..Len(t), NEW j \in 1..Len(t), i < j
             PROVE  t[i] < t[j]
  BY DEF Increasing
<1>1. i \in 1..Len(s) /\ t[i] = s[i]
  BY AppendFacts
<1>2. CASE j \in 1..Len(s)
  BY <1>1, <1>2, AppendFacts DEF Increasing
<1>3. CASE j = Len(s) + 1
  BY <1>1, <1>3, AppendFacts
<1> QED
  BY <1>2, <1>3, AppendFacts

(* What follows the first event of an increasing sequence.                 *)
LEMMA TailIncreasing ==
    ASSUME NEW S \in SUBSET Nat, NEW s \in Seq(S), s # <<>>, Increasing(s)
    PROVE  /\ Increasing(Tail(s))
           /\ \A i \in 1..Len(Tail(s)) : /\ Head(s) < Tail(s)[i]
                                         /\ i + 1 \in 1..Len(s)
                                         /\ Tail(s)[i] = s[i + 1]
<1>1. \A i \in 1..Len(Tail(s)) : i + 1 \in 1..Len(s) /\ Tail(s)[i] = s[i + 1]
  BY TailFacts
<1>2. Head(s) = s[1] /\ 1 \in 1..Len(s)
  BY TailFacts
<1>3. \A i \in 1..Len(Tail(s)) : Head(s) < Tail(s)[i]
  BY <1>1, <1>2 DEF Increasing
<1>4. Increasing(Tail(s))
  BY <1>1 DEF Increasing
<1> QED
  BY <1>1, <1>3, <1>4

(* What a step does not touch stays in order.                              *)
LEMMA UntouchedInOrder ==
    ASSUME EventsInOrder, UNCHANGED <<queue, event, left, buffer, last, offered>>
    PROVE  EventsInOrder'
  BY DEF EventsInOrder, QueueInOrder, ClientInOrder, Increasing

LEMMA InitInOrder == Init => EventsInOrder
<1> SUFFICES ASSUME Init PROVE EventsInOrder
  OBVIOUS
<1>1. QueueInOrder
  BY EmptyFacts DEF Init, QueueInOrder, Increasing, NoEvent
<1>2. ASSUME NEW c \in Conn PROVE ClientInOrder(c)
  <2>1. buffer[c] = <<>> /\ last[c] = 0 /\ event = 0 /\ left = {}
    BY DEF Init, NoEvent
  <2> QED
    BY <2>1, EmptyFacts DEF ClientInOrder, Increasing
<1> QED
  BY <1>1, <1>2 DEF EventsInOrder

LEMMA NextInOrder ==
    ASSUME TypeOK, EventsInOrder, [Next]_vars
    PROVE  EventsInOrder'
<1> USE DEF runVars, connVars
<1>1. Event \subseteq Nat /\ event \in Nat /\ offered \in Nat
      /\ queue \in Seq(Event) /\ \A c \in Conn : buffer[c] \in Seq(Event) /\ last[c] \in Nat
  BY DEF TypeOK, RunTypeOK, ChannelTypeOK, HandlerTypeOK, Event, NoEvent
<1>1a. /\ Len(queue) \in Nat /\ \A i \in 1..Len(queue) : queue[i] \in Nat
      /\ \A c \in Conn : Len(buffer[c]) \in Nat /\ \A i \in 1..Len(buffer[c]) : buffer[c][i] \in Nat
  BY <1>1, ElementFacts
<1>2. CASE Broadcast
  <2>1. offered + 1 \in Event
    BY <1>2 DEF Broadcast, Event, TypeOK, RunTypeOK
  <2>2. QueueInOrder'
    <3>1. CASE Len(queue) < BroadcastCap
      <4>1. queue' = Append(queue, offered + 1) /\ offered' = offered + 1 /\ event' = event
        BY <1>2, <3>1 DEF Broadcast
      <4>2. \A i \in 1..Len(queue) : queue[i] \in Nat /\ queue[i] < offered + 1
        BY <1>1, <1>1a DEF EventsInOrder, QueueInOrder
      <4>3. Increasing(queue')
        BY <1>1, <2>1, <4>1, <4>2, AppendIncreasing DEF EventsInOrder, QueueInOrder
      <4>4. \A i \in 1..Len(queue') : event < queue'[i] /\ queue'[i] <= offered + 1
        BY <1>1, <1>1a, <2>1, <4>1, <4>2, AppendFacts DEF EventsInOrder, QueueInOrder
      <4> QED
        BY <1>1, <4>1, <4>3, <4>4 DEF EventsInOrder, QueueInOrder
    <3>2. CASE ~(Len(queue) < BroadcastCap)
      <4>1. queue' = queue /\ offered' = offered + 1 /\ event' = event
        BY <1>2, <3>2 DEF Broadcast
      <4> QED
        BY <1>1, <1>1a, <4>1 DEF EventsInOrder, QueueInOrder, Increasing
    <3> QED
      BY <3>1, <3>2
  <2>3. \A c \in Conn : ClientInOrder(c)'
    BY <1>2 DEF Broadcast, EventsInOrder, ClientInOrder, Increasing
  <2> QED
    BY <2>2, <2>3 DEF EventsInOrder
<1>3. ASSUME NEW c \in Conn, Connect(c) PROVE EventsInOrder'
  <2>1. QueueInOrder'
    BY <1>3 DEF Connect, EventsInOrder, QueueInOrder, Increasing
  <2>2. ASSUME NEW d \in Conn, d # c PROVE ClientInOrder(d)'
    BY <1>3, <2>2 DEF Connect, EventsInOrder, ClientInOrder, Increasing,
                      TypeOK, ChannelTypeOK, HandlerTypeOK
  <2>3. ClientInOrder(c)'
    <3>1. buffer'[c] = <<>> /\ last'[c] = 0 /\ event' = event /\ left' = left
      BY <1>3 DEF Connect, TypeOK, ChannelTypeOK, HandlerTypeOK, NoEvent
    <3>2. c \in left => 0 < event
      BY <1>1 DEF EventsInOrder, ClientInOrder
    <3> QED
      BY <1>1, <3>1, <3>2, EmptyFacts DEF ClientInOrder, Increasing
  <2> QED
    BY <2>1, <2>2, <2>3 DEF EventsInOrder
<1>4. ASSUME NEW c \in Conn, ReceiveEvent(c) PROVE EventsInOrder'
  <2>1. QueueInOrder'
    BY <1>4 DEF ReceiveEvent, MoveHandler, EventsInOrder, QueueInOrder, Increasing
  <2>2. ASSUME NEW d \in Conn, d # c PROVE ClientInOrder(d)'
    BY <1>4, <2>2 DEF ReceiveEvent, MoveHandler, EventsInOrder, ClientInOrder, Increasing,
                      TypeOK, ChannelTypeOK, HandlerTypeOK
  <2>3. ClientInOrder(c)'
    <3>1. /\ buffer'[c] = Tail(buffer[c]) /\ last'[c] = Head(buffer[c])
          /\ event' = event /\ left' = left
      BY <1>4 DEF ReceiveEvent, MoveHandler, TypeOK, ChannelTypeOK, HandlerTypeOK
    <3>2. /\ Increasing(Tail(buffer[c]))
          /\ \A i \in 1..Len(Tail(buffer[c])) : /\ Head(buffer[c]) < Tail(buffer[c])[i]
                                                /\ i + 1 \in 1..Len(buffer[c])
                                                /\ Tail(buffer[c])[i] = buffer[c][i + 1]
      BY <1>1, <1>4, TailIncreasing DEF ReceiveEvent, EventsInOrder, ClientInOrder
    <3>3. Head(buffer[c]) = buffer[c][1] /\ 1 \in 1..Len(buffer[c])
      BY <1>1, <1>4, TailFacts DEF ReceiveEvent
    <3>4. ClientInOrder(c)
      BY DEF EventsInOrder
    <3> QED
      BY <3>1, <3>2, <3>3, <3>4 DEF ClientInOrder
  <2> QED
    BY <2>1, <2>2, <2>3 DEF EventsInOrder
<1>5. ASSUME NEW c \in Conn, SendTo(c) PROVE EventsInOrder'
  <2>1. QueueInOrder'
    BY <1>5 DEF SendTo, EventsInOrder, QueueInOrder, Increasing
  <2>2. ASSUME NEW d \in Conn, d # c PROVE ClientInOrder(d)'
    <3>1. buffer'[d] = buffer[d] /\ last'[d] = last[d] /\ event' = event
          /\ (d \in left' <=> d \in left)
      BY <1>5, <2>2 DEF SendTo, TypeOK, ChannelTypeOK, HandlerTypeOK
    <3> QED
      BY <3>1 DEF EventsInOrder, ClientInOrder, Increasing
  <2>3. ClientInOrder(c)'
    <3>1. c \in left /\ c \notin left' /\ last'[c] = last[c] /\ event' = event
      BY <1>5 DEF SendTo
    <3>2. ClientInOrder(c)
      BY DEF EventsInOrder
    <3>3. CASE buffer'[c] = buffer[c]
      BY <1>1, <3>1, <3>2, <3>3 DEF ClientInOrder, Increasing
    <3>4. CASE buffer'[c] = Append(buffer[c], event)
      <4>1. event \in Event
        BY <1>5 DEF SendTo, TypeOK, RunTypeOK
      <4> QED
        <5>1. Increasing(buffer'[c])
          BY <1>1, <3>1, <3>2, <3>4, <4>1, AppendIncreasing DEF ClientInOrder
        <5>2. \A i \in 1..Len(buffer'[c]) : buffer'[c][i] <= event /\ last[c] < buffer'[c][i]
          BY <1>1, <3>1, <3>2, <3>4, <4>1, AppendFacts DEF ClientInOrder
        <5> QED
          BY <3>1, <3>2, <5>1, <5>2 DEF ClientInOrder
    <3> QED
      BY <1>5, <3>3, <3>4 DEF SendTo, TypeOK, ChannelTypeOK
  <2> QED
    BY <2>1, <2>2, <2>3 DEF EventsInOrder
<1>6. CASE TakeBroadcast
  <2>1. queue # <<>> /\ event' = Head(queue) /\ queue' = Tail(queue) /\ offered' = offered
    BY <1>6 DEF TakeBroadcast
  <2>2. /\ Head(queue) = queue[1] /\ 1 \in 1..Len(queue)
        /\ Head(queue) \in Nat /\ event < Head(queue) /\ Head(queue) <= offered
    <3>1. Head(queue) = queue[1] /\ 1 \in 1..Len(queue)
      BY <1>1, <2>1, TailFacts
    <3> QED
      BY <1>1a, <3>1 DEF EventsInOrder, QueueInOrder
  <2>3. /\ Increasing(Tail(queue))
        /\ \A i \in 1..Len(Tail(queue)) : /\ Head(queue) < Tail(queue)[i]
                                          /\ i + 1 \in 1..Len(queue)
                                          /\ Tail(queue)[i] = queue[i + 1]
    BY <1>1, <2>1, TailIncreasing DEF EventsInOrder, QueueInOrder
  <2>4. QueueInOrder'
    BY <2>1, <2>2, <2>3 DEF EventsInOrder, QueueInOrder
  <2>5. ASSUME NEW c \in Conn PROVE ClientInOrder(c)'
    <3>1. ClientInOrder(c) /\ buffer'[c] = buffer[c] /\ last'[c] = last[c]
      BY <1>6 DEF TakeBroadcast, EventsInOrder
    <3>2. last[c] < event' /\ \A i \in 1..Len(buffer[c]) : buffer[c][i] < event'
      BY <1>1, <1>1a, <2>1, <2>2, <3>1 DEF ClientInOrder
    <3>3. last[c] <= event' /\ \A i \in 1..Len(buffer[c]) : buffer[c][i] <= event'
      BY <1>1, <1>1a, <2>1, <2>2, <3>2
    <3> QED
      BY <3>1, <3>2, <3>3 DEF ClientInOrder
  <2> QED
    BY <2>4, <2>5 DEF EventsInOrder
<1>7. CASE \/ Close \/ AddClient \/ RemoveClient \/ EndBroadcast \/ Shutdown
           \/ UNCHANGED vars
           \/ \E c \in Conn : \/ Disconnect(c) \/ AcceptRegister(c) \/ AcceptUnregister(c)
                              \/ StartStreaming(c) \/ RefuseStreaming(c) \/ ReceiveZero(c)
                              \/ WriteEvent(c) \/ NoticeGone(c)
  <2>1. UNCHANGED <<queue, event, left, buffer, last, offered>>
    BY <1>7 DEF Close, AddClient, RemoveClient, EndBroadcast, Shutdown, vars,
                Disconnect, AcceptRegister, AcceptUnregister, StartStreaming,
                RefuseStreaming, ReceiveZero, WriteEvent, NoticeGone, MoveHandler
  <2> QED
    BY <2>1, UntouchedInOrder
<1> QED
  BY <1>2, <1>3, <1>4, <1>5, <1>6, <1>7 DEF Next, Internal, Run, Handler

(* Each client receives its events in the order of the Broadcast calls,    *)
(* and none twice.                                                         *)
THEOREM Order == Spec => []EventsInOrder
<1>1. Init => EventsInOrder
  BY InitInOrder
<1>2. TypeOK /\ EventsInOrder /\ [Next]_vars => EventsInOrder'
  BY NextInOrder
<1> QED
  BY <1>1, <1>2, TypeCorrect, PTL DEF Spec

-----------------------------------------------------------------------------
(* The broker implements the feed.                                         *)

(* The refinement mapping of pending.                                      *)
Sending == [c \in Conn |-> IF c \in left THEN <<event>> ELSE <<>>]

LEMMA FeedInit == Init => Feed!Init
  BY DEF Init, Feed!Init, NoEvent

(* No variable of the feed changes.                                        *)
LEMMA FeedStutter ==
    ASSUME UNCHANGED <<clients, event, left, buffer, last>>
    PROVE  [Feed!Next]_(Feed!feedVars)
  BY DEF Feed!feedVars

LEMMA FeedStep ==
    ASSUME IInv, EventsInOrder, [Next]_vars
    PROVE  [Feed!Next]_(Feed!feedVars)
<1> USE DEF IInv, runVars, connVars
<1>1. CASE \/ Broadcast \/ Close \/ EndBroadcast \/ UNCHANGED vars
           \/ \E c \in Conn : \/ Disconnect(c) \/ AcceptRegister(c) \/ AcceptUnregister(c)
                              \/ StartStreaming(c) \/ RefuseStreaming(c) \/ ReceiveZero(c)
                              \/ WriteEvent(c) \/ NoticeGone(c)
  <2>1. UNCHANGED <<clients, event, left, buffer, last>>
    BY <1>1 DEF Broadcast, Close, EndBroadcast, vars, Disconnect, AcceptRegister,
                AcceptUnregister, StartStreaming, RefuseStreaming, ReceiveZero,
                WriteEvent, NoticeGone, MoveHandler
  <2> QED
    BY <2>1, FeedStutter
<1>2. ASSUME NEW c \in Conn, Connect(c) PROVE Feed!Next
  <2>1. Feed!Renew(c)
    BY <1>2 DEF Connect, Feed!Renew, NoEvent
  <2> QED
    BY <2>1 DEF Feed!Next
<1>3. ASSUME NEW c \in Conn, ReceiveEvent(c) PROVE Feed!Next
  <2>1. Feed!Read(c)
    BY <1>3 DEF ReceiveEvent, MoveHandler, Feed!Read
  <2> QED
    BY <2>1 DEF Feed!Next
<1>4. ASSUME NEW c \in Conn, SendTo(c) PROVE Feed!Next
  <2>1. c \in left /\ c \notin closed /\ left' = left \ {c}
        /\ UNCHANGED <<clients, event, last>>
    BY <1>4 DEF SendTo, ChannelsInUse
  <2>2. Sending[c] = <<event>> /\ Sending[c] # <<>>
        /\ Head(Sending[c]) = event /\ Tail(Sending[c]) = <<>>
    BY <2>1 DEF Sending
  <2>3. Sending' = [Sending EXCEPT ![c] = Tail(Sending[c])]
    <3>1. \A d \in Conn : Sending'[d] = IF d = c THEN <<>> ELSE Sending[d]
      BY <2>1 DEF Sending
    <3> QED
      BY <2>2, <3>1 DEF Sending
  <2>4. CASE Len(buffer[c]) < ClientCap
    <3>1. Feed!Deliver(c)
      <4>1. buffer' = [buffer EXCEPT ![c] = Append(buffer[c], event)]
        BY <1>4, <2>1, <2>4 DEF SendTo
      <4> QED
        BY <2>1, <2>2, <2>3, <2>4, <4>1 DEF Feed!Deliver, Sending
    <3> QED
      BY <3>1 DEF Feed!Next
  <2>5. CASE ~(Len(buffer[c]) < ClientCap)
    <3>1. Feed!Lose(c)
      <4>1. buffer' = buffer
        BY <1>4, <2>1, <2>5 DEF SendTo
      <4>2. Len(buffer[c]) = ClientCap
        <5>1. Len(buffer[c]) \in Nat /\ Len(buffer[c]) <= ClientCap
          BY DEF TypeOK, ChannelTypeOK
        <5> QED
          BY <2>5, <5>1
      <4> QED
        BY <2>1, <2>2, <2>3, <4>1, <4>2 DEF Feed!Lose, Sending
    <3> QED
      BY <3>1 DEF Feed!Next
  <2> QED
    BY <2>4, <2>5
<1>5. CASE AddClient
  <2>1. Feed!Join(cur) /\ cur \in Conn
    BY <1>5 DEF AddClient, Feed!Join, ChannelsInUse, TypeOK, RunTypeOK
  <2> QED
    BY <2>1 DEF Feed!Next
<1>6. CASE RemoveClient
  <2>1. left = {} /\ left' = {} /\ UNCHANGED <<event, buffer, last>>
    BY <1>6 DEF RemoveClient, ChannelsInUse
  <2>2. CASE cur \in clients
    <3>1. PICK S \in SUBSET Conn : S = {cur}
      BY <2>2 DEF TypeOK, RunTypeOK
    <3>2. Feed!Leave(S)
      BY <1>6, <2>1, <2>2, <3>1 DEF RemoveClient, Feed!Leave
    <3> QED
      BY <3>2 DEF Feed!Next
  <2>3. CASE cur \notin clients
    <3>1. UNCHANGED <<clients, event, left, buffer, last>>
      BY <1>6, <2>1, <2>3 DEF RemoveClient
    <3> QED
      BY <3>1, FeedStutter
  <2> QED
    BY <2>2, <2>3
<1>7. CASE TakeBroadcast
  <2>1. left = {} /\ left' = clients /\ event' = Head(queue)
        /\ UNCHANGED <<clients, buffer, last>>
    BY <1>7 DEF TakeBroadcast, ChannelsInUse
  <2>2. Head(queue) \in Event /\ Head(queue) > event
    <3>1. Head(queue) = queue[1] /\ 1 \in 1..Len(queue) /\ Head(queue) \in Event
      BY <1>7, TailFacts DEF TakeBroadcast, TypeOK, ChannelTypeOK
    <3> QED
      BY <3>1 DEF EventsInOrder, QueueInOrder, TypeOK, RunTypeOK, Event, NoEvent
  <2>3. Sending' = [c \in Conn |-> IF c \in clients
                                   THEN Append(Sending[c], Head(queue)) ELSE Sending[c]]
    <3>1. Append(<<>>, Head(queue)) = <<Head(queue)>>
      OBVIOUS
    <3> QED
      BY <2>1, <3>1 DEF Sending
  <2>4. PICK e \in Event : e = Head(queue)
    BY <2>2
  <2>5. Feed!Publish(e)
    BY <2>1, <2>2, <2>3, <2>4 DEF Feed!Publish, Sending
  <2> QED
    BY <2>5 DEF Feed!Next
<1>8. CASE Shutdown
  <2>1. left = {} /\ left' = {} /\ clients' = {} /\ UNCHANGED <<event, buffer, last>>
    BY <1>8 DEF Shutdown, ChannelsInUse
  <2>2. CASE clients = {}
    <3>1. UNCHANGED <<clients, event, left, buffer, last>>
      BY <2>1, <2>2
    <3> QED
      BY <3>1, FeedStutter
  <2>3. CASE clients # {}
    <3>1. PICK S \in SUBSET Conn : S = clients
      BY DEF TypeOK, RunTypeOK
    <3>2. Feed!Leave(S)
      BY <2>1, <2>3, <3>1 DEF Feed!Leave
    <3> QED
      BY <3>2 DEF Feed!Next
  <2> QED
    BY <2>2, <2>3
<1> QED
  BY <1>1, <1>2, <1>3, <1>4, <1>5, <1>6, <1>7, <1>8 DEF Next, Internal, Run, Handler

(* The broker is a lossy ordered feed: a client misses an event taken from *)
(* b.broadcast while it was registered only if its own channel was full.   *)
THEOREM Implementation == Spec => FeedSpec
<1>1. Init => Feed!Init
  BY FeedInit
<1>2. IInv /\ EventsInOrder /\ [Next]_vars => [Feed!Next]_(Feed!feedVars)
  BY FeedStep
<1> QED
  BY <1>1, <1>2, Invariance, Order, PTL DEF Spec, FeedSpec, Feed!Spec
=============================================================================
