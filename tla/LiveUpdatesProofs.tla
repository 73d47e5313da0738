-------------------------- MODULE LiveUpdatesProofs -------------------------
(***************************************************************************)
(* The poller tells the broker everything that it remembers, for every set *)
(* of machines, every behaviour of Headscale and every pattern of failing  *)
(* calls.                                                                  *)
(*                                                                         *)
(* RememberedIsAnnounced is inductive relative to the types of what the    *)
(* poller reads and broadcasts.  The one step that matters is              *)
(* pollMachineChanges: it overwrites the states even when it broadcasts    *)
(* nothing, which is right because detection is exact                      *)
(* (MachineDetectionExact).                                                *)
(***************************************************************************)
EXTENDS LiveUpdates, ChangeDetectionProofs

IInv == WorldTypeOK /\ PollTypeOK /\ CastTypeOK /\ RememberedIsAnnounced

USE LiveAssumption DEF LiveAssumption

-----------------------------------------------------------------------------
(* What ListNodes and ListUsers answer has the type of a poll result.      *)
LEMMA ListedType ==
    ASSUME NEW Id, NEW V, Absent \notin V, NEW f \in [Id -> V \cup {Absent}]
    PROVE  Listed(f) \in UNION {[S -> V] : S \in SUBSET Id}
<1>1. Present(f) \in SUBSET Id
  BY DEF Present
<1>2. Listed(f) \in [Present(f) -> V]
  BY DEF Listed, Present
<1> QED
  BY <1>1, <1>2

LEMMA EmptyMapType ==
    ASSUME NEW Id, NEW V
    PROVE  EmptyMap \in UNION {[S -> V] : S \in SUBSET Id}
<1>1. EmptyMap \in [{} -> V]
  BY DEF EmptyMap
<1> QED
  BY <1>1

LEMMA SeqAppend ==
    ASSUME NEW S, NEW s \in Seq(S), NEW e \in S
    PROVE  /\ Append(s, e) \in Seq(S)
           /\ Len(s) \in Nat /\ Len(Append(s, e)) = Len(s) + 1
           /\ DOMAIN s = 1..Len(s) /\ DOMAIN Append(s, e) = 1..(Len(s) + 1)
           /\ \A i \in 1..Len(s) : Append(s, e)[i] = s[i]
           /\ Append(s, e)[Len(s) + 1] = e
  OBVIOUS

LEMMA SeqOfMore ==
    ASSUME NEW S, NEW T, S \subseteq T, NEW s \in Seq(S)
    PROVE  s \in Seq(T)
<1>1. Len(s) \in Nat /\ s \in [1..Len(s) -> S]
  OBVIOUS
<1>2. s \in [1..Len(s) -> T]
  BY <1>1
<1> QED
  BY <1>1, <1>2

-----------------------------------------------------------------------------
(* A broadcast of the machines just fetched announces their states.        *)
LEMMA BroadcastAnnounces ==
    ASSUME CastTypeOK, NEW table \in NodeMap, Broadcast("machinesTable", table),
           lastMachineStates' = MachineStates(table)
    PROVE  CastTypeOK' /\ RememberedIsAnnounced'
<1> DEFINE m == [type |-> "machinesTable", table |-> table]
<1>1. m \in Message /\ content' = Append(content, m)
  BY DEF Message, Broadcast
<1>2. /\ content' \in Seq(Message)
      /\ Len(content) \in Nat /\ Len(content') = Len(content) + 1
      /\ DOMAIN content' = 1..(Len(content) + 1)
      /\ content'[Len(content) + 1] = m
  BY <1>1, SeqAppend DEF CastTypeOK
<1>3. queue' \in Seq(1..Len(content')) /\ Len(queue') <= QueueCap
  <2>1. queue \in Seq(1..Len(content'))
    <3>1. queue \in Seq(1..Len(content)) /\ 1..Len(content) \subseteq 1..Len(content')
      BY <1>2 DEF CastTypeOK
    <3> QED
      BY <3>1, SeqOfMore
  <2>2. CASE Len(queue) < QueueCap
    <3>1. queue' = Append(queue, Len(content) + 1) /\ Len(content) + 1 \in 1..Len(content')
      BY <1>2, <2>2 DEF Broadcast
    <3> QED
      BY <2>1, <2>2, <3>1, SeqAppend
  <2>3. CASE ~(Len(queue) < QueueCap)
    BY <2>1, <2>3 DEF Broadcast, CastTypeOK
  <2> QED
    BY <2>2, <2>3
<1>4. RememberedIsAnnounced'
  <2> DEFINE e == Len(content) + 1
  <2>1. e \in DOMAIN content' /\ content'[e].type = "machinesTable"
        /\ content'[e].table = table
    BY <1>2
  <2>2. \A d \in DOMAIN content' : d <= e
    BY <1>2
  <2> QED
    BY <2>1, <2>2 DEF RememberedIsAnnounced, NewestTable
<1> QED
  BY <1>2, <1>3, <1>4 DEF CastTypeOK

(* Steps that touch neither the log nor the states keep the property.      *)
LEMMA UntouchedAnnounced ==
    ASSUME RememberedIsAnnounced, UNCHANGED <<content, lastMachineStates>>
    PROVE  RememberedIsAnnounced'
  BY DEF RememberedIsAnnounced, NewestTable

LEMMA InitIInv == Init => IInv
<1> SUFFICES ASSUME Init PROVE IInv
  OBVIOUS
<1>1. WorldTypeOK
  BY DEF Init, WorldTypeOK
<1>2. PollTypeOK
  <2>1. EmptyMap \in NodeMap
    BY EmptyMapType DEF NodeMap
  <2>2. EmptyMap \in UserMap
    BY EmptyMapType DEF UserMap
  <2> QED
    BY <2>1, <2>2 DEF Init, PollTypeOK, PollPc
<1>3. CastTypeOK
  BY DEF Init, CastTypeOK
<1>4. RememberedIsAnnounced
  BY DEF Init, RememberedIsAnnounced
<1> QED
  BY <1>1, <1>2, <1>3, <1>4 DEF IInv

LEMMA NextIInv == IInv /\ [Next]_vars => IInv'
<1> SUFFICES ASSUME IInv, [Next]_vars PROVE IInv'
  OBVIOUS
<1> USE DEF IInv, worldVars, pollVars, castVars
<1>1. ASSUME NEW i \in NodeId, NEW to, ChangeNode(i, to) PROVE IInv'
  <2>1. WorldTypeOK' /\ PollTypeOK' /\ CastTypeOK'
    BY <1>1 DEF ChangeNode, Change, WorldTypeOK, PollTypeOK, CastTypeOK
  <2> QED
    BY <1>1, <2>1, UntouchedAnnounced DEF ChangeNode, Change
<1>2. ASSUME NEW u \in UserId, NEW to, ChangeUser(u, to) PROVE IInv'
  <2>1. WorldTypeOK' /\ PollTypeOK' /\ CastTypeOK'
    BY <1>2 DEF ChangeUser, Change, WorldTypeOK, PollTypeOK, CastTypeOK
  <2> QED
    BY <1>2, <2>1, UntouchedAnnounced DEF ChangeUser, Change
<1>3. ASSUME UNCHANGED <<worldVars, pollVars, castVars>> PROVE IInv'
  BY <1>3, UntouchedAnnounced DEF WorldTypeOK, PollTypeOK, CastTypeOK
<1>4. CASE Browser
  BY <1>3, <1>4 DEF Browser, LoadPage, ClosePage, ConnectEvents, DropConnection,
                         RenderReply, ShowReply
<1>5. ASSUME NEW p \in Page, Register(p) \/ Unregister(p) \/ Offer(p) \/ SwapTable(p)
      PROVE  IInv'
  BY <1>3, <1>5 DEF Register, Unregister, Offer, SwapTable
<1>6. CASE Dispatch
  <2>1. queue' = Tail(queue) /\ queue # <<>> /\ UNCHANGED <<worldVars, pollVars, content>>
    BY <1>6 DEF Dispatch
  <2>2. Tail(queue) \in Seq(1..Len(content)) /\ Len(Tail(queue)) <= QueueCap
    BY <2>1 DEF CastTypeOK
  <2> QED
    BY <2>1, <2>2, UntouchedAnnounced DEF WorldTypeOK, PollTypeOK, CastTypeOK
<1>7. CASE FetchMachines
  <2>1. Listed(nodes) \in NodeMap
    BY ListedType DEF WorldTypeOK, NodeMap
  <2> QED
    BY <1>7, <2>1, UntouchedAnnounced
       DEF FetchMachines, WorldTypeOK, PollTypeOK, PollPc, CastTypeOK
<1>8. CASE ListUsers
  <2>1. Listed(users) \in UserMap
    BY ListedType DEF WorldTypeOK, UserMap
  <2> QED
    BY <1>8, <2>1, UntouchedAnnounced
       DEF ListUsers, WorldTypeOK, PollTypeOK, PollPc, CastTypeOK
<1>9. CASE Tick \/ FetchFails \/ Cancel \/ StopPolling
  BY <1>9, UntouchedAnnounced
     DEF Tick, FetchFails, Cancel, StopPolling, WorldTypeOK, PollTypeOK, PollPc, CastTypeOK
<1>10. CASE PollMachineChanges
  <2>1. WorldTypeOK' /\ PollTypeOK'
    BY <1>10 DEF PollMachineChanges, WorldTypeOK, PollTypeOK, PollPc
  <2>2. CASE DetectMachineChanges(MachineStates(fetchedNodes), lastMachineStates)
    <3>1. Broadcast("machinesTable", fetchedNodes) /\ fetchedNodes \in NodeMap
          /\ lastMachineStates' = MachineStates(fetchedNodes)
      BY <1>10, <2>2 DEF PollMachineChanges, PollTypeOK, Templates
    <3> QED
      BY <2>1, <3>1, BroadcastAnnounces
  <2>3. CASE ~DetectMachineChanges(MachineStates(fetchedNodes), lastMachineStates)
    <3>1. PICK old : lastMachineStates = MachineStates(old)
      <4>1. EmptyMap = MachineStates(EmptyMap)
        BY DEF EmptyMap, MachineStates
      <4> QED
        BY <4>1 DEF RememberedIsAnnounced
    <3>2. lastMachineStates' = lastMachineStates
      BY <1>10, <2>3, <3>1, MachineDetectionExact DEF PollMachineChanges
    <3>3. UNCHANGED castVars
      BY <1>10, <2>3 DEF PollMachineChanges
    <3> QED
      BY <2>1, <3>2, <3>3, UntouchedAnnounced DEF CastTypeOK
  <2> QED
    BY <2>2, <2>3
<1>11. CASE PollUserChanges
  <2>1. UNCHANGED castVars
    BY <1>11 DEF PollUserChanges, Templates
  <2> QED
    BY <1>11, <2>1, UntouchedAnnounced
       DEF PollUserChanges, WorldTypeOK, PollTypeOK, PollPc, CastTypeOK
<1>12. CASE UNCHANGED vars
  BY <1>3, <1>12 DEF vars
<1> QED
  BY <1>1, <1>2, <1>4, <1>5, <1>6, <1>7, <1>8, <1>9, <1>10, <1>11, <1>12
     DEF Next, World, Server

(* No change of a compared attribute goes by unannounced: the states that  *)
(* the poller compares with are those of the table it last broadcast.      *)
THEOREM Announcement == Spec => []RememberedIsAnnounced
<1>1. IInv => RememberedIsAnnounced
  BY DEF IInv
<1> QED
  BY <1>1, InitIInv, NextIInv, PTL DEF Spec

LEMMA Inductive == Spec => []IInv
  BY InitIInv, NextIInv, PTL DEF Spec

-----------------------------------------------------------------------------
(* Every broadcast but the first has a change of its own.  The invariant   *)
(* counts ahead: as long as Headscale differs from what the poller         *)
(* remembers, or what it fetched does, one change is not yet paid for, and *)
(* two if Headscale moved on after the fetch.                              *)
Polled == MachineStates(fetchedNodes)

Budget ==
    /\ BroadcastsAreChanges
    /\ Current # lastMachineStates => Len(content) <= changes
    /\ pollPc \in {"listing users", "comparing nodes"} /\ Polled # lastMachineStates =>
          /\ Len(content) <= changes
          /\ Current # Polled => Len(content) + 1 <= changes

LEMMA CountTypes == IInv => Len(content) \in Nat /\ changes \in Nat
  BY DEF IInv, CastTypeOK, WorldTypeOK

LEMMA OneMore == ASSUME NEW m \in Nat, NEW n \in Nat, m <= n PROVE m + 1 <= n + 1
  OBVIOUS

LEMMA InitBudget == Init => Budget
  BY DEF Init, Budget, BroadcastsAreChanges

LEMMA NextBudget == IInv /\ Budget /\ [Next]_vars => Budget'
<1> SUFFICES ASSUME IInv, Budget, [Next]_vars PROVE Budget'
  OBVIOUS
<1>0. Len(content) \in Nat /\ changes \in Nat
  BY CountTypes
<1> USE <1>0 DEF worldVars, pollVars, castVars
<1>1. ASSUME changes' = changes + 1, UNCHANGED <<pollVars, castVars>> PROVE Budget'
  <2>1. Polled' = Polled /\ UNCHANGED <<pollPc, lastMachineStates, content>>
    BY <1>1 DEF Polled
  <2>2. Len(content') <= changes'
    BY <1>1, <2>1 DEF Budget, BroadcastsAreChanges
  <2>3. pollPc' \in {"listing users", "comparing nodes"} /\ Polled' # lastMachineStates' =>
            Len(content') + 1 <= changes'
    <3> SUFFICES ASSUME pollPc \in {"listing users", "comparing nodes"},
                        Polled # lastMachineStates
                 PROVE  Len(content) + 1 <= changes'
      BY <2>1
    <3>1. Len(content) <= changes
      BY DEF Budget
    <3>2. Len(content) + 1 <= changes + 1
      BY <1>0, <3>1, OneMore, Zenon
    <3>3. changes' = changes + 1
      BY <1>1
    <3> QED
      BY <3>2, <3>3, Zenon
  <2>4. BroadcastsAreChanges'
    BY <1>1, <2>1, <2>2 DEF BroadcastsAreChanges
  <2> QED
    BY <2>2, <2>3, <2>4 DEF Budget
<1>2. CASE World
  BY <1>1, <1>2 DEF World, ChangeNode, ChangeUser, Change
<1>3. ASSUME UNCHANGED <<worldVars, fetchedNodes, lastMachineStates, content>>,
             pollPc' \in {"listing users", "comparing nodes"} =>
                 pollPc \in {"listing users", "comparing nodes"}
      PROVE  Budget'
  <2>1. Polled' = Polled /\ Current' = Current
    BY <1>3 DEF Polled, Current
  <2> QED
    BY <1>3, <2>1 DEF Budget, BroadcastsAreChanges
<1>4. CASE Browser
  BY <1>3, <1>4 DEF Browser, LoadPage, ClosePage, ConnectEvents, DropConnection,
                         RenderReply, ShowReply
<1>5. ASSUME NEW p \in Page, Register(p) \/ Unregister(p) \/ Offer(p) \/ SwapTable(p)
      PROVE  Budget'
  BY <1>3, <1>5 DEF Register, Unregister, Offer, SwapTable
<1>6. CASE Dispatch
  BY <1>3, <1>6 DEF Dispatch
<1>7. CASE Tick \/ ListUsers \/ FetchFails \/ Cancel \/ StopPolling
  BY <1>3, <1>7 DEF Tick, ListUsers, FetchFails, Cancel, StopPolling
<1>8. CASE FetchMachines
  <2>1. Current' = Current /\ Polled' = Current /\ UNCHANGED <<changes, content, lastMachineStates>>
    BY <1>8 DEF FetchMachines, Current, Polled
  <2> QED
    BY <2>1 DEF Budget, BroadcastsAreChanges
<1>9. CASE PollMachineChanges
  <2>1. /\ Current' = Current /\ UNCHANGED changes
        /\ pollPc = "comparing nodes" /\ pollPc' = "comparing users"
        /\ lastMachineStates' = Polled
    BY <1>9 DEF PollMachineChanges, Current, Polled
  <2>2. PICK old : lastMachineStates = MachineStates(old)
    <3>1. EmptyMap = MachineStates(EmptyMap)
      BY DEF EmptyMap, MachineStates
    <3> QED
      BY <3>1 DEF IInv, RememberedIsAnnounced
  <2>3. DetectMachineChanges(Polled, lastMachineStates) <=> Polled # lastMachineStates
    BY <2>2, MachineDetectionExact DEF Polled
  <2>4. CASE Polled = lastMachineStates
    <3>1. content' = content
      BY <1>9, <2>3, <2>4 DEF PollMachineChanges, Polled
    <3> QED
      BY <2>1, <2>4, <3>1 DEF Budget, BroadcastsAreChanges
  <2>5. CASE Polled # lastMachineStates
    <3>1. Broadcast("machinesTable", fetchedNodes)
      BY <1>9, <2>3, <2>5 DEF PollMachineChanges, Polled, Templates
    <3>2. Len(content') = Len(content) + 1
      <4>1. [type |-> "machinesTable", table |-> fetchedNodes] \in Message
        BY DEF IInv, PollTypeOK, Message
      <4> QED
        BY <3>1, <4>1, SeqAppend DEF Broadcast, IInv, CastTypeOK
    <3>3. Len(content) <= changes /\ (Current # Polled => Len(content) + 1 <= changes)
      BY <2>1, <2>5 DEF Budget
    <3>4. BroadcastsAreChanges'
      <4>1. changes' = changes
        BY <2>1
      <4>2. Len(content') <= changes' + 1
        BY <3>2, <3>3, <4>1
      <4> QED
        BY <4>2 DEF BroadcastsAreChanges
    <3>5. Current' # lastMachineStates' => Len(content') <= changes'
      BY <2>1, <3>2, <3>3
    <3>6. pollPc' \notin {"listing users", "comparing nodes"}
      BY <2>1
    <3> QED
      BY <3>4, <3>5, <3>6 DEF Budget
  <2> QED
    BY <2>4, <2>5
<1>10. CASE PollUserChanges
  BY <1>3, <1>10 DEF PollUserChanges, Templates
<1>11. CASE UNCHANGED vars
  BY <1>3, <1>11 DEF vars
<1> QED
  BY <1>2, <1>4, <1>5, <1>6, <1>7, <1>8, <1>9, <1>10, <1>11 DEF Next, Server

(* The poller broadcasts only changes, however often polls fail or pause   *)
(* and however Headscale changes between and within them.                  *)
THEOREM Thrift == Spec => []BroadcastsAreChanges
<1>1. Budget => BroadcastsAreChanges
  BY DEF Budget
<1> QED
  BY <1>1, Inductive, InitBudget, NextBudget, PTL DEF Spec

-----------------------------------------------------------------------------
(* Types.  A window can swap in what it receives, since all the events in  *)
(* the feed are in the log.                                                *)
FeedTypeOK ==
    /\ members \subseteq Page
    /\ pending \in [Page -> Seq(DOMAIN content)]
    /\ inbox \in [Page -> Seq(DOMAIN content)]
    /\ \A p \in Page : Len(inbox[p]) <= InboxCap

PageTypeOK ==
    /\ page \in [Page -> {"closed", "loaded", "connecting", "connected"}]
    /\ shown \in [Page -> NodeMap]
    /\ reply \in [Page -> SUBSET NodeMap]
    /\ missed \subseteq Page

LEMMA InitPages == Init => FeedTypeOK /\ PageTypeOK
<1>1. EmptyMap \in NodeMap
  BY EmptyMapType DEF NodeMap
<1> QED
  BY <1>1 DEF Init, Feed!Init, FeedTypeOK, PageTypeOK

LEMMA SeqTail ==
    ASSUME NEW S, NEW s \in Seq(S), s # <<>>
    PROVE  /\ Tail(s) \in Seq(S) /\ Head(s) \in S
           /\ Len(s) \in Nat /\ Len(Tail(s)) = Len(s) - 1
  OBVIOUS

LEMMA NextPages == IInv /\ FeedTypeOK /\ PageTypeOK /\ [Next]_vars => FeedTypeOK' /\ PageTypeOK'
<1> SUFFICES ASSUME IInv, FeedTypeOK, PageTypeOK, [Next]_vars PROVE FeedTypeOK' /\ PageTypeOK'
  OBVIOUS
<1> USE DEF worldVars, pollVars, castVars, pageVars
<1>1. ASSUME UNCHANGED <<feedVars, content>> PROVE FeedTypeOK'
  BY <1>1 DEF FeedTypeOK, feedVars
<1>2. CASE World \/ Tick \/ FetchMachines \/ ListUsers \/ FetchFails \/ Cancel \/ StopPolling
  <2>1. UNCHANGED <<feedVars, content, page, shown, reply>> /\ missed' \subseteq missed \cup Page
    BY <1>2 DEF World, ChangeNode, ChangeUser, Change, Tick, FetchMachines,
                ListUsers, FetchFails, Cancel, StopPolling
  <2> QED
    BY <1>1, <2>1 DEF PageTypeOK
<1>3. CASE PollMachineChanges \/ PollUserChanges
  <2>1. UNCHANGED <<feedVars, page, shown, reply>> /\ missed' \subseteq missed \cup Page
    BY <1>3 DEF PollMachineChanges, PollUserChanges, Broadcast
  <2>2. DOMAIN content \subseteq DOMAIN content'
    <3>1. content' = content \/ \E m \in Message : content' = Append(content, m)
      BY <1>3 DEF PollMachineChanges, PollUserChanges, Templates, Broadcast, Message,
                  IInv, PollTypeOK
    <3> QED
      BY <3>1, SeqAppend DEF IInv, CastTypeOK
  <2>3. \A p \in Page : pending[p] \in Seq(DOMAIN content') /\ inbox[p] \in Seq(DOMAIN content')
    BY <2>2, SeqOfMore DEF FeedTypeOK
  <2> QED
    BY <2>1, <2>3 DEF FeedTypeOK, PageTypeOK, feedVars
<1>4. ASSUME NEW p \in Page,
             \/ LoadPage(p) \/ ClosePage(p) \/ DropConnection(p)
             \/ RenderReply(p) \/ ShowReply(p)
      PROVE  FeedTypeOK' /\ PageTypeOK'
  <2>0. Listed(nodes) \in NodeMap
    BY ListedType DEF NodeMap, IInv, WorldTypeOK
  <2>1. Listed(nodes) \in NodeMap /\ EmptyMap \in NodeMap
    BY <2>0, EmptyMapType DEF NodeMap
  <2>2. UNCHANGED <<feedVars, content>>
    BY <1>4 DEF LoadPage, ClosePage, DropConnection, RenderReply, ShowReply
  <2>3. PageTypeOK'
    BY <1>4, <2>1 DEF LoadPage, ClosePage, DropConnection, RenderReply, ShowReply, PageTypeOK
  <2> QED
    BY <1>1, <2>2, <2>3
<1>5. ASSUME NEW p \in Page, ConnectEvents(p) \/ Register(p) \/ Unregister(p)
      PROVE  FeedTypeOK' /\ PageTypeOK'
  <2>1. <<>> \in Seq(DOMAIN content) /\ Len(<<>>) = 0
    OBVIOUS
  <2>2. PageTypeOK'
    BY <1>5 DEF ConnectEvents, Register, Unregister, PageTypeOK
  <2>3. UNCHANGED content
    BY <1>5 DEF ConnectEvents, Register, Unregister
  <2>4. CASE ConnectEvents(p)
    BY <2>1, <2>2, <2>3, <2>4 DEF ConnectEvents, Feed!Renew, FeedTypeOK
  <2>5. CASE Register(p)
    BY <2>2, <2>3, <2>5 DEF Register, Feed!Join, FeedTypeOK
  <2>6. CASE Unregister(p)
    BY <2>1, <2>2, <2>3, <2>6 DEF Unregister, Feed!Leave, FeedTypeOK
  <2> QED
    BY <1>5, <2>4, <2>5, <2>6
<1>6. CASE Dispatch
  <2>1. Head(queue) \in DOMAIN content
    BY <1>6, SeqTail DEF Dispatch, IInv, CastTypeOK
  <2>2. UNCHANGED <<content, page, shown, reply, members, inbox>> /\ missed' \subseteq missed \cup Page
    BY <1>6 DEF Dispatch, Feed!Publish
  <2>3. \A p \in Page : Append(pending[p], Head(queue)) \in Seq(DOMAIN content)
    BY <2>1, SeqAppend DEF FeedTypeOK
  <2>4. pending' \in [Page -> Seq(DOMAIN content)]
    BY <1>6, <2>3 DEF Dispatch, Feed!Publish, FeedTypeOK
  <2> QED
    BY <2>2, <2>4 DEF FeedTypeOK, PageTypeOK
<1>7. ASSUME NEW p \in Page, Offer(p)
      PROVE  FeedTypeOK' /\ PageTypeOK'
  <2>1. /\ pending[p] # <<>> /\ UNCHANGED <<content, page, shown, reply, members>>
        /\ missed' \subseteq missed \cup Page
        /\ pending' = [pending EXCEPT ![p] = Tail(@)]
    BY <1>7 DEF Offer, Feed!Deliver, Feed!Lose
  <2>2. /\ Tail(pending[p]) \in Seq(DOMAIN content) /\ Head(pending[p]) \in DOMAIN content
        /\ inbox[p] \in Seq(DOMAIN content)
    BY <2>1, SeqTail DEF FeedTypeOK
  <2>3. \/ inbox' = inbox
        \/ /\ Len(inbox[p]) < InboxCap
           /\ inbox' = [inbox EXCEPT ![p] = Append(@, Head(pending[p]))]
    BY <1>7 DEF Offer, Feed!Deliver, Feed!Lose
  <2>4. inbox' \in [Page -> Seq(DOMAIN content)] /\ \A x \in Page : Len(inbox'[x]) <= InboxCap
    <3>1. /\ Append(inbox[p], Head(pending[p])) \in Seq(DOMAIN content)
          /\ Len(inbox[p]) \in Nat
          /\ Len(Append(inbox[p], Head(pending[p]))) = Len(inbox[p]) + 1
      BY <2>2, SeqAppend
    <3>2. CASE inbox' = inbox
      BY <3>2 DEF FeedTypeOK
    <3>3. CASE /\ Len(inbox[p]) < InboxCap
               /\ inbox' = [inbox EXCEPT ![p] = Append(inbox[p], Head(pending[p]))]
      <4>1. Len(Append(inbox[p], Head(pending[p]))) <= InboxCap
        BY <3>1, <3>3
      <4> HIDE <3>1
      <4> QED
        BY <3>1, <3>3, <4>1 DEF FeedTypeOK
    <3> QED
      BY <2>3, <3>2, <3>3
  <2> QED
    BY <2>1, <2>2, <2>4 DEF FeedTypeOK, PageTypeOK
<1>8. ASSUME NEW p \in Page, SwapTable(p)
      PROVE  FeedTypeOK' /\ PageTypeOK'
  <2>1. /\ inbox[p] # <<>> /\ inbox' = [inbox EXCEPT ![p] = Tail(@)]
        /\ UNCHANGED <<content, page, members, pending, reply>>
        /\ missed' \subseteq missed \cup Page
    BY <1>8 DEF SwapTable, Feed!Read
  <2>2. /\ inbox[p] \in Seq(DOMAIN content)
        /\ Tail(inbox[p]) \in Seq(DOMAIN content) /\ Head(inbox[p]) \in DOMAIN content
        /\ Len(Tail(inbox[p])) = Len(inbox[p]) - 1 /\ Len(inbox[p]) \in Nat
    BY <2>1, SeqTail DEF FeedTypeOK
  <2>3. FeedTypeOK'
    BY <2>1, <2>2 DEF FeedTypeOK
  <2>4. content[Head(inbox[p])].table \in NodeMap
    <3>1. content[Head(inbox[p])] \in Message
      BY <2>2 DEF IInv, CastTypeOK
    <3> QED
      BY <3>1 DEF Message
  <2>5. PageTypeOK'
    BY <1>8, <2>1, <2>4 DEF SwapTable, PageTypeOK
  <2> QED
    BY <2>3, <2>5
<1>9. CASE UNCHANGED vars
  BY <1>1, <1>9 DEF vars, PageTypeOK
<1> QED
  BY <1>2, <1>3, <1>4, <1>5, <1>6, <1>7, <1>8, <1>9 DEF Next, Server, Browser

(* The buffers keep to their capacities and windows show tables.           *)
THEOREM TypeCorrect == Spec => []TypeOK
<1>1. IInv /\ FeedTypeOK /\ PageTypeOK => TypeOK
  BY DEF IInv, FeedTypeOK, PageTypeOK, TypeOK
<1> QED
  BY <1>1, Inductive, InitPages, NextPages, PTL DEF Spec

-----------------------------------------------------------------------------
(* The comparison of users.  What the poller remembers of the users was    *)
(* made of a list that Headscale answered, so it is finite.                *)
RememberedUsers ==
    \E us \in UserMap, ns \in NodeMap : lastUserStates = UserStates(us, ns)

LEMMA UserMapFinite == ASSUME NEW us \in UserMap PROVE IsFiniteSet(DOMAIN us)
<1>1. DOMAIN us \in SUBSET UserId
  BY DEF UserMap
<1> QED
  BY <1>1, FS_Subset

LEMMA InitRememberedUsers == Init => RememberedUsers
<1>1. EmptyMap \in UserMap /\ EmptyMap \in NodeMap
  BY EmptyMapType DEF UserMap, NodeMap
<1>2. UserStates(EmptyMap, EmptyMap) = EmptyMap
  BY DEF UserStates, EmptyMap
<1> QED
  BY <1>1, <1>2 DEF Init, RememberedUsers

LEMMA NextRememberedUsers == IInv /\ RememberedUsers /\ [Next]_vars => RememberedUsers'
<1> SUFFICES ASSUME IInv, RememberedUsers, [Next]_vars PROVE RememberedUsers'
  OBVIOUS
<1>1. CASE PollUserChanges
  <2>1. fetchedUsers \in UserMap /\ fetchedNodes \in NodeMap
    BY DEF IInv, PollTypeOK
  <2> QED
    BY <1>1, <2>1 DEF PollUserChanges, RememberedUsers
<1>2. CASE ~PollUserChanges
  <2>1. UNCHANGED lastUserStates
    BY <1>2 DEF Next, World, Browser, Server, ChangeNode, ChangeUser, Change, LoadPage, ClosePage,
       ConnectEvents, DropConnection, RenderReply, ShowReply, Tick, FetchMachines, ListUsers,
       FetchFails, PollMachineChanges, StopPolling, Dispatch, Register, Unregister, Offer,
       SwapTable, Cancel, vars, pollVars
  <2> QED
    BY <2>1 DEF RememberedUsers
<1> QED
  BY <1>1, <1>2

(* Whatever users come, go and change between two polls, and whichever     *)
(* calls fail, the comparison by number and one way finds the difference.  *)
THEOREM UserDifferences == Spec => []UsersDetected
<1>1. IInv /\ RememberedUsers => UsersDetected
  <2> SUFFICES ASSUME IInv, RememberedUsers PROVE UsersDetected
    OBVIOUS
  <2>1. PICK us \in UserMap, ns \in NodeMap : lastUserStates = UserStates(us, ns)
    BY DEF RememberedUsers
  <2>2. IsFiniteSet(DOMAIN us) /\ IsFiniteSet(DOMAIN fetchedUsers)
    BY UserMapFinite DEF IInv, PollTypeOK
  <2> QED
    BY <2>1, <2>2, UserDetectionExact DEF UsersDetected
<1> QED
  BY <1>1, Inductive, InitRememberedUsers, NextRememberedUsers, PTL DEF Spec
=============================================================================
