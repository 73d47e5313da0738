---------------------------- MODULE WindowsProofs ---------------------------
(***************************************************************************)
(* A window that missed nothing shows Headscale's machines once all has    *)
(* settled, for any number of windows, machines, changes and polls, and    *)
(* any capacities.                                                         *)
(*                                                                         *)
(* Every event carries the whole table, so only the newest matters.  Two   *)
(* facts about each window are inductive together.  If anything is on its  *)
(* way to the window, the newest event is, and comes last (NewestComes).   *)
(* If nothing is and the poller has nothing to announce, the window has no *)
(* other table than Headscale's (UpToDate).  From the one to the other:    *)
(* the newest event brings what the poller remembers                       *)
(* (RememberedIsAnnounced).                                                *)
(***************************************************************************)
EXTENDS LiveUpdatesProofs

USE LiveAssumption DEF LiveAssumption

Latest(s) == s[Len(s)]

Subscriptions ==
    \A p \in Page :
        /\ p \notin members => pending[p] = <<>>
        /\ page[p] = "connecting" => p \notin members /\ inbox[p] = <<>>
        /\ page[p] = "connected" => p \in members

(* The log holds nothing but machines tables.                              *)
OnlyMachines == \A e \in DOMAIN content : content[e].type = "machinesTable"

NewestComes(p) ==
    /\ queue # <<>> => Latest(queue) = Len(content)
    /\ page[p] = "connected" /\ queue = <<>> =>
          /\ pending[p] # <<>> => Latest(pending[p]) = Len(content)
          /\ pending[p] = <<>> /\ inbox[p] # <<>> => Latest(inbox[p]) = Len(content)

UpToDate(p) == Idle(p) /\ Current = lastMachineStates => ~Behind(p, Current)

FollowingWindow(p) == NewestComes(p) /\ UpToDate(p)

Following == \A p \in Page \ missed : FollowingWindow(p)

Types == IInv /\ FeedTypeOK /\ PageTypeOK

-----------------------------------------------------------------------------
(* Sequences of events.                                                    *)
LEMMA NoLength == ASSUME NEW S, NEW s \in Seq(S) PROVE s = <<>> <=> Len(s) = 0
  OBVIOUS

LEMMA Ends ==
    ASSUME NEW S, NEW s \in Seq(S)
    PROVE  /\ \A e \in S : Append(s, e) # <<>> /\ Latest(Append(s, e)) = e
           /\ s # <<>> => /\ Head(s) \in S
                          /\ Tail(s) = <<>> => Latest(s) = Head(s)
                          /\ Tail(s) # <<>> => Latest(Tail(s)) = Latest(s)
<1>1. ASSUME NEW e \in S PROVE Append(s, e) # <<>> /\ Latest(Append(s, e)) = e
  <2>1. Append(s, e) # <<>> /\ Len(Append(s, e)) = Len(s) + 1 /\ Append(s, e)[Len(s) + 1] = e
    OBVIOUS
  <2> QED
    BY <2>1 DEF Latest
<1>2. ASSUME s # <<>>
      PROVE  /\ Head(s) \in S
             /\ Tail(s) = <<>> => Latest(s) = Head(s)
             /\ Tail(s) # <<>> => Latest(Tail(s)) = Latest(s)
  <2> DEFINE t == Tail(s)
  <2>1. /\ Len(s) \in Nat \ {0} /\ t \in Seq(S) /\ Len(t) = Len(s) - 1
        /\ Head(s) = s[1] /\ Head(s) \in S
        /\ \A i \in 1..(Len(s) - 1) : t[i] = s[i + 1]
    BY <1>2
  <2> HIDE DEF t
  <2>2. t = <<>> <=> Len(s) = 1
    BY <2>1, NoLength
  <2>3. t = <<>> => Latest(s) = Head(s)
    BY <2>1, <2>2 DEF Latest
  <2>4. ASSUME t # <<>> PROVE Latest(t) = Latest(s)
    <3>1. Len(s) - 1 \in 1..(Len(s) - 1) /\ (Len(s) - 1) + 1 = Len(s)
      BY <2>1, <2>2, <2>4
    <3> QED
      BY <2>1, <3>1 DEF Latest
  <2> QED
    BY <2>1, <2>3, <2>4 DEF t
<1> QED
  BY <1>1, <1>2

(* The queue and the feed are sequences of events of the log.              *)
LEMMA Sequences ==
    ASSUME Types
    PROVE  /\ queue \in Seq(DOMAIN content)
           /\ pending \in [Page -> Seq(DOMAIN content)] /\ inbox \in [Page -> Seq(DOMAIN content)]
<1>1. content \in Seq(Message) /\ queue \in Seq(1..Len(content))
  BY DEF Types, IInv, CastTypeOK
<1>2. DOMAIN content = 1..Len(content)
  BY <1>1
<1> QED
  BY <1>1, <1>2 DEF Types, FeedTypeOK

(* The newest event carries what the poller remembers.                     *)
LEMMA NewestIsRemembered ==
    ASSUME Types, OnlyMachines, Len(content) \in DOMAIN content
    PROVE  MachineStates(content[Len(content)].table) = lastMachineStates
<1>1. PICK e \in DOMAIN content :
          NewestTable(e) /\ lastMachineStates = MachineStates(content[e].table)
  BY DEF Types, IInv, RememberedIsAnnounced, OnlyMachines
<1>2. DOMAIN content = 1..Len(content) /\ Len(content) \in Nat
  BY DEF Types, IInv, CastTypeOK
<1>3. Len(content) <= e
  BY <1>1 DEF NewestTable, OnlyMachines
<1>4. e = Len(content)
  BY <1>2, <1>3
<1> QED
  BY <1>1, <1>4

-----------------------------------------------------------------------------
(* A poll that has news adds its event to the log and, if there is room,   *)
(* to the buffer; one that has none leaves all as it is.                   *)
LEMMA PollSteps ==
    ASSUME Types, PollMachineChanges \/ PollUserChanges
    PROVE  /\ UNCHANGED <<feedVars, nodes, page, shown, reply>>
           /\ \/ UNCHANGED <<content, queue, missed, lastMachineStates>>
              \/ /\ Len(content') = Len(content) + 1
                 /\ OnlyMachines => OnlyMachines'
                 /\ \/ queue' = Append(queue, Len(content) + 1) /\ UNCHANGED missed
                    \/ missed' = Page
<1>1. CASE PollUserChanges
  BY <1>1 DEF PollUserChanges, Templates, worldVars, castVars
<1>2. CASE PollMachineChanges
  <2> DEFINE m == [type |-> "machinesTable", table |-> fetchedNodes]
  <2>1. UNCHANGED <<feedVars, nodes, page, shown, reply>>
    BY <1>2 DEF PollMachineChanges, worldVars
  <2>2. CASE Broadcast("machinesTable", fetchedNodes)
    <3>1. m \in Message /\ content \in Seq(Message) /\ content' = Append(content, m)
      BY <2>2 DEF Broadcast, Message, Types, IInv, PollTypeOK, CastTypeOK
    <3>2. /\ Len(content) \in Nat /\ Len(content') = Len(content) + 1
          /\ DOMAIN content = 1..Len(content) /\ DOMAIN content' = 1..(Len(content) + 1)
          /\ \A e \in 1..Len(content) : content'[e] = content[e]
          /\ content'[Len(content) + 1] = m
      BY <3>1, SeqAppend
    <3>3. \A e \in DOMAIN content' : e \in DOMAIN content \/ e = Len(content) + 1
      BY <3>2
    <3>4. OnlyMachines => OnlyMachines'
      BY <3>2, <3>3 DEF OnlyMachines
    <3>5. \/ queue' = Append(queue, Len(content) + 1) /\ UNCHANGED missed
          \/ missed' = Page
      BY <2>2 DEF Broadcast
    <3> QED
      BY <2>1, <3>2, <3>4, <3>5
  <2>3. CASE ~Broadcast("machinesTable", fetchedNodes)
    <3>1. /\ UNCHANGED <<castVars, missed>> /\ lastMachineStates' = MachineStates(fetchedNodes)
          /\ ~DetectMachineChanges(MachineStates(fetchedNodes), lastMachineStates)
      BY <1>2, <2>3 DEF PollMachineChanges, Templates
    <3>2. PICK old : lastMachineStates = MachineStates(old)
      <4>1. EmptyMap = MachineStates(EmptyMap)
        BY DEF EmptyMap, MachineStates
      <4> QED
        BY <4>1 DEF Types, IInv, RememberedIsAnnounced
    <3>3. UNCHANGED lastMachineStates
      BY <3>1, <3>2, MachineDetectionExact
    <3> QED
      BY <2>1, <3>1, <3>3 DEF castVars
  <2> QED
    BY <2>2, <2>3
<1> QED
  BY <1>1, <1>2

LEMMA NextOnlyMachines == Types /\ OnlyMachines /\ [Next]_vars => OnlyMachines'
<1> SUFFICES ASSUME Types, OnlyMachines, [Next]_vars PROVE OnlyMachines'
  OBVIOUS
<1>1. CASE PollMachineChanges \/ PollUserChanges
  BY <1>1, PollSteps DEF OnlyMachines
<1>2. CASE ~(PollMachineChanges \/ PollUserChanges)
  <2>1. UNCHANGED content
    BY <1>2 DEF Next, World, Browser, Server, ChangeNode, ChangeUser, Change, LoadPage, ClosePage,
       ConnectEvents, DropConnection, RenderReply, ShowReply, Tick, FetchMachines, ListUsers,
       FetchFails, StopPolling, Dispatch, Register, Unregister, Offer, SwapTable, Cancel,
       vars, castVars
  <2> QED
    BY <2>1 DEF OnlyMachines
<1> QED
  BY <1>1, <1>2

(* Who gets events, and who is connected.                                  *)
LEMMA NextSubscriptions == Types /\ Subscriptions /\ [Next]_vars => Subscriptions'
<1> SUFFICES ASSUME Types, Subscriptions, [Next]_vars PROVE Subscriptions'
  OBVIOUS
<1>0. /\ pending \in [Page -> Seq(DOMAIN content)] /\ inbox \in [Page -> Seq(DOMAIN content)] /\ members \subseteq Page
      /\ page \in [Page -> {"closed", "loaded", "connecting", "connected"}]
  BY Sequences DEF Types, FeedTypeOK, PageTypeOK
<1>1. ASSUME UNCHANGED feedVars, UNCHANGED page PROVE Subscriptions'
  BY <1>1 DEF feedVars, Subscriptions
<1>2. CASE \/ World \/ Tick \/ FetchMachines \/ ListUsers \/ FetchFails \/ Cancel \/ StopPolling
           \/ UNCHANGED vars \/ PollMachineChanges \/ PollUserChanges
  BY <1>1, <1>2 DEF World, ChangeNode, ChangeUser, Change, Tick, FetchMachines, ListUsers,
     FetchFails, Cancel, StopPolling, PollMachineChanges, PollUserChanges, vars, pageVars
<1>3. ASSUME NEW p \in Page, \/ LoadPage(p) \/ ClosePage(p) \/ DropConnection(p)
                             \/ RenderReply(p) \/ ShowReply(p)
      PROVE  Subscriptions'
  <2>1. UNCHANGED feedVars
    BY <1>3 DEF LoadPage, ClosePage, DropConnection, RenderReply, ShowReply
  <2>2. \A x \in Page : page'[x] = page[x] \/ page'[x] \in {"loaded", "closed"}
    BY <1>0, <1>3 DEF LoadPage, ClosePage, DropConnection, RenderReply, ShowReply
  <2> QED
    BY <2>1, <2>2 DEF feedVars, Subscriptions
<1>4. ASSUME NEW p \in Page, ConnectEvents(p) \/ Register(p) \/ Unregister(p)
      PROVE  Subscriptions'
  BY <1>0, <1>4 DEF ConnectEvents, Register, Unregister, Feed!Renew, Feed!Join, Feed!Leave,
     pageVars, Subscriptions
<1>5. CASE Dispatch
  BY <1>0, <1>5 DEF Dispatch, Feed!Publish, pageVars, Subscriptions
<1>6. ASSUME NEW p \in Page, Offer(p) PROVE Subscriptions'
  <2>1. p \in members /\ UNCHANGED <<members, page>>
    BY <1>6 DEF Offer, Feed!Deliver, Feed!Lose, Subscriptions
  <2>2. \A x \in Page \ {p} : pending'[x] = pending[x] /\ inbox'[x] = inbox[x]
    BY <1>0, <1>6 DEF Offer, Feed!Deliver, Feed!Lose
  <2> QED
    BY <2>1, <2>2 DEF Subscriptions
<1>7. ASSUME NEW p \in Page, SwapTable(p) PROVE Subscriptions'
  <2>1. inbox[p] # <<>> /\ UNCHANGED <<members, page, pending>>
        /\ \A x \in Page \ {p} : inbox'[x] = inbox[x]
    BY <1>0, <1>7 DEF SwapTable, Feed!Read
  <2> QED
    BY <2>1 DEF Subscriptions
<1> QED
  BY <1>2, <1>3, <1>4, <1>5, <1>6, <1>7 DEF Next, Browser, Server

-----------------------------------------------------------------------------
(* What leaves the window and what comes to it alone.                      *)
LEMMA StillFollowing ==
    ASSUME NEW p \in Page, FollowingWindow(p),
           UNCHANGED <<content, queue, lastMachineStates, Current, shown[p], reply[p]>>,
           page'[p] = page[p] \/ {page[p], page'[p]} \subseteq {"loaded", "connecting"},
           page[p] = "connected" => UNCHANGED <<pending[p], inbox[p]>>
    PROVE  FollowingWindow(p)'
<1>1. /\ Tables(p)' = Tables(p) /\ (page'[p] = "connected" <=> page[p] = "connected")
      /\ Idle(p)' = Idle(p)
  BY DEF Tables, Idle
<1>2. NewestComes(p)'
  BY <1>1 DEF FollowingWindow, NewestComes
<1>3. UpToDate(p)'
  BY <1>1 DEF FollowingWindow, UpToDate, Behind
<1> QED
  BY <1>2, <1>3 DEF FollowingWindow

(* Headscale's changes.                                                    *)
LEMMA ChangeFollowing ==
    ASSUME NEW p \in Page, FollowingWindow(p), p \notin missed', Change
    PROVE  FollowingWindow(p)'
<1>1. UNCHANGED <<content, queue, lastMachineStates, page, shown, reply, pending, inbox>>
  BY DEF Change, pollVars, castVars, feedVars
<1>2. Tables(p)' = Tables(p) /\ Idle(p)' = Idle(p) /\ NewestComes(p)'
  BY <1>1 DEF Tables, Idle, FollowingWindow, NewestComes
<1>3. ASSUME Idle(p), Current' = lastMachineStates PROVE ~Behind(p, lastMachineStates)
  <2>1. CASE Current = lastMachineStates
    BY <1>3, <2>1 DEF FollowingWindow, UpToDate
  <2>2. CASE Current # lastMachineStates
    BY <1>3, <2>2 DEF Change
  <2> QED
    BY <2>1, <2>2
<1>4. UpToDate(p)'
  BY <1>1, <1>2, <1>3 DEF UpToDate, Behind
<1> QED
  BY <1>2, <1>4 DEF FollowingWindow

(* The window's own steps and those of its user.                           *)
LEMMA PageFollowing ==
    ASSUME Types, NEW p \in Page, FollowingWindow(p), p \notin missed',
           \/ ClosePage(p) \/ ConnectEvents(p) \/ DropConnection(p)
           \/ RenderReply(p) \/ ShowReply(p)
    PROVE  FollowingWindow(p)'
<1>0. /\ page \in [Page -> {"closed", "loaded", "connecting", "connected"}]
      /\ shown \in [Page -> NodeMap] /\ reply \in [Page -> SUBSET NodeMap]
      /\ missed \subseteq Page
      /\ UNCHANGED <<nodes, content, queue, lastMachineStates>> /\ Current' = Current
  <2>1. UNCHANGED <<nodes, content, queue, lastMachineStates>>
    BY DEF ClosePage, ConnectEvents, DropConnection, RenderReply, ShowReply,
           worldVars, pollVars, castVars
  <2> QED
    BY <2>1 DEF Types, PageTypeOK, Current, Listed, Present
<1>1. CASE ClosePage(p)
  <2>1. page'[p] = "closed"
    BY <1>0, <1>1 DEF ClosePage
  <2>2. Tables(p)' = {}
    BY <2>1 DEF Tables
  <2> QED
    BY <1>0, <2>1, <2>2 DEF FollowingWindow, NewestComes, UpToDate, Behind
<1>2. CASE ConnectEvents(p)
  <2>1. page[p] = "loaded" /\ page'[p] = "connecting" /\ UNCHANGED <<shown, reply>>
    BY <1>0, <1>2 DEF ConnectEvents
  <2> QED
    BY <1>0, <2>1, StillFollowing
<1>3. CASE DropConnection(p)
  <2>1. /\ page[p] = "connected" /\ page'[p] = "loaded"
        /\ UNCHANGED <<shown, reply, pending, inbox>>
    BY <1>0, <1>3 DEF DropConnection, feedVars
  <2>2. Tables(p)' = Tables(p) /\ NewestComes(p)'
    BY <1>0, <2>1 DEF Tables, FollowingWindow, NewestComes
  <2>3. ASSUME Idle(p)', Current = lastMachineStates PROVE ~Behind(p, Current)
    <3>1. CASE pending[p] = <<>> /\ inbox[p] = <<>>
      <4>1. Idle(p)
        BY <1>0, <2>3, <3>1 DEF Idle
      <4> QED
        BY <2>3, <4>1 DEF FollowingWindow, UpToDate
    <3>2. CASE pending[p] # <<>> \/ inbox[p] # <<>>
      BY <1>3, <3>2 DEF DropConnection
    <3> QED
      BY <3>1, <3>2
  <2>4. UpToDate(p)'
    BY <1>0, <2>2, <2>3 DEF UpToDate, Behind
  <2> QED
    BY <2>2, <2>4 DEF FollowingWindow
<1>4. CASE RenderReply(p)
  <2>1. /\ page[p] = "connected" /\ reply'[p] = {Listed(nodes)}
        /\ UNCHANGED <<page, shown, pending, inbox>>
    BY <1>0, <1>4 DEF RenderReply, feedVars
  <2>2. Idle(p)' = Idle(p) /\ NewestComes(p)'
    BY <1>0, <2>1 DEF Idle, FollowingWindow, NewestComes
  <2>3. shown[p] \in Tables(p) /\ Tables(p)' = {shown[p], Listed(nodes)}
    BY <2>1 DEF Tables
  <2>4. MachineStates(Listed(nodes)) = Current
    BY DEF Current
  <2>5. UpToDate(p)'
    BY <1>0, <2>2, <2>3, <2>4 DEF FollowingWindow, UpToDate, Behind
  <2> QED
    BY <2>2, <2>5 DEF FollowingWindow
<1>5. CASE ShowReply(p)
  <2>1. /\ reply'[p] = {} /\ shown'[p] \in reply[p] /\ UNCHANGED <<page, pending, inbox>>
    BY <1>0, <1>5 DEF ShowReply, feedVars
  <2>2. Idle(p)' = Idle(p) /\ NewestComes(p)'
    BY <1>0, <2>1 DEF Idle, FollowingWindow, NewestComes
  <2>3. Tables(p)' \subseteq Tables(p)
    BY <2>1 DEF Tables
  <2>4. UpToDate(p)'
    BY <1>0, <2>2, <2>3 DEF FollowingWindow, UpToDate, Behind
  <2> QED
    BY <2>2, <2>4 DEF FollowingWindow
<1> QED
  BY <1>1, <1>2, <1>3, <1>4, <1>5

(* What the broker and the handler do for the window.                      *)
LEMMA FeedFollowing ==
    ASSUME Types, Subscriptions, OnlyMachines, NEW p \in Page, FollowingWindow(p),
           p \notin missed', Register(p) \/ Unregister(p) \/ Offer(p) \/ SwapTable(p)
    PROVE  FollowingWindow(p)'
<1>0. /\ page \in [Page -> {"closed", "loaded", "connecting", "connected"}]
      /\ shown \in [Page -> NodeMap] /\ missed \subseteq Page
      /\ pending \in [Page -> Seq(DOMAIN content)] /\ inbox \in [Page -> Seq(DOMAIN content)]
      /\ UNCHANGED <<nodes, content, queue, reply, lastMachineStates>> /\ Current' = Current
  <2>1. UNCHANGED <<nodes, content, queue, reply, lastMachineStates>>
    BY DEF Register, Unregister, Offer, SwapTable, worldVars, pollVars, castVars, pageVars
  <2> QED
    BY <2>1, Sequences DEF Types, PageTypeOK, Current, Listed, Present
<1>1. CASE Register(p)
  <2>1. /\ page[p] = "connecting" /\ page'[p] = "connected"
        /\ pending'[p] = <<>> /\ inbox'[p] = <<>> /\ UNCHANGED shown
    BY <1>0, <1>1 DEF Register, Feed!Join, Subscriptions
  <2>2. Idle(p)' = Idle(p) /\ Tables(p)' = Tables(p) /\ NewestComes(p)'
    BY <1>0, <2>1 DEF Idle, Tables, FollowingWindow, NewestComes
  <2> QED
    BY <1>0, <2>2 DEF FollowingWindow, UpToDate, Behind
<1>2. CASE Unregister(p)
  <2>1. page[p] # "connected" /\ UNCHANGED <<page, shown>>
    BY <1>2 DEF Unregister, pageVars
  <2> QED
    BY <1>0, <2>1, StillFollowing
<1>3. CASE Offer(p)
  <2>1. pending[p] # <<>> /\ UNCHANGED <<page, shown>> /\ pending'[p] = Tail(pending[p])
    BY <1>0, <1>3 DEF Offer, Feed!Deliver, Feed!Lose
  <2>2. CASE page[p] # "connected"
    BY <1>0, <2>1, <2>2, StillFollowing
  <2>3. CASE page[p] = "connected"
    <3> DEFINE e == Head(pending[p])
    <3>1. /\ e \in DOMAIN content
          /\ pending'[p] = <<>> => Latest(pending[p]) = e
          /\ pending'[p] # <<>> => Latest(pending'[p]) = Latest(pending[p])
      <4>1. pending[p] \in Seq(DOMAIN content)
        BY <1>0
      <4> QED
        BY <2>1, <4>1, Ends
    <3>2. queue = <<>> => Latest(pending[p]) = Len(content)
      BY <2>1, <2>3 DEF FollowingWindow, NewestComes
    <3>3. CASE Feed!Deliver(p)
      <4>1. inbox'[p] = Append(inbox[p], e)
        BY <1>0, <3>3 DEF Feed!Deliver
      <4>2. inbox'[p] # <<>> /\ Latest(inbox'[p]) = e
        BY <1>0, <3>1, <4>1, Ends
      <4> HIDE DEF e
      <4>3. NewestComes(p)'
        BY <1>0, <3>1, <3>2, <4>2 DEF FollowingWindow, NewestComes
      <4>4. ~Idle(p)'
        BY <2>1, <2>3, <4>2 DEF Idle
      <4> QED
        BY <4>3, <4>4 DEF FollowingWindow, UpToDate
    <3>4. CASE Feed!Lose(p)
      <4>1. e # Len(content)
        BY <1>3, <3>3, <3>4 DEF Offer, Feed!Deliver, Feed!Lose
      <4>2. queue = <<>> => pending'[p] # <<>>
        BY <3>1, <3>2, <4>1
      <4> HIDE DEF e
      <4>3. NewestComes(p)'
        BY <1>0, <3>1, <3>2, <4>2 DEF FollowingWindow, NewestComes
      <4>4. ~Idle(p)'
        BY <1>0, <2>1, <2>3, <4>2 DEF Idle
      <4> QED
        BY <4>3, <4>4 DEF FollowingWindow, UpToDate
    <3> QED
      BY <1>3, <3>3, <3>4 DEF Offer
  <2> QED
    BY <2>2, <2>3
<1>4. CASE SwapTable(p)
  <2>1. /\ inbox[p] # <<>> /\ UNCHANGED <<page, pending>> /\ inbox'[p] = Tail(inbox[p])
        /\ shown'[p] = IF page[p] = "connected" THEN content[Head(inbox[p])].table ELSE shown[p]
    BY <1>0, <1>4 DEF SwapTable, Feed!Read
  <2>2. CASE page[p] # "connected"
    BY <1>0, <2>1, <2>2, StillFollowing
  <2>3. CASE page[p] = "connected"
    <3>1. /\ Head(inbox[p]) \in DOMAIN content
          /\ inbox'[p] = <<>> => Latest(inbox[p]) = Head(inbox[p])
          /\ inbox'[p] # <<>> => Latest(inbox'[p]) = Latest(inbox[p])
      BY <1>0, <2>1, Ends
    <3>2. NewestComes(p)'
      BY <1>0, <2>1, <3>1 DEF FollowingWindow, NewestComes
    <3>3. ASSUME Idle(p)', Current = lastMachineStates,
                 NEW t \in Tables(p)'
          PROVE  MachineStates(t) = Current
      <4>1. queue = <<>> /\ pending[p] = <<>> /\ inbox'[p] = <<>>
        BY <1>0, <2>1, <2>3, <3>3 DEF Idle
      <4>2. Head(inbox[p]) = Len(content)
        BY <2>1, <2>3, <3>1, <4>1 DEF FollowingWindow, NewestComes
      <4>3. MachineStates(shown'[p]) = Current
        BY <2>1, <2>3, <3>1, <3>3, <4>2, NewestIsRemembered
      <4>4. \A u \in reply[p] : MachineStates(u) = Current
        BY <1>4, <2>3, <4>2 DEF SwapTable
      <4>5. t = shown'[p] \/ t \in reply[p]
        BY <1>0, <2>1, <2>3, <3>3 DEF Tables
      <4> QED
        BY <4>3, <4>4, <4>5
    <3>4. UpToDate(p)'
      BY <1>0, <3>3 DEF UpToDate, Behind
    <3> QED
      BY <3>2, <3>4 DEF FollowingWindow
  <2> QED
    BY <2>2, <2>3
<1> QED
  BY <1>1, <1>2, <1>3, <1>4

(* What the poller and the broker's run loop do.                           *)
LEMMA CastFollowing ==
    ASSUME Types, Subscriptions, NEW p \in Page, FollowingWindow(p), p \notin missed',
           PollMachineChanges \/ PollUserChanges \/ Dispatch
    PROVE  FollowingWindow(p)'
<1>0. /\ queue \in Seq(DOMAIN content) /\ pending \in [Page -> Seq(DOMAIN content)]
      /\ DOMAIN content = 1..Len(content) /\ Len(content) \in Nat
  BY Sequences DEF Types, IInv, CastTypeOK
<1>1. CASE PollMachineChanges \/ PollUserChanges
  <2>1. UNCHANGED <<pending, inbox, nodes, page, shown, reply>>
    BY <1>1, PollSteps DEF feedVars
  <2>2. Current' = Current
    BY <2>1 DEF Current, Listed, Present
  <2>3. CASE UNCHANGED <<content, queue, lastMachineStates>>
    BY <2>1, <2>2, <2>3, StillFollowing
  <2>4. CASE ~UNCHANGED <<content, queue, lastMachineStates>>
    <3>1. Len(content') = Len(content) + 1 /\ queue' = Append(queue, Len(content) + 1)
      BY <1>1, <2>4, PollSteps
    <3>2. queue \in Seq(Nat)
      BY <1>0, SeqOfMore
    <3>3. queue' # <<>> /\ Latest(queue') = Len(content')
      BY <1>0, <3>1, <3>2, Ends
    <3>4. NewestComes(p)' /\ ~Idle(p)'
      BY <3>3 DEF NewestComes, Idle
    <3> QED
      BY <3>4 DEF FollowingWindow, UpToDate
  <2> QED
    BY <2>3, <2>4
<1>2. CASE Dispatch
  <2>1. /\ queue # <<>> /\ queue' = Tail(queue)
        /\ UNCHANGED <<nodes, content, lastMachineStates, page, shown, reply, inbox>>
        /\ p \in members => pending'[p] = Append(pending[p], Head(queue))
    BY <1>2 DEF Dispatch, Feed!Publish, worldVars, pollVars
  <2>2. Current' = Current
    BY <2>1 DEF Current, Listed, Present
  <2>3. /\ Head(queue) \in DOMAIN content
        /\ queue' # <<>> => Latest(queue') = Len(content)
        /\ queue' = <<>> => Head(queue) = Len(content)
    BY <1>0, <2>1, Ends DEF FollowingWindow, NewestComes
  <2>4. page[p] = "connected" => pending'[p] # <<>> /\ Latest(pending'[p]) = Head(queue)
    <3>1. pending[p] \in Seq(DOMAIN content)
      BY <1>0
    <3>2. page[p] = "connected" => pending'[p] = Append(pending[p], Head(queue))
      BY <2>1 DEF Subscriptions
    <3>3. /\ Append(pending[p], Head(queue)) # <<>>
          /\ Latest(Append(pending[p], Head(queue))) = Head(queue)
      BY <2>3, <3>1, Ends
    <3> QED
      BY <3>2, <3>3
  <2>5. NewestComes(p)'
    BY <2>1, <2>3, <2>4 DEF NewestComes
  <2>6. Idle(p)' => ~Behind(p, Current)
    <3>1. SUFFICES ASSUME Idle(p)' PROVE ~Behind(p, Current)
      OBVIOUS
    <3>2. page[p] # "connected" /\ Head(queue) = Len(content)
      BY <2>1, <2>3, <2>4, <3>1 DEF Idle
    <3> QED
      BY <1>2, <3>2 DEF Dispatch
  <2>7. UpToDate(p)'
    BY <2>1, <2>2, <2>6 DEF UpToDate, Behind, Tables
  <2> QED
    BY <2>5, <2>7 DEF FollowingWindow
<1> QED
  BY <1>1, <1>2

LEMMA InitFollowing == Init => Subscriptions /\ OnlyMachines /\ Following
<1> SUFFICES ASSUME Init PROVE Subscriptions /\ OnlyMachines /\ Following
  OBVIOUS
<1>1. queue = <<>> /\ \A p \in Page : page[p] = "closed" /\ pending[p] = <<>>
  BY DEF Init, Feed!Init
<1>2. \A p \in Page : Tables(p) = {}
  BY <1>1 DEF Tables
<1>3. Following
  BY <1>1, <1>2 DEF Following, FollowingWindow, NewestComes, UpToDate, Behind
<1> QED
  BY <1>1, <1>3 DEF Init, Subscriptions, OnlyMachines

LEMMA NextFollowing ==
    Types /\ Subscriptions /\ OnlyMachines /\ Following /\ [Next]_vars => Following'
<1> SUFFICES ASSUME Types, Subscriptions, OnlyMachines, Following, [Next]_vars,
                    NEW p \in Page, p \notin missed'
             PROVE  FollowingWindow(p)'
  BY DEF Following
<1>0. /\ missed \subseteq Page /\ shown \in [Page -> NodeMap] /\ reply \in [Page -> SUBSET NodeMap]
      /\ page \in [Page -> {"closed", "loaded", "connecting", "connected"}]
      /\ pending \in [Page -> Seq(DOMAIN content)] /\ inbox \in [Page -> Seq(DOMAIN content)]
  BY Sequences DEF Types, PageTypeOK
<1>1. CASE LoadPage(p)
  <2>1. /\ page'[p] = "loaded" /\ shown'[p] = Listed(nodes) /\ reply'[p] = {}
        /\ UNCHANGED <<nodes, content, queue, lastMachineStates>>
        /\ queue = <<>> \/ p \notin missed
    BY <1>0, <1>1 DEF LoadPage, worldVars, pollVars, castVars
  <2>2. Tables(p)' = {Listed(nodes)} /\ Current' = MachineStates(Listed(nodes))
    BY <2>1 DEF Tables, Current, Listed, Present
  <2>3. UpToDate(p)'
    BY <2>2 DEF UpToDate, Behind
  <2>4. NewestComes(p)'
    BY <2>1 DEF Following, FollowingWindow, NewestComes
  <2> QED
    BY <2>3, <2>4 DEF FollowingWindow
<1>2. CASE ~LoadPage(p)
  <2>1. p \notin missed
    <3>1. CASE PollMachineChanges \/ PollUserChanges
      BY <3>1, PollSteps
    <3>2. CASE ~(PollMachineChanges \/ PollUserChanges)
      BY <1>2, <3>2 DEF Next, World, Browser, Server, ChangeNode, ChangeUser, Change,
         Tick, FetchMachines, ListUsers, FetchFails, Cancel, StopPolling, Dispatch,
         LoadPage, ClosePage, ConnectEvents, DropConnection, RenderReply, ShowReply,
         Register, Unregister, Offer, SwapTable, vars, pageVars
    <3> QED
      BY <3>1, <3>2
  <2>2. FollowingWindow(p)
    BY <2>1 DEF Following
  <2>3. ASSUME UNCHANGED <<nodes, content, queue, lastMachineStates,
                           page[p], shown[p], reply[p], pending[p], inbox[p]>>
        PROVE  FollowingWindow(p)'
    <3>1. Current' = Current
      BY <2>3 DEF Current, Listed, Present
    <3> QED
      BY <2>2, <2>3, <3>1, StillFollowing
  <2>4. CASE World
    BY <2>2, <2>4, ChangeFollowing DEF World, ChangeNode, ChangeUser
  <2>5. CASE Tick \/ FetchMachines \/ ListUsers \/ FetchFails \/ Cancel \/ StopPolling
             \/ UNCHANGED vars
    BY <2>3, <2>5 DEF Tick, FetchMachines, ListUsers, FetchFails, Cancel, StopPolling,
       vars, worldVars, pollVars, castVars, feedVars, pageVars
  <2>6. ASSUME NEW q \in Page, q # p,
               \/ LoadPage(q) \/ ClosePage(q) \/ ConnectEvents(q) \/ DropConnection(q)
               \/ RenderReply(q) \/ ShowReply(q)
        PROVE  FollowingWindow(p)'
    <3>1. UNCHANGED <<nodes, content, queue, lastMachineStates,
                      page[p], shown[p], reply[p], pending[p], inbox[p]>>
      BY <1>0, <2>6 DEF LoadPage, ClosePage, ConnectEvents, DropConnection, RenderReply,
         ShowReply, Feed!Renew, worldVars, pollVars, castVars, feedVars
    <3> QED
      BY <2>3, <3>1
  <2>7. ASSUME NEW q \in Page, q # p,
               Register(q) \/ Unregister(q) \/ Offer(q) \/ SwapTable(q)
        PROVE  FollowingWindow(p)'
    <3>1. UNCHANGED <<nodes, content, queue, lastMachineStates,
                      page[p], shown[p], reply[p], pending[p], inbox[p]>>
      BY <1>0, <2>7 DEF Register, Unregister, Offer, SwapTable, Feed!Join, Feed!Leave,
         Feed!Deliver, Feed!Lose, Feed!Read, worldVars, pollVars, castVars, pageVars
    <3> QED
      BY <2>3, <3>1
  <2>8. CASE Browser
    <3>1. PICK q \in Page : \/ LoadPage(q) \/ ClosePage(q) \/ ConnectEvents(q)
                            \/ DropConnection(q) \/ RenderReply(q) \/ ShowReply(q)
      BY <2>8 DEF Browser
    <3> QED
      BY <1>2, <2>2, <2>6, <3>1, PageFollowing
  <2>9. CASE \E q \in Page : Register(q) \/ Unregister(q) \/ Offer(q) \/ SwapTable(q)
    BY <2>2, <2>7, <2>9, FeedFollowing
  <2>10. CASE PollMachineChanges \/ PollUserChanges \/ Dispatch
    BY <2>2, <2>10, CastFollowing
  <2> QED
    BY <2>4, <2>5, <2>8, <2>9, <2>10 DEF Next, Server
<1> QED
  BY <1>1, <1>2

-----------------------------------------------------------------------------
(* A window that has missed nothing shows Headscale's machines once all    *)
(* has settled: the filtering of polls by their difference, their order    *)
(* and the arrival of events one by one lose nothing that matters.         *)
THEOREM Settling == Spec => []SettledWindows
<1> DEFINE WInv == Types /\ Subscriptions /\ OnlyMachines /\ Following
<1>1. Init => WInv
  BY InitIInv, InitPages, InitFollowing DEF Types
<1>2. WInv /\ [Next]_vars => WInv'
  BY NextIInv, NextPages, NextSubscriptions, NextOnlyMachines, NextFollowing DEF Types
<1>3. WInv => SettledWindows
  BY DEF Following, FollowingWindow, UpToDate, SettledWindows, Settled
<1> QED
  BY <1>1, <1>2, <1>3, PTL DEF Spec
=============================================================================
