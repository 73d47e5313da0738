----------------------------- MODULE LiveUpdates ----------------------------
(***************************************************************************)
(* How a change in Headscale reaches the machines page of a browser: the   *)
(* poller (StartPolling and what it calls, internal/handlers/sse.go), the  *)
(* broker, and the pages that load the table and then swap in every table  *)
(* that the event stream brings (web/templates/machines.html).             *)
(*                                                                         *)
(* The broker appears as the abstract feed that Broker implements; the     *)
(* buffer of b.broadcast stands before it.  A Page is a browser window; its *)
(* subscription to the feed has the same name.  Headscale and the browsers *)
(* are the environment.  An event is the number of the Broadcast call, and *)
(* content is the log of what those calls carried.                         *)
(***************************************************************************)
EXTENDS Sequences, ChangeDetection

CONSTANTS
    Page,           \* browser windows
    NodeId,         \* machine ids
    Machine,        \* what a machine can be (see ChangeDetection)
    UserId,         \* user ids
    UserName,       \* names of users
    Absent,         \* no machine, or no user, has the id
    FirstNodes,     \* the machines at the start, by id
    FirstUsers,     \* the users at the start, by id
    NodeChanges,    \* the pairs <<from, to>> of a machine's possible changes
    UserChanges,    \* the same of a user
    Mishaps,        \* what else may happen, a subset of {"drop", "reply"}
    QueueCap,       \* capacity of b.broadcast: 10 in the code
    InboxCap,       \* capacity of a client channel: 5 in the code
    MaxChanges      \* bound: how many changes Headscale makes

ASSUME LiveAssumption ==
    /\ Absent \notin Machine /\ Absent \notin UserName
    /\ IsFiniteSet(UserId)
    /\ FirstNodes \in [NodeId -> Machine \cup {Absent}]
    /\ FirstUsers \in [UserId -> UserName \cup {Absent}]
    /\ NodeChanges \subseteq (Machine \cup {Absent}) \X (Machine \cup {Absent})
    /\ UserChanges \subseteq (UserName \cup {Absent}) \X (UserName \cup {Absent})
    /\ Mishaps \subseteq {"drop", "reply"}
    /\ QueueCap \in Nat \ {0}
    /\ InboxCap \in Nat \ {0}
    /\ MaxChanges \in Nat

VARIABLES
    nodes,          \* Headscale: the machine with each id, or Absent
    users,          \* Headscale: the user's name with each id, or Absent
    changes,        \* how many changes Headscale made
    pollPc,         \* where the poller is
    fetchedNodes,   \* the poller's machines of this poll
    fetchedUsers,   \* the poller's usersResp of this poll
    lastMachineStates,
    lastUserStates,
    cancelled,      \* the context of main is cancelled
    content,        \* content[e]: the table that event e carries
    queue,          \* what b.broadcast buffers
    members, newest, pending, inbox, seen,      \* the feed
    page,           \* page[p]: the state of the window
    shown,          \* shown[p]: the machines in the table of the window
    reply,          \* reply[p]: the table on its way to the window, if any
    missed          \* history: windows that the newest event, or a change, passed by

worldVars == <<nodes, users, changes>>
pollVars == <<pollPc, fetchedNodes, fetchedUsers, lastMachineStates, lastUserStates, cancelled>>
castVars == <<content, queue>>
feedVars == <<members, newest, pending, inbox, seen>>
pageVars == <<page, shown, reply, missed>>
vars == <<worldVars, pollVars, castVars, feedVars, pageVars>>

(* Each event but the first needs a change between two polls.              *)
Event == 1..(MaxChanges + 1)

Feed == INSTANCE EventFeed WITH Subscriber <- Page

Present(f) == {id \in DOMAIN f : f[id] # Absent}

(* What ListNodes and ListUsers answer.                                    *)
Listed(f) == [id \in Present(f) |-> f[id]]

EmptyMap == [id \in {} |-> Absent]

(* The poll results, and the messages that carry them.                     *)
NodeMap == UNION {[S -> Machine] : S \in SUBSET NodeId}
UserMap == UNION {[S -> UserName] : S \in SUBSET UserId}
Message == [type : {"machinesTable", "usersTable"}, table : NodeMap]

PollPc == {"waiting", "listing nodes", "listing users",
           "comparing nodes", "comparing users", "stopped"}

WorldTypeOK ==
    /\ nodes \in [NodeId -> Machine \cup {Absent}]
    /\ users \in [UserId -> UserName \cup {Absent}]
    /\ changes \in 0..MaxChanges

PollTypeOK ==
    /\ pollPc \in PollPc
    /\ fetchedNodes \in NodeMap
    /\ fetchedUsers \in UserMap
    /\ cancelled \in BOOLEAN

CastTypeOK ==
    /\ content \in Seq(Message)
    /\ queue \in Seq(1..Len(content))
    /\ Len(queue) <= QueueCap

TypeOK ==
    /\ WorldTypeOK /\ PollTypeOK /\ CastTypeOK
    /\ members \subseteq Page
    /\ \A p \in Page : Len(inbox[p]) <= InboxCap
    /\ page \in [Page -> {"closed", "loaded", "connecting", "connected"}]
    /\ shown \in [Page -> NodeMap]
    /\ reply \in [Page -> SUBSET NodeMap]
    /\ missed \subseteq Page

Init ==
    /\ nodes = FirstNodes
    /\ users = FirstUsers
    /\ changes = 0
    /\ pollPc = "waiting"
    /\ fetchedNodes = EmptyMap
    /\ fetchedUsers = EmptyMap
    /\ lastMachineStates = EmptyMap
    /\ lastUserStates = EmptyMap
    /\ cancelled = FALSE
    /\ content = <<>>
    /\ queue = <<>>
    /\ Feed!Init
    /\ page = [p \in Page |-> "closed"]
    /\ shown = [p \in Page |-> EmptyMap]
    /\ reply = [p \in Page |-> {}]
    /\ missed = {}

-----------------------------------------------------------------------------
(* Headscale and what is known of it.  A poll sees only the difference to  *)
(* what the poller remembers.  So a change that brings Headscale back to   *)
(* that is never announced: it passes by the windows that have meanwhile   *)
(* got another table, unless an event is on its way to them.               *)

Current == MachineStates(Listed(nodes))

(* The tables that the window has or is about to have without an event.    *)
Tables(p) == IF page[p] = "closed" THEN {} ELSE {shown[p]} \cup reply[p]
Behind(p, states) == \E table \in Tables(p) : MachineStates(table) # states

Idle(p) == /\ queue = <<>>
           /\ page[p] = "connected" => pending[p] = <<>> /\ inbox[p] = <<>>

Change ==
    /\ changes < MaxChanges
    /\ changes' = changes + 1
    /\ missed' = IF Current # lastMachineStates /\ Current' = lastMachineStates
                 THEN missed \cup {p \in Page : Idle(p) /\ Behind(p, lastMachineStates)}
                 ELSE missed
    /\ UNCHANGED <<pollVars, castVars, feedVars, page, shown, reply>>

(* A machine comes, goes or changes.                                       *)
ChangeNode(i, to) ==
    /\ <<nodes[i], to>> \in NodeChanges
    /\ nodes' = [nodes EXCEPT ![i] = to]
    /\ UNCHANGED users
    /\ Change

ChangeUser(u, to) ==
    /\ <<users[u], to>> \in UserChanges
    /\ users' = [users EXCEPT ![u] = to]
    /\ UNCHANGED nodes
    /\ Change

-----------------------------------------------------------------------------
(* The browser windows.  Every event carries the whole table, so a window  *)
(* misses something only with the newest event.                            *)

(* GET /machines: the server lists the machines and renders the page.  The *)
(* window has missed nothing, unless an older event is still on its way to *)
(* windows that are to come.                                               *)
LoadPage(p) ==
    /\ page[p] \in {"closed", "connected"}
    /\ page' = [page EXCEPT ![p] = "loaded"]
    /\ shown' = [shown EXCEPT ![p] = Listed(nodes)]
    /\ reply' = [reply EXCEPT ![p] = {}]
    /\ missed' = IF queue = <<>> THEN missed \ {p} ELSE missed
    /\ UNCHANGED <<worldVars, pollVars, castVars, feedVars>>

ClosePage(p) ==
    /\ page[p] # "closed"
    /\ page' = [page EXCEPT ![p] = "closed"]
    /\ shown' = [shown EXCEPT ![p] = EmptyMap]
    /\ reply' = [reply EXCEPT ![p] = {}]
    /\ UNCHANGED <<worldVars, pollVars, castVars, feedVars, missed>>

(* The window requests /events, once the server forgot its last request:   *)
(* Subscribe makes a channel ...                                           *)
ConnectEvents(p) ==
    /\ page[p] = "loaded"
    /\ page' = [page EXCEPT ![p] = "connecting"]
    /\ Feed!Renew(p)
    /\ UNCHANGED <<worldVars, pollVars, castVars, shown, reply, missed>>

(* ... and the broker registers it.  Nothing is sent of the table as it is *)
(* now.                                                                    *)
Register(p) ==
    /\ page[p] = "connecting"
    /\ page' = [page EXCEPT ![p] = "connected"]
    /\ Feed!Join(p)
    /\ UNCHANGED <<worldVars, pollVars, castVars, shown, reply, missed>>

(* The connection breaks and the window stays: htmx requests /events again *)
(* and leaves the table as it is.  What was on its way to the window and   *)
(* past the broker is gone.                                                *)
DropConnection(p) ==
    /\ "drop" \in Mishaps
    /\ page[p] = "connected"
    /\ page' = [page EXCEPT ![p] = "loaded"]
    /\ missed' = IF (pending[p] # <<>> \/ inbox[p] # <<>>) /\ Behind(p, Current)
                 THEN missed \cup {p} ELSE missed
    /\ UNCHANGED <<worldVars, pollVars, castVars, feedVars, shown, reply>>

(* The handler of a request that ended unsubscribes.                       *)
Unregister(p) ==
    /\ page[p] # "connected"
    /\ Feed!Leave({p})
    /\ UNCHANGED <<worldVars, pollVars, castVars, pageVars>>

(* The user sends a form or clears the search: the server renders the list *)
(* again ...                                                               *)
RenderReply(p) ==
    /\ "reply" \in Mishaps
    /\ page[p] = "connected"
    /\ reply[p] = {}
    /\ reply' = [reply EXCEPT ![p] = {Listed(nodes)}]
    /\ UNCHANGED <<worldVars, pollVars, castVars, feedVars, page, shown, missed>>

(* ... and htmx puts it into the page and processes it.                    *)
ShowReply(p) ==
    /\ \E table \in reply[p] : shown' = [shown EXCEPT ![p] = table]
    /\ reply' = [reply EXCEPT ![p] = {}]
    /\ UNCHANGED <<worldVars, pollVars, castVars, feedVars, page, missed>>

(* The handler takes an event from its channel and writes it; the window   *)
(* swaps the table in.  An older reply that is still under way will take   *)
(* the window back.                                                        *)
SwapTable(p) ==
    /\ Feed!Read(p)
    /\ shown' = IF page[p] = "connected"
                THEN [shown EXCEPT ![p] = content[Head(inbox[p])].table]
                ELSE shown
    /\ missed' = IF /\ page[p] = "connected" /\ Head(inbox[p]) = Len(content)
                    /\ \E table \in reply[p] : MachineStates(table) # Current
                 THEN missed \cup {p} ELSE missed
    /\ UNCHANGED <<worldVars, pollVars, castVars, page, reply>>

-----------------------------------------------------------------------------
(* The broker.                                                             *)

(* Mutant of Broadcast: no default case, and a channel without a limit.    *)
BroadcastUnbounded(type, table) ==
    /\ content' = Append(content, [type |-> type, table |-> table])
    /\ queue' = Append(queue, Len(content) + 1)
    /\ UNCHANGED missed

(* Broadcast(event), called by the poller.  An event that is dropped is    *)
(* missed by all, also by a window that is still to receive an older one.  *)
Broadcast(type, table) ==
    /\ content' = Append(content, [type |-> type, table |-> table])
    /\ IF Len(queue) < QueueCap
       THEN queue' = Append(queue, Len(content) + 1) /\ UNCHANGED missed
       ELSE missed' = Page /\ UNCHANGED queue

(* run hands the event to the clients it knows; it passes by the windows   *)
(* that are not registered yet.                                            *)
Dispatch ==
    /\ queue # <<>>
    /\ queue' = Tail(queue)
    /\ Feed!Publish(Head(queue))
    /\ missed' = IF Head(queue) = Len(content)
                 THEN missed \cup {p \in Page : page[p] # "connected" /\ Behind(p, Current)}
                 ELSE missed
    /\ UNCHANGED <<worldVars, pollVars, content, page, shown, reply>>

Offer(p) ==
    /\ \/ Feed!Deliver(p) /\ UNCHANGED missed
       \/ /\ Feed!Lose(p)
          /\ missed' = IF Head(pending[p]) = Len(content) THEN missed \cup {p} ELSE missed
    /\ UNCHANGED <<worldVars, pollVars, castVars, page, shown, reply>>

-----------------------------------------------------------------------------
(* The poller.                                                             *)

(* case <-ticker.C: go on only if a client is connected.                   *)
Tick ==
    /\ pollPc = "waiting"
    /\ members # {}
    /\ pollPc' = "listing nodes"
    /\ UNCHANGED <<fetchedNodes, fetchedUsers, lastMachineStates, lastUserStates, cancelled>>
    /\ UNCHANGED <<worldVars, castVars, feedVars, pageVars>>

FetchMachines ==
    /\ pollPc = "listing nodes"
    /\ ~cancelled
    /\ fetchedNodes' = Listed(nodes)
    /\ pollPc' = "listing users"
    /\ UNCHANGED <<fetchedUsers, lastMachineStates, lastUserStates, cancelled>>
    /\ UNCHANGED <<worldVars, castVars, feedVars, pageVars>>

ListUsers ==
    /\ pollPc = "listing users"
    /\ ~cancelled
    /\ fetchedUsers' = Listed(users)
    /\ pollPc' = "comparing nodes"
    /\ UNCHANGED <<fetchedNodes, lastMachineStates, lastUserStates, cancelled>>
    /\ UNCHANGED <<worldVars, castVars, feedVars, pageVars>>

(* Mutant of FetchFails: a failed poll forgets the states.                 *)
FetchFailsForgets ==
    /\ pollPc \in {"listing nodes", "listing users"}
    /\ pollPc' = "waiting"
    /\ lastMachineStates' = EmptyMap
    /\ UNCHANGED <<fetchedNodes, fetchedUsers, lastUserStates, cancelled>>
    /\ UNCHANGED <<worldVars, castVars, feedVars, pageVars>>

(* Mutant of FetchFails: the states are taken over before ListUsers fails. *)
FetchFailsRemembers ==
    /\ pollPc \in {"listing nodes", "listing users"}
    /\ pollPc' = "waiting"
    /\ lastMachineStates' = IF pollPc = "listing users" THEN MachineStates(fetchedNodes)
                            ELSE lastMachineStates
    /\ UNCHANGED <<fetchedNodes, fetchedUsers, lastUserStates, cancelled>>
    /\ UNCHANGED <<worldVars, castVars, feedVars, pageVars>>

(* Either call fails: the poll ends with the states as they were.          *)
FetchFails ==
    /\ pollPc \in {"listing nodes", "listing users"}
    /\ pollPc' = "waiting"
    /\ UNCHANGED <<fetchedNodes, fetchedUsers, lastMachineStates, lastUserStates, cancelled>>
    /\ UNCHANGED <<worldVars, castVars, feedVars, pageVars>>

(* Mutant of PollMachineChanges: the first poll only sets the states.      *)
PollMachineChangesBaseline ==
    /\ pollPc = "comparing nodes"
    /\ lastMachineStates' = MachineStates(fetchedNodes)
    /\ IF /\ lastMachineStates # EmptyMap
          /\ DetectMachineChanges(MachineStates(fetchedNodes), lastMachineStates)
       THEN Broadcast("machinesTable", fetchedNodes)
       ELSE UNCHANGED <<castVars, missed>>
    /\ pollPc' = "comparing users"
    /\ UNCHANGED <<fetchedNodes, fetchedUsers, lastUserStates, cancelled>>
    /\ UNCHANGED <<worldVars, feedVars, page, shown, reply>>

(* Of the templates in web/templates, those of tables that are broadcast:  *)
(* machines.html defines "machines-table", no file defines "users-table".  *)
Templates == {"machines-table"}

(* pollMachineChanges, with broadcastMachinesTableUpdate.  The states are  *)
(* taken over whether or not the table could be rendered.                  *)
PollMachineChanges ==
    /\ pollPc = "comparing nodes"
    /\ lastMachineStates' = MachineStates(fetchedNodes)
    /\ IF /\ DetectMachineChanges(MachineStates(fetchedNodes), lastMachineStates)
          /\ "machines-table" \in Templates
       THEN Broadcast("machinesTable", fetchedNodes)
       ELSE UNCHANGED <<castVars, missed>>
    /\ pollPc' = "comparing users"
    /\ UNCHANGED <<fetchedNodes, fetchedUsers, lastUserStates, cancelled>>
    /\ UNCHANGED <<worldVars, feedVars, page, shown, reply>>

(* pollUserChanges, with broadcastUsersTableUpdate.                        *)
PollUserChanges ==
    /\ pollPc = "comparing users"
    /\ lastUserStates' = UserStates(fetchedUsers, fetchedNodes)
    /\ IF /\ DetectUserChanges(UserStates(fetchedUsers, fetchedNodes), lastUserStates)
          /\ "users-table" \in Templates
       THEN Broadcast("usersTable", fetchedNodes)
       ELSE UNCHANGED <<castVars, missed>>
    /\ pollPc' = "waiting"
    /\ UNCHANGED <<fetchedNodes, fetchedUsers, lastMachineStates, cancelled>>
    /\ UNCHANGED <<worldVars, feedVars, page, shown, reply>>

(* main cancels its context on a signal, and the poller returns.           *)
Cancel ==
    /\ ~cancelled
    /\ cancelled' = TRUE
    /\ UNCHANGED <<pollPc, fetchedNodes, fetchedUsers, lastMachineStates, lastUserStates>>
    /\ UNCHANGED <<worldVars, castVars, feedVars, pageVars>>

(* Mutant of StopPolling: break, which leaves the select and not the loop. *)
StopPollingBreak ==
    /\ pollPc = "waiting"
    /\ cancelled
    /\ UNCHANGED vars

StopPolling ==
    /\ pollPc = "waiting"
    /\ cancelled
    /\ pollPc' = "stopped"
    /\ UNCHANGED <<fetchedNodes, fetchedUsers, lastMachineStates, lastUserStates, cancelled>>
    /\ UNCHANGED <<worldVars, castVars, feedVars, pageVars>>

-----------------------------------------------------------------------------
World ==
    \/ \E i \in NodeId, c \in NodeChanges : ChangeNode(i, c[2])
    \/ \E u \in UserId, c \in UserChanges : ChangeUser(u, c[2])

Browser ==
    \E p \in Page : \/ LoadPage(p) \/ ClosePage(p) \/ ConnectEvents(p) \/ DropConnection(p)
                    \/ RenderReply(p) \/ ShowReply(p)

Server ==
    \/ Tick \/ FetchMachines \/ ListUsers \/ FetchFails
    \/ PollMachineChanges \/ PollUserChanges \/ StopPolling
    \/ Dispatch
    \/ \E p \in Page : Register(p) \/ Unregister(p) \/ Offer(p) \/ SwapTable(p)

Next == World \/ Browser \/ Server \/ Cancel

Spec == Init /\ [][Next]_vars

(***************************************************************************)
(* Fairness.  The ticker ticks, goroutines run, and a window whose         *)
(* connection is up reads it.  Calls to Headscale may fail any number of   *)
(* times but not for ever: strong fairness of the two calls; with a        *)
(* cancelled context they fail.  The select of the poller chooses at random *)
(* between a tick and the cancelled context.  Headscale need not change,   *)
(* browsers need not do anything, and the signal need not come.            *)
(***************************************************************************)
Fairness ==
    /\ WF_vars(Tick)
    /\ SF_vars(FetchMachines) /\ SF_vars(ListUsers)
    /\ WF_vars(cancelled /\ FetchFails) /\ SF_vars(StopPolling)
    /\ WF_vars(PollMachineChanges) /\ WF_vars(PollUserChanges) /\ WF_vars(Dispatch)
    /\ \A p \in Page : WF_vars(Offer(p)) /\ WF_vars(SwapTable(p))

FairSpec == Spec /\ Fairness

-----------------------------------------------------------------------------
(* Safety.                                                                 *)

(* Event e carries the newest machines table that was broadcast.           *)
NewestTable(e) ==
    /\ e \in DOMAIN content
    /\ content[e].type = "machinesTable"
    /\ \A d \in DOMAIN content : content[d].type = "machinesTable" => d <= e

(* What the poller remembers is what it last told the broker: no poll      *)
(* changes lastMachineStates silently, whatever comes, goes or changes     *)
(* between two polls, whichever calls fail in between and however long no  *)
(* client is connected.                                                    *)
RememberedIsAnnounced ==
    \/ /\ lastMachineStates = EmptyMap
       /\ \A e \in DOMAIN content : content[e].type # "machinesTable"
    \/ \E e \in DOMAIN content :
          NewestTable(e) /\ lastMachineStates = MachineStates(content[e].table)

(* IMPLEMENTATION.md:537: the poller "only broadcasts when changes are     *)
(* detected": but for the first table, every broadcast has a change of     *)
(* Headscale of its own, however often polls fail or pause in between.     *)
BroadcastsAreChanges == Len(content) <= changes + 1

(* The number of users is compared first and then one way only: still the  *)
(* poller sees a difference exactly when there is one, also when one user  *)
(* goes while another comes, or when machines change hands.                *)
UsersDetected ==
    LET current == UserStates(fetchedUsers, fetchedNodes)
    IN pollPc = "comparing users" =>
           (DetectUserChanges(current, lastUserStates) <=> current # lastUserStates)

(* Nothing is on its way to the window, and the poller remembers what      *)
(* Headscale holds: until the next change no event will come.              *)
Settled(p) == page[p] = "connected" /\ Idle(p) /\ lastMachineStates = Current

(* What PageCatchesUp comes to without fairness: once everything has       *)
(* settled, a window that has missed nothing shows the machines as they    *)
(* are, wherever in a poll it was loaded and registered, however old the   *)
(* events are that reach it, and whichever polls and connections failed.   *)
(* And a reply that is still under way will leave it so.                   *)
SettledWindows ==
    \A p \in Page \ missed : Settled(p) => ~Behind(p, Current)

(* IMPLEMENTATION.md:527: "Add change detection for machines (online       *)
(* status, routes, tags, new/deleted)": after a comparison the approved    *)
(* routes in the newest table broadcast are those just fetched.            *)
ApprovedRoutesAnnounced ==
    pollPc = "comparing users" =>
        \A id \in DOMAIN fetchedNodes :
            \E e \in DOMAIN content :
                /\ NewestTable(e)
                /\ id \in DOMAIN content[e].table
                /\ content[e].table[id].approved = fetchedNodes[id].approved

(* IMPLEMENTATION.md:519: "Connect real-time updates for users list": once *)
(* the poller has seen users, the users list was broadcast.                *)
UsersAnnounced ==
    lastUserStates # EmptyMap => \E e \in DOMAIN content : content[e].type = "usersTable"

(* Liveness.                                                               *)

ShowsCurrent(p) == MachineStates(shown[p]) = Current

(* A window that stays connected and has missed nothing ends up showing    *)
(* the machines as they are, unless the process is stopped: failed polls   *)
(* are made up for, and no older event or reply has the last word.  What a *)
(* window can miss is all in "missed": WindowsFollow fails without it.     *)
PageCatchesUp ==
    \A p \in Page :
        [](~cancelled) /\ <>[](page[p] = "connected" /\ p \notin missed) =>
            <>[]ShowsCurrent(p)

(* IMPLEMENTATION.md:143-147: "Real-time updates via Server-Sent Events",  *)
(* where "Live machine status changes (online/offline)" and "Deleted       *)
(* machines disappear automatically": a window that stays connected ends   *)
(* up showing the machines as they are.                                    *)
WindowsFollow ==
    \A p \in Page :
        [](~cancelled) /\ <>[](page[p] = "connected") => <>[]ShowsCurrent(p)

(* The poller stops after a signal, wherever in a poll it is.              *)
CancelStopsPoller == cancelled ~> pollPc = "stopped"
=============================================================================
