----------------------------- MODULE EventFeed ------------------------------
(***************************************************************************)
(* What the event broker promises to its subscribers, with no goroutine,   *)
(* no lock and no Go channel in sight: a lossy, ordered publish/subscribe  *)
(* feed.                                                                   *)
(*                                                                         *)
(* Events are the numbers of the publications.  Every event published      *)
(* while a subscriber is a member becomes pending for it.  A pending event *)
(* goes to the subscriber's inbox, or is lost for this one subscriber, and *)
(* the latter only when its inbox already holds InboxCap events.  A        *)
(* subscriber reads its inbox first in, first out, even after it stopped   *)
(* being a member.  Broker implements this specification (see there).      *)
(***************************************************************************)
EXTENDS Naturals, Sequences

CONSTANTS
    Subscriber,     \* those who may join the feed
    Event,          \* the positive numbers that events have
    InboxCap        \* how many unread events an inbox holds

VARIABLES
    members,        \* the current subscribers
    newest,         \* the number of the newest event published
    pending,        \* pending[s]: published, not yet offered to s
    inbox,          \* inbox[s]: offered to s, not yet read
    seen            \* seen[s]: the last event s read, 0 if none

feedVars == <<members, newest, pending, inbox, seen>>

Init ==
    /\ members = {}
    /\ newest = 0
    /\ pending = [s \in Subscriber |-> <<>>]
    /\ inbox = [s \in Subscriber |-> <<>>]
    /\ seen = [s \in Subscriber |-> 0]

(* A subscriber joins; it will see the events published from now on.       *)
Join(s) ==
    /\ s \notin members
    /\ members' = members \cup {s}
    /\ UNCHANGED <<newest, pending, inbox, seen>>

(* Some subscribers stop being members: nothing is pending for them.       *)
Leave(S) ==
    /\ S # {}
    /\ S \subseteq members
    /\ members' = members \ S
    /\ pending' = [s \in Subscriber |-> IF s \in S THEN <<>> ELSE pending[s]]
    /\ UNCHANGED <<newest, inbox, seen>>

(* One who is not a member gives its inbox away and starts afresh.         *)
Renew(s) ==
    /\ s \notin members
    /\ inbox' = [inbox EXCEPT ![s] = <<>>]
    /\ seen' = [seen EXCEPT ![s] = 0]
    /\ UNCHANGED <<members, newest, pending>>

(* A later event is published to all the members at once.                  *)
Publish(e) ==
    /\ e > newest
    /\ newest' = e
    /\ pending' = [s \in Subscriber |->
                      IF s \in members THEN Append(pending[s], e) ELSE pending[s]]
    /\ UNCHANGED <<members, inbox, seen>>

Deliver(s) ==
    /\ pending[s] # <<>>
    /\ Len(inbox[s]) < InboxCap
    /\ inbox' = [inbox EXCEPT ![s] = Append(@, Head(pending[s]))]
    /\ pending' = [pending EXCEPT ![s] = Tail(@)]
    /\ UNCHANGED <<members, newest, seen>>

(* The only way a member loses an event.                                   *)
Lose(s) ==
    /\ pending[s] # <<>>
    /\ Len(inbox[s]) = InboxCap
    /\ pending' = [pending EXCEPT ![s] = Tail(@)]
    /\ UNCHANGED <<members, newest, inbox, seen>>

Read(s) ==
    /\ inbox[s] # <<>>
    /\ seen' = [seen EXCEPT ![s] = Head(inbox[s])]
    /\ inbox' = [inbox EXCEPT ![s] = Tail(@)]
    /\ UNCHANGED <<members, newest, pending>>

Next ==
    \/ \E s \in Subscriber : Join(s) \/ Renew(s) \/ Deliver(s) \/ Lose(s) \/ Read(s)
    \/ \E S \in SUBSET Subscriber : Leave(S)
    \/ \E e \in Event : Publish(e)

Spec == Init /\ [][Next]_feedVars
=============================================================================
