---------------------------- MODULE SseExtension ----------------------------
(***************************************************************************)
(* An open page of hsadmin and the SSE extension of htmx that it loads     *)
(* (web/static/js/htmx-sse-1.9.10.js).                                     *)
(*                                                                         *)
(* Every page has one element with sse-connect, its body, which the swaps  *)
(* of htmx never replace, only what is in it; so bodyContains is true of   *)
(* the element that owns the source, and maybeCloseSSESource never closes  *)
(* it.  The page of machines has one table with sse-swap; the reply to a   *)
(* search is put into it and is such a table itself.  The other pages have *)
(* none.                                                                   *)
(*                                                                         *)
(* JavaScript runs one task at a time: an action is a task.  htmx puts     *)
(* what it received into the page in one task and processes it, which ends *)
(* in registerSSE, in a later one.  A table is shown with the number of    *)
(* the change that it was rendered after.                                  *)
(***************************************************************************)
EXTENDS Naturals, Sequences, FiniteSets

CONSTANTS
    Source,         \* EventSource objects; one that is forgotten may be used again
    Table,          \* elements with sse-swap; likewise
    None,           \* no table
    MaxRetry,       \* where the extension stops to count retries
    MaxVersion,     \* bound: changes that the server announces
    MaxQueue        \* bound: events on their way to the page

ASSUME SseAssumption ==
    /\ None \notin Table
    /\ MaxRetry \in Nat
    /\ MaxVersion \in Nat
    /\ MaxQueue \in Nat

VARIABLES
    outer,          \* the table of the page, or None
    inner,          \* the table inside outer that a search put there, or None
    pending,        \* the tables that are not yet processed
    shown,          \* shown[t]: the version in table t
    pushed,         \* the history of the window has a page that htmx saved
    source,         \* the sseEventSource of the body
    state,          \* state[s]: the readyState of source s, or "none"
    retry,          \* retry[s]: the retryCount that source s was made with
    armed,          \* the sources whose error handler has set a timeout
    listeners,      \* listeners[s][t]: the listeners on source s that swap table t
    queue,          \* queue[s]: the events on their way to source s
    version,        \* the number of the last change
    stranded        \* history: tables registered with a source that was replaced

tableVars == <<outer, inner, pending, shown, pushed>>
sourceVars == <<source, state, retry, armed>>
vars == <<tableVars, sourceVars, listeners, queue, version, stranded>>

Version == 0..MaxVersion
NoListeners == [t \in Table |-> 0]

TypeOK ==
    /\ {outer, inner} \subseteq Table \cup {None}
    /\ pending \subseteq Table
    /\ shown \in [Table -> Version]
    /\ pushed \in BOOLEAN
    /\ source \in Source
    /\ state \in [Source -> {"none", "connecting", "open", "closed"}]
    /\ retry \in [Source -> 0..MaxRetry]
    /\ armed \subseteq Source
    /\ listeners \in [Source -> [Table -> Nat]]
    /\ queue \in [Source -> Seq(Version)]
    /\ version \in Version
    /\ stranded \subseteq Table

(* The tables in an element that has table t, and u in it, if they are not *)
(* None.                                                                   *)
QueryAttributeOnThisOrChildren(t, u) == {t, u} \ {None}

Attached == QueryAttributeOnThisOrChildren(outer, inner)
Processed == Attached \ pending

(* Nothing refers to these objects any more.                               *)
FreeTable == {t \in Table \ Attached : \A s \in Source : listeners[s][t] = 0}
FreeSource == {s \in Source : state[s] = "none"}

-----------------------------------------------------------------------------
(* Mutant of RegisterSSE: a table is registered once for itself and once   *)
(* for the element around it.                                              *)
RegisterSSETwice(tables) ==
    listeners' = [listeners EXCEPT ![source] =
        [t \in Table |-> @[t] + IF t \in tables THEN 2 ELSE 0]]

(* The tables of processed elements get a listener on the source that the  *)
(* body has now, the closest to them.  What is processed after it left the *)
(* page has no source around it; it is not pending any more.  The          *)
(* listeners for hx-trigger are made and never added to the source.        *)
RegisterSSE(tables) ==
    listeners' = [listeners EXCEPT ![source] =
        [t \in Table |-> @[t] + IF t \in tables THEN 1 ELSE 0]]

(* The body's new source "s", made in the r-th attempt.  A closed source   *)
(* is forgotten when neither the body nor a timeout refers to it.          *)
EnsureEventSource(s, r, timeouts) ==
    /\ source' = s
    /\ retry' = [retry EXCEPT ![s] = r]
    /\ armed' = timeouts
    /\ state' = [x \in Source |-> IF x = s THEN "connecting"
                                  ELSE IF state[x] = "closed" /\ x \notin timeouts THEN "none"
                                  ELSE state[x]]
    /\ listeners' = [x \in Source |-> IF state'[x] = "none" \/ x = s THEN NoListeners ELSE listeners[x]]
    /\ queue' = [queue EXCEPT ![s] = <<>>]

(* A document is loaded and processed, its body first: what the body and   *)
(* the listeners are then, if the source is s and the table t, or None.    *)
OnlyConnecting(s) == [x \in Source |-> IF x = s THEN "connecting" ELSE "none"]
OnlyListener(t, s) == [x \in Source |-> [u \in Table |-> IF x = s /\ u = t THEN 1 ELSE 0]]

Init ==
    /\ outer \in Table \cup {None}
    /\ inner = None
    /\ pending = {}
    /\ shown = [x \in Table |-> 0]
    /\ pushed = FALSE
    /\ source \in Source
    /\ state = OnlyConnecting(source)
    /\ retry = [x \in Source |-> 0]
    /\ armed = {}
    /\ listeners = OnlyListener(outer, source)
    /\ queue = [x \in Source |-> <<>>]
    /\ version = 0
    /\ stranded = {}

-----------------------------------------------------------------------------
(* The life of a source, which the browser and the server determine.       *)

(* The server answers with a stream.                                       *)
Open(s) ==
    /\ state[s] = "connecting"
    /\ state' = [state EXCEPT ![s] = "open"]
    /\ UNCHANGED <<tableVars, source, retry, armed, listeners, queue, version, stranded>>

(* Mutant of OnError: the readyState is not looked at.                     *)
OnErrorAlways(s, readyState) ==
    /\ state' = [state EXCEPT ![s] = readyState]
    /\ armed' = armed \cup {s}

(* Mutant of OnError: the last attempt is the last.                        *)
OnErrorGivesUp(s, readyState) ==
    /\ state' = [state EXCEPT ![s] = readyState]
    /\ armed' = IF readyState = "closed" /\ retry[s] < MaxRetry THEN armed \cup {s} ELSE armed

(* The error handler: only for a source that is closed the extension has   *)
(* to do something, the others are reconnected by the browser.             *)
OnError(s, readyState) ==
    /\ state' = [state EXCEPT ![s] = readyState]
    /\ armed' = IF readyState = "closed" THEN armed \cup {s} ELSE armed

Fails(s, readyState) ==
    /\ state[s] \in {"connecting", "open"}
    /\ OnError(s, readyState)
    /\ queue' = [queue EXCEPT ![s] = <<>>]
    /\ UNCHANGED <<tableVars, source, retry, listeners, version, stranded>>

(* The connection breaks, or cannot be made: the browser tries again.      *)
NetworkError(s) == Fails(s, "connecting")

(* The answer is no stream: an error of HandleSSE or of a proxy, a refusal *)
(* of RequireAuth, its redirect to the login.  The browser gives up.       *)
FatalError(s) == state[s] = "connecting" /\ Fails(s, "closed")

(* Mutant of NextRetry: without the limit.                                 *)
NextRetryUncapped(r) == r + 1

NextRetry(r) == IF r < MaxRetry THEN r + 1 ELSE MaxRetry

(* The timeout of the error handler: the body gets a new source.  Nothing  *)
(* is registered with it.                                                  *)
Timeout(s) ==
    /\ s \in armed
    /\ \E n \in FreeSource : EnsureEventSource(n, NextRetry(retry[s]), armed \ {s})
    /\ stranded' = Processed
    /\ UNCHANGED <<tableVars, version>>

-----------------------------------------------------------------------------
(* Events.                                                                 *)

(* A machine changes and the new table is sent to the connections there    *)
(* are.                                                                    *)
Publish ==
    /\ version < MaxVersion
    /\ \A s \in Source : Len(queue[s]) < MaxQueue
    /\ version' = version + 1
    /\ queue' = [s \in Source |-> IF state[s] = "open" THEN Append(queue[s], version') ELSE queue[s]]
    /\ UNCHANGED <<tableVars, sourceVars, listeners, stranded>>

(* The table "tables" of the page become what the event carries.           *)
Swap(tables, v) ==
    /\ shown' = [t \in Table |-> IF t \in tables THEN v ELSE shown[t]]
    /\ inner' = IF outer \in tables THEN None ELSE inner
    /\ pending' = pending \ (IF outer \in tables THEN {inner} ELSE {})
    /\ stranded' = stranded \ (IF outer \in tables THEN {inner} ELSE {})

(* Mutant of Heard: the listeners of detached tables stay.                 *)
HeardByAll(s) == {t \in Table : listeners[s][t] > 0}

(* The tables whose listeners stay: those of the page.  A table has been   *)
(* registered before the table inside it, which is gone when it is its     *)
(* turn.  A listener that finds its table detached removes itself; what it *)
(* then swaps nobody sees.                                                 *)
Heard(s) ==
    LET on == {t \in Attached : listeners[s][t] > 0}
    IN IF outer \in on THEN {outer} ELSE on

Message(s) ==
    /\ state[s] = "open"
    /\ queue[s] # <<>>
    /\ queue' = [queue EXCEPT ![s] = Tail(@)]
    /\ Swap(Heard(s) \cap Attached, Head(queue[s]))
    /\ listeners' = [listeners EXCEPT ![s] =
                        [t \in Table |-> IF t \in Heard(s) THEN @[t] ELSE 0]]
    /\ UNCHANGED <<outer, pushed, sourceVars, version>>

-----------------------------------------------------------------------------
(* What the user does.  Replies may have been rendered before events that  *)
(* overtook them.                                                          *)

(* The tables t (with the table u in it, or None) take the place of all.   *)
Replace(t, u, v) ==
    /\ outer' = t
    /\ inner' = u
    /\ shown' = [x \in Table |-> IF x \in {t, u} THEN v ELSE 0]
    /\ stranded' = {}

(* The reply to a form: a page, with a table or without, takes the place   *)
(* of everything in the body.                                              *)
BodySwap(t, v) ==
    /\ t \in FreeTable \cup {None}
    /\ v <= version
    /\ Replace(t, None, v)
    /\ pending' = {t} \ {None}
    /\ pushed' = TRUE
    /\ UNCHANGED <<sourceVars, listeners, queue, version>>

(* The reply to a search: the table in it is put into the table.           *)
SearchSwap(t, v) ==
    /\ outer \in Processed
    /\ t \in FreeTable
    /\ v <= version
    /\ inner' = t
    /\ shown' = [x \in Table |-> IF x = t THEN v ELSE IF x = inner THEN 0 ELSE shown[x]]
    /\ pending' = {t}
    /\ stranded' = stranded \ {inner}
    /\ UNCHANGED <<outer, pushed, sourceVars, listeners, queue, version>>

(* The swapped elements are processed.                                     *)
Settle ==
    /\ pending # {}
    /\ RegisterSSE(pending)
    /\ pending' = {}
    /\ UNCHANGED <<outer, inner, shown, pushed, sourceVars, queue, version, stranded>>

(* The user goes back to a page that htmx saved; it is processed at once.  *)
Back(t, u, v) ==
    /\ pushed
    /\ {t, u} \subseteq FreeTable \cup {None}
    /\ u # None => t # None /\ t # u
    /\ v <= version
    /\ Replace(t, u, v)
    /\ pending' = {}
    /\ RegisterSSE(QueryAttributeOnThisOrChildren(t, u))
    /\ UNCHANGED <<pushed, sourceVars, queue, version>>

(* The user follows a link or reloads the page: a new document.            *)
Navigate(t, s) ==
    /\ Replace(t, None, version)
    /\ pending' = {}
    /\ pushed' = FALSE
    /\ source' = s
    /\ state' = OnlyConnecting(s)
    /\ retry' = [x \in Source |-> 0]
    /\ armed' = {}
    /\ listeners' = OnlyListener(t, s)
    /\ queue' = [x \in Source |-> <<>>]
    /\ UNCHANGED version

Next ==
    \/ \E s \in Source :
          Open(s) \/ NetworkError(s) \/ FatalError(s) \/ Timeout(s) \/ Message(s)
    \/ Publish
    \/ Settle
    \/ \E t \in Table \cup {None}, s \in Source : Navigate(t, s)
    \/ \E t \in Table \cup {None}, v \in Version : BodySwap(t, v) \/ SearchSwap(t, v)
    \/ \E t, u \in Table \cup {None}, v \in Version : Back(t, u, v)

Spec == Init /\ [][Next]_vars

(* Fairness: timeouts run, and a server that is asked again and again      *)
(* answers with a stream at last.                                          *)
FairSpec ==
    /\ Spec
    /\ \A s \in Source : WF_vars(Timeout(s))
    /\ SF_vars(\E s \in Source : Open(s))

-----------------------------------------------------------------------------
(* Properties.                                                             *)

(* The browser reconnects some sources by itself and the extension others: *)
(* never both.  A page has at most one connection or attempt at one, and   *)
(* so one channel in the broker.                                           *)
OneConnection ==
    LET connecting == {s \in Source : state[s] \in {"connecting", "open"}}
    IN \A s, r \in connecting \cup armed : s = r

(* As long as the body has the source that a table was registered with, a  *)
(* table of the page has one listener on it, however the tables were put   *)
(* there, replaced and nested.                                             *)
TablesListen ==
    \A t \in Processed \ stranded : listeners[source][t] = 1

(* When the page has handled an event, it shows it in each table that is   *)
(* still registered, and the source has no listener for a table that is    *)
(* not on the page: they do not pile up.                                   *)
EventShown ==
    [][\A s \in Source :
          state[s] = "open" /\ state'[s] = "open" /\ Len(queue'[s]) < Len(queue[s]) =>
              /\ \A t \in (Processed \ stranded)' : shown'[t] = Head(queue[s])
              /\ \A t \in Table \ Attached' : listeners'[s][t] = 0]_vars

(* However many attempts have failed, and whatever the user does with the  *)
(* page meanwhile, the body has a source that is connected, or one that    *)
(* the browser connects, or one whose timeout will replace it: the retry   *)
(* counter limits the delays, not the attempts.                            *)
NeverAbandoned ==
    \/ state[source] \in {"connecting", "open"}
    \/ state[source] = "closed" /\ source \in armed

(* Whatever ends a connection, the page tries again until it has one.      *)
Reconnects == []<>(state[source] = "open")

(* What IMPLEMENTATION.md:518 says, "Connect SSE for live status updates   *)
(* on machines list": while the page is connected its tables are updated.  *)
ConnectedTablesListen ==
    state[source] = "open" => \A t \in Processed : listeners[source][t] > 0
=============================================================================
