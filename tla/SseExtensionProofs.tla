------------------------- MODULE SseExtensionProofs -------------------------
(***************************************************************************)
(* The safety of SseExtension, for any number of tables and sources, and   *)
(* without the bounds of the model.                                        *)
(*                                                                         *)
(* Two facts make the properties inductive.  At any time the body's source *)
(* is the only one there is, and a timeout is set exactly when it is       *)
(* closed (SingleSource).  And a table of the page is either not yet       *)
(* processed, or stranded, and then it has no listener, or it has one      *)
(* (Listening).                                                            *)
(***************************************************************************)
EXTENDS SseExtension, TLAPS

SingleSource ==
    /\ state[source] # "none"
    /\ \A s \in Source : s # source => state[s] = "none"
    /\ armed = IF state[source] = "closed" THEN {source} ELSE {}

Nested == inner # None => outer # None /\ inner # outer

Unheard(t) == \A s \in Source : listeners[s][t] = 0

Listening ==
    /\ pending \subseteq Attached
    /\ stranded \subseteq Processed
    /\ \A t \in pending \cup stranded : Unheard(t)
    /\ TablesListen

IInv == TypeOK /\ SingleSource /\ Nested /\ Listening

USE SseAssumption DEF SseAssumption

-----------------------------------------------------------------------------
(* What the page holds are tables.                                         *)
LEMMA AttachedTables ==
    ASSUME TypeOK
    PROVE  Attached \subseteq Table
  BY DEF TypeOK, Attached, QueryAttributeOnThisOrChildren

LEMMA QueueFacts ==
    ASSUME NEW q \in Seq(Version), NEW v \in Version
    PROVE  /\ Append(q, v) \in Seq(Version)
           /\ Len(q) \in Nat /\ Len(Append(q, v)) = Len(q) + 1
           /\ q # <<>> => Tail(q) \in Seq(Version) /\ Head(q) \in Version
           /\ <<>> \in Seq(Version)
  OBVIOUS

-----------------------------------------------------------------------------
(* Types.                                                                  *)
LEMMA TypeInit == Init => TypeOK
<1> SUFFICES ASSUME Init PROVE TypeOK
  OBVIOUS
<1>1. <<>> \in Seq(Version) /\ 0 \in Version
  BY DEF Version
<1>2. /\ retry \in [Source -> 0..MaxRetry]
      /\ state \in [Source -> {"none", "connecting", "open", "closed"}]
      /\ listeners \in [Source -> [Table -> Nat]]
  BY DEF Init, OnlyConnecting, OnlyListener
<1>3. shown \in [Table -> Version] /\ queue \in [Source -> Seq(Version)]
  BY <1>1 DEF Init
<1> QED
  BY <1>1, <1>2, <1>3 DEF Init, TypeOK

LEMMA SettleType ==
    ASSUME TypeOK, NEW tables, RegisterSSE(tables)
    PROVE  listeners' \in [Source -> [Table -> Nat]]
  BY DEF TypeOK, RegisterSSE

LEMMA TypeStep == TypeOK /\ [Next]_vars => TypeOK'
<1> SUFFICES ASSUME TypeOK, [Next]_vars PROVE TypeOK'
  OBVIOUS
<1> USE DEF TypeOK
<1>1. ASSUME NEW s \in Source, Open(s) PROVE TypeOK'
  BY <1>1 DEF Open, tableVars
<1>2. ASSUME NEW s \in Source, NEW r \in {"connecting", "closed"}, Fails(s, r) PROVE TypeOK'
  BY <1>2, <<>> \in Seq(Version) DEF Fails, OnError, tableVars
<1>3. ASSUME NEW s \in Source, Timeout(s) PROVE TypeOK'
  <2>1. PICK n \in FreeSource : EnsureEventSource(n, NextRetry(retry[s]), armed \ {s})
    BY <1>3 DEF Timeout
  <2>2. n \in Source /\ NextRetry(retry[s]) \in 0..MaxRetry
    BY DEF FreeSource, NextRetry
  <2>3. state' \in [Source -> {"none", "connecting", "open", "closed"}]
    BY <2>1, <2>2 DEF EnsureEventSource
  <2>4. listeners' \in [Source -> [Table -> Nat]]
    BY <2>1, <2>2 DEF EnsureEventSource, NoListeners
  <2>5. queue' \in [Source -> Seq(Version)]
    BY <2>1, <2>2, <<>> \in Seq(Version) DEF EnsureEventSource
  <2>6. source' \in Source /\ retry' \in [Source -> 0..MaxRetry] /\ armed' \subseteq Source
    BY <2>1, <2>2 DEF EnsureEventSource
  <2>7. stranded' \subseteq Table
    BY <1>3, AttachedTables DEF Timeout, Processed
  <2> QED
    BY <1>3, <2>3, <2>4, <2>5, <2>6, <2>7 DEF Timeout, tableVars
<1>4. ASSUME NEW s \in Source, Message(s) PROVE TypeOK'
  <2>1. Tail(queue[s]) \in Seq(Version) /\ Head(queue[s]) \in Version
    BY <1>4, QueueFacts DEF Message
  <2>2. queue' \in [Source -> Seq(Version)]
    BY <1>4, <2>1 DEF Message
  <2>3. shown' \in [Table -> Version] /\ inner' \in Table \cup {None}
    BY <1>4, <2>1 DEF Message, Swap
  <2>4. pending' \subseteq Table /\ stranded' \subseteq Table
    BY <1>4 DEF Message, Swap
  <2>5. listeners' \in [Source -> [Table -> Nat]]
    BY <1>4 DEF Message
  <2> QED
    BY <1>4, <2>2, <2>3, <2>4, <2>5 DEF Message, sourceVars
<1>5. CASE Publish
  <2>1. version' \in Version
    BY <1>5 DEF Publish, Version
  <2>2. queue' \in [Source -> Seq(Version)]
    BY <1>5, <2>1, QueueFacts DEF Publish
  <2> QED
    BY <1>5, <2>1, <2>2 DEF Publish, tableVars, sourceVars
<1>6. CASE Settle
  BY <1>6, SettleType DEF Settle, sourceVars
<1>7. ASSUME NEW t \in Table \cup {None}, NEW s \in Source, Navigate(t, s) PROVE TypeOK'
  <2>1. <<>> \in Seq(Version) /\ 0 \in Version
    BY DEF Version
  <2>2. /\ retry' \in [Source -> 0..MaxRetry]
        /\ state' \in [Source -> {"none", "connecting", "open", "closed"}]
        /\ listeners' \in [Source -> [Table -> Nat]]
    BY <1>7 DEF Navigate, OnlyConnecting, OnlyListener
  <2>3. shown' \in [Table -> Version] /\ queue' \in [Source -> Seq(Version)]
    BY <1>7, <2>1 DEF Navigate, Replace
  <2> QED
    BY <1>7, <2>1, <2>2, <2>3 DEF Navigate, Replace
<1>8. ASSUME NEW t \in Table \cup {None}, NEW v \in Version, BodySwap(t, v) PROVE TypeOK'
  BY <1>8, 0 \in Version DEF BodySwap, Replace, sourceVars, Version
<1>9. ASSUME NEW t \in Table \cup {None}, NEW v \in Version, SearchSwap(t, v) PROVE TypeOK'
  BY <1>9, 0 \in Version DEF SearchSwap, FreeTable, sourceVars, Version
<1>10. ASSUME NEW t \in Table \cup {None}, NEW u \in Table \cup {None}, NEW v \in Version,
              Back(t, u, v)
       PROVE TypeOK'
  <2>1. listeners' \in [Source -> [Table -> Nat]]
    BY <1>10, SettleType DEF Back
  <2> QED
    BY <1>10, <2>1, 0 \in Version DEF Back, Replace, sourceVars, Version
<1>11. CASE UNCHANGED vars
  BY <1>11 DEF vars, tableVars, sourceVars
<1> QED
  BY <1>1, <1>2, <1>3, <1>4, <1>5, <1>6, <1>7, <1>8, <1>9, <1>10, <1>11
     DEF Next, NetworkError, FatalError

THEOREM TypeCorrect == Spec => []TypeOK
  BY TypeInit, TypeStep, PTL DEF Spec

-----------------------------------------------------------------------------
(* One source.                                                             *)
LEMMA SourceInit == Init => SingleSource
  BY DEF Init, SingleSource, OnlyConnecting

LEMMA SourceStep == TypeOK /\ SingleSource /\ [Next]_vars => SingleSource'
<1> SUFFICES ASSUME TypeOK, SingleSource, [Next]_vars PROVE SingleSource'
  OBVIOUS
<1> USE DEF TypeOK, SingleSource
<1>1. ASSUME NEW s \in Source, Open(s) PROVE SingleSource'
  BY <1>1 DEF Open
<1>2. ASSUME NEW s \in Source, NEW r \in {"connecting", "closed"}, Fails(s, r)
      PROVE SingleSource'
  <2>1. s = source
    BY <1>2 DEF Fails
  <2> QED
    BY <1>2, <2>1 DEF Fails, OnError
<1>3. ASSUME NEW s \in Source, Timeout(s) PROVE SingleSource'
  <2>1. PICK n \in FreeSource : EnsureEventSource(n, NextRetry(retry[s]), armed \ {s})
    BY <1>3 DEF Timeout
  <2>2. n \in Source /\ n # source /\ s = source /\ armed \ {s} = {} /\ state[source] = "closed"
    BY <1>3, <2>1 DEF Timeout, FreeSource
  <2> QED
    BY <2>1, <2>2 DEF EnsureEventSource
<1>4. ASSUME NEW t, NEW s \in Source, Navigate(t, s) PROVE SingleSource'
  BY <1>4 DEF Navigate, OnlyConnecting
<1>5. CASE UNCHANGED sourceVars
  BY <1>5 DEF sourceVars
<1>6. ASSUME NEW s \in Source, Message(s) PROVE SingleSource'
  BY <1>5, <1>6 DEF Message
<1> QED
  BY <1>1, <1>2, <1>3, <1>4, <1>5, <1>6
     DEF Next, NetworkError, FatalError, Publish, Settle, BodySwap, SearchSwap, Back, vars

-----------------------------------------------------------------------------
(* Nesting: what is inside a table is another table.                       *)
LEMMA NestedStep == TypeOK /\ Nested /\ [Next]_vars => Nested'
<1> SUFFICES ASSUME TypeOK, Nested, [Next]_vars PROVE Nested'
  OBVIOUS
<1> USE DEF Nested
<1>1. ASSUME NEW s \in Source, Message(s) PROVE Nested'
  BY <1>1 DEF Message, Swap
<1>2. ASSUME NEW t, NEW s, Navigate(t, s) PROVE Nested'
  BY <1>2 DEF Navigate, Replace
<1>3. ASSUME NEW t, NEW v, BodySwap(t, v) PROVE Nested'
  BY <1>3 DEF BodySwap, Replace
<1>4. ASSUME NEW t, NEW v, SearchSwap(t, v) PROVE Nested'
  BY <1>4 DEF SearchSwap, Processed, Attached, FreeTable, QueryAttributeOnThisOrChildren
<1>5. ASSUME NEW t, NEW u, NEW v, Back(t, u, v) PROVE Nested'
  BY <1>5 DEF Back, Replace
<1>6. CASE UNCHANGED tableVars
  BY <1>6 DEF tableVars
<1>7. CASE Settle
  BY <1>7 DEF Settle
<1> QED
  BY <1>1, <1>2, <1>3, <1>4, <1>5, <1>6, <1>7
     DEF Next, Open, NetworkError, FatalError, Fails, Timeout, Publish, vars

-----------------------------------------------------------------------------
(* Listeners.                                                              *)
LEMMA ListeningInit == Init => Listening
<1> SUFFICES ASSUME Init PROVE Listening
  OBVIOUS
<1>1. pending = {} /\ stranded = {} /\ Processed \subseteq {outer} /\ outer \in Table \cup {None}
      /\ source \in Source
  BY DEF Init, Processed, Attached, QueryAttributeOnThisOrChildren
<1>2. \A t \in Processed : listeners[source][t] = 1
  BY <1>1 DEF Init, OnlyListener, Processed, Attached, QueryAttributeOnThisOrChildren
<1> QED
  BY <1>1, <1>2 DEF Listening, TablesListen

(* All tables of the page are new and wait to be processed, or have just   *)
(* been registered.                                                        *)
LEMMA NewPage ==
    ASSUME TypeOK, NEW t \in FreeTable \cup {None}, NEW u \in FreeTable \cup {None},
           NEW v, Replace(t, u, v),
           source' = source,
           \/ pending' = {t, u} \ {None} /\ listeners' = listeners
           \/ pending' = {} /\ RegisterSSE(QueryAttributeOnThisOrChildren(t, u))
    PROVE  Listening'
<1>1. Attached' = {t, u} \ {None} /\ stranded' = {}
  BY DEF Replace, Attached, QueryAttributeOnThisOrChildren
<1>2. {t, u} \ {None} \subseteq Table /\ \A x \in {t, u} \ {None} : Unheard(x)
  BY DEF FreeTable, Unheard
<1>3. CASE pending' = {t, u} \ {None} /\ listeners' = listeners
  BY <1>1, <1>2, <1>3 DEF Listening, TablesListen, Processed, Unheard
<1>4. CASE pending' = {} /\ RegisterSSE(QueryAttributeOnThisOrChildren(t, u))
  <2>1. \A x \in {t, u} \ {None} : listeners'[source][x] = 1
    BY <1>2, <1>4 DEF RegisterSSE, QueryAttributeOnThisOrChildren, TypeOK, Unheard
  <2> QED
    BY <1>1, <1>4, <2>1 DEF Listening, TablesListen, Processed
<1> QED
  BY <1>3, <1>4

(* The event reaches the outer table, and then the inner one is gone, or   *)
(* it reaches at most the inner one.                                       *)
LEMMA MessageKeeps ==
    ASSUME IInv, NEW s \in Source, Message(s)
    PROVE  /\ Listening'
           /\ \A t \in (Processed \ stranded)' : shown'[t] = Head(queue[s])
           /\ \A t \in Table \ Attached' : listeners'[s][t] = 0
<1> USE DEF IInv
<1>1. s = source /\ source' = source
  BY DEF Message, SingleSource, sourceVars
<1>2. /\ Attached \subseteq Table /\ Attached = {outer, inner} \ {None}
      /\ outer' = outer
  BY AttachedTables DEF Message, Attached, QueryAttributeOnThisOrChildren
<1>3. \A t \in Table : listeners'[s][t] = IF t \in Heard(s) THEN listeners[s][t] ELSE 0
  BY DEF Message, TypeOK
<1>4. /\ \A t \in pending \cup stranded : t \in Attached /\ listeners[s][t] = 0
      /\ \A t \in Attached \ (pending \cup stranded) : listeners[s][t] = 1
  BY <1>1 DEF Listening, Unheard, TablesListen, Processed
<1>5. \A t \in pending \cup stranded, x \in Source : listeners'[x][t] = 0
  BY <1>2, <1>4 DEF Message, TypeOK, Listening, Unheard, Processed
<1>6. CASE outer \in Attached /\ listeners[s][outer] > 0
  <2>1. Heard(s) = {outer} /\ outer \notin pending \cup stranded
    BY <1>2, <1>4, <1>6 DEF Heard
  <2>2. inner' = None /\ pending' = pending \ {inner} /\ stranded' = stranded \ {inner}
        /\ shown' = [t \in Table |-> IF t \in {outer} THEN Head(queue[s]) ELSE shown[t]]
    BY <1>6, <2>1 DEF Message, Swap
  <2>3. Attached' = {outer}
    BY <1>2, <1>6, <2>2 DEF Attached, QueryAttributeOnThisOrChildren
  <2>4. pending' = {} /\ stranded' = {}
    BY <1>2, <1>4, <2>1, <2>2
  <2>5. listeners'[s][outer] = 1
    BY <1>2, <1>3, <1>4, <1>6, <2>1
  <2> QED
    BY <1>1, <1>2, <1>3, <1>6, <2>1, <2>2, <2>3, <2>4, <2>5 DEF Listening, TablesListen, Processed
<1>7. CASE ~(outer \in Attached /\ listeners[s][outer] > 0)
  <2>1. Heard(s) = {t \in Attached : listeners[s][t] > 0} /\ outer \notin Heard(s)
    BY <1>2, <1>7 DEF Heard
  <2>2. inner' = inner /\ pending' = pending /\ stranded' = stranded
        /\ shown' = [t \in Table |-> IF t \in Heard(s) THEN Head(queue[s]) ELSE shown[t]]
    <3>1. Heard(s) \cap Attached = Heard(s) /\ outer \notin Heard(s)
      BY <2>1
    <3> QED
      BY <3>1 DEF Message, Swap
  <2>3. Attached' = Attached /\ Processed' = Processed
    BY <1>2, <2>2 DEF Attached, QueryAttributeOnThisOrChildren, Processed
  <2>4. \A t \in Processed \ stranded : t \in Heard(s) /\ listeners'[s][t] = 1
    BY <1>2, <1>3, <1>4, <2>1 DEF Processed
  <2> QED
    BY <1>1, <1>2, <1>3, <1>5, <2>1, <2>2, <2>3, <2>4 DEF Listening, TablesListen, Unheard, Processed
<1> QED
  BY <1>6, <1>7

LEMMA ListeningStep == IInv /\ [Next]_vars => Listening'
<1> SUFFICES ASSUME IInv, [Next]_vars PROVE Listening'
  OBVIOUS
<1> USE DEF IInv
<1>1. ASSUME UNCHANGED <<tableVars, source, listeners, stranded>> PROVE Listening'
  BY <1>1 DEF tableVars, Listening, TablesListen, Unheard, Processed, Attached, QueryAttributeOnThisOrChildren
<1>2. ASSUME NEW s \in Source, Timeout(s) PROVE Listening'
  <2>1. PICK n \in FreeSource : EnsureEventSource(n, NextRetry(retry[s]), armed \ {s})
    BY <1>2 DEF Timeout
  <2>2. Attached' = Attached /\ pending' = pending /\ Processed' = Processed /\ stranded' = Processed
    BY <1>2 DEF Timeout, tableVars, Attached, QueryAttributeOnThisOrChildren, Processed
  <2>3. n \in Source /\ s = source /\ n # source /\ state[source] = "closed"
    BY <1>2, <2>1 DEF Timeout, SingleSource, FreeSource
  <2>4. state'[source] = "none" /\ \A x \in Source \ {n} : state'[x] = "none"
    BY <2>1, <2>3 DEF EnsureEventSource, SingleSource
  <2>5. \A x \in Source : listeners'[x] = NoListeners
    BY <2>1, <2>3, <2>4 DEF EnsureEventSource
  <2>6. \A x \in Source, t \in Table : listeners'[x][t] = 0
    BY <2>5 DEF NoListeners
  <2> QED
    BY <2>2, <2>6, AttachedTables DEF Listening, TablesListen, Unheard, Processed
<1>3. ASSUME NEW t \in Table \cup {None}, NEW s \in Source, Navigate(t, s) PROVE Listening'
  <2>1. pending' = {} /\ stranded' = {} /\ source' = s /\ Attached' = {t} \ {None}
    BY <1>3 DEF Navigate, Replace, Attached, QueryAttributeOnThisOrChildren
  <2>2. t \in Table => listeners'[s][t] = 1
    BY <1>3 DEF Navigate, OnlyListener
  <2> QED
    BY <2>1, <2>2 DEF Listening, TablesListen, Processed
<1>4. ASSUME NEW t \in Table \cup {None}, NEW v \in Version, BodySwap(t, v) PROVE Listening'
  BY <1>4, NewPage DEF BodySwap, sourceVars
<1>5. ASSUME NEW t \in Table \cup {None}, NEW u \in Table \cup {None}, NEW v \in Version,
             Back(t, u, v)
      PROVE Listening'
  BY <1>5, NewPage DEF Back, sourceVars
<1>6. ASSUME NEW t \in Table \cup {None}, NEW v \in Version, SearchSwap(t, v) PROVE Listening'
  <2>1. t \in Table /\ Unheard(t) /\ outer # None /\ outer \notin pending /\ t # outer
    BY <1>6 DEF SearchSwap, FreeTable, Unheard, Processed, Attached, QueryAttributeOnThisOrChildren
  <2>2. Attached' = {outer, t} /\ pending' = {t} /\ stranded' = stranded \ {inner}
    BY <1>6, <2>1 DEF SearchSwap, Attached, QueryAttributeOnThisOrChildren
  <2>3. source' = source /\ listeners' = listeners
    BY <1>6 DEF SearchSwap, sourceVars
  <2>4. stranded \subseteq {outer, inner} /\ t \notin stranded
    BY <1>6 DEF SearchSwap, FreeTable, Listening, Processed, Attached, QueryAttributeOnThisOrChildren
  <2>5. Processed' = {outer} /\ outer \in Processed
    BY <1>6, <2>1, <2>2 DEF SearchSwap, Processed
  <2>6. outer \notin stranded' => outer \notin stranded
    BY <2>1, <2>2 DEF Nested
  <2> QED
    BY <2>1, <2>2, <2>3, <2>4, <2>5, <2>6 DEF Listening, TablesListen, Unheard
<1>7. CASE Settle
  <2>1. Attached' = Attached /\ pending' = {} /\ Processed' = Attached /\ stranded' = stranded
        /\ source' = source /\ source \in Source
    BY <1>7 DEF Settle, sourceVars, Attached, QueryAttributeOnThisOrChildren, Processed, TypeOK
  <2>2. \A t \in Table, x \in Source :
           listeners'[x][t] = IF x = source /\ t \in pending THEN listeners[x][t] + 1 ELSE listeners[x][t]
    BY <1>7 DEF Settle, RegisterSSE, TypeOK
  <2>3. pending \cap stranded = {} /\ Attached \subseteq Table
    BY AttachedTables DEF Listening, Processed
  <2>4. \A t \in Attached \ stranded : listeners'[source][t] = 1
    <3>1. ASSUME NEW t \in Attached \ stranded, t \in pending PROVE listeners'[source][t] = 1
      <4>1. listeners[source][t] = 0
        BY <3>1, <2>1 DEF Listening, Unheard
      <4> QED
        BY <3>1, <4>1, <2>1, <2>2, <2>3
    <3>2. ASSUME NEW t \in Attached \ stranded, t \notin pending PROVE listeners'[source][t] = 1
      BY <3>2, <2>1, <2>2, <2>3 DEF Listening, TablesListen, Processed
    <3> QED
      BY <3>1, <3>2
  <2>5. \A t \in stranded, x \in Source : listeners'[x][t] = 0
    BY <2>2, <2>3 DEF Listening, Unheard, TypeOK
  <2> QED
    BY <2>1, <2>4, <2>5 DEF Listening, TablesListen, Unheard, Processed
<1>8. ASSUME NEW s \in Source, Message(s) PROVE Listening'
  BY <1>8, MessageKeeps
<1> QED
  BY <1>1, <1>2, <1>3, <1>4, <1>5, <1>6, <1>7, <1>8
     DEF Next, Open, NetworkError, FatalError, Fails, Publish, sourceVars, vars

-----------------------------------------------------------------------------
LEMMA Invariance == Spec => []IInv
<1>1. Init => IInv
  BY TypeInit, SourceInit, ListeningInit DEF IInv, Init, Nested
<1>2. IInv /\ [Next]_vars => IInv'
  BY TypeStep, SourceStep, NestedStep, ListeningStep DEF IInv
<1> QED
  BY <1>1, <1>2, PTL DEF Spec

(* However connections fail, the page has one connection at most.          *)
THEOREM SingleConnection == Spec => []OneConnection
<1>1. IInv => OneConnection
  BY DEF IInv, SingleSource, OneConnection
<1> QED
  BY <1>1, Invariance, PTL

(* However connections fail, the page has a connection or a way to one.    *)
(* Reconnects adds, under fairness, that the way leads to one at last.     *)
THEOREM Perseverance == Spec => []NeverAbandoned
<1>1. IInv => NeverAbandoned
  BY DEF IInv, TypeOK, SingleSource, NeverAbandoned
<1> QED
  BY <1>1, Invariance, PTL

(* A table of the page has one listener until its source is replaced.      *)
THEOREM Listeners == Spec => []TablesListen
<1>1. IInv => TablesListen
  BY DEF IInv, Listening
<1> QED
  BY <1>1, Invariance, PTL

(* A handled event is shown by every registered table, and detached tables *)
(* keep no listener.                                                       *)
THEOREM Delivery == Spec => EventShown
<1> DEFINE Shown == \A s \in Source :
              state[s] = "open" /\ state'[s] = "open" /\ Len(queue'[s]) < Len(queue[s]) =>
                  /\ \A t \in (Processed \ stranded)' : shown'[t] = Head(queue[s])
                  /\ \A t \in Table \ Attached' : listeners'[s][t] = 0
<1>1. IInv /\ [Next]_vars => Shown
  <2> SUFFICES ASSUME IInv, [Next]_vars, NEW s \in Source,
                      state[s] = "open", state'[s] = "open", Len(queue'[s]) < Len(queue[s])
               PROVE  /\ \A t \in (Processed \ stranded)' : shown'[t] = Head(queue[s])
                      /\ \A t \in Table \ Attached' : listeners'[s][t] = 0
    OBVIOUS
  <2> USE DEF IInv, TypeOK
  <2>1. queue[s] \in Seq(Version) /\ Len(queue[s]) \in Nat
    OBVIOUS
  <2>2. queue' # queue
    BY <2>1
  <2>3. ASSUME NEW x \in Source, Message(x)
        PROVE  /\ \A t \in (Processed \ stranded)' : shown'[t] = Head(queue[s])
               /\ \A t \in Table \ Attached' : listeners'[s][t] = 0
    <3>1. x = s
      BY <2>1, <2>3 DEF Message
    <3> QED
      BY <2>3, <3>1, MessageKeeps
  <2>4. ~Publish
    BY <2>1, QueueFacts DEF Publish, Version
  <2>5. ASSUME NEW x \in Source, NEW r \in {"connecting", "closed"}, Fails(x, r) PROVE FALSE
    <3>1. queue' = [queue EXCEPT ![x] = <<>>] /\ state' = [state EXCEPT ![x] = r]
      BY <2>5 DEF Fails, OnError
    <3>2. x = s
      BY <2>1, <3>1
    <3> QED
      BY <3>1, <3>2
  <2>6. ASSUME NEW x \in Source, Timeout(x) PROVE FALSE
    <3>1. PICK n \in FreeSource : EnsureEventSource(n, NextRetry(retry[x]), armed \ {x})
      BY <2>6 DEF Timeout
    <3>2. n \in Source /\ n # s /\ queue' = [queue EXCEPT ![n] = <<>>]
      BY <3>1 DEF FreeSource, EnsureEventSource
    <3> QED
      BY <2>1, <3>2
  <2>7. \A t \in Table \cup {None}, x \in Source : ~Navigate(t, x)
    BY DEF Navigate, OnlyConnecting
  <2> QED
    BY <2>2, <2>3, <2>4, <2>5, <2>6, <2>7
       DEF Next, Open, NetworkError, FatalError, Settle, BodySwap, SearchSwap, Back, vars
<1> QED
  BY <1>1, Invariance, PTL DEF EventShown, Spec
=============================================================================
