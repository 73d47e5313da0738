---------------------------- MODULE LoginProofs -----------------------------
(***************************************************************************)
(* Proofs about Login, for any number of windows, accounts and attempts.   *)
(***************************************************************************)
EXTENDS Login, TLAPS

(* The two login cookies are twins: they are set, cleared, sent and        *)
(* dropped together.                                                       *)
Twins ==
    /\ jar.verifier = jar.state
    /\ \A w \in Window : sent[w].verifier = sent[w].state

(* The jar's login cookies are those of their owner's attempt, and no      *)
(* window but the owner has their value as its attempt.  Without TLS       *)
(* nothing is stored.                                                      *)
OwnerIsExact ==
    /\ ~overTLS => owner = None
    /\ owner # None =>
          /\ jar.state # None
          /\ attempt[owner] # None => jar.state.value = attempt[owner]
    /\ \A w \in Window : jar.state # None /\ jar.state.value = attempt[w] => owner = w

(* A window at the provider, or on the way back, has an attempt; the state *)
(* in a request that was accepted is the attempt's.                        *)
Underway ==
    \A w \in Window :
        /\ pc[w] \in {"at provider", "returning"} => attempt[w] # None
        /\ pc[w] = "exchanging" => StateMatches(w)

Inv == TypeOK /\ Twins /\ OwnerIsExact /\ Underway /\ StateCheckExact

-----------------------------------------------------------------------------
(* Types.                                                                  *)

(* A fresh attempt is one, and is nobody's.                                *)
LEMMA Fresh ==
    ASSUME Attempt \ InUse # {}
    PROVE  GenerateState \in Attempt /\ GenerateState \notin InUse
<1>1. \E a \in Attempt : a \notin InUse
  OBVIOUS
<1>. QED  BY <1>1 DEF GenerateState

(* What a request carries is of the right type.                            *)
LEMMA CookiesType ==
    ASSUME NEW j \in Jar, NEW o \in Window \cup {None}
    PROVE  Cookies(j, o) \in Request
<1>1. Value(j.state) \in Attempt \cup {None} /\ Value(j.verifier) \in Attempt \cup {None}
  BY DEF Jar, Value, LoginCookie
<1>2. j.session \in Session \cup {None}
  BY DEF Jar
<1>. QED  BY <1>1, <1>2 DEF Cookies, Request

LEMMA LoginCookieType ==
    ASSUME NEW a \in Attempt
    PROVE  /\ [value |-> a, left |-> StateAge] \in LoginCookie
           /\ [value |-> a, left |-> StateAge] # None
           /\ [value |-> a, left |-> StateAge].value = a
<1>1. [value |-> a, left |-> StateAge] \in LoginCookie
  BY LoginAssumption DEF LoginCookie, LoginAssumption
<1>. QED  BY <1>1, NoneIsNoCookie DEF NoneIsNoCookie

LEMMA WithLoginType ==
    ASSUME TypeOK, NEW a \in Attempt
    PROVE  WithLogin(a) \in Jar
<1>1. [value |-> a, left |-> StateAge] \in LoginCookie
  BY LoginCookieType
<1>2. jar \in Jar
  BY DEF TypeOK
<1>. QED  BY <1>1, <1>2 DEF WithLogin, Jar

LEMMA WithLoginFields ==
    ASSUME jar \in Jar, NEW a \in Attempt, overTLS
    PROVE  /\ WithLogin(a).state = [value |-> a, left |-> StateAge]
           /\ WithLogin(a).verifier = [value |-> a, left |-> StateAge]
<1>1. ASSUME NEW c
      PROVE  /\ [jar EXCEPT !.state = c, !.verifier = c].state = c
             /\ [jar EXCEPT !.state = c, !.verifier = c].verifier = c
  BY DEF Jar
<1>. QED  BY <1>1 DEF WithLogin

LEMMA WithoutLoginType ==
    ASSUME TypeOK
    PROVE  WithoutLogin \in Jar
BY DEF TypeOK, WithoutLogin, Jar

LEMMA WithSessionType ==
    ASSUME NEW j \in Jar, NEW s \in Session, overTLS \in BOOLEAN
    PROVE  WithSession(j, s) \in Jar
BY DEF WithSession, Jar

(* Ageing keeps the types.                                                 *)
LEMMA AgedType ==
    /\ \A c \in LoginCookie \cup {None} : AgedCookie(c) \in LoginCookie \cup {None}
    /\ \A s \in Session \cup {None} : AgedSession(s) \in Session \cup {None}
    /\ \A s \in Session \cup {None} : DroppedWhenOld(s) \in Session \cup {None}
<1>1. ASSUME NEW c \in LoginCookie PROVE AgedCookie(c) \in LoginCookie \cup {None}
  <2>1. CASE c.left = 1
    BY <2>1 DEF AgedCookie
  <2>2. CASE c.left # 1
    <3>1. c.left \in 1..StateAge /\ c.value \in Attempt
      BY DEF LoginCookie
    <3>2. c.left - 1 \in 1..StateAge
      BY <3>1, <2>2, LoginAssumption DEF LoginAssumption
    <3>3. [c EXCEPT !.left = c.left - 1] \in LoginCookie
      BY <3>2 DEF LoginCookie
    <3>4. c # None
      BY NoneIsNoCookie DEF NoneIsNoCookie
    <3>. QED  BY <3>3, <3>4, <2>2 DEF AgedCookie
  <2>. QED  BY <2>1, <2>2
<1>2. ASSUME NEW s \in Session PROVE AgedSession(s) \in Session
  <2>1. CASE s.left = 0
    BY <2>1 DEF AgedSession
  <2>2. CASE s.left # 0
    <3>1. s.left \in 0..SessionDuration
      BY DEF Session
    <3>2. s.left - 1 \in 0..SessionDuration
      BY <3>1, <2>2, LoginAssumption DEF LoginAssumption
    <3>3. [s EXCEPT !.left = s.left - 1] \in Session
      BY <3>2 DEF Session
    <3>4. s # None
      BY NoneIsNoCookie DEF NoneIsNoCookie
    <3>. QED  BY <3>3, <3>4, <2>2 DEF AgedSession
  <2>. QED  BY <2>1, <2>2
<1>3. AgedCookie(None) = None /\ AgedSession(None) = None /\ DroppedWhenOld(None) = None
  BY DEF AgedCookie, AgedSession, DroppedWhenOld
<1>. QED  BY <1>1, <1>2, <1>3 DEF DroppedWhenOld

LEMMA TypeInit == Init => TypeOK
<1>1. Nothing \in Request /\ NoCookies \in Jar
  BY DEF Nothing, Request, NoCookies, Jar
<1>2. "blank" \in PcSet
  BY DEF PcSet, Resting
<1>. QED
  BY <1>1, <1>2, LoginAssumption
  DEF Init, TypeOK, ServerTypeOK, LoginTypeOK, BrowserTypeOK, LoginAssumption

(* A visit stays within its bound.                                         *)
LEMMA VisitType ==
    ASSUME visits \in 0..MaxVisits, Visit \/ UNCHANGED visits
    PROVE  visits' \in 0..MaxVisits
BY LoginAssumption DEF Visit, LoginAssumption

(* A window moves to a place.                                              *)
LEMMA MoveType ==
    ASSUME pc \in [Window -> PcSet], NEW w \in Window, NEW p \in PcSet, MoveTo(w, p)
    PROVE  pc' \in [Window -> PcSet]
BY DEF MoveTo

(* What Ask and Close do to a window.                                      *)
LEMMA AskType ==
    ASSUME TypeOK, NEW w \in Window, NEW j \in Jar, NEW o \in Window \cup {None}, Ask(w, j, o)
    PROVE  pc' \in [Window -> PcSet] /\ sent' \in [Window -> Request] /\ LoginTypeOK'
<1>1. Cookies(j, o) \in Request
  BY CookiesType
<1>2. "asking" \in PcSet
  BY DEF PcSet
<1>. QED
  BY <1>1, <1>2 DEF Ask, MoveTo, TypeOK, BrowserTypeOK, LoginTypeOK

LEMMA TypeNext == TypeOK /\ [Next]_vars => TypeOK'
<1>. SUFFICES ASSUME TypeOK, [Next]_vars PROVE TypeOK'
  OBVIOUS
<1>. USE DEF serverVars, loginVars
<1>p. PcSet = {"blank", "open", "refused", "mismatch", "failed", "asking", "acting", "to login",
               "at provider", "returning", "exchanging", "answered"}
  BY DEF PcSet, Resting
<1>n. Nothing \in Request
  BY DEF Nothing, Request
<1>c. Cookies(jar, owner) \in Request
  BY CookiesType DEF TypeOK, BrowserTypeOK
<1>w. WithoutLogin \in Jar
  BY WithoutLoginType
<1>1. ASSUME NEW w \in Window, Open(w) PROVE TypeOK'
  <2>1. pc' \in [Window -> PcSet] /\ sent' \in [Window -> Request] /\ LoginTypeOK'
    BY <1>1, AskType DEF Open, TypeOK, BrowserTypeOK
  <2>2. visits' \in 0..MaxVisits
    BY <1>1, VisitType DEF Open, TypeOK, BrowserTypeOK
  <2>. QED  BY <1>1, <2>1, <2>2 DEF Open, TypeOK, BrowserTypeOK, ServerTypeOK
<1>2. ASSUME NEW w \in Window, Act(w) PROVE TypeOK'
  <2>1. visits' \in 0..MaxVisits
    BY <1>2, VisitType DEF Act, TypeOK, BrowserTypeOK
  <2>2. pc' \in [Window -> PcSet]
    BY <1>2, <1>p, MoveType DEF Act, TypeOK, BrowserTypeOK
  <2>. QED  BY <1>2, <1>c, <2>1, <2>2 DEF Act, TypeOK, BrowserTypeOK, ServerTypeOK, LoginTypeOK
<1>3. ASSUME NEW w \in Window, Close(w) PROVE TypeOK'
  <2>1. pc' \in [Window -> PcSet]
    BY <1>3, <1>p, MoveType DEF Close, TypeOK, BrowserTypeOK
  <2>. QED  BY <1>3, <1>n, <2>1 DEF Close, TypeOK, BrowserTypeOK, ServerTypeOK, LoginTypeOK
<1>4. ASSUME NEW w \in Window, Reload(w) PROVE TypeOK'
  <2>1. visits' \in 0..MaxVisits
    BY <1>4, VisitType DEF Reload, TypeOK, BrowserTypeOK
  <2>2. pc' \in [Window -> PcSet]
    BY <1>4, <1>p, MoveType DEF Reload, TypeOK, BrowserTypeOK
  <2>3. orphan' \in [Window -> BOOLEAN]
    BY <1>4 DEF Reload, TypeOK, LoginTypeOK
  <2>. QED  BY <1>4, <1>c, <2>1, <2>2, <2>3 DEF Reload, TypeOK, BrowserTypeOK, ServerTypeOK, LoginTypeOK
<1>5. ASSUME Tick PROVE TypeOK'
  <2>1. jar' \in Jar
    BY <1>5, AgedType DEF Tick, TypeOK, Jar
  <2>2. ASSUME NEW w \in Window
        PROVE  [sent[w] EXCEPT !.session = AgedSession(sent[w].session)] \in Request
    <3>1. sent[w] \in Request
      BY DEF TypeOK
    <3>2. AgedSession(sent[w].session) \in Session \cup {None}
      BY <3>1, AgedType DEF Request
    <3>. QED  BY <3>1, <3>2 DEF Request
  <2>3. sent' \in [Window -> Request]
    BY <1>5, <2>2 DEF Tick
  <2>4. owner' \in Window \cup {None}
    BY <1>5 DEF Tick, TypeOK, BrowserTypeOK
  <2>5. ticks' \in 0..MaxTicks
    BY <1>5, LoginAssumption DEF Tick, TypeOK, BrowserTypeOK, LoginAssumption
  <2>. QED  BY <1>5, <2>1, <2>3, <2>4, <2>5 DEF Tick, TypeOK, BrowserTypeOK, ServerTypeOK, LoginTypeOK
<1>6. ASSUME NEW w \in Window, Admit(w) \/ HandleUnauthorized(w) PROVE TypeOK'
  <2>1. pc' \in [Window -> PcSet]
    BY <1>6, <1>p, MoveType DEF Admit, HandleUnauthorized, TypeOK, BrowserTypeOK
  <2>. QED
    BY <1>6, <1>n, <2>1
    DEF Admit, HandleUnauthorized, TypeOK, BrowserTypeOK, ServerTypeOK, LoginTypeOK
<1>7. ASSUME NEW w \in Window, ShowLoginPage(w) PROVE TypeOK'
  <2>1. GenerateState \in Attempt
    BY <1>7, Fresh DEF ShowLoginPage
  <2>2. jar' \in Jar
    BY <1>7, <2>1, WithLoginType DEF ShowLoginPage
  <2>3. pc' \in [Window -> PcSet]
    BY <1>7, <1>p, MoveType DEF ShowLoginPage, TypeOK, BrowserTypeOK
  <2>4. attempt' \in [Window -> Attempt \cup {None}]
    BY <1>7, <2>1 DEF ShowLoginPage, TypeOK, LoginTypeOK
  <2>5. owner' \in Window \cup {None}
    BY <1>7 DEF ShowLoginPage, TypeOK, BrowserTypeOK
  <2>. QED
    BY <1>7, <2>2, <2>3, <2>4, <2>5 DEF ShowLoginPage, TypeOK, BrowserTypeOK, ServerTypeOK, LoginTypeOK
<1>8. ASSUME NEW w \in Window,
             PanicAtLogin(w) \/ RefuseState(w) \/ AcceptCode(w)
      PROVE  TypeOK'
  <2>1. pc' \in [Window -> PcSet]
    BY <1>8, <1>p, MoveType DEF PanicAtLogin, RefuseState, AcceptCode, TypeOK, BrowserTypeOK
  <2>. QED
    BY <1>8, <2>1
    DEF PanicAtLogin, RefuseState, AcceptCode, TypeOK, BrowserTypeOK, ServerTypeOK, LoginTypeOK
<1>9. ASSUME NEW w \in Window, ReconnectStream(w) PROVE TypeOK'
  <2>1. jar' \in Jar
    BY <1>9, Fresh, WithLoginType DEF ReconnectStream
  <2>. QED  BY <1>9, <2>1 DEF ReconnectStream, TypeOK, BrowserTypeOK, ServerTypeOK, LoginTypeOK
<1>10. ASSUME NEW w \in Window, NEW e \in Email, Confirm(w, e) PROVE TypeOK'
  <2>1. visits' \in 0..MaxVisits
    BY <1>10, VisitType DEF Confirm, TypeOK, BrowserTypeOK
  <2>2. pc' \in [Window -> PcSet]
    BY <1>10, <1>p, MoveType DEF Confirm, TypeOK, BrowserTypeOK
  <2>. QED  BY <1>10, <1>c, <2>1, <2>2 DEF Confirm, TypeOK, BrowserTypeOK, ServerTypeOK, LoginTypeOK
<1>11. ASSUME NEW w \in Window, Decline(w) PROVE TypeOK'
  <2>1. visits' \in 0..MaxVisits
    BY <1>11, VisitType DEF Decline, TypeOK, BrowserTypeOK
  <2>2. pc' \in [Window -> PcSet]
    BY <1>11, <1>p, MoveType DEF Decline, TypeOK, BrowserTypeOK
  <2>. QED  BY <1>11, <1>c, <2>1, <2>2 DEF Decline, TypeOK, BrowserTypeOK, ServerTypeOK, LoginTypeOK
<1>12. ASSUME NEW w \in Window, RefuseWithoutCode(w) \/ FinishRefused(w) PROVE TypeOK'
  <2>1. pc' \in [Window -> PcSet]
    BY <1>12, <1>p, MoveType DEF RefuseWithoutCode, FinishRefused, TypeOK, BrowserTypeOK
  <2>. QED
    BY <1>12, <1>w, <2>1
    DEF RefuseWithoutCode, FinishRefused, TypeOK, BrowserTypeOK, ServerTypeOK, LoginTypeOK
<1>13. ASSUME NEW w \in Window, NEW s \in Session \cup {None}, Answer(w, s),
              spent' \in [Window -> BOOLEAN],
              UNCHANGED <<serverVars, jar, attempt, user, orphan, account, owner, visits, ticks>>
       PROVE  TypeOK'
  <2>1. pc' \in [Window -> PcSet]
    BY <1>13, <1>p, MoveType DEF Answer, TypeOK, BrowserTypeOK
  <2>2. [sent[w] EXCEPT !.session = s] \in Request
    BY DEF TypeOK, Request
  <2>3. sent' \in [Window -> Request]
    BY <1>13, <2>2 DEF Answer, TypeOK
  <2>. QED  BY <1>13, <2>1, <2>3 DEF TypeOK, BrowserTypeOK, ServerTypeOK, LoginTypeOK
<1>14. ASSUME NEW w \in Window, Exchange(w) PROVE TypeOK'
  <2>1. user[w] \in admins => [email |-> user[w], left |-> SessionDuration] \in Session
    BY LoginAssumption DEF TypeOK, ServerTypeOK, Session, LoginAssumption
  <2>2. spent' \in [Window -> BOOLEAN]
    BY <1>14 DEF Exchange, TypeOK, LoginTypeOK
  <2>. QED  BY <1>13, <1>14, <2>1, <2>2 DEF Exchange
<1>15. ASSUME NEW w \in Window, ExchangeFails(w) PROVE TypeOK'
  <2>1. spent' \in [Window -> BOOLEAN]
    BY <1>15 DEF ExchangeFails, TypeOK, LoginTypeOK
  <2>. QED  BY <1>13, <1>15, <2>1 DEF ExchangeFails
<1>16. ASSUME NEW w \in Window, ExchangeForNobody(w) PROVE TypeOK'
  BY <1>16 DEF ExchangeForNobody, TypeOK, BrowserTypeOK, ServerTypeOK, LoginTypeOK
<1>17. ASSUME NEW w \in Window, FinishLogin(w) PROVE TypeOK'
  <2>1. sent[w].session \in Session
    BY <1>17 DEF FinishLogin, TypeOK, Request
  <2>2. jar' \in Jar
    BY <1>17, <1>w, <2>1, WithSessionType DEF FinishLogin, TypeOK, ServerTypeOK
  <2>3. pc' \in [Window -> PcSet] /\ sent' \in [Window -> Request] /\ LoginTypeOK'
    BY <1>17, <2>2, AskType DEF FinishLogin
  <2>. QED  BY <1>17, <2>2, <2>3 DEF FinishLogin, TypeOK, BrowserTypeOK, ServerTypeOK
<1>18. ASSUME NEW w \in Window, HandleLogout(w) PROVE TypeOK'
  <2>1. visits' \in 0..MaxVisits
    BY <1>18, VisitType DEF HandleLogout, TypeOK, BrowserTypeOK
  <2>2. pc' \in [Window -> PcSet]
    BY <1>18, <1>p, MoveType DEF HandleLogout, TypeOK, BrowserTypeOK
  <2>3. jar' \in Jar
    BY <1>18 DEF HandleLogout, TypeOK, Jar
  <2>. QED
    BY <1>18, <2>1, <2>2, <2>3 DEF HandleLogout, TypeOK, BrowserTypeOK, ServerTypeOK, LoginTypeOK
<1>19. ASSUME Restart PROVE TypeOK'
  <2>1. pc' \in [Window -> PcSet]
    BY <1>19, <1>p DEF Restart, TypeOK, BrowserTypeOK
  <2>2. restarts' \in 0..MaxRestarts
    BY <1>19, LoginAssumption DEF Restart, TypeOK, ServerTypeOK, LoginAssumption
  <2>. QED  BY <1>19, <2>1, <2>2 DEF Restart, TypeOK, BrowserTypeOK, ServerTypeOK, LoginTypeOK
<1>20. ASSUME UNCHANGED vars PROVE TypeOK'
  BY <1>20 DEF vars, TypeOK, BrowserTypeOK, ServerTypeOK, LoginTypeOK
<1>. QED
  BY <1>1, <1>2, <1>3, <1>4, <1>5, <1>6, <1>7, <1>8, <1>9, <1>10, <1>11, <1>12, <1>14, <1>15,
     <1>16, <1>17, <1>18, <1>19, <1>20
  DEF Next, Handle, UserDoes

-----------------------------------------------------------------------------
(* The invariant.                                                          *)

(* A request that is sent now answers the question of the state check as   *)
(* the jar does.                                                           *)
LEMMA SentNow ==
    ASSUME Inv, NEW w \in Window, attempt[w] # None
    PROVE  Value(jar.state) = attempt[w] <=> owner = w
<1>1. CASE owner = w
  <2>1. jar.state # None /\ jar.state.value = attempt[w]
    BY <1>1, LoginAssumption DEF Inv, OwnerIsExact, LoginAssumption
  <2>. QED  BY <1>1, <2>1 DEF Value
<1>2. CASE owner # w
  <2>1. ~(jar.state # None /\ jar.state.value = attempt[w])
    BY <1>2 DEF Inv, OwnerIsExact
  <2>. QED  BY <1>2, <2>1 DEF Value
<1>. QED  BY <1>1, <1>2

(* A window that comes back, with the cookies of now.                      *)
LEMMA Returns ==
    ASSUME Inv, NEW w \in Window, attempt[w] # None, MoveTo(w, "returning"),
           sent' = [sent EXCEPT ![w] = Cookies(jar, owner)],
           UNCHANGED <<jar, attempt, owner, overTLS>>
    PROVE  Twins' /\ OwnerIsExact' /\ Underway' /\ StateCheckExact'
<1>. USE DEF Inv, TypeOK, BrowserTypeOK
<1>1. /\ pc'[w] = "returning" /\ sent'[w] = Cookies(jar, owner)
      /\ \A v \in Window \ {w} : pc'[v] = pc[v] /\ sent'[v] = sent[v]
  BY DEF MoveTo
<1>2. Twins'
  BY <1>1 DEF Twins, Cookies
<1>3. OwnerIsExact'
  BY DEF OwnerIsExact
<1>4. Underway'
  BY <1>1 DEF Underway, StateMatches
<1>5. StateCheckExact'
  <2>1. sent'[w].state = attempt'[w] <=> sent'[w].owner = w
    BY <1>1, SentNow DEF Cookies
  <2>. QED  BY <1>1, <2>1 DEF StateCheckExact, StateMatches
<1>. QED  BY <1>2, <1>3, <1>4, <1>5

(* A window leaves its attempt and sends or drops a request.               *)
LEMMA Leaves ==
    ASSUME Inv, NEW w \in Window, NEW r, r.verifier = r.state,
           NEW p \in {"asking", "blank"}, MoveTo(w, p),
           sent' = [sent EXCEPT ![w] = r],
           attempt' = [attempt EXCEPT ![w] = None],
           UNCHANGED overTLS,
           \/ UNCHANGED <<jar, owner>>
           \/ jar'.state = None /\ jar'.verifier = None /\ owner' = None
    PROVE  Twins' /\ OwnerIsExact' /\ Underway' /\ StateCheckExact'
<1>. USE DEF Inv, TypeOK, BrowserTypeOK, LoginTypeOK
<1>1. /\ pc'[w] = p /\ sent'[w] = r /\ attempt'[w] = None
      /\ \A v \in Window \ {w} :
            pc'[v] = pc[v] /\ sent'[v] = sent[v] /\ attempt'[v] = attempt[v]
  BY DEF MoveTo
<1>2. Twins'
  BY <1>1 DEF Twins
<1>3. OwnerIsExact'
  <2>1. jar.state # None => jar.state.value # None
    BY LoginAssumption DEF Jar, LoginCookie, LoginAssumption
  <2>2. owner \in Window \cup {None}
    OBVIOUS
  <2>. QED  BY <1>1, <2>1, <2>2, LoginAssumption DEF OwnerIsExact, LoginAssumption
<1>4. Underway'
  BY <1>1 DEF Underway, StateMatches
<1>5. StateCheckExact'
  BY <1>1 DEF StateCheckExact, StateMatches
<1>. QED  BY <1>2, <1>3, <1>4, <1>5

(* The login cookies of a fresh attempt are stored: the window's own, or   *)
(* nobody's.                                                               *)
LEMMA Stores ==
    ASSUME Inv, NEW a \in Attempt, a \notin InUse, jar' = WithLogin(a),
           NEW o \in Window \cup {None}, owner' = (IF overTLS THEN o ELSE owner),
           UNCHANGED <<sent, overTLS>>,
           \/ o = None /\ UNCHANGED <<pc, attempt>>
           \/ /\ o \in Window /\ MoveTo(o, "at provider")
              /\ attempt' = [attempt EXCEPT ![o] = a]
              /\ pc[o] = "to login"
    PROVE  Twins' /\ OwnerIsExact' /\ Underway' /\ StateCheckExact'
<1>. USE DEF Inv, TypeOK, BrowserTypeOK, LoginTypeOK, ServerTypeOK
<1>1. \A v \in Window : a # attempt[v] /\ a # None
  BY LoginAssumption DEF InUse, LoginAssumption
<1>2. \A v \in Window :
        /\ v # o => pc'[v] = pc[v] /\ attempt'[v] = attempt[v]
        /\ v = o => pc'[v] = "at provider" /\ attempt'[v] = a
  <2>1. CASE o = None
    BY <2>1, LoginAssumption DEF LoginAssumption
  <2>2. CASE o \in Window
    <3>1. MoveTo(o, "at provider") /\ attempt' = [attempt EXCEPT ![o] = a]
      BY <2>2, LoginAssumption DEF LoginAssumption
    <3>. QED  BY <2>2, <3>1 DEF MoveTo
  <2>. QED  BY <2>1, <2>2
<1>j. jar \in Jar
  OBVIOUS
<1>3. Twins'
  <2>1. jar'.verifier = jar'.state
    <3>1. CASE overTLS
      BY <1>j, <3>1, WithLoginFields
    <3>2. CASE ~overTLS
      BY <3>2 DEF Twins, WithLogin
    <3>. QED  BY <3>1, <3>2
  <2>2. \A v \in Window : sent'[v].verifier = sent'[v].state
    BY DEF Twins
  <2>. QED  BY <2>1, <2>2 DEF Twins
<1>4. OwnerIsExact'
  <2>1. CASE overTLS
    <3>1. jar'.state = [value |-> a, left |-> StateAge]
      BY <1>j, <2>1, WithLoginFields
    <3>2. jar'.state # None /\ jar'.state.value = a
      <4>1. PICK c : c = [value |-> a, left |-> StateAge]
        OBVIOUS
      <4>2. c # None /\ c.value = a
        BY <4>1, LoginCookieType
      <4>. QED  BY <3>1, <4>1, <4>2
    <3>3. owner' = o
      BY <2>1
    <3>4. o # None => attempt'[o] = a
      BY <1>2
    <3>5. \A v \in Window : v # o => attempt'[v] # a
      BY <1>1, <1>2
    <3>. QED  BY <2>1, <3>2, <3>3, <3>4, <3>5 DEF OwnerIsExact
  <2>2. CASE ~overTLS
    <3>1. jar' = jar /\ owner' = owner
      BY <2>2 DEF WithLogin
    <3>2. jar.state # None => Value(jar.state) \in InUse
      BY DEF InUse
    <3>3. jar.state # None => jar.state.value # a
      BY <3>2 DEF Value
    <3>4. owner # None => owner # o
      <4>1. owner = None
        BY <2>2 DEF OwnerIsExact
      <4>. QED  BY <4>1
    <3>. QED  BY <1>1, <1>2, <3>1, <3>3, <3>4 DEF OwnerIsExact
  <2>. QED  BY <2>1, <2>2
<1>5. Underway'
  BY <1>1, <1>2 DEF Underway, StateMatches
<1>6. StateCheckExact'
  BY <1>2 DEF StateCheckExact, StateMatches
<1>. QED  BY <1>3, <1>4, <1>5, <1>6

(* A window moves on, and forgets or keeps its request.                    *)
LEMMA Moves ==
    ASSUME Inv, NEW w \in Window, NEW p \in PcSet, MoveTo(w, p),
           p \notin {"at provider", "returning"},
           p = "exchanging" => StateMatches(w),
           NEW r, sent' = [sent EXCEPT ![w] = r], r.verifier = r.state,
           p = "exchanging" => r = sent[w],
           UNCHANGED <<overTLS, attempt>>,
           \/ UNCHANGED <<jar, owner>>
           \/ jar'.state = None /\ jar'.verifier = None /\ owner' = None
           \/ jar'.state = jar.state /\ jar'.verifier = jar.verifier /\ UNCHANGED owner
    PROVE  Twins' /\ OwnerIsExact' /\ Underway' /\ StateCheckExact'
<1>. USE DEF Inv, TypeOK, BrowserTypeOK
<1>1. /\ pc'[w] = p /\ sent'[w] = r
      /\ \A v \in Window \ {w} : pc'[v] = pc[v] /\ sent'[v] = sent[v]
  BY DEF MoveTo
<1>2. Twins'
  BY <1>1 DEF Twins
<1>3. OwnerIsExact'
  BY DEF OwnerIsExact
<1>4. Underway'
  BY <1>1 DEF Underway, StateMatches
<1>5. StateCheckExact'
  BY <1>1 DEF StateCheckExact, StateMatches
<1>. QED  BY <1>2, <1>3, <1>4, <1>5

(* The same for a step that leaves the window's request as it is.          *)
LEMMA MovesOnly ==
    ASSUME Inv, NEW w \in Window, NEW p \in PcSet, MoveTo(w, p),
           p \notin {"at provider", "returning"},
           p = "exchanging" => StateMatches(w),
           UNCHANGED <<sent, overTLS, attempt>>,
           \/ UNCHANGED <<jar, owner>>
           \/ jar'.state = None /\ jar'.verifier = None /\ owner' = None
           \/ jar'.state = jar.state /\ jar'.verifier = jar.verifier /\ UNCHANGED owner
    PROVE  Twins' /\ OwnerIsExact' /\ Underway' /\ StateCheckExact'
<1>1. sent' = [sent EXCEPT ![w] = sent[w]]
  BY DEF Inv, TypeOK
<1>2. sent[w].verifier = sent[w].state
  BY DEF Inv, Twins
<1>. QED  BY <1>1, <1>2, Moves

LEMMA WithoutLoginFields ==
    ASSUME jar \in Jar
    PROVE  WithoutLogin.state = None /\ WithoutLogin.verifier = None
BY DEF WithoutLogin, Jar

LEMMA WithSessionFields ==
    ASSUME NEW j \in Jar, NEW s
    PROVE  WithSession(j, s).state = j.state /\ WithSession(j, s).verifier = j.verifier
<1>1. ASSUME NEW x
      PROVE  [j EXCEPT !.session = x].state = j.state /\ [j EXCEPT !.session = x].verifier = j.verifier
  BY DEF Jar
<1>. QED  BY <1>1 DEF WithSession

(* Time takes both cookies or none.                                        *)
LEMMA Ages ==
    ASSUME Inv, Tick
    PROVE  Twins' /\ OwnerIsExact' /\ Underway' /\ StateCheckExact'
<1>. USE DEF Inv, TypeOK, BrowserTypeOK
<1>1. \A v \in Window : sent'[v] = [sent[v] EXCEPT !.session = AgedSession(sent[v].session)]
  BY DEF Tick
<1>2. ASSUME NEW v \in Window
      PROVE  /\ sent'[v].state = sent[v].state
             /\ sent'[v].verifier = sent[v].verifier
             /\ sent'[v].owner = sent[v].owner
  <2>1. sent[v] \in Request
    OBVIOUS
  <2>. QED  BY <1>1, <2>1 DEF Request
<1>3. jar'.state = AgedCookie(jar.state) /\ jar'.verifier = AgedCookie(jar.verifier)
  BY DEF Tick
<1>4. ASSUME jar'.state # None
      PROVE  jar.state # None /\ jar'.state.value = jar.state.value
  <2>1. jar.state # None /\ jar'.state = [jar.state EXCEPT !.left = jar.state.left - 1]
    BY <1>3, <1>4 DEF AgedCookie
  <2>2. jar.state \in LoginCookie
    BY <2>1 DEF Jar
  <2>. QED  BY <2>1, <2>2 DEF LoginCookie
<1>5. Twins'
  BY <1>2, <1>3 DEF Twins
<1>6. OwnerIsExact'
  <2>1. /\ overTLS' = overTLS /\ attempt' = attempt
        /\ owner' = IF jar'.state = None THEN None ELSE owner
    BY DEF Tick, serverVars, loginVars
  <2>. QED  BY <1>4, <2>1 DEF OwnerIsExact
<1>7. Underway' /\ StateCheckExact'
  <2>1. pc' = pc /\ attempt' = attempt
    BY DEF Tick, loginVars
  <2>. QED  BY <1>2, <2>1 DEF Underway, StateCheckExact, StateMatches
<1>. QED  BY <1>5, <1>6, <1>7

LEMMA InvInit == Init => Inv
BY TypeInit, LoginAssumption
DEF Init, Inv, Twins, OwnerIsExact, Underway, StateCheckExact, NoCookies, Nothing, LoginAssumption

LEMMA InvNext == Inv /\ [Next]_vars => Inv'
<1>. SUFFICES ASSUME Inv, [Next]_vars
              PROVE  Twins' /\ OwnerIsExact' /\ Underway' /\ StateCheckExact'
  BY TypeNext DEF Inv
<1>. USE DEF serverVars, loginVars
<1>j. jar \in Jar /\ pc \in [Window -> PcSet] /\ sent \in [Window -> Request]
  BY DEF Inv, TypeOK, BrowserTypeOK
<1>p. PcSet = {"blank", "open", "refused", "mismatch", "failed", "asking", "acting", "to login",
               "at provider", "returning", "exchanging", "answered"}
  BY DEF PcSet, Resting
<1>c. Cookies(jar, owner).verifier = Cookies(jar, owner).state
  BY DEF Cookies, Inv, Twins
<1>n. Nothing.verifier = Nothing.state
  BY DEF Nothing
<1>1. ASSUME NEW w \in Window, Open(w) PROVE Twins' /\ OwnerIsExact' /\ Underway' /\ StateCheckExact'
  BY <1>1, <1>c, Leaves DEF Open, Ask
<1>2. ASSUME NEW w \in Window, Act(w) PROVE Twins' /\ OwnerIsExact' /\ Underway' /\ StateCheckExact'
  BY <1>2, <1>c, <1>p, Moves DEF Act
<1>3. ASSUME NEW w \in Window, Close(w) PROVE Twins' /\ OwnerIsExact' /\ Underway' /\ StateCheckExact'
  BY <1>3, <1>n, Leaves DEF Close
<1>4. ASSUME NEW w \in Window, Reload(w) PROVE Twins' /\ OwnerIsExact' /\ Underway' /\ StateCheckExact'
  BY <1>4, Returns DEF Reload
<1>5. ASSUME NEW w \in Window, Admit(w) PROVE Twins' /\ OwnerIsExact' /\ Underway' /\ StateCheckExact'
  BY <1>5, <1>n, <1>p, Moves DEF Admit
<1>6. ASSUME NEW w \in Window, HandleUnauthorized(w)
      PROVE  Twins' /\ OwnerIsExact' /\ Underway' /\ StateCheckExact'
  <2>1. PICK p \in {"open", "to login", "refused"} : MoveTo(w, p)
    BY <1>6 DEF HandleUnauthorized
  <2>. QED  BY <1>6, <2>1, <1>n, <1>p, Moves DEF HandleUnauthorized
<1>7. ASSUME NEW w \in Window, ShowLoginPage(w)
      PROVE  Twins' /\ OwnerIsExact' /\ Underway' /\ StateCheckExact'
  BY <1>7, Fresh, Stores DEF ShowLoginPage
<1>8. ASSUME NEW w \in Window, ReconnectStream(w)
      PROVE  Twins' /\ OwnerIsExact' /\ Underway' /\ StateCheckExact'
  BY <1>8, Fresh, Stores DEF ReconnectStream
<1>9. ASSUME NEW w \in Window, PanicAtLogin(w)
      PROVE  Twins' /\ OwnerIsExact' /\ Underway' /\ StateCheckExact'
  BY <1>9, <1>p, MovesOnly DEF PanicAtLogin
<1>10. ASSUME NEW w \in Window, NEW e \in Email, Confirm(w, e)
       PROVE  Twins' /\ OwnerIsExact' /\ Underway' /\ StateCheckExact'
  <2>1. attempt[w] # None
    BY <1>10 DEF Confirm, Inv, Underway
  <2>. QED  BY <1>10, <2>1, Returns DEF Confirm
<1>11. ASSUME NEW w \in Window, Decline(w)
       PROVE  Twins' /\ OwnerIsExact' /\ Underway' /\ StateCheckExact'
  <2>1. attempt[w] # None
    BY <1>11 DEF Decline, Inv, Underway
  <2>. QED  BY <1>11, <2>1, Returns DEF Decline
<1>12. ASSUME NEW w \in Window, RefuseState(w)
       PROVE  Twins' /\ OwnerIsExact' /\ Underway' /\ StateCheckExact'
  BY <1>12, <1>p, MovesOnly DEF RefuseState
<1>13. ASSUME NEW w \in Window, RefuseWithoutCode(w)
       PROVE  Twins' /\ OwnerIsExact' /\ Underway' /\ StateCheckExact'
  BY <1>13, <1>j, <1>p, WithoutLoginFields, MovesOnly DEF RefuseWithoutCode
<1>14. ASSUME NEW w \in Window, AcceptCode(w)
       PROVE  Twins' /\ OwnerIsExact' /\ Underway' /\ StateCheckExact'
  <2>1. PICK p \in {"exchanging", "failed"} : MoveTo(w, p)
    BY <1>14 DEF AcceptCode
  <2>. QED  BY <1>14, <2>1, <1>p, MovesOnly DEF AcceptCode
<1>15. ASSUME NEW w \in Window, NEW s, Answer(w, s), UNCHANGED <<overTLS, jar, attempt, owner>>
       PROVE  Twins' /\ OwnerIsExact' /\ Underway' /\ StateCheckExact'
  <2>1. [sent[w] EXCEPT !.session = s].verifier = [sent[w] EXCEPT !.session = s].state
    <3>1. sent[w] \in Request /\ sent[w].verifier = sent[w].state
      BY <1>j DEF Inv, Twins
    <3>. QED  BY <3>1 DEF Request
  <2>2. sent' = [sent EXCEPT ![w] = [sent[w] EXCEPT !.session = s]]
    BY <1>15, <1>j DEF Answer
  <2>. QED  BY <1>15, <2>1, <2>2, <1>p, Moves DEF Answer
<1>16. ASSUME NEW w \in Window, Exchange(w) \/ ExchangeFails(w)
       PROVE  Twins' /\ OwnerIsExact' /\ Underway' /\ StateCheckExact'
  <2>1. PICK s : Answer(w, s)
    BY <1>16 DEF Exchange, ExchangeFails
  <2>. QED  BY <1>15, <1>16, <2>1 DEF Exchange, ExchangeFails
<1>17. ASSUME NEW w \in Window, ExchangeForNobody(w)
       PROVE  Twins' /\ OwnerIsExact' /\ Underway' /\ StateCheckExact'
  BY <1>17
  DEF ExchangeForNobody, Inv, Twins, OwnerIsExact, Underway, StateCheckExact, StateMatches
<1>18. ASSUME NEW w \in Window, FinishLogin(w)
       PROVE  Twins' /\ OwnerIsExact' /\ Underway' /\ StateCheckExact'
  <2>1. jar'.state = None /\ jar'.verifier = None
    BY <1>18, <1>j, WithoutLoginFields, WithoutLoginType, WithSessionFields DEF FinishLogin, Inv
  <2>2. Cookies(jar', None).verifier = Cookies(jar', None).state
    BY <2>1 DEF Cookies
  <2>. QED  BY <1>18, <2>1, <2>2, Leaves DEF FinishLogin, Ask
<1>19. ASSUME NEW w \in Window, FinishRefused(w)
       PROVE  Twins' /\ OwnerIsExact' /\ Underway' /\ StateCheckExact'
  BY <1>19, <1>j, <1>p, WithoutLoginFields, MovesOnly DEF FinishRefused
<1>20. ASSUME NEW w \in Window, HandleLogout(w)
       PROVE  Twins' /\ OwnerIsExact' /\ Underway' /\ StateCheckExact'
  <2>1. jar'.state = jar.state /\ jar'.verifier = jar.verifier
    BY <1>20, <1>j DEF HandleLogout, Jar
  <2>. QED  BY <1>20, <2>1, <1>p, MovesOnly DEF HandleLogout
<1>21. ASSUME Restart PROVE Twins' /\ OwnerIsExact' /\ Underway' /\ StateCheckExact'
  BY <1>21, <1>j
  DEF Restart, Inv, Twins, OwnerIsExact, Underway, StateCheckExact, StateMatches
<1>22. ASSUME UNCHANGED vars PROVE Twins' /\ OwnerIsExact' /\ Underway' /\ StateCheckExact'
  BY <1>22 DEF vars, Inv, Twins, OwnerIsExact, Underway, StateCheckExact, StateMatches
<1>. QED
  BY <1>1, <1>2, <1>3, <1>4, <1>5, <1>6, <1>7, <1>8, <1>9, <1>10, <1>11, <1>12, <1>13, <1>14,
     <1>16, <1>17, <1>18, <1>19, <1>20, <1>21, <1>22, Ages
  DEF Next, Handle, UserDoes

LEMMA Invariance == Spec => []Inv
BY InvInit, InvNext, PTL DEF Spec

-----------------------------------------------------------------------------
(* Types of the server, the windows and the cookies in the jar and in the  *)
(* requests.                                                               *)
THEOREM TypeCorrect == Spec => []TypeOK
<1>1. Inv => TypeOK
  BY DEF Inv
<1>. QED  BY <1>1, Invariance, PTL

(* However many windows log in, log out, reload and reconnect, the state   *)
(* check of HandleCallback accepts exactly the window whose login wrote    *)
(* the cookies last.                                                       *)
THEOREM StateCheck == Spec => []StateCheckExact
<1>1. Inv => StateCheckExact
  BY DEF Inv
<1>. QED  BY <1>1, Invariance, PTL

(* Whenever HandleCallback asks the provider to redeem a code, it sends    *)
(* the verifier that the code was issued for.                              *)
THEOREM Verifier == Spec => []VerifierFits
<1>1. Inv => VerifierFits
  BY DEF Inv, Twins, Underway, StateMatches, VerifierFits
<1>. QED  BY <1>1, Invariance, PTL

-----------------------------------------------------------------------------
(* Redirects.  Without TLS nobody owns login cookies, so no callback gets  *)
(* as far as the exchange; and the exchange needs the authenticator.       *)
Sealed ==
    /\ ~overTLS => \A w \in Window : sent[w].owner = None
    /\ \A w \in Window :
          /\ pc[w] = "exchanging" => oidcAuth /\ overTLS
          /\ pc[w] = "answered" /\ sent[w].session # None => overTLS

LEMMA SealedInit == Init => Sealed
BY DEF Init, Sealed, Nothing

(* Only these steps lead to the exchange and to an answer.                 *)
LEMMA SealedMove ==
    ASSUME Inv, Sealed, NEW w \in Window, NEW p \in PcSet, MoveTo(w, p),
           NEW r, sent' = [sent EXCEPT ![w] = r], UNCHANGED <<overTLS, oidcAuth>>,
           r.owner = sent[w].owner \/ r.owner = owner \/ r.owner = None,
           p = "exchanging" => oidcAuth /\ overTLS,
           p = "answered" /\ r.session # None => overTLS
    PROVE  Sealed'
<1>1. /\ pc'[w] = p /\ sent'[w] = r
      /\ \A v \in Window \ {w} : pc'[v] = pc[v] /\ sent'[v] = sent[v]
  BY DEF MoveTo, Inv, TypeOK, BrowserTypeOK
<1>2. ~overTLS => r.owner = None
  BY DEF Sealed, Inv, OwnerIsExact
<1>. QED  BY <1>1, <1>2 DEF Sealed

LEMMA SealedNext == Inv /\ Sealed /\ [Next]_vars => Sealed'
<1>. SUFFICES ASSUME Inv, Sealed, [Next]_vars PROVE Sealed'
  OBVIOUS
<1>. USE DEF serverVars, loginVars
<1>j. pc \in [Window -> PcSet] /\ sent \in [Window -> Request]
  BY DEF Inv, TypeOK, BrowserTypeOK
<1>p. PcSet = {"blank", "open", "refused", "mismatch", "failed", "asking", "acting", "to login",
               "at provider", "returning", "exchanging", "answered"}
  BY DEF PcSet, Resting
<1>c. \A j, o : Cookies(j, o).owner = o
  BY DEF Cookies
<1>n. Nothing.owner = None
  BY DEF Nothing
<1>s. \A w \in Window : sent = [sent EXCEPT ![w] = sent[w]]
  BY <1>j
<1>1. ASSUME NEW w \in Window, Open(w) \/ Act(w) PROVE Sealed'
  BY <1>1, <1>c, <1>p, SealedMove DEF Open, Act, Ask
<1>2. ASSUME NEW w \in Window, Reload(w) \/ Decline(w) PROVE Sealed'
  BY <1>2, <1>c, <1>p, SealedMove DEF Reload, Decline
<1>3. ASSUME NEW w \in Window, NEW e \in Email, Confirm(w, e) PROVE Sealed'
  BY <1>3, <1>c, <1>p, SealedMove DEF Confirm
<1>4. ASSUME NEW w \in Window, Close(w) \/ Admit(w) PROVE Sealed'
  BY <1>4, <1>n, <1>p, SealedMove DEF Close, Admit
<1>5. ASSUME NEW w \in Window, HandleUnauthorized(w) PROVE Sealed'
  <2>1. PICK p \in {"open", "to login", "refused"} : MoveTo(w, p)
    BY <1>5 DEF HandleUnauthorized
  <2>. QED  BY <1>5, <2>1, <1>n, <1>p, SealedMove DEF HandleUnauthorized
<1>6. ASSUME NEW w \in Window, NEW p \in {"at provider", "failed", "mismatch", "refused", "to login"},
             MoveTo(w, p), UNCHANGED <<sent, overTLS, oidcAuth>>
      PROVE  Sealed'
  BY <1>6, <1>s, <1>p, SealedMove
<1>7. ASSUME NEW w \in Window,
             \/ ShowLoginPage(w) \/ PanicAtLogin(w) \/ RefuseState(w) \/ RefuseWithoutCode(w)
             \/ FinishRefused(w) \/ HandleLogout(w)
      PROVE  Sealed'
  BY <1>6, <1>7
  DEF ShowLoginPage, PanicAtLogin, RefuseState, RefuseWithoutCode, FinishRefused, HandleLogout
<1>8. ASSUME NEW w \in Window, AcceptCode(w) PROVE Sealed'
  <2>1. overTLS
    <3>1. sent[w].owner = w /\ w # None
      BY <1>8, LoginAssumption DEF AcceptCode, Inv, StateCheckExact, LoginAssumption
    <3>. QED  BY <3>1 DEF Sealed
  <2>2. PICK p \in {"exchanging", "failed"} : MoveTo(w, p) /\ (p = "exchanging" => oidcAuth)
    BY <1>8 DEF AcceptCode
  <2>. QED  BY <1>8, <1>s, <1>p, <2>1, <2>2, SealedMove DEF AcceptCode
<1>9. ASSUME NEW w \in Window, Exchange(w) \/ ExchangeFails(w) PROVE Sealed'
  <2>1. PICK s : Answer(w, s)
    BY <1>9 DEF Exchange, ExchangeFails
  <2>2. [sent[w] EXCEPT !.session = s].owner = sent[w].owner
    <3>1. sent[w] \in Request
      BY <1>j
    <3>. QED  BY <3>1 DEF Request
  <2>3. sent' = [sent EXCEPT ![w] = [sent[w] EXCEPT !.session = s]]
    BY <2>1, <1>j DEF Answer
  <2>4. overTLS
    BY <1>9 DEF Exchange, ExchangeFails, Sealed
  <2>. QED  BY <1>9, <1>p, <2>1, <2>2, <2>3, <2>4, SealedMove DEF Answer, Exchange, ExchangeFails
<1>10. ASSUME NEW w \in Window, FinishLogin(w) PROVE Sealed'
  BY <1>10, <1>c, <1>p, SealedMove DEF FinishLogin, Ask
<1>11. ASSUME NEW w \in Window, ExchangeForNobody(w) \/ ReconnectStream(w) PROVE Sealed'
  BY <1>11 DEF ExchangeForNobody, ReconnectStream, Sealed
<1>12. CASE Tick
  <2>1. /\ UNCHANGED <<pc, overTLS, oidcAuth>>
        /\ \A v \in Window : sent'[v] = [sent[v] EXCEPT !.session = AgedSession(sent[v].session)]
    BY <1>12 DEF Tick
  <2>2. ASSUME NEW v \in Window
        PROVE  /\ sent'[v].owner = sent[v].owner
               /\ sent'[v].session = AgedSession(sent[v].session)
    <3>1. sent[v] \in Request
      BY <1>j
    <3>. QED  BY <2>1, <3>1 DEF Request
  <2>3. \A v \in Window : sent'[v].session # None => sent[v].session # None
    BY <2>2, AgedType DEF AgedSession
  <2>. QED  BY <2>1, <2>2, <2>3 DEF Sealed
<1>13. CASE Restart
  BY <1>13, <1>j DEF Restart, Sealed
<1>14. CASE UNCHANGED vars
  BY <1>14 DEF vars, Sealed
<1>. QED
  BY <1>1, <1>2, <1>3, <1>4, <1>5, <1>7, <1>8, <1>9, <1>10, <1>11, <1>12, <1>13, <1>14
  DEF Next, Handle, UserDoes

(* The distance, place by place.                                           *)
Admitted(w) == AuthenticateFromSession(sent[w].session)

Distances ==
    \A w \in Window :
        /\ pc[w] \in Resting => Distance(w) = 0
        /\ pc[w] = "acting" => Distance(w) = 1
        /\ pc[w] = "exchanging" => Distance(w) = 3
        /\ pc[w] = "returning" => Distance(w) = 4
        /\ pc[w] = "at provider" => Distance(w) = 5
        /\ pc[w] = "to login" => Distance(w) = 6
        /\ pc[w] = "asking" /\ Admitted(w) => Distance(w) = 1
        /\ pc[w] = "asking" /\ ~Admitted(w) => Distance(w) = 7
        /\ pc[w] = "answered" /\ sent[w].session = None => Distance(w) = 1
        /\ pc[w] = "answered" /\ sent[w].session # None /\ Admitted(w) => Distance(w) = 2
        /\ pc[w] = "answered" /\ sent[w].session # None /\ ~Admitted(w) => Distance(w) = 8

LEMMA DistanceAt == Distances
BY DEF Distances, Distance, Admitted, Resting

LEMMA DistanceRange ==
    ASSUME NEW w \in Window, pc[w] \in PcSet
    PROVE  Distance(w) \in 0..8 /\ (Distance(w) = 0 => pc[w] \in Resting)
<1>1. Distances
  BY DistanceAt
<1>2. pc[w] \in Resting => Distance(w) = 0
  BY <1>1 DEF Distances
<1>3. pc[w] \notin Resting => Distance(w) \in {1, 2, 3, 4, 5, 6, 7, 8}
  <2>1. CASE pc[w] \in {"acting", "exchanging", "returning", "at provider", "to login"}
    BY <1>1, <2>1 DEF Distances
  <2>2. CASE pc[w] = "asking"
    BY <1>1, <2>2 DEF Distances
  <2>3. CASE pc[w] = "answered"
    BY <1>1, <2>3 DEF Distances
  <2>. QED  BY <2>1, <2>2, <2>3 DEF PcSet
<1>. QED  BY <1>2, <1>3

LEMMA SameDistance ==
    ASSUME NEW w \in Window, UNCHANGED <<pc[w], sent[w], admins, oidcAuth>>
    PROVE  Distance(w)' = Distance(w)
BY DEF Distance, AuthenticateFromSession

(* A step of the window itself.                                            *)
LEMMA HandleNearer ==
    ASSUME Inv, Sealed, NEW w \in Window,
           Handle(w) \/ Close(w) \/ \E e \in Email : Confirm(w, e)
    PROVE  Distance(w)' < Distance(w) \/ (pc'[w] = "blank" /\ Distance(w)' <= Distance(w))
<1>. USE DEF serverVars, loginVars, Admitted
<1>j. /\ pc \in [Window -> PcSet] /\ sent \in [Window -> Request]
      /\ sent[w].session \in Session \cup {None} /\ jar \in Jar
  BY DEF Inv, TypeOK, BrowserTypeOK, Request
<1>p. Resting = {"blank", "open", "refused", "mismatch", "failed"}
  BY DEF Resting
<1>d. Distances
  BY DistanceAt
<1>e. Distances'
  BY DEF Distances, Distance, Admitted, Resting
<1>m. \A p : MoveTo(w, p) => pc'[w] = p
  BY <1>j DEF MoveTo
<1>n. Distance(w) \in 0..8 /\ (Distance(w) = 0 => pc[w] \in Resting)
  BY <1>j, DistanceRange
<1>r. ASSUME pc'[w] \in Resting, pc[w] \notin Resting PROVE Distance(w)' < Distance(w)
  <2>1. Distance(w)' = 0
    BY <1>e, <1>r DEF Distances
  <2>2. Distance(w) > 0
    BY <1>n, <1>r
  <2>. QED  BY <1>n, <2>1, <2>2
<1>1. CASE Close(w)
  <2>1. pc'[w] = "blank"
    BY <1>1, <1>m DEF Close
  <2>2. Distance(w)' = 0
    BY <1>e, <1>p, <2>1 DEF Distances
  <2>. QED  BY <1>n, <2>1, <2>2
<1>2. CASE \/ Admit(w) \/ PanicAtLogin(w) \/ RefuseState(w) \/ RefuseWithoutCode(w)
           \/ FinishRefused(w)
  <2>1. pc'[w] \in Resting /\ pc[w] \notin Resting
    BY <1>2, <1>m, <1>p
    DEF Admit, PanicAtLogin, RefuseState, RefuseWithoutCode, FinishRefused
  <2>. QED  BY <1>r, <2>1
<1>3. CASE HandleUnauthorized(w)
  <2>1. CASE pc'[w] \in {"open", "refused"}
    <3>1. pc'[w] \in Resting /\ pc[w] \notin Resting
      BY <1>3, <1>p, <2>1 DEF HandleUnauthorized
    <3>. QED  BY <1>r, <3>1
  <2>2. CASE pc'[w] \notin {"open", "refused"}
    <3>1. pc[w] = "asking" /\ pc'[w] = "to login" /\ ~Admitted(w)
      BY <1>3, <1>m, <2>2 DEF HandleUnauthorized
    <3>2. Distance(w) = 7 /\ Distance(w)' = 6
      BY <1>d, <1>e, <3>1 DEF Distances
    <3>. QED  BY <3>2
  <2>. QED  BY <2>1, <2>2
<1>4. CASE ShowLoginPage(w)
  <2>1. Distance(w) = 6 /\ Distance(w)' = 5
    BY <1>4, <1>d, <1>e, <1>m DEF ShowLoginPage, Distances
  <2>. QED  BY <2>1
<1>5. ASSUME NEW e \in Email, Confirm(w, e)
      PROVE  Distance(w)' < Distance(w)
  <2>1. Distance(w) = 5 /\ Distance(w)' = 4
    BY <1>5, <1>d, <1>e, <1>m DEF Confirm, Distances
  <2>. QED  BY <2>1
<1>6. CASE AcceptCode(w)
  <2>1. CASE pc'[w] = "failed"
    <3>1. pc'[w] \in Resting /\ pc[w] \notin Resting
      BY <1>6, <1>p, <2>1 DEF AcceptCode
    <3>. QED  BY <1>r, <3>1
  <2>2. CASE pc'[w] # "failed"
    <3>1. Distance(w) = 4 /\ Distance(w)' = 3
      BY <1>6, <1>d, <1>e, <1>m, <2>2 DEF AcceptCode, Distances
    <3>. QED  BY <3>1
  <2>. QED  BY <2>1, <2>2
<1>7. ASSUME NEW s, Answer(w, s), pc[w] = "exchanging", UNCHANGED <<oidcAuth, admins>>,
             s # None => s.left > 0 /\ s.email \in admins
      PROVE  Distance(w)' < Distance(w)
  <2>1. pc'[w] = "answered" /\ sent'[w].session = s
    <3>1. sent[w] \in Request
      BY <1>j
    <3>2. [sent[w] EXCEPT !.session = s].session = s
      BY <3>1 DEF Request
    <3>. QED  BY <1>7, <1>j, <1>m, <3>2 DEF Answer
  <2>2. s # None => Admitted(w)'
    BY <1>7, <2>1 DEF AuthenticateFromSession, Sealed
  <2>3. Distance(w)' = 1 \/ Distance(w)' = 2
    BY <1>e, <2>1, <2>2 DEF Distances
  <2>4. Distance(w) = 3
    BY <1>d, <1>7 DEF Distances
  <2>. QED  BY <2>3, <2>4
<1>8. CASE ExchangeFails(w)
  <2>1. Answer(w, None) /\ pc[w] = "exchanging" /\ UNCHANGED <<oidcAuth, admins>>
    BY <1>8 DEF ExchangeFails
  <2>. QED  BY <1>7, <2>1
<1>9. CASE Exchange(w)
  <2>1. CASE user[w] \in admins
    <3> DEFINE s == [email |-> user[w], left |-> SessionDuration]
    <3>1. s.left > 0 /\ s.email \in admins
      BY <2>1, LoginAssumption DEF LoginAssumption
    <3>2. Answer(w, s)
      BY <1>9, <2>1 DEF Exchange
    <3> HIDE DEF s
    <3>3. pc[w] = "exchanging" /\ UNCHANGED <<oidcAuth, admins>>
      BY <1>9 DEF Exchange
    <3>. QED  BY <1>7, <3>1, <3>2, <3>3
  <2>2. CASE user[w] \notin admins
    <3>1. Answer(w, None) /\ pc[w] = "exchanging" /\ UNCHANGED <<oidcAuth, admins>>
      BY <1>9, <2>2 DEF Exchange
    <3>. QED  BY <1>7, <3>1
  <2>. QED  BY <2>1, <2>2
<1>10. CASE FinishLogin(w)
  <2>1. /\ pc[w] = "answered" /\ sent[w].session # None /\ overTLS
        /\ pc'[w] = "asking" /\ sent'[w].session = jar'.session
        /\ jar' = WithSession(WithoutLogin, sent[w].session)
        /\ UNCHANGED <<oidcAuth, admins>>
    BY <1>10, <1>j, <1>m DEF FinishLogin, Ask, Cookies, Sealed
  <2>2. jar'.session = IF sent[w].session.left > 0 THEN sent[w].session ELSE None
    <3>1. ASSUME NEW x PROVE [WithoutLogin EXCEPT !.session = x].session = x
      BY <1>j DEF WithoutLogin, Jar
    <3>. QED  BY <2>1, <3>1 DEF WithSession
  <2>3. CASE Admitted(w)
    <3>1. Admitted(w)'
      BY <2>1, <2>2, <2>3 DEF AuthenticateFromSession
    <3>2. Distance(w) = 2 /\ Distance(w)' = 1
      BY <1>d, <1>e, <2>1, <2>3, <3>1 DEF Distances
    <3>. QED  BY <3>2
  <2>4. CASE ~Admitted(w)
    <3>1. Distance(w) = 8 /\ (Distance(w)' = 1 \/ Distance(w)' = 7)
      BY <1>d, <1>e, <2>1, <2>4 DEF Distances
    <3>. QED  BY <3>1
  <2>. QED  BY <2>3, <2>4
<1>. QED
  BY <1>1, <1>2, <1>3, <1>4, <1>5, <1>6, <1>8, <1>9, <1>10 DEF Handle

(* From a window's request to its rest is never more than eight steps,     *)
(* with one visit to the provider, for any windows, accounts and lists of  *)
(* administrators.                                                         *)
THEOREM Redirects == Spec => RedirectsEnd
<1> DEFINE Step == UNCHANGED <<visits, ticks, restarts>> =>
               \A w \in Window :
                   \/ Distance(w)' < Distance(w)
                   \/ pc'[w] \in {pc[w], "blank"} /\ Distance(w)' <= Distance(w)
<1>1. Inv /\ Sealed /\ [Next]_vars => Step
  <2> SUFFICES ASSUME Inv, Sealed, [Next]_vars, UNCHANGED <<visits, ticks, restarts>>,
                      NEW w \in Window
               PROVE  \/ Distance(w)' < Distance(w)
                      \/ pc'[w] \in {pc[w], "blank"} /\ Distance(w)' <= Distance(w)
    OBVIOUS
  <2>0. /\ pc \in [Window -> PcSet] /\ sent \in [Window -> Request]
        /\ visits \in Nat /\ ticks \in Nat /\ restarts \in Nat
    BY LoginAssumption DEF Inv, TypeOK, BrowserTypeOK, ServerTypeOK, LoginAssumption
  <2>1. ~Visit /\ ~Tick /\ ~Restart
    BY <2>0 DEF Visit, Tick, Restart
  <2>2. ASSUME UNCHANGED <<pc[w], sent[w], admins, oidcAuth>>
        PROVE  pc'[w] = pc[w] /\ Distance(w)' <= Distance(w)
    <3>1. Distance(w)' = Distance(w)
      BY <2>2, SameDistance
    <3>2. Distance(w) \in Nat
      BY <2>0, DistanceRange
    <3>. QED  BY <2>2, <3>1, <3>2
  <2>3. ASSUME NEW v \in Window, v # w,
               Handle(v) \/ Close(v) \/ \E e \in Email : Confirm(v, e)
        PROVE  UNCHANGED <<pc[w], sent[w], admins, oidcAuth>>
    BY <2>0, <2>3 DEF Handle, Close, Confirm, Admit, HandleUnauthorized, ShowLoginPage,
       PanicAtLogin, RefuseState, RefuseWithoutCode, AcceptCode, Exchange, ExchangeFails, Answer,
       FinishLogin, FinishRefused, Ask, MoveTo, serverVars
  <2>4. ASSUME NEW v \in Window, Handle(v) \/ Close(v) \/ \E e \in Email : Confirm(v, e)
        PROVE  \/ Distance(w)' < Distance(w)
               \/ pc'[w] \in {pc[w], "blank"} /\ Distance(w)' <= Distance(w)
    BY <2>2, <2>3, <2>4, HandleNearer
  <2>5. ASSUME NEW v \in Window, ExchangeForNobody(v) \/ ReconnectStream(v)
        PROVE  UNCHANGED <<pc[w], sent[w], admins, oidcAuth>>
    BY <2>5 DEF ExchangeForNobody, ReconnectStream, serverVars
  <2>6. CASE UNCHANGED vars
    BY <2>2, <2>6 DEF vars, serverVars
  <2>7. \A v \in Window : ~Open(v) /\ ~Act(v) /\ ~Reload(v) /\ ~HandleLogout(v) /\ ~Decline(v)
    BY <2>1 DEF Open, Act, Reload, HandleLogout, Decline
  <2>. QED
    BY <2>1, <2>2, <2>4, <2>5, <2>6, <2>7 DEF Next, UserDoes
<1>. QED  BY <1>1, Invariance, SealedInit, SealedNext, PTL DEF Spec, RedirectsEnd
=============================================================================
