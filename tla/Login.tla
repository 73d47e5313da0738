------------------------------- MODULE Login --------------------------------
(***************************************************************************)
(* Signing in to hsadmin from one browser with several windows: the        *)
(* middleware (internal/auth/auth.go), the login handlers (handlers.go),   *)
(* the OIDC authenticator (oidc.go), and what main and NewMiddleware make  *)
(* of them when the server starts.  The server keeps nothing between two   *)
(* requests: a login in progress and a session are cookies in the jar that *)
(* all windows share.  A request carries the cookies of the moment it is   *)
(* sent, a response changes the jar at the moment it arrives.              *)
(*                                                                         *)
(* An attempt is what one run of ShowLoginPage generates: its number       *)
(* stands for the random state, for the verifier and for its challenge.    *)
(* Windows talk to the HTTP listener; a Peer connects from the address of  *)
(* a machine in the tailnet whose user is an administrator.  The browser   *)
(* and the identity provider are the environment.                          *)
(***************************************************************************)
EXTENDS Naturals

CONSTANTS
    Window,             \* the windows of the browser
    Peer,               \* those WhoIs finds to be an administrator's
    Email,              \* accounts at the identity provider
    AdminEmails,        \* the lists of administrators that the server may be started with
    Attempt,            \* as many as can be in use at a time, and one more
    None,               \* no cookie, no code, no account
    SessionDuration,    \* lifetime of a session, in ticks: 24 hours
    StateAge,           \* lifetime of the login cookies, in ticks: 5 minutes
    MaxVisits,          \* bound: what the user does of himself
    MaxTicks,           \* bound: how often the clock ticks
    MaxRestarts         \* bound: how often the server is restarted

ASSUME LoginAssumption ==
    /\ Peer \subseteq Window
    /\ AdminEmails \subseteq SUBSET Email
    /\ None \notin Email /\ None \notin Attempt /\ None \notin Window
    /\ SessionDuration \in Nat \ {0}
    /\ StateAge \in Nat \ {0}
    /\ MaxVisits \in Nat /\ MaxTicks \in Nat /\ MaxRestarts \in Nat

(* Cookies as the jar holds them, and as a request carries them: the       *)
(* browser drops a login cookie that is too old, the server itself looks   *)
(* at the age of a session.                                                *)
LoginCookie == [value : Attempt, left : 1..StateAge]
Session == [email : Email, left : 0..SessionDuration]

ASSUME NoneIsNoCookie == None \notin LoginCookie /\ None \notin Session

VARIABLES
    admins,     \* AdminEmails of the configuration
    oidcAuth,   \* NewOIDCAuthenticator found the provider
    overTLS,    \* the browser reaches the listener by HTTPS
    jar,        \* the cookies of the browser
    pc,         \* pc[w]: where the window is
    sent,       \* sent[w]: the cookies of its request, or the session of its answer
    attempt,    \* attempt[w]: the attempt it is at the provider with, or back from
    user,       \* user[w]: whom its authorization code is for; None without a code
    spent,      \* spent[w]: the provider has redeemed that code
    orphan,     \* orphan[w]: the handler of an abandoned request has yet to redeem it
    account,    \* who is signed in at the provider
    owner,      \* history: the window whose login the jar's login cookies belong to
    visits, ticks, restarts

serverVars == <<admins, oidcAuth, overTLS, restarts>>
loginVars == <<attempt, user, spent, orphan>>
vars == <<serverVars, jar, pc, sent, loginVars, account, owner, visits, ticks>>

Resting == {"blank", "open", "refused", "mismatch", "failed"}

PcSet == Resting \cup
    {"asking", "acting", "to login", "at provider", "returning", "exchanging", "answered"}

Jar == [state : LoginCookie \cup {None}, verifier : LoginCookie \cup {None},
        session : Session \cup {None}]

Request == [state : Attempt \cup {None}, verifier : Attempt \cup {None},
            session : Session \cup {None}, owner : Window \cup {None}]

ServerTypeOK ==
    /\ admins \in AdminEmails /\ oidcAuth \in BOOLEAN /\ overTLS \in BOOLEAN
    /\ restarts \in 0..MaxRestarts

LoginTypeOK ==
    /\ attempt \in [Window -> Attempt \cup {None}]
    /\ user \in [Window -> Email \cup {None}]
    /\ spent \in [Window -> BOOLEAN] /\ orphan \in [Window -> BOOLEAN]

BrowserTypeOK ==
    /\ pc \in [Window -> PcSet]
    /\ account \in Email \cup {None}
    /\ owner \in Window \cup {None}
    /\ visits \in 0..MaxVisits /\ ticks \in 0..MaxTicks

TypeOK ==
    /\ ServerTypeOK /\ LoginTypeOK /\ BrowserTypeOK
    /\ jar \in Jar
    /\ sent \in [Window -> Request]

NoCookies == [state |-> None, verifier |-> None, session |-> None]
Nothing == [state |-> None, verifier |-> None, session |-> None, owner |-> None]

Init ==
    /\ admins \in AdminEmails /\ oidcAuth \in BOOLEAN /\ overTLS \in BOOLEAN
    /\ jar = NoCookies
    /\ pc = [w \in Window |-> "blank"]
    /\ sent = [w \in Window |-> Nothing]
    /\ attempt = [w \in Window |-> None]
    /\ user = [w \in Window |-> None]
    /\ spent = [w \in Window |-> FALSE]
    /\ orphan = [w \in Window |-> FALSE]
    /\ account = None /\ owner = None
    /\ visits = 0 /\ ticks = 0 /\ restarts = 0

MoveTo(w, p) == pc' = [pc EXCEPT ![w] = p]

(* What the user does of himself, unlike what browser and server do next.  *)
Visit == visits < MaxVisits /\ visits' = visits + 1

-----------------------------------------------------------------------------
(* The browser.                                                            *)

Value(cookie) == IF cookie = None THEN None ELSE cookie.value

Cookies(j, o) ==
    [state |-> Value(j.state), verifier |-> Value(j.verifier),
     session |-> j.session, owner |-> o]

(* All cookies are Secure: without TLS the browser stores none of them.    *)
(* Mutant: a verifier that is stored already is kept.                      *)
WithLoginOldVerifier(a) ==
    IF overTLS
    THEN [jar EXCEPT !.state = [value |-> a, left |-> StateAge],
                     !.verifier = IF @ = None THEN [value |-> a, left |-> StateAge] ELSE @]
    ELSE jar

WithLogin(a) ==
    IF overTLS
    THEN [jar EXCEPT !.state = [value |-> a, left |-> StateAge],
                     !.verifier = [value |-> a, left |-> StateAge]]
    ELSE jar

WithoutLogin == [jar EXCEPT !.state = None, !.verifier = None]

(* Mutant: the session cookie is not sent.                                 *)
WithSessionLost(j, session) == j

WithSession(j, session) ==
    IF overTLS
    THEN [j EXCEPT !.session = IF session.left > 0 THEN session ELSE None]
    ELSE j

(* The window requests a page, with the cookies of jar j that o owns.      *)
Ask(w, j, o) ==
    /\ MoveTo(w, "asking")
    /\ sent' = [sent EXCEPT ![w] = Cookies(j, o)]
    /\ attempt' = [attempt EXCEPT ![w] = None]
    /\ user' = [user EXCEPT ![w] = None]
    /\ spent' = [spent EXCEPT ![w] = FALSE]
    /\ orphan' = [orphan EXCEPT ![w] = FALSE]

Open(w) ==
    /\ pc[w] \in Resting
    /\ Visit
    /\ Ask(w, jar, owner)
    /\ UNCHANGED <<serverVars, jar, account, owner, ticks>>

(* The page sends an HTMX request.                                         *)
Act(w) ==
    /\ pc[w] = "open"
    /\ Visit
    /\ MoveTo(w, "acting")
    /\ sent' = [sent EXCEPT ![w] = Cookies(jar, owner)]
    /\ UNCHANGED <<serverVars, jar, loginVars, account, owner, ticks>>

(* The user gives up; the server may still be working for the request.     *)
Close(w) ==
    /\ pc[w] # "blank"
    /\ MoveTo(w, "blank")
    /\ sent' = [sent EXCEPT ![w] = Nothing]
    /\ attempt' = [attempt EXCEPT ![w] = None]
    /\ user' = [user EXCEPT ![w] = None]
    /\ spent' = [spent EXCEPT ![w] = FALSE]
    /\ orphan' = [orphan EXCEPT ![w] = FALSE]
    /\ UNCHANGED <<serverVars, jar, account, owner, visits, ticks>>

(* The user reloads the address of the callback, before or after its       *)
(* answer.  The handler of a request that is given up goes on.             *)
Reload(w) ==
    /\ attempt[w] # None
    /\ pc[w] \in {"returning", "exchanging", "answered", "refused", "mismatch", "failed"}
    /\ Visit
    /\ MoveTo(w, "returning")
    /\ sent' = [sent EXCEPT ![w] = Cookies(jar, owner)]
    /\ orphan' = [orphan EXCEPT ![w] = orphan[w] \/ pc[w] = "exchanging"]
    /\ UNCHANGED <<serverVars, jar, attempt, user, spent, account, owner, ticks>>

(* Time passes: cookies expire, sessions in requests grow old.             *)
(* Mutant: a cookie lives a tick too long.                                 *)
AgedCookieLate(c) ==
    IF c = None \/ c.left = 0 THEN None ELSE [c EXCEPT !.left = c.left - 1]

AgedCookie(c) ==
    IF c = None \/ c.left = 1 THEN None ELSE [c EXCEPT !.left = c.left - 1]
AgedSession(s) ==
    IF s = None \/ s.left = 0 THEN s ELSE [s EXCEPT !.left = s.left - 1]
DroppedWhenOld(s) == IF s = None \/ s.left <= 1 THEN None ELSE AgedSession(s)

Tick ==
    /\ ticks < MaxTicks
    /\ ticks' = ticks + 1
    /\ jar' = [state |-> AgedCookie(jar.state), verifier |-> AgedCookie(jar.verifier),
               session |-> DroppedWhenOld(jar.session)]
    /\ owner' = IF jar'.state = None THEN None ELSE owner
    /\ sent' = [w \in Window |-> [sent[w] EXCEPT !.session = AgedSession(sent[w].session)]]
    /\ UNCHANGED <<serverVars, pc, loginVars, account, visits>>

-----------------------------------------------------------------------------
(* The middleware.                                                         *)

AuthenticateFromSession(session) ==
    /\ oidcAuth
    /\ session # None
    /\ session.left > 0
    /\ session.email \in admins

(* WhoIs comes first and may fail; a user it names who is no administrator *)
(* is the same as one it does not know.                                    *)
Admit(w) ==
    /\ pc[w] \in {"asking", "acting"}
    /\ w \in Peer \/ AuthenticateFromSession(sent[w].session)
    /\ MoveTo(w, "open")
    /\ sent' = [sent EXCEPT ![w] = Nothing]
    /\ UNCHANGED <<serverVars, jar, loginVars, account, owner, visits, ticks>>

(* An HTMX request gets a 403, which htmx does not show: the page stays as *)
(* it is.                                                                  *)
HandleUnauthorized(w) ==
    /\ ~AuthenticateFromSession(sent[w].session)
    /\ \/ pc[w] = "acting" /\ MoveTo(w, "open")
       \/ pc[w] = "asking" /\ MoveTo(w, IF oidcAuth THEN "to login" ELSE "refused")
    /\ sent' = [sent EXCEPT ![w] = Nothing]
    /\ UNCHANGED <<serverVars, jar, loginVars, account, owner, visits, ticks>>

-----------------------------------------------------------------------------
(* The login handlers.                                                     *)

(* Whatever random number is drawn, nobody has it: a state that the jar,   *)
(* a window or a request holds is not drawn again.                         *)
InUse ==
    {Value(jar.state), Value(jar.verifier)} \cup {attempt[w] : w \in Window}
        \cup {sent[w].state : w \in Window} \cup {sent[w].verifier : w \in Window}

GenerateState == CHOOSE a \in Attempt : a \notin InUse

ShowLoginPage(w) ==
    /\ pc[w] = "to login"
    /\ oidcAuth
    /\ Attempt \ InUse # {}
    /\ jar' = WithLogin(GenerateState)
    /\ owner' = IF overTLS THEN w ELSE owner
    /\ attempt' = [attempt EXCEPT ![w] = GenerateState]
    /\ MoveTo(w, "at provider")
    /\ UNCHANGED <<serverVars, sent, user, spent, orphan, account, visits, ticks>>

(* main registers the handlers without an authenticator when the provider  *)
(* was not there at the start; they panic when they come to use it.        *)
PanicAtLogin(w) ==
    /\ pc[w] = "to login"
    /\ ~oidcAuth
    /\ MoveTo(w, "failed")
    /\ UNCHANGED <<serverVars, jar, sent, loginVars, account, owner, visits, ticks>>

(* The event stream of an open page was cut and is requested anew without  *)
(* a valid session: the browser follows the redirect to the login page,    *)
(* stores its cookies, and the stream ends at the provider.                *)
ReconnectStream(w) ==
    /\ pc[w] = "open"
    /\ w \notin Peer
    /\ oidcAuth
    /\ ~AuthenticateFromSession(jar.session)
    /\ overTLS
    /\ Attempt \ InUse # {}
    /\ jar' = WithLogin(GenerateState)
    /\ owner' = None
    /\ UNCHANGED <<serverVars, pc, sent, loginVars, account, visits, ticks>>

(* The provider sends the window back with a code, without asking when the *)
(* account is signed in there, ...                                         *)
Confirm(w, e) ==
    /\ pc[w] = "at provider"
    /\ IF account = e THEN UNCHANGED visits ELSE Visit
    /\ account' = e
    /\ user' = [user EXCEPT ![w] = e]
    /\ spent' = [spent EXCEPT ![w] = FALSE]
    /\ MoveTo(w, "returning")
    /\ sent' = [sent EXCEPT ![w] = Cookies(jar, owner)]
    /\ UNCHANGED <<serverVars, jar, attempt, orphan, owner, ticks>>

(* ... or with an error and no code.                                       *)
Decline(w) ==
    /\ pc[w] = "at provider"
    /\ Visit
    /\ MoveTo(w, "returning")
    /\ sent' = [sent EXCEPT ![w] = Cookies(jar, owner)]
    /\ UNCHANGED <<serverVars, jar, loginVars, account, owner, ticks>>

(* Mutant: that there is a state is enough.                                *)
StateMatchesAny(w) == sent[w].state # None

StateMatches(w) == sent[w].state = attempt[w]

(* HandleCallback up to the exchange.  The first refusal leaves the login  *)
(* cookies, the second clears them.                                        *)
RefuseState(w) ==
    /\ pc[w] = "returning"
    /\ ~StateMatches(w)
    /\ MoveTo(w, "mismatch")
    /\ UNCHANGED <<serverVars, jar, sent, loginVars, account, owner, visits, ticks>>

RefuseWithoutCode(w) ==
    /\ pc[w] = "returning"
    /\ StateMatches(w)
    /\ user[w] = None
    /\ jar' = WithoutLogin
    /\ owner' = None
    /\ MoveTo(w, "refused")
    /\ UNCHANGED <<serverVars, sent, loginVars, account, visits, ticks>>

AcceptCode(w) ==
    /\ pc[w] = "returning"
    /\ StateMatches(w)
    /\ user[w] # None
    /\ MoveTo(w, IF oidcAuth THEN "exchanging" ELSE "failed")
    /\ UNCHANGED <<serverVars, jar, sent, loginVars, account, owner, visits, ticks>>

Answer(w, session) ==
    /\ MoveTo(w, "answered")
    /\ sent' = [sent EXCEPT ![w].session = session]

(* Mutant of Exchange: anybody gets a session.                             *)
ExchangeAnybody(w) ==
    /\ pc[w] = "exchanging"
    /\ ~spent[w] /\ sent[w].verifier = attempt[w]
    /\ spent' = [spent EXCEPT ![w] = TRUE]
    /\ Answer(w, [email |-> user[w], left |-> SessionDuration])
    /\ UNCHANGED <<serverVars, jar, attempt, user, orphan, account, owner, visits, ticks>>

(* The provider redeems a code once, and for the right verifier only.      *)
Exchange(w) ==
    /\ pc[w] = "exchanging"
    /\ ~spent[w] /\ sent[w].verifier = attempt[w]
    /\ spent' = [spent EXCEPT ![w] = TRUE]
    /\ Answer(w, IF user[w] \in admins
                 THEN [email |-> user[w], left |-> SessionDuration] ELSE None)
    /\ UNCHANGED <<serverVars, jar, attempt, user, orphan, account, owner, visits, ticks>>

(* The provider refuses, or the call or its reply is lost.                 *)
ExchangeFails(w) ==
    /\ pc[w] = "exchanging"
    /\ \E lost \in BOOLEAN :
          spent' = [spent EXCEPT ![w] =
                        spent[w] \/ (lost /\ sent[w].verifier = attempt[w])]
    /\ Answer(w, None)
    /\ UNCHANGED <<serverVars, jar, attempt, user, orphan, account, owner, visits, ticks>>

(* The handler of a request that the window gave up redeems the code.      *)
ExchangeForNobody(w) ==
    /\ orphan[w]
    /\ orphan' = [orphan EXCEPT ![w] = FALSE]
    /\ spent' = [spent EXCEPT ![w] = TRUE]
    /\ UNCHANGED <<serverVars, jar, pc, sent, attempt, user, account, owner, visits, ticks>>

(* The answer of the callback arrives: the login cookies go, and with a    *)
(* session the window is sent to the machines page.                        *)
FinishLogin(w) ==
    /\ pc[w] = "answered"
    /\ sent[w].session # None
    /\ jar' = WithSession(WithoutLogin, sent[w].session)
    /\ owner' = None
    /\ Ask(w, jar', None)
    /\ UNCHANGED <<serverVars, account, visits, ticks>>

FinishRefused(w) ==
    /\ pc[w] = "answered"
    /\ sent[w].session = None
    /\ jar' = WithoutLogin
    /\ owner' = None
    /\ MoveTo(w, "refused")
    /\ UNCHANGED <<serverVars, sent, loginVars, account, visits, ticks>>

(* The session goes, and the redirect leads to the login page at once.     *)
HandleLogout(w) ==
    /\ pc[w] = "open"
    /\ Visit
    /\ jar' = [jar EXCEPT !.session = None]
    /\ MoveTo(w, "to login")
    /\ UNCHANGED <<serverVars, sent, loginVars, account, owner, ticks>>

-----------------------------------------------------------------------------
(* The server is started anew, with another list of administrators, or     *)
(* while the provider is away.  Cookies stay valid: the secret is          *)
(* configured.  What a handler was doing is lost.                          *)
Restart ==
    /\ restarts < MaxRestarts
    /\ restarts' = restarts + 1
    /\ admins' \in AdminEmails
    /\ oidcAuth' \in BOOLEAN
    /\ pc' = [w \in Window |-> IF pc[w] = "exchanging" THEN "failed" ELSE pc[w]]
    /\ orphan' = [w \in Window |-> FALSE]
    /\ UNCHANGED <<overTLS, jar, sent, attempt, user, spent, account, owner, visits, ticks>>

(* What happens without the user once a window has asked for something.    *)
Handle(w) ==
    \/ Admit(w) \/ HandleUnauthorized(w)
    \/ ShowLoginPage(w) \/ PanicAtLogin(w)
    \/ RefuseState(w) \/ RefuseWithoutCode(w) \/ AcceptCode(w)
    \/ Exchange(w) \/ ExchangeFails(w)
    \/ FinishLogin(w) \/ FinishRefused(w)

UserDoes(w) ==
    \/ Open(w) \/ Act(w) \/ Close(w) \/ Reload(w) \/ HandleLogout(w)
    \/ (\E e \in Email : Confirm(w, e)) \/ Decline(w)

Next ==
    \/ \E w \in Window : Handle(w) \/ UserDoes(w) \/ ExchangeForNobody(w) \/ ReconnectStream(w)
    \/ Tick \/ Restart

Spec == Init /\ [][Next]_vars

(* Server and browser go on, and a provider that knows the account does    *)
(* not ask.  Nothing is assumed of the user, the clock or restarts.        *)
Fairness ==
    \A w \in Window :
        /\ WF_vars(Handle(w))
        /\ WF_vars(\E e \in Email : account = e /\ Confirm(w, e))

FairSpec == Spec /\ Fairness

-----------------------------------------------------------------------------
(* The check of the state accepts exactly the window whose own login was   *)
(* the last to write the login cookies when it came back: no window is     *)
(* taken for another, and a refusal means that another window, the stream  *)
(* of another page, a previous answer or five minutes came between.        *)
StateCheckExact ==
    \A w \in Window : pc[w] = "returning" => (StateMatches(w) <=> sent[w].owner = w)

(* Whatever the windows do to the two login cookies, the verifier that is  *)
(* sent to the provider belongs to the attempt whose state was checked: no *)
(* exchange fails for it, and the fallback without PKCE is never taken.    *)
VerifierFits == \A w \in Window : pc[w] = "exchanging" => sent[w].verifier = attempt[w]

(* Pages, login page, provider, callback and pages again: the redirects    *)
(* end, at a page, an error or a provider that waits for its user, however *)
(* sessions end, windows interfere and servers restart on the way.         *)
NoRedirectLoop ==
    \A w \in Window :
        pc[w] = "asking" ~> pc[w] \in Resting \/ (pc[w] = "at provider" /\ account = None)

(* How many redirects and answers a window may be away from rest, at most. *)
Distance(w) ==
    LET admitted == AuthenticateFromSession(sent[w].session)
    IN CASE pc[w] \in Resting -> 0
         [] pc[w] = "acting" -> 1
         [] pc[w] = "exchanging" -> 3
         [] pc[w] = "returning" -> 4
         [] pc[w] = "at provider" -> 5
         [] pc[w] = "to login" -> 6
         [] pc[w] = "asking" -> IF admitted THEN 1 ELSE 7
         [] pc[w] = "answered" ->
                IF sent[w].session = None THEN 1 ELSE IF admitted THEN 2 ELSE 8

(* What NoRedirectLoop comes to without fairness: unless the user asks for *)
(* something, the clock ticks or the server restarts, each step of a       *)
(* window brings it nearer to rest, and no step of another takes it back.  *)
(* So whoever the callback gives a session to, the middleware admits: no   *)
(* account goes round and round, and none passes the provider twice.       *)
RedirectsEnd ==
    [][UNCHANGED <<visits, ticks, restarts>> =>
           \A w \in Window : \/ Distance(w)' < Distance(w)
                             \/ pc'[w] \in {pc[w], "blank"} /\ Distance(w)' <= Distance(w)]_vars
=============================================================================
