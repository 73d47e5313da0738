# A formal model of hsadmin

hsadmin is a web administration of a Headscale server. It joins the tailnet
with an embedded Tailscale node, asks Headscale over gRPC, renders HTML pages,
and pushes new tables to open pages with Server-Sent Events (SSE). This
directory holds TLA+ modules translated from its source, configurations that
check them with TLC, and proofs for TLAPS. Paths below are relative to `src/`.

hsadmin stores nothing: Headscale owns machines and users, browsers own the
pages and the login state. So most of what can go wrong is in time: answers that
are old when they are used, events that meet nobody, requests that overlap,
goroutines that wait for each other.

## Inventory

| part | state | operations | talks to |
|---|---|---|---|
| Event broker, `internal/events/broker.go` | the set of client channels, two rendezvous channels, a buffer of ten events, a done channel | Subscribe, Unsubscribe, Broadcast, ClientCount, Close; the goroutine `run` | SSE handlers, poller, main |
| SSE handler, `internal/handlers/sse.go` (HandleSSE) | its channel (buffer of five), the request's context | subscribe, stream, unsubscribe | broker, browser |
| Poller, `sse.go` (StartPolling ...) | last states of machines and users | tick, two calls to Headscale, compare, broadcast | Headscale, broker |
| Machine model, `internal/models/machine.go` | none | routes, exit-node status, tags, DERP latencies | templates, poller |
| Machine pages, `internal/handlers/machines.go` | none | List, Detail, FetchMachines, Rename | Headscale, Tailscale |
| Machine actions, `internal/handlers/machine_actions.go` | none (a list of routes between two calls) | approve or reject exit node or subnet, move, tags, delete, expire | Headscale |
| Users, `internal/handlers/users.go` | none | List, Create, Rename, Delete, CreatePreAuthKey | Headscale |
| Middleware, `internal/auth/auth.go` | configuration | RequireAuth: WhoIs, then session; authorization | Tailscale, session |
| Login, `internal/auth/oidc.go`, `handlers.go` | cookies in the browser | login page, callback, logout | identity provider |
| Configuration, `internal/config/config.go` | the file | Load, defaults, Validate | main |
| Process, `main.go` | the context, listeners | start in order, signal, deferred closes | all |
| Open page, `web/static/js/htmx-sse-1.9.10.js` | the EventSource of the body, the listeners on it, the tables in the page | connect, reconnect, register tables, swap | SSE handler, user |
| Templates, alerts, formatting, sets | none | rendering | browser |

What makes each part correct, and what is hard about it:

* **Broker.** `run` owns the registry, but other goroutines hold the channels.
  A channel must not be used after it was closed, must not leak when its request
  ends at an awkward moment, and a slow client must harm only itself. Hard:
  interleavings of blocked senders with `select`, full buffers, shutdown.
* **Poller and pages.** A page loads a table once and then lives on what it is
  sent. It must end up showing what Headscale holds. Hard: events are lost by
  design, failing calls, changes between load and subscription, reconnects,
  one comparison state for all pages.
* **Machine actions.** The route handlers read, compute and write back without
  a lock or a version. Hard: overlapping requests, machines that change their
  routes meanwhile, calls whose replies are lost.
* **Login and middleware.** State lives in cookies that a second window may
  overwrite; sessions are stateless, so what they grant may be outdated.
* **Users.** Machines are counted per user name, from lists read at different
  moments.
* **Open page.** htmx swaps, nests and restores tables at its own times, the browser
  reconnects some sources by itself and the extension others; through all of it every
  table must hear every event once.
* **Configuration and start.** What is configured should be what runs.

## Plan

The order of the modules is that of the behaviours they model, the most important
first. Each has its proofs in a module of its own.

1. `EventFeed` (abstract), `Broker` (detailed, implements it).
2. `Routes`, `ChangeDetection` (operators), `LiveUpdates` (poller, abstract
   broker, pages, Headscale).
3. `NodeStore` (abstract), `MachineActions` (detailed, implements it where the
   routes of a machine are left alone between two calls).
4. `Login`: login page, callback, logout and RequireAuth over the cookies of one
   browser with several windows.
5. `SseExtension`: an open page and the script that connects it to the stream.
6. `Users`: the users page, its handlers, and the list made from two calls.

What is left out, and why, is at the end.

## Modules

### EventFeed and Broker

`EventFeed` is what a subscriber may rely on: publications are numbered, each
becomes pending for all members at once, and a pending event goes to the inbox or
is lost to that member, the latter only when its own inbox is full.

`Broker` has one action per case of `run`'s `select`, split where other goroutines
can act: the receive (a rendezvous with the sender, who moves in the same step),
then the body under `b.mu`; the broadcast loop is one step per client because
clients read while it runs. `pc` is the place of each HandleSSE: blocked in
Subscribe, subscribed, at its `select`, writing, blocked in Unsubscribe. Channels
are Go channels: a send on or a second close of a closed one is the state `panic`;
a receive from a closed empty one yields a zero event at once (`ReceiveZero`).
`ClientCount` only reads; it is used by the poller's `Tick` in LiveUpdates.
Abstracted: what an event carries, logging, the bytes of the stream. A request's
name is also its channel's name and may be used again when nothing refers to the
old channel.

The refinement mapping: members are `clients`, the inbox is the channel's buffer,
and pending is the event in `run`'s hands for the clients its loop has yet to visit.

### Routes, ChangeDetection, LiveUpdates

`Routes` holds the route methods of a machine and the lists the handlers compute.
Lists are sets: Headscale attaches no meaning to order or repetition, and
nothing here depends on it. `ChangeDetection` is the comparison of two polls.

`LiveUpdates` composes the poller with the abstract feed, with the buffer of
`b.broadcast` before it, with windows (`page`, and `shown`, the table in the
window), and with Headscale. The poll is split at its calls: FetchMachines,
ListUsers, the two comparisons. A window loads the table, requests the events,
is registered, swaps in tables; it may be closed or reloaded, and Headscale may
change, at any time. Two mishaps can be switched on: `drop` breaks connections while
the window stays, `reply` lets a connected window receive the list in reply to a form
or a search, rendered in one step (`RenderReply`) and put into the page in a later one
(`ShowReply`). `missed` is history: the windows that the newest event, or a change that
gives no event, passed by (see "When a window catches up"). Headscale's changes are
given as pairs of what a machine was and becomes; it may return to what it was.
Abstracted: the Tailscale half of FetchMachines, the filters of the list (a
window shows all machines). Of the errors of rendering there is the one that occurs, a
template that does not exist (`Templates`): the states advance and nothing is broadcast.

### SseExtension

LiveUpdates treats a window as one table that is connected or not. `SseExtension`
opens the window up. Its body has `sse-connect` and so an EventSource (`source`,
`state`, the readyState); a table with `sse-swap` gets a listener on it when htmx has
processed the element that was put into the page (`Settle`, a task after the swap;
until then the table is `pending`). A search puts a table into the table, hence `outer`
and `inner`; forms replace the body's content; the history brings back a page with both.
`OnError` distinguishes a source that the browser reconnects from one that it has
closed, for which the extension sets a timeout (`armed`) and then makes a new source
(`Timeout`); `retry` counts the attempts. `Heard` and `Swap` are the listener: which
tables are still in the page, and what becomes of a table inside another. `stranded` is
history: the tables whose source was replaced, which nobody registers with the new one.
The browser's EventSource is external; of the server and the core of htmx there is what
the script meets: events that are sent, elements that come and go. The random length of
the timeouts is left out.

### NodeStore and MachineActions

`NodeStore` is what an administrator means: each action changes the machine in one
step from what it then is. `MachineActions` has a goroutine per request, with
GetNode and SetApprovedRoutes as separate steps, one call for the others, and
calls that fail with or without an effect. A machine changes the routes it
advertises at any time. Headscale is external: it replaces the approved routes by
the list it gets, refuses calls about unknown machines, and a call has its effect,
if any, before the handler that made it answers. `met` is history: the handlers whose
machine got other routes from another request after their GetNode. `Atomic` says that
every step is a step of NodeStore but for the last calls of those. Abstracted: replies, parsing (a
malformed request makes no call), users and names that Headscale may refuse (a
failing call).

### Users

The handlers of one call and the two calls of the list, for any number of windows. A
change redirects to the list, which the browser requests next; a failing Delete goes on
to the list by itself. The rows of a page offer ids, however old the page is. Users and
machines also change elsewhere: by logins, the command line, the machine pages. Headscale
is external: it does not use an id again and refuses to delete a user with machines; two
users may share a name, as accounts of different providers do. `touched` is history: the
users that others changed since a window's request came in, or since its handler listed
the users. Abstracted: the text of keys and alerts, last-seen times, whether a key is
reusable or ephemeral.

### Login

The server keeps nothing between requests, so the state is in the browser: a jar of
three cookies (`jar`) that all windows share, and for each window its place (`pc`)
on the way from page to login page, provider, callback and back. A request takes a
copy of the cookies when it is sent (`sent`), an answer changes the jar when it
arrives, so two windows interleave as they do in the code. `Admit` and
`HandleUnauthorized` are RequireAuth (an HTMX request that is refused leaves its page
as it is); RefuseState, RefuseWithoutCode, AcceptCode,
Exchange and Finish... are HandleCallback, split at the call to the provider and at
the arrival of the answer. The login cookies name the attempt that generated them.
The user may close or reload a window at any time (a handler that was given up goes
on, it ignores its request's context), cookies expire, the server restarts with
other administrators or while its provider is away, the event stream of an open page
reconnects without a session and so passes through the login page. All cookies are
Secure; `overTLS` tells whether the browser stores them at all. `owner` is history:
the window whose login the login cookies belong to.
Abstracted: the cipher of the session, names and claims (an account is its e-mail),
hosts (all windows use one), WhoIs, which recognizes the connections of `Peer` but
may fail.

## Runs

| run | shows | bounds |
|---|---|---|
| broker_serving | no panic, no leak, order, channel ownership; Broker implements EventFeed; as long as it is open, leaving requests are forgotten, Subscribe returns, accepted events are dispatched | 2 requests (names used again), buffers 1, 2 events |
| broker_close_connections | *violated*: Close ends no connection | 1 request |
| live_updates | the poller remembers what it announced, sees exactly the users that differ, announces only changes; a window that nothing passed by shows Headscale's machines when all has settled, and in the end; the poller stops after the signal | 1 window, 1 machine that goes on and off again, is tagged, deleted or given away, 2 users of whom one goes and the other comes, 2 changes, buffers 1, both mishaps |
| live_exit | *violated*: an approved exit node is no change | 1 machine |
| live_users | *violated*: the users table is never broadcast | 1 user |
| live_stale | *violated*: a window that stays connected need not catch up | 1 window, loaded twice, 1 machine, 1 change, buffers 2, no mishaps |
| login_windows | state check and verifier are exact, redirects end, each brings a window nearer to rest | 2 windows (one of an administrator's machine), 2 accounts, 4 deeds of the user, 1 tick that ends every cookie, 1 restart, 6 attempts |
| actions_safety | consent, safe retries, badges agree with actions; single steps of NodeStore unless requests meet | 2 requests of any kind on 1 machine, both exit routes and a subnet |
| actions_overlap | *violated*: overlapping approvals | 2 requests, 1 machine, 2 subnets |
| browser_page | one connection, one listener per table, events shown, a page always has or gets a connection | 2 sources, 3 tables, 2 counted retries, 2 changes, 2 events under way |
| browser_reconnect | *violated*: after a refused answer the tables have no listener | 2 sources, 1 table, 1 counted retry, 1 change, 1 event under way, with symmetry |
| users_page | a page shows the window's own change and every user others left alone; exact counts | 1 window and changes elsewhere, 2 users, 2 names (shared or not), 2 machines, 1 key |

Why the bounds are enough: buffers of one are full and not full within two events, so
every branch on a capacity is taken; two requests suffice for each pairwise race, and
each name stands for a series of requests, so the registry changes under both; two
windows and four deeds (open, open, sign in, reload or log out) let each window disturb
the other at every step of its login, and six attempts are more than can be in use at a
time. In a page two sources are the old and the new, three tables the outer, the inner
and one that takes the place of either, and two retries reach the limit and stay there.
In users_page one window is enough, because what other windows do to it is a subset of
what may change elsewhere; two users exchange their names or share one. In live_updates
buffers of one make every kind of loss happen within two changes, two changes take a
machine on and off again, and one window is loaded again and again, while what it
subscribed to before is not yet unregistered and polled on; a second multiplies the
states beyond reach and matters to the first by what it leaves in the broker's queue,
which the reloads leave too. The theorems
cover all sizes.

`CHECK_DEADLOCK FALSE` is set where the process may stop: after Close in
broker_serving and broker_close_connections, after the signal in live_updates and
live_stale, and in login_windows, whose user does only so much.

### When a window catches up

IMPLEMENTATION.md:143-147 promises live updates. WindowsFollow states it for a window
that stays connected, and live_stale refutes it: the window is loaded, its machine comes
up, a poll (for a subscription that is about to end) sees that, and the event is
dispatched before the window's channel is registered. A subscription starts with no table,
and one comparison state serves all windows, so nothing corrects the window until the
next change.

What does hold is PageCatchesUp, and SettledWindows, its part without fairness, for the
windows outside `missed`. A window enters `missed`, with a table that is not Headscale's,
when

* an event is dispatched and the window is not yet registered (`Dispatch`),
* its connection breaks with an event on the way (`DropConnection`),
* its own buffer is full (`Offer`), or the broker's (`Broadcast`),
* an event overtakes a reply, which is older and arrives later (`SwapTable`),
* Headscale returns to what the poller remembers, and what the window has was loaded
  in between (`Change`): the poller sees no difference and announces nothing. An empty
  Headscale is what the poller remembers at first, so this includes the only machine that
  is deleted before the first poll.

Only the newest event counts: each carries the whole table, so a later one makes up for
all before it. A window leaves `missed` when it is loaded again with no old event waiting
in the broker (`LoadPage`). None of it is there for caution: without any one of these six
updates, or without the condition of the seventh, TLC finds SettledWindows violated. The
code prevents none of them either. The full buffers are rare in practice, ten events
would have to wait in a broker that serves within microseconds; the others need only a
change at the wrong moment.

## Fairness

Goroutines that can run do run (weak fairness). A Go `select` with several ready
cases chooses at random and channels serve blocked senders in order, so a case that
is ready again and again is taken (strong fairness of `run`'s receives and of the
handler's context case). No fairness for browsers: they need not connect, leave or
read; a write to a connection that is alive and does not read may last for ever,
one to a broken connection returns (`HandlerRuns`). The broker's liveness properties
end with Close, which need not come. In LiveUpdates calls to Headscale may
fail any number of times but not always (strong fairness of the two calls), and
the window catches up only if it reads. After the signal a call in progress fails
(its context is cancelled), and of two ready cases, tick and cancellation, the
second is taken at last. The signal itself is not fair. In Login server and browser go
on, and a provider that knows the account sends the window back; nothing is assumed of
the user, the clock or restarts. In a page timeouts run, and a server that is asked for
the stream again and again answers with one at last (strong fairness of `Open`): an
assumption about the environment, without which no page could stay connected.

## Proofs

TLAPS checks every theorem for all values of the constants that satisfy the named
assumptions (capacities are positive, model values are new).

* `BrokerProofs`. The inductive invariant is TypeOK, NoPanic, RegistryFollowsHandlers
  and ChannelsInUse. ChannelsInUse is needed because NoPanic alone does not say why a
  channel is open: a registered channel is open, one on its way in is new, what the
  loop has yet to visit is registered. From it: type correctness, panic freedom, the
  registry, the order of events, and step by step that Broker implements EventFeed.
* `ChangeDetectionProofs`. The early-return comparisons are exact. For users this needs
  a counting argument: equal numbers, and every current user known, leave no room
  for one that went. UsersDetected applies it to the poller: both sides of the
  comparison are tables of users (`RememberedUsers`).
* `LiveUpdatesProofs`. RememberedIsAnnounced, with the types of what the poller reads.
  The case that matters is a poll that broadcasts nothing and overwrites its states:
  exactness of detection makes it harmless. BroadcastsAreChanges needs an account
  (`Budget`): while Headscale differs from what is remembered, one change is not yet
  paid for, and two while it also moved on from what was fetched. TypeOK needs that
  every event in the feed is in the log.
* `WindowsProofs`. SettledWindows, for any number of windows and machines, any changes
  and any buffers. Every event carries the whole table, so only the newest matters, and
  two facts about each window outside `missed` are inductive together. If anything is on
  its way to the window, the newest event is, and comes last (`NewestComes`). If nothing
  is and the poller has nothing to announce, no table of the window, shown or on its way
  as a reply, differs from Headscale's (`UpToDate`). The newest event brings what the
  poller remembers, by RememberedIsAnnounced, which leads from the one to the other.
* `LoginProofs`. The login cookies are twins, set, sent, cleared and dropped together;
  they are those of their owner's attempt, and no other window has that attempt, because
  a state in use is not drawn again. So the state check is exact for the cookies of the
  moment a request is sent, and what the jar does later does not matter to it. RedirectsEnd
  is the variant that NoRedirectLoop descends on: `Distance` counts the steps to rest. An
  account is exchanged only where there is an authenticator and a browser that keeps
  Secure cookies (`Sealed`), so the session that comes of it is admitted at the next page.
  It needs a session that lives longer than no time at all: SessionDuration is positive
  (24 hours in the code).
* `MachineActionsProofs`. Consent: a list in flight names only routes that were offered
  when it was computed, and offers are remembered (`Pending`). Atomicity: as long as
  no other request sets its machine's routes (the handler is not in `met`), a list in
  flight is still what the operation makes of the machine as it is now (`UpToDate`),
  although deletions, renames and withdrawn routes come in between; so the call is the
  step of NodeStore. Badges and retries: handlers and badges agree for every machine, and
  every route operation is idempotent.
* `SseExtensionProofs`. The body's source is the only one there is, and a timeout is set
  exactly when it is closed (`SingleSource`); a table of the page is pending or stranded
  and unheard, or has one listener (`Listening`). From the two: one connection, one
  listener, every event shown, and a page that is never left without an attempt to come.
* `UsersProofs`. The list that a handler holds is right for the users that nobody else
  changed since (`Listing`); where a name has one meaning, grouping by name is grouping
  by user.

Only model-checked: the liveness properties (broker, windows, poller, redirects,
reconnection): fairness, ENABLED and the induction over a variant are out of the
prover's reach. Of three of them the part that needs no fairness is proved: SettledWindows
of PageCatchesUp, RedirectsEnd of NoRedirectLoop, NeverAbandoned of Reconnects. Every
invariant and every action property of the passing runs is also a theorem.

## Findings

* Close does not close connections (`broker_close_connections`): handlers spin on zero
  events of their closed channels, or block in Unsubscribe. It is harmless today
  only because main returns right after its deferred Close.
* Approving or rejecting an exit node is not announced (`live_exit`): the poller compares
  with a word that the status never is.
* The users table is never broadcast (`live_users`): its template does not exist.
* After an answer that is no stream, the page reconnects with a source that no table
  listens to (`browser_reconnect`): the page looks connected and is never updated again.
* A window can stay stale for as long as nothing else changes (`live_stale`, and "When a
  window catches up").
* Overlapping approvals of one machine's routes lose one (`actions_overlap`).

Seen while modelling, where no document clearly says otherwise:

* A created user does not appear: the dialog has `hx-swap="none"`, so the list that the
  redirect leads to is thrown away (`web/templates/users_list.html:203`), and users are
  never broadcast. Alerts answer 200, so a dialog closes upon an error too.
* The page of one machine has no `sse-swap`, so its events change nothing there.
* The retry delay is `2 ^ retryCount` (`htmx-sse-1.9.10.js:241`), in JavaScript an
  exclusive or: 2, 3, 0, 1, 6, 7, 4, 5 and not powers of two; the third attempt is made
  at once.
* An event replaces a filtered table by the whole one, and a reply that was rendered before
  an event and arrives after it shows the older table until the next change.
* A second login window, and the event stream of a page whose session ended, overwrite
  the login cookies; the login they disturb is refused as a possible attack
  (`internal/auth/handlers.go:83`), and the user has to start again.
* Logging out leads to the login page, which leads on to the provider at once; a
  provider that remembers the account signs the user in again.
* When the provider is away at the start, `/auth/login` panics until the next restart
  (`main.go:124` passes on a nil authenticator); pages answer 403.
* The tailnet listener is opened on port 80 before the configuration is looked at
  (`main.go:94`); the configured port is only logged.
* Machines are counted by the name of their user (`internal/handlers/users.go:313`), so
  users who share a name each show the machines of both.
* A provider's error comes without a code, so HandleCallback reports a missing code and
  never reaches its check for errors.

## Not modelled

* Configuration and start-up: the file is read once, before anything runs; defaults and
  validation are a pure function of it, and the calls of `main` run in sequence, each
  failure ending the process. What the rest depends on, an authenticator or none, is an
  initial choice in Login; contexts and the deferred Close are in Broker and LiveUpdates.
* The search filters, the merge of machines with their Tailscale peers, and the sorted
  latencies: they choose what a table shows and change no state.
* The legacy attributes of the SSE extension (`hx-sse`), which no page has, and its
  listeners for `hx-trigger`, which it makes and never adds to a source.
* `tailwind-3.4.17.js`, third-party and minified: it turns class names into styles and
  keeps no state that a page's data depends on. Of the core of htmx, minified too, there
  is what the pages rely on: swapping, nesting and restoring elements.
* HTML, CSS, formatting and alerts, which have no state; TLS, gRPC and the Tailscale
  node, which are libraries; the tests and build files.
