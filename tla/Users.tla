-------------------------------- MODULE Users -------------------------------
(***************************************************************************)
(* The users page and the handlers behind it (internal/handlers/users.go). *)
(*                                                                         *)
(* A list of users comes from two calls: ListUsers, and then FetchMachines *)
(* of the machines page, whose ListNodes gives each machine with the name  *)
(* that its user has by then.  The machines are grouped by that name and   *)
(* looked up under the name that ListUsers gave.                           *)
(*                                                                         *)
(* A request that changes a user makes one call and redirects to the list, *)
(* which htmx requests at once; a Delete that fails fetches the list       *)
(* itself.  A failing call may have been carried out.  The alerts, the     *)
(* last-seen times and the text of the keys are left out.                  *)
(***************************************************************************)
EXTENDS Naturals, FiniteSets

CONSTANTS
    Window,         \* browser windows
    UserId,         \* ids of users, which Headscale does not use again
    Name,           \* names of users; two users may have one
    NodeId,         \* ids of machines
    Hours,          \* expirations that are asked for
    Unused,         \* no user had the id yet
    Gone,           \* the user was deleted
    Absent,         \* no machine has the id
    Unreadable,     \* an expiration that is empty, or no number
    NoRequest,      \* no request
    MaxKeys         \* bound: pre-auth keys given out

VARIABLES
    users,          \* users[u]: the name of user u, Unused or Gone
    machines,       \* machines[i]: machine i of Headscale, or Absent
    keys,           \* the pre-auth keys that Headscale has given out
    request,        \* request[w]: the request of window w
    pc,             \* pc[w]: the call that the handler of w is about to make
    listed,         \* listed[w]: the handler's answer of ListUsers
    page,           \* page[w]: the rows that the window shows
    touched         \* history: the users that others changed since w's request or list

storeVars == <<users, machines, keys>>
vars == <<storeVars, request, pc, listed, page, touched>>

Exists(u) == users[u] \in Name

Machine == [user : UserId, online : BOOLEAN]
Key == [user : UserId, hours : Hours \cup {1}]
Row == [name : Name, MachineCount : 0..Cardinality(NodeId), HasConnectedMachine : BOOLEAN]

(* What the page's dialogs send, and the link to the page.                 *)
Request ==
    [op : {"list"}] \cup [op : {"create"}, name : Name]
      \cup [op : {"rename"}, user : UserId, name : Name] \cup [op : {"delete"}, user : UserId]
      \cup [op : {"preauth-keys"}, user : UserId, hours : Hours \cup {Unreadable}]

(* The functions from some of the ids to S.                                *)
Partial(S) == UNION {[us -> S] : us \in SUBSET UserId}
Nothing == [u \in {} |-> Unused]

ASSUME UsersAssumption ==
    /\ {Unused, Gone} \cap Name = {}
    /\ Absent \notin Machine
    /\ NoRequest \notin Request
    /\ Hours \subseteq Nat
    /\ MaxKeys \in Nat
    /\ IsFiniteSet(NodeId)

TypeOK ==
    /\ users \in [UserId -> Name \cup {Unused, Gone}]
    /\ machines \in [NodeId -> Machine \cup {Absent}]
    /\ \A i \in NodeId : machines[i] # Absent => Exists(machines[i].user)
    /\ keys \subseteq Key
    /\ request \in [Window -> Request \cup {NoRequest}]
    /\ pc \in [Window -> {"idle", "call", "ListUsers", "FetchMachines"}]
    /\ \A w \in Window : pc[w] = "call" => request[w] \in Request
    /\ listed \in [Window -> Partial(Name)]
    /\ page \in [Window -> Partial(Row)]
    /\ touched \in [Window -> SUBSET UserId]

Init ==
    /\ users \in [UserId -> Name \cup {Unused}]
    /\ machines = [i \in NodeId |-> Absent]
    /\ keys = {}
    /\ request = [w \in Window |-> NoRequest]
    /\ pc = [w \in Window |-> "idle"]
    /\ listed = [w \in Window |-> Nothing]
    /\ page = [w \in Window |-> Nothing]
    /\ touched = [w \in Window |-> {}]

-----------------------------------------------------------------------------
(* Headscale's calls.                                                      *)

NewUser(name) ==
    \E u \in UserId : users[u] = Unused /\ users' = [users EXCEPT ![u] = name]

Rename(u, name) == Exists(u) /\ users' = [users EXCEPT ![u] = name]

(* Headscale refuses to delete a user who has machines.                    *)
Remove(u) ==
    /\ Exists(u)
    /\ \A i \in NodeId : machines[i] # Absent => machines[i].user # u
    /\ users' = [users EXCEPT ![u] = Gone]

(* Other windows than w learn nothing of w's change.                       *)
Touch(w) ==
    touched' = [x \in Window |-> IF x = w THEN touched[x]
                                 ELSE touched[x] \cup {u \in UserId : users'[u] # users[u]}]

-----------------------------------------------------------------------------
(* The user presses a button of a row, which a later page may not have any *)
(* more, or of the page.                                                   *)
Receive(w, q) ==
    /\ pc[w] = "idle"
    /\ q.op \in {"rename", "delete", "preauth-keys"} => q.user \in DOMAIN page[w]
    /\ request' = [request EXCEPT ![w] = q]
    /\ pc' = [pc EXCEPT ![w] = IF q.op = "list" THEN "ListUsers" ELSE "call"]
    /\ touched' = [touched EXCEPT ![w] = {}]
    /\ UNCHANGED <<storeVars, listed, page>>

(* The window waits for nothing any more, and shows "rows".                *)
Reply(w, rows) ==
    /\ pc' = [pc EXCEPT ![w] = "idle"]
    /\ request' = [request EXCEPT ![w] = NoRequest]
    /\ listed' = [listed EXCEPT ![w] = Nothing]
    /\ page' = [page EXCEPT ![w] = rows]

(* The browser requests the list.                                          *)
Redirect(w) ==
    /\ pc' = [pc EXCEPT ![w] = "ListUsers"]
    /\ UNCHANGED <<request, listed, page>>

(* An alert is shown above the page that was.                              *)
Alert(w) == Reply(w, page[w])

(* The handlers for a change: Headscale carries it out, or the call fails, *)
(* with the effect or without.                                             *)
Change(w, op, effect, failure) ==
    /\ pc[w] = "call"
    /\ request[w].op = op
    /\ \/ effect /\ Redirect(w)
       \/ (effect \/ UNCHANGED users) /\ failure
    /\ Touch(w)
    /\ UNCHANGED <<machines, keys>>

CreateUser(w) == Change(w, "create", NewUser(request[w].name), Alert(w))

RenameUser(w) == Change(w, "rename", Rename(request[w].user, request[w].name), Alert(w))

(* Mutant of DeleteUser: the list for the page with the error is fetched   *)
(* before the call.                                                        *)
DeleteUserListsFirst(w) ==
    Change(w, "delete", Remove(request[w].user),
           /\ pc' = [pc EXCEPT ![w] = "FetchMachines"]
           /\ listed' = [listed EXCEPT ![w] = [u \in {u \in UserId : Exists(u)} |-> users[u]]]
           /\ UNCHANGED <<request, page>>)

(* If it fails, the handler itself goes on to the list.                    *)
DeleteUser(w) == Change(w, "delete", Remove(request[w].user), Redirect(w))

(* Mutant of Expiration: without the default.                              *)
ExpirationAsked(asked) == asked

(* One hour, unless the form has a number.                                 *)
Expiration(asked) == IF asked = Unreadable THEN 1 ELSE asked

(* The key, or an alert, is shown in the dialog.                           *)
CreatePreAuthKey(w) ==
    /\ pc[w] = "call"
    /\ request[w].op = "preauth-keys"
    /\ \/ /\ Exists(request[w].user)
          /\ Cardinality(keys) < MaxKeys
          /\ keys' = keys \cup {[user |-> request[w].user, hours |-> Expiration(request[w].hours)]}
       \/ UNCHANGED keys
    /\ Reply(w, page[w])
    /\ UNCHANGED <<users, machines, touched>>

-----------------------------------------------------------------------------
(* The list.                                                               *)

ListUsers(w) ==
    /\ pc[w] = "ListUsers"
    /\ listed' = [listed EXCEPT ![w] = [u \in {u \in UserId : Exists(u)} |-> users[u]]]
    /\ pc' = [pc EXCEPT ![w] = "FetchMachines"]
    /\ touched' = [touched EXCEPT ![w] = {}]
    /\ UNCHANGED <<storeVars, request, page>>

(* Mutant of MachinesOf: a machine takes the place of another of the group.*)
MachinesOfLast(name) ==
    LET group == {i \in NodeId : machines[i] # Absent /\ users[machines[i].user] = name}
    IN IF group = {} THEN {} ELSE {CHOOSE i \in group : TRUE}

MachinesOf(name) == {i \in NodeId : machines[i] # Absent /\ users[machines[i].user] = name}

RowOf(name, group) ==
    [name |-> name,
     MachineCount |-> Cardinality(group),
     HasConnectedMachine |-> \E i \in group : machines[i].online]

(* The page takes the place of the window's, but a new user's does not:    *)
(* that dialog has hx-swap="none".                                         *)
FetchMachines(w) ==
    /\ pc[w] = "FetchMachines"
    /\ Reply(w, IF request[w].op = "create" THEN page[w]
                ELSE [u \in DOMAIN listed[w] |-> RowOf(listed[w][u], MachinesOf(listed[w][u]))])
    /\ UNCHANGED <<storeVars, touched>>

(* A call fails, or the browser goes away meanwhile: htmx leaves the page, *)
(* and a browser that follows a link shows an error.                       *)
FetchFails(w) ==
    /\ pc[w] \in {"ListUsers", "FetchMachines"}
    /\ Reply(w, IF request[w].op = "list" THEN Nothing ELSE page[w])
    /\ UNCHANGED <<storeVars, touched>>

-----------------------------------------------------------------------------
(* Users change elsewhere: by a login with OIDC, the command line, a call  *)
(* that a window did not wait for.                                         *)
UsersChange ==
    /\ \/ \E name \in Name : NewUser(name) \/ \E u \in UserId : Rename(u, name)
       \/ \E u \in UserId : Remove(u)
    /\ touched' = [w \in Window |-> touched[w] \cup {u \in UserId : users'[u] # users[u]}]
    /\ UNCHANGED <<machines, keys, request, pc, listed, page>>

(* Machines come and go, connect and disconnect, and are moved.            *)
MachinesChange ==
    /\ \E i \in NodeId :
          \/ machines' = [machines EXCEPT ![i] = Absent]
          \/ \E m \in Machine : Exists(m.user) /\ machines' = [machines EXCEPT ![i] = m]
    /\ UNCHANGED <<users, keys, request, pc, listed, page, touched>>

Handle(w) ==
    \/ CreateUser(w) \/ RenameUser(w) \/ DeleteUser(w) \/ CreatePreAuthKey(w)
    \/ ListUsers(w) \/ FetchMachines(w) \/ FetchFails(w)

Next ==
    \/ \E w \in Window : Handle(w) \/ \E q \in Request : Receive(w, q)
    \/ UsersChange
    \/ MachinesChange

Spec == Init /\ [][Next]_vars

-----------------------------------------------------------------------------
(* Properties.                                                             *)

Shows(w) == FetchMachines(w) /\ request[w].op # "create"

(* A new page lists the users that there are under their names, but for    *)
(* those that others changed while it was fetched.  It shows the window's  *)
(* own change, carried out or not, whatever the reply to it was.           *)
UsersCurrent ==
    [][\A w \in Window : Shows(w) =>
          \A u \in UserId \ touched[w] :
              /\ u \in DOMAIN page'[w] <=> Exists(u)
              /\ Exists(u) => page'[w][u].name = users[u]]_vars

(* Though the list comes from two calls and goes by names, it gives each   *)
(* user, but for those that others changed meanwhile and those who share   *)
(* their name, the number of their machines and whether one is connected.  *)
CountsExact ==
    [][\A w \in Window : Shows(w) =>
          \A u \in DOMAIN page'[w] \ touched[w] :
              (\A v \in UserId \ {u} : users[v] # users[u]) =>
                  page'[w][u] = RowOf(users[u],
                      {i \in NodeId : machines[i] # Absent /\ machines[i].user = u})]_vars
=============================================================================
