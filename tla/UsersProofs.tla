----------------------------- MODULE UsersProofs ----------------------------
(***************************************************************************)
(* The users page tells the truth, for any number of windows, users and    *)
(* machines.  What makes the properties inductive is Listing: the answer   *)
(* of ListUsers that a handler holds is still right for the users that     *)
(* nobody else changed since.                                              *)
(***************************************************************************)
EXTENDS Users, FiniteSetTheorems, TLAPS

Listing ==
    \A w \in Window : pc[w] = "FetchMachines" =>
        \A u \in UserId \ touched[w] :
            /\ u \in DOMAIN listed[w] <=> Exists(u)
            /\ Exists(u) => listed[w][u] = users[u]

IInv == TypeOK /\ Listing

USE UsersAssumption DEF UsersAssumption

-----------------------------------------------------------------------------
(* Facts about the data.                                                   *)

LEMMA IsPartial ==
    ASSUME NEW S, NEW us \in SUBSET UserId, NEW f \in [us -> S]
    PROVE  f \in Partial(S)
  BY DEF Partial

LEMMA PartialFacts ==
    ASSUME NEW S, NEW f \in Partial(S)
    PROVE  DOMAIN f \subseteq UserId /\ \A u \in DOMAIN f : f[u] \in S
<1>1. PICK us \in SUBSET UserId : f \in [us -> S]
  BY DEF Partial
<1> QED
  BY <1>1

LEMMA NothingIsPartial == ASSUME NEW S PROVE Nothing \in Partial(S)
<1>1. {} \in SUBSET UserId /\ Nothing \in [{} -> S]
  BY DEF Nothing
<1> QED
  BY <1>1, IsPartial

LEMMA RequestFacts ==
    ASSUME NEW q \in Request
    PROVE  /\ q.op \in {"rename", "delete", "preauth-keys"} => q.user \in UserId
           /\ q.op \in {"rename", "create"} => q.name \in Name
           /\ q.op = "preauth-keys" => q.hours \in Hours \cup {Unreadable}
<1>1. CASE q \in [op : {"list"}]
  BY <1>1
<1>2. CASE q \in [op : {"create"}, name : Name]
  BY <1>2
<1>3. CASE q \in [op : {"rename"}, user : UserId, name : Name]
  BY <1>3
<1>4. CASE q \in [op : {"delete"}, user : UserId]
  BY <1>4
<1>5. CASE q \in [op : {"preauth-keys"}, user : UserId, hours : Hours \cup {Unreadable}]
  BY <1>5
<1> QED
  BY <1>1, <1>2, <1>3, <1>4, <1>5 DEF Request

LEMMA RowType ==
    ASSUME NEW name \in Name, NEW group \in SUBSET NodeId
    PROVE  RowOf(name, group) \in Row
<1>1. /\ Cardinality(group) \in Nat /\ Cardinality(NodeId) \in Nat
      /\ Cardinality(group) <= Cardinality(NodeId)
  BY FS_Subset, FS_CardinalityType
<1>2. Cardinality(group) \in 0..Cardinality(NodeId)
  BY <1>1
<1> QED
  BY <1>2 DEF RowOf, Row

-----------------------------------------------------------------------------
(* The changes of users.                                                   *)
UsersType ==
    /\ users \in [UserId -> Name \cup {Unused, Gone}]
    /\ \A i \in NodeId : machines[i] # Absent => Exists(machines[i].user)

(* Whoever makes it, a call keeps the types, and every machine has a user. *)
LEMMA CallTypes ==
    ASSUME TypeOK, UNCHANGED machines,
           \/ \E name \in Name : NewUser(name)
           \/ \E u \in UserId, name \in Name : Rename(u, name)
           \/ \E u \in UserId : Remove(u)
           \/ UNCHANGED users
    PROVE  UsersType'
<1>1. CASE \E name \in Name : NewUser(name)
  <2>1. PICK name \in Name, u \in UserId : users[u] = Unused /\ users' = [users EXCEPT ![u] = name]
    BY <1>1 DEF NewUser
  <2> QED
    BY <2>1 DEF TypeOK, UsersType, Exists
<1>2. CASE \E u \in UserId, name \in Name : Rename(u, name)
  <2>1. PICK u \in UserId, name \in Name : users' = [users EXCEPT ![u] = name]
    BY <1>2 DEF Rename
  <2> QED
    BY <2>1 DEF TypeOK, UsersType, Exists
<1>3. CASE \E u \in UserId : Remove(u)
  <2>1. PICK u \in UserId :
            /\ \A i \in NodeId : machines[i] # Absent => machines[i].user # u
            /\ users' = [users EXCEPT ![u] = Gone]
    BY <1>3 DEF Remove
  <2> QED
    BY <2>1 DEF TypeOK, UsersType, Exists
<1>4. CASE UNCHANGED users
  BY <1>4 DEF TypeOK, UsersType, Exists
<1> QED
  BY <1>1, <1>2, <1>3, <1>4

(* A reply keeps the types of what handlers and windows hold.              *)
HandlersType ==
    /\ request \in [Window -> Request \cup {NoRequest}]
    /\ pc \in [Window -> {"idle", "call", "ListUsers", "FetchMachines"}]
    /\ \A w \in Window : pc[w] = "call" => request[w] \in Request
    /\ listed \in [Window -> Partial(Name)]
    /\ page \in [Window -> Partial(Row)]

LEMMA ReplyTypes ==
    ASSUME TypeOK, NEW w \in Window, NEW rows \in Partial(Row), Reply(w, rows)
    PROVE  HandlersType'
  BY NothingIsPartial DEF TypeOK, HandlersType, Reply

LEMMA AlertTypes ==
    ASSUME TypeOK, NEW w \in Window, Alert(w)
    PROVE  HandlersType'
<1>1. page[w] \in Partial(Row)
  BY DEF TypeOK
<1> QED
  BY <1>1, ReplyTypes DEF Alert

LEMMA RedirectTypes ==
    ASSUME TypeOK, NEW w \in Window, Redirect(w)
    PROVE  HandlersType'
  BY DEF TypeOK, HandlersType, Redirect

LEMMA TouchTypes ==
    ASSUME TypeOK, NEW w \in Window, Touch(w)
    PROVE  touched' \in [Window -> SUBSET UserId]
  BY DEF TypeOK, Touch

LEMMA JoinTypes ==
    ASSUME UsersType', HandlersType',
           machines' \in [NodeId -> Machine \cup {Absent}],
           keys' \subseteq Key,
           touched' \in [Window -> SUBSET UserId]
    PROVE  TypeOK'
  BY DEF TypeOK, UsersType, HandlersType

-----------------------------------------------------------------------------
(* Types.                                                                  *)
LEMMA TypeInit == Init => TypeOK
  BY NothingIsPartial DEF Init, TypeOK

(* The three requests that change a user.                                  *)
LEMMA ChangeTypes ==
    ASSUME TypeOK, NEW w \in Window,
           CreateUser(w) \/ RenameUser(w) \/ DeleteUser(w)
    PROVE  TypeOK'
<1>1. CASE CreateUser(w)
  <2>1. request[w].name \in Name
    BY <1>1, RequestFacts DEF CreateUser, Change, TypeOK
  <2>2. /\ NewUser(request[w].name) \/ UNCHANGED users
        /\ Redirect(w) \/ Alert(w)
        /\ Touch(w)
        /\ UNCHANGED <<machines, keys>>
    BY <1>1 DEF CreateUser, Change
  <2> QED
    BY <2>1, <2>2, CallTypes, RedirectTypes, AlertTypes, TouchTypes, JoinTypes DEF TypeOK
<1>2. CASE RenameUser(w)
  <2>1. request[w].user \in UserId /\ request[w].name \in Name
    BY <1>2, RequestFacts DEF RenameUser, Change, TypeOK
  <2>2. /\ Rename(request[w].user, request[w].name) \/ UNCHANGED users
        /\ Redirect(w) \/ Alert(w)
        /\ Touch(w)
        /\ UNCHANGED <<machines, keys>>
    BY <1>2 DEF RenameUser, Change
  <2> QED
    BY <2>1, <2>2, CallTypes, RedirectTypes, AlertTypes, TouchTypes, JoinTypes DEF TypeOK
<1>3. CASE DeleteUser(w)
  <2>1. request[w].user \in UserId
    BY <1>3, RequestFacts DEF DeleteUser, Change, TypeOK
  <2>2. /\ Remove(request[w].user) \/ UNCHANGED users
        /\ Redirect(w)
        /\ Touch(w)
        /\ UNCHANGED <<machines, keys>>
    BY <1>3 DEF DeleteUser, Change
  <2> QED
    BY <2>1, <2>2, CallTypes, RedirectTypes, TouchTypes, JoinTypes DEF TypeOK
<1> QED
  BY <1>1, <1>2, <1>3

LEMMA TypeStep == TypeOK /\ [Next]_vars => TypeOK'
<1> SUFFICES ASSUME TypeOK, [Next]_vars PROVE TypeOK'
  OBVIOUS
<1>1. CASE UNCHANGED vars
  BY <1>1 DEF TypeOK, Exists, vars, storeVars
<1>2. ASSUME NEW w \in Window, NEW q \in Request, Receive(w, q)
      PROVE  TypeOK'
  BY <1>2 DEF TypeOK, Receive, Exists, storeVars
<1>3. ASSUME NEW w \in Window, CreateUser(w) \/ RenameUser(w) \/ DeleteUser(w)
      PROVE  TypeOK'
  BY <1>3, ChangeTypes
<1>4. ASSUME NEW w \in Window, CreatePreAuthKey(w)
      PROVE  TypeOK'
  <2>1. request[w].user \in UserId /\ request[w].hours \in Hours \cup {Unreadable}
    BY <1>4, RequestFacts DEF CreatePreAuthKey, TypeOK
  <2>2. [user |-> request[w].user, hours |-> Expiration(request[w].hours)] \in Key
    BY <2>1 DEF Expiration, Key
  <2>3. keys' \subseteq Key
    BY <1>4, <2>2 DEF CreatePreAuthKey, TypeOK
  <2>4. HandlersType'
    BY <1>4, AlertTypes DEF CreatePreAuthKey, Alert
  <2> QED
    BY <1>4, <2>3, <2>4, JoinTypes DEF CreatePreAuthKey, TypeOK, UsersType, Exists
<1>5. ASSUME NEW w \in Window, ListUsers(w)
      PROVE  TypeOK'
  <2> DEFINE current == [u \in {u \in UserId : Exists(u)} |-> users[u]]
  <2>1. {u \in UserId : Exists(u)} \in SUBSET UserId
    OBVIOUS
  <2>2. current \in [{u \in UserId : Exists(u)} -> Name]
    BY DEF Exists
  <2>3. current \in Partial(Name)
    BY <2>1, <2>2, IsPartial
  <2> QED
    BY <1>5, <2>3 DEF ListUsers, TypeOK, Exists, storeVars
<1>6. ASSUME NEW w \in Window, FetchMachines(w)
      PROVE  TypeOK'
  <2> DEFINE rows == [u \in DOMAIN listed[w] |-> RowOf(listed[w][u], MachinesOf(listed[w][u]))]
  <2>1. /\ DOMAIN listed[w] \in SUBSET UserId
        /\ \A u \in DOMAIN listed[w] : listed[w][u] \in Name
    BY PartialFacts DEF TypeOK
  <2>2. \A u \in DOMAIN listed[w] : RowOf(listed[w][u], MachinesOf(listed[w][u])) \in Row
    BY <2>1, RowType DEF MachinesOf
  <2>3. rows \in [DOMAIN listed[w] -> Row]
    BY <2>2
  <2>4. rows \in Partial(Row) /\ page[w] \in Partial(Row)
    BY <2>1, <2>3, IsPartial DEF TypeOK
  <2>5. HandlersType'
    BY <1>6, <2>4, ReplyTypes DEF FetchMachines
  <2> QED
    BY <1>6, <2>5, JoinTypes DEF FetchMachines, TypeOK, UsersType, Exists, storeVars
<1>7. ASSUME NEW w \in Window, FetchFails(w)
      PROVE  TypeOK'
  <2>1. Nothing \in Partial(Row) /\ page[w] \in Partial(Row)
    BY NothingIsPartial DEF TypeOK
  <2>2. HandlersType'
    BY <1>7, <2>1, ReplyTypes DEF FetchFails
  <2> QED
    BY <1>7, <2>2, JoinTypes DEF FetchFails, TypeOK, UsersType, Exists, storeVars
<1>8. CASE UsersChange
  <2>1. UsersType'
    BY <1>8, CallTypes DEF UsersChange
  <2> QED
    BY <1>8, <2>1, JoinTypes DEF UsersChange, TypeOK, HandlersType
<1>9. CASE MachinesChange
  BY <1>9 DEF MachinesChange, TypeOK, Exists, Machine
<1> QED
  BY <1>1, <1>2, <1>3, <1>4, <1>5, <1>6, <1>7, <1>8, <1>9 DEF Next, Handle

(* The types are kept, as are the users of machines and the default of the *)
(* expiration.                                                             *)
THEOREM TypeCorrect == Spec => []TypeOK
  BY TypeInit, TypeStep, PTL DEF Spec

-----------------------------------------------------------------------------
(* What a handler listed.                                                  *)

(* One user of the list of window x.                                       *)
ListedRight(x, u) ==
    /\ u \in DOMAIN listed[x] <=> Exists(u)
    /\ Exists(u) => listed[x][u] = users[u]

(* A change of others is in touched, or it does not concern the list.      *)
LEMMA OthersKeepListing ==
    ASSUME Listing, TypeOK, NEW x \in Window, NEW u \in UserId,
           pc[x] = "FetchMachines", UNCHANGED listed,
           touched'[x] = touched[x] \cup {v \in UserId : users'[v] # users[v]},
           u \notin touched'[x]
    PROVE  ListedRight(x, u)'
  BY DEF Listing, ListedRight, Exists

LEMMA ListingStep == TypeOK /\ Listing /\ [Next]_vars => Listing'
<1> SUFFICES ASSUME TypeOK, Listing, [Next]_vars,
                    NEW x \in Window, pc'[x] = "FetchMachines",
                    NEW u \in UserId, u \notin touched'[x]
             PROVE  ListedRight(x, u)'
  BY DEF Listing, ListedRight
<1>1. CASE UNCHANGED vars
  BY <1>1 DEF Listing, ListedRight, Exists, vars, storeVars
<1>2. ASSUME NEW w \in Window, NEW q \in Request, Receive(w, q)
      PROVE  ListedRight(x, u)'
  BY <1>2 DEF Listing, ListedRight, TypeOK, Receive, Exists, storeVars
<1>3. ASSUME NEW w \in Window, CreateUser(w) \/ RenameUser(w) \/ DeleteUser(w)
      PROVE  ListedRight(x, u)'
  <2>1. /\ Touch(w)
        /\ Redirect(w) \/ Reply(w, page[w])
    BY <1>3 DEF CreateUser, RenameUser, DeleteUser, Change, Alert
  <2>2. x # w /\ pc[x] = "FetchMachines" /\ listed'[x] = listed[x]
    BY <2>1 DEF Redirect, Reply, TypeOK
  <2>3. touched'[x] = touched[x] \cup {v \in UserId : users'[v] # users[v]}
    BY <2>1, <2>2 DEF Touch
  <2> QED
    BY <2>2, <2>3 DEF Listing, ListedRight, Exists
<1>4. ASSUME NEW w \in Window, CreatePreAuthKey(w) \/ FetchMachines(w) \/ FetchFails(w)
      PROVE  ListedRight(x, u)'
  <2>1. /\ UNCHANGED <<users, touched>>
        /\ \E rows : Reply(w, rows)
    BY <1>4 DEF CreatePreAuthKey, FetchMachines, FetchFails, storeVars
  <2>2. x # w /\ pc[x] = "FetchMachines" /\ listed'[x] = listed[x]
    BY <2>1 DEF Reply, TypeOK
  <2> QED
    BY <2>1, <2>2 DEF Listing, ListedRight, Exists
<1>5. ASSUME NEW w \in Window, ListUsers(w)
      PROVE  ListedRight(x, u)'
  <2>1. CASE x = w
    BY <1>5, <2>1 DEF ListUsers, ListedRight, Exists, TypeOK, storeVars
  <2>2. CASE x # w
    BY <1>5, <2>2 DEF ListUsers, Listing, ListedRight, Exists, TypeOK, storeVars
  <2> QED
    BY <2>1, <2>2
<1>6. CASE UsersChange
  BY <1>6, OthersKeepListing DEF UsersChange
<1>7. CASE MachinesChange
  BY <1>7 DEF MachinesChange, Listing, ListedRight, Exists
<1> QED
  BY <1>1, <1>2, <1>3, <1>4, <1>5, <1>6, <1>7 DEF Next, Handle

LEMMA Inductive == Spec => []IInv
<1>1. Init => Listing
  BY DEF Init, Listing
<1>2. IInv /\ [Next]_vars => IInv'
  BY TypeStep, ListingStep DEF IInv
<1> QED
  BY <1>1, <1>2, TypeInit, PTL DEF Spec, IInv

-----------------------------------------------------------------------------
(* What a window is shown.                                                 *)
LEMMA ShownRows ==
    ASSUME TypeOK, NEW w \in Window, Shows(w)
    PROVE  /\ pc[w] = "FetchMachines"
           /\ page'[w] = [u \in DOMAIN listed[w] |->
                             RowOf(listed[w][u], MachinesOf(listed[w][u]))]
  BY DEF Shows, FetchMachines, Reply, TypeOK

(* A page agrees with Headscale on every user that nobody else changed     *)
(* since the handler listed the users, the window's own change included.   *)
THEOREM CurrentUsers == Spec => UsersCurrent
<1> DEFINE Current ==
        \A w \in Window : Shows(w) =>
          \A u \in UserId \ touched[w] :
              /\ u \in DOMAIN page'[w] <=> Exists(u)
              /\ Exists(u) => page'[w][u].name = users[u]
<1>1. IInv => Current
  <2> SUFFICES ASSUME IInv, NEW w \in Window, Shows(w), NEW u \in UserId \ touched[w]
               PROVE  /\ u \in DOMAIN page'[w] <=> Exists(u)
                      /\ Exists(u) => page'[w][u].name = users[u]
    OBVIOUS
  <2>0. /\ TypeOK /\ Listing
        /\ pc[w] = "FetchMachines"
        /\ page'[w] = [v \in DOMAIN listed[w] |->
                            RowOf(listed[w][v], MachinesOf(listed[w][v]))]
    BY ShownRows DEF IInv
  <2>1. /\ u \in DOMAIN listed[w] <=> Exists(u)
        /\ Exists(u) => listed[w][u] = users[u]
    BY <2>0 DEF Listing
  <2>2. DOMAIN page'[w] = DOMAIN listed[w]
    BY <2>0
  <2>3. u \in DOMAIN listed[w] => page'[w][u].name = listed[w][u]
    BY <2>0 DEF RowOf
  <2> QED
    BY <2>1, <2>2, <2>3
<1> QED
  BY <1>1, Inductive, PTL DEF UsersCurrent

(* The join by name is exact where the name has one meaning.               *)
LEMMA GroupIsUsers ==
    ASSUME TypeOK, NEW u \in UserId, \A v \in UserId \ {u} : users[v] # users[u]
    PROVE  MachinesOf(users[u]) = {i \in NodeId : machines[i] # Absent /\ machines[i].user = u}
<1>1. \A i \in NodeId : machines[i] # Absent => machines[i].user \in UserId
  BY DEF TypeOK, Machine
<1> QED
  BY <1>1 DEF MachinesOf

(* Each row counts the machines of its user, unless others changed the     *)
(* user since the list or another user has the name.                       *)
THEOREM ExactCounts == Spec => CountsExact
<1> DEFINE Exact ==
        \A w \in Window : Shows(w) =>
          \A u \in DOMAIN page'[w] \ touched[w] :
              (\A v \in UserId \ {u} : users[v] # users[u]) =>
                  page'[w][u] = RowOf(users[u],
                      {i \in NodeId : machines[i] # Absent /\ machines[i].user = u})
<1>1. IInv => Exact
  <2> SUFFICES ASSUME IInv, NEW w \in Window, Shows(w),
                      NEW u \in DOMAIN page'[w] \ touched[w],
                      \A v \in UserId \ {u} : users[v] # users[u]
               PROVE  page'[w][u] = RowOf(users[u],
                          {i \in NodeId : machines[i] # Absent /\ machines[i].user = u})
    OBVIOUS
  <2>0. /\ TypeOK /\ Listing
        /\ pc[w] = "FetchMachines"
        /\ page'[w] = [v \in DOMAIN listed[w] |->
                            RowOf(listed[w][v], MachinesOf(listed[w][v]))]
    BY ShownRows DEF IInv
  <2>1. u \in UserId /\ u \in DOMAIN listed[w]
    BY <2>0, PartialFacts DEF TypeOK
  <2>2. listed[w][u] = users[u]
    BY <2>0, <2>1 DEF Listing
  <2>3. page'[w][u] = RowOf(users[u], MachinesOf(users[u]))
    BY <2>0, <2>1, <2>2
  <2> QED
    BY <2>1, <2>3, GroupIsUsers DEF IInv
<1> QED
  BY <1>1, Inductive, PTL DEF CountsExact
=============================================================================
