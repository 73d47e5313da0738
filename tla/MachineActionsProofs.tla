------------------------ MODULE MachineActionsProofs ------------------------
(***************************************************************************)
(* What the machine handlers guarantee for every number of requests,       *)
(* machines and routes.                                                    *)
(*                                                                         *)
(* However requests overlap, only routes that a machine offered are        *)
(* approved: a list on its way to SetApprovedRoutes may be out of date,    *)
(* but what it names was offered when GetNode answered, and offers are     *)
(* never forgotten (Pending).  If nobody has set the machine's routes      *)
(* since, the list is in addition what the request makes of the approved   *)
(* routes as they still are (UpToDate), so the handler acts as NodeStore.  *)
(***************************************************************************)
EXTENDS MachineActions, TLAPS

USE ActionsAssumption DEF ActionsAssumption

(* A list that is about to be set names offered routes only.               *)
Pending ==
    \A h \in Handler :
        pc[h] = "SetApprovedRoutes" /\ nodes[request[h].node] # Absent
            => routes[h] \subseteq offered[request[h].node]

(* A machine's routes were all offered.                                    *)
Known(n, i) == n # Absent => n.available \cup n.approved \subseteq offered[i]

AllKnown == \A i \in NodeId : Known(nodes[i], i)

IInv == TypeOK /\ AllKnown /\ Pending

-----------------------------------------------------------------------------
LEMMA InitIInv == Init => IInv
<1> SUFFICES ASSUME Init PROVE IInv
  OBVIOUS
<1>1. nodes \in [NodeId -> Node] /\ offered \in [NodeId -> SUBSET Route]
  BY DEF Init, StoreInit, Node
<1>2. TypeOK
  BY <1>1 DEF Init, TypeOK, InRouteHandler
<1>3. AllKnown
  BY DEF Init, StoreInit, AllKnown, Known
<1>4. Pending
  BY DEF Init, Pending
<1> QED
  BY <1>2, <1>3, <1>4 DEF IInv

-----------------------------------------------------------------------------
(* The steps of a handler, whatever the operation.                         *)

LEMMA RequestNode ==
    ASSUME TypeOK, NEW h \in Handler, pc[h] # "idle"
    PROVE  request[h].node \in NodeId
  BY DEF TypeOK, Request

(* It ends without an effect.                                              *)
LEMMA NoEffect ==
    ASSUME IInv, NEW h \in Handler, Reply(h), UNCHANGED <<nodes, offered>>,
           met' \subseteq (met \ {h}) \cup Others(h)
    PROVE  IInv'
<1>1. TypeOK'
  BY DEF IInv, TypeOK, Reply, InRouteHandler, Others
<1>2. AllKnown'
  BY DEF IInv, AllKnown, Known
<1>3. Pending'
  BY DEF IInv, TypeOK, Pending, Reply
<1> QED
  BY <1>1, <1>2, <1>3 DEF IInv

(* It ends and its machine becomes n.                                      *)
LEMMA Effect ==
    ASSUME IInv, NEW h \in Handler, Reply(h), UNCHANGED offered,
           NEW i \in NodeId, NEW n \in Node \cup {Absent}, Become(i, n), Known(n, i),
           met' \subseteq (met \ {h}) \cup Others(h)
    PROVE  IInv'
<1>1. nodes' = [nodes EXCEPT ![i] = n] /\ nodes[i] # Absent
  BY DEF Become
<1>2. TypeOK'
  BY <1>1 DEF IInv, TypeOK, Reply, InRouteHandler, Others
<1>3. AllKnown'
  BY <1>1 DEF IInv, TypeOK, AllKnown, Known
<1>4. ASSUME NEW g \in Handler, pc'[g] = "SetApprovedRoutes", nodes'[request'[g].node] # Absent
      PROVE  routes'[g] \subseteq offered'[request'[g].node]
  <2>1. g # h /\ pc[g] = "SetApprovedRoutes" /\ request'[g] = request[g] /\ routes'[g] = routes[g]
    BY <1>4 DEF IInv, TypeOK, Reply
  <2>2. request[g].node \in NodeId
    BY <2>1, RequestNode DEF IInv
  <2>3. nodes[request[g].node] # Absent
    BY <1>1, <1>4, <2>1, <2>2 DEF IInv, TypeOK
  <2> QED
    BY <2>1, <2>3 DEF IInv, Pending
<1> QED
  BY <1>2, <1>3, <1>4 DEF IInv, Pending

(* GetNode answers and it computes the list new.                           *)
LEMMA Fetch ==
    ASSUME IInv, NEW h \in Handler, NEW op, NEW refused, NEW new,
           GetNode(h, op, refused, new),
           nodes[request[h].node] # Absent /\ ~refused
               => new \subseteq offered[request[h].node]
    PROVE  IInv'
<1>1. CASE Reply(h)
  BY <1>1, NoEffect DEF GetNode, IInv, TypeOK
<1>2. CASE ~Reply(h)
  <2>1. /\ pc[h] = "GetNode" /\ UNCHANGED <<nodes, offered, request, met>>
        /\ pc' = [pc EXCEPT ![h] = "SetApprovedRoutes"]
        /\ routes' = [routes EXCEPT ![h] = new]
        /\ new \subseteq offered[request[h].node]
    BY <1>2 DEF GetNode
  <2>2. request[h].node \in NodeId
    BY <2>1, RequestNode DEF IInv
  <2>3. new \in SUBSET Route
    BY <2>1, <2>2 DEF IInv, TypeOK
  <2>4. TypeOK'
    BY <2>1, <2>3 DEF IInv, TypeOK, InRouteHandler
  <2>5. AllKnown'
    BY <2>1 DEF IInv, AllKnown, Known
  <2>6. Pending'
    BY <2>1 DEF IInv, TypeOK, Pending
  <2> QED
    BY <2>4, <2>5, <2>6 DEF IInv
<1> QED
  BY <1>1, <1>2

-----------------------------------------------------------------------------
LEMMA ServeIInv ==
    ASSUME IInv, NEW h \in Handler, Serve(h)
    PROVE  IInv'
<1> DEFINE i == request[h].node
           n == nodes[i]
<1>1. ASSUME pc[h] # "idle" PROVE i \in NodeId /\ (n # Absent => n \in Node /\ Known(n, i))
  <2>1. i \in NodeId
    BY <1>1, RequestNode DEF IInv
  <2> QED
    BY <2>1 DEF IInv, TypeOK, AllKnown
<1>2. CASE ApproveExitNode(h)
  <2>1. n # Absent => ApproveExitRoutes(n) \subseteq offered[i]
    BY <1>1, <1>2 DEF ApproveExitNode, GetNode, ApproveExitRoutes, Known
  <2> QED
    BY <1>2, <2>1, Fetch DEF ApproveExitNode
<1>3. CASE RejectExitNode(h)
  <2>1. n # Absent => RejectExitRoutes(n) \subseteq offered[i]
    BY <1>1, <1>3 DEF RejectExitNode, GetNode, RejectExitRoutes, Known
  <2> QED
    BY <1>3, <2>1, Fetch DEF RejectExitNode
<1>4. CASE ApproveSubnetRoute(h)
  <2>1. n # Absent /\ ~(request[h].route \notin n.available)
          => ApproveSubnet(n, request[h].route) \subseteq offered[i]
    BY <1>1, <1>4 DEF ApproveSubnetRoute, GetNode, ApproveSubnet, Known
  <2> QED
    BY <1>4, <2>1, Fetch DEF ApproveSubnetRoute
<1>5. CASE RejectSubnetRoute(h)
  <2>1. n # Absent => RejectSubnet(n, request[h].route) \subseteq offered[i]
    BY <1>1, <1>5 DEF RejectSubnetRoute, GetNode, RejectSubnet, Known
  <2> QED
    BY <1>5, <2>1, Fetch DEF RejectSubnetRoute
<1>6. CASE SetApprovedRoutes(h)
  <2> DEFINE m == [n EXCEPT !.approved = routes[h]]
  <2>1. CASE UNCHANGED nodes
    BY <1>6, <2>1, NoEffect DEF SetApprovedRoutes, LastCall
  <2>2. CASE Approve(i, routes[h])
    <3>1. i \in NodeId /\ n \in Node /\ Known(n, i) /\ routes[h] \subseteq offered[i]
      BY <1>1, <1>6, <2>2 DEF SetApprovedRoutes, Approve, Become, IInv, Pending
    <3>2. routes[h] \in SUBSET Route
      BY DEF IInv, TypeOK
    <3>3. m \in Node /\ Known(m, i)
      BY <3>1, <3>2 DEF Node, Known
    <3> QED
      BY <1>6, <2>2, <3>1, <3>3, Effect DEF SetApprovedRoutes, LastCall, Approve
  <2> QED
    BY <1>6, <2>1, <2>2 DEF SetApprovedRoutes, LastCall
<1>7. CASE RenameNode(h) \/ MoveNode(h) \/ SetTags(h) \/ DeleteNode(h) \/ ExpireNode(h)
  <2> DEFINE Plain == Rename(i) \/ Move(i) \/ Tag(i) \/ Delete(i) \/ Expire(i)
  <2>1. /\ pc[h] # "idle" /\ Reply(h) /\ UNCHANGED offered /\ (Plain \/ UNCHANGED nodes)
        /\ met' = met \ {h}
    BY <1>7 DEF RenameNode, MoveNode, SetTags, DeleteNode, ExpireNode, PlainCall, LastCall
  <2>2. ASSUME Plain
        PROVE  \E m \in Node \cup {Absent} : Become(i, m) /\ Known(m, i)
    <3>1. n \in Node /\ Known(n, i)
      BY <1>1, <2>1, <2>2 DEF Rename, Move, Tag, Delete, Expire, Become
    <3>2. CASE Rename(i)
      <4>1. PICK s \in Name : Become(i, [n EXCEPT !.name = s])
        BY <3>2 DEF Rename
      <4>2. [n EXCEPT !.name = s] \in Node /\ Known([n EXCEPT !.name = s], i)
        BY <3>1 DEF Node, Known
      <4> QED
        BY <4>1, <4>2
    <3>3. CASE Move(i)
      <4>1. PICK u \in User : Become(i, [n EXCEPT !.user = u])
        BY <3>3 DEF Move
      <4>2. [n EXCEPT !.user = u] \in Node /\ Known([n EXCEPT !.user = u], i)
        BY <3>1 DEF Node, Known
      <4> QED
        BY <4>1, <4>2
    <3>4. CASE Tag(i)
      <4>1. PICK t \in TagSet : Become(i, [n EXCEPT !.tags = t])
        BY <3>4 DEF Tag
      <4>2. [n EXCEPT !.tags = t] \in Node /\ Known([n EXCEPT !.tags = t], i)
        BY <3>1 DEF Node, Known
      <4> QED
        BY <4>1, <4>2
    <3>5. CASE Delete(i)
      BY <3>5 DEF Delete, Known
    <3>6. CASE Expire(i)
      <4>1. /\ [n EXCEPT !.expired = TRUE] \in Node
            /\ Known([n EXCEPT !.expired = TRUE], i)
        BY <3>1 DEF Node, Known
      <4> QED
        BY <3>6, <4>1 DEF Expire
    <3> QED
      BY <2>2, <3>2, <3>3, <3>4, <3>5, <3>6
  <2>3. CASE Plain
    BY <1>1, <2>1, <2>2, <2>3, Effect
  <2>4. CASE UNCHANGED nodes
    BY <2>1, <2>4, NoEffect
  <2> QED
    BY <2>1, <2>3, <2>4
<1> QED
  BY <1>2, <1>3, <1>4, <1>5, <1>6, <1>7 DEF Serve

LEMMA ReceiveIInv ==
    ASSUME IInv, NEW h \in Handler, NEW q \in Request, Receive(h, q)
    PROVE  IInv'
<1>1. q.op \notin RouteOp => q.op \in PlainOp
  BY DEF Request, RouteOp, SubnetOp
<1>2. TypeOK'
  BY DEF IInv, TypeOK, Receive, InRouteHandler
<1>3. AllKnown'
  BY DEF IInv, AllKnown, Known, Receive
<1>4. Pending'
  BY DEF IInv, TypeOK, Pending, Receive
<1> QED
  BY <1>2, <1>3, <1>4 DEF IInv

LEMMA AdvertiseIInv ==
    ASSUME IInv, NEW i \in NodeId, NEW rs \in SUBSET Route, MachineAdvertises(i, rs)
    PROVE  IInv'
<1> DEFINE m == [nodes[i] EXCEPT !.available = rs]
<1>1. /\ nodes[i] \in Node /\ Known(nodes[i], i)
      /\ nodes' = [nodes EXCEPT ![i] = m]
      /\ offered' = [offered EXCEPT ![i] = @ \cup rs]
      /\ UNCHANGED <<request, pc, routes, met>>
  BY DEF MachineAdvertises, Advertise, Become, IInv, TypeOK, AllKnown, handlerVars
<1>2. m \in Node /\ m.available = rs /\ m.approved = nodes[i].approved
  BY <1>1 DEF Node
<1>3. TypeOK'
  BY <1>1, <1>2 DEF IInv, TypeOK, InRouteHandler
<1>4. AllKnown'
  BY <1>1, <1>2 DEF IInv, TypeOK, AllKnown, Known
<1>5. ASSUME NEW g \in Handler, pc'[g] = "SetApprovedRoutes", nodes'[request'[g].node] # Absent
      PROVE  routes'[g] \subseteq offered'[request'[g].node]
  <2>1. pc[g] = "SetApprovedRoutes" /\ request'[g] = request[g] /\ routes'[g] = routes[g]
    BY <1>1, <1>5
  <2>2. request[g].node \in NodeId
    BY <2>1, RequestNode DEF IInv
  <2>3. /\ nodes[request[g].node] # Absent
        /\ offered[request[g].node] \subseteq offered'[request[g].node]
    BY <1>1, <1>5, <2>1, <2>2 DEF IInv, TypeOK
  <2> QED
    BY <2>1, <2>3 DEF IInv, Pending
<1> QED
  BY <1>3, <1>4, <1>5 DEF IInv, Pending

LEMMA NextIInv == IInv /\ [Next]_vars => IInv'
<1> SUFFICES ASSUME IInv, [Next]_vars PROVE IInv'
  OBVIOUS
<1>1. CASE UNCHANGED vars
  BY <1>1 DEF vars, IInv, TypeOK, InRouteHandler, AllKnown, Known, Pending
<1> QED
  BY <1>1, ServeIInv, ReceiveIInv, AdvertiseIInv DEF Next

(* The variables have their types, and every request in the hands of a     *)
(* route handler is one of the four it serves.                             *)
THEOREM TypeCorrect == Spec => []TypeOK
<1>1. IInv => TypeOK
  BY DEF IInv
<1> QED
  BY <1>1, InitIInv, NextIInv, PTL DEF Spec

(* However requests interleave, fail and find routes withdrawn, only what  *)
(* a machine advertised is approved.                                       *)
THEOREM Consent == Spec => []OnlyOfferedApproved
<1>1. IInv => OnlyOfferedApproved
  BY DEF IInv, AllKnown, Known, OnlyOfferedApproved
<1> QED
  BY <1>1, InitIInv, NextIInv, PTL DEF Spec

-----------------------------------------------------------------------------
(* When the two calls act as one.                                          *)

(* rs is what the operation makes of a machine n that offered "offers".    *)
Meant(op, n, offers, rs) ==
    \/ /\ op = "approve exit"
       /\ \E exits \in (SUBSET (offers \cap ExitRoutes)) \ {{}} :
             rs = ApprovedSubnets(n) \cup exits
    \/ op = "reject exit" /\ rs = ApprovedSubnets(n)
    \/ op = "approve subnet" /\ \E r \in offers : rs = n.approved \cup {r}
    \/ op = "reject subnet" /\ \E r \in Route : rs = n.approved \ {r}

(* A list that is about to be set is right for the machine as it is now,   *)
(* if the machine's routes were not set since.                             *)
UpToDateFor(h) ==
    h \notin met /\ pc[h] = "SetApprovedRoutes" /\ nodes[request[h].node] # Absent
        => Meant(request[h].op, nodes[request[h].node], offered[request[h].node], routes[h])

UpToDate == \A h \in Handler : UpToDateFor(h)

AInv == IInv /\ UpToDate

LEMMA InitAInv == Init => AInv
<1> SUFFICES ASSUME Init PROVE AInv
  OBVIOUS
<1>1. UpToDate
  BY DEF Init, UpToDate, UpToDateFor
<1> QED
  BY <1>1, InitIInv DEF AInv

(* Only the approved routes matter, and more offers do no harm.            *)
LEMMA MeantStable ==
    ASSUME NEW op, NEW n, NEW m, NEW o, NEW p, NEW rs,
           Meant(op, n, o, rs), m.approved = n.approved, o \subseteq p
    PROVE  Meant(op, m, p, rs)
  BY DEF Meant, ApprovedSubnets

LEMMA StaysUpToDate ==
    ASSUME NEW g \in Handler, UpToDateFor(g), pc'[g] = pc[g],
           request'[g] = request[g], routes'[g] = routes[g],
           g \in met => g \in met',
           nodes'[request[g].node] # Absent =>
               /\ nodes[request[g].node] # Absent
               /\ nodes'[request[g].node].approved = nodes[request[g].node].approved
               /\ offered[request[g].node] \subseteq offered'[request[g].node]
    PROVE  UpToDateFor(g)'
  BY MeantStable DEF UpToDateFor

(* A request that ends leaves the others alone and has nothing to set.     *)
LEMMA ReplyOthers ==
    ASSUME AInv, NEW h \in Handler, Reply(h)
    PROVE  /\ UpToDateFor(h)'
           /\ \A g \in Handler : g # h => /\ pc'[g] = pc[g] /\ request'[g] = request[g]
                                         /\ routes'[g] = routes[g]
<1>1. /\ pc' = [pc EXCEPT ![h] = "idle"] /\ request' = [request EXCEPT ![h] = NoRequest]
      /\ routes' = [routes EXCEPT ![h] = {}]
  BY DEF Reply
<1>2. UpToDateFor(h)'
  BY <1>1 DEF AInv, IInv, TypeOK, UpToDateFor
<1>3. \A g \in Handler : g # h => /\ pc'[g] = pc[g] /\ request'[g] = request[g]
                                 /\ routes'[g] = routes[g]
  BY <1>1 DEF AInv, IInv, TypeOK
<1> QED
  BY <1>2, <1>3

LEMMA NoEffectUpToDate ==
    ASSUME AInv, NEW h \in Handler, Reply(h), UNCHANGED <<nodes, offered>>, met \ {h} \subseteq met'
    PROVE  UpToDate'
<1>1. ASSUME NEW g \in Handler, g # h PROVE UpToDateFor(g)'
  BY <1>1, ReplyOthers, StaysUpToDate DEF AInv, UpToDate
<1> QED
  BY <1>1, ReplyOthers DEF UpToDate

(* GetNode: the list is up to date at this moment.                         *)
LEMMA FetchUpToDate ==
    ASSUME AInv, NEW h \in Handler, NEW op, NEW refused, NEW new,
           GetNode(h, op, refused, new),
           nodes[request[h].node] # Absent /\ ~refused
               => Meant(op, nodes[request[h].node], offered[request[h].node], new)
    PROVE  UpToDate'
<1>1. CASE Reply(h)
  BY <1>1, NoEffectUpToDate DEF GetNode
<1>2. CASE ~Reply(h)
  <2>1. /\ pc[h] = "GetNode" /\ request[h].op = op /\ UNCHANGED <<nodes, offered, request, met>>
        /\ pc' = [pc EXCEPT ![h] = "SetApprovedRoutes"]
        /\ routes' = [routes EXCEPT ![h] = new]
        /\ Meant(op, nodes[request[h].node], offered[request[h].node], new)
    BY <1>2 DEF GetNode
  <2>2. UpToDateFor(h)'
    BY <2>1 DEF AInv, IInv, TypeOK, UpToDateFor
  <2>3. ASSUME NEW g \in Handler, g # h PROVE UpToDateFor(g)'
    <3>1. pc'[g] = pc[g] /\ routes'[g] = routes[g]
      BY <2>1, <2>3 DEF AInv, IInv, TypeOK
    <3> QED
      BY <2>1, <3>1, StaysUpToDate DEF AInv, UpToDate
  <2> QED
    BY <2>2, <2>3 DEF UpToDate
<1> QED
  BY <1>1, <1>2

(* An effect upon a machine that keeps its approved routes, or one that    *)
(* the others of the machine have met.                                     *)
LEMMA EffectUpToDate ==
    ASSUME AInv, NEW h \in Handler, pc[h] # "idle", Reply(h), UNCHANGED offered,
           NEW n, Become(request[h].node, n),
           met \ {h} \subseteq met',
           \/ n # Absent => n.approved = nodes[request[h].node].approved
           \/ Others(h) \subseteq met'
    PROVE  UpToDate'
<1> DEFINE i == request[h].node
<1>1. /\ i \in NodeId /\ nodes[i] # Absent /\ nodes' = [nodes EXCEPT ![i] = n]
      /\ nodes \in [NodeId -> Node \cup {Absent}]
  BY RequestNode DEF Become, AInv, IInv, TypeOK
<1>2. ASSUME NEW g \in Handler, g # h PROVE UpToDateFor(g)'
  <2>1. pc'[g] = pc[g] /\ request'[g] = request[g] /\ routes'[g] = routes[g]
    BY <1>2, ReplyOthers
  <2>2. CASE pc[g] # "SetApprovedRoutes"
    BY <2>1, <2>2 DEF UpToDateFor
  <2>3. CASE pc[g] = "SetApprovedRoutes" /\ g \in met'
    BY <2>3 DEF UpToDateFor
  <2>4. CASE pc[g] = "SetApprovedRoutes" /\ g \notin met'
    <3> DEFINE j == request[g].node
    <3>1. j \in NodeId
      BY <2>4, RequestNode DEF AInv, IInv
    <3>2. j = i => (n # Absent => n.approved = nodes[i].approved)
      BY <1>2, <2>4 DEF Others
    <3>3. nodes'[j] # Absent => nodes[j] # Absent /\ nodes'[j].approved = nodes[j].approved
      BY <1>1, <3>1, <3>2
    <3> QED
      BY <1>2, <2>1, <3>3, StaysUpToDate DEF AInv, UpToDate
  <2> QED
    BY <2>2, <2>3, <2>4
<1> QED
  BY <1>2, ReplyOthers DEF UpToDate

LEMMA ServeUpToDate ==
    ASSUME AInv, NEW h \in Handler, Serve(h)
    PROVE  UpToDate'
<1> DEFINE i == request[h].node
           n == nodes[i]
           r == request[h].route
<1>1. ASSUME pc[h] # "idle", n # Absent
      PROVE  n.available \subseteq offered[i]
  <2>1. i \in NodeId
    BY <1>1, RequestNode DEF AInv, IInv
  <2> QED
    BY <1>1, <2>1 DEF AInv, IInv, AllKnown, Known
<1>2. CASE ApproveExitNode(h)
  <2>1. n # Absent /\ ~(n.available \cap ExitRoutes = {})
          => Meant("approve exit", n, offered[i], ApproveExitRoutes(n))
    BY <1>1, <1>2
       DEF ApproveExitNode, GetNode, ApproveExitRoutes, ApprovedSubnets, Meant
  <2> QED
    BY <1>2, <2>1, FetchUpToDate DEF ApproveExitNode
<1>3. CASE RejectExitNode(h)
  <2>1. Meant("reject exit", n, offered[i], RejectExitRoutes(n))
    BY DEF RejectExitRoutes, ApprovedSubnets, Meant
  <2> QED
    BY <1>3, <2>1, FetchUpToDate DEF RejectExitNode
<1>4. CASE ApproveSubnetRoute(h)
  <2>1. n # Absent /\ ~(r \notin n.available)
          => Meant("approve subnet", n, offered[i], ApproveSubnet(n, r))
    BY <1>1, <1>4 DEF ApproveSubnetRoute, GetNode, ApproveSubnet, Meant
  <2> QED
    BY <1>4, <2>1, FetchUpToDate DEF ApproveSubnetRoute
<1>5. CASE RejectSubnetRoute(h)
  <2>1. pc[h] = "GetNode" /\ request[h].op = "reject subnet"
    BY <1>5 DEF RejectSubnetRoute, GetNode
  <2>2. r \in Route
    BY <2>1 DEF AInv, IInv, TypeOK, Request, RouteOp, SubnetOp, PlainOp
  <2>3. Meant("reject subnet", n, offered[i], RejectSubnet(n, r))
    BY <2>2 DEF RejectSubnet, Meant
  <2> QED
    BY <1>5, <2>3, FetchUpToDate DEF RejectSubnetRoute
<1>6. CASE SetApprovedRoutes(h)
  <2>1. /\ pc[h] = "SetApprovedRoutes" /\ Reply(h) /\ UNCHANGED offered
        /\ met \ {h} \subseteq met' /\ (nodes' # nodes => Others(h) \subseteq met')
    BY <1>6 DEF SetApprovedRoutes, LastCall
  <2>2. CASE UNCHANGED nodes
    BY <2>1, <2>2, NoEffectUpToDate
  <2>3. CASE nodes' # nodes
    <3>1. Become(i, [n EXCEPT !.approved = routes[h]])
      BY <1>6, <2>3 DEF SetApprovedRoutes, LastCall, Approve
    <3> QED
      BY <2>1, <2>3, <3>1, EffectUpToDate
  <2> QED
    BY <2>2, <2>3
<1>7. CASE RenameNode(h) \/ MoveNode(h) \/ SetTags(h) \/ DeleteNode(h) \/ ExpireNode(h)
  <2> DEFINE Plain == Rename(i) \/ Move(i) \/ Tag(i) \/ Delete(i) \/ Expire(i)
  <2>1. /\ pc[h] # "idle" /\ Reply(h) /\ UNCHANGED offered /\ (Plain \/ UNCHANGED nodes)
        /\ met' = met \ {h}
    BY <1>7 DEF RenameNode, MoveNode, SetTags, DeleteNode, ExpireNode, PlainCall, LastCall
  <2>2. CASE Plain
    <3>1. n \in Node
      BY <2>1, <2>2, RequestNode
         DEF Rename, Move, Tag, Delete, Expire, Become, AInv, IInv, TypeOK
    <3>2. /\ \A s : [n EXCEPT !.name = s].approved = n.approved
          /\ \A u : [n EXCEPT !.user = u].approved = n.approved
          /\ \A t : [n EXCEPT !.tags = t].approved = n.approved
          /\ [n EXCEPT !.expired = TRUE].approved = n.approved
      BY <3>1 DEF Node
    <3>3. PICK m : Become(i, m) /\ (m # Absent => m.approved = n.approved)
      BY <2>2, <3>2 DEF Rename, Move, Tag, Delete, Expire
    <3> QED
      BY <2>1, <3>3, EffectUpToDate
  <2>3. CASE UNCHANGED nodes
    BY <2>1, <2>3, NoEffectUpToDate
  <2> QED
    BY <2>1, <2>2, <2>3
<1> QED
  BY <1>2, <1>3, <1>4, <1>5, <1>6, <1>7 DEF Serve

LEMMA ReceiveUpToDate ==
    ASSUME AInv, NEW h \in Handler, NEW q \in Request, Receive(h, q)
    PROVE  UpToDate'
<1>1. /\ pc[h] = "idle" /\ request' = [request EXCEPT ![h] = q]
      /\ pc' = [pc EXCEPT ![h] = IF q.op \in RouteOp THEN "GetNode" ELSE "plain call"]
      /\ UNCHANGED <<nodes, offered, routes, met>>
      /\ pc \in [Handler -> {"idle", "GetNode", "SetApprovedRoutes", "plain call"}]
      /\ request \in [Handler -> Request \cup {NoRequest}]
  BY DEF Receive, AInv, IInv, TypeOK
<1>2. UpToDateFor(h)'
  BY <1>1 DEF UpToDateFor
<1>3. ASSUME NEW g \in Handler, g # h PROVE UpToDateFor(g)'
  <2>1. pc'[g] = pc[g] /\ request'[g] = request[g] /\ routes'[g] = routes[g]
    BY <1>1, <1>3
  <2> QED
    BY <1>1, <2>1, StaysUpToDate DEF AInv, UpToDate
<1> QED
  BY <1>2, <1>3 DEF UpToDate

LEMMA AdvertiseUpToDate ==
    ASSUME AInv, NEW i \in NodeId, NEW rs \in SUBSET Route, MachineAdvertises(i, rs)
    PROVE  UpToDate'
<1> DEFINE m == [nodes[i] EXCEPT !.available = rs]
<1>1. /\ nodes[i] \in Node /\ nodes \in [NodeId -> Node \cup {Absent}]
      /\ nodes' = [nodes EXCEPT ![i] = m]
      /\ offered' = [offered EXCEPT ![i] = @ \cup rs] /\ offered \in [NodeId -> SUBSET Route]
      /\ UNCHANGED <<request, pc, routes, met>>
  BY DEF MachineAdvertises, Advertise, Become, AInv, IInv, TypeOK, handlerVars
<1>2. m.approved = nodes[i].approved /\ m # Absent
  BY <1>1 DEF Node
<1>3. ASSUME NEW g \in Handler PROVE UpToDateFor(g)'
  <2>1. CASE pc[g] # "SetApprovedRoutes"
    BY <1>1, <2>1 DEF UpToDateFor
  <2>2. CASE pc[g] = "SetApprovedRoutes"
    <3> DEFINE j == request[g].node
    <3>1. j \in NodeId
      BY <2>2, RequestNode DEF AInv, IInv
    <3>2. /\ nodes'[j] # Absent => nodes[j] # Absent /\ nodes'[j].approved = nodes[j].approved
          /\ offered[j] \subseteq offered'[j]
      BY <1>1, <1>2, <3>1
    <3> QED
      BY <1>1, <3>2, StaysUpToDate DEF AInv, UpToDate
  <2> QED
    BY <2>1, <2>2
<1> QED
  BY <1>3 DEF UpToDate

LEMMA NextAInv == AInv /\ [Next]_vars => AInv'
<1> SUFFICES ASSUME AInv, [Next]_vars PROVE AInv'
  OBVIOUS
<1>1. IInv'
  BY NextIInv DEF AInv
<1>2. CASE UNCHANGED vars
  BY <1>1, <1>2 DEF vars, AInv, UpToDate, UpToDateFor
<1>3. CASE Next
  BY <1>1, <1>3, ServeUpToDate, ReceiveUpToDate, AdvertiseUpToDate DEF Next, AInv
<1> QED
  BY <1>2, <1>3

(* The call that carries out a request is the step of NodeStore, but for   *)
(* the handlers that met another.                                          *)
Overtaken == \E h \in met : SetApprovedRoutes(h)

LEMMA StepOfStore == AInv /\ [Next]_vars => [StoreNext \/ Overtaken]_storeVars
<1> SUFFICES ASSUME AInv, [Next]_vars, ~Overtaken PROVE [StoreNext]_storeVars
  OBVIOUS
<1>1. ASSUME NEW h \in Handler, Serve(h) PROVE [StoreNext]_storeVars
  <2> DEFINE i == request[h].node
  <2>1. CASE ApproveExitNode(h) \/ RejectExitNode(h) \/ ApproveSubnetRoute(h) \/ RejectSubnetRoute(h)
    BY <2>1 DEF ApproveExitNode, RejectExitNode, ApproveSubnetRoute, RejectSubnetRoute,
                GetNode, storeVars
  <2>2. CASE SetApprovedRoutes(h)
    <3>1. UNCHANGED offered /\ (Approve(i, routes[h]) \/ UNCHANGED nodes)
      BY <2>2 DEF SetApprovedRoutes, LastCall
    <3>2. ASSUME Approve(i, routes[h]) PROVE StoreNext
      <4>1. i \in NodeId /\ Meant(request[h].op, nodes[i], offered[i], routes[h])
        BY <2>2, <3>2, RequestNode
           DEF SetApprovedRoutes, Overtaken, Approve, Become, AInv, IInv, UpToDate, UpToDateFor
      <4>2. ApproveExit(i) \/ RejectExit(i) \/ ApproveRoute(i) \/ RejectRoute(i)
        BY <3>2, <4>1 DEF Meant, ApproveExit, RejectExit, ApproveRoute, RejectRoute
      <4> QED
        BY <3>1, <4>1, <4>2 DEF StoreNext, Action
    <3> QED
      BY <3>1, <3>2 DEF storeVars
  <2>3. CASE RenameNode(h) \/ MoveNode(h) \/ SetTags(h) \/ DeleteNode(h) \/ ExpireNode(h)
    <3>1. /\ pc[h] # "idle" /\ UNCHANGED offered
          /\ \/ Rename(i) \/ Move(i) \/ Tag(i) \/ Delete(i) \/ Expire(i)
             \/ UNCHANGED nodes
      BY <2>3 DEF RenameNode, MoveNode, SetTags, DeleteNode, ExpireNode, PlainCall, LastCall
    <3>2. i \in NodeId
      BY <3>1, RequestNode DEF AInv, IInv
    <3> QED
      BY <3>1, <3>2 DEF StoreNext, Action, storeVars
  <2> QED
    BY <1>1, <2>1, <2>2, <2>3 DEF Serve
<1>2. ASSUME NEW h \in Handler, NEW q \in Request, Receive(h, q) PROVE [StoreNext]_storeVars
  BY <1>2 DEF Receive, storeVars
<1>3. ASSUME NEW i \in NodeId, NEW rs \in SUBSET Route, MachineAdvertises(i, rs)
      PROVE  [StoreNext]_storeVars
  BY <1>3 DEF MachineAdvertises, StoreNext
<1>4. CASE UNCHANGED vars
  BY <1>4 DEF vars, storeVars
<1> QED
  BY <1>1, <1>2, <1>3, <1>4 DEF Next

(* A request whose machine keeps its approved routes between the two calls *)
(* acts in one step, whatever else overlaps and whichever calls fail.      *)
THEOREM Atomicity == Spec => Atomic
<1>1. Init => StoreInit
  BY DEF Init
<1> QED
  BY <1>1, InitAInv, NextAInv, StepOfStore, PTL DEF Spec, Atomic, Overtaken

-----------------------------------------------------------------------------
(* The handlers and the badges agree about every machine.                  *)
THEOREM Badges == Spec => []BadgesFollowActions
<1>1. IInv => BadgesFollowActions
  <2> SUFFICES ASSUME IInv, NEW i \in NodeId, nodes[i] # Absent,
                      NEW n, n = nodes[i]
               PROVE  LET approved == [n EXCEPT !.approved = ApproveExitRoutes(n)]
                          rejected == [n EXCEPT !.approved = RejectExitRoutes(n)]
                          offers == n.available \cap ExitRoutes # {}
                      IN  /\ offers => ExitNodeStatus(approved) = "Allowed"
                          /\ ExitNodeStatus(rejected) = IF offers THEN "Awaiting approval" ELSE ""
                          /\ \A m \in {approved, rejected} :
                                /\ ApprovedSubnets(m) = ApprovedSubnets(n)
                                /\ AdvertisedSubnets(m) = AdvertisedSubnets(n)
    BY DEF BadgesFollowActions
  <2> DEFINE approved == [n EXCEPT !.approved = ApproveExitRoutes(n)]
             rejected == [n EXCEPT !.approved = RejectExitRoutes(n)]
  <2>1. n \in Node
    BY DEF IInv, TypeOK
  <2>2. /\ approved.available = n.available /\ approved.approved = ApproveExitRoutes(n)
        /\ rejected.available = n.available /\ rejected.approved = RejectExitRoutes(n)
    BY <2>1 DEF Node
  <2> HIDE DEF approved, rejected
  <2>3. n.available \cap ExitRoutes # {} => ExitNodeStatus(approved) = "Allowed"
    BY <2>2 DEF ExitNodeStatus, ExitNodeApproved, ApproveExitRoutes
  <2>4. ExitNodeStatus(rejected)
          = IF n.available \cap ExitRoutes # {} THEN "Awaiting approval" ELSE ""
    BY <2>2 DEF ExitNodeStatus, ExitNodeApproved, ExitNodeAdvertised, RejectExitRoutes
  <2>5. /\ ApprovedSubnets(approved) = ApprovedSubnets(n)
        /\ AdvertisedSubnets(approved) = AdvertisedSubnets(n)
    BY <2>2 DEF ApprovedSubnets, AdvertisedSubnets, ApproveExitRoutes
  <2>6. /\ ApprovedSubnets(rejected) = ApprovedSubnets(n)
        /\ AdvertisedSubnets(rejected) = AdvertisedSubnets(n)
    BY <2>2 DEF ApprovedSubnets, AdvertisedSubnets, RejectExitRoutes
  <2> QED
    BY <2>3, <2>4, <2>5, <2>6 DEF approved, rejected
<1> QED
  BY <1>1, InitIInv, NextIInv, PTL DEF Spec

-----------------------------------------------------------------------------
(* A request that was carried out although its reply was lost can be sent  *)
(* again: upon its own result it computes the same routes.                 *)
THEOREM Retry == Spec => []RetryIsSafe
<1>1. IInv => RetryIsSafe
  <2> SUFFICES ASSUME IInv, NEW i \in NodeId, nodes[i] # Absent, NEW n, n = nodes[i]
               PROVE  LET With(rs) == [n EXCEPT !.approved = rs]
                      IN  /\ ApproveExitRoutes(With(ApproveExitRoutes(n))) = ApproveExitRoutes(n)
                          /\ RejectExitRoutes(With(RejectExitRoutes(n))) = RejectExitRoutes(n)
                          /\ \A r \in Route :
                                /\ ApproveSubnet(With(ApproveSubnet(n, r)), r) = ApproveSubnet(n, r)
                                /\ RejectSubnet(With(RejectSubnet(n, r)), r) = RejectSubnet(n, r)
    BY DEF RetryIsSafe
  <2> DEFINE With(rs) == [n EXCEPT !.approved = rs]
  <2>1. n \in Node
    BY DEF IInv, TypeOK
  <2>2. \A rs : With(rs).approved = rs /\ With(rs).available = n.available
    BY <2>1 DEF Node
  <2> HIDE DEF With
  <2>3. ApproveExitRoutes(With(ApproveExitRoutes(n))) = ApproveExitRoutes(n)
    BY <2>2 DEF ApproveExitRoutes
  <2>4. RejectExitRoutes(With(RejectExitRoutes(n))) = RejectExitRoutes(n)
    BY <2>2 DEF RejectExitRoutes
  <2>5. ASSUME NEW r \in Route
        PROVE  /\ ApproveSubnet(With(ApproveSubnet(n, r)), r) = ApproveSubnet(n, r)
               /\ RejectSubnet(With(RejectSubnet(n, r)), r) = RejectSubnet(n, r)
    BY <2>2 DEF ApproveSubnet, RejectSubnet
  <2> QED
    BY <2>3, <2>4, <2>5 DEF With
<1> QED
  BY <1>1, InitIInv, NextIInv, PTL DEF Spec
=============================================================================
