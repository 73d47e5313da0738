--------------------------- MODULE MachineActions ---------------------------
(***************************************************************************)
(* The request handlers that change a machine in Headscale                 *)
(* (internal/handlers/machine_actions.go, and Rename of machines.go).      *)
(*                                                                         *)
(* Each request runs in a goroutine of its own.  The four route handlers   *)
(* make two calls: GetNode, and then SetApprovedRoutes with a list they    *)
(* computed from the answer; Headscale replaces the approved routes by the *)
(* list.  The other handlers make one call.  Nothing orders the calls of   *)
(* two requests.  A call may fail before or after Headscale carried it     *)
(* out, the latter when its reply is lost or the browser went away, which  *)
(* cancels the context of the call.  Nothing is retried but by the         *)
(* administrator.  The replies are left out: nothing depends on them.      *)
(*                                                                         *)
(* Headscale and the machines are those of NodeStore.                      *)
(***************************************************************************)
EXTENDS NodeStore, Naturals

CONSTANTS
    Handler,        \* goroutines that serve requests
    NoRoute,        \* a request without a route
    NoRequest       \* no request

SubnetOp == {"approve subnet", "reject subnet"}
RouteOp == {"approve exit", "reject exit"} \cup SubnetOp
PlainOp == {"rename", "move", "tags", "delete", "expire"}

(* The well-formed requests.                                               *)
Request == [op : SubnetOp, node : NodeId, route : Route]
             \cup [op : (RouteOp \ SubnetOp) \cup PlainOp, node : NodeId, route : {NoRoute}]

ASSUME ActionsAssumption ==
    /\ FirstNode \subseteq Node
    /\ Absent \notin Node
    /\ NoRequest \notin Request

VARIABLES
    request,        \* request[h]: the request of handler h
    pc,             \* pc[h]: the call to Headscale that h is about to make
    routes,         \* routes[h]: the handler's approvedRoutes
    met             \* history: handlers whose machine got other routes since GetNode

handlerVars == <<request, pc, routes, met>>
vars == <<nodes, offered, request, pc, routes, met>>

InRouteHandler(h) == pc[h] \in {"GetNode", "SetApprovedRoutes"}

TypeOK ==
    /\ nodes \in [NodeId -> Node \cup {Absent}]
    /\ offered \in [NodeId -> SUBSET Route]
    /\ request \in [Handler -> Request \cup {NoRequest}]
    /\ pc \in [Handler -> {"idle", "GetNode", "SetApprovedRoutes", "plain call"}]
    /\ \A h \in Handler : pc[h] # "idle" => request[h] \in Request
    /\ \A h \in Handler : InRouteHandler(h) => request[h].op \in RouteOp
    /\ routes \in [Handler -> SUBSET Route]
    /\ met \subseteq {h \in Handler : pc[h] = "SetApprovedRoutes"}

Init ==
    /\ StoreInit
    /\ request = [h \in Handler |-> NoRequest]
    /\ pc = [h \in Handler |-> "idle"]
    /\ routes = [h \in Handler |-> {}]
    /\ met = {}

-----------------------------------------------------------------------------
(* Mutant of Receive: every request is dispatched to a route handler.      *)
ReceiveMisrouted(h, q) ==
    /\ pc[h] = "idle"
    /\ request' = [request EXCEPT ![h] = q]
    /\ pc' = [pc EXCEPT ![h] = "GetNode"]
    /\ UNCHANGED <<nodes, offered, routes, met>>

(* A request comes in whose method, path and form are as they should be;   *)
(* any other is answered at once and changes nothing.                      *)
Receive(h, q) ==
    /\ pc[h] = "idle"
    /\ request' = [request EXCEPT ![h] = q]
    /\ pc' = [pc EXCEPT ![h] = IF q.op \in RouteOp THEN "GetNode" ELSE "plain call"]
    /\ UNCHANGED <<nodes, offered, routes, met>>

(* The request is answered: a redirect or an error.                        *)
Reply(h) ==
    /\ pc' = [pc EXCEPT ![h] = "idle"]
    /\ request' = [request EXCEPT ![h] = NoRequest]
    /\ routes' = [routes EXCEPT ![h] = {}]

(* The other handlers that are about to set the routes of h's machine.     *)
Others(h) ==
    {g \in Handler \ {h} : pc[g] = "SetApprovedRoutes" /\ request[g].node = request[h].node}

(* A call that Headscale carries out, or not, ends the request.            *)
LastCall(h, effect) ==
    /\ effect \/ UNCHANGED nodes
    /\ Reply(h)
    /\ met' = (met \ {h}) \cup (IF pc[h] = "SetApprovedRoutes" /\ nodes' # nodes THEN Others(h) ELSE {})
    /\ UNCHANGED offered

-----------------------------------------------------------------------------
(* The route handlers.                                                     *)

(* The call of GetNode and what follows it up to the next call: the list   *)
(* "new", unless the request is refused or the call fails.                 *)
GetNode(h, op, refused, new) ==
    /\ pc[h] = "GetNode"
    /\ request[h].op = op
    /\ UNCHANGED <<nodes, offered, met>>
    /\ \/ /\ nodes[request[h].node] # Absent
          /\ ~refused
          /\ pc' = [pc EXCEPT ![h] = "SetApprovedRoutes"]
          /\ routes' = [routes EXCEPT ![h] = new]
          /\ UNCHANGED request
       \/ Reply(h)

ApproveExitNode(h) ==
    LET n == nodes[request[h].node]
    IN GetNode(h, "approve exit", n.available \cap ExitRoutes = {}, ApproveExitRoutes(n))

RejectExitNode(h) ==
    LET n == nodes[request[h].node]
    IN GetNode(h, "reject exit", FALSE, RejectExitRoutes(n))

(* Mutant of ApproveSubnetRoute: any route can be approved.                *)
ApproveSubnetRouteUnchecked(h) ==
    LET n == nodes[request[h].node]
        r == request[h].route
    IN GetNode(h, "approve subnet", FALSE, ApproveSubnet(n, r))

ApproveSubnetRoute(h) ==
    LET n == nodes[request[h].node]
        r == request[h].route
    IN GetNode(h, "approve subnet", r \notin n.available, ApproveSubnet(n, r))

RejectSubnetRoute(h) ==
    LET n == nodes[request[h].node]
        r == request[h].route
    IN GetNode(h, "reject subnet", FALSE, RejectSubnet(n, r))

SetApprovedRoutes(h) ==
    /\ pc[h] = "SetApprovedRoutes"
    /\ LastCall(h, Approve(request[h].node, routes[h]))

-----------------------------------------------------------------------------
(* The handlers of one call.                                               *)

PlainCall(h, op, effect) ==
    /\ pc[h] = "plain call"
    /\ request[h].op = op
    /\ LastCall(h, effect)

RenameNode(h) == PlainCall(h, "rename", Rename(request[h].node))
MoveNode(h) == PlainCall(h, "move", Move(request[h].node))
SetTags(h) == PlainCall(h, "tags", Tag(request[h].node))
DeleteNode(h) == PlainCall(h, "delete", Delete(request[h].node))
ExpireNode(h) == PlainCall(h, "expire", Expire(request[h].node))

-----------------------------------------------------------------------------
(* A machine advertises other routes, whatever the handlers do.            *)
MachineAdvertises(i, rs) ==
    /\ Advertise(i, rs)
    /\ UNCHANGED handlerVars

Serve(h) ==
    \/ ApproveExitNode(h) \/ RejectExitNode(h)
    \/ ApproveSubnetRoute(h) \/ RejectSubnetRoute(h) \/ SetApprovedRoutes(h)
    \/ RenameNode(h) \/ MoveNode(h) \/ SetTags(h) \/ DeleteNode(h) \/ ExpireNode(h)

Next ==
    \/ \E h \in Handler : Serve(h) \/ \E q \in Request : Receive(h, q)
    \/ \E i \in NodeId, rs \in SUBSET Route : MachineAdvertises(i, rs)

Spec == Init /\ [][Next]_vars

-----------------------------------------------------------------------------
(* Safety, for requests that overlap in any way.                           *)

(* Nothing is approved that the machine did not ask for: however requests  *)
(* interleave and machines withdraw routes meanwhile, every approved route *)
(* was advertised by this machine at some time.                            *)
OnlyOfferedApproved ==
    \A i \in NodeId : nodes[i] # Absent => nodes[i].approved \subseteq offered[i]

(* An error may hide a success, and then the administrator tries again:    *)
(* the same request upon its own result computes the same routes.          *)
RetryIsSafe ==
    \A i \in NodeId : nodes[i] # Absent =>
        LET n == nodes[i]
            With(rs) == [n EXCEPT !.approved = rs]
        IN  /\ ApproveExitRoutes(With(ApproveExitRoutes(n))) = ApproveExitRoutes(n)
            /\ RejectExitRoutes(With(RejectExitRoutes(n))) = RejectExitRoutes(n)
            /\ \A r \in Route :
                  /\ ApproveSubnet(With(ApproveSubnet(n, r)), r) = ApproveSubnet(n, r)
                  /\ RejectSubnet(With(RejectSubnet(n, r)), r) = RejectSubnet(n, r)

(* The handlers (machine_actions.go) and the badges (models/machine.go)    *)
(* mean the same by an exit node: if the machine offers one, approving     *)
(* shows "Allowed" and rejecting shows "Awaiting approval"; if not,        *)
(* rejecting shows nothing; either leaves the subnets of the page alone.   *)
BadgesFollowActions ==
    \A i \in NodeId : nodes[i] # Absent =>
        LET n == nodes[i]
            approved == [n EXCEPT !.approved = ApproveExitRoutes(n)]
            rejected == [n EXCEPT !.approved = RejectExitRoutes(n)]
            offers == n.available \cap ExitRoutes # {}
        IN  /\ offers => ExitNodeStatus(approved) = "Allowed"
            /\ ExitNodeStatus(rejected) = IF offers THEN "Awaiting approval" ELSE ""
            /\ \A m \in {approved, rejected} :
                  /\ ApprovedSubnets(m) = ApprovedSubnets(n)
                  /\ AdvertisedSubnets(m) = AdvertisedSubnets(n)

(* What machine_actions.go:180 and :183 say: "Build new approved routes    *)
(* list by adding the subnet route", "Add all existing approved routes":   *)
(* when the approval of a subnet is carried out, the routes approved until *)
(* then stay approved.                                                     *)
ApprovalKeepsExisting ==
    [][\A h \in Handler :
          /\ pc[h] = "SetApprovedRoutes" /\ pc'[h] = "idle"
          /\ request[h].op = "approve subnet"
          => \A i \in NodeId : nodes[i] # Absent => nodes[i].approved \subseteq nodes'[i].approved]_vars

(* The two calls act as one: whatever overlaps and whatever fails, each    *)
(* request changes its machine in one step as NodeStore says, or not at    *)
(* all, unless the approved routes of its machine were set between its two *)
(* calls.                                                                  *)
Atomic ==
    StoreInit /\ [][StoreNext \/ \E h \in met : SetApprovedRoutes(h)]_storeVars
=============================================================================
