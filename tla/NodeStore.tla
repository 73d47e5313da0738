------------------------------ MODULE NodeStore -----------------------------
(***************************************************************************)
(* What an administrator who presses a button of the machines pages means  *)
(* to happen: the machine changes at once, in one step, from what it is at *)
(* that moment.  MachineActions says when the handlers achieve this.       *)
(*                                                                         *)
(* A machine may withdraw a route while an administrator approves it: an   *)
(* approval names routes that the machine offers or once offered.          *)
(***************************************************************************)
EXTENDS Routes

CONSTANTS
    NodeId,         \* machine ids
    Route,          \* routes that machines may advertise
    User, Name, TagSet,
    FirstNode,      \* what a machine can be at the start
    Absent          \* no machine has the id

VARIABLES
    nodes,          \* the machine with each id, or Absent
    offered         \* offered[i]: the routes machine i ever advertised

storeVars == <<nodes, offered>>

Node == [available : SUBSET Route, approved : SUBSET Route,
         user : User, name : Name, tags : TagSet, expired : BOOLEAN]

(* What was approved before was advertised before.                         *)
StoreInit ==
    /\ nodes \in [NodeId -> FirstNode]
    /\ offered = [i \in NodeId |-> nodes[i].available \cup nodes[i].approved]

Become(i, n) ==
    /\ nodes[i] # Absent
    /\ nodes' = [nodes EXCEPT ![i] = n]

Approve(i, routes) == Become(i, [nodes[i] EXCEPT !.approved = routes])

(* Exit routes are approved, in place of those that were; subnets stay.    *)
ApproveExit(i) ==
    \E exits \in (SUBSET (offered[i] \cap ExitRoutes)) \ {{}} :
        Approve(i, ApprovedSubnets(nodes[i]) \cup exits)

RejectExit(i) == Approve(i, ApprovedSubnets(nodes[i]))

ApproveRoute(i) == \E r \in offered[i] : Approve(i, nodes[i].approved \cup {r})

RejectRoute(i) == \E r \in Route : Approve(i, nodes[i].approved \ {r})

(* The actions that do not concern routes.                                 *)
Move(i) == \E u \in User : Become(i, [nodes[i] EXCEPT !.user = u])
Rename(i) == \E s \in Name : Become(i, [nodes[i] EXCEPT !.name = s])
Tag(i) == \E t \in TagSet : Become(i, [nodes[i] EXCEPT !.tags = t])
Expire(i) == Become(i, [nodes[i] EXCEPT !.expired = TRUE])
Delete(i) == Become(i, Absent)

Action(i) ==
    /\ \/ ApproveExit(i) \/ RejectExit(i) \/ ApproveRoute(i) \/ RejectRoute(i)
       \/ Move(i) \/ Rename(i) \/ Tag(i) \/ Expire(i) \/ Delete(i)
    /\ UNCHANGED offered

(* The machine itself changes the routes that it advertises.               *)
Advertise(i, routes) ==
    /\ Become(i, [nodes[i] EXCEPT !.available = routes])
    /\ offered' = [offered EXCEPT ![i] = @ \cup routes]

StoreNext == \E i \in NodeId : Action(i) \/ \E routes \in SUBSET Route : Advertise(i, routes)
=============================================================================
