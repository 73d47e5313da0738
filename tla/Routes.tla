------------------------------- MODULE Routes -------------------------------
(***************************************************************************)
(* The routes of a Headscale node as internal/models/machine.go reads them *)
(* and as internal/handlers/machine_actions.go computes new ones.          *)
(*                                                                         *)
(* A node advertises routes (AvailableRoutes) and an administrator approves *)
(* some (ApprovedRoutes).  The lists are sets here: neither the order nor  *)
(* a repeated element has a meaning to Headscale.  The two default routes  *)
(* make an exit node; every other route is a subnet.                       *)
(***************************************************************************)

ExitRoutes == {"0.0.0.0/0", "::/0"}

-----------------------------------------------------------------------------
(* What the pages show; n is a record with fields available and approved.  *)

ApprovedSubnets(n) == n.approved \ ExitRoutes

AdvertisedSubnets(n) == n.available \ (n.approved \cup ExitRoutes)

HasSubnetRoutes(n) == ApprovedSubnets(n) # {} \/ AdvertisedSubnets(n) # {}

(* Some exit route is approved and some, perhaps another, is advertised.   *)
ExitNodeApproved(n) ==
    /\ n.approved \cap ExitRoutes # {}
    /\ n.available \cap ExitRoutes # {}

ExitNodeAdvertised(n) == (n.available \cap ExitRoutes) \ n.approved # {}

HasExitNode(n) == ExitNodeApproved(n) \/ ExitNodeAdvertised(n)

ExitNodeStatus(n) ==
    IF ExitNodeApproved(n) THEN "Allowed"
    ELSE IF ExitNodeAdvertised(n) THEN "Awaiting approval" ELSE ""

-----------------------------------------------------------------------------
(* The approved routes that the four route handlers compute from a node.   *)

(* Mutant of ApproveExitRoutes: starts from an empty list.                 *)
ApproveExitRoutesOnly(n) == n.available \cap ExitRoutes

(* The approved subnets stay; every advertised exit route is approved, and *)
(* an approved exit route that is not advertised any more is dropped.      *)
ApproveExitRoutes(n) == (n.approved \ ExitRoutes) \cup (n.available \cap ExitRoutes)

(* Mutant of RejectExitRoutes: only the IPv4 route.                        *)
RejectExitRoutesIPv4(n) == n.approved \ {"0.0.0.0/0"}

RejectExitRoutes(n) == n.approved \ ExitRoutes

(* Mutant of ApproveSubnet: approving twice takes the approval back.       *)
ApproveSubnetToggles(n, route) ==
    IF route \in n.approved THEN n.approved \ {route} ELSE n.approved \cup {route}

ApproveSubnet(n, route) == n.approved \cup {route}

RejectSubnet(n, route) == n.approved \ {route}
=============================================================================
