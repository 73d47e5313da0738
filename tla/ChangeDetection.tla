--------------------------- MODULE ChangeDetection --------------------------
(***************************************************************************)
(* The change detection of the SSE poller (internal/handlers/sse.go): what *)
(* it remembers of a machine and of a user, and when two polls count as    *)
(* different.                                                              *)
(*                                                                         *)
(* A poll result is a function whose domain is the set of the ids that     *)
(* Headscale listed.  A machine is a record with the fields online,        *)
(* available, approved, tags and user (the name of its user); a user is    *)
(* its name.                                                               *)
(***************************************************************************)
EXTENDS Naturals, FiniteSets, Routes

(* MachineState.  No status is "Approved": ExitNodeStatus says "Allowed"   *)
(* for an approved exit node, so the field exit is always FALSE.           *)
MachineState(n) ==
    [online |-> n.online,
     subnets |-> ApprovedSubnets(n),
     exit |-> ExitNodeStatus(n) = "Approved",
     tags |-> n.tags]

MachineStates(nodes) == [id \in DOMAIN nodes |-> MachineState(nodes[id])]

(* Mutant of DetectMachineChanges: deleted machines go unnoticed.          *)
DetectMachineChangesNoDeletion(current, previous) ==
    \/ \E id \in DOMAIN current : id \notin DOMAIN previous
    \/ \E id \in DOMAIN current \cap DOMAIN previous : current[id] # previous[id]

DetectMachineChanges(current, previous) ==
    \/ \E id \in DOMAIN current : id \notin DOMAIN previous
    \/ \E id \in DOMAIN previous : id \notin DOMAIN current
    \/ \E id \in DOMAIN current \cap DOMAIN previous :
          \/ current[id].online # previous[id].online
          \/ current[id].subnets # previous[id].subnets
          \/ current[id].exit # previous[id].exit
          \/ current[id].tags # previous[id].tags

(* How many machines belong to a user of this name; two users of one name  *)
(* share the count.                                                        *)
MachineCount(nodes, name) == Cardinality({id \in DOMAIN nodes : nodes[id].user = name})

UserStates(users, nodes) ==
    [id \in DOMAIN users |->
        [name |-> users[id], count |-> MachineCount(nodes, users[id])]]

(* Mutant of DetectUserChanges: a user that was not there is passed over.  *)
DetectUserChangesKnown(current, previous) ==
    \/ Cardinality(DOMAIN current) # Cardinality(DOMAIN previous)
    \/ \E id \in DOMAIN current \cap DOMAIN previous :
          \/ current[id].name # previous[id].name
          \/ current[id].count # previous[id].count

(* The numbers of users are compared, then each current user is looked up. *)
DetectUserChanges(current, previous) ==
    \/ Cardinality(DOMAIN current) # Cardinality(DOMAIN previous)
    \/ \E id \in DOMAIN current :
          \/ id \notin DOMAIN previous
          \/ current[id].name # previous[id].name
          \/ current[id].count # previous[id].count
=============================================================================
