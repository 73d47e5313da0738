-------------------------- MODULE MCMachineActions --------------------------
(* Instances of MachineActions for TLC.                                    *)
EXTENDS MachineActions, TLC

ExitAndSubnet == {"0.0.0.0/0", "::/0", "net"}
Subnets == {"net", "lan"}

MachineWith(available, approved) ==
    [available |-> available, approved |-> approved,
     user |-> "ann", name |-> "a", tags |-> {}, expired |-> FALSE]

(* Nothing offered, everything offered, and half of it approved.           *)
Offering == {MachineWith({}, {}), MachineWith(Route, {}), MachineWith(Route, {"net"})}

OneUser == {"ann"}
OneName == {"a"}
NoTags == {{}}
SomeTags == {{}, {"tag:a"}}

(* Handlers, and machines, are interchangeable.                            *)
Symmetry == Permutations(Handler) \cup Permutations(NodeId)
=============================================================================
