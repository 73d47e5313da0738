------------------------------- MODULE MCUsers ------------------------------
(* Instances of Users for TLC.                                             *)
EXTENDS Users, TLC

OneDay == {24}

(* Windows, machines and names are interchangeable.                        *)
Symmetry == Permutations(Window) \cup Permutations(NodeId) \cup Permutations(Name) \cup Permutations(UserId)
=============================================================================
