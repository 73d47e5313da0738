--------------------------- MODULE MCLiveUpdates ----------------------------
(* Instances of LiveUpdates for TLC: one machine, which changes in what    *)
(* the poller compares, changes hands or is deleted, and one or two users. *)
EXTENDS LiveUpdates, TLC

CONSTANTS n1, u1, u2

Off == [online |-> FALSE, approved |-> {}, available |-> {"net"}, tags |-> {}, user |-> "ann"]
On == [Off EXCEPT !.online = TRUE]
Tagged == [On EXCEPT !.approved = {"net"}, !.tags = {"tag:a"}]
Given == [Off EXCEPT !.user = "bob"]

(* A machine that advertises an exit node, which is then approved.         *)
ExitOffered == [On EXCEPT !.available = {"0.0.0.0/0", "::/0"}]
ExitApproved == [ExitOffered EXCEPT !.approved = {"0.0.0.0/0", "::/0"}]

Machines == {Off, On, Tagged, Given}
ExitNodes == {ExitOffered, ExitApproved}
Names == {"ann", "bob"}

OneNode == n1 :> Off
OneExitNode == n1 :> ExitOffered
OneUser == u1 :> "ann"
TwoUsers == (u1 :> Absent) @@ (u2 :> "bob")

(* What may become of the machine, on and off again, and of users, whose   *)
(* number is the same when one went and the other came.                    *)
AnyChange == {<<Off, On>>, <<On, Off>>, <<On, Tagged>>, <<Off, Absent>>, <<Off, Given>>}
UserExchange == {<<"bob", Absent>>, <<Absent, "ann">>}

NoChange == {}
ComeUp == {<<Off, On>>}
ApproveExit == {<<ExitOffered, ExitApproved>>}
=============================================================================
