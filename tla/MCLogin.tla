------------------------------ MODULE MCLogin -------------------------------
(* Login with two windows of one browser and two accounts.                 *)
EXTENDS Login

CONSTANTS w1, w2, alice, bob

(* Bob may or may not be in the configured list.                           *)
Lists == {{alice}, {alice, bob}}
=============================================================================
