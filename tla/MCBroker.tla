------------------------------ MODULE MCBroker ------------------------------
(* Instances of Broker for TLC; the configurations give the numbers of     *)
(* requests and events.                                                    *)
EXTENDS Broker, TLC
=============================================================================
