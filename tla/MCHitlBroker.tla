---------------------------- MODULE MCHitlBroker ----------------------------
(* An instance of HitlBroker for TLC. *)
EXTENDS HitlBroker, TLC

CONSTANTS c1, d1

\* One device with one connection.
OneConn == c1 :> d1
=============================================================================
