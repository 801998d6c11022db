---------------------------- MODULE MCHeartbeat ------------------------------
(***************************************************************************)
(* Small instances of Heartbeat.                                           *)
(***************************************************************************)
EXTENDS Heartbeat

OneDevice == {<<"a">>}
=============================================================================
