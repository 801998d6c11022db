---------------------------- MODULE MCEdgeHello ------------------------------
(***************************************************************************)
(* Small instances of EdgeHello.                                           *)
(***************************************************************************)
EXTENDS EdgeHello

OneDevice == {<<"a">>}
=============================================================================
