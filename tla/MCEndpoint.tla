----------------------------- MODULE MCEndpoint ------------------------------
(***************************************************************************)
(* Small instances of Endpoint.                                            *)
(***************************************************************************)
EXTENDS Endpoint
=============================================================================
