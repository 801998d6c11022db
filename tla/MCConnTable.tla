---------------------------- MODULE MCConnTable -----------------------------
(***************************************************************************)
(* Small instances of ConnTable.                                           *)
(***************************************************************************)
EXTENDS ConnTable

OneDevice == {<<"a">>}
=============================================================================
