------------------------------ MODULE MCAccess -------------------------------
(***************************************************************************)
(* Small instances of Access.                                              *)
(***************************************************************************)
EXTENDS Access, TLC

OneDevice == {<<"a">>}

Symmetry == Permutations(Conns) \cup Permutations(Revokes)
=============================================================================
