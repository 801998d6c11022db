--------------------------- MODULE MCCredentials ---------------------------
(***************************************************************************)
(* Small instances of Credentials.                                         *)
(***************************************************************************)
EXTENDS Credentials, TLC

OneDevice == {<<"a">>}
TwoDevices == {<<"a">>, <<"b">>}

Symmetry == Permutations(Registers) \cup Permutations(Confirms)
=============================================================================
