------------------------------- MODULE MCHub --------------------------------
(***************************************************************************)
(* Small instances of Hub.                                                 *)
(***************************************************************************)
EXTENDS Hub, TLC

Num(n) == [kind |-> "num", text |-> <<n>>]

Null == [kind |-> "null", text |-> <<>>]

OneDevice == {<<"a">>}
\* One name is a prefix of the other.
PrefixDevices == {<<"a">>, <<"a", "b">>}

OneId == {Num("1")}
\* A request without an id is filed under the name that 0 has.
ManyIds == {Num("1"), Num("0"), Null}

Symmetry == Permutations(Conns) \cup Permutations(Reqs)
=============================================================================
