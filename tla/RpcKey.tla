------------------------------- MODULE RpcKey -------------------------------
(***************************************************************************)
(* The names under which the hub correlates a JSON-RPC request with its    *)
(* answer: "deviceID|rpcID".  Device ids are chosen by whoever registers   *)
(* the device and rpc ids by whoever calls, so both are texts: sequences   *)
(* of characters, one of which is the separator.                           *)
(*                                                                         *)
(* A JSON id is a record [kind, text]: kind "null" stands for a missing or *)
(* null id, "num" and "str" for a number or a string that fmt.Sprint       *)
(* prints as text.                                                         *)
(***************************************************************************)
EXTENDS Naturals, Sequences

CONSTANTS
    Chars,      \* what texts are made of
    Devices     \* device ids, as texts

Bar == "bar"    \* the character |

ASSUME TextAssumption ==
    /\ {Bar, "0"} \subseteq Chars
    /\ Devices \subseteq Seq(Chars)

\* idToString: nil prints as the empty text, anything else as fmt.Sprint does,
\* so the number 7 and the string "7" print alike.
IdToString(v) == IF v.kind = "null" THEN <<>> ELSE v.text

\* The id a request is filed under: ForwardRequestWithOpts replaces an empty
\* text by "0".  DeliverResponse does not.
RequestId(v) == IF IdToString(v) = <<>> THEN <<"0">> ELSE IdToString(v)

\* The id an answer is looked up under.
ResponseId(v) == IdToString(v)

\* Mutant: requests are filed by rpc id alone.
KeyWithoutDevice(dev, id) == id

KeyOf(dev, id) == dev \o <<Bar>> \o id

\* Mutant: the separator is not tested.
OwnedByPrefix(key, dev) ==
    /\ Len(key) > Len(dev)
    /\ SubSeq(key, 1, Len(dev)) = dev

\* Unregister's test that a pending key belongs to a device: a textual prefix
\* followed by the separator.
OwnedBy(key, dev) ==
    /\ Len(key) > Len(dev)
    /\ SubSeq(key, 1, Len(dev)) = dev
    /\ key[Len(dev) + 1] = Bar

\* A text in which the separator does not occur.
BarFree(text) == \A i \in 1..Len(text) : text[i] # Bar
=============================================================================
