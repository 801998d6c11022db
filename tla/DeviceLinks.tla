---------------------------- MODULE DeviceLinks ------------------------------
(***************************************************************************)
(* What the table of connections promises devices and those who send to    *)
(* them, without the table, its lock, the readers and the writers.         *)
(*                                                                         *)
(* A device has one link at most that takes messages.  A later one, or a   *)
(* disconnection, cuts it in one step; a link that was cut takes nothing   *)
(* any more and never comes back; and only a link that was cut is over.    *)
(* What a link has taken leaves it in order, each message once.            *)
(***************************************************************************)
EXTENDS Naturals, Sequences

CONSTANTS Devices, Sockets, Msgs, Room

VARIABLES
    of,     \* socket -> its device
    state,  \* socket -> "new" | "live" | "cut" | "over"
    box     \* socket -> the messages it has taken and not passed on

vars == <<of, state, box>>

Init ==
    /\ of \in [Sockets -> Devices]
    /\ state = [s \in Sockets |-> "new"]
    /\ box = [s \in Sockets |-> <<>>]

Live(d) == {s \in Sockets : of[s] = d /\ state[s] = "live"}

Cut(S) == [s \in Sockets |-> IF s \in S THEN "cut" ELSE state[s]]

Connect(s) ==
    /\ state[s] = "new"
    /\ state' = [Cut(Live(of[s])) EXCEPT ![s] = "live"]
    /\ UNCHANGED <<of, box>>

Disconnect(d) ==
    /\ state' = Cut(Live(d))
    /\ UNCHANGED <<of, box>>

End(s) ==
    /\ state[s] = "cut"
    /\ state' = [state EXCEPT ![s] = "over"]
    /\ UNCHANGED <<of, box>>

Take(s, m) ==
    /\ state[s] = "live"
    /\ Len(box[s]) < Room
    /\ box' = [box EXCEPT ![s] = Append(@, m)]
    /\ UNCHANGED <<of, state>>

Pass(s) ==
    /\ box[s] # <<>>
    /\ box' = [box EXCEPT ![s] = Tail(@)]
    /\ UNCHANGED <<of, state>>

Next ==
    \/ \E s \in Sockets :
          Connect(s) \/ End(s) \/ Pass(s) \/ \E m \in Msgs : Take(s, m)
    \/ \E d \in Devices : Disconnect(d)

Spec == Init /\ [][Next]_vars

\* A link that is cut is over some time.
Ends(s) == state[s] = "cut" ~> state[s] = "over"

CutEnds == \A s \in Sockets : Ends(s)
=============================================================================
