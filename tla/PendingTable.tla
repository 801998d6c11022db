---------------------------- MODULE PendingTable ----------------------------
(***************************************************************************)
(* The hub's table of requests that wait for an answer, with the timer and *)
(* the one-slot channel of each.  Every element of Reqs is one call of     *)
(* ForwardRequestWithOpts, used once.                                      *)
(*                                                                         *)
(* Every action is one critical section of pendingMu, except TimerFires:   *)
(* the runtime starts the callback's goroutine, which then has to take the *)
(* lock.  From there on Stop no longer prevents the callback, and the      *)
(* callback finds its entry by key, not by identity.                       *)
(***************************************************************************)
EXTENDS RpcKey

CONSTANTS
    Ids,        \* JSON ids callers use
    Reqs,       \* calls of ForwardRequestWithOpts
    NoReq       \* "no entry", and "no answer" in a channel

ASSUME PendingAssumption ==
    /\ NoReq \notin Reqs
    /\ Ids \subseteq [kind : {"null", "num", "str"}, text : Seq(Chars)]

VARIABLES
    ask,        \* request -> [dev, id] it was made with
    pending,    \* h.pending: key -> request or NoReq
    chan,       \* request -> "none" | "open" | "closed"
    val,        \* request -> the answer its channel got (named by the request
                \* that the device answered), or NoReq
    timer       \* request -> "off" | "armed" | "fired" | "stopped" | "done"

pendingVars == <<ask, pending, chan, val, timer>>

Texts == {IdToString(i) : i \in Ids} \cup {<<"0">>}

Keys == {KeyOf(d, t) : d \in Devices, t \in Texts}

\* The key a request is filed under.
Key(r) == KeyOf(ask[r].dev, RequestId(ask[r].id))

\* The key under which device d's answer to request a is looked up.
AnswerKey(d, a) == KeyOf(d, ResponseId(ask[a].id))

PendingInit ==
    /\ ask \in [Reqs -> [dev : Devices, id : Ids]]
    /\ pending = [k \in Keys |-> NoReq]
    /\ chan = [r \in Reqs |-> "none"]
    /\ val = [r \in Reqs |-> NoReq]
    /\ timer = [r \in Reqs |-> "off"]

-----------------------------------------------------------------------------
\* The requests filed under keys of K.
Filed(K) == {r \in Reqs : \E k \in K : pending[k] = r}

\* Stop on the timer of every request filed under K: it prevents the callback
\* only of a timer that has not fired.
Stopped(K) ==
    [r \in Reqs |-> IF r \in Filed(K) /\ timer[r] = "armed"
                    THEN "stopped" ELSE timer[r]]

\* Mutants: the entries stay; the channels stay open.
DropKeepingEntry(K) ==
    /\ chan' = [r \in Reqs |-> IF r \in Filed(K) THEN "closed" ELSE chan[r]]
    /\ UNCHANGED pending

DropKeepingChan(K) ==
    /\ pending' = [k \in Keys |-> IF k \in K THEN NoReq ELSE pending[k]]
    /\ UNCHANGED chan

\* Delete the entries under K and close their channels.
Drop(K) ==
    /\ pending' = [k \in Keys |-> IF k \in K THEN NoReq ELSE pending[k]]
    /\ chan' = [r \in Reqs |-> IF r \in Filed(K) THEN "closed" ELSE chan[r]]

-----------------------------------------------------------------------------
\* Mutant: a key in use is taken over.
InsertOver(r) ==
    /\ chan[r] = "none"
    /\ pending' = [pending EXCEPT ![Key(r)] = r]
    /\ chan' = [chan EXCEPT ![r] = "open"]
    /\ timer' = [timer EXCEPT ![r] = "armed"]
    /\ UNCHANGED <<ask, val>>

\* A fresh channel and a running timer for request r, under its key.
Insert(r) ==
    /\ chan[r] = "none"
    /\ pending[Key(r)] = NoReq
    /\ pending' = [pending EXCEPT ![Key(r)] = r]
    /\ chan' = [chan EXCEPT ![r] = "open"]
    /\ timer' = [timer EXCEPT ![r] = "armed"]
    /\ UNCHANGED <<ask, val>>

\* The caller gives up before it waits: whatever is filed under its key goes.
Cleanup(r) ==
    /\ chan[r] # "none"
    /\ Drop({Key(r)})
    /\ timer' = Stopped({Key(r)})
    /\ UNCHANGED <<ask, val>>

TimerFires(r) ==
    /\ timer[r] = "armed"
    /\ timer' = [timer EXCEPT ![r] = "fired"]
    /\ UNCHANGED <<ask, pending, chan, val>>

\* The callback of r's timer: whatever is filed under r's key goes.
TimerCallback(r) ==
    /\ timer[r] = "fired"
    /\ Drop({Key(r)})
    /\ timer' = [Stopped({Key(r)}) EXCEPT ![r] = "done"]
    /\ UNCHANGED <<ask, val>>

\* Mutant: the answer goes to every request of the device.
DeliverToDevice(k, a) ==
    LET K == {q \in Keys : OwnedBy(q, ask[a].dev)} IN
    /\ val' = [r \in Reqs |-> IF r \in Filed(K) THEN a ELSE val[r]]
    /\ Drop(K)
    /\ timer' = Stopped(K)
    /\ UNCHANGED ask

\* DeliverResponse under key k of the answer to request a.
Deliver(k, a) ==
    /\ val' = [r \in Reqs |-> IF r \in Filed({k}) THEN a ELSE val[r]]
    /\ Drop({k})
    /\ timer' = Stopped({k})
    /\ UNCHANGED ask

\* Unregister's loop over the table.
CancelOwned(d) ==
    LET K == {k \in Keys : OwnedBy(k, d)} IN
    /\ Drop(K)
    /\ timer' = Stopped(K)
    /\ UNCHANGED <<ask, val>>

PendingNext ==
    \/ \E r \in Reqs :
          Insert(r) \/ Cleanup(r) \/ TimerFires(r) \/ TimerCallback(r)
    \/ \E d \in Devices, a \in Reqs : Deliver(AnswerKey(d, a), a)
    \/ \E d \in Devices : CancelOwned(d)

PendingSpec == PendingInit /\ [][PendingNext]_pendingVars

-----------------------------------------------------------------------------
PendingTypeOK ==
    /\ ask \in [Reqs -> [dev : Devices, id : Ids]]
    /\ pending \in [Keys -> Reqs \cup {NoReq}]
    /\ chan \in [Reqs -> {"none", "open", "closed"}]
    /\ val \in [Reqs -> Reqs \cup {NoReq}]
    /\ timer \in [Reqs -> {"off", "armed", "fired", "stopped", "done"}]

\* An entry is filed under its request's own key and its channel is open: none
\* of the five places that delete an entry and close its channel closes it a
\* second time, which panics with pendingMu held (hub.go, the callback, the two
\* cleanups, Unregister and DeliverResponse).
PendingIsOpen ==
    \A k \in Keys : pending[k] # NoReq =>
        Key(pending[k]) = k /\ chan[pending[k]] = "open"

\* An open channel can be found by its key and is timed: however callbacks,
\* cancellations and answers interleave, nobody waits on a channel that no
\* one can close any more (hub.go, pending and time.AfterFunc).
OpenIsPendingAndTimed ==
    \A r \in Reqs : chan[r] = "open" =>
        pending[Key(r)] = r /\ timer[r] \in {"armed", "fired"}

\* The inductive invariant of the table.
PendingInv ==
    /\ PendingTypeOK
    /\ PendingIsOpen
    /\ OpenIsPendingAndTimed

\* A closed channel is the end: its answer, or the lack of one, stays
\* (hub.go, DeliverResponse sends only before the close).
ClosedIsFinal ==
    [][\A r \in Reqs : chan[r] = "closed" =>
           chan'[r] = "closed" /\ val'[r] = val[r]]_pendingVars
=============================================================================
