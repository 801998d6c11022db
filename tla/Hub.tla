-------------------------------- MODULE Hub ---------------------------------
(***************************************************************************)
(* The hub's core: callers of ForwardRequestWithOpts, the table of pending *)
(* requests with its timers, the table of connections with its WebSocket   *)
(* goroutines, and the devices behind them.                                *)
(*                                                                         *)
(* h.mu and pendingMu are two locks.  A caller takes pendingMu, releases   *)
(* it, reads the connection under h.mu, releases it, and sends on the      *)
(* channel it found without any lock; each of these is a step.             *)
(***************************************************************************)
EXTENDS ConnTable, PendingTable

CONSTANT MaxAttempts    \* HUB_FORWARD_SEND_RETRIES, 4 by default

ASSUME HubAssumption ==
    /\ MaxAttempts \in Nat \ {0}
    /\ Reqs \subseteq Msgs

\* forward_retry.go caps the number of attempts.
ASSUME AttemptsAssumption == MaxAttempts <= 50

VARIABLES
    phase,      \* request -> "idle" | "filed" | "sending" | "giveup" |
                \*            "waiting" | "answered" | "failed" | "panicked"
    rconn,      \* request -> the connection its lookup found, or NoConn
    tries,      \* request -> send attempts made so far
    received,   \* requests that reached their device
    emitted     \* requests whose answer the device has sent

hubVars == <<phase, rconn, tries, received, emitted>>
vars == <<connVars, pendingVars, hubVars>>

Init ==
    /\ ConnInit
    /\ PendingInit
    /\ phase = [r \in Reqs |-> "idle"]
    /\ rconn = [r \in Reqs |-> NoConn]
    /\ tries = [r \in Reqs |-> 0]
    /\ received = {}
    /\ emitted = {}

Goto(r, p) == phase' = [phase EXCEPT ![r] = p]

Ended(r) == phase[r] \in {"answered", "failed", "panicked"}

-----------------------------------------------------------------------------
\* ForwardRequestWithOpts.

\* The payload is not JSON.
BadPayload(r) ==
    /\ phase[r] = "idle"
    /\ Goto(r, "failed")
    /\ UNCHANGED <<connVars, pendingVars, rconn, tries, received, emitted>>

\* The id is in flight for this device.
Duplicate(r) ==
    /\ phase[r] = "idle"
    /\ pending[Key(r)] # NoReq
    /\ Goto(r, "failed")
    /\ UNCHANGED <<connVars, pendingVars, rconn, tries, received, emitted>>

File(r) ==
    /\ phase[r] = "idle"
    /\ Insert(r)
    /\ Goto(r, "filed")
    /\ UNCHANGED <<connVars, rconn, tries, received, emitted>>

\* Mutant: any listed connection will do.
LookupAny(r) ==
    /\ phase[r] = "filed"
    /\ hmu = Free
    /\ \E c \in {conns[d] : d \in Devices} :
          /\ rconn' = [rconn EXCEPT ![r] = c]
          /\ Goto(r, IF c = NoConn THEN "giveup" ELSE "sending")
    /\ UNCHANGED <<connVars, pendingVars, tries, received, emitted>>

\* The connection is read under h.mu.
Lookup(r) ==
    /\ phase[r] = "filed"
    /\ hmu = Free
    /\ rconn' = [rconn EXCEPT ![r] = conns[ask[r].dev]]
    /\ Goto(r, IF rconn'[r] = NoConn THEN "giveup" ELSE "sending")
    /\ UNCHANGED <<connVars, pendingVars, tries, received, emitted>>

\* Mutant: a send that does not stop the loop.
SendAndRetry(r) ==
    /\ phase[r] = "sending"
    /\ Enqueue(rconn[r], r)
    /\ UNCHANGED <<pendingVars, hubVars>>

\* Mutant: a send without a default waits for room.
SendBlocks(r) ==
    /\ phase[r] = "sending"
    /\ ~sendClosed[rconn[r]]
    /\ HasRoom(rconn[r])
    /\ UNCHANGED vars

\* forwardTrySend: one attempt on the connection found earlier.
SendOk(r) ==
    /\ phase[r] = "sending"
    /\ Enqueue(rconn[r], r)
    /\ Goto(r, "waiting")
    /\ UNCHANGED <<pendingVars, rconn, tries, received, emitted>>

SendFull(r) ==
    /\ phase[r] = "sending"
    /\ ~sendClosed[rconn[r]]
    /\ ~HasRoom(rconn[r])
    /\ tries' = [tries EXCEPT ![r] = @ + 1]
    /\ Goto(r, IF tries'[r] = MaxAttempts THEN "giveup" ELSE "sending")
    /\ UNCHANGED <<connVars, pendingVars, rconn, received, emitted>>

\* Sending on a closed channel panics; the entry in the table stays.
SendPanics(r) ==
    /\ phase[r] = "sending"
    /\ sendClosed[rconn[r]]
    /\ Goto(r, "panicked")
    /\ UNCHANGED <<connVars, pendingVars, rconn, tries, received, emitted>>

Send(r) == SendOk(r) \/ SendFull(r) \/ SendPanics(r)

\* Offline, or the buffer stayed full: drop the entry and return an error.
GiveUp(r) ==
    /\ phase[r] = "giveup"
    /\ Cleanup(r)
    /\ Goto(r, "failed")
    /\ UNCHANGED <<connVars, rconn, tries, received, emitted>>

\* The caller's receive from its channel.
Finish(r) ==
    /\ phase[r] = "waiting"
    /\ chan[r] = "closed"
    /\ Goto(r, IF val[r] = NoReq THEN "failed" ELSE "answered")
    /\ UNCHANGED <<connVars, pendingVars, rconn, tries, received, emitted>>

-----------------------------------------------------------------------------
\* The device and the socket.

\* The writer puts a request on the wire and the device reads it.
ReachDevice(c) ==
    /\ WriterTakes(c)
    /\ received' = received \cup ({Head(sendBuf[c])} \cap Reqs)
    /\ UNCHANGED <<pendingVars, phase, rconn, tries, emitted>>

\* The device answers a request, once, on any of its sockets that is still
\* read, and the handler of that socket delivers the answer.  That devices answer
\* what they received, and once, is assumed: DeliverResponse would give an answer
\* that repeats, or that nobody asked for, to whatever call has its name.
DeviceAnswer(c, a) ==
    /\ handler[c] = "reading"
    /\ a \in received \ emitted
    /\ ask[a].dev = cdev[c]
    /\ emitted' = emitted \cup {a}
    /\ Deliver(AnswerKey(cdev[c], a), a)
    /\ UNCHANGED <<connVars, phase, rconn, tries, received>>

-----------------------------------------------------------------------------
\* Steps of the connection table, with what Unregister does to the requests.

ConnOnly(A) == A /\ UNCHANGED <<pendingVars, hubVars>>

\* Mutant: Unregister forgets the requests.
ForgetRequests(who) ==
    /\ hmu = who
    /\ UNCHANGED pendingVars

\* Unregister's last step, before it releases h.mu.
CancelRequests(who) ==
    /\ hmu = who
    /\ CancelOwned(Unregistering)

Leave(c) == LeaveEnd(c) /\ CancelRequests(c) /\ UNCHANGED hubVars

Revoked(d) == RevokeEnd(d) /\ CancelRequests(d) /\ UNCHANGED hubVars

Forward(r) ==
    \/ BadPayload(r)
    \/ Duplicate(r)
    \/ File(r)
    \/ Lookup(r)
    \/ SendOk(r)
    \/ SendFull(r)
    \/ SendPanics(r)
    \/ GiveUp(r)
    \/ Finish(r)

\* Whoever holds h.mu releases it.
Unlock == (\E c \in Conns : Leave(c)) \/ (\E d \in Devices : Revoked(d))

Timer(r) ==
    /\ TimerFires(r) \/ TimerCallback(r)
    /\ UNCHANGED <<connVars, hubVars>>

Next ==
    \/ \E r \in Reqs : Forward(r) \/ Timer(r)
    \/ \E c \in Conns :
          \/ ConnOnly(Register(c))
          \/ ConnOnly(LeaveBegin(c))
          \/ Leave(c)
          \/ ReachDevice(c)
          \/ ConnOnly(WriterEnds(c))
          \/ ConnOnly(WriterFails(c))
          \/ ConnOnly(ReadFails(c))
          \/ \E a \in Reqs : DeviceAnswer(c, a)
    \/ \E d \in Devices : ConnOnly(RevokeBegin(d)) \/ Revoked(d)

Spec == Init /\ [][Next]_vars

-----------------------------------------------------------------------------
\* Fairness.  Every goroutine that can run does: the callers past their first
\* step, the timers, and whoever holds h.mu.  Go's RWMutex lets waiting readers
\* in when a writer leaves, so a lookup is not kept out for ever by one
\* Unregister after another: strong fairness.  Devices, sockets, new callers
\* and revocations need not do anything.
FairCall(r) ==
    /\ SF_vars(Lookup(r))
    /\ WF_vars(Send(r))
    /\ WF_vars(GiveUp(r))
    /\ WF_vars(Finish(r))
    /\ WF_vars(Timer(r))

FairHolder == WF_vars(Unlock)

Fairness == FairHolder /\ \A r \in Reqs : FairCall(r)

FairSpec == Spec /\ Fairness

-----------------------------------------------------------------------------
HubTypeOK ==
    /\ ConnTypeOK
    /\ PendingTypeOK
    /\ phase \in [Reqs -> {"idle", "filed", "sending", "giveup", "waiting",
                           "answered", "failed", "panicked"}]
    /\ rconn \in [Reqs -> Conns \cup {NoConn}]
    /\ tries \in [Reqs -> 0..MaxAttempts]
    /\ received \subseteq Reqs
    /\ emitted \subseteq Reqs

\* A caller that has sent, or is about to, and still waits, waits for a device
\* that is connected or is being unregistered right now.  It relies on the
\* entry being filed before the connection is looked up, and on Unregister
\* holding h.mu until it has cancelled the requests: a request that slips
\* between the two would wait the whole timeout for a device that has gone
\* (hub.go, ForwardRequestWithOpts and Unregister).
NoWaitOnOffline ==
    \A r \in Reqs :
        phase[r] \in {"sending", "waiting"} /\ chan[r] = "open" =>
            \/ conns[ask[r].dev] # NoConn
            \/ hmu # Free /\ Unregistering = ask[r].dev

\* A request travels only on sockets of the device it was made for, and
\* reaches the device at most as often as it was sent: once.
SentToItsDevice ==
    \A c \in Conns : \A i, j \in DOMAIN sendBuf[c] :
        LET r == sendBuf[c][i] IN
        /\ ask[r].dev = cdev[c]
        /\ phase[r] \in {"waiting", "answered", "failed"}
        /\ r \notin received
        /\ sendBuf[c][j] = r => i = j

\* The last step of a call is taken with its channel made: what the steps of
\* a call, and the messages it sends, presuppose.
CallsInStep ==
    /\ \A r \in Reqs :
          /\ phase[r] \notin {"idle", "failed"} => chan[r] # "none"
          /\ phase[r] = "idle" => chan[r] = "none"
          /\ phase[r] \in {"idle", "filed", "sending"} => tries[r] < MaxAttempts
          /\ phase[r] = "sending" =>
                /\ rconn[r] \in Conns
                /\ cdev[rconn[r]] = ask[r].dev
                /\ handler[rconn[r]] # "new"
    /\ \A c \in Conns : \A i \in 1..Len(sendBuf[c]) :
          sendBuf[c][i] \in Reqs =>
             /\ ask[sendBuf[c][i]].dev = cdev[c]
             /\ chan[sendBuf[c][i]] # "none"
    /\ \A a \in received : chan[a] # "none"
    /\ emitted \subseteq received

\* The inductive invariant of the hub.
HubInv ==
    /\ ConnInv
    /\ PendingInv
    /\ HubTypeOK
    /\ CallsInStep
    /\ NoWaitOnOffline

\* An answer ends a call that was made to the same device under the same
\* name, and no answer ends two calls.
AnswersMatch ==
    \A r \in Reqs : val[r] # NoReq =>
        /\ Key(val[r]) = Key(r)
        /\ \A q \in Reqs : val[q] = val[r] => q = r

\* A call gets the answer to another call's request only when that other call
\* has already ended: an answer is never taken from the caller it is for.
NoTheft ==
    \A r \in Reqs : val[r] \notin {NoReq, r} => chan[val[r]] = "closed"

\* A channel is closed without an answer only because its own device is being
\* unregistered, its own timer went off or its own caller gave up, or because
\* that came late for a call of the same name that had already ended.  No call
\* is cut short on behalf of another device or name, or of a call that is still
\* open (hub.go, the callback and the two cleanups find their entry by key).
ClosedForAReason ==
    [][\A r \in Reqs :
          chan[r] = "open" /\ chan'[r] = "closed" /\ val'[r] = NoReq =>
             \/ hmu # Free /\ Unregistering = ask[r].dev
             \/ \E q \in Reqs :
                   /\ Key(q) = Key(r) /\ (q = r \/ chan[q] # "open")
                   /\ \/ timer[q] = "fired" /\ timer'[q] = "done"
                      \/ phase[q] = "giveup" /\ phase'[q] = "failed"]_vars

\* An answer that arrives while its caller's channel is open ends that call, if
\* its id prints as something: a request without an id is filed under one key
\* and looked up under another (hub.go, ForwardRequestWithOpts, DeliverResponse).
Prints(id) == IdToString(id) # <<>>

AnswerReachesCaller ==
    [][\A a \in Reqs :
          a \in emitted' \ emitted /\ chan[a] = "open" /\ Prints(ask[a].id) =>
             val'[a] = a]_vars

\* A call returns: it never panics.
\* hub.go: "ForwardRequest sends a JSON-RPC request to the device and waits for
\* the response. Returns the response body or error."
NoPanic == \A r \in Reqs : phase[r] # "panicked"

\* An answer comes from the device the request was made to.
AnswersFromOwnDevice ==
    \A r \in Reqs : val[r] # NoReq => ask[val[r]].dev = ask[r].dev

\* What SentToItsDevice rests on: a request is queued once, by a call that has
\* sent and will not send again, and is either queued or received.
Sent(r) == phase[r] \in {"waiting", "answered", "failed"}

SentOnce ==
    /\ \A c \in Conns : \A i \in 1..Len(sendBuf[c]) :
          /\ sendBuf[c][i] \in Reqs \ received
          /\ Sent(sendBuf[c][i])
    /\ \A c, e \in Conns : \A i \in 1..Len(sendBuf[c]), j \in 1..Len(sendBuf[e]) :
          sendBuf[c][i] = sendBuf[e][j] => c = e /\ i = j
    /\ \A a \in received : Sent(a)

\* The inductive invariants of what calls send, and of what they get.
SendInv == HubInv /\ SentOnce

\* A call that got an answer got one its device has sent.
AnswersSent == \A r \in Reqs : val[r] # NoReq => val[r] \in emitted

CallInv == HubInv /\ AnswersSent /\ AnswersMatch /\ NoTheft

\* No device id contains the separator: what keeps names of pending requests
\* apart.  The code does not test it.
BarFreeDevices == \A d \in Devices : BarFree(d)

-----------------------------------------------------------------------------
\* How a call ended.  The hub implements what it promises its callers.
Outcome(r) ==
    CASE phase[r] = "answered" -> "answered"
      [] phase[r] \in {"failed", "panicked"} -> "failed"
      [] OTHER -> "none"

Calls == INSTANCE ForwardSpec WITH
    name <- [r \in Reqs |-> Key(r)],
    status <- chan,
    answer <- val,
    result <- [r \in Reqs |-> Outcome(r)]

\* Every step of the hub is a step, or a stutter, of ForwardSpec: names are
\* occupied by one call at a time, answers match names and are used once.
ImplementsCalls == Calls!Spec

\* The hub moves its two tables only as ConnTable and PendingTable say: what
\* carries their theorems over to the hub.
ImplementsTables == ConnSpec /\ PendingSpec

-----------------------------------------------------------------------------
\* Nobody is stuck: whoever is at one of these places has a step to take.  A
\* caller that waits for h.mu waits for somebody who can release it, one that
\* waits for its channel for a timer that can fire, and each step finds what it
\* needs (hub.go, ForwardRequestWithOpts, Unregister and the timer's callback).
StepsEnabled ==
    /\ hmu # Free => ENABLED <<Unlock>>_vars
    /\ \A r \in Reqs :
          /\ phase[r] = "filed" /\ hmu = Free => ENABLED <<Lookup(r)>>_vars
          /\ phase[r] = "sending" => ENABLED <<Send(r)>>_vars
          /\ phase[r] = "giveup" => ENABLED <<GiveUp(r)>>_vars
          /\ phase[r] = "waiting" /\ chan[r] = "closed" => ENABLED <<Finish(r)>>_vars
          /\ timer[r] \in {"armed", "fired"} => ENABLED <<Timer(r)>>_vars

\* Every call ends: whatever the device, the sockets and the other callers do,
\* it returns or panics, and no entry or timer of it stays behind.
EveryCallEnds ==
    \A r \in Reqs : phase[r] # "idle" ~> Ended(r) /\ chan[r] # "open"
=============================================================================
