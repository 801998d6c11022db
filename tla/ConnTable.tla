------------------------------ MODULE ConnTable ------------------------------
(***************************************************************************)
(* The hub's table of device connections and the goroutines behind each    *)
(* WebSocket: the handler that reads (HandleWS) and the writer it starts,  *)
(* joined by the buffered channel Send.                                    *)
(*                                                                         *)
(* Every element of Conns is one call of HandleWS, used once.  h.mu is     *)
(* modelled by hmu: Register and the lookups are one critical section      *)
(* each; Unregister holds h.mu over two steps, because between them it     *)
(* takes pendingMu and goroutines that need only pendingMu can run.        *)
(***************************************************************************)
EXTENDS RpcKey

CONSTANTS
    Conns,      \* calls of HandleWS that get past Upgrade
    Msgs,       \* what may be queued on a Send channel
    NoConn,     \* "no entry" in the table
    Free,       \* h.mu is not held for writing across steps
    SendCap     \* capacity of the Send channel

ASSUME ConnAssumption ==
    /\ NoConn \notin Conns
    /\ Free \notin Conns \cup Devices
    /\ Conns \cap Devices = {}
    /\ SendCap \in Nat \ {0}

VARIABLES
    conns,      \* h.conns: device -> connection or NoConn
    cdev,       \* connection -> the device it authenticated as
    handler,    \* connection -> "new" | "reading" | "leaving" | "gone"
    writer,     \* connection -> "none" | "running" | "stopped"
    sendBuf,    \* connection -> contents of Send
    sendClosed, \* connection -> Send has been closed
    hmu         \* Free, or who is inside Unregister: a connection's deferred
                \* call, or RevokeDevice(d) named by the device d

connVars == <<conns, cdev, handler, writer, sendBuf, sendClosed, hmu>>

\* The device whose Unregister holds h.mu.
Unregistering == IF hmu \in Conns THEN cdev[hmu] ELSE hmu

ConnInit ==
    /\ conns = [d \in Devices |-> NoConn]
    /\ cdev \in [Conns -> Devices]
    /\ handler = [c \in Conns |-> "new"]
    /\ writer = [c \in Conns |-> "none"]
    /\ sendBuf = [c \in Conns |-> <<>>]
    /\ sendClosed = [c \in Conns |-> FALSE]
    /\ hmu = Free

-----------------------------------------------------------------------------
\* Mutant: the Send of a connection that leaves the table stays open.
CloseNothing(d) == UNCHANGED sendClosed

\* Close the Send of the connection the table lists for d, if any.
CloseEntry(d) ==
    sendClosed' = [c \in Conns |-> sendClosed[c] \/ c = conns[d]]

\* Mutant: the connection that is replaced is not closed.
RegisterOver(c) ==
    /\ hmu = Free
    /\ handler[c] = "new"
    /\ conns' = [conns EXCEPT ![cdev[c]] = c]
    /\ handler' = [handler EXCEPT ![c] = "reading"]
    /\ writer' = [writer EXCEPT ![c] = "running"]
    /\ UNCHANGED <<cdev, sendBuf, sendClosed, hmu>>

\* HandleWS up to Register and the start of the writer.
Register(c) ==
    /\ hmu = Free
    /\ handler[c] = "new"
    /\ CloseEntry(cdev[c])
    /\ conns' = [conns EXCEPT ![cdev[c]] = c]
    /\ handler' = [handler EXCEPT ![c] = "reading"]
    /\ writer' = [writer EXCEPT ![c] = "running"]
    /\ UNCHANGED <<cdev, sendBuf, hmu>>

\* Mutant: the entry stays in the table.
UnregisterKeepingEntry(who, d) ==
    /\ hmu = Free
    /\ hmu' = who
    /\ CloseEntry(d)
    /\ UNCHANGED <<conns, cdev, handler, writer, sendBuf>>

\* First half of Unregister(d), called by who: close and drop whatever the
\* table holds for d.  h.mu stays held.
UnregisterBegin(who, d) ==
    /\ hmu = Free
    /\ hmu' = who
    /\ CloseEntry(d)
    /\ conns' = [conns EXCEPT ![d] = NoConn]
    /\ UNCHANGED <<cdev, handler, writer, sendBuf>>

\* The deferred Unregister of a handler that is returning.
LeaveBegin(c) ==
    /\ handler[c] = "leaving"
    /\ UnregisterBegin(c, cdev[c])

\* Unregister returns (Hub conjoins the cancelling of pending requests).
LeaveEnd(c) ==
    /\ hmu = c
    /\ hmu' = Free
    /\ handler' = [handler EXCEPT ![c] = "gone"]
    /\ UNCHANGED <<conns, cdev, writer, sendBuf, sendClosed>>

RevokeBegin(d) == UnregisterBegin(d, d)

RevokeEnd(d) ==
    /\ hmu = d
    /\ hmu' = Free
    /\ UNCHANGED <<conns, cdev, handler, writer, sendBuf, sendClosed>>

-----------------------------------------------------------------------------
\* A non-blocking send succeeds on an open channel with room.
HasRoom(c) == Len(sendBuf[c]) < SendCap

Enqueue(c, m) ==
    /\ ~sendClosed[c]
    /\ HasRoom(c)
    /\ sendBuf' = [sendBuf EXCEPT ![c] = Append(@, m)]
    /\ UNCHANGED <<conns, cdev, handler, writer, sendClosed, hmu>>

\* The writer takes a message and writes it to the socket.  It keeps draining
\* a closed channel.
WriterTakes(c) ==
    /\ writer[c] = "running"
    /\ sendBuf[c] # <<>>
    /\ sendBuf' = [sendBuf EXCEPT ![c] = Tail(@)]
    /\ UNCHANGED <<conns, cdev, handler, writer, sendClosed, hmu>>

\* Closed and drained: the writer sends a close frame and returns.
WriterEnds(c) ==
    /\ writer[c] = "running"
    /\ sendClosed[c]
    /\ sendBuf[c] = <<>>
    /\ writer' = [writer EXCEPT ![c] = "stopped"]
    /\ UNCHANGED <<conns, cdev, handler, sendBuf, sendClosed, hmu>>

\* Writing a message fails (it is lost), or a ping fails: the writer returns
\* and nobody reads Send any more.
WriterFails(c) ==
    /\ writer[c] = "running"
    /\ writer' = [writer EXCEPT ![c] = "stopped"]
    /\ \/ /\ sendBuf[c] # <<>>
          /\ sendBuf' = [sendBuf EXCEPT ![c] = Tail(@)]
       \/ UNCHANGED sendBuf
    /\ UNCHANGED <<conns, cdev, handler, sendClosed, hmu>>

\* ReadMessage returns an error: the peer closed, the network failed, or no
\* pong arrived within pongWait.
ReadFails(c) ==
    /\ handler[c] = "reading"
    /\ handler' = [handler EXCEPT ![c] = "leaving"]
    /\ UNCHANGED <<conns, cdev, writer, sendBuf, sendClosed, hmu>>

-----------------------------------------------------------------------------
ConnNext ==
    \/ \E c \in Conns :
          \/ Register(c)
          \/ LeaveBegin(c)
          \/ LeaveEnd(c)
          \/ WriterTakes(c)
          \/ WriterEnds(c)
          \/ WriterFails(c)
          \/ ReadFails(c)
    \/ \E c \in Conns, m \in Msgs : handler[c] # "new" /\ Enqueue(c, m)
    \/ \E d \in Devices : RevokeBegin(d) \/ RevokeEnd(d)

ConnSpec == ConnInit /\ [][ConnNext]_connVars

-----------------------------------------------------------------------------
ConnTypeOK ==
    /\ conns \in [Devices -> Conns \cup {NoConn}]
    /\ cdev \in [Conns -> Devices]
    /\ handler \in [Conns -> {"new", "reading", "leaving", "gone"}]
    /\ writer \in [Conns -> {"none", "running", "stopped"}]
    /\ sendBuf \in [Conns -> Seq(Msgs)]
    /\ \A c \in Conns : Len(sendBuf[c]) <= SendCap
    /\ sendClosed \in [Conns -> BOOLEAN]
    /\ hmu \in {Free} \cup Conns \cup Devices

\* Whatever the table lists for a device is that device's own connection, was
\* registered, and has an open Send.  Register and Unregister close what they
\* find without a test, so this is what keeps them from closing a channel
\* twice, which panics with h.mu held (hub.go, Register and Unregister).
ListedIsOpen ==
    \A d \in Devices : conns[d] # NoConn =>
        /\ cdev[conns[d]] = d
        /\ handler[conns[d]] # "new"
        /\ ~sendClosed[conns[d]]

\* A connection whose Send is open is the one its device is reached by: no
\* socket is replaced or unregistered and left with a writer that waits on
\* Send for ever (hub.go, Register's close of the old Send; ws.go, writer).
OpenIsListed ==
    \A c \in Conns : handler[c] # "new" /\ ~sendClosed[c] => conns[cdev[c]] = c

\* When a handler has returned, its Send is closed, whoever closed it, so the
\* writer it started ends too (ws.go, defer h.Unregister).
GoneIsClosed ==
    \A c \in Conns : handler[c] = "gone" => sendClosed[c]

\* What the three invariants rest on.  A socket that is not yet registered has
\* an open Send with nothing in it.  Whoever is inside Unregister has emptied the entry, and if it
\* is a handler, it is one that is leaving.
NewIsOpen ==
    \A c \in Conns : handler[c] = "new" =>
        ~sendClosed[c] /\ writer[c] = "none" /\ sendBuf[c] = <<>>

HolderEmptied ==
    /\ hmu # Free => conns[Unregistering] = NoConn
    /\ hmu \in Conns => handler[hmu] = "leaving"

ConnInv ==
    /\ ConnTypeOK
    /\ ListedIsOpen
    /\ OpenIsListed
    /\ GoneIsClosed
    /\ NewIsOpen
    /\ HolderEmptied

\* A connection that is in the table and still read leaves it only because a
\* newer one replaces it or its device is revoked.
\* hub.go: "Register adds a device connection. Replaces existing connection for
\* same device_id"; the handler of the connection that was replaced unregisters
\* the device when it returns, and takes the replacement with it.
StaysListed ==
    [][\A c \in Conns :
          conns[cdev[c]] = c /\ handler[c] = "reading" /\ conns'[cdev[c]] # c =>
             \/ conns'[cdev[c]] # NoConn
             \/ hmu' = cdev[c]]_connVars

\* How a socket stands, for its device and for those who send to it.
LinkState(c) ==
    IF handler[c] = "new" THEN "new"
    ELSE IF handler[c] = "gone" THEN "over"
    ELSE IF sendClosed[c] THEN "cut" ELSE "live"

Links == INSTANCE DeviceLinks WITH
    Sockets <- Conns,
    Room <- SendCap,
    of <- cdev,
    state <- [c \in Conns |-> LinkState(c)],
    box <- sendBuf

\* Whatever sockets of a device come, go, hang and are revoked in whatever order,
\* one of them at most takes messages, each is cut in one step though Unregister
\* takes two, and none returns to its caller before it was cut (hub.go, Register
\* and Unregister; ws.go, HandleWS).
ImplementsLinks == Links!Spec

\* Every socket whose Send is closed from the table's side, or whose writer
\* died, ends: its writer and its handler return and its Send is closed.
EverySocketEnds ==
    \A c \in Conns :
        sendClosed[c] \/ writer[c] = "stopped" ~>
            writer[c] = "stopped" /\ handler[c] = "gone" /\ sendClosed[c]
=============================================================================
