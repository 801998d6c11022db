------------------------------ MODULE EdgeHello ------------------------------
(***************************************************************************)
(* What a device says of itself over its WebSocket, and the handshake it   *)
(* is answered with.  The reader of a socket finds the entry to describe,  *)
(* the entry to report and the channel to answer on by device id, in three *)
(* lookups under h.mu, and uses what it found after the unlock.            *)
(*                                                                         *)
(* An element of Hellos is one hello with all it reports (version, SHA,    *)
(* protocol, drift, capabilities): every hello replaces the whole report.  *)
(* While a hello is handled the reader reads nothing else.  Of what is     *)
(* queued on Send only the handshakes are modelled here.                   *)
(***************************************************************************)
EXTENDS ConnTable

CONSTANTS
    Hellos,     \* hellos that devices send, in either of the two forms
    NoHello     \* nothing reported yet

\* A handshake: the hello it answers, and the hello its report was taken from.
Handshakes == [to : Hellos, says : Hellos \cup {NoHello}]

ASSUME HelloAssumption ==
    /\ NoHello \notin Hellos
    /\ Msgs = Handshakes

\* HandleWS makes Send with room for 16 messages.
ASSUME RoomAssumption == SendCap <= 16

VARIABLES
    by,         \* hello -> the socket it was read from, or NoConn
    last,       \* socket -> the hello its reader has read last
    place,      \* socket -> where its reader is in HandleDeviceWSInbound
    found,      \* socket -> the entry its reader's latest lookup returned
    seen,       \* socket -> the report its reader will put in the handshake
    edge        \* socket's entry -> the hello that describes it

helloVars == <<by, last, place, found, seen, edge>>
vars == <<connVars, helloVars>>

Places == {"idle", "apply", "find", "snapshot", "report", "get", "send"}

Init ==
    /\ ConnInit
    /\ by = [x \in Hellos |-> NoConn]
    /\ last = [c \in Conns |-> NoHello]
    /\ place = [c \in Conns |-> "idle"]
    /\ found = [c \in Conns |-> NoConn]
    /\ seen = [c \in Conns |-> NoHello]
    /\ edge = [c \in Conns |-> NoHello]

ConnStep(A) == A /\ UNCHANGED helloVars

Move(c, from, to) ==
    /\ place[c] = from
    /\ place' = [place EXCEPT ![c] = to]

-----------------------------------------------------------------------------
\* A message that is a hello; any other is an answer (Hub) or is ignored.
ReadHello(c, x) ==
    /\ handler[c] = "reading"
    /\ by[x] = NoConn
    /\ Move(c, "idle", "find")
    /\ by' = [by EXCEPT ![x] = c]
    /\ last' = [last EXCEPT ![c] = x]
    /\ UNCHANGED <<connVars, found, seen, edge>>

\* A lookup of the device under h.mu.RLock.
LookUp(c, from, to) ==
    /\ hmu = Free
    /\ Move(c, from, to)
    /\ found' = [found EXCEPT ![c] = conns[cdev[c]]]
    /\ UNCHANGED <<connVars, by, last, seen, edge>>

\* applyEdgeHelloToDevice finds an entry, or finds none and returns.
FindEntry(c) ==
    LookUp(c, "find", IF conns[cdev[c]] = NoConn THEN "snapshot" ELSE "apply")

\* Mutant: an entry that has been described is not described again.
ApplyOnce(c) ==
    /\ Move(c, "apply", "snapshot")
    /\ edge' = IF edge[found[c]] = NoHello
                  THEN [edge EXCEPT ![found[c]] = last[c]]
                  ELSE edge
    /\ UNCHANGED <<connVars, by, last, found, seen>>

\* applyEdgeHello, under the entry's edgeMu: the entry found may have left the
\* table by now.
Apply(c) ==
    /\ Move(c, "apply", "snapshot")
    /\ edge' = [edge EXCEPT ![found[c]] = last[c]]
    /\ UNCHANGED <<connVars, by, last, found, seen>>

\* queueHubHandshake looks the device up again ...
FindReport(c) == LookUp(c, "snapshot", "report")

\* ... copies what that entry reports (edgeSnapshot), nothing if there is none ...
Report(c) ==
    /\ Move(c, "report", "get")
    /\ seen' = [seen EXCEPT ![c] = IF found[c] = NoConn THEN NoHello ELSE edge[found[c]]]
    /\ UNCHANGED <<connVars, by, last, found, edge>>

\* ... and looks it up a third time for the channel.
FindChannel(c) ==
    LookUp(c, "get", IF conns[cdev[c]] = NoConn THEN "idle" ELSE "send")

Handshake(c) == [to |-> last[c], says |-> seen[c]]

\* Mutant: the handshake waits for room.
DropNever(c) ==
    /\ Move(c, "send", "send")
    /\ ~HasRoom(found[c])
    /\ UNCHANGED <<connVars, by, last, found, seen, edge>>

\* The handshake is queued if there is room, and dropped if the channel is full.
Queue(c) ==
    /\ Move(c, "send", "idle")
    /\ Enqueue(found[c], Handshake(c))
    /\ UNCHANGED <<by, last, found, seen, edge>>

DropHandshake(c) ==
    /\ Move(c, "send", "idle")
    /\ ~sendClosed[found[c]]
    /\ ~HasRoom(found[c])
    /\ UNCHANGED <<connVars, by, last, found, seen, edge>>

\* The channel has been closed since: the send panics.  The panic unwinds
\* HandleWS, whose deferred Unregister runs, and net/http recovers from it.
Panic(c) ==
    /\ Move(c, "send", "idle")
    /\ sendClosed[found[c]]
    /\ handler' = [handler EXCEPT ![c] = "leaving"]
    /\ UNCHANGED <<conns, cdev, writer, sendBuf, sendClosed, hmu>>
    /\ UNCHANGED <<by, last, found, seen, edge>>

\* ReadMessage fails; only a reader that is not handling a message is in it.
ReadEnds(c) ==
    /\ place[c] = "idle"
    /\ ConnStep(ReadFails(c))

-----------------------------------------------------------------------------
Handle(c) ==
    \/ Apply(c)
    \/ Report(c)
    \/ Queue(c)
    \/ DropHandshake(c)
    \/ Panic(c)

Find(c) == FindEntry(c) \/ FindReport(c) \/ FindChannel(c)

Next ==
    \/ \E c \in Conns :
          \/ Handle(c)
          \/ Find(c)
          \/ ReadEnds(c)
          \/ ConnStep(Register(c))
          \/ ConnStep(LeaveBegin(c))
          \/ ConnStep(LeaveEnd(c))
          \/ ConnStep(WriterTakes(c))
          \/ ConnStep(WriterEnds(c))
          \/ ConnStep(WriterFails(c))
    \/ \E c \in Conns, x \in Hellos : ReadHello(c, x)
    \/ \E d \in Devices : ConnStep(RevokeBegin(d)) \/ ConnStep(RevokeEnd(d))

Spec == Init /\ [][Next]_vars

\* Fairness.  A writer that can proceed does, and so does a reader that handles a
\* hello.  A socket whose writer has stopped gets no more pings.  It is assumed
\* that its peer pongs only in answer to pings: then the read deadline passes, which
\* other messages do not move, and one read must fail, however many hellos are
\* read before it.  Go's mutexes hand
\* the lock to a waiter that has waited long enough.  So both are strong; peers,
\* new sockets, hellos and revocations need not do anything.
Write(c) == ConnStep(WriterTakes(c) \/ WriterEnds(c) \/ WriterFails(c))

Depart(c) ==
    \/ writer[c] = "stopped" /\ ReadEnds(c)
    \/ ConnStep(LeaveBegin(c))

Proceed(c) == Handle(c) \/ Find(c)

Unlock ==
    \/ \E c \in Conns : ConnStep(LeaveEnd(c))
    \/ \E d \in Devices : ConnStep(RevokeEnd(d))

FairSocket(c) ==
    /\ WF_vars(Write(c))
    /\ SF_vars(Depart(c))
    /\ SF_vars(Proceed(c))

FairHolder == WF_vars(Unlock)

Fairness == FairHolder /\ \A c \in Conns : FairSocket(c)

FairSpec == Spec /\ Fairness

-----------------------------------------------------------------------------
HelloTypeOK ==
    /\ by \in [Hellos -> Conns \cup {NoConn}]
    /\ last \in [Conns -> Hellos \cup {NoHello}]
    /\ place \in [Conns -> Places]
    /\ found \in [Conns -> Conns \cup {NoConn}]
    /\ seen \in [Conns -> Hellos \cup {NoHello}]
    /\ edge \in [Conns -> Hellos \cup {NoHello}]

\* The hello x was read from another socket than c.
Foreign(x, c) == x # NoHello /\ by[x] # c

\* An entry is described by its own socket, or by a socket of the same device
\* that is no longer the listed one: the only stranger that can describe it is
\* one that was cut off while it was still read (edge_hello.go,
\* applyEdgeHelloToDevice, which finds the entry by device id).
StrangersAreCutOff ==
    \A c \in Conns : Foreign(edge[c], c) =>
        /\ by[edge[c]] \in Conns
        /\ cdev[by[edge[c]]] = cdev[c]
        /\ sendClosed[by[edge[c]]]

\* The panic of the reader, which sends on a channel looked up before, hits only
\* sockets that were cut off already: a device does not lose a live socket by
\* saying hello, whatever happens to the connections it finds (edge_hello.go,
\* queueHubHandshake).
LiveReadersSurvive ==
    \A c \in Conns :
        place[c] = "send" /\ sendClosed[found[c]] => sendClosed[c]

\* The report of a live socket is up to date: once its reader is through with a
\* hello, its entry is described by that hello, unless by a stranger's; never
\* by an older one of its own, and never by none.
LatestIsShown ==
    \A c \in Conns :
        ~sendClosed[c] /\ last[c] # NoHello /\ place[c] = "idle" =>
            edge[c] = last[c] \/ Foreign(edge[c], c)

\* A handshake that a socket gets in answer to its own hello reports that hello
\* back, unless a stranger's (edge_hello.go, tryConsumeEdgeHello: apply, then
\* queueHubHandshake, with three lookups in between).
HandshakeEchoes ==
    \A c \in Conns : \A i \in DOMAIN sendBuf[c] :
        LET h == sendBuf[c][i] IN
        by[h.to] = c => h.says = h.to \/ Foreign(h.says, c)

\* Nobody on the way to a socket's end is stuck: the writer of a closed channel,
\* the reader wherever it is with its hello, though the channel it sends on be
\* full and its writer dead, the handler that leaves, and whoever holds h.mu
\* (ws.go, HandleWS; edge_hello.go, queueHubHandshake's select).
StepsEnabled ==
    /\ hmu # Free => ENABLED <<Unlock>>_vars
    /\ \A c \in Conns :
          /\ writer[c] = "running" /\ sendClosed[c] => ENABLED <<Write(c)>>_vars
          /\ \/ place[c] \in {"apply", "report", "send"}
             \/ place[c] \in {"find", "snapshot", "get"} /\ hmu = Free
             => ENABLED <<Proceed(c)>>_vars
          /\ \/ writer[c] = "stopped" /\ handler[c] = "reading" /\ place[c] = "idle"
             \/ handler[c] = "leaving" /\ hmu = Free
             => ENABLED <<Depart(c)>>_vars
=============================================================================
