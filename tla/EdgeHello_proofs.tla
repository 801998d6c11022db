-------------------------- MODULE EdgeHello_proofs ---------------------------
(***************************************************************************)
(* What entries and handshakes report, for every set of devices, sockets   *)
(* and hellos.                                                             *)
(*                                                                         *)
(* Everything rests on one fact about lookups by device id: a reader finds *)
(* its own socket, or its socket has been cut off (FoundOwnOrCutOff, from  *)
(* ConnTable's OpenIsListed).  As a Send that is closed stays closed, the  *)
(* fact may be used after the lock is released.                            *)
(***************************************************************************)
EXTENDS EdgeHello, ConnTable_proofs

\* Where a reader stands, and what it has in hand.
ReaderInStep(c) ==
    /\ last[c] # NoHello => by[last[c]] = c
    /\ place[c] # "idle" => handler[c] = "reading" /\ last[c] # NoHello
    /\ place[c] \in {"apply", "send"} => found[c] # NoConn
    /\ found[c] # NoConn => cdev[found[c]] = cdev[c] /\ handler[found[c]] # "new"

FoundOwnOrCutOff(c) ==
    place[c] \notin {"idle", "find"} => found[c] = c \/ sendClosed[c]

\* LatestIsShown, from the moment the hello has been applied.
Shown(c) ==
    ~sendClosed[c] /\ last[c] # NoHello /\ place[c] \notin {"find", "apply"} =>
        edge[c] = last[c] \/ Foreign(edge[c], c)

SeenIsShown(c) ==
    /\ seen[c] # NoHello => by[seen[c]] # NoConn
    /\ ~sendClosed[c] /\ place[c] \in {"get", "send"} =>
          seen[c] = last[c] \/ Foreign(seen[c], c)

\* A handshake h that waits in the Send of c.
Echo(h, c) ==
    /\ by[h.to] # NoConn
    /\ h.says # NoHello => by[h.says] # NoConn
    /\ by[h.to] = c => h.says = h.to \/ Foreign(h.says, c)

HelloInv ==
    /\ ConnInv
    /\ HelloTypeOK
    /\ \A c \in Conns :
          ReaderInStep(c) /\ FoundOwnOrCutOff(c) /\ Shown(c) /\ SeenIsShown(c)
    /\ StrangersAreCutOff
    /\ \A c \in Conns : \A i \in DOMAIN sendBuf[c] : Echo(sendBuf[c][i], c)

LEMMA InitHelloInv == ASSUME Init PROVE HelloInv
<1>1. ConnInv
  BY InitConnInv DEF Init
<1>2. HelloTypeOK /\ StrangersAreCutOff
  BY DEF Init, HelloTypeOK, Places, StrangersAreCutOff, Foreign
<1>3. \A c \in Conns :
         ReaderInStep(c) /\ FoundOwnOrCutOff(c) /\ Shown(c) /\ SeenIsShown(c)
  BY DEF Init, ReaderInStep, FoundOwnOrCutOff, Shown, SeenIsShown
<1>4. \A c \in Conns : DOMAIN sendBuf[c] = {}
  BY DEF Init, ConnInit
<1> QED
  BY <1>1, <1>2, <1>3, <1>4 DEF HelloInv

-----------------------------------------------------------------------------
\* What no step of the connection table undoes.
LEMMA ConnMonotone ==
    ASSUME ConnInv, [ConnNext]_connVars
    PROVE  /\ cdev' = cdev
           /\ \A c \in Conns : sendClosed[c] => sendClosed'[c]
           /\ \A c \in Conns : handler[c] # "new" => handler'[c] # "new"
<1>0. \A c \in Conns : handler[c] # "new" => handler'[c] # "new"
  BY RegisteredStays DEF ConnInv
<1>1. CASE UNCHANGED connVars
  BY <1>1 DEF connVars
<1>2. ASSUME NEW e \in Conns,
             \/ WriterTakes(e) \/ WriterEnds(e) \/ WriterFails(e)
             \/ ReadFails(e) \/ LeaveEnd(e)
      PROVE  UNCHANGED <<cdev, sendClosed>>
  BY <1>2 DEF WriterTakes, WriterEnds, WriterFails, ReadFails, LeaveEnd
<1>3. ASSUME NEW e \in Conns, Register(e) \/ LeaveBegin(e)
      PROVE  cdev' = cdev /\ \A c \in Conns : sendClosed[c] => sendClosed'[c]
  BY <1>3 DEF Register, LeaveBegin, UnregisterBegin, CloseEntry
<1>4. ASSUME NEW d \in Devices, RevokeBegin(d) \/ RevokeEnd(d)
      PROVE  cdev' = cdev /\ \A c \in Conns : sendClosed[c] => sendClosed'[c]
  BY <1>4 DEF RevokeBegin, RevokeEnd, UnregisterBegin, CloseEntry
<1>5. ASSUME NEW e \in Conns, NEW m \in Msgs, Enqueue(e, m)
      PROVE  UNCHANGED <<cdev, sendClosed>>
  BY <1>5 DEF Enqueue
<1> QED
  BY <1>0, <1>1, <1>2, <1>3, <1>4, <1>5 DEF ConnNext

\* A handshake is a message, queued on the channel of a socket.
LEMMA HandshakeIsMsg ==
    ASSUME HelloInv, NEW c \in Conns, place[c] = "send"
    PROVE  /\ found[c] \in Conns
           /\ handler[found[c]] # "new"
           /\ Handshake(c) \in Msgs
           /\ handler[c] = "reading"
           /\ last[c] \in Hellos
<1>1. ReaderInStep(c)
  BY DEF HelloInv
<1> QED
  BY <1>1, HelloAssumption
     DEF HelloInv, HelloTypeOK, ReaderInStep, Handshake, Handshakes

\* A step of EdgeHello is a step of the connection table: the panic of a reader
\* looks there like a failed read.
LEMMA HelloMovesConns ==
    ASSUME HelloInv, [Next]_vars
    PROVE  [ConnNext]_connVars
<1>1. ASSUME NEW c \in Conns, Handle(c) PROVE [ConnNext]_connVars
  <2>1. CASE Queue(c)
    BY <2>1, HandshakeIsMsg DEF Queue, Move, ConnNext
  <2>2. CASE Panic(c)
    <3>1. ReadFails(c)
      BY <2>2, HandshakeIsMsg DEF Panic, Move, ReadFails
    <3> QED
      BY <3>1 DEF ConnNext
  <2>3. CASE Apply(c) \/ Report(c) \/ DropHandshake(c)
    BY <2>3 DEF Apply, Report, DropHandshake
  <2> QED
    BY <1>1, <2>1, <2>2, <2>3 DEF Handle
<1>2. ASSUME NEW c \in Conns, Find(c) PROVE [ConnNext]_connVars
  BY <1>2 DEF Find, FindEntry, FindReport, FindChannel, LookUp
<1>3. ASSUME NEW c \in Conns, NEW x \in Hellos, ReadHello(c, x)
      PROVE  [ConnNext]_connVars
  BY <1>3 DEF ReadHello
<1>4. ASSUME NEW c \in Conns,
             \/ ReadEnds(c)
             \/ ConnStep(Register(c))
             \/ ConnStep(LeaveBegin(c))
             \/ ConnStep(LeaveEnd(c))
             \/ ConnStep(WriterTakes(c))
             \/ ConnStep(WriterEnds(c))
             \/ ConnStep(WriterFails(c))
      PROVE  [ConnNext]_connVars
  BY <1>4 DEF ReadEnds, ConnStep, ConnNext
<1>5. ASSUME NEW d \in Devices, ConnStep(RevokeBegin(d)) \/ ConnStep(RevokeEnd(d))
      PROVE  [ConnNext]_connVars
  BY <1>5 DEF ConnStep, ConnNext
<1> QED
  BY <1>1, <1>2, <1>3, <1>4, <1>5 DEF Next, vars

-----------------------------------------------------------------------------
\* The actions of the table leave what is said of hellos alone, and let no
\* reader be elsewhere than in ReadMessage when its handler leaves.
LEMMA ConnStepKeeps ==
    ASSUME HelloInv, [ConnNext]_connVars, UNCHANGED helloVars,
           \A c \in Conns : place[c] # "idle" => handler'[c] = handler[c],
           \A c \in Conns : \A i \in DOMAIN sendBuf'[c] :
              \E j \in DOMAIN sendBuf[c] : sendBuf'[c][i] = sendBuf[c][j]
    PROVE  HelloInv'
<1>1. ConnInv'
  BY NextConnInv DEF HelloInv
<1>2. /\ cdev' = cdev
      /\ \A c \in Conns : sendClosed[c] => sendClosed'[c]
      /\ \A c \in Conns : handler[c] # "new" => handler'[c] # "new"
  BY ConnMonotone DEF HelloInv
<1>3. HelloTypeOK'
  BY DEF HelloInv, HelloTypeOK, helloVars
<1>4. ASSUME NEW c \in Conns
      PROVE  (ReaderInStep(c) /\ FoundOwnOrCutOff(c) /\ Shown(c) /\ SeenIsShown(c))'
  BY <1>2
     DEF HelloInv, HelloTypeOK, ReaderInStep, FoundOwnOrCutOff, Shown, SeenIsShown,
         Foreign, helloVars
<1>5. StrangersAreCutOff'
  BY <1>2 DEF HelloInv, StrangersAreCutOff, Foreign, helloVars
<1>6. ASSUME NEW c \in Conns, NEW i \in DOMAIN sendBuf'[c]
      PROVE  Echo(sendBuf[c][i], c)'
  <2>1. PICK j \in DOMAIN sendBuf[c] : sendBuf'[c][i] = sendBuf[c][j]
    OBVIOUS
  <2>2. Echo(sendBuf[c][j], c)
    BY <2>1 DEF HelloInv
  <2> QED
    BY <2>1, <2>2 DEF Echo, Foreign, helloVars
<1> QED
  BY <1>1, <1>3, <1>4, <1>5, <1>6 DEF HelloInv

\* What remains in a channel after the writer took a message was there before.
LEMMA TailWasThere ==
    ASSUME ConnTypeOK, NEW c \in Conns, sendBuf[c] # <<>>,
           NEW i \in DOMAIN Tail(sendBuf[c])
    PROVE  \E j \in DOMAIN sendBuf[c] : Tail(sendBuf[c])[i] = sendBuf[c][j]
<1>1. sendBuf[c] \in Seq(Msgs)
  BY DEF ConnTypeOK
<1>2. /\ Tail(sendBuf[c]) \in Seq(Msgs)
      /\ Len(Tail(sendBuf[c])) = Len(sendBuf[c]) - 1
      /\ Len(sendBuf[c]) \in Nat
      /\ \A k \in 1 .. Len(sendBuf[c]) - 1 : Tail(sendBuf[c])[k] = sendBuf[c][k + 1]
  BY <1>1
<1>3. i \in 1 .. Len(sendBuf[c]) - 1 /\ i + 1 \in 1 .. Len(sendBuf[c])
  BY <1>1, <1>2
<1>4. i + 1 \in DOMAIN sendBuf[c]
  BY <1>1, <1>3
<1> QED
  BY <1>2, <1>3, <1>4

LEMMA ConnActionsKeep ==
    ASSUME HelloInv, NEW c \in Conns,
           \/ ReadEnds(c)
           \/ ConnStep(Register(c))
           \/ ConnStep(LeaveBegin(c))
           \/ ConnStep(LeaveEnd(c))
           \/ ConnStep(WriterTakes(c))
           \/ ConnStep(WriterEnds(c))
           \/ ConnStep(WriterFails(c))
    PROVE  HelloInv'
<1>1. [ConnNext]_connVars /\ UNCHANGED helloVars
  BY DEF ReadEnds, ConnStep, ConnNext
<1>2. ASSUME NEW e \in Conns, place[e] # "idle" PROVE handler'[e] = handler[e]
  <2>1. handler[e] = "reading" /\ (hmu \in Conns => handler[hmu] = "leaving")
    BY <1>2 DEF HelloInv, ReaderInStep, ConnInv, HolderEmptied
  <2> QED
    BY <1>2, <2>1
       DEF HelloInv, ConnInv, ConnTypeOK, ReadEnds, ConnStep, Register, LeaveBegin,
           UnregisterBegin, LeaveEnd, WriterTakes, WriterEnds, WriterFails, ReadFails
<1>3. ASSUME NEW e \in Conns, NEW i \in DOMAIN sendBuf'[e]
      PROVE  \E j \in DOMAIN sendBuf[e] : sendBuf'[e][i] = sendBuf[e][j]
  <2>1. \/ sendBuf' = sendBuf
        \/ sendBuf[c] # <<>> /\ sendBuf' = [sendBuf EXCEPT ![c] = Tail(sendBuf[c])]
    <3>1. CASE ConnStep(WriterTakes(c)) \/ ConnStep(WriterFails(c))
      BY <3>1 DEF ConnStep, WriterTakes, WriterFails
    <3>2. CASE ReadEnds(c) \/ ConnStep(WriterEnds(c))
      BY <3>2 DEF ReadEnds, ConnStep, WriterEnds, ReadFails
    <3>3. CASE ConnStep(Register(c)) \/ ConnStep(LeaveBegin(c)) \/ ConnStep(LeaveEnd(c))
      BY <3>3 DEF ConnStep, Register, LeaveBegin, UnregisterBegin, LeaveEnd
    <3> QED
      BY <3>1, <3>2, <3>3
  <2>2. ConnTypeOK /\ sendBuf \in [Conns -> Seq(Msgs)]
    BY DEF HelloInv, ConnInv, ConnTypeOK
  <2>3. CASE sendBuf'[e] = sendBuf[e]
    BY <1>3, <2>3
  <2>4. CASE sendBuf'[e] # sendBuf[e]
    <3>1. e = c /\ sendBuf[c] # <<>> /\ sendBuf'[e] = Tail(sendBuf[c])
      BY <2>1, <2>2, <2>4
    <3> QED
      BY <1>3, <2>2, <3>1, TailWasThere
  <2> QED
    BY <2>3, <2>4
<1> QED
  BY <1>1, <1>2, <1>3, ConnStepKeeps

LEMMA RevocationKeeps ==
    ASSUME HelloInv, NEW d \in Devices,
           ConnStep(RevokeBegin(d)) \/ ConnStep(RevokeEnd(d))
    PROVE  HelloInv'
<1>1. [ConnNext]_connVars /\ UNCHANGED helloVars
  BY DEF ConnStep, ConnNext
<1>2. handler' = handler /\ sendBuf' = sendBuf
  BY DEF ConnStep, RevokeBegin, RevokeEnd, UnregisterBegin
<1> QED
  BY <1>1, <1>2, ConnStepKeeps

-----------------------------------------------------------------------------
\* The steps of a reader leave the table and the other readers alone.
LEMMA ReaderTable ==
    ASSUME HelloInv, [Next]_vars
    PROVE  /\ ConnInv'
           /\ cdev' = cdev
           /\ \A c \in Conns : sendClosed[c] => sendClosed'[c]
           /\ \A c \in Conns : handler[c] # "new" => handler'[c] # "new"
<1>1. [ConnNext]_connVars
  BY HelloMovesConns
<1> QED
  BY <1>1, NextConnInv, ConnMonotone DEF HelloInv

\* A hello that has not been read describes and answers nothing yet.
LEMMA ReadHelloKeeps ==
    ASSUME HelloInv, NEW c \in Conns, NEW x \in Hellos, ReadHello(c, x)
    PROVE  HelloInv'
<1>1. ConnInv' /\ UNCHANGED connVars
  BY ReaderTable DEF ReadHello, Next
<1>2. /\ by[x] = NoConn /\ by' = [by EXCEPT ![x] = c]
      /\ last' = [last EXCEPT ![c] = x]
      /\ place[c] = "idle" /\ place' = [place EXCEPT ![c] = "find"]
      /\ handler[c] = "reading"
      /\ UNCHANGED <<found, seen, edge>>
  BY DEF ReadHello, Move
<1>3. HelloTypeOK'
  BY <1>2 DEF HelloInv, HelloTypeOK, Places
<1>4. \A y \in Hellos : by[y] # NoConn => y # x /\ by'[y] = by[y]
  BY <1>2 DEF HelloInv, HelloTypeOK
<1>5. ASSUME NEW e \in Conns PROVE StrangersAreCutOff /\ (edge[e] # NoHello => by'[edge[e]] = by[edge[e]])
  <2>1. edge[e] # NoHello => by[edge[e]] \in Conns /\ edge[e] \in Hellos
    BY DEF HelloInv, HelloTypeOK, StrangersAreCutOff, Foreign
  <2> QED
    BY <2>1, <1>4, ConnAssumption DEF HelloInv
<1>6. ASSUME NEW e \in Conns
      PROVE  (ReaderInStep(e) /\ FoundOwnOrCutOff(e) /\ Shown(e) /\ SeenIsShown(e))'
  <2>0. ReaderInStep(e) /\ FoundOwnOrCutOff(e) /\ Shown(e) /\ SeenIsShown(e)
    BY DEF HelloInv
  <2>1. ReaderInStep(e)'
    <3>1. CASE e = c
      BY <1>1, <1>2, <3>1, <2>0, HelloAssumption
         DEF HelloInv, HelloTypeOK, ReaderInStep, connVars
    <3>2. CASE e # c
      BY <1>1, <1>2, <1>4, <3>2, <2>0, ConnAssumption
         DEF HelloInv, HelloTypeOK, ReaderInStep, connVars
    <3> QED
      BY <3>1, <3>2
  <2>2. FoundOwnOrCutOff(e)' /\ Shown(e)'
    BY <1>1, <1>2, <1>5, <2>0
       DEF HelloInv, HelloTypeOK, FoundOwnOrCutOff, Shown, Foreign, connVars
  <2>3. SeenIsShown(e)'
    <3>1. seen[e] # NoHello => by'[seen[e]] = by[seen[e]]
      BY <1>4, <2>0 DEF HelloInv, HelloTypeOK, SeenIsShown
    <3> QED
      BY <1>1, <1>2, <3>1, <2>0, ConnAssumption
         DEF HelloInv, HelloTypeOK, SeenIsShown, Foreign, connVars
  <2> QED
    BY <2>1, <2>2, <2>3
<1>7. StrangersAreCutOff'
  BY <1>1, <1>2, <1>5 DEF HelloInv, StrangersAreCutOff, Foreign, connVars
<1>8. ASSUME NEW e \in Conns, NEW i \in DOMAIN sendBuf'[e]
      PROVE  Echo(sendBuf[e][i], e)'
  <2>1. i \in DOMAIN sendBuf[e] /\ sendBuf' = sendBuf
    BY <1>1, <1>8 DEF connVars
  <2>2. sendBuf[e][i] \in Handshakes
    BY <2>1, HelloAssumption DEF HelloInv, ConnInv, ConnTypeOK
  <2>3. Echo(sendBuf[e][i], e)
    BY <2>1 DEF HelloInv
  <2> QED
    BY <2>1, <2>2, <2>3, <1>4 DEF Echo, Foreign, Handshakes
<1> QED
  BY <1>1, <1>3, <1>6, <1>7, <1>8 DEF HelloInv

\* A reader looks its device up: it finds its own socket, or has been cut off.
LEMMA FindKeeps ==
    ASSUME HelloInv, NEW c \in Conns, Find(c)
    PROVE  HelloInv'
<1>1. ConnInv' /\ UNCHANGED connVars
  BY ReaderTable DEF Find, FindEntry, FindReport, FindChannel, LookUp, Next
<1>2. /\ found' = [found EXCEPT ![c] = conns[cdev[c]]]
      /\ UNCHANGED <<by, last, seen, edge>>
  BY DEF Find, FindEntry, FindReport, FindChannel, LookUp
<1>3. /\ place[c] # "idle"
      /\ \E to \in Places :
            /\ place' = [place EXCEPT ![c] = to]
            /\ to \in {"apply", "send"} => conns[cdev[c]] # NoConn
            /\ to \in {"get", "send"} => place[c] = "get"
            /\ to \notin {"find", "apply"} =>
                  place[c] \notin {"find", "apply"} \/ conns[cdev[c]] = NoConn
  BY DEF Find, FindEntry, FindReport, FindChannel, LookUp, Move, Places
<1>4. HelloTypeOK'
  <2>1. conns[cdev[c]] \in Conns \cup {NoConn}
    BY DEF HelloInv, ConnInv, ConnTypeOK
  <2> QED
    BY <1>2, <1>3, <2>1 DEF HelloInv, HelloTypeOK
<1>5. /\ conns[cdev[c]] # c => sendClosed[c]
      /\ conns[cdev[c]] # NoConn =>
            cdev[conns[cdev[c]]] = cdev[c] /\ handler[conns[cdev[c]]] # "new"
  BY <1>3 DEF HelloInv, ReaderInStep, ConnInv, ConnTypeOK, OpenIsListed, ListedIsOpen
<1>6. ASSUME NEW e \in Conns
      PROVE  (ReaderInStep(e) /\ FoundOwnOrCutOff(e) /\ Shown(e) /\ SeenIsShown(e))'
  <2>0. ReaderInStep(e) /\ FoundOwnOrCutOff(e) /\ Shown(e) /\ SeenIsShown(e)
    BY DEF HelloInv
  <2>1. CASE e # c
    BY <1>1, <1>2, <1>3, <2>0, <2>1
       DEF HelloInv, HelloTypeOK, ReaderInStep, FoundOwnOrCutOff, Shown, SeenIsShown,
           Foreign, connVars
  <2>2. CASE e = c
    <3>1. ReaderInStep(c)' /\ FoundOwnOrCutOff(c)'
      BY <1>1, <1>2, <1>3, <1>5, <2>0, <2>2
         DEF HelloInv, HelloTypeOK, ReaderInStep, FoundOwnOrCutOff, connVars
    <3>2. Shown(c)'
      BY <1>1, <1>2, <1>3, <1>5, <2>0, <2>2, ConnAssumption
         DEF HelloInv, HelloTypeOK, Shown, Foreign, connVars
    <3>3. SeenIsShown(c)'
      BY <1>1, <1>2, <1>3, <2>0, <2>2
         DEF HelloInv, HelloTypeOK, SeenIsShown, Foreign, connVars
    <3> QED
      BY <2>2, <3>1, <3>2, <3>3
  <2> QED
    BY <2>1, <2>2
<1>7. StrangersAreCutOff'
  BY <1>1, <1>2 DEF HelloInv, StrangersAreCutOff, Foreign, connVars
<1>8. \A e \in Conns : \A i \in DOMAIN sendBuf'[e] : Echo(sendBuf[e][i], e)'
  BY <1>1, <1>2 DEF HelloInv, Echo, Foreign, connVars
<1> QED
  BY <1>1, <1>4, <1>6, <1>7, <1>8 DEF HelloInv

\* applyEdgeHello: the entry is the reader's own, or the reader is a stranger
\* that has been cut off.
LEMMA ApplyKeeps ==
    ASSUME HelloInv, NEW c \in Conns, Apply(c)
    PROVE  HelloInv'
<1>1. ConnInv' /\ UNCHANGED connVars
  BY ReaderTable DEF Apply, Handle, Next
<1>2. /\ place[c] = "apply" /\ place' = [place EXCEPT ![c] = "snapshot"]
      /\ edge' = [edge EXCEPT ![found[c]] = last[c]]
      /\ UNCHANGED <<by, last, found, seen>>
  BY DEF Apply, Move
<1>3. /\ found[c] \in Conns
      /\ last[c] \in Hellos /\ last[c] # NoHello /\ by[last[c]] = c
      /\ cdev[found[c]] = cdev[c]
      /\ found[c] = c \/ sendClosed[c]
  BY <1>2 DEF HelloInv, HelloTypeOK, ReaderInStep, FoundOwnOrCutOff
<1>4. HelloTypeOK'
  BY <1>2, <1>3 DEF HelloInv, HelloTypeOK, Places
<1>5. ASSUME NEW e \in Conns
      PROVE  (ReaderInStep(e) /\ FoundOwnOrCutOff(e) /\ Shown(e) /\ SeenIsShown(e))'
  <2>0. ReaderInStep(e) /\ FoundOwnOrCutOff(e) /\ Shown(e) /\ SeenIsShown(e)
    BY DEF HelloInv
  <2>1. ReaderInStep(e)' /\ FoundOwnOrCutOff(e)'
    BY <1>1, <1>2, <2>0
       DEF HelloInv, HelloTypeOK, ReaderInStep, FoundOwnOrCutOff, connVars
  <2>2. Shown(e)'
    <3>1. CASE e = found[c]
      BY <1>1, <1>2, <1>3, <3>1 DEF HelloInv, HelloTypeOK, Shown, Foreign, connVars
    <3>2. CASE e # found[c]
      BY <1>1, <1>2, <1>3, <2>0, <3>2
         DEF HelloInv, HelloTypeOK, Shown, Foreign, connVars
    <3> QED
      BY <3>1, <3>2
  <2>3. SeenIsShown(e)'
    BY <1>1, <1>2, <2>0 DEF HelloInv, HelloTypeOK, SeenIsShown, Foreign, connVars
  <2> QED
    BY <2>1, <2>2, <2>3
<1>6. StrangersAreCutOff'
  BY <1>1, <1>2, <1>3 DEF HelloInv, HelloTypeOK, StrangersAreCutOff, Foreign, connVars
<1>7. \A e \in Conns : \A i \in DOMAIN sendBuf'[e] : Echo(sendBuf[e][i], e)'
  BY <1>1, <1>2 DEF HelloInv, Echo, Foreign, connVars
<1> QED
  BY <1>1, <1>4, <1>5, <1>6, <1>7 DEF HelloInv

\* edgeSnapshot: a live reader copies its own entry, which shows its hello.
LEMMA ReportKeeps ==
    ASSUME HelloInv, NEW c \in Conns, Report(c)
    PROVE  HelloInv'
<1>1. ConnInv' /\ UNCHANGED connVars
  BY ReaderTable DEF Report, Handle, Next
<1> DEFINE says == IF found[c] = NoConn THEN NoHello ELSE edge[found[c]]
<1>2. /\ place[c] = "report" /\ place' = [place EXCEPT ![c] = "get"]
      /\ seen' = [seen EXCEPT ![c] = says]
      /\ UNCHANGED <<by, last, found, edge>>
  BY DEF Report, Move
<1>3. says \in Hellos \cup {NoHello} /\ (says # NoHello => by[says] # NoConn)
  BY ConnAssumption DEF HelloInv, HelloTypeOK, StrangersAreCutOff, Foreign
<1>4. ~sendClosed[c] => says = last[c] \/ Foreign(says, c)
  BY <1>2, ConnAssumption
     DEF HelloInv, ReaderInStep, FoundOwnOrCutOff, Shown
<1> HIDE DEF says
<1>5. HelloTypeOK'
  BY <1>2, <1>3 DEF HelloInv, HelloTypeOK, Places
<1>6. ASSUME NEW e \in Conns
      PROVE  (ReaderInStep(e) /\ FoundOwnOrCutOff(e) /\ Shown(e) /\ SeenIsShown(e))'
  <2>0. ReaderInStep(e) /\ FoundOwnOrCutOff(e) /\ Shown(e) /\ SeenIsShown(e)
    BY DEF HelloInv
  <2>1. ReaderInStep(e)' /\ FoundOwnOrCutOff(e)' /\ Shown(e)'
    BY <1>1, <1>2, <2>0
       DEF HelloInv, HelloTypeOK, ReaderInStep, FoundOwnOrCutOff, Shown, Foreign, connVars
  <2>2. SeenIsShown(e)'
    BY <1>1, <1>2, <1>3, <1>4, <2>0
       DEF HelloInv, HelloTypeOK, SeenIsShown, Foreign, connVars
  <2> QED
    BY <2>1, <2>2
<1>7. StrangersAreCutOff'
  BY <1>1, <1>2 DEF HelloInv, StrangersAreCutOff, Foreign, connVars
<1>8. \A e \in Conns : \A i \in DOMAIN sendBuf'[e] : Echo(sendBuf[e][i], e)'
  BY <1>1, <1>2 DEF HelloInv, Echo, Foreign, connVars
<1> QED
  BY <1>1, <1>5, <1>6, <1>7, <1>8 DEF HelloInv

\* A reader that is through with its hello, whatever became of the handshake.
LEMMA ReaderDone ==
    ASSUME HelloInv, NEW c \in Conns, Move(c, "send", "idle"),
           UNCHANGED <<by, last, found, seen, edge>>,
           ConnInv', cdev' = cdev,
           \A e \in Conns : sendClosed[e] => sendClosed'[e],
           \A e \in Conns : e # c => handler'[e] = handler[e],
           \A e \in Conns : handler[e] # "new" => handler'[e] # "new"
    PROVE  /\ HelloTypeOK'
           /\ \A e \in Conns :
                 (ReaderInStep(e) /\ FoundOwnOrCutOff(e) /\ Shown(e) /\ SeenIsShown(e))'
           /\ StrangersAreCutOff'
<1>1. HelloTypeOK'
  BY DEF HelloInv, HelloTypeOK, Move, Places
<1>2. ASSUME NEW e \in Conns
      PROVE  (ReaderInStep(e) /\ FoundOwnOrCutOff(e) /\ Shown(e) /\ SeenIsShown(e))'
  BY DEF HelloInv, HelloTypeOK, ReaderInStep, FoundOwnOrCutOff, Shown, SeenIsShown,
         Foreign, Move
<1>3. StrangersAreCutOff'
  BY DEF HelloInv, StrangersAreCutOff, Foreign
<1> QED
  BY <1>1, <1>2, <1>3

\* The handshake that is queued echoes its hello if it goes to the hello's own
\* socket, which is then a live one.
LEMMA QueueKeeps ==
    ASSUME HelloInv, NEW c \in Conns, Queue(c)
    PROVE  HelloInv'
<1> DEFINE h == Handshake(c)
           f == found[c]
<1>1. /\ ConnInv' /\ cdev' = cdev
      /\ \A e \in Conns : sendClosed[e] => sendClosed'[e]
      /\ \A e \in Conns : handler[e] # "new" => handler'[e] # "new"
  BY ReaderTable DEF Handle, Next
<1>2. /\ Move(c, "send", "idle") /\ place[c] = "send"
      /\ ~sendClosed[f]
      /\ sendBuf' = [sendBuf EXCEPT ![f] = Append(@, h)]
      /\ UNCHANGED <<by, last, found, seen, edge, handler>>
  BY DEF Queue, Enqueue, Move
<1>3. f \in Conns /\ h \in Msgs /\ last[c] \in Hellos
  BY <1>2, HandshakeIsMsg
<1>4. Echo(h, f)
  <2>1. h.to = last[c] /\ h.says = seen[c]
    BY DEF Handshake
  <2>2. ReaderInStep(c) /\ SeenIsShown(c)
    BY DEF HelloInv
  <2> HIDE DEF h
  <2> QED
    BY <1>2, <1>3, <2>1, <2>2, HelloAssumption, ConnAssumption
       DEF Echo, ReaderInStep, SeenIsShown
<1> HIDE DEF h, f
<1>5. ASSUME NEW e \in Conns, NEW i \in DOMAIN sendBuf'[e]
      PROVE  Echo(sendBuf[e][i], e)'
  <2>1. sendBuf \in [Conns -> Seq(Msgs)]
    BY DEF HelloInv, ConnInv, ConnTypeOK
  <2>2. CASE e = f
    <3>1. sendBuf'[e] = Append(sendBuf[f], h) /\ sendBuf[f] \in Seq(Msgs)
      BY <1>2, <1>3, <2>1, <2>2
    <3>2. \/ i \in DOMAIN sendBuf[f] /\ sendBuf'[e][i] = sendBuf[f][i]
          \/ sendBuf'[e][i] = h
      BY <1>3, <1>5, <3>1
    <3> QED
      BY <1>2, <1>3, <1>4, <2>2, <3>2 DEF HelloInv, Echo, Foreign
  <2>3. CASE e # f
    <3>1. sendBuf'[e] = sendBuf[e]
      BY <1>2, <2>1, <2>3
    <3> QED
      BY <1>2, <1>5, <3>1 DEF HelloInv, Echo, Foreign
  <2> QED
    BY <2>2, <2>3
<1> QED
  BY <1>1, <1>2, <1>5, ReaderDone DEF HelloInv

\* A handshake that is dropped, and a reader that panics.
LEMMA NothingQueuedKeeps ==
    ASSUME HelloInv, NEW c \in Conns, DropHandshake(c) \/ Panic(c)
    PROVE  HelloInv'
<1>1. /\ ConnInv' /\ cdev' = cdev
      /\ \A e \in Conns : sendClosed[e] => sendClosed'[e]
      /\ \A e \in Conns : handler[e] # "new" => handler'[e] # "new"
  BY ReaderTable DEF Handle, Next
<1>2. /\ Move(c, "send", "idle")
      /\ UNCHANGED <<by, last, found, seen, edge, sendBuf>>
  BY DEF DropHandshake, Panic, connVars
<1>3. \A e \in Conns : e # c => handler'[e] = handler[e]
  BY DEF HelloInv, ConnInv, ConnTypeOK, DropHandshake, Panic, connVars
<1>4. \A e \in Conns : \A i \in DOMAIN sendBuf'[e] : Echo(sendBuf[e][i], e)'
  BY <1>2 DEF HelloInv, Echo, Foreign
<1> QED
  BY <1>1, <1>2, <1>3, <1>4, ReaderDone DEF HelloInv

-----------------------------------------------------------------------------
\* HelloInv is inductive.
LEMMA NextHelloInv == ASSUME HelloInv, [Next]_vars PROVE HelloInv'
<1>1. ASSUME NEW c \in Conns, Handle(c) PROVE HelloInv'
  BY <1>1, ApplyKeeps, ReportKeeps, QueueKeeps, NothingQueuedKeeps DEF Handle
<1>2. ASSUME NEW c \in Conns, Find(c) PROVE HelloInv'
  BY <1>2, FindKeeps
<1>3. ASSUME NEW c \in Conns, NEW x \in Hellos, ReadHello(c, x) PROVE HelloInv'
  BY <1>3, ReadHelloKeeps
<1>4. ASSUME NEW c \in Conns,
             \/ ReadEnds(c)
             \/ ConnStep(Register(c))
             \/ ConnStep(LeaveBegin(c))
             \/ ConnStep(LeaveEnd(c))
             \/ ConnStep(WriterTakes(c))
             \/ ConnStep(WriterEnds(c))
             \/ ConnStep(WriterFails(c))
      PROVE  HelloInv'
  BY <1>4, ConnActionsKeep
<1>5. ASSUME NEW d \in Devices, ConnStep(RevokeBegin(d)) \/ ConnStep(RevokeEnd(d))
      PROVE  HelloInv'
  BY <1>5, RevocationKeeps
<1>6. ASSUME UNCHANGED vars PROVE HelloInv'
  BY <1>6, ConnStepKeeps DEF vars, connVars
<1> QED
  BY <1>1, <1>2, <1>3, <1>4, <1>5, <1>6 DEF Next

\* HelloInv holds in every reachable state.
THEOREM HelloInvariant == Spec => []HelloInv
<1>1. Init => HelloInv
  BY InitHelloInv
<1>2. HelloInv /\ [Next]_vars => HelloInv'
  BY NextHelloInv
<1> QED
  BY <1>1, <1>2, PTL DEF Spec

\* Readers that handle hellos, panics included, move the connection table as
\* ConnTable says: its theorems hold here too.
THEOREM HelloImplementsConns == Spec => ConnSpec
<1>1. Init => ConnInit
  BY DEF Init
<1>2. HelloInv /\ [Next]_vars => [ConnNext]_connVars
  BY HelloMovesConns
<1> QED
  BY <1>1, <1>2, HelloInvariant, PTL DEF Spec, ConnSpec

\* Only a socket that was cut off describes an entry that is not its own, and
\* it is one of the same device.
THEOREM StrangersCutOff == Spec => []StrangersAreCutOff
<1>1. HelloInv => StrangersAreCutOff
  BY DEF HelloInv
<1> QED
  BY <1>1, HelloInvariant, PTL

\* A live socket's entry shows the hello its reader has read last, or a
\* stranger's.
THEOREM LatestShown == Spec => []LatestIsShown
<1>1. HelloInv => LatestIsShown
  BY DEF HelloInv, LatestIsShown, Shown
<1> QED
  BY <1>1, HelloInvariant, PTL

\* A handshake that comes back to the socket of its hello reports that hello, or
\* a stranger's.
THEOREM HandshakesEcho == Spec => []HandshakeEchoes
<1>1. HelloInv => HandshakeEchoes
  BY DEF HelloInv, HandshakeEchoes, Echo
<1> QED
  BY <1>1, HelloInvariant, PTL

\* No live socket is lost to a handshake sent on a closed channel.
THEOREM ReadersSurvive == Spec => []LiveReadersSurvive
<1>1. HelloInv => LiveReadersSurvive
  BY DEF HelloInv, LiveReadersSurvive, FoundOwnOrCutOff
<1> QED
  BY <1>1, HelloInvariant, PTL

-----------------------------------------------------------------------------
(***************************************************************************)
(* Every socket that is cut off, or whose writer died, ends.  The prover   *)
(* does not know what ENABLED means, so that the step somebody is at can   *)
(* be taken is a premise, the state predicate StepsEnabled that TLC checks.*)
(***************************************************************************)

\* A writer is started when its socket is registered.
WritersKnown == \A c \in Conns : writer[c] = "none" <=> handler[c] = "new"

LEMMA NextWritersKnown ==
    ASSUME ConnInv, WritersKnown, [ConnNext]_connVars
    PROVE  WritersKnown'
<1>0. ConnTypeOK /\ HolderEmptied
  BY DEF ConnInv
<1>1. ASSUME NEW e \in Conns,
             \/ Register(e) \/ LeaveBegin(e) \/ LeaveEnd(e) \/ ReadFails(e)
             \/ WriterTakes(e) \/ WriterEnds(e) \/ WriterFails(e)
      PROVE  WritersKnown'
  BY <1>0, <1>1
     DEF Register, LeaveBegin, LeaveEnd, ReadFails, WriterTakes, WriterEnds,
         WriterFails, UnregisterBegin, WritersKnown, ConnTypeOK, HolderEmptied
<1>2. ASSUME UNCHANGED <<handler, writer>> PROVE WritersKnown'
  BY <1>2 DEF WritersKnown
<1> QED
  BY <1>1, <1>2
     DEF ConnNext, RevokeBegin, RevokeEnd, UnregisterBegin, Enqueue, connVars

LEMMA WritersInvariant == Spec => []WritersKnown
<1>1. Init => WritersKnown
  BY DEF Init, ConnInit, WritersKnown
<1>2. HelloInv /\ WritersKnown /\ [Next]_vars => WritersKnown'
  BY NextWritersKnown, HelloMovesConns DEF HelloInv
<1> QED
  BY <1>1, <1>2, HelloInvariant, PTL DEF Spec

\* h.mu is free again and again.
LEMMA MuFree == FairSpec /\ []StepsEnabled => []<>(hmu = Free)
<1>1. <<Unlock>>_vars => (hmu = Free)'
  BY DEF Unlock, ConnStep, LeaveEnd, RevokeEnd
<1>2. StepsEnabled /\ ~(hmu = Free) => ENABLED <<Unlock>>_vars
  BY DEF StepsEnabled
<1> QED
  BY <1>1, <1>2, PTL DEF FairSpec, Fairness, FairHolder

LEMMA FairParts ==
    ASSUME NEW c \in Conns
    PROVE  FairSpec => Spec /\ FairSocket(c) /\ FairHolder
BY DEF FairSpec, Fairness

-----------------------------------------------------------------------------
\* The writer.  Of the SendCap messages that fit into a closed Send, i are
\* through, or were never there.
Through(c, i) ==
    sendClosed[c] /\ writer[c] = "running" /\ Len(sendBuf[c]) + i <= SendCap

Stopped(c) == writer[c] = "stopped"

LEMMA WriterSteps ==
    ASSUME HelloInv, WritersKnown, [Next]_vars, NEW c \in Conns
    PROVE  /\ Stopped(c) => Stopped(c)'
           /\ \A i \in Nat : Through(c, i) => Through(c, i)' \/ Stopped(c)'
<1>0. ConnTypeOK /\ ConnInv /\ [ConnNext]_connVars /\ ConnTypeOK'
  BY HelloMovesConns, NextConnInv DEF HelloInv, ConnInv
<1>1. sendClosed[c] => sendClosed'[c]
  BY <1>0, ConnMonotone
<1>2. writer[c] = "stopped" => writer'[c] = "stopped"
  BY <1>0 DEF ConnNext, Register, LeaveBegin, LeaveEnd, ReadFails, WriterTakes,
     WriterEnds, WriterFails, UnregisterBegin, RevokeBegin, RevokeEnd, Enqueue,
     connVars, ConnTypeOK, WritersKnown
<1>3. writer[c] = "running" => writer'[c] \in {"running", "stopped"}
  BY <1>0 DEF ConnNext, Register, LeaveBegin, LeaveEnd, ReadFails, WriterTakes,
     WriterEnds, WriterFails, UnregisterBegin, RevokeBegin, RevokeEnd, Enqueue,
     connVars, ConnTypeOK, WritersKnown
<1>4. sendClosed[c] => Len(sendBuf'[c]) <= Len(sendBuf[c])
  <2> SUFFICES ASSUME sendClosed[c] PROVE Len(sendBuf'[c]) <= Len(sendBuf[c])
    OBVIOUS
  <2>1. sendBuf[c] \in Seq(Msgs) /\ Len(sendBuf[c]) \in Nat
    BY <1>0 DEF ConnTypeOK
  <2>2. ASSUME NEW e \in Conns, WriterTakes(e) \/ WriterFails(e)
        PROVE  sendBuf'[c] = sendBuf[c] \/ (sendBuf[c] # <<>> /\ sendBuf'[c] = Tail(sendBuf[c]))
    BY <1>0, <2>2 DEF WriterTakes, WriterFails, ConnTypeOK
  <2>3. ASSUME NEW e \in Conns, NEW m \in Msgs, Enqueue(e, m)
        PROVE  sendBuf'[c] = sendBuf[c]
    BY <1>0, <2>3 DEF Enqueue, ConnTypeOK
  <2>4. \/ UNCHANGED sendBuf
        \/ \E e \in Conns : WriterTakes(e) \/ WriterFails(e)
        \/ \E e \in Conns, m \in Msgs : Enqueue(e, m)
    BY <1>0 DEF ConnNext, Register, LeaveBegin, LeaveEnd, ReadFails,
       WriterEnds, UnregisterBegin, RevokeBegin, RevokeEnd, connVars
  <2>5. sendBuf'[c] = sendBuf[c] \/ (sendBuf[c] # <<>> /\ sendBuf'[c] = Tail(sendBuf[c]))
    BY <2>2, <2>3, <2>4
  <2>6. CASE sendBuf'[c] = sendBuf[c]
    BY <2>1, <2>6
  <2>7. CASE sendBuf[c] # <<>> /\ sendBuf'[c] = Tail(sendBuf[c])
    <3>1. Len(Tail(sendBuf[c])) = Len(sendBuf[c]) - 1
      BY <2>1, <2>7
    <3> QED
      BY <2>1, <2>7, <3>1
  <2> QED
    BY <2>5, <2>6, <2>7
<1>5. Len(sendBuf[c]) \in Nat /\ Len(sendBuf'[c]) \in Nat /\ SendCap \in Nat
  BY <1>0, ConnAssumption DEF ConnTypeOK
<1>6. ASSUME NEW i \in Nat, Through(c, i) PROVE Through(c, i)' \/ Stopped(c)'
  BY <1>1, <1>3, <1>4, <1>5, <1>6 DEF Through, Stopped
<1> QED
  BY <1>2, <1>6 DEF Stopped

\* One message less, or none was left.
LEMMA WriteStep ==
    ASSUME HelloInv, NEW c \in Conns, NEW i \in Nat, NEW j \in Nat, j <= i + 1,
           Through(c, i), <<Write(c)>>_vars
    PROVE  Through(c, j)' \/ Stopped(c)'
<1>1. ConnTypeOK /\ sendBuf[c] \in Seq(Msgs) /\ Len(sendBuf[c]) \in Nat /\ SendCap \in Nat
  BY ConnAssumption DEF HelloInv, ConnInv, ConnTypeOK
<1>2. CASE WriterTakes(c)
  <2>1. /\ sendBuf[c] # <<>> /\ sendBuf'[c] = Tail(sendBuf[c])
        /\ writer'[c] = "running" /\ sendClosed'[c]
    BY <1>1, <1>2 DEF WriterTakes, Through, ConnTypeOK
  <2>2. Len(sendBuf'[c]) = Len(sendBuf[c]) - 1
    BY <1>1, <2>1
  <2> QED
    BY <1>1, <2>1, <2>2 DEF Through
<1>3. CASE WriterEnds(c) \/ WriterFails(c)
  BY <1>1, <1>3 DEF WriterEnds, WriterFails, Stopped, ConnTypeOK
<1> QED
  BY <1>2, <1>3 DEF Write, ConnStep

\* The writer of c gets from i messages to j, or stops.
Writes(c, i, j) ==
    FairSpec /\ []StepsEnabled => (Through(c, i) ~> Stopped(c) \/ Through(c, j))

LEMMA OneWrite ==
    ASSUME NEW c \in Conns, NEW i \in Nat
    PROVE  Writes(c, i, i + 1)
<1>1. HelloInv /\ WritersKnown /\ [Next]_vars /\ Through(c, i) =>
         Through(c, i)' \/ Stopped(c)'
  BY WriterSteps
<1>2. HelloInv /\ Through(c, i) /\ <<Write(c)>>_vars => Stopped(c)' \/ Through(c, i + 1)'
  BY WriteStep
<1>3. StepsEnabled /\ Through(c, i) => ENABLED <<Write(c)>>_vars
  BY DEF StepsEnabled, Through
<1>4. FairSpec => Spec /\ FairSocket(c)
  BY FairParts
<1> QED
  BY <1>1, <1>2, <1>3, <1>4, HelloInvariant, WritersInvariant, PTL
     DEF Spec, FairSocket, Writes

LEMMA WritesOn ==
    ASSUME NEW c \in Conns, NEW i, NEW j, NEW k, Writes(c, i, j), Writes(c, j, k)
    PROVE  Writes(c, i, k)
BY PTL DEF Writes

\* Instead of an induction: each step doubles the number of messages, up to more
\* than fit into Send.
LEMMA WritesDoubled ==
    ASSUME NEW c \in Conns, NEW k \in Nat, NEW m \in Nat, m = k + k,
           \A i \in Nat : Writes(c, i, i + k)
    PROVE  \A i \in Nat : Writes(c, i, i + m)
<1> TAKE i \in Nat
<1>1. i + k \in Nat /\ (i + k) + k = i + m
  OBVIOUS
<1>2. Writes(c, i, i + k) /\ Writes(c, i + k, (i + k) + k)
  BY <1>1
<1>3. Writes(c, i, (i + k) + k)
  BY <1>2, WritesOn
<1> QED
  BY <1>1, <1>3

LEMMA ThirtyTwoWrites ==
    ASSUME NEW c \in Conns
    PROVE  \A i \in Nat : Writes(c, i, i + 32)
<1>0. /\ {0, 1, 2, 4, 8, 16, 32} \subseteq Nat
      /\ 2 = 1 + 1 /\ 4 = 2 + 2 /\ 8 = 4 + 4 /\ 16 = 8 + 8 /\ 32 = 16 + 16
  OBVIOUS
<1>1. \A i \in Nat : Writes(c, i, i + 1)
  BY OneWrite
<1>2. \A i \in Nat : Writes(c, i, i + 2)
  BY <1>0, <1>1, WritesDoubled
<1>3. \A i \in Nat : Writes(c, i, i + 4)
  BY <1>0, <1>2, WritesDoubled
<1>4. \A i \in Nat : Writes(c, i, i + 8)
  BY <1>0, <1>3, WritesDoubled
<1>5. \A i \in Nat : Writes(c, i, i + 16)
  BY <1>0, <1>4, WritesDoubled
<1> QED
  BY <1>0, <1>5, WritesDoubled

\* The writer of a closed channel stops.
LEMMA ClosedStops ==
    ASSUME NEW c \in Conns
    PROVE  FairSpec /\ []StepsEnabled => (sendClosed[c] ~> Stopped(c))
<1>1. HelloInv /\ WritersKnown /\ sendClosed[c] => Through(c, 0) \/ Stopped(c)
  BY ConnAssumption
     DEF HelloInv, ConnInv, ConnTypeOK, NewIsOpen, WritersKnown, Through, Stopped
<1>2. HelloInv => ~Through(c, 0 + 32)
  <2>1. HelloInv => Len(sendBuf[c]) \in Nat
    BY DEF HelloInv, ConnInv, ConnTypeOK
  <2> QED
    BY <2>1, ConnAssumption, RoomAssumption DEF Through
<1>3. Writes(c, 0, 0 + 32)
  <2>1. 0 \in Nat
    OBVIOUS
  <2> QED
    BY <2>1, ThirtyTwoWrites
<1>4. FairSpec => Spec
  BY FairParts
<1> QED
  BY <1>1, <1>2, <1>3, <1>4, HelloInvariant, WritersInvariant, PTL DEF Writes

-----------------------------------------------------------------------------
\* The reader.  It goes through its places in one direction, and is back in
\* ReadMessage again and again.
At(c, p) == place[c] = p
Beyond(p) ==
    CASE p = "find" -> {"apply", "snapshot"}
      [] p = "apply" -> {"snapshot"}
      [] p = "snapshot" -> {"report"}
      [] p = "report" -> {"get"}
      [] p = "get" -> {"idle", "send"}
      [] p = "send" -> {"idle"}
      [] OTHER -> {"find"}
Past(c, p) == place[c] \in Beyond(p)

Busy == Places \ {"idle"}

LEMMA PlaceSteps ==
    ASSUME HelloInv, [Next]_vars, NEW c \in Conns, NEW p \in Busy, At(c, p)
    PROVE  /\ At(c, p)' \/ Past(c, p)'
           /\ <<Proceed(c)>>_vars => Past(c, p)'
<1>0. place \in [Conns -> Places] /\ p \in Places /\ p # "idle"
  BY DEF HelloInv, HelloTypeOK, Busy
<1>1. ASSUME NEW e \in Conns, Proceed(e)
      PROVE  IF e = c THEN Past(c, p)' ELSE At(c, p)'
  BY <1>0, <1>1 DEF Proceed, Handle, Apply, Report, Queue, DropHandshake, Panic, Find,
     FindEntry, FindReport, FindChannel, LookUp, Move, Places, Beyond, Past, At
<1>2. ASSUME NEW e \in Conns, NEW x \in Hellos, ReadHello(e, x) PROVE At(c, p)'
  BY <1>0, <1>2 DEF ReadHello, Move, At
<1>3. ASSUME UNCHANGED place PROVE At(c, p)'
  BY <1>3 DEF At
<1>4. \/ \E e \in Conns : Proceed(e)
      \/ \E e \in Conns, x \in Hellos : ReadHello(e, x)
      \/ UNCHANGED place
  BY DEF Next, Proceed, ReadEnds, ConnStep, helloVars, vars
<1> QED
  BY <1>1, <1>2, <1>3, <1>4

\* The reader of c gets past place p.
Passes(c, p) == FairSpec /\ []StepsEnabled => (At(c, p) ~> Past(c, p))

LEMMA PlaceEnds ==
    ASSUME NEW c \in Conns, NEW p \in Busy
    PROVE  Passes(c, p)
<1>1. HelloInv /\ [Next]_vars /\ At(c, p) => At(c, p)' \/ Past(c, p)'
  BY PlaceSteps
<1>2. HelloInv /\ At(c, p) /\ [Next]_vars /\ <<Proceed(c)>>_vars => Past(c, p)'
  BY PlaceSteps
<1>3. StepsEnabled /\ At(c, p) /\ hmu = Free => ENABLED <<Proceed(c)>>_vars
  BY DEF StepsEnabled, At, Busy, Places
<1>4. FairSpec => Spec /\ FairSocket(c)
  BY FairParts
<1> QED
  BY <1>1, <1>2, <1>3, <1>4, MuFree, HelloInvariant, PTL DEF Spec, FairSocket, Passes

LEMMA ReaderReturns ==
    ASSUME NEW c \in Conns
    PROVE  FairSpec /\ []StepsEnabled => []<>At(c, "idle")
<1>0. {"find", "apply", "snapshot", "report", "get", "send"} \subseteq Busy
  BY DEF Busy, Places
<1>1. HelloInv => \/ At(c, "idle") \/ At(c, "find") \/ At(c, "apply")
                  \/ At(c, "snapshot") \/ At(c, "report") \/ At(c, "get") \/ At(c, "send")
  BY DEF HelloInv, HelloTypeOK, Places, At
<1>2. /\ Past(c, "find") => At(c, "apply") \/ At(c, "snapshot")
      /\ Past(c, "apply") => At(c, "snapshot")
      /\ Past(c, "snapshot") => At(c, "report")
      /\ Past(c, "report") => At(c, "get")
      /\ Past(c, "get") => At(c, "send") \/ At(c, "idle")
      /\ Past(c, "send") => At(c, "idle")
  BY DEF Past, Beyond, At
<1>3. /\ Passes(c, "find") /\ Passes(c, "apply") /\ Passes(c, "snapshot")
      /\ Passes(c, "report") /\ Passes(c, "get") /\ Passes(c, "send")
  BY <1>0, PlaceEnds
<1>4. FairSpec => Spec
  BY FairParts
<1> QED
  BY <1>1, <1>2, <1>3, <1>4, HelloInvariant, PTL DEF Passes

-----------------------------------------------------------------------------
\* The handler.
Handling(c, h) == handler[c] = h
Holding(c) == hmu = c

LEMMA HandlerSteps ==
    ASSUME HelloInv, [Next]_vars, NEW c \in Conns
    PROVE  /\ Handling(c, "reading") => Handling(c, "reading")' \/ Handling(c, "leaving")'
           /\ Handling(c, "leaving") => Handling(c, "leaving")' \/ Handling(c, "gone")'
           /\ Handling(c, "gone") => Handling(c, "gone")'
           /\ Holding(c) => Holding(c)' \/ Handling(c, "gone")'
<1>0. ConnTypeOK /\ HolderEmptied /\ [ConnNext]_connVars
  BY HelloMovesConns DEF HelloInv, ConnInv
<1>1. \/ handler'[c] = handler[c]
      \/ handler[c] = "new"
      \/ handler[c] = "reading" /\ handler'[c] = "leaving"
      \/ handler[c] = "leaving" /\ handler'[c] = "gone"
  BY <1>0 DEF ConnNext, Register, LeaveBegin, LeaveEnd, ReadFails, WriterTakes,
     WriterEnds, WriterFails, UnregisterBegin, RevokeBegin, RevokeEnd, Enqueue,
     connVars, ConnTypeOK, HolderEmptied
<1>2. hmu = c => hmu' = c \/ handler'[c] = "gone"
  BY <1>0, ConnAssumption
     DEF ConnNext, Register, LeaveBegin, LeaveEnd, ReadFails, WriterTakes,
     WriterEnds, WriterFails, UnregisterBegin, RevokeBegin, RevokeEnd, Enqueue,
     connVars, ConnTypeOK
<1> QED
  BY <1>1, <1>2 DEF Handling, Holding

\* A handler that departs from ReadMessage leaves; one that leaves holds h.mu.
LEMMA DepartSteps ==
    ASSUME HelloInv, NEW c \in Conns, <<Depart(c)>>_vars
    PROVE  /\ Handling(c, "reading") => Handling(c, "leaving")'
           /\ Handling(c, "leaving") => Holding(c)'
BY DEF Depart, ReadEnds, ReadFails, ConnStep, LeaveBegin, UnregisterBegin, Handling,
   Holding, HelloInv, ConnInv, ConnTypeOK

\* Whoever holds h.mu and unlocks it is gone.
LEMMA UnlockSteps ==
    ASSUME HelloInv, NEW c \in Conns, Holding(c), <<Unlock>>_vars
    PROVE  Handling(c, "gone")'
BY ConnAssumption DEF Unlock, ConnStep, LeaveEnd, RevokeEnd, Handling, Holding, HelloInv,
   ConnInv, ConnTypeOK

\* A reader whose writer has stopped leaves, though hellos go on coming.
LEMMA ReadingEnds ==
    ASSUME NEW c \in Conns
    PROVE  FairSpec /\ []StepsEnabled =>
              (Stopped(c) /\ Handling(c, "reading") ~> Handling(c, "leaving"))
<1>1. HelloInv /\ [Next]_vars /\ Handling(c, "reading") =>
         Handling(c, "reading")' \/ Handling(c, "leaving")'
  BY HandlerSteps
<1>2. HelloInv /\ WritersKnown /\ [Next]_vars /\ Stopped(c) => Stopped(c)'
  BY WriterSteps
<1>3. HelloInv /\ Handling(c, "reading") /\ <<Depart(c)>>_vars => Handling(c, "leaving")'
  BY DepartSteps
<1>4. StepsEnabled /\ Stopped(c) /\ Handling(c, "reading") /\ At(c, "idle") =>
         ENABLED <<Depart(c)>>_vars
  BY DEF StepsEnabled, Stopped, Handling, At
<1>5. FairSpec => Spec /\ FairSocket(c)
  BY FairParts
<1> QED
  BY <1>1, <1>2, <1>3, <1>4, <1>5, ReaderReturns, HelloInvariant, WritersInvariant, PTL
     DEF Spec, FairSocket

\* A handler that leaves gets h.mu, and is through with Unregister.
LEMMA HoldingEnds ==
    ASSUME NEW c \in Conns
    PROVE  FairSpec /\ []StepsEnabled => (Holding(c) ~> Handling(c, "gone"))
<1>1. HelloInv /\ [Next]_vars /\ Holding(c) => Holding(c)' \/ Handling(c, "gone")'
  BY HandlerSteps
<1>2. HelloInv /\ Holding(c) /\ <<Unlock>>_vars => Handling(c, "gone")'
  BY UnlockSteps
<1>3. StepsEnabled /\ Holding(c) => ENABLED <<Unlock>>_vars
  BY ConnAssumption DEF StepsEnabled, Holding
<1>4. FairSpec => Spec /\ FairHolder
  BY FairParts
<1> QED
  BY <1>1, <1>2, <1>3, <1>4, HelloInvariant, PTL DEF Spec, FairHolder

LEMMA LeavingEnds ==
    ASSUME NEW c \in Conns
    PROVE  FairSpec /\ []StepsEnabled => (Handling(c, "leaving") ~> Handling(c, "gone"))
<1>1. HelloInv /\ [Next]_vars /\ Handling(c, "leaving") =>
         Handling(c, "leaving")' \/ Handling(c, "gone")'
  BY HandlerSteps
<1>2. HelloInv /\ Handling(c, "leaving") /\ <<Depart(c)>>_vars => Holding(c)'
  BY DepartSteps
<1>3. StepsEnabled /\ Handling(c, "leaving") /\ hmu = Free => ENABLED <<Depart(c)>>_vars
  BY DEF StepsEnabled, Handling
<1>4. FairSpec => Spec /\ FairSocket(c)
  BY FairParts
<1> QED
  BY <1>1, <1>2, <1>3, <1>4, MuFree, HoldingEnds, HelloInvariant, PTL
     DEF Spec, FairSocket

\* One socket ends.
LEMMA SocketEnds ==
    ASSUME NEW c \in Conns
    PROVE  FairSpec /\ []StepsEnabled =>
              (sendClosed[c] \/ writer[c] = "stopped" ~>
                  writer[c] = "stopped" /\ handler[c] = "gone" /\ sendClosed[c])
<1>1. HelloInv /\ WritersKnown /\ Stopped(c) =>
         Handling(c, "reading") \/ Handling(c, "leaving") \/ Handling(c, "gone")
  BY DEF HelloInv, ConnInv, ConnTypeOK, WritersKnown, Stopped, Handling
<1>2. HelloInv /\ WritersKnown /\ [Next]_vars /\ Stopped(c) => Stopped(c)'
  BY WriterSteps
<1>3. HelloInv /\ Stopped(c) /\ Handling(c, "gone") =>
         writer[c] = "stopped" /\ handler[c] = "gone" /\ sendClosed[c]
  BY DEF HelloInv, ConnInv, GoneIsClosed, Stopped, Handling
<1>4. writer[c] = "stopped" => Stopped(c)
  BY DEF Stopped
<1>5. FairSpec => Spec
  BY FairParts
<1> QED
  BY <1>1, <1>2, <1>3, <1>4, <1>5, ClosedStops, ReadingEnds, LeavingEnds,
     HelloInvariant, WritersInvariant, PTL DEF Spec

\* Every socket that was cut off, or whose writer died, ends, for any number of
\* sockets, devices and hellos: its messages run out, its reader comes back to
\* ReadMessage, and its handler gets h.mu.
THEOREM SocketsEnd == FairSpec /\ []StepsEnabled => EverySocketEnds
BY SocketEnds DEF EverySocketEnds

\* Readers, writers and handlers, with the hellos they carry, keep what
\* DeviceLinks promises, and a link that is cut is over some time.
THEOREM LinksAreCutAndEnd ==
    FairSpec /\ []StepsEnabled => ImplementsLinks /\ Links!CutEnds
<1>1. FairSpec => ImplementsLinks
  BY HelloImplementsConns, TableImplementsLinks DEF FairSpec
<1>2. ASSUME NEW c \in Conns PROVE FairSpec /\ []StepsEnabled => Links!Ends(c)
  <2>1. States[c] = "cut" => sendClosed[c]
    BY DEF States, LinkState
  <2>2. handler[c] = "gone" => States[c] = "over"
    BY DEF States, LinkState
  <2>3. FairSpec /\ []StepsEnabled =>
           (sendClosed[c] \/ writer[c] = "stopped" ~>
               writer[c] = "stopped" /\ handler[c] = "gone" /\ sendClosed[c])
    BY SocketEnds
  <2> QED
    BY <2>1, <2>2, <2>3, PTL DEF Links!Ends, States
<1>3. FairSpec /\ []StepsEnabled => Links!CutEnds
  BY <1>2 DEF Links!CutEnds
<1> QED
  BY <1>1, <1>3
=============================================================================
