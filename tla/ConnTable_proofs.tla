-------------------------- MODULE ConnTable_proofs --------------------------
(***************************************************************************)
(* The invariants of ConnTable, for every set of devices and connections.  *)
(*                                                                         *)
(* ConnInv is inductive.  Each step lemma shows one action to preserve it, *)
(* one conjunct at a time.                                                 *)
(***************************************************************************)
EXTENDS ConnTable, SequenceTheorems, TLAPS

\* What is left alone by a step that touches neither the table nor the
\* handlers nor h.mu: the conjuncts of ConnInv that speak of them.
LEMMA TableUntouched ==
    ASSUME ConnInv, ConnTypeOK', NewIsOpen',
           UNCHANGED <<conns, cdev, handler, sendClosed, hmu>>
    PROVE  ConnInv'
BY DEF ConnInv, ListedIsOpen, OpenIsListed, GoneIsClosed, HolderEmptied, Unregistering

\* In the initial states the table is empty and no socket is registered.
LEMMA InitConnInv == ASSUME ConnInit PROVE ConnInv
<1>1. ConnTypeOK
  BY ConnAssumption DEF ConnInit, ConnTypeOK
<1> QED
  BY <1>1, ConnAssumption
     DEF ConnInit, ConnInv, ListedIsOpen, OpenIsListed, GoneIsClosed,
         NewIsOpen, HolderEmptied

\* Closing the entry of a device closes exactly the connection it lists.
LEMMA CloseEntryOnly ==
    ASSUME NEW d \in Devices, ConnTypeOK, CloseEntry(d)
    PROVE  /\ sendClosed' \in [Conns -> BOOLEAN]
           /\ \A c \in Conns : sendClosed'[c] <=> sendClosed[c] \/ c = conns[d]
BY DEF ConnTypeOK, CloseEntry

\* HandleWS registers its connection.
LEMMA RegisterConnInv ==
    ASSUME ConnInv, NEW c \in Conns, Register(c)
    PROVE  ConnInv'
<1> DEFINE d == cdev[c]
<1>0. d \in Devices
  BY DEF ConnInv, ConnTypeOK
<1>1. \A e \in Conns : sendClosed'[e] <=> sendClosed[e] \/ e = conns[d]
  BY <1>0, CloseEntryOnly DEF ConnInv, Register
<1>2. ConnTypeOK'
  BY <1>0, CloseEntryOnly, ConnAssumption DEF ConnInv, ConnTypeOK, Register
<1>3. c # NoConn /\ \A e \in Devices : conns[e] # c
  BY ConnAssumption DEF ConnInv, ListedIsOpen, Register
<1>4. ListedIsOpen'
  <2> SUFFICES ASSUME NEW e \in Devices, conns'[e] # NoConn
               PROVE  /\ cdev'[conns'[e]] = e
                      /\ handler'[conns'[e]] # "new"
                      /\ ~sendClosed'[conns'[e]]
    BY DEF ListedIsOpen
  <2>1. CASE e = d
    BY <2>1, <1>1, <1>3 DEF ConnInv, ConnTypeOK, NewIsOpen, Register
  <2>2. CASE e # d
    <3>1. conns'[e] = conns[e] /\ conns[e] \in Conns /\ conns[e] # c
      BY <2>2, <1>0, <1>3 DEF ConnInv, ConnTypeOK, Register
    <3>2. conns[e] # conns[d]
      BY <2>2, <3>1, <1>0, ConnAssumption DEF ConnInv, ListedIsOpen
    <3> QED
      BY <3>1, <3>2, <1>1 DEF ConnInv, ConnTypeOK, ListedIsOpen, Register
  <2> QED
    BY <2>1, <2>2
<1>5. OpenIsListed'
  BY <1>0, <1>1, <1>3 DEF ConnInv, ConnTypeOK, OpenIsListed, Register
<1>6. GoneIsClosed' /\ NewIsOpen'
  <2>1. GoneIsClosed'
    BY <1>1 DEF ConnInv, ConnTypeOK, GoneIsClosed, Register
  <2>2. \A e \in Conns : handler[e] = "new" => e # conns[d]
    BY <1>0, ConnAssumption DEF ConnInv, ListedIsOpen
  <2>3. NewIsOpen'
    BY <1>1, <2>2 DEF ConnInv, ConnTypeOK, NewIsOpen, Register
  <2> QED
    BY <2>1, <2>3
<1>7. HolderEmptied'
  BY ConnAssumption DEF HolderEmptied, Register
<1> QED
  BY <1>2, <1>4, <1>5, <1>6, <1>7 DEF ConnInv

\* Unregister closes and deletes the entry; whoever calls it, a handler that is
\* leaving or RevokeDevice, ends up holding h.mu over an empty entry.
LEMMA UnregisterConnInv ==
    ASSUME ConnInv, NEW who \in Conns \cup Devices, NEW d \in Devices,
           UnregisterBegin(who, d),
           \/ who \in Conns /\ handler[who] = "leaving" /\ d = cdev[who]
           \/ who = d
    PROVE  ConnInv'
<1>1. \A e \in Conns : sendClosed'[e] <=> sendClosed[e] \/ e = conns[d]
  BY CloseEntryOnly DEF ConnInv, UnregisterBegin
<1>2. ConnTypeOK'
  BY CloseEntryOnly, ConnAssumption DEF ConnInv, ConnTypeOK, UnregisterBegin
<1>3. ListedIsOpen'
  <2> SUFFICES ASSUME NEW e \in Devices, conns'[e] # NoConn
               PROVE  /\ cdev'[conns'[e]] = e
                      /\ handler'[conns'[e]] # "new"
                      /\ ~sendClosed'[conns'[e]]
    BY DEF ListedIsOpen
  <2>1. e # d /\ conns'[e] = conns[e] /\ conns[e] \in Conns
    BY DEF ConnInv, ConnTypeOK, UnregisterBegin
  <2>2. conns[e] # conns[d]
    BY <2>1, ConnAssumption DEF ConnInv, ListedIsOpen
  <2> QED
    BY <2>1, <2>2, <1>1 DEF ConnInv, ConnTypeOK, ListedIsOpen, UnregisterBegin
<1>4. OpenIsListed'
  BY <1>1 DEF ConnInv, ConnTypeOK, OpenIsListed, UnregisterBegin
<1>5. GoneIsClosed' /\ NewIsOpen'
  BY <1>1, ConnAssumption
     DEF ConnInv, ConnTypeOK, GoneIsClosed, NewIsOpen, ListedIsOpen, UnregisterBegin
<1>6. HolderEmptied'
  BY ConnAssumption
     DEF ConnInv, ConnTypeOK, HolderEmptied, Unregistering, UnregisterBegin
<1> QED
  BY <1>2, <1>3, <1>4, <1>5, <1>6 DEF ConnInv

\* The handler whose deferred Unregister returns has had its Send closed.
LEMMA LeaveEndConnInv ==
    ASSUME ConnInv, NEW c \in Conns, LeaveEnd(c)
    PROVE  ConnInv'
<1>1. handler[c] = "leaving" /\ conns[cdev[c]] = NoConn
  BY ConnAssumption DEF ConnInv, HolderEmptied, Unregistering, LeaveEnd
<1>2. sendClosed[c]
  BY <1>1, ConnAssumption DEF ConnInv, OpenIsListed
<1>3. ConnTypeOK'
  BY DEF ConnInv, ConnTypeOK, LeaveEnd
<1>4. ListedIsOpen' /\ OpenIsListed'
  BY <1>1 DEF ConnInv, ConnTypeOK, ListedIsOpen, OpenIsListed, LeaveEnd
<1>5. GoneIsClosed' /\ NewIsOpen'
  BY <1>2 DEF ConnInv, ConnTypeOK, GoneIsClosed, NewIsOpen, LeaveEnd
<1>6. HolderEmptied'
  BY ConnAssumption DEF HolderEmptied, LeaveEnd
<1> QED
  BY <1>3, <1>4, <1>5, <1>6 DEF ConnInv

\* RevokeDevice's Unregister returns.
LEMMA RevokeEndConnInv ==
    ASSUME ConnInv, NEW d \in Devices, RevokeEnd(d)
    PROVE  ConnInv'
BY ConnAssumption
   DEF ConnInv, ConnTypeOK, ListedIsOpen, OpenIsListed, GoneIsClosed, NewIsOpen,
       HolderEmptied, RevokeEnd

\* Reading fails: the handler is about to leave, and nothing is closed yet.
LEMMA ReadFailsConnInv ==
    ASSUME ConnInv, NEW c \in Conns, ReadFails(c)
    PROVE  ConnInv'
<1>1. ConnTypeOK'
  BY DEF ConnInv, ConnTypeOK, ReadFails
<1>2. hmu \in Conns => hmu # c
  BY DEF ConnInv, HolderEmptied, ReadFails
<1> QED
  BY <1>1, <1>2
     DEF ConnInv, ConnTypeOK, ListedIsOpen, OpenIsListed, GoneIsClosed, NewIsOpen,
         HolderEmptied, Unregistering, ReadFails

\* Sending on a channel with room, and the three steps of the writer.
LEMMA EnqueueConnInv ==
    ASSUME ConnInv, NEW c \in Conns, NEW m \in Msgs, handler[c] # "new", Enqueue(c, m)
    PROVE  ConnInv'
<1>1. sendBuf[c] \in Seq(Msgs) /\ Len(sendBuf[c]) < SendCap
  BY DEF ConnInv, ConnTypeOK, Enqueue, HasRoom
<1>2. /\ Append(sendBuf[c], m) \in Seq(Msgs)
      /\ Len(Append(sendBuf[c], m)) = Len(sendBuf[c]) + 1
      /\ Len(sendBuf[c]) \in Nat
  BY <1>1
<1>3. ConnTypeOK'
  BY <1>1, <1>2, ConnAssumption DEF ConnInv, ConnTypeOK, Enqueue
<1>4. NewIsOpen'
  BY DEF ConnInv, ConnTypeOK, NewIsOpen, Enqueue
<1> QED
  BY <1>3, <1>4, TableUntouched DEF Enqueue

LEMMA TailShorter ==
    ASSUME ConnTypeOK, NEW c \in Conns, sendBuf[c] # <<>>
    PROVE  /\ Tail(sendBuf[c]) \in Seq(Msgs)
           /\ Len(Tail(sendBuf[c])) <= SendCap
<1>1. sendBuf[c] \in Seq(Msgs) /\ Len(sendBuf[c]) <= SendCap
  BY DEF ConnTypeOK
<1>2. Tail(sendBuf[c]) \in Seq(Msgs) /\ Len(Tail(sendBuf[c])) = Len(sendBuf[c]) - 1
  BY <1>1
<1>3. Len(sendBuf[c]) \in Nat
  BY <1>1
<1> QED
  BY <1>1, <1>2, <1>3, ConnAssumption

LEMMA WriterConnInv ==
    ASSUME ConnInv, NEW c \in Conns,
           WriterTakes(c) \/ WriterEnds(c) \/ WriterFails(c)
    PROVE  ConnInv'
<1>1. ConnTypeOK'
  <2>1. CASE WriterTakes(c)
    BY <2>1, TailShorter DEF ConnInv, ConnTypeOK, WriterTakes
  <2>2. CASE WriterEnds(c)
    BY <2>2 DEF ConnInv, ConnTypeOK, WriterEnds
  <2>3. CASE WriterFails(c)
    BY <2>3, TailShorter DEF ConnInv, ConnTypeOK, WriterFails
  <2> QED
    BY <2>1, <2>2, <2>3
<1>2. writer[c] = "running" => handler[c] # "new"
  BY DEF ConnInv, NewIsOpen
<1>3. NewIsOpen'
  BY <1>2 DEF ConnInv, ConnTypeOK, NewIsOpen, WriterTakes, WriterEnds, WriterFails
<1> QED
  BY <1>1, <1>3, TableUntouched DEF WriterTakes, WriterEnds, WriterFails

-----------------------------------------------------------------------------
\* ConnInv is inductive.
LEMMA NextConnInv == ASSUME ConnInv, [ConnNext]_connVars PROVE ConnInv'
<1>1. ASSUME NEW c \in Conns, Register(c) PROVE ConnInv'
  BY <1>1, RegisterConnInv
<1>2. ASSUME NEW c \in Conns, LeaveBegin(c) PROVE ConnInv'
  <2>1. cdev[c] \in Devices
    BY DEF ConnInv, ConnTypeOK
  <2> QED
    BY <1>2, <2>1, UnregisterConnInv DEF LeaveBegin
<1>3. ASSUME NEW c \in Conns, LeaveEnd(c) PROVE ConnInv'
  BY <1>3, LeaveEndConnInv
<1>4. ASSUME NEW c \in Conns, WriterTakes(c) \/ WriterEnds(c) \/ WriterFails(c)
      PROVE  ConnInv'
  BY <1>4, WriterConnInv
<1>5. ASSUME NEW c \in Conns, ReadFails(c) PROVE ConnInv'
  BY <1>5, ReadFailsConnInv
<1>6. ASSUME NEW c \in Conns, NEW m \in Msgs, handler[c] # "new", Enqueue(c, m)
      PROVE  ConnInv'
  BY <1>6, EnqueueConnInv
<1>7. ASSUME NEW d \in Devices, RevokeBegin(d) PROVE ConnInv'
  BY <1>7, UnregisterConnInv DEF RevokeBegin
<1>8. ASSUME NEW d \in Devices, RevokeEnd(d) PROVE ConnInv'
  BY <1>8, RevokeEndConnInv
<1>9. ASSUME UNCHANGED connVars PROVE ConnInv'
  <2>1. ConnTypeOK'
    BY <1>9 DEF ConnInv, ConnTypeOK, connVars
  <2> QED
    BY <1>9, <2>1, TableUntouched DEF ConnInv, NewIsOpen, connVars
<1> QED
  BY <1>1, <1>2, <1>3, <1>4, <1>5, <1>6, <1>7, <1>8, <1>9 DEF ConnNext

\* A socket that was registered once is not new again.
LEMMA RegisteredStays ==
    ASSUME ConnTypeOK, [ConnNext]_connVars, NEW c \in Conns, handler[c] # "new"
    PROVE  handler'[c] # "new"
BY DEF ConnTypeOK, ConnNext, Register, LeaveBegin, LeaveEnd, RevokeBegin, RevokeEnd,
       UnregisterBegin, WriterTakes, WriterEnds, WriterFails, ReadFails, Enqueue, connVars

\* The whole of ConnInv holds in every reachable state of the table.
THEOREM ConnInvariant == ConnSpec => []ConnInv
<1>1. ConnInit => ConnInv
  BY InitConnInv
<1>2. ConnInv /\ [ConnNext]_connVars => ConnInv'
  BY NextConnInv
<1> QED
  BY <1>1, <1>2, PTL DEF ConnSpec

\* Type correctness, and a Send buffer within its capacity.
THEOREM ConnTypeCorrect == ConnSpec => []ConnTypeOK
<1>1. ConnInv => ConnTypeOK
  BY DEF ConnInv
<1> QED
  BY <1>1, ConnInvariant, PTL

\* No Send channel is closed twice: what Register and Unregister find in the
\* table is the device's own connection and is open.
THEOREM ListedOpen == ConnSpec => []ListedIsOpen
<1>1. ConnInv => ListedIsOpen
  BY DEF ConnInv
<1> QED
  BY <1>1, ConnInvariant, PTL

\* No open Send is lost from the table.
THEOREM OpenListed == ConnSpec => []OpenIsListed
<1>1. ConnInv => OpenIsListed
  BY DEF ConnInv
<1> QED
  BY <1>1, ConnInvariant, PTL

\* A handler that has returned leaves no open Send behind.
THEOREM GoneClosed == ConnSpec => []GoneIsClosed
<1>1. ConnInv => GoneIsClosed
  BY DEF ConnInv
<1> QED
  BY <1>1, ConnInvariant, PTL

-----------------------------------------------------------------------------
\* What the table does is what DeviceLinks promises.  The live link of a device
\* is the one the table lists: this is where ListedIsOpen and OpenIsListed meet.
States == [c \in Conns |-> LinkState(c)]

LEMMA LiveIsListed ==
    ASSUME ConnInv, NEW d \in Devices
    PROVE  \A c \in Conns : c \in Links!Live(d) <=> c = conns[d]
<1> SUFFICES ASSUME NEW c \in Conns
             PROVE  cdev[c] = d /\ LinkState(c) = "live" <=> c = conns[d]
  BY DEF Links!Live
<1>1. ASSUME cdev[c] = d, LinkState(c) = "live" PROVE c = conns[d]
  BY <1>1 DEF LinkState, ConnInv, ConnTypeOK, OpenIsListed
<1>2. ASSUME c = conns[d] PROVE cdev[c] = d /\ LinkState(c) = "live"
  BY <1>2, ConnAssumption DEF LinkState, ConnInv, ConnTypeOK, ListedIsOpen, GoneIsClosed
<1> QED
  BY <1>1, <1>2

\* Closing the entry of a device cuts its live link and no other.
LEMMA EntryIsCut ==
    ASSUME ConnInv, NEW d \in Devices, CloseEntry(d), NEW c \in Conns,
           handler'[c] = handler[c]
    PROVE  LinkState(c)' = Links!Cut(Links!Live(d))[c]
<1>1. sendClosed'[c] <=> sendClosed[c] \/ c = conns[d]
  BY CloseEntryOnly DEF ConnInv
<1>2. Links!Cut(Links!Live(d))[c] = IF c = conns[d] THEN "cut" ELSE LinkState(c)
  BY LiveIsListed DEF Links!Cut
<1>3. c = conns[d] => handler[c] \notin {"new", "gone"}
  BY ConnAssumption DEF ConnInv, ListedIsOpen, GoneIsClosed
<1> QED
  BY <1>1, <1>2, <1>3 DEF LinkState

LEMMA NextImplementsLinks ==
    ASSUME ConnInv, [ConnNext]_connVars
    PROVE  [Links!Next]_(Links!vars)
<1>0. ConnTypeOK
  BY DEF ConnInv
<1> USE DEF Links!vars
<1>1. ASSUME NEW c \in Conns, Register(c) PROVE Links!Connect(c)
  <2>1. cdev[c] \in Devices /\ UNCHANGED <<cdev, sendBuf>>
    BY <1>0, <1>1 DEF Register, ConnTypeOK
  <2>2. LinkState(c) = "new" /\ LinkState(c)' = "live"
    <3>1. ~sendClosed[c] /\ c # conns[cdev[c]]
      BY <1>1, <2>1, ConnAssumption DEF ConnInv, NewIsOpen, ListedIsOpen, Register
    <3>2. ~sendClosed'[c] /\ handler'[c] = "reading"
      BY <1>0, <1>1, <2>1, <3>1, CloseEntryOnly DEF Register, ConnTypeOK
    <3> QED
      BY <1>1, <3>2 DEF LinkState, Register
  <2>3. \A e \in Conns : e # c => LinkState(e)' = Links!Cut(Links!Live(cdev[c]))[e]
    BY <1>0, <1>1, <2>1, EntryIsCut DEF Register, ConnTypeOK
  <2>4. States' = [Links!Cut(Links!Live(cdev[c])) EXCEPT ![c] = "live"]
    BY <2>2, <2>3 DEF States, Links!Cut
  <2> QED
    BY <2>1, <2>2, <2>4 DEF Links!Connect, States
<1>2. ASSUME NEW who, NEW d \in Devices, UnregisterBegin(who, d) PROVE Links!Disconnect(d)
  <2>1. \A e \in Conns : LinkState(e)' = Links!Cut(Links!Live(d))[e]
    BY <1>0, <1>2, EntryIsCut DEF UnregisterBegin
  <2>2. States' = Links!Cut(Links!Live(d))
    BY <2>1 DEF States, Links!Cut
  <2> QED
    BY <1>2, <2>2 DEF Links!Disconnect, States, UnregisterBegin
<1>3. ASSUME NEW c \in Conns, LeaveEnd(c) PROVE Links!End(c)
  <2>1. handler[c] = "leaving" /\ conns[cdev[c]] = NoConn
    BY <1>3, ConnAssumption DEF ConnInv, HolderEmptied, LeaveEnd, Unregistering
  <2>2. sendClosed[c]
    BY <2>1, ConnAssumption DEF ConnInv, OpenIsListed
  <2>3. LinkState(c) = "cut" /\ LinkState(c)' = "over"
    BY <1>0, <1>3, <2>1, <2>2 DEF LinkState, LeaveEnd, ConnTypeOK
  <2>4. \A e \in Conns : e # c => LinkState(e)' = LinkState(e)
    BY <1>0, <1>3 DEF LinkState, LeaveEnd, ConnTypeOK
  <2>5. States' = [States EXCEPT ![c] = "over"]
    BY <2>3, <2>4 DEF States
  <2> QED
    BY <1>3, <2>3, <2>5 DEF Links!End, States, LeaveEnd
<1>4. ASSUME UNCHANGED <<cdev, handler, sendClosed>> PROVE States' = States
  BY <1>4 DEF States, LinkState
<1>5. ASSUME NEW c \in Conns, NEW m \in Msgs, handler[c] # "new", Enqueue(c, m)
      PROVE  Links!Take(c, m)
  <2>1. LinkState(c) = "live"
    BY <1>5 DEF LinkState, Enqueue, ConnInv, GoneIsClosed
  <2> QED
    BY <1>4, <1>5, <2>1 DEF Links!Take, Enqueue, HasRoom, States
<1>6. ASSUME NEW c \in Conns, WriterTakes(c) \/ WriterFails(c)
      PROVE  Links!Pass(c) \/ UNCHANGED Links!vars
  BY <1>4, <1>6 DEF Links!Pass, States, WriterTakes, WriterFails
<1>7. ASSUME NEW c \in Conns, WriterEnds(c) \/ ReadFails(c)
      PROVE  UNCHANGED Links!vars
  <2>1. \A e \in Conns : LinkState(e)' = LinkState(e)
    BY <1>0, <1>7 DEF LinkState, WriterEnds, ReadFails, ConnTypeOK
  <2> QED
    BY <1>7, <2>1 DEF WriterEnds, ReadFails
<1>8. ASSUME NEW d \in Devices, RevokeEnd(d) PROVE UNCHANGED Links!vars
  BY <1>4, <1>8 DEF States, RevokeEnd
<1>9. ASSUME NEW c \in Conns, LeaveBegin(c) PROVE \E d \in Devices : Links!Disconnect(d)
  BY <1>0, <1>2, <1>9 DEF LeaveBegin, ConnTypeOK
<1>10. ASSUME UNCHANGED connVars PROVE UNCHANGED Links!vars
  BY <1>4, <1>10 DEF States, connVars
<1> QED
  BY <1>1, <1>2, <1>3, <1>5, <1>6, <1>7, <1>8, <1>9, <1>10
     DEF ConnNext, RevokeBegin, Links!Next

\* What the table of connections promises: DeviceLinks.
THEOREM TableImplementsLinks == ConnSpec => ImplementsLinks
<1>1. ConnInit => Links!Init
  BY DEF ConnInit, Links!Init, LinkState
<1>2. ConnInv /\ [ConnNext]_connVars => [Links!Next]_(Links!vars)
  BY NextImplementsLinks
<1> QED
  BY <1>1, <1>2, ConnInvariant, PTL DEF ConnSpec, ImplementsLinks, Links!Spec
=============================================================================
