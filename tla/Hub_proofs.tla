----------------------------- MODULE Hub_proofs -----------------------------
(***************************************************************************)
(* The hub for every set of devices, sockets and callers.                  *)
(*                                                                         *)
(* HubInv holds the inductive invariants of the two tables, so the first   *)
(* thing to show is that a step of the hub is a step of each table; what   *)
(* remains is what ties callers to the tables.                             *)
(***************************************************************************)
EXTENDS Hub, ConnTable_proofs, PendingTable_proofs

\* A step of the hub moves the connection table as ConnTable says.
LEMMA HubMovesConns ==
    ASSUME HubInv, [Next]_vars
    PROVE  [ConnNext]_connVars
<1>1. ASSUME NEW r \in Reqs, Forward(r) PROVE [ConnNext]_connVars
  <2>1. CASE SendOk(r)
    <3>1. rconn[r] \in Conns /\ handler[rconn[r]] # "new" /\ r \in Msgs
      BY <2>1, HubAssumption DEF SendOk, HubInv, CallsInStep
    <3> QED
      BY <2>1, <3>1 DEF SendOk, ConnNext
  <2>2. CASE ~SendOk(r)
    BY <1>1, <2>2 DEF Forward, BadPayload, Duplicate, File, Lookup, SendFull,
                     SendPanics, GiveUp, Finish
  <2> QED
    BY <2>1, <2>2
<1>2. ASSUME NEW r \in Reqs, Timer(r) PROVE [ConnNext]_connVars
  BY <1>2 DEF Timer
<1>3. ASSUME NEW c \in Conns,
             \/ ConnOnly(Register(c))
             \/ ConnOnly(LeaveBegin(c))
             \/ Leave(c)
             \/ ReachDevice(c)
             \/ ConnOnly(WriterEnds(c))
             \/ ConnOnly(WriterFails(c))
             \/ ConnOnly(ReadFails(c))
      PROVE  [ConnNext]_connVars
  BY <1>3 DEF ConnOnly, Leave, ReachDevice, ConnNext
<1>4. ASSUME NEW c \in Conns, NEW a \in Reqs, DeviceAnswer(c, a)
      PROVE  [ConnNext]_connVars
  BY <1>4 DEF DeviceAnswer
<1>5. ASSUME NEW d \in Devices, ConnOnly(RevokeBegin(d)) \/ Revoked(d)
      PROVE  [ConnNext]_connVars
  BY <1>5 DEF ConnOnly, Revoked, ConnNext
<1>6. CASE UNCHANGED vars
  BY <1>6 DEF vars
<1> QED
  BY <1>1, <1>2, <1>3, <1>4, <1>5, <1>6 DEF Next

\* A step of the hub moves the pending table as PendingTable says.
LEMMA HubMovesPending ==
    ASSUME HubInv, [Next]_vars
    PROVE  [PendingNext]_pendingVars
<1>1. ASSUME NEW r \in Reqs, Forward(r) PROVE [PendingNext]_pendingVars
  <2>1. CASE File(r) \/ GiveUp(r)
    BY <2>1 DEF File, GiveUp, PendingNext
  <2>2. CASE ~(File(r) \/ GiveUp(r))
    BY <1>1, <2>2 DEF Forward, BadPayload, Duplicate, Lookup, SendOk, SendFull,
                     SendPanics, Finish
  <2> QED
    BY <2>1, <2>2
<1>2. ASSUME NEW r \in Reqs, Timer(r) PROVE [PendingNext]_pendingVars
  BY <1>2 DEF Timer, PendingNext
<1>3. ASSUME NEW c \in Conns,
             \/ ConnOnly(Register(c))
             \/ ConnOnly(LeaveBegin(c))
             \/ ReachDevice(c)
             \/ ConnOnly(WriterEnds(c))
             \/ ConnOnly(WriterFails(c))
             \/ ConnOnly(ReadFails(c))
      PROVE  [PendingNext]_pendingVars
  BY <1>3 DEF ConnOnly, ReachDevice
<1>4. ASSUME NEW c \in Conns, Leave(c) PROVE [PendingNext]_pendingVars
  <2>1. Unregistering \in Devices
    BY <1>4 DEF Leave, LeaveEnd, Unregistering, HubInv, ConnInv, ConnTypeOK
  <2> QED
    BY <1>4, <2>1 DEF Leave, CancelRequests, PendingNext
<1>5. ASSUME NEW c \in Conns, NEW a \in Reqs, DeviceAnswer(c, a)
      PROVE  [PendingNext]_pendingVars
  <2>1. cdev[c] \in Devices
    BY DEF HubInv, ConnInv, ConnTypeOK
  <2> QED
    BY <1>5, <2>1 DEF DeviceAnswer, PendingNext
<1>6. ASSUME NEW d \in Devices, ConnOnly(RevokeBegin(d))
      PROVE  [PendingNext]_pendingVars
  BY <1>6 DEF ConnOnly
<1>7. ASSUME NEW d \in Devices, Revoked(d) PROVE [PendingNext]_pendingVars
  <2>1. Unregistering = d
    BY <1>7, ConnAssumption DEF Revoked, RevokeEnd, Unregistering
  <2> QED
    BY <1>7, <2>1 DEF Revoked, CancelRequests, PendingNext
<1>8. CASE UNCHANGED vars
  BY <1>8 DEF vars
<1> QED
  BY <1>1, <1>2, <1>3, <1>4, <1>5, <1>6, <1>7, <1>8 DEF Next

-----------------------------------------------------------------------------
LEMMA InitHubInv == ASSUME Init PROVE HubInv
<1>1. ConnInv /\ PendingInv
  BY InitConnInv, InitPendingInv DEF Init
<1>2. HubTypeOK
  BY <1>1, HubAssumption DEF Init, HubTypeOK, ConnInv, PendingInv
<1>3. \A c \in Conns : Len(sendBuf[c]) = 0
  BY DEF Init, ConnInit
<1> QED
  BY <1>1, <1>2, <1>3, HubAssumption
     DEF Init, ConnInit, PendingInit, HubInv, CallsInStep, NoWaitOnOffline

\* A call's own step: the types of what it writes.
LEMMA NextHubTypeOK ==
    ASSUME HubInv, [Next]_vars
    PROVE  HubTypeOK'
<1>1. ConnTypeOK'
  BY HubMovesConns, NextConnInv DEF HubInv, ConnInv
<1>2. PendingTypeOK'
  BY HubMovesPending, NextPendingInv DEF HubInv, PendingInv
<1> DEFINE Types == /\ phase' \in [Reqs -> {"idle", "filed", "sending", "giveup",
                                   "waiting", "answered", "failed", "panicked"}]
                    /\ rconn' \in [Reqs -> Conns \cup {NoConn}]
                    /\ tries' \in [Reqs -> 0..MaxAttempts]
                    /\ received' \subseteq Reqs
                    /\ emitted' \subseteq Reqs
<1>3. ASSUME NEW r \in Reqs, Forward(r) PROVE Types
  <2> USE DEF HubInv, HubTypeOK, Goto
  <2>1. CASE Lookup(r)
    <3>1. conns[ask[r].dev] \in Conns \cup {NoConn}
      BY DEF ConnTypeOK, PendingTypeOK
    <3> QED
      BY <2>1, <3>1 DEF Lookup
  <2>2. CASE SendFull(r)
    BY <2>2, HubAssumption DEF SendFull, CallsInStep
  <2>3. CASE ~(Lookup(r) \/ SendFull(r))
    BY <1>3, <2>3 DEF Forward, BadPayload, Duplicate, File, SendOk, SendPanics,
                     GiveUp, Finish
  <2> QED
    BY <2>1, <2>2, <2>3
<1>4. ASSUME NEW c \in Conns, ReachDevice(c) \/ \E a \in Reqs : DeviceAnswer(c, a)
      PROVE  Types
  BY <1>4 DEF HubInv, HubTypeOK, ReachDevice, DeviceAnswer
<1>5. ASSUME UNCHANGED hubVars PROVE Types
  BY <1>5 DEF HubInv, HubTypeOK, hubVars
<1> HIDE DEF Types
<1>6. Types
  BY <1>3, <1>4, <1>5 DEF Next, Timer, ConnOnly, Leave, Revoked, vars
<1> QED
  BY <1>1, <1>2, <1>6 DEF HubTypeOK, Types

-----------------------------------------------------------------------------
\* Dropping entries closes open channels and makes none.
LEMMA DropChan ==
    ASSUME PendingInv, NEW K \in SUBSET Keys, Drop(K), NEW r \in Reqs
    PROVE  /\ chan[r] # "none" => chan'[r] # "none"
           /\ chan[r] = "none" => chan'[r] = "none"
           /\ chan'[r] = "open" => chan[r] = "open"
<1>1. chan'[r] = IF r \in Filed(K) THEN "closed" ELSE chan[r]
  BY DEF Drop
<1>2. r \in Filed(K) => chan[r] = "open"
  BY PendingAssumption DEF Filed, PendingInv, PendingIsOpen
<1> QED
  BY <1>1, <1>2

\* A step of the hub makes a channel (File), drops entries, or leaves every
\* channel as it is.
LEMMA HubChan ==
    ASSUME HubInv, [Next]_vars
    PROVE  /\ ask' = ask
           /\ \/ \E q \in Reqs : File(q)
              \/ \E K \in SUBSET Keys : Drop(K)
              \/ UNCHANGED chan
<1>0. PendingTypeOK /\ ConnTypeOK
  BY DEF HubInv, PendingInv, ConnInv
<1> DEFINE Kept == /\ ask' = ask
                   /\ \/ \E q \in Reqs : File(q)
                      \/ \E K \in SUBSET Keys : Drop(K)
                      \/ UNCHANGED chan
<1>1. ASSUME NEW r \in Reqs, Forward(r) PROVE Kept
  <2>1. CASE File(r)
    BY <2>1 DEF File, Insert
  <2>2. CASE GiveUp(r)
    <3>1. {Key(r)} \in SUBSET Keys
      BY <1>0, KeyInKeys
    <3> QED
      BY <2>2, <3>1 DEF GiveUp, Cleanup
  <2>3. CASE ~(File(r) \/ GiveUp(r))
    BY <1>1, <2>3 DEF Forward, BadPayload, Duplicate, Lookup, SendOk, SendFull,
                     SendPanics, Finish, pendingVars
  <2> QED
    BY <2>1, <2>2, <2>3
<1>2. ASSUME NEW r \in Reqs, Timer(r) PROVE Kept
  <2>1. {Key(r)} \in SUBSET Keys
    BY <1>0, KeyInKeys
  <2> QED
    BY <1>2, <2>1 DEF Timer, TimerFires, TimerCallback
<1>3. ASSUME NEW c \in Conns, NEW a \in Reqs, DeviceAnswer(c, a) PROVE Kept
  <2>1. {AnswerKey(cdev[c], a)} \in SUBSET Keys
    BY <1>0, AnswerKeyInKeys DEF ConnTypeOK
  <2> QED
    BY <1>3, <2>1 DEF DeviceAnswer, Deliver
<1>4. ASSUME CancelOwned(Unregistering) PROVE Kept
  <2> DEFINE K == {k \in Keys : OwnedBy(k, Unregistering)}
  <2>1. K \in SUBSET Keys /\ Drop(K) /\ UNCHANGED ask
    BY <1>4 DEF CancelOwned
  <2> HIDE DEF K
  <2> QED
    BY <2>1
<1>5. ASSUME UNCHANGED pendingVars PROVE Kept
  BY <1>5 DEF pendingVars
<1> HIDE DEF Kept
<1>6. Kept
  BY <1>1, <1>2, <1>3, <1>4, <1>5
     DEF Next, ConnOnly, Leave, Revoked, CancelRequests, ReachDevice, vars
<1> QED
  BY <1>6 DEF Kept

\* A channel is made by File only and never unmade; only File makes one open.
LEMMA ChanSteps ==
    ASSUME HubInv, [Next]_vars, NEW r \in Reqs
    PROVE  /\ chan[r] # "none" => chan'[r] # "none"
           /\ ~File(r) /\ chan[r] = "none" => chan'[r] = "none"
           /\ ~File(r) /\ chan'[r] = "open" => chan[r] = "open"
<1>0. PendingInv
  BY DEF HubInv
<1>1. ASSUME NEW q \in Reqs, File(q)
      PROVE  chan'[q] = "open" /\ (r # q => chan'[r] = chan[r])
  BY <1>0, <1>1 DEF File, Insert, PendingInv, PendingTypeOK
<1>2. CASE \E q \in Reqs : File(q)
  BY <1>1, <1>2
<1>3. CASE \E K \in SUBSET Keys : Drop(K)
  BY <1>0, <1>3, DropChan
<1>4. CASE UNCHANGED chan
  BY <1>4
<1> QED
  BY <1>2, <1>3, <1>4, HubChan

\* Only a call's own step changes where it stands.
LEMMA OthersStay ==
    ASSUME HubInv, [Next]_vars, NEW r \in Reqs, ~Forward(r)
    PROVE  /\ phase'[r] = phase[r]
           /\ rconn'[r] = rconn[r]
           /\ tries'[r] = tries[r]
<1> DEFINE Same == /\ phase'[r] = phase[r]
                   /\ rconn'[r] = rconn[r]
                   /\ tries'[r] = tries[r]
<1>1. ASSUME NEW q \in Reqs, Forward(q) PROVE Same
  <2>1. q # r
    BY <1>1
  <2> QED
    BY <1>1, <2>1
       DEF Forward, BadPayload, Duplicate, File, Lookup, SendOk, SendFull,
           SendPanics, GiveUp, Finish, Goto, HubInv, HubTypeOK
<1>2. ASSUME UNCHANGED <<phase, rconn, tries>> PROVE Same
  BY <1>2
<1> HIDE DEF Same
<1>3. Same
  BY <1>1, <1>2
     DEF Next, Timer, ConnOnly, Leave, Revoked, ReachDevice, DeviceAnswer,
         hubVars, vars
<1> QED
  BY <1>3 DEF Same

\* A Send buffer stays, loses its head or gets the request of a call.
LEMMA BufSteps ==
    ASSUME HubInv, [Next]_vars, NEW c \in Conns
    PROVE  \/ sendBuf'[c] = sendBuf[c]
           \/ sendBuf[c] # <<>> /\ sendBuf'[c] = Tail(sendBuf[c])
           \/ \E r \in Reqs : /\ SendOk(r)
                              /\ rconn[r] = c
                              /\ sendBuf'[c] = Append(sendBuf[c], r)
<1> DEFINE Step == \/ sendBuf'[c] = sendBuf[c]
                   \/ sendBuf[c] # <<>> /\ sendBuf'[c] = Tail(sendBuf[c])
                   \/ \E r \in Reqs : /\ SendOk(r)
                                      /\ rconn[r] = c
                                      /\ sendBuf'[c] = Append(sendBuf[c], r)
<1>0. ConnTypeOK
  BY DEF HubInv, ConnInv
<1>1. ASSUME NEW r \in Reqs, SendOk(r) PROVE Step
  <2>1. /\ rconn[r] \in Conns
        /\ sendBuf' = [sendBuf EXCEPT ![rconn[r]] = Append(@, r)]
    BY <1>1 DEF SendOk, Enqueue, HubInv, CallsInStep
  <2>2. CASE rconn[r] = c
    BY <1>0, <1>1, <2>1, <2>2 DEF ConnTypeOK
  <2>3. CASE rconn[r] # c
    BY <1>0, <2>1, <2>3 DEF ConnTypeOK
  <2> QED
    BY <2>2, <2>3
<1>2. ASSUME NEW e \in Conns, WriterTakes(e) \/ WriterFails(e) PROVE Step
  <2>1. CASE e = c
    BY <1>0, <1>2, <2>1 DEF WriterTakes, WriterFails, ConnTypeOK
  <2>2. CASE e # c
    BY <1>0, <1>2, <2>2 DEF WriterTakes, WriterFails, ConnTypeOK
  <2> QED
    BY <2>1, <2>2
<1>3. ASSUME UNCHANGED sendBuf PROVE Step
  BY <1>3
<1> HIDE DEF Step
<1>4. ASSUME NEW r \in Reqs, Forward(r) PROVE Step
  BY <1>1, <1>3, <1>4
     DEF Forward, BadPayload, Duplicate, File, Lookup, SendFull, SendPanics,
         GiveUp, Finish, connVars
<1>5. Step
  BY <1>2, <1>3, <1>4
     DEF Next, Timer, ConnOnly, Leave, Revoked, ReachDevice, DeviceAnswer,
         Register, LeaveBegin, UnregisterBegin, LeaveEnd, RevokeBegin, RevokeEnd,
         WriterEnds, ReadFails, connVars, vars
<1> QED
  BY <1>5 DEF Step

\* A socket keeps its device.
LEMMA DeviceFixed == ASSUME HubInv, [Next]_vars PROVE cdev' = cdev
BY HubMovesConns
   DEF ConnNext, Register, LeaveBegin, UnregisterBegin, LeaveEnd, RevokeBegin,
       RevokeEnd, WriterTakes, WriterEnds, WriterFails, ReadFails, Enqueue, connVars

-----------------------------------------------------------------------------
\* Callers and messages keep in step with the tables.
LEMMA NextCallsInStep ==
    ASSUME HubInv, [Next]_vars
    PROVE  CallsInStep'
<1>0. ConnTypeOK /\ PendingTypeOK /\ CallsInStep /\ HubTypeOK
  BY DEF HubInv, ConnInv, PendingInv
<1>1. cdev' = cdev /\ ask' = ask
  BY DeviceFixed, HubChan
<1>a. \A c \in Conns : handler[c] # "new" => handler'[c] # "new"
  BY <1>0, HubMovesConns, RegisteredStays
<1> DEFINE Call(r) ==
      /\ phase'[r] \notin {"idle", "failed"} => chan'[r] # "none"
      /\ phase'[r] = "idle" => chan'[r] = "none"
      /\ phase'[r] \in {"idle", "filed", "sending"} => tries'[r] < MaxAttempts
      /\ phase'[r] = "sending" =>
            /\ rconn'[r] \in Conns
            /\ cdev[rconn'[r]] = ask[r].dev
            /\ handler'[rconn'[r]] # "new"
<1>2. ASSUME NEW r \in Reqs PROVE Call(r)
  <2>0. File(r) => Forward(r)
    BY DEF Forward
  <2>1. CASE ~Forward(r)
    BY <2>0, <2>1, <1>0, <1>a, OthersStay, ChanSteps DEF CallsInStep
  <2>2. CASE File(r)
    BY <2>2, <1>0 DEF File, Insert, Goto, CallsInStep, HubTypeOK, PendingTypeOK
  <2>3. CASE Lookup(r)
    <3>1. phase[r] = "filed" /\ chan' = chan
      BY <2>3 DEF Lookup, pendingVars
    <3>2. /\ rconn'[r] = conns[ask[r].dev]
          /\ phase'[r] = IF rconn'[r] = NoConn THEN "giveup" ELSE "sending"
          /\ tries' = tries
      BY <2>3, <1>0 DEF Lookup, Goto, HubTypeOK
    <3>3. ask[r].dev \in Devices
      BY <1>0 DEF PendingTypeOK
    <3>4. rconn'[r] # NoConn =>
            /\ rconn'[r] \in Conns
            /\ cdev[rconn'[r]] = ask[r].dev
            /\ handler[rconn'[r]] # "new"
      BY <3>2, <3>3, <1>0 DEF ConnTypeOK, HubInv, ConnInv, ListedIsOpen
    <3> QED
      BY <3>1, <3>2, <3>4, <1>0, <1>a DEF CallsInStep
  <2>4. CASE SendFull(r)
    <3>1. tries[r] < MaxAttempts /\ tries[r] \in 0..MaxAttempts
      BY <2>4, <1>0 DEF SendFull, CallsInStep, HubTypeOK
    <3>2. /\ phase[r] = "sending" /\ chan' = chan /\ rconn' = rconn
          /\ tries'[r] = tries[r] + 1
          /\ phase'[r] = IF tries'[r] = MaxAttempts THEN "giveup" ELSE "sending"
      BY <2>4, <1>0 DEF SendFull, Goto, HubTypeOK, pendingVars
    <3> QED
      BY <3>1, <3>2, <1>0, <1>a, HubAssumption DEF CallsInStep
  <2>5. CASE SendOk(r) \/ SendPanics(r) \/ Finish(r)
    BY <2>5, <1>0, <1>a
       DEF SendOk, SendPanics, Finish, Goto, pendingVars, CallsInStep, HubTypeOK
  <2>6. CASE BadPayload(r) \/ Duplicate(r) \/ GiveUp(r)
    BY <2>6, <1>0 DEF BadPayload, Duplicate, GiveUp, Goto, HubTypeOK
  <2> QED
    BY <2>1, <2>2, <2>3, <2>4, <2>5, <2>6 DEF Forward
<1>3. ASSUME NEW c \in Conns, NEW i \in 1..Len(sendBuf'[c]), sendBuf'[c][i] \in Reqs
      PROVE  ask[sendBuf'[c][i]].dev = cdev[c] /\ chan'[sendBuf'[c][i]] # "none"
  <2>0. sendBuf[c] \in Seq(Msgs)
    BY <1>0 DEF ConnTypeOK
  <2>1. ASSUME NEW j \in 1..Len(sendBuf[c]), sendBuf'[c][i] = sendBuf[c][j]
        PROVE  ask[sendBuf'[c][i]].dev = cdev[c] /\ chan'[sendBuf'[c][i]] # "none"
    BY <1>0, <1>3, <2>1, ChanSteps DEF CallsInStep
  <2>2. CASE sendBuf'[c] = sendBuf[c]
    BY <2>1, <2>2
  <2>3. CASE sendBuf[c] # <<>> /\ sendBuf'[c] = Tail(sendBuf[c])
    <3>1. i + 1 \in 1..Len(sendBuf[c]) /\ sendBuf'[c][i] = sendBuf[c][i + 1]
      BY <2>0, <2>3
    <3> QED
      BY <2>1, <3>1
  <2>4. ASSUME NEW r \in Reqs, SendOk(r), rconn[r] = c,
               sendBuf'[c] = Append(sendBuf[c], r)
        PROVE  ask[sendBuf'[c][i]].dev = cdev[c] /\ chan'[sendBuf'[c][i]] # "none"
    <3>1. \/ i \in 1..Len(sendBuf[c]) /\ sendBuf'[c][i] = sendBuf[c][i]
          \/ sendBuf'[c][i] = r
      BY <2>0, <2>4
    <3>2. phase[r] = "sending" /\ chan' = chan
      BY <2>4 DEF SendOk, pendingVars
    <3>3. ask[r].dev = cdev[c] /\ chan'[r] # "none"
      BY <2>4, <3>2, <1>0 DEF CallsInStep
    <3> QED
      BY <2>1, <3>1, <3>3
  <2> QED
    BY <2>2, <2>3, <2>4, BufSteps
<1>4. ASSUME NEW a \in received' PROVE chan'[a] # "none"
  <2>1. CASE a \in received
    BY <2>1, <1>0, ChanSteps DEF CallsInStep, HubTypeOK
  <2>2. CASE a \notin received
    <3>1. PICK c \in Conns : ReachDevice(c)
      BY <1>4, <2>2
         DEF Next, Forward, BadPayload, Duplicate, File, Lookup, SendOk, SendFull,
             SendPanics, GiveUp, Finish, Timer, ConnOnly, Leave, Revoked,
             DeviceAnswer, hubVars, vars
    <3>2. a \in Reqs /\ a = Head(sendBuf[c]) /\ sendBuf[c] # <<>> /\ chan' = chan
      BY <1>4, <2>2, <3>1 DEF ReachDevice, WriterTakes, pendingVars
    <3>3. 1 \in 1..Len(sendBuf[c]) /\ a = sendBuf[c][1]
      BY <3>2, <1>0 DEF ConnTypeOK
    <3> QED
      BY <3>2, <3>3, <1>0 DEF CallsInStep
  <2> QED
    BY <2>1, <2>2
<1>5. emitted' \subseteq received'
  <2>1. received \subseteq received' /\ (emitted' = emitted \/ received' = received)
    BY DEF Next, Forward, BadPayload, Duplicate, File, Lookup, SendOk, SendFull,
           SendPanics, GiveUp, Finish, Timer, ConnOnly, Leave, Revoked,
           ReachDevice, DeviceAnswer, hubVars, vars
  <2>2. CASE emitted' = emitted
    BY <2>1, <2>2, <1>0 DEF CallsInStep
  <2>3. CASE emitted' # emitted
    BY <2>3, <1>0
       DEF Next, Forward, BadPayload, Duplicate, File, Lookup, SendOk, SendFull,
           SendPanics, GiveUp, Finish, Timer, ConnOnly, Leave, Revoked,
           ReachDevice, DeviceAnswer, hubVars, vars, CallsInStep
  <2> QED
    BY <2>2, <2>3
<1>6. \A r \in Reqs : Call(r)
  BY <1>2
<1>7. \A c \in Conns : \A i \in 1..Len(sendBuf'[c]) :
         sendBuf'[c][i] \in Reqs =>
            ask[sendBuf'[c][i]].dev = cdev[c] /\ chan'[sendBuf'[c][i]] # "none"
  BY <1>3
<1> QED
  BY <1>1, <1>4, <1>5, <1>6, <1>7 DEF CallsInStep

-----------------------------------------------------------------------------
\* A device that is connected stays so, or is being unregistered.
LEMMA StaysOnline ==
    ASSUME HubInv, [Next]_vars, NEW d \in Devices, conns[d] # NoConn
    PROVE  conns'[d] # NoConn \/ (hmu' # Free /\ Unregistering' = d)
<1> DEFINE Online == conns'[d] # NoConn \/ (hmu' # Free /\ Unregistering' = d)
<1>0. ConnTypeOK
  BY DEF HubInv, ConnInv
<1>1. ASSUME NEW c \in Conns, Register(c) PROVE Online
  BY <1>0, <1>1, ConnAssumption DEF Register, ConnTypeOK
<1>2. ASSUME NEW c \in Conns, LeaveBegin(c) PROVE Online
  <2>1. /\ conns' = [conns EXCEPT ![cdev[c]] = NoConn]
        /\ hmu' = c /\ cdev' = cdev
    BY <1>2 DEF LeaveBegin, UnregisterBegin
  <2>2. CASE d = cdev[c]
    BY <2>1, <2>2, ConnAssumption DEF Unregistering
  <2>3. CASE d # cdev[c]
    BY <2>1, <2>3, <1>0 DEF ConnTypeOK
  <2> QED
    BY <2>2, <2>3
<1>3. ASSUME NEW e \in Devices, RevokeBegin(e) PROVE Online
  <2>1. conns' = [conns EXCEPT ![e] = NoConn] /\ hmu' = e
    BY <1>3 DEF RevokeBegin, UnregisterBegin
  <2>2. CASE d = e
    BY <2>1, <2>2, ConnAssumption DEF Unregistering
  <2>3. CASE d # e
    BY <2>1, <2>3, <1>0 DEF ConnTypeOK
  <2> QED
    BY <2>2, <2>3
<1>4. ASSUME UNCHANGED conns PROVE Online
  BY <1>4
<1> HIDE DEF Online
<1>5. Online
  BY <1>1, <1>2, <1>3, <1>4, HubMovesConns
     DEF ConnNext, LeaveEnd, RevokeEnd, WriterTakes, WriterEnds, WriterFails,
         ReadFails, Enqueue, connVars
<1> QED
  BY <1>5 DEF Online

\* Whoever is inside Unregister stays there until it cancels the requests.
LEMMA LeavesAfterCancel ==
    ASSUME HubInv, [Next]_vars, hmu # Free
    PROVE  hmu' = hmu \/ CancelOwned(Unregistering)
<1>1. ASSUME NEW r \in Reqs, Forward(r) PROVE hmu' = hmu
  BY <1>1 DEF Forward, BadPayload, Duplicate, File, Lookup, SendOk, Enqueue,
              SendFull, SendPanics, GiveUp, Finish, connVars
<1> QED
  BY <1>1
     DEF Next, Timer, ConnOnly, Leave, Revoked, CancelRequests, ReachDevice,
         DeviceAnswer, Register, LeaveBegin, RevokeBegin, UnregisterBegin,
         WriterTakes, WriterEnds, WriterFails, ReadFails, connVars, vars

\* Unregister closes the channel of every request of its device.
LEMMA CancelClosesOwn ==
    ASSUME HubInv, NEW r \in Reqs, CancelOwned(ask[r].dev)
    PROVE  chan'[r] # "open"
<1> DEFINE K == {k \in Keys : OwnedBy(k, ask[r].dev)}
<1>1. Drop(K)
  BY DEF CancelOwned
<1>2. Key(r) \in Keys
  BY KeyInKeys DEF HubInv, PendingInv
<1>3. /\ ask[r].dev \in Seq(Chars)
      /\ RequestId(ask[r].id) \in Seq(Chars)
  BY PendingAssumption, TextAssumption, RequestIdIsText
     DEF HubInv, PendingInv, PendingTypeOK
<1>4. Key(r) \in K
  BY <1>2, <1>3, KeyIsOwned DEF Key
<1>5. chan[r] = "open" => r \in Filed(K)
  BY <1>4 DEF HubInv, PendingInv, OpenIsPendingAndTimed, Filed
<1> HIDE DEF K
<1>6. chan'[r] = IF r \in Filed(K) THEN "closed" ELSE chan[r]
  BY <1>1 DEF Drop
<1> QED
  BY <1>5, <1>6

LEMMA NextNoWait ==
    ASSUME HubInv, [Next]_vars
    PROVE  NoWaitOnOffline'
<1> SUFFICES ASSUME NEW r \in Reqs, phase'[r] \in {"sending", "waiting"},
                    chan'[r] = "open"
             PROVE  \/ conns'[ask'[r].dev] # NoConn
                    \/ hmu' # Free /\ Unregistering' = ask'[r].dev
  BY DEF NoWaitOnOffline
<1> DEFINE d == ask[r].dev
<1>1. d \in Devices /\ ask' = ask
  BY HubChan DEF HubInv, PendingInv, PendingTypeOK
<1>2. phase \in [Reqs -> {"idle", "filed", "sending", "giveup", "waiting",
                          "answered", "failed", "panicked"}]
  BY DEF HubInv, HubTypeOK
<1>3. ~File(r)
  BY <1>2 DEF File, Goto
<1>4. chan[r] = "open"
  BY <1>3, ChanSteps
<1>5. CASE Lookup(r)
  BY <1>1, <1>2, <1>5 DEF Lookup, Goto, connVars, HubInv, HubTypeOK
<1>6. CASE ~Lookup(r)
  <2>1. phase[r] \in {"sending", "waiting"}
    <3>1. CASE Forward(r)
      BY <1>2, <1>3, <1>6, <3>1
         DEF Forward, BadPayload, Duplicate, SendOk, SendFull, SendPanics, GiveUp,
             Finish, Goto
    <3>2. CASE ~Forward(r)
      BY <3>2, OthersStay
    <3> QED
      BY <3>1, <3>2
  <2>2. conns[d] # NoConn \/ (hmu # Free /\ Unregistering = d)
    BY <1>4, <2>1 DEF HubInv, NoWaitOnOffline
  <2>3. CASE conns[d] # NoConn
    BY <1>1, <2>3, StaysOnline
  <2>4. CASE hmu # Free /\ Unregistering = d
    <3>1. ~CancelOwned(d)
      BY CancelClosesOwn
    <3>2. hmu' = hmu /\ cdev' = cdev
      BY <2>4, <3>1, LeavesAfterCancel, DeviceFixed
    <3>3. Unregistering' = Unregistering
      BY <3>2 DEF Unregistering
    <3> QED
      BY <1>1, <2>4, <3>2, <3>3
  <2> QED
    BY <2>2, <2>3, <2>4
<1> QED
  BY <1>5, <1>6

-----------------------------------------------------------------------------
\* Every step keeps the inductive invariant.
LEMMA NextHubInv == ASSUME HubInv, [Next]_vars PROVE HubInv'
<1>1. ConnInv'
  BY HubMovesConns, NextConnInv DEF HubInv
<1>2. PendingInv'
  BY HubMovesPending, NextPendingInv DEF HubInv
<1> QED
  BY <1>1, <1>2, NextHubTypeOK, NextCallsInStep, NextNoWait DEF HubInv

\* The inductive invariant of the hub holds in every reachable state.
THEOREM HubInvariant == Spec => []HubInv
<1>1. Init => HubInv
  BY InitHubInv
<1>2. HubInv /\ [Next]_vars => HubInv'
  BY NextHubInv
<1> QED
  BY <1>1, <1>2, PTL DEF Spec

\* The hub moves its two tables only as ConnTable and PendingTable say, so what
\* is proved of the tables holds in the hub.
THEOREM TablesImplemented == Spec => ImplementsTables
<1>1. Init => ConnInit /\ PendingInit
  BY DEF Init
<1>2. HubInv /\ [Next]_vars => [ConnNext]_connVars /\ [PendingNext]_pendingVars
  BY HubMovesConns, HubMovesPending
<1> QED
  BY <1>1, <1>2, HubInvariant, PTL
     DEF Spec, ImplementsTables, ConnSpec, PendingSpec

\* Callers see the links that DeviceLinks promises.
THEOREM HubImplementsLinks == Spec => ImplementsLinks
BY TablesImplemented, TableImplementsLinks, PTL DEF ImplementsTables

\* Type correctness of the hub and of its tables.
THEOREM HubTypeCorrect == Spec => []HubTypeOK
<1>1. HubInv => HubTypeOK
  BY DEF HubInv
<1> QED
  BY <1>1, HubInvariant, PTL

\* No caller waits for a device that has gone.
THEOREM NoWaitOffline == Spec => []NoWaitOnOffline
<1>1. HubInv => NoWaitOnOffline
  BY DEF HubInv
<1> QED
  BY <1>1, HubInvariant, PTL
-----------------------------------------------------------------------------
\* What calls send.  A queued or received request was sent by a call that will
\* not send again.
LEMMA SentStays ==
    ASSUME HubInv, [Next]_vars, NEW r \in Reqs, Sent(r)
    PROVE  Sent(r)' /\ ~SendOk(r)
<1>1. ~SendOk(r)
  BY DEF SendOk, Sent
<1>2. CASE Forward(r)
  BY <1>2
     DEF Forward, BadPayload, Duplicate, File, Lookup, SendOk, SendFull,
         SendPanics, GiveUp, Finish, Goto, Sent, HubInv, HubTypeOK
<1>3. CASE ~Forward(r)
  BY <1>1, <1>3, OthersStay DEF Sent
<1> QED
  BY <1>1, <1>2, <1>3

\* A device receives nothing but the head of a Send buffer.
LEMMA ReceivedSteps ==
    ASSUME HubInv, [Next]_vars
    PROVE  \/ received' = received
           \/ \E c \in Conns :
                 ReachDevice(c) /\ received' \subseteq received \cup {Head(sendBuf[c])}
BY DEF Next, Forward, BadPayload, Duplicate, File, Lookup, SendOk, SendFull,
       SendPanics, GiveUp, Finish, Timer, ConnOnly, Leave, Revoked, ReachDevice,
       DeviceAnswer, hubVars, vars

\* Where an element of a Send buffer comes from.
LEMMA BufOrigin ==
    ASSUME HubInv, [Next]_vars, NEW c \in Conns, NEW i \in 1..Len(sendBuf'[c])
    PROVE  \/ /\ i \in 1..Len(sendBuf[c])
              /\ sendBuf'[c] # Tail(sendBuf[c]) \/ sendBuf[c] = <<>>
              /\ sendBuf'[c][i] = sendBuf[c][i]
           \/ /\ sendBuf[c] # <<>>
              /\ sendBuf'[c] = Tail(sendBuf[c])
              /\ i + 1 \in 1..Len(sendBuf[c])
              /\ sendBuf'[c][i] = sendBuf[c][i + 1]
           \/ /\ i = Len(sendBuf[c]) + 1
              /\ sendBuf'[c][i] \in Reqs
              /\ SendOk(sendBuf'[c][i])
              /\ rconn[sendBuf'[c][i]] = c
<1>1. sendBuf[c] \in Seq(Msgs) /\ Reqs \subseteq Msgs
  BY HubAssumption DEF HubInv, ConnInv, ConnTypeOK
<1>2. CASE sendBuf[c] # <<>> /\ sendBuf'[c] = Tail(sendBuf[c])
  BY <1>1, <1>2
<1>3. CASE sendBuf'[c] = sendBuf[c] /\ ~(sendBuf[c] # <<>> /\ sendBuf'[c] = Tail(sendBuf[c]))
  BY <1>1, <1>3
<1>4. ASSUME NEW r \in Reqs, SendOk(r), rconn[r] = c,
             sendBuf'[c] = Append(sendBuf[c], r)
      PROVE  \/ /\ i \in 1..Len(sendBuf[c])
                /\ sendBuf'[c] # Tail(sendBuf[c]) \/ sendBuf[c] = <<>>
                /\ sendBuf'[c][i] = sendBuf[c][i]
             \/ /\ i = Len(sendBuf[c]) + 1
                /\ sendBuf'[c][i] = r
  <2>1. Len(Append(sendBuf[c], r)) = Len(sendBuf[c]) + 1
    BY <1>1
  <2>2. sendBuf[c] # <<>> => Len(Tail(sendBuf[c])) = Len(sendBuf[c]) - 1
    BY <1>1
  <2>3. sendBuf'[c] # Tail(sendBuf[c]) \/ sendBuf[c] = <<>>
    BY <1>1, <1>4, <2>1, <2>2
  <2>4. \/ i \in 1..Len(sendBuf[c]) /\ sendBuf'[c][i] = sendBuf[c][i]
        \/ i = Len(sendBuf[c]) + 1 /\ sendBuf'[c][i] = r
    BY <1>1, <1>4, <2>1
  <2> QED
    BY <2>3, <2>4
<1> QED
  BY <1>2, <1>3, <1>4, BufSteps
LEMMA NextSentOnce ==
    ASSUME HubInv, SentOnce, [Next]_vars
    PROVE  SentOnce'
<1> DEFINE SentNext(x) == phase'[x] \in {"waiting", "answered", "failed"}
<1>s. \A x \in Reqs : Sent(x) => SentNext(x)
  BY SentStays DEF Sent
<1>0. ASSUME NEW r \in Reqs, SendOk(r)
      PROVE  /\ r \notin received
             /\ received' = received
             /\ SentNext(r)
             /\ \A c \in Conns : \A i \in 1..Len(sendBuf[c]) : sendBuf[c][i] # r
  BY <1>0 DEF SendOk, Goto, Sent, SentOnce, HubInv, HubTypeOK
<1>1. \A c \in Conns : sendBuf[c] \in Seq(Msgs)
  BY DEF HubInv, ConnInv, ConnTypeOK
<1>2. received \subseteq Reqs
  BY DEF HubInv, HubTypeOK
<1>3. ASSUME NEW c \in Conns, NEW i \in 1..Len(sendBuf'[c])
      PROVE  sendBuf'[c][i] \in Reqs \ received' /\ SentNext(sendBuf'[c][i])
  <2> DEFINE r == sendBuf'[c][i]
  <2>1. ASSUME SendOk(r), r \in Reqs PROVE r \in Reqs \ received' /\ SentNext(r)
    BY <1>0, <2>1
  <2>2. ASSUME NEW j \in 1..Len(sendBuf[c]), r = sendBuf[c][j],
               j # 1 \/ sendBuf'[c] # Tail(sendBuf[c])
        PROVE  r \in Reqs \ received' /\ SentNext(r)
    <3>1. r \in Reqs \ received /\ Sent(r)
      BY <2>2 DEF SentOnce
    <3>2. SentNext(r)
      BY <3>1, <1>s
    <3>3. ASSUME NEW e \in Conns, ReachDevice(e), r = Head(sendBuf[e]) PROVE FALSE
      <4>1. sendBuf[e] # <<>> /\ sendBuf' = [sendBuf EXCEPT ![e] = Tail(@)]
        BY <3>3 DEF ReachDevice, WriterTakes
      <4>2. 1 \in 1..Len(sendBuf[e]) /\ sendBuf[c][j] = sendBuf[e][1]
        BY <1>1, <2>2, <3>3, <4>1
      <4>3. c = e /\ j = 1
        BY <4>2 DEF SentOnce
      <4>4. sendBuf'[c] = Tail(sendBuf[c])
        BY <4>1, <4>3 DEF HubInv, ConnInv, ConnTypeOK
      <4> QED
        BY <2>2, <4>3, <4>4
    <3> QED
      BY <3>1, <3>2, <3>3, ReceivedSteps
  <2> HIDE DEF r
  <2>3. \/ \E j \in 1..Len(sendBuf[c]) :
              r = sendBuf[c][j] /\ (j # 1 \/ sendBuf'[c] # Tail(sendBuf[c]))
        \/ SendOk(r) /\ r \in Reqs
    <3>1. i + 1 # 1
      BY <1>1
    <3> QED
      BY <3>1, BufOrigin, <1>1 DEF r
  <2> QED
    BY <2>1, <2>2, <2>3 DEF r
<1>4. ASSUME NEW c \in Conns, NEW e \in Conns,
             NEW i \in 1..Len(sendBuf'[c]), NEW j \in 1..Len(sendBuf'[e]),
             sendBuf'[c][i] = sendBuf'[e][j]
      PROVE  c = e /\ i = j
  <2>1. CASE SendOk(sendBuf'[c][i]) /\ sendBuf'[c][i] \in Reqs
    <3>1. /\ i = Len(sendBuf[c]) + 1 /\ rconn[sendBuf'[c][i]] = c
          /\ j = Len(sendBuf[e]) + 1 /\ rconn[sendBuf'[e][j]] = e
      <4> DEFINE r == sendBuf'[c][i]
      <4>1. \A g \in Conns : \A m \in 1..Len(sendBuf[g]) : sendBuf[g][m] # r
        BY <2>1, <1>0
      <4>2. r = sendBuf'[e][j]
        BY <1>4
      <4>3. /\ r # sendBuf[c][i] \/ i \notin 1..Len(sendBuf[c])
            /\ r # sendBuf[c][i + 1] \/ i + 1 \notin 1..Len(sendBuf[c])
            /\ r # sendBuf[e][j] \/ j \notin 1..Len(sendBuf[e])
            /\ r # sendBuf[e][j + 1] \/ j + 1 \notin 1..Len(sendBuf[e])
        BY <4>1
      <4>4. i = Len(sendBuf[c]) + 1 /\ rconn[r] = c
        BY <4>3, BufOrigin
      <4> HIDE DEF r
      <4>5. j = Len(sendBuf[e]) + 1 /\ rconn[r] = e
        BY <4>2, <4>3, BufOrigin
      <4> QED
        BY <4>2, <4>4, <4>5 DEF r
    <3> QED
      BY <3>1, <1>4
  <2>2. CASE ~(SendOk(sendBuf'[c][i]) /\ sendBuf'[c][i] \in Reqs)
    <3>1. \E m \in 1..Len(sendBuf[c]) :
             /\ sendBuf'[c][i] = sendBuf[c][m]
             /\ \/ m = i /\ (sendBuf'[c] # Tail(sendBuf[c]) \/ sendBuf[c] = <<>>)
                \/ m = i + 1 /\ sendBuf[c] # <<>> /\ sendBuf'[c] = Tail(sendBuf[c])
      BY <2>2, BufOrigin
    <3>2. \E n \in 1..Len(sendBuf[e]) :
             /\ sendBuf'[e][j] = sendBuf[e][n]
             /\ \/ n = j /\ (sendBuf'[e] # Tail(sendBuf[e]) \/ sendBuf[e] = <<>>)
                \/ n = j + 1 /\ sendBuf[e] # <<>> /\ sendBuf'[e] = Tail(sendBuf[e])
      BY <2>2, <1>4, BufOrigin
    <3>3. PICK m \in 1..Len(sendBuf[c]) :
             /\ sendBuf'[c][i] = sendBuf[c][m]
             /\ \/ m = i /\ (sendBuf'[c] # Tail(sendBuf[c]) \/ sendBuf[c] = <<>>)
                \/ m = i + 1 /\ sendBuf[c] # <<>> /\ sendBuf'[c] = Tail(sendBuf[c])
      BY <3>1
    <3>4. PICK n \in 1..Len(sendBuf[e]) :
             /\ sendBuf'[e][j] = sendBuf[e][n]
             /\ \/ n = j /\ (sendBuf'[e] # Tail(sendBuf[e]) \/ sendBuf[e] = <<>>)
                \/ n = j + 1 /\ sendBuf[e] # <<>> /\ sendBuf'[e] = Tail(sendBuf[e])
      BY <3>2
    <3>5. c = e /\ m = n
      <4>1. sendBuf[c][m] = sendBuf[e][n]
        BY <1>4, <3>3, <3>4
      <4> QED
        BY <4>1 DEF SentOnce
    <3>6. i = j
      BY <3>3, <3>4, <3>5
    <3> QED
      BY <3>5, <3>6
  <2> QED
    BY <2>1, <2>2
<1>5. ASSUME NEW a \in received' PROVE SentNext(a)
  <2>1. CASE a \in received
    BY <1>2, <1>s, <2>1 DEF SentOnce
  <2>2. CASE a \notin received
    <3>1. PICK c \in Conns : ReachDevice(c) /\ a = Head(sendBuf[c])
      BY <1>5, <2>2, ReceivedSteps
    <3>2. 1 \in 1..Len(sendBuf[c]) /\ a = sendBuf[c][1]
      BY <1>1, <3>1 DEF ReachDevice, WriterTakes
    <3>3. a \in Reqs /\ Sent(a)
      BY <3>2 DEF SentOnce
    <3> QED
      BY <3>3, <1>s
  <2> QED
    BY <2>1, <2>2
<1> QED
  BY <1>3, <1>4, <1>5 DEF SentOnce, Sent
\* What is queued and received was sent, once, in every reachable state.
THEOREM SendInvariant == Spec => []SendInv
<1>1. Init => SendInv
  <2> SUFFICES ASSUME Init PROVE SendInv
    OBVIOUS
  <2>1. \A c \in Conns : Len(sendBuf[c]) = 0
    BY DEF Init, ConnInit
  <2>2. received = {}
    BY DEF Init
  <2> QED
    BY <2>1, <2>2, InitHubInv DEF SendInv, SentOnce
<1>2. SendInv /\ HubInv' /\ [Next]_vars => SendInv'
  BY NextSentOnce DEF SendInv
<1> QED
  BY <1>1, <1>2, HubInvariant, PTL DEF Spec

\* A request travels only on sockets of its own device, and once.
THEOREM SentToDevice == Spec => []SentToItsDevice
<1>1. SendInv => SentToItsDevice
  <2> SUFFICES ASSUME SendInv, NEW c \in Conns,
                      NEW i \in DOMAIN sendBuf[c], NEW j \in DOMAIN sendBuf[c]
               PROVE  LET r == sendBuf[c][i] IN
                      /\ ask[r].dev = cdev[c]
                      /\ phase[r] \in {"waiting", "answered", "failed"}
                      /\ r \notin received
                      /\ sendBuf[c][j] = r => i = j
    BY DEF SentToItsDevice
  <2>1. i \in 1..Len(sendBuf[c]) /\ j \in 1..Len(sendBuf[c])
    BY DEF SendInv, HubInv, ConnInv, ConnTypeOK
  <2>2. /\ sendBuf[c][i] \in Reqs \ received
        /\ Sent(sendBuf[c][i])
        /\ sendBuf[c][j] = sendBuf[c][i] => i = j
    BY <2>1 DEF SendInv, SentOnce
  <2>3. ask[sendBuf[c][i]].dev = cdev[c]
    BY <2>1, <2>2 DEF SendInv, HubInv, CallsInStep
  <2> QED
    BY <2>2, <2>3 DEF Sent
<1> QED
  BY <1>1, SendInvariant, PTL

-----------------------------------------------------------------------------
\* What calls get.  Only an answer of a device gives a call anything.
LEMMA AnswerSteps ==
    ASSUME HubInv, [Next]_vars
    PROVE  \/ val' = val /\ emitted' = emitted
           \/ \E c \in Conns, a \in Reqs : DeviceAnswer(c, a)
<1>1. ASSUME NEW r \in Reqs, Forward(r) PROVE val' = val /\ emitted' = emitted
  BY <1>1 DEF Forward, BadPayload, Duplicate, File, Insert, Lookup, SendOk,
              SendFull, SendPanics, GiveUp, Cleanup, Finish, pendingVars
<1>2. ASSUME NEW r \in Reqs, Timer(r) PROVE val' = val /\ emitted' = emitted
  BY <1>2 DEF Timer, TimerFires, TimerCallback, hubVars
<1> QED
  BY <1>1, <1>2
     DEF Next, ConnOnly, Leave, Revoked, CancelRequests, CancelOwned,
         ReachDevice, pendingVars, hubVars, vars

\* The request an answer finds is the one that occupies the name of the request
\* that was answered.
LEMMA AnswerFinds ==
    ASSUME HubInv, BarFreeDevices, NEW c \in Conns, NEW a \in Reqs,
           DeviceAnswer(c, a), NEW r \in Filed({AnswerKey(cdev[c], a)})
    PROVE  /\ Key(r) = Key(a)
           /\ Key(a) = AnswerKey(cdev[c], a)
           /\ chan[r] = "open"
           /\ chan[a] # "none"
           /\ chan[a] = "open" => a = r
           /\ \A q \in Filed({AnswerKey(cdev[c], a)}) : q = r
<1> DEFINE k == AnswerKey(cdev[c], a)
<1>0. PendingTypeOK /\ ConnTypeOK /\ CallsInStep
  BY DEF HubInv, PendingInv, ConnInv
<1>1. cdev[c] \in Devices /\ ask[a].dev = cdev[c] /\ a \in emitted'
  BY <1>0 DEF ConnTypeOK, DeviceAnswer
<1>2. k \in Keys
  BY <1>0, <1>1, AnswerKeyInKeys
<1>3. r \in Reqs /\ pending[k] = r
  BY DEF Filed
<1>4. Key(r) = k /\ chan[r] = "open"
  BY <1>2, <1>3, PendingAssumption DEF HubInv, PendingInv, PendingIsOpen
<1>5. /\ ask[r].dev \in Devices /\ ask[r].dev \in Seq(Chars)
      /\ cdev[c] \in Seq(Chars)
      /\ BarFree(ask[r].dev) /\ BarFree(cdev[c])
      /\ ask[r].id.text \in Seq(Chars) /\ ask[a].id.text \in Seq(Chars)
  BY <1>0, <1>1, <1>3, TextAssumption, PendingAssumption
     DEF PendingTypeOK, BarFreeDevices
<1>6. /\ RequestId(ask[r].id) \in Seq(Chars) /\ RequestId(ask[r].id) # <<>>
      /\ ResponseId(ask[a].id) \in Seq(Chars)
  BY <1>5, RequestIdIsText DEF ResponseId, IdToString
<1>7. KeyOf(ask[r].dev, RequestId(ask[r].id)) = KeyOf(cdev[c], ResponseId(ask[a].id))
  BY <1>4 DEF Key, AnswerKey
<1>8. RequestId(ask[r].id) = ResponseId(ask[a].id)
  BY <1>5, <1>6, <1>7, KeyInjective
<1>9. ResponseId(ask[a].id) = RequestId(ask[a].id)
  BY <1>6, <1>8 DEF ResponseId, RequestId
<1>10. Key(a) = k
  BY <1>1, <1>9 DEF Key, AnswerKey
<1>11. chan[a] # "none"
  BY <1>0 DEF DeviceAnswer, CallsInStep
<1>12. chan[a] = "open" => a = r
  BY <1>3, <1>10 DEF HubInv, PendingInv, OpenIsPendingAndTimed
<1>13. \A q \in Filed({k}) : q = r
  BY <1>3 DEF Filed
<1> QED
  BY <1>4, <1>10, <1>11, <1>12, <1>13

LEMMA NextCallInv ==
    ASSUME CallInv, BarFreeDevices, [Next]_vars, HubInv'
    PROVE  CallInv'
<1>0. HubInv /\ AnswersSent /\ AnswersMatch /\ NoTheft
  BY DEF CallInv
<1>1. ask' = ask /\ \A r \in Reqs : Key(r)' = Key(r)
  BY <1>0, HubChan, KeyFixed
<1>2. \A r \in Reqs : chan[r] = "closed" => chan'[r] = "closed"
  BY <1>0, HubMovesPending, ClosedStays DEF HubInv
<1>3. val \in [Reqs -> Reqs \cup {NoReq}]
  BY <1>0 DEF HubInv, PendingInv, PendingTypeOK
<1> DEFINE Good(r) == val'[r] # NoReq =>
                        /\ val'[r] \in emitted'
                        /\ Key(val'[r]) = Key(r)
                        /\ \A q \in Reqs : val'[q] = val'[r] => q = r
                        /\ val'[r] # r => chan'[val'[r]] = "closed"
<1>4. ASSUME NEW r \in Reqs PROVE Good(r)
  <2>1. CASE val' = val /\ emitted' = emitted
    BY <1>0, <1>2, <1>3, <2>1 DEF AnswersSent, AnswersMatch, NoTheft
  <2>2. ASSUME NEW c \in Conns, NEW a \in Reqs, DeviceAnswer(c, a) PROVE Good(r)
    <3> DEFINE F == Filed({AnswerKey(cdev[c], a)})
    <3>1. /\ a \notin emitted /\ emitted' = emitted \cup {a}
          /\ \A q \in Reqs : val'[q] = IF q \in F THEN a ELSE val[q]
          /\ \A q \in Reqs : chan'[q] = IF q \in F THEN "closed" ELSE chan[q]
      BY <2>2 DEF DeviceAnswer, Deliver, Drop
    <3>2. \A q \in Reqs : val[q] # a
      BY <1>0, <3>1, PendingAssumption DEF AnswersSent
    <3>3. chan \in [Reqs -> {"none", "open", "closed"}]
      BY <1>0 DEF HubInv, PendingInv, PendingTypeOK
    <3>4. CASE r \in F
      <4>1. /\ Key(r) = Key(a)
            /\ chan[a] # "none"
            /\ chan[a] = "open" => a = r
            /\ \A q \in F : q = r
        BY <1>0, <2>2, <3>4, AnswerFinds
      <4> HIDE DEF F
      <4>2. val'[r] = a
        BY <3>1, <3>4
      <4>3. \A q \in Reqs : val'[q] = a => q = r
        BY <3>1, <3>2, <4>1
      <4>4. a # r => chan'[a] = "closed"
        BY <1>2, <3>3, <4>1
      <4> QED
        BY <3>1, <4>1, <4>2, <4>3, <4>4
    <3>5. CASE r \notin F
      <4> HIDE DEF F
      <4>1. val'[r] = val[r]
        BY <3>1, <3>5
      <4>2. ASSUME val[r] # NoReq PROVE Good(r)
        <5>1. /\ val[r] \in emitted /\ val[r] \in Reqs
              /\ Key(val[r]) = Key(r)
              /\ \A q \in Reqs : val[q] = val[r] => q = r
              /\ val[r] # r => chan[val[r]] = "closed"
          BY <1>0, <1>3, <4>2 DEF AnswersSent, AnswersMatch, NoTheft
        <5>2. \A q \in Reqs : val'[q] = val[r] => q = r
          BY <3>1, <3>2, <5>1
        <5> QED
          BY <1>2, <3>1, <4>1, <5>1, <5>2
      <4> QED
        BY <4>1, <4>2
    <3> QED
      BY <3>4, <3>5
  <2> QED
    BY <1>0, <2>1, <2>2, AnswerSteps
<1>5. HubInv'
  OBVIOUS
<1>6. AnswersSent'
  BY <1>4 DEF AnswersSent
<1>7. \A r \in Reqs : val'[r] \in Reqs \cup {NoReq}
  BY DEF HubInv, PendingInv, PendingTypeOK
<1>8. AnswersMatch'
  <2> SUFFICES ASSUME NEW r \in Reqs, val'[r] # NoReq
               PROVE  /\ Key(val[r])' = Key(r)'
                      /\ \A q \in Reqs : val'[q] = val'[r] => q = r
    BY DEF AnswersMatch
  <2>1. Key(val[r])' = Key(val'[r])
    BY <1>1 DEF Key
  <2> QED
    BY <1>1, <1>4, <2>1
<1>9. NoTheft'
  BY <1>4, <1>7 DEF NoTheft
<1> QED
  BY <1>5, <1>6, <1>8, <1>9 DEF CallInv

\* What calls get, in every reachable state: names of different devices cannot
\* be mixed up without a separator in a device id.
THEOREM CallInvariant == ASSUME BarFreeDevices PROVE Spec => []CallInv
<1>1. Init => CallInv
  <2> SUFFICES ASSUME Init PROVE CallInv
    OBVIOUS
  <2>1. \A r \in Reqs : val[r] = NoReq
    BY DEF Init, PendingInit
  <2> QED
    BY <2>1, InitHubInv DEF CallInv, AnswersSent, AnswersMatch, NoTheft
<1>2. CallInv /\ HubInv' /\ [Next]_vars => CallInv'
  BY NextCallInv
<1> QED
  BY <1>1, <1>2, HubInvariant, PTL DEF Spec
\* An answer ends a call of its own name, and only one.
THEOREM AnswersRight == ASSUME BarFreeDevices PROVE Spec => []AnswersMatch
<1>1. CallInv => AnswersMatch
  BY DEF CallInv
<1> QED
  BY <1>1, CallInvariant, PTL

\* No answer is taken from a call that still waits for it.
THEOREM NothingStolen == ASSUME BarFreeDevices PROVE Spec => []NoTheft
<1>1. CallInv => NoTheft
  BY DEF CallInv
<1> QED
  BY <1>1, CallInvariant, PTL

\* Answers come from the device the call was made to.
THEOREM OwnDeviceAnswers == ASSUME BarFreeDevices PROVE Spec => []AnswersFromOwnDevice
<1>1. CallInv => AnswersFromOwnDevice
  <2> SUFFICES ASSUME CallInv, NEW r \in Reqs, val[r] # NoReq
               PROVE  ask[val[r]].dev = ask[r].dev
    BY DEF AnswersFromOwnDevice
  <2>1. val[r] \in Reqs /\ Key(val[r]) = Key(r)
    BY DEF CallInv, AnswersMatch, HubInv, PendingInv, PendingTypeOK
  <2>2. ASSUME NEW q \in Reqs
        PROVE  /\ ask[q].dev \in Seq(Chars) /\ BarFree(ask[q].dev)
               /\ RequestId(ask[q].id) \in Seq(Chars)
    BY TextAssumption, PendingAssumption, RequestIdIsText
       DEF CallInv, HubInv, PendingInv, PendingTypeOK, BarFreeDevices
  <2> QED
    BY <2>1, <2>2, KeyInjective DEF Key
<1> QED
  BY <1>1, CallInvariant, PTL

\* The outcome of a call in the hub never changes once its channel is closed.
THEOREM HubClosedFinal == Spec => ClosedIsFinal
BY TablesImplemented, ClosedFinal, PTL DEF ImplementsTables

-----------------------------------------------------------------------------
\* Channels that close without an answer.
LEMMA NextClosedForAReason ==
    ASSUME HubInv, BarFreeDevices, [Next]_vars, NEW r \in Reqs,
           chan[r] = "open", chan'[r] = "closed", val'[r] = NoReq
    PROVE  \/ hmu # Free /\ Unregistering = ask[r].dev
           \/ \E q \in Reqs :
                 /\ Key(q) = Key(r) /\ (q = r \/ chan[q] # "open")
                 /\ \/ timer[q] = "fired" /\ timer'[q] = "done"
                    \/ phase[q] = "giveup" /\ phase'[q] = "failed"
<1> DEFINE Reason == \/ hmu # Free /\ Unregistering = ask[r].dev
                     \/ \E q \in Reqs :
                           /\ Key(q) = Key(r) /\ (q = r \/ chan[q] # "open")
                           /\ \/ timer[q] = "fired" /\ timer'[q] = "done"
                              \/ phase[q] = "giveup" /\ phase'[q] = "failed"
<1>0. /\ PendingTypeOK /\ HubTypeOK /\ PendingIsOpen
      /\ ConnTypeOK /\ OpenIsPendingAndTimed
  BY DEF HubInv, PendingInv, ConnInv
<1>1. ASSUME NEW K \in SUBSET Keys, Drop(K) PROVE Key(r) \in K
  <2>1. r \in Filed(K)
    BY <1>1 DEF Drop
  <2> QED
    BY <2>1, PendingAssumption, <1>0 DEF Filed, PendingIsOpen
<1>2. ASSUME NEW q \in Reqs, Drop({Key(q)})
      PROVE  Key(q) = Key(r) /\ (q = r \/ chan[q] # "open")
  <2>1. {Key(q)} \in SUBSET Keys
    BY <1>0, KeyInKeys
  <2>2. Key(q) = Key(r)
    BY <1>1, <1>2, <2>1
  <2>3. chan[q] = "open" => pending[Key(q)] = q /\ pending[Key(r)] = r
    BY <1>0 DEF OpenIsPendingAndTimed
  <2> QED
    BY <2>2, <2>3
<1>3. ASSUME NEW q \in Reqs, GiveUp(q) PROVE Reason
  <2>1. Key(q) = Key(r) /\ (q = r \/ chan[q] # "open")
    BY <1>2, <1>3 DEF GiveUp, Cleanup
  <2> QED
    BY <1>0, <1>3, <2>1 DEF GiveUp, Goto, HubTypeOK
<1>4. ASSUME NEW q \in Reqs, TimerCallback(q) PROVE Reason
  <2>1. Key(q) = Key(r) /\ (q = r \/ chan[q] # "open")
    BY <1>2, <1>4 DEF TimerCallback
  <2>2. timer[q] = "fired" /\ timer'[q] = "done"
    BY <1>0, <1>4, StoppedType DEF TimerCallback
  <2> QED
    BY <2>1, <2>2
<1>5. ASSUME NEW d \in Devices, CancelOwned(d), hmu # Free, Unregistering = d
      PROVE  Reason
  <2>1. OwnedBy(Key(r), d)
    BY <1>1, <1>5 DEF CancelOwned
  <2>2. /\ ask[r].dev \in Seq(Chars) /\ BarFree(ask[r].dev)
        /\ d \in Seq(Chars) /\ BarFree(d)
        /\ RequestId(ask[r].id) \in Seq(Chars)
    BY <1>0, TextAssumption, PendingAssumption, RequestIdIsText
       DEF PendingTypeOK, BarFreeDevices
  <2>3. ask[r].dev = d
    BY <2>1, <2>2, OwnedIsOwn DEF Key
  <2> QED
    BY <1>5, <2>3
<1>6. ASSUME NEW c \in Conns, NEW a \in Reqs, DeviceAnswer(c, a) PROVE FALSE
  <2>1. cdev[c] \in Devices
    BY <1>0 DEF ConnTypeOK
  <2>2. AnswerKey(cdev[c], a) \in Keys
    BY <1>0, <2>1, AnswerKeyInKeys
  <2>3. r \in Filed({AnswerKey(cdev[c], a)})
    BY <1>6 DEF DeviceAnswer, Deliver, Drop
  <2> QED
    BY <1>6, <2>3, PendingAssumption DEF DeviceAnswer, Deliver
<1>7. ASSUME NEW c \in Conns, Leave(c) PROVE Reason
  <2>1. hmu = c /\ Unregistering \in Devices
    BY <1>0, <1>7 DEF Leave, LeaveEnd, Unregistering, ConnTypeOK
  <2> QED
    BY <1>5, <1>7, <2>1, ConnAssumption DEF Leave, CancelRequests
<1>8. ASSUME NEW d \in Devices, Revoked(d) PROVE Reason
  <2>1. hmu = d /\ Unregistering = d
    BY <1>8, ConnAssumption DEF Revoked, RevokeEnd, Unregistering
  <2> QED
    BY <1>5, <1>8, <2>1, ConnAssumption DEF Revoked, CancelRequests
<1>9. ASSUME NEW q \in Reqs, File(q) PROVE FALSE
  BY <1>0, <1>9 DEF File, Insert, PendingTypeOK
<1>10. ASSUME UNCHANGED chan PROVE FALSE
  BY <1>10
<1> HIDE DEF Reason
<1>11. ASSUME NEW q \in Reqs, Forward(q) \/ Timer(q) PROVE Reason
  BY <1>3, <1>4, <1>9, <1>10, <1>11
     DEF Forward, BadPayload, Duplicate, Lookup, SendOk, SendFull, SendPanics,
         Finish, Timer, TimerFires, pendingVars
<1>12. Reason
  BY <1>6, <1>7, <1>8, <1>10, <1>11
     DEF Next, ConnOnly, ReachDevice, pendingVars, vars
<1> QED
  BY <1>12 DEF Reason

\* No call is cut short on behalf of another device or name, or of another call
\* that is still open.
THEOREM ClosedWithReason == ASSUME BarFreeDevices PROVE Spec => ClosedForAReason
<1>1. HubInv /\ [Next]_vars =>
        [\A r \in Reqs :
            chan[r] = "open" /\ chan'[r] = "closed" /\ val'[r] = NoReq =>
               \/ hmu # Free /\ Unregistering = ask[r].dev
               \/ \E q \in Reqs :
                     /\ Key(q) = Key(r) /\ (q = r \/ chan[q] # "open")
                     /\ \/ timer[q] = "fired" /\ timer'[q] = "done"
                        \/ phase[q] = "giveup" /\ phase'[q] = "failed"]_vars
  BY NextClosedForAReason
<1> QED
  BY <1>1, HubInvariant, PTL DEF Spec, ClosedForAReason

-----------------------------------------------------------------------------
\* Answers that arrive while their call waits.  A null id is filed under "0"
\* and looked up as the empty text, so the id must print as something.
LEMMA NextAnswerReaches ==
    ASSUME HubInv, [Next]_vars, NEW a \in Reqs, a \in emitted' \ emitted,
           chan[a] = "open", Prints(ask[a].id)
    PROVE  val'[a] = a
<1>1. PICK c \in Conns : DeviceAnswer(c, a)
  BY AnswerSteps DEF DeviceAnswer
<1>2. ask[a].id \in Ids /\ ask[a].dev = cdev[c]
  BY <1>1 DEF DeviceAnswer, HubInv, PendingInv, PendingTypeOK
<1>3. AnswerKey(cdev[c], a) = Key(a)
  BY <1>2 DEF AnswerKey, Key, ResponseId, RequestId, Prints
<1>4. a \in Filed({AnswerKey(cdev[c], a)})
  BY <1>3 DEF HubInv, PendingInv, OpenIsPendingAndTimed, Filed
<1> QED
  BY <1>1, <1>4 DEF DeviceAnswer, Deliver

\* An answer in time ends the call it is for, if its id prints as something.
THEOREM AnswerReaches == Spec => AnswerReachesCaller
<1>1. HubInv /\ [Next]_vars =>
        [\A a \in Reqs :
            a \in emitted' \ emitted /\ chan[a] = "open" /\ Prints(ask[a].id) =>
               val'[a] = a]_vars
  BY NextAnswerReaches
<1> QED
  BY <1>1, HubInvariant, PTL DEF Spec, AnswerReachesCaller
-----------------------------------------------------------------------------
\* The hub implements ForwardSpec.  The outcome of a call changes only when the
\* call ends.
LEMMA NamesStay ==
    ASSUME HubInv, [Next]_vars
    PROVE  [r \in Reqs |-> Key(r)]' = [r \in Reqs |-> Key(r)]
<1>1. \A r \in Reqs : Key(r)' = Key(r)
  BY HubChan, KeyFixed
<1> QED
  BY <1>1

\* A step of the hub in which no phase changes, or one to another that has the
\* same outcome.
LEMMA OutcomeStays ==
    ASSUME HubTypeOK, NEW r \in Reqs, NEW p, Goto(r, p),
           phase[r] \notin {"answered", "failed", "panicked"},
           p \notin {"answered", "failed", "panicked"}
    PROVE  [q \in Reqs |-> Outcome(q)]' = [q \in Reqs |-> Outcome(q)]
<1>1. \A q \in Reqs : Outcome(q)' = Outcome(q)
  BY DEF HubTypeOK, Goto, Outcome
<1> QED
  BY <1>1

LEMMA OutcomeSet ==
    ASSUME HubTypeOK, NEW r \in Reqs, NEW p \in {"answered", "failed", "panicked"},
           Goto(r, p), phase[r] \notin {"answered", "failed", "panicked"}
    PROVE  /\ Outcome(r) = "none"
           /\ [q \in Reqs |-> Outcome(q)]' =
                 [[q \in Reqs |-> Outcome(q)] EXCEPT ![r] =
                     IF p = "answered" THEN "answered" ELSE "failed"]
<1>1. Outcome(r) = "none"
  BY DEF Outcome
<1>2. \A q \in Reqs : Outcome(q)' = IF q = r
                        THEN IF p = "answered" THEN "answered" ELSE "failed"
                        ELSE Outcome(q)
  BY DEF HubTypeOK, Goto, Outcome
<1> QED
  BY <1>1, <1>2
\* Dropping what is filed under one key closes the channel of at most one call,
\* and that call has the key's name.
LEMMA DropOne ==
    ASSUME PendingInv, NEW k \in Keys, Drop({k})
    PROVE  \/ Filed({k}) = {} /\ chan' = chan
           \/ \E r \in Reqs : /\ Filed({k}) = {r}
                              /\ Key(r) = k
                              /\ chan[r] = "open"
                              /\ chan' = [chan EXCEPT ![r] = "closed"]
<1>1. chan \in [Reqs -> {"none", "open", "closed"}]
  BY DEF PendingInv, PendingTypeOK
<1>2. chan' = [r \in Reqs |-> IF r \in Filed({k}) THEN "closed" ELSE chan[r]]
  BY DEF Drop
<1>3. Filed({k}) = IF pending[k] \in Reqs THEN {pending[k]} ELSE {}
  BY DEF Filed
<1>4. CASE pending[k] \in Reqs
  <2> DEFINE r == pending[k]
  <2>1. Key(r) = k /\ chan[r] = "open"
    BY <1>4, PendingAssumption DEF PendingInv, PendingIsOpen
  <2> HIDE DEF r
  <2>2. r \in Reqs /\ Filed({k}) = {r}
    BY <1>3, <1>4 DEF r
  <2>3. chan' = [chan EXCEPT ![r] = "closed"]
    BY <1>1, <1>2, <2>2
  <2> QED
    BY <2>1, <2>2, <2>3 DEF r
<1>5. CASE pending[k] \notin Reqs
  <2>1. chan' = [r \in Reqs |-> chan[r]]
    BY <1>2, <1>3, <1>5
  <2> QED
    BY <1>1, <1>3, <1>5, <2>1
<1> QED
  BY <1>4, <1>5

LEMMA NextImplementsCalls ==
    ASSUME CallInv, BarFreeDevices, [Next]_vars
    PROVE  [Calls!Next]_(Calls!vars)
<1> DEFINE Names == [r \in Reqs |-> Key(r)]
           Results == [r \in Reqs |-> Outcome(r)]
           Abstract == [Calls!Next]_(Calls!vars)
<1>0. HubInv /\ HubTypeOK /\ PendingInv /\ PendingTypeOK /\ ConnTypeOK /\ AnswersSent
  BY DEF CallInv, HubInv, PendingInv, ConnInv
<1>1. Names' = Names
  BY <1>0, NamesStay
<1>2. ASSUME chan' = chan, val' = val, Results' = Results PROVE Abstract
  BY <1>1, <1>2 DEF Calls!vars
<1>3. ASSUME UNCHANGED phase PROVE Results' = Results
  <2>1. \A r \in Reqs : Outcome(r)' = Outcome(r)
    BY <1>3 DEF Outcome
  <2> QED
    BY <2>1
<1>4. ASSUME NEW R \in SUBSET Reqs, R # {}, \A r \in R : chan[r] = "open",
             chan' = [r \in Reqs |-> IF r \in R THEN "closed" ELSE chan[r]],
             val' = val, UNCHANGED phase
      PROVE  Abstract
  <2>1. Calls!Close(R)
    BY <1>1, <1>3, <1>4 DEF Calls!Close
  <2> QED
    BY <2>1 DEF Calls!Next
<1>5. ASSUME NEW r \in Reqs, BadPayload(r) \/ Duplicate(r) \/ SendPanics(r)
      PROVE  Abstract
  <2>1. PICK p \in {"answered", "failed", "panicked"} : Goto(r, p) /\ p # "answered"
    BY <1>5 DEF BadPayload, Duplicate, SendPanics
  <2>2. phase[r] \notin {"answered", "failed", "panicked"}
    BY <1>5 DEF BadPayload, Duplicate, SendPanics
  <2>3. Results[r] = "none" /\ Results' = [Results EXCEPT ![r] = "failed"]
    BY <1>0, <2>1, <2>2, OutcomeSet
  <2>4. chan' = chan /\ val' = val
    BY <1>5 DEF BadPayload, Duplicate, SendPanics, pendingVars
  <2>5. Calls!Fail(r)
    BY <1>1, <2>3, <2>4 DEF Calls!Fail
  <2> QED
    BY <2>5 DEF Calls!Next
<1>6. ASSUME NEW r \in Reqs, File(r) PROVE Abstract
  <2>1. Results' = Results /\ Results[r] = "none"
    <3>1. Goto(r, "filed") /\ phase[r] = "idle"
      BY <1>6 DEF File
    <3>2. Outcome(r) = "none"
      BY <3>1 DEF Outcome
    <3> QED
      BY <1>0, <3>1, <3>2, OutcomeStays
  <2>2. \A q \in Reqs : chan[q] = "open" => Names[q] # Names[r]
    BY <1>0, <1>6, PendingAssumption
       DEF File, Insert, PendingInv, OpenIsPendingAndTimed
  <2>3. chan[r] = "none" /\ chan' = [chan EXCEPT ![r] = "open"] /\ val' = val
    BY <1>6 DEF File, Insert
  <2>4. Calls!Open(r)
    BY <1>1, <2>1, <2>2, <2>3 DEF Calls!Open
  <2> QED
    BY <2>4 DEF Calls!Next
<1>7. ASSUME NEW r \in Reqs, Lookup(r) \/ SendOk(r) \/ SendFull(r) PROVE Abstract
  <2>1. chan' = chan /\ val' = val
    BY <1>7 DEF Lookup, SendOk, SendFull, pendingVars
  <2>2. PICK p \in {"giveup", "sending", "waiting"} : Goto(r, p)
    BY <1>7 DEF Lookup, SendOk, SendFull
  <2>3. phase[r] \notin {"answered", "failed", "panicked"}
    BY <1>7 DEF Lookup, SendOk, SendFull
  <2>4. Results' = Results
    BY <1>0, <2>2, <2>3, OutcomeStays
  <2> QED
    BY <1>2, <2>1, <2>4
<1>8. ASSUME NEW r \in Reqs, GiveUp(r) PROVE Abstract
  <2>1. Results[r] = "none" /\ Results' = [Results EXCEPT ![r] = "failed"]
    BY <1>0, <1>8, OutcomeSet DEF GiveUp
  <2>2. val' = val /\ chan[r] # "none" /\ Drop({Key(r)})
    BY <1>8 DEF GiveUp, Cleanup
  <2>3. Key(r) \in Keys
    BY <1>0, KeyInKeys
  <2>4. \/ chan' = chan
        \/ \E q \in Reqs : /\ chan[q] = "open"
                           /\ Names[q] = Names[r]
                           /\ chan' = [chan EXCEPT ![q] = "closed"]
    BY <1>0, <2>2, <2>3, DropOne
  <2>5. Calls!Fail(r)
    BY <1>1, <2>1, <2>2, <2>4 DEF Calls!Fail
  <2> QED
    BY <2>5 DEF Calls!Next
<1>9. ASSUME NEW r \in Reqs, Finish(r) PROVE Abstract
  <2> DEFINE p == IF val[r] = NoReq THEN "failed" ELSE "answered"
  <2>1. Goto(r, p) /\ phase[r] = "waiting"
    BY <1>9 DEF Finish
  <2>2. Results[r] = "none" /\ Results' = [Results EXCEPT ![r] = p]
    BY <1>0, <2>1, OutcomeSet
  <2>3. chan' = chan /\ val' = val /\ chan[r] = "closed"
    BY <1>9 DEF Finish, pendingVars
  <2>4. Calls!Return(r)
    BY <1>1, <2>2, <2>3 DEF Calls!Return
  <2> QED
    BY <2>4 DEF Calls!Next
<1>10. ASSUME NEW r \in Reqs, Timer(r) PROVE Abstract
  <2>1. val' = val /\ UNCHANGED phase
    BY <1>10 DEF Timer, TimerFires, TimerCallback, hubVars
  <2>2. CASE chan' = chan
    BY <1>2, <1>3, <2>1, <2>2
  <2>3. CASE chan' # chan
    <3>1. Drop({Key(r)}) /\ Key(r) \in Keys
      BY <1>0, <1>10, <2>3, KeyInKeys DEF Timer, TimerFires, TimerCallback
    <3>2. PICK q \in Reqs : Filed({Key(r)}) = {q} /\ chan[q] = "open"
      BY <1>0, <2>3, <3>1, DropOne
    <3>3. chan' = [s \in Reqs |-> IF s \in {q} THEN "closed" ELSE chan[s]]
      BY <3>1, <3>2 DEF Drop
    <3> QED
      BY <1>4, <2>1, <3>2, <3>3
  <2> QED
    BY <2>2, <2>3
<1>11. ASSUME NEW d \in Devices, CancelOwned(d), UNCHANGED phase PROVE Abstract
  <2> DEFINE K == {k \in Keys : OwnedBy(k, d)}
             R == Filed(K)
  <2>1. val' = val /\ chan' = [r \in Reqs |-> IF r \in R THEN "closed" ELSE chan[r]]
    BY <1>11 DEF CancelOwned, Drop
  <2>2. R \in SUBSET Reqs /\ \A r \in R : chan[r] = "open"
    BY <1>0, PendingAssumption DEF Filed, PendingInv, PendingIsOpen
  <2> HIDE DEF R
  <2>3. CASE R = {}
    <3>1. chan' = chan
      BY <1>0, <2>1, <2>3 DEF PendingTypeOK
    <3> QED
      BY <1>2, <1>3, <1>11, <2>1, <3>1
  <2>4. CASE R # {}
    BY <1>4, <1>11, <2>1, <2>2, <2>4
  <2> QED
    BY <2>3, <2>4
<1>12. ASSUME NEW c \in Conns, NEW a \in Reqs, DeviceAnswer(c, a) PROVE Abstract
  <2> DEFINE k == AnswerKey(cdev[c], a)
  <2>1. k \in Keys /\ Drop({k}) /\ UNCHANGED phase
    <3>1. cdev[c] \in Devices
      BY <1>0 DEF ConnTypeOK
    <3> QED
      BY <1>0, <1>12, <3>1, AnswerKeyInKeys DEF DeviceAnswer, Deliver
  <2>2. val' = [r \in Reqs |-> IF r \in Filed({k}) THEN a ELSE val[r]]
    BY <1>12 DEF DeviceAnswer, Deliver
  <2>3. CASE Filed({k}) = {} /\ chan' = chan
    <3>1. val' = val
      BY <1>0, <2>2, <2>3 DEF PendingTypeOK
    <3> QED
      BY <1>2, <1>3, <2>1, <2>3, <3>1
  <2>4. ASSUME NEW r \in Reqs, Filed({k}) = {r}, chan[r] = "open",
               chan' = [chan EXCEPT ![r] = "closed"]
        PROVE  Abstract
    <3>1. Key(a) = Key(r) /\ chan[a] # "none"
      BY <1>0, <1>12, <2>4, AnswerFinds
    <3>2. \A q \in Reqs : val[q] # a
      BY <1>0, <1>12, PendingAssumption DEF DeviceAnswer, AnswersSent
    <3>3. val' = [val EXCEPT ![r] = a]
      BY <1>0, <2>2, <2>4 DEF PendingTypeOK
    <3>4. Results' = Results
      BY <1>3, <2>1
    <3>5. Calls!Answer(r, a)
      BY <1>1, <2>4, <3>1, <3>2, <3>3, <3>4 DEF Calls!Answer
    <3> QED
      BY <3>5 DEF Calls!Next
  <2> QED
    BY <1>0, <2>1, <2>3, <2>4, DropOne
<1>13. ASSUME NEW c \in Conns, Leave(c) PROVE Abstract
  <2>1. Unregistering \in Devices
    BY <1>0, <1>13 DEF Leave, LeaveEnd, Unregistering, ConnTypeOK
  <2> QED
    BY <1>11, <1>13, <2>1 DEF Leave, CancelRequests, hubVars
<1>14. ASSUME NEW d \in Devices, Revoked(d) PROVE Abstract
  <2>1. Unregistering = d
    BY <1>14, ConnAssumption DEF Revoked, RevokeEnd, Unregistering
  <2> QED
    BY <1>11, <1>14, <2>1 DEF Revoked, CancelRequests, hubVars
<1>15. ASSUME UNCHANGED <<pendingVars, phase>> PROVE Abstract
  BY <1>2, <1>3, <1>15 DEF pendingVars
<1> HIDE DEF Abstract
<1>16. ASSUME NEW r \in Reqs, Forward(r) PROVE Abstract
  BY <1>5, <1>6, <1>7, <1>8, <1>9, <1>16 DEF Forward
<1>17. Abstract
  BY <1>10, <1>12, <1>13, <1>14, <1>15, <1>16
     DEF Next, ConnOnly, ReachDevice, hubVars, vars
<1> QED
  BY <1>17 DEF Abstract

\* Every behaviour of the hub is one of ForwardSpec.
THEOREM CallsImplemented == ASSUME BarFreeDevices PROVE Spec => ImplementsCalls
<1>1. Init => Calls!Init
  <2> SUFFICES ASSUME Init PROVE Calls!Init
    OBVIOUS
  <2>1. \A r \in Reqs : Outcome(r) = "none"
    BY DEF Init, Outcome
  <2> QED
    BY <2>1 DEF Init, PendingInit, Calls!Init
<1>2. CallInv /\ [Next]_vars => [Calls!Next]_(Calls!vars)
  BY NextImplementsCalls
<1> QED
  BY <1>1, <1>2, CallInvariant, PTL DEF Spec, ImplementsCalls, Calls!Spec

-----------------------------------------------------------------------------
\* Every call ends.  The prover has no rules for ENABLED: that the step a call is
\* at can be taken is a premise, the state predicate StepsEnabled that TLC checks.
\* First, what the argument about one call takes from the specification.
LEMMA FairParts ==
    ASSUME NEW r \in Reqs
    PROVE  FairSpec => Spec /\ FairHolder /\ FairCall(r)
BY DEF FairSpec, Fairness

\* h.mu is free again and again, so whoever waits for it gets it.
LEMMA MuFree == FairSpec /\ []StepsEnabled => []<>(hmu = Free)
<1>1. FairSpec => FairHolder
  BY DEF FairSpec, Fairness
<1>2. <<Unlock>>_vars => (hmu = Free)'
  BY DEF Unlock, Leave, LeaveEnd, Revoked, RevokeEnd
<1>3. StepsEnabled /\ ~(hmu = Free) => ENABLED <<Unlock>>_vars
  BY DEF StepsEnabled
<1> QED
  BY <1>1, <1>2, <1>3, PTL DEF FairHolder

\* Where a call is.
At(r, p) == phase[r] = p
Left(r) == phase[r] \in {"giveup", "waiting", "answered", "failed", "panicked"}
Trying(r, i) == phase[r] = "sending" /\ tries[r] >= i

LEMMA CallSteps ==
    ASSUME HubInv, [Next]_vars, NEW r \in Reqs
    PROVE  /\ At(r, "filed") => At(r, "filed")' \/ At(r, "sending")' \/ Left(r)'
           /\ \A i \in Nat : Trying(r, i) => Trying(r, i)' \/ Left(r)'
           /\ At(r, "giveup") => At(r, "giveup")' \/ Ended(r)'
           /\ At(r, "waiting") => At(r, "waiting")' \/ Ended(r)'
           /\ Ended(r) => Ended(r)'
           /\ Ended(r) /\ chan[r] # "open" => chan'[r] # "open"
<1>0. HubTypeOK
  BY DEF HubInv
<1>1. \/ phase[r] = "idle" \/ Ended(r)
      \/ /\ phase[r] = "filed" 
         /\ phase'[r] \in {"filed", "sending", "giveup"}
      \/ /\ phase[r] = "sending"
         /\ \/ phase'[r] = "sending" /\ tries'[r] \in {tries[r], tries[r] + 1}
            \/ Left(r)'
      \/ phase[r] = "giveup" /\ phase'[r] \in {"giveup", "failed"}
      \/ phase[r] = "waiting" /\ phase'[r] \in {"waiting", "answered", "failed"}
  <2>1. CASE ~Forward(r)
    BY <1>0, <2>1, OthersStay DEF Ended, HubTypeOK
  <2>2. CASE BadPayload(r) \/ Duplicate(r) \/ File(r)
    BY <2>2 DEF BadPayload, Duplicate, File
  <2>3. CASE Lookup(r)
    BY <2>3, <1>0 DEF Lookup, HubTypeOK, Goto
  <2>4. CASE SendOk(r) \/ SendFull(r) \/ SendPanics(r)
    BY <2>4, <1>0 DEF SendOk, SendFull, SendPanics, HubTypeOK, Goto, Left
  <2>5. CASE GiveUp(r) \/ Finish(r)
    BY <2>5, <1>0 DEF GiveUp, Finish, HubTypeOK, Goto
  <2> QED
    BY <2>1, <2>2, <2>3, <2>4, <2>5 DEF Forward
<1>2. Ended(r) => phase'[r] = phase[r]
  BY OthersStay DEF Ended, Forward, BadPayload, Duplicate, File, Lookup, SendOk,
     SendFull, SendPanics, GiveUp, Finish
<1>3. Ended(r) /\ chan[r] # "open" => chan'[r] # "open"
  BY ChanSteps DEF Ended, File
<1>4. ASSUME NEW i \in Nat, Trying(r, i) PROVE Trying(r, i)' \/ Left(r)'
  <2>1. tries[r] \in Nat
    BY <1>0, HubAssumption DEF HubTypeOK
  <2> QED
    BY <1>1, <1>4, <2>1 DEF Trying, Ended
<1> QED
  BY <1>1, <1>2, <1>3, <1>4 DEF At, Left, Ended

\* One more attempt, or none.
LEMMA SendStep ==
    ASSUME HubInv, NEW r \in Reqs, NEW i \in Nat, NEW j \in Nat, j <= i + 1,
           Trying(r, i), <<Send(r)>>_vars
    PROVE  Trying(r, j)' \/ Left(r)'
<1>1. tries[r] \in Nat /\ HubTypeOK
  BY HubAssumption DEF HubInv, HubTypeOK
<1> QED
  BY <1>1 DEF Send, SendOk, SendFull, SendPanics, Trying, Left, Goto, HubTypeOK

\* However often call r has tried, it tries again up to j times or is through.
Advances(r, i, j) ==
    FairSpec /\ []StepsEnabled => (Trying(r, i) ~> Left(r) \/ Trying(r, j))

LEMMA OneTry ==
    ASSUME NEW r \in Reqs, NEW i \in Nat
    PROVE  Advances(r, i, i + 1)
<1>1. HubInv /\ [Next]_vars /\ Trying(r, i) => Trying(r, i)' \/ Left(r)'
  BY CallSteps
<1>2. HubInv /\ Trying(r, i) /\ <<Send(r)>>_vars => Left(r)' \/ Trying(r, i + 1)'
  BY SendStep
<1>3. StepsEnabled /\ Trying(r, i) => ENABLED <<Send(r)>>_vars
  BY DEF StepsEnabled, Trying
<1>4. FairSpec => Spec /\ FairCall(r)
  BY FairParts
<1> QED
  BY <1>1, <1>2, <1>3, <1>4, HubInvariant, PTL DEF Spec, FairCall, Advances

LEMMA Further ==
    ASSUME NEW r \in Reqs, NEW i, NEW j, NEW k,
           Advances(r, i, j), Advances(r, j, k)
    PROVE  Advances(r, i, k)
BY PTL DEF Advances

\* There is no induction over i here: each step of the proof doubles the number
\* of attempts, up to more than forward_retry.go allows.
LEMMA Doubled ==
    ASSUME NEW r \in Reqs, NEW k \in Nat, NEW m \in Nat, m = k + k,
           \A i \in Nat : Advances(r, i, i + k)
    PROVE  \A i \in Nat : Advances(r, i, i + m)
<1> TAKE i \in Nat
<1>1. i + k \in Nat /\ (i + k) + k = i + m
  OBVIOUS
<1>2. Advances(r, i, i + k) /\ Advances(r, i + k, (i + k) + k)
  BY <1>1
<1>3. Advances(r, i, (i + k) + k)
  BY <1>2, Further
<1> QED
  BY <1>1, <1>3

LEMMA SixtyFourTries ==
    ASSUME NEW r \in Reqs
    PROVE  \A i \in Nat : Advances(r, i, i + 64)
<1>0. /\ {0, 1, 2, 4, 8, 16, 32, 64} \subseteq Nat
      /\ 2 = 1 + 1 /\ 4 = 2 + 2 /\ 8 = 4 + 4 /\ 16 = 8 + 8
      /\ 32 = 16 + 16 /\ 64 = 32 + 32
  OBVIOUS
<1>1. \A i \in Nat : Advances(r, i, i + 1)
  BY OneTry
<1>2. \A i \in Nat : Advances(r, i, i + 2)
  BY <1>0, <1>1, Doubled
<1>3. \A i \in Nat : Advances(r, i, i + 4)
  BY <1>0, <1>2, Doubled
<1>4. \A i \in Nat : Advances(r, i, i + 8)
  BY <1>0, <1>3, Doubled
<1>5. \A i \in Nat : Advances(r, i, i + 16)
  BY <1>0, <1>4, Doubled
<1>6. \A i \in Nat : Advances(r, i, i + 32)
  BY <1>0, <1>5, Doubled
<1> QED
  BY <1>0, <1>6, Doubled

\* No call stays in the loop of its send attempts.
LEMMA SendingEnds ==
    ASSUME NEW r \in Reqs
    PROVE  FairSpec /\ []StepsEnabled => (At(r, "sending") ~> Left(r))
<1>1. HubInv /\ At(r, "sending") => Trying(r, 0)
  BY HubAssumption DEF HubInv, HubTypeOK, At, Trying
<1>2. HubInv => ~Trying(r, 0 + 64)
  BY HubAssumption, AttemptsAssumption DEF HubInv, HubTypeOK, CallsInStep, Trying
<1>3. Advances(r, 0, 0 + 64)
  <2>1. 0 \in Nat
    OBVIOUS
  <2> QED
    BY <2>1, SixtyFourTries
<1> QED
  BY <1>1, <1>2, <1>3, HubInvariant, PTL DEF Advances, FairSpec, Spec

\* A call that has filed its request gets to its lookup.
LEMMA FiledEnds ==
    ASSUME NEW r \in Reqs
    PROVE  FairSpec /\ []StepsEnabled =>
              (At(r, "filed") ~> At(r, "sending") \/ Left(r))
<1>1. HubInv /\ [Next]_vars /\ At(r, "filed") =>
         At(r, "filed")' \/ At(r, "sending")' \/ Left(r)'
  BY CallSteps
<1>2. HubInv /\ <<Lookup(r)>>_vars => At(r, "sending")' \/ Left(r)'
  BY DEF Lookup, Goto, At, Left, HubInv, HubTypeOK
<1>3. StepsEnabled /\ At(r, "filed") /\ hmu = Free => ENABLED <<Lookup(r)>>_vars
  BY DEF StepsEnabled, At
<1>4. FairSpec => Spec /\ FairCall(r)
  BY FairParts
<1> QED
  BY <1>1, <1>2, <1>3, <1>4, MuFree, HubInvariant, PTL DEF Spec, FairCall

LEMMA GiveUpEnds ==
    ASSUME NEW r \in Reqs
    PROVE  FairSpec /\ []StepsEnabled => (At(r, "giveup") ~> Ended(r))
<1>1. HubInv /\ [Next]_vars /\ At(r, "giveup") => At(r, "giveup")' \/ Ended(r)'
  BY CallSteps
<1>2. HubInv /\ <<GiveUp(r)>>_vars => Ended(r)'
  BY DEF GiveUp, Goto, Ended, HubInv, HubTypeOK
<1>3. StepsEnabled /\ At(r, "giveup") => ENABLED <<GiveUp(r)>>_vars
  BY DEF StepsEnabled, At
<1>4. FairSpec => Spec /\ FairCall(r)
  BY FairParts
<1> QED
  BY <1>1, <1>2, <1>3, <1>4, HubInvariant, PTL DEF Spec, FairCall

\* A call whose channel is open: its timer runs, or its callback is on its way.
Armed(r) == chan[r] = "open" /\ timer[r] = "armed"
Fired(r) == chan[r] = "open" /\ timer[r] = "fired"
Closed(r) == chan[r] # "open"

\* Whatever deletes entries closes the channels it finds there, so the timer of
\* a channel that stays open was not stopped.
LEMMA TimerSteps ==
    ASSUME PendingInv, [PendingNext]_pendingVars, NEW r \in Reqs,
           chan[r] = "open", chan'[r] = "open"
    PROVE  \/ timer'[r] = timer[r]
           \/ timer[r] = "armed" /\ timer'[r] = "fired"
<1> DEFINE Step == \/ timer'[r] = timer[r]
                   \/ timer[r] = "armed" /\ timer'[r] = "fired"
<1>0. PendingTypeOK
  BY DEF PendingInv
<1>1. ASSUME NEW K, Drop(K) PROVE r \notin Filed(K)
  BY <1>1 DEF Drop
<1>2. ASSUME NEW K, Drop(K), timer' = Stopped(K) PROVE Step
  BY <1>0, <1>1, <1>2, StoppedType
<1>3. ASSUME NEW q \in Reqs, Insert(q) PROVE Step
  BY <1>0, <1>3 DEF Insert, PendingTypeOK
<1>4. ASSUME NEW q \in Reqs, TimerFires(q) PROVE Step
  BY <1>0, <1>4 DEF TimerFires, PendingTypeOK
<1>5. ASSUME NEW q \in Reqs, TimerCallback(q) PROVE Step
  <2>1. r \notin Filed({Key(q)})
    BY <1>1, <1>5 DEF TimerCallback
  <2>2. q # r
    BY <2>1 DEF PendingInv, OpenIsPendingAndTimed, Filed
  <2> QED
    BY <1>0, <1>5, <2>1, <2>2, StoppedType DEF TimerCallback
<1> HIDE DEF Step
<1>6. Step
  BY <1>2, <1>3, <1>4, <1>5 DEF PendingNext, Cleanup, Deliver, CancelOwned, pendingVars, Step
<1> QED
  BY <1>6 DEF Step

LEMMA OwnTimer ==
    ASSUME PendingInv, NEW r \in Reqs, chan[r] = "open", Timer(r)
    PROVE  (Armed(r) /\ Fired(r)') \/ (Fired(r) /\ Closed(r)')
<1>1. CASE TimerFires(r)
  BY <1>1 DEF TimerFires, Armed, Fired, PendingInv, PendingTypeOK
<1>2. CASE TimerCallback(r)
  <2>1. r \in Filed({Key(r)})
    BY DEF PendingInv, OpenIsPendingAndTimed, Filed
  <2> QED
    BY <1>2, <2>1 DEF TimerCallback, Drop, Fired, Closed
<1> QED
  BY <1>1, <1>2 DEF Timer

\* Every open channel is closed, by its timer if by nobody else.
LEMMA OpenEnds ==
    ASSUME NEW r \in Reqs
    PROVE  FairSpec /\ []StepsEnabled => []<>Closed(r)
<1>1. HubInv => Armed(r) \/ Fired(r) \/ Closed(r)
  BY DEF HubInv, PendingInv, OpenIsPendingAndTimed, Armed, Fired, Closed
<1>2. HubInv /\ [Next]_vars /\ Armed(r) => Armed(r)' \/ Fired(r)' \/ Closed(r)'
  BY HubMovesPending, TimerSteps DEF HubInv, Armed, Fired, Closed
<1>3. HubInv /\ [Next]_vars /\ Fired(r) => Fired(r)' \/ Closed(r)'
  BY HubMovesPending, TimerSteps DEF HubInv, Armed, Fired, Closed
<1>4. HubInv /\ Armed(r) /\ <<Timer(r)>>_vars => Fired(r)'
  BY OwnTimer DEF HubInv, Armed, Fired
<1>5. HubInv /\ Fired(r) /\ <<Timer(r)>>_vars => Closed(r)'
  BY OwnTimer DEF HubInv, Armed, Fired
<1>6. StepsEnabled /\ (Armed(r) \/ Fired(r)) => ENABLED <<Timer(r)>>_vars
  BY DEF StepsEnabled, Armed, Fired
<1>7. FairSpec => Spec /\ FairCall(r)
  BY FairParts
<1> QED
  BY <1>1, <1>2, <1>3, <1>4, <1>5, <1>6, <1>7, HubInvariant, PTL DEF Spec, FairCall

\* A call that waits has its channel, which stays closed once it is.
LEMMA WaitingEnds ==
    ASSUME NEW r \in Reqs
    PROVE  FairSpec /\ []StepsEnabled => (At(r, "waiting") ~> Ended(r))
<1>1. HubInv /\ [Next]_vars /\ At(r, "waiting") => At(r, "waiting")' \/ Ended(r)'
  BY CallSteps
<1>2. HubInv /\ [Next]_vars /\ At(r, "waiting") /\ Closed(r) => Closed(r)'
  BY ChanSteps DEF At, Closed, File
<1>3. HubInv /\ <<Finish(r)>>_vars => Ended(r)'
  BY DEF Finish, Goto, Ended, HubInv, HubTypeOK
<1>4. StepsEnabled /\ HubInv /\ At(r, "waiting") /\ Closed(r) => ENABLED <<Finish(r)>>_vars
  BY DEF StepsEnabled, At, Closed, HubInv, CallsInStep, PendingInv, PendingTypeOK
<1>5. FairSpec => Spec /\ FairCall(r)
  BY FairParts
<1> QED
  BY <1>1, <1>2, <1>3, <1>4, <1>5, OpenEnds, HubInvariant, PTL DEF Spec, FairCall

\* One call ends, wherever it is.
LEMMA CallEnds ==
    ASSUME NEW r \in Reqs
    PROVE  FairSpec /\ []StepsEnabled =>
              (phase[r] # "idle" ~> Ended(r) /\ chan[r] # "open")
<1>1. HubInv /\ phase[r] # "idle" =>
         \/ At(r, "filed") \/ At(r, "sending") \/ At(r, "giveup")
         \/ At(r, "waiting") \/ Ended(r)
  BY DEF HubInv, HubTypeOK, At, Ended
<1>2. Left(r) => At(r, "giveup") \/ At(r, "waiting") \/ Ended(r)
  BY DEF Left, At, Ended
<1>3. HubInv /\ [Next]_vars /\ Ended(r) => Ended(r)'
  BY CallSteps
<1>4. Ended(r) /\ Closed(r) <=> Ended(r) /\ chan[r] # "open"
  BY DEF Closed
<1>5. FairSpec => Spec
  BY DEF FairSpec
<1> QED
  BY <1>1, <1>2, <1>3, <1>4, <1>5, FiledEnds, SendingEnds, GiveUpEnds, WaitingEnds,
     OpenEnds, HubInvariant, PTL DEF Spec

\* Every call ends, for any number of calls, sockets and devices, whatever the
\* devices, the sockets and the other calls do (hub.go, ForwardRequestWithOpts):
\* on the premise that nobody is stuck, the fairness of the goroutines is enough.
THEOREM CallsEnd == FairSpec /\ []StepsEnabled => EveryCallEnds
BY CallEnds DEF EveryCallEnds
=============================================================================
