---------------------------- MODULE Access_proofs ----------------------------
(***************************************************************************)
(* Who is connected without a credential, for every set of sockets,        *)
(* devices and calls.  A step of Access is a step of the connection table  *)
(* and a step of the credentials, so both invariants hold; what remains is *)
(* the order of RevokeDevice's two halves against HandleWS's two.          *)
(***************************************************************************)
EXTENDS Access, ConnTable_proofs, Credentials_proofs

\* A revocation names a device.
LEMMA RevokesName ==
    ASSUME CredTypeOK, NEW v \in Revokes
    PROVE  v \in Named /\ v \in Calls /\ dev[v] \in Devices
BY CredAssumption DEF CredTypeOK, Named, Calls

LEMMA AccessMovesConns ==
    ASSUME AccessInv, [Next]_vars
    PROVE  [ConnNext]_connVars
<1>1. ASSUME NEW v \in Revokes, Cut(v) \/ CutEnds(v) \/ Remove(v)
      PROVE  [ConnNext]_connVars
  <2>1. dev[v] \in Devices
    BY RevokesName DEF AccessInv, CredInv
  <2> QED
    BY <1>1, <2>1 DEF Cut, CutEnds, Remove, CredStep, ConnNext
<1>2. ASSUME NEW c \in Conns,
             \/ Validate(c)
             \/ RegisterSocket(c)
             \/ ConnStep(LeaveBegin(c))
             \/ ConnStep(LeaveEnd(c))
             \/ ConnStep(WriterEnds(c))
             \/ ConnStep(WriterFails(c))
             \/ ConnStep(ReadFails(c))
      PROVE  [ConnNext]_connVars
  BY <1>2 DEF Validate, RegisterSocket, ConnStep, ConnNext
<1> QED
  BY <1>1, <1>2 DEF Next, vars, CredStep

LEMMA AccessMovesCreds ==
    ASSUME [Next]_vars
    PROVE  [CredNext]_credVars
<1>1. ASSUME NEW c \in Conns,
             \/ Validate(c)
             \/ RegisterSocket(c)
             \/ ConnStep(LeaveBegin(c))
             \/ ConnStep(LeaveEnd(c))
             \/ ConnStep(WriterEnds(c))
             \/ ConnStep(WriterFails(c))
             \/ ConnStep(ReadFails(c))
      PROVE  UNCHANGED credVars
  BY <1>1 DEF Validate, RegisterSocket, ConnStep
<1>2. ASSUME NEW v \in Revokes, Cut(v) \/ CutEnds(v) \/ Remove(v)
      PROVE  [CredNext]_credVars
  BY <1>2 DEF Cut, CutEnds, Remove, CredStep, CredNext
<1> QED
  BY <1>1, <1>2 DEF Next, vars, CredStep, CredNext

-----------------------------------------------------------------------------
LEMMA NextAccessTypeOK ==
    ASSUME AccessInv, [Next]_vars
    PROVE  AccessTypeOK'
<1>1. ASSUME NEW c \in Conns, Validate(c) PROVE AccessTypeOK'
  <2>1. devices[cdev[c]] \in Creds \cup {NoCred}
    BY DEF AccessInv, ConnInv, ConnTypeOK, CredInv, CredTypeOK, Maps
  <2> QED
    BY <1>1, <2>1 DEF AccessInv, AccessTypeOK, Validate
<1>2. ASSUME NEW c \in Conns, RegisterSocket(c) PROVE AccessTypeOK'
  BY <1>2 DEF AccessInv, AccessTypeOK, RegisterSocket
<1>3. ASSUME NEW v \in Revokes, Cut(v) \/ CutEnds(v) \/ Remove(v) PROVE AccessTypeOK'
  BY <1>3 DEF AccessInv, AccessTypeOK, Cut, CutEnds, Remove, CredStep, accessVars
<1>4. ASSUME UNCHANGED accessVars PROVE AccessTypeOK'
  BY <1>4 DEF AccessInv, AccessTypeOK, accessVars
<1> QED
  BY <1>1, <1>2, <1>3, <1>4 DEF Next, ConnStep, CredStep, vars

\* A step that lists no socket, that uncovers no device, keeps the property.
LEMMA NothingUncovered ==
    ASSUME AccessInv, late' = late,
           \A d \in Devices : conns'[d] \in {conns[d], NoConn},
           \A d \in Devices : conns'[d] # NoConn /\ Uncovered(d)' => Uncovered(d)
    PROVE  OnlyLateWhileUncovered'
BY DEF AccessInv, OnlyLateWhileUncovered

\* The steps of the credentials other than a revocation's.
LEMMA CredSteps ==
    ASSUME AccessInv, CredStep(Change) \/ (\E j \in Savers : CredStep(Save(j)))
                      \/ CredStep(Load) \/ CredStep(LoadFails)
    PROVE  OnlyLateWhileUncovered'
<1>1. conns' = conns /\ cut' = cut /\ late' = late
  BY DEF CredStep, connVars, accessVars
<1>2. dev' = dev
  BY DEF CredStep, Change, RegisterDevice, StartPairing, Consume, Refuse,
         AddCredential, List, Expire, Load, LoadFails, Save, Copy, Truncate,
         Write, SaveFails
<1>3. \A v \in Revokes : stage'[v] = "idle" => stage[v] = "idle"
  <2>1. CredTypeOK /\ CredInv
    BY DEF AccessInv, CredInv
  <2>2. CASE Change
    BY <2>1, <2>2, ChangeStages DEF Moved, Calls
  <2>3. ASSUME NEW j \in Savers, Save(j)
        PROVE  \A v \in Revokes : stage'[v] = "idle" => stage[v] = "idle"
    BY <2>1, <2>3, SaveStages DEF Calls
  <2>4. CASE Load \/ LoadFails
    BY <2>1, <2>4, StepOne, CredAssumption DEF Load, LoadFails, Calls
  <2> QED
    BY <2>2, <2>3, <2>4 DEF CredStep
<1>4. \A d \in Devices : devices'[d] = NoCred => devices[d] = NoCred
  <2>0. devices \in Maps /\ CredInv
    BY DEF AccessInv, CredInv, CredTypeOK
  <2>1. ASSUME NEW r \in Registers, RegisterDevice(r)
        PROVE  \A d \in Devices : devices'[d] = NoCred => devices[d] = NoCred
    <3>1. r # NoCred
      BY CredAssumption DEF Creds
    <3> QED
      BY <2>0, <2>1, <3>1 DEF RegisterDevice, SetDevice, Maps
  <2>2. ASSUME NEW c \in Confirms, AddCredential(c)
        PROVE  \A d \in Devices : devices'[d] = NoCred => devices[d] = NoCred
    <3>1. picked[c] # NoCred
      BY <2>0, <2>2 DEF AddCredential, Step, CredInv, PairingInOnePlace
    <3> QED
      BY <2>0, <2>2, <3>1 DEF AddCredential, SetDevice, Maps
  <2>3. CASE Load
    <3>1. devices = NoDevices
      BY <2>0, <2>3 DEF Load, Step, CredInv, CallsNeedServer
    <3> QED
      BY <3>1 DEF NoDevices
  <2> QED
    BY <2>1, <2>2, <2>3
       DEF CredStep, Change, StartPairing, Consume, Refuse, List, Expire,
           LoadFails, Save, Copy, Truncate, Write, SaveFails
<1>5. \A d \in Devices : Uncovered(d)' => Uncovered(d)
  BY <1>1, <1>2, <1>3, <1>4 DEF Uncovered, Between
<1> QED
  BY <1>1, <1>5, NothingUncovered

LEMMA NextOnlyLate ==
    ASSUME AccessInv, [Next]_vars
    PROVE  OnlyLateWhileUncovered'
<1> USE DEF AccessInv
<1>1. ASSUME NEW c \in Conns, RegisterSocket(c) PROVE OnlyLateWhileUncovered'
  <2>1. /\ cdev[c] \in Devices
        /\ \A d \in Devices : conns'[d] = IF d = cdev[c] THEN c ELSE conns[d]
    BY <1>1 DEF RegisterSocket, Register, ConnInv, ConnTypeOK
  <2>2. \A d \in Devices : Uncovered(d)' <=> Uncovered(d)
    BY <1>1 DEF RegisterSocket, Uncovered, Between, credVars
  <2>3. /\ late \subseteq late'
        /\ Uncovered(cdev[c]) => c \in late'
    BY <1>1 DEF RegisterSocket
  <2> QED
    BY <2>1, <2>2, <2>3 DEF OnlyLateWhileUncovered
<1>2. ASSUME UNCHANGED <<credVars, accessVars>>,
             \A d \in Devices : conns'[d] \in {conns[d], NoConn}
      PROVE  OnlyLateWhileUncovered'
  BY <1>2, NothingUncovered DEF Uncovered, Between, credVars, accessVars
<1>3. ASSUME NEW c \in Conns,
             \/ ConnStep(LeaveBegin(c))
             \/ ConnStep(LeaveEnd(c))
             \/ ConnStep(WriterEnds(c))
             \/ ConnStep(WriterFails(c))
             \/ ConnStep(ReadFails(c))
      PROVE  OnlyLateWhileUncovered'
  <2>1. \A d \in Devices : conns'[d] \in {conns[d], NoConn}
    BY <1>3 DEF ConnStep, LeaveBegin, UnregisterBegin, LeaveEnd, WriterEnds,
                WriterFails, ReadFails, ConnInv, ConnTypeOK
  <2> QED
    BY <1>2, <1>3, <2>1 DEF ConnStep
<1>4. ASSUME NEW c \in Conns, Validate(c) PROVE OnlyLateWhileUncovered'
  BY <1>4, NothingUncovered DEF Validate, Uncovered, Between, credVars, connVars
<1>5. ASSUME NEW v \in Revokes, Cut(v) PROVE OnlyLateWhileUncovered'
  <2>1. \A d \in Devices : conns'[d] \in {conns[d], NoConn}
    BY <1>5 DEF Cut, RevokeBegin, UnregisterBegin, ConnInv, ConnTypeOK
  <2>2. \A w \in Revokes : cut'[w] = "cut" => cut[w] = "cut"
    BY <1>5 DEF Cut, AccessTypeOK
  <2>3. UNCHANGED <<dev, devices, stage, late>>
    BY <1>5 DEF Cut, credVars
  <2> QED
    BY <2>1, <2>2, <2>3, NothingUncovered DEF Uncovered, Between
<1>6. ASSUME NEW v \in Revokes, CutEnds(v) PROVE OnlyLateWhileUncovered'
  <2>1. hmu = dev[v] /\ dev[v] \in Devices
    BY <1>6, RevokesName DEF CutEnds, RevokeEnd, CredInv
  <2>2. conns[dev[v]] = NoConn
    BY <2>1, ConnAssumption DEF ConnInv, HolderEmptied, Unregistering
  <2>3. \A w \in Revokes : w # v => cut'[w] = cut[w]
    BY <1>6 DEF CutEnds, AccessTypeOK
  <2>4. UNCHANGED <<dev, devices, stage, late, conns>>
    BY <1>6 DEF CutEnds, RevokeEnd, credVars
  <2> QED
    BY <2>2, <2>3, <2>4, NothingUncovered DEF Uncovered, Between
<1>7. ASSUME NEW v \in Revokes, Remove(v) PROVE OnlyLateWhileUncovered'
  <2>1. /\ v \in Calls /\ dev[v] \in Devices
        /\ CredTypeOK
    BY RevokesName DEF CredInv
  <2>2. Uncovered(dev[v])
    BY <1>7 DEF Remove, CredStep, RevokeCredential, Step, Uncovered, Between
  <2>3. \A d \in Devices : d # dev[v] => devices'[d] = devices[d]
    BY <1>7, <2>1 DEF Remove, CredStep, RevokeCredential, SetDevice, CredTypeOK, Maps
  <2>4. \A w \in Revokes : w # v => stage'[w] = stage[w]
    BY <1>7, <2>1, StepOne DEF Remove, CredStep, RevokeCredential, Calls
  <2>5. stage'[v] = "changed"
    BY <1>7, <2>1, StepOne DEF Remove, CredStep, RevokeCredential
  <2>6. UNCHANGED <<dev, conns, cut, late>>
    BY <1>7 DEF Remove, CredStep, RevokeCredential, connVars, accessVars
  <2> QED
    BY <2>2, <2>3, <2>4, <2>5, <2>6, NothingUncovered DEF Uncovered, Between
<1>8. CASE UNCHANGED vars
  BY <1>2, <1>8 DEF vars, connVars
<1> QED
  BY <1>1, <1>3, <1>4, <1>5, <1>6, <1>7, <1>8, CredSteps DEF Next

-----------------------------------------------------------------------------
\* Both parts' invariants, and the order of the two halves, in every reachable
\* state.
THEOREM AccessInvariant == Spec => []AccessInv
<1>1. Init => AccessInv
  <2> SUFFICES ASSUME Init PROVE AccessInv
    OBVIOUS
  <2>1. ConnInv /\ CredInv
    BY InitConnInv, InitCredInv DEF Init
  <2>2. AccessTypeOK
    BY DEF Init, AccessTypeOK
  <2>3. OnlyLateWhileUncovered
    BY DEF Init, ConnInit, OnlyLateWhileUncovered
  <2> QED
    BY <2>1, <2>2, <2>3 DEF AccessInv
<1>2. AccessInv /\ [Next]_vars => AccessInv'
  BY AccessMovesConns, AccessMovesCreds, NextConnInv, NextCredInv,
     NextAccessTypeOK, NextOnlyLate DEF AccessInv
<1> QED
  BY <1>1, <1>2, PTL DEF Spec

\* A device without a credential is connected only by a socket that was
\* registered after RevokeDevice had disconnected the device (hub.go,
\* RevokeDevice; ws.go, HandleWS).
THEOREM OnlyLate == Spec => []OnlyLateSocketsStay
<1>1. AccessInv => OnlyLateSocketsStay
  BY DEF AccessInv, OnlyLateWhileUncovered, OnlyLateSocketsStay, Uncovered
<1> QED
  BY <1>1, AccessInvariant, PTL

\* No step of Access leaves what its two parts allow: their theorems hold here.
THEOREM PartsImplemented == Spec => ConnSpec /\ CredSpec
<1>1. Init => ConnInit /\ CredInit
  BY DEF Init
<1>2. AccessInv /\ [Next]_vars => [ConnNext]_connVars /\ [CredNext]_credVars
  BY AccessMovesConns, AccessMovesCreds
<1> QED
  BY <1>1, <1>2, AccessInvariant, PTL DEF Spec, ConnSpec, CredSpec
=============================================================================
