-------------------------- MODULE Credentials_proofs --------------------------
(***************************************************************************)
(* The invariants of Credentials, for every set of devices, codes and      *)
(* calls.  CredInv is inductive; the file agrees with memory because a     *)
(* save that nobody disturbs copies the map after the last change, or else *)
(* somebody is still to save.                                              *)
(***************************************************************************)
EXTENDS Credentials, TLAPS

LEMMA InitCredInv == ASSUME CredInit PROVE CredInv
<1>1. CredTypeOK
  BY DEF CredInit, CredTypeOK, Maps, NoDevices, Creds
<1>2. CallsNeedServer /\ CopyIsCurrent
  BY CredAssumption DEF CredInit, CallsNeedServer, CopyIsCurrent, NoDevices, Calls, Savers
<1>3. PairingInOnePlace /\ CodeUsedOnce
  BY CredAssumption
     DEF CredInit, PairingInOnePlace, CodeUsedOnce, Creds, Calls
<1>4. OnlyConfirmedAdmitted /\ CopiesConfirmed
  <2>1. /\ devices = NoDevices /\ \A j \in Savers : snap[j] = NoDevices
        /\ file \in [Devices -> Old \cup {NoCred}]
    BY DEF CredInit
  <2>2. NoCred \notin Pairings /\ Old \cap Pairings = {}
    BY CredAssumption DEF Creds
  <2> QED
    BY <2>1, <2>2 DEF OnlyConfirmedAdmitted, CopiesConfirmed, HoldsConfirmed, NoDevices
<1> QED
  BY <1>1, <1>2, <1>3, <1>4 DEF CredInv

\* Setting a device to a credential of the model, or to none.
LEMMA SetDeviceType ==
    ASSUME NEW d \in Devices, NEW cred \in Creds \cup {NoCred}, SetDevice(d, cred),
           devices \in Maps
    PROVE  devices' \in Maps
BY DEF SetDevice, Maps

\* A call's step stays within the stages.
LEMMA StepType ==
    ASSUME CredTypeOK, NEW j, NEW from,
           NEW to \in {"idle", "consumed", "changed", "opening", "writing",
                       "ok", "error", "killed"},
           Step(j, from, to)
    PROVE  stage' \in [Calls \cup {Loader} ->
                         {"idle", "consumed", "changed", "opening", "writing",
                          "ok", "error", "killed"}]
BY DEF Step, CredTypeOK

LEMMA ChangeTypeOK == ASSUME CredInv, Change PROVE CredTypeOK'
<1> USE DEF CredInv, pairVars, diskVars
<1>1. ASSUME NEW r \in Registers, RegisterDevice(r) PROVE CredTypeOK'
  <2>1. r \in Named /\ r \in Creds
    BY CredAssumption DEF Named, Calls, Creds
  <2>2. devices' \in Maps
    BY <1>1, <2>1, SetDeviceType DEF RegisterDevice, CredTypeOK
  <2> QED
    BY <1>1, <2>2, StepType DEF RegisterDevice, CredTypeOK
<1>2. ASSUME NEW p \in Pairings, StartPairing(p) PROVE CredTypeOK'
  BY <1>2, StepType DEF StartPairing, CredTypeOK
<1>3. ASSUME NEW code \in Codes, Expire(code) PROVE CredTypeOK'
  BY <1>3 DEF Expire, CredTypeOK
<1>4. CASE List
  BY <1>4 DEF List, CredTypeOK
<1>5. ASSUME NEW c \in Confirms, NEW code \in Codes, Consume(c, code)
      PROVE  CredTypeOK'
  BY <1>5, StepType DEF Consume, CredTypeOK
<1>6. ASSUME NEW c \in Confirms, NEW code \in Codes, Refuse(c, code)
      PROVE  CredTypeOK'
  BY <1>6, StepType DEF Refuse, CredTypeOK
<1>7. ASSUME NEW c \in Confirms, AddCredential(c) PROVE CredTypeOK'
  <2>1. picked[c] \in Pairings
    BY <1>7 DEF AddCredential, Step, PairingInOnePlace, CredTypeOK
  <2>2. picked[c] \in Named /\ picked[c] \in Creds
    BY <2>1, CredAssumption DEF Named, Calls, Creds
  <2>3. devices' \in Maps
    BY <1>7, <2>2, SetDeviceType DEF AddCredential, CredTypeOK
  <2> QED
    BY <1>7, <2>3, StepType DEF AddCredential, CredTypeOK
<1> QED
  BY <1>1, <1>2, <1>3, <1>4, <1>5, <1>6, <1>7 DEF Change

LEMMA SaveTypeOK ==
    ASSUME CredInv, NEW j \in Savers, Save(j)
    PROVE  CredTypeOK'
<1> USE DEF CredInv, pairVars, diskVars
<1>1. NoDevices \in Maps
  BY DEF NoDevices, Maps
<1>2. CASE Copy(j)
  BY <1>2, StepType DEF Copy, CredTypeOK
<1>3. CASE Truncate(j)
  BY <1>3, StepType DEF Truncate, CredTypeOK
<1>4. CASE Write(j)
  BY <1>1, <1>4, StepType DEF Write, CredTypeOK
<1>5. CASE SaveFails(j)
  BY <1>1, <1>5 DEF SaveFails, CredTypeOK
<1> QED
  BY <1>2, <1>3, <1>4, <1>5 DEF Save

LEMMA NextCredTypeOK == ASSUME CredInv, [CredNext]_credVars PROVE CredTypeOK'
<1> USE DEF CredInv, pairVars, diskVars
<1>0. NoDevices \in Maps
  BY DEF NoDevices, Maps
<1>1. CASE Load
  BY <1>1, StepType DEF Load, CredTypeOK
<1>2. CASE LoadFails
  BY <1>2, StepType DEF LoadFails, CredTypeOK
<1>3. ASSUME NEW v \in Revokes, RevokeCredential(v) PROVE CredTypeOK'
  <2>1. v \in Named
    BY CredAssumption DEF Named, Calls
  <2>2. devices' \in Maps
    BY <1>3, <2>1, SetDeviceType DEF RevokeCredential, CredTypeOK
  <2> QED
    BY <1>3, <2>2, StepType DEF RevokeCredential, CredTypeOK
<1>4. CASE Crash
  <2>1. stage' \in [Calls \cup {Loader} ->
                      {"idle", "consumed", "changed", "opening", "writing",
                       "ok", "error", "killed"}]
    BY <1>4 DEF Crash, CredTypeOK
  <2> QED
    BY <1>0, <1>4, <2>1 DEF Crash, CredTypeOK
<1>5. CASE UNCHANGED credVars
  BY <1>5 DEF credVars, CredTypeOK
<1> QED
  BY <1>1, <1>2, <1>3, <1>4, <1>5, ChangeTypeOK, SaveTypeOK DEF CredNext

-----------------------------------------------------------------------------
\* Who is under way, and where.

\* A step of one call leaves the stages of the others.
LEMMA StepOne ==
    ASSUME CredTypeOK, NEW j \in Calls \cup {Loader}, NEW from, NEW to, Step(j, from, to)
    PROVE  /\ stage[j] = from
           /\ stage'[j] = to
           /\ \A q \in Calls \cup {Loader} : q # j => stage'[q] = stage[q]
BY DEF Step, CredTypeOK

LEMMA SaveStages ==
    ASSUME CredTypeOK, NEW j \in Savers, Save(j)
    PROVE  /\ stage[j] \in {"changed", "opening", "writing"}
           /\ stage'[j] # "idle"
           /\ \A q \in Calls \cup {Loader} : q # j => stage'[q] = stage[q]
<1>1. j \in Calls \cup {Loader}
  BY DEF Savers, Calls
<1>2. CASE Copy(j)
  BY <1>1, <1>2, StepOne DEF Copy
<1>3. CASE Truncate(j)
  BY <1>1, <1>3, StepOne DEF Truncate
<1>4. CASE Write(j)
  BY <1>1, <1>4, StepOne DEF Write
<1>5. CASE SaveFails(j)
  BY <1>1, <1>5 DEF SaveFails, CredTypeOK
<1> QED
  BY <1>2, <1>3, <1>4, <1>5 DEF Save

\* What a change of the map or of the codes does to the rest: a call that was
\* not in a save takes a step, and if the map has changed it will save.
Moved(j) ==
    /\ stage[j] \in {"idle", "consumed"}
    /\ \A q \in Calls \cup {Loader} : q # j => stage'[q] = stage[q]
    /\ \/ j \in Savers /\ stage'[j] = "changed"
       \/ stage'[j] \in {"ok", "error", "consumed"} /\ UNCHANGED devices

LEMMA ChangeStages ==
    ASSUME CredInv, Change \/ \E v \in Revokes : RevokeCredential(v)
    PROVE  /\ UNCHANGED <<diskVars, snap, suspect>>
           /\ \/ UNCHANGED <<stage, devices>>
              \/ Up /\ \E j \in Calls : Moved(j)
<1> USE DEF CredInv, Moved
<1>1. ASSUME NEW r \in Registers, RegisterDevice(r) PROVE Up /\ Moved(r)
  BY <1>1, StepOne DEF RegisterDevice, Calls, Savers
<1>2. ASSUME NEW p \in Pairings, StartPairing(p) PROVE Up /\ Moved(p)
  BY <1>2, StepOne DEF StartPairing, Calls
<1>3. ASSUME NEW c \in Confirms, NEW code \in Codes, Consume(c, code)
      PROVE  Up /\ Moved(c)
  BY <1>3, StepOne DEF Consume, Calls
<1>4. ASSUME NEW c \in Confirms, NEW code \in Codes, Refuse(c, code)
      PROVE  Up /\ Moved(c)
  BY <1>4, StepOne DEF Refuse, Calls
<1>5. ASSUME NEW c \in Confirms, AddCredential(c) PROVE Up /\ Moved(c)
  <2>1. c \in Calls /\ c \in Savers
    BY DEF Calls, Savers
  <2>2. stage[c] = "consumed" /\ Moved(c)
    BY <1>5, <2>1, StepOne DEF AddCredential
  <2> QED
    BY <2>1, <2>2 DEF CallsNeedServer
<1>6. ASSUME NEW v \in Revokes, RevokeCredential(v) PROVE Up /\ Moved(v)
  BY <1>6, StepOne DEF RevokeCredential, Calls, Savers
<1>7. CASE List \/ \E code \in Codes : Expire(code)
  BY <1>7 DEF List, Expire, diskVars
<1>8. UNCHANGED <<diskVars, snap, suspect>>
  BY DEF Change, RegisterDevice, StartPairing, Consume, Refuse, AddCredential,
         RevokeCredential, List, Expire, diskVars
<1> QED
  BY <1>1, <1>2, <1>3, <1>4, <1>5, <1>6, <1>7, <1>8 DEF Change, Calls

LEMMA NextCallsNeedServer ==
    ASSUME CredInv, [CredNext]_credVars
    PROVE  CallsNeedServer'
<1> USE DEF CredInv
<1>0. Loader \notin Calls
  BY CredAssumption
<1>1. CASE Load \/ LoadFails
  <2>1. stage[Loader] = "idle" /\ stage'[Loader] # "idle"
    BY <1>1, StepOne DEF Load, LoadFails
  <2>2. \A j \in Calls : stage'[j] = stage[j]
    BY <1>0, <1>1, StepOne DEF Load, LoadFails
  <2> QED
    BY <2>1, <2>2 DEF CallsNeedServer, Up
<1>2. CASE Change \/ \E v \in Revokes : RevokeCredential(v)
  <2>1. CASE UNCHANGED <<stage, devices>>
    BY <2>1 DEF CallsNeedServer, Up, NoDevices
  <2>2. CASE Up /\ \E j \in Calls : Moved(j)
    BY <1>0, <2>2 DEF CallsNeedServer, Up, Moved
  <2> QED
    BY <1>2, <2>1, <2>2, ChangeStages
<1>3. ASSUME NEW j \in Savers, Save(j) PROVE CallsNeedServer'
  <2>1. CASE j = Loader
    BY <1>0, <1>3, <2>1, SaveStages DEF CallsNeedServer, Up
  <2>2. CASE j \in Calls
    BY <1>0, <1>3, <2>2, SaveStages DEF CallsNeedServer, Up
  <2> QED
    BY <2>1, <2>2 DEF Savers, Calls
<1>4. CASE Crash
  <2>1. \A j \in Calls : stage'[j] \notin {"consumed", "changed", "opening", "writing"}
    BY <1>0, <1>4 DEF Crash
  <2>2. devices' = NoDevices
    BY <1>4 DEF Crash
  <2> QED
    BY <2>1, <2>2 DEF CallsNeedServer, NoDevices
<1>5. CASE UNCHANGED credVars
  BY <1>5 DEF credVars, CallsNeedServer, Up, NoDevices
<1> QED
  BY <1>1, <1>2, <1>3, <1>4, <1>5 DEF CredNext

-----------------------------------------------------------------------------
\* The file.

\* Nobody in a save is touched by a change: what was current stays, or somebody
\* is to save.
LEMMA ChangeCopyIsCurrent ==
    ASSUME CredInv, Change \/ \E v \in Revokes : RevokeCredential(v)
    PROVE  CopyIsCurrent'
<1> USE DEF CredInv
<1>1. UNCHANGED <<file, snap, suspect>>
  BY ChangeStages DEF diskVars
<1>2. CASE UNCHANGED <<stage, devices>>
  BY <1>1, <1>2 DEF CopyIsCurrent, Saving
<1>3. ASSUME NEW c \in Calls, Up, Moved(c) PROVE CopyIsCurrent'
  <2>1. stage'[Loader] = stage[Loader] /\ stage[Loader] = "ok"
    BY <1>3, CredAssumption DEF Moved, Up
  <2>2. \A j \in Savers : Saving(j)' <=> Saving(j)
    BY <1>3 DEF Saving, Moved, Savers, Calls
  <2>3. \A j \in Savers : stage'[j] = "writing" => stage[j] = "writing"
    BY <1>3 DEF Moved, Savers, Calls
  <2>4. CASE c \in Savers /\ stage'[c] = "changed"
    BY <1>1, <2>1, <2>2, <2>3, <2>4 DEF CopyIsCurrent
  <2>5. CASE UNCHANGED devices
    <3>1. \A j \in Savers : stage[j] = "changed" => stage'[j] = "changed"
      BY <1>3 DEF Moved, Savers, Calls
    <3> QED
      BY <1>1, <2>1, <2>2, <2>3, <2>5, <3>1 DEF CopyIsCurrent
  <2> QED
    BY <1>3, <2>4, <2>5 DEF Moved
<1> QED
  BY <1>2, <1>3, ChangeStages

LEMMA SaveCopyIsCurrent ==
    ASSUME CredInv, NEW j \in Savers, Save(j)
    PROVE  CopyIsCurrent'
<1> USE DEF CredInv
<1>0. /\ j \in Calls \cup {Loader}
      /\ Savers \subseteq Calls \cup {Loader}
  BY DEF Savers, Calls
<1>1. /\ stage[j] \in {"changed", "opening", "writing"}
      /\ \A q \in Savers : q # j => stage'[q] = stage[q]
  BY <1>0, SaveStages
<1>2. stage[Loader] # "idle"
  BY <1>0, <1>1 DEF CallsNeedServer, Up
<1>3. CASE Copy(j)
  <2>1. SUFFICES ASSUME ~suspect' PROVE CopyIsCurrent'
    BY DEF CopyIsCurrent
  <2>2. \A q \in Savers : q # j => ~Saving(q) /\ ~Saving(q)'
    BY <1>1, <1>3, <2>1 DEF Copy, Saving
  <2>3. stage'[j] = "opening" /\ snap'[j] = devices /\ devices' = devices
    BY <1>0, <1>3, StepOne DEF Copy, CredTypeOK
  <2> QED
    BY <2>2, <2>3 DEF CopyIsCurrent, Saving
<1>4. CASE Truncate(j)
  <2>1. SUFFICES ASSUME ~suspect' PROVE CopyIsCurrent'
    BY DEF CopyIsCurrent
  <2>2. /\ stage[j] = "opening" /\ stage'[j] = "writing"
        /\ file' = Blank
        /\ UNCHANGED <<devices, snap, suspect>>
    BY <1>0, <1>4, StepOne DEF Truncate
  <2>3. \A q \in Savers : Saving(q) <=> Saving(q)'
    BY <1>1, <2>2 DEF Saving
  <2>4. \A q \in Savers : stage[q] = "changed" => stage'[q] = "changed"
    BY <1>1, <2>2
  <2>5. Saving(j)
    BY <2>2 DEF Saving
  <2> QED
    BY <1>2, <2>1, <2>2, <2>3, <2>4, <2>5 DEF CopyIsCurrent
<1>5. CASE Write(j)
  <2>1. SUFFICES ASSUME ~suspect' PROVE CopyIsCurrent'
    BY DEF CopyIsCurrent
  <2>2. /\ stage[j] = "writing" /\ stage'[j] = "ok"
        /\ UNCHANGED <<devices, suspect>>
    BY <1>0, <1>5, StepOne DEF Write
  <2>3. Saving(j) /\ ~Saving(j)'
    BY <2>2 DEF Saving
  <2>4. \A q \in Savers : ~Saving(q)' /\ stage'[q] # "writing"
    BY <1>1, <1>2, <2>1, <2>2, <2>3 DEF CopyIsCurrent, Saving
  <2>5. file = Blank
    BY <1>2, <2>1, <2>2 DEF CopyIsCurrent
  <2>6. file' = snap[j]
    BY <1>5, <2>5 DEF Write
  <2>7. \A q \in Savers : stage[q] = "changed" => stage'[q] = "changed"
    BY <1>1, <2>2
  <2>8. (\E q \in Savers : stage[q] = "changed") \/ snap[j] = devices
    BY <1>2, <2>1, <2>2, <2>3 DEF CopyIsCurrent
  <2> QED
    BY <2>2, <2>4, <2>6, <2>7, <2>8 DEF CopyIsCurrent
<1>6. CASE SaveFails(j)
  BY <1>6 DEF SaveFails, CopyIsCurrent
<1> QED
  BY <1>3, <1>4, <1>5, <1>6 DEF Save

LEMMA NextCopyIsCurrent ==
    ASSUME CredInv, [CredNext]_credVars
    PROVE  CopyIsCurrent'
<1> USE DEF CredInv
<1>1. CASE Load
  <2>1. /\ stage[Loader] = "idle" /\ stage'[Loader] \in {"changed", "ok"}
        /\ \A j \in Calls : stage'[j] = stage[j]
        /\ devices' = file /\ file' = file
    BY <1>1, StepOne, CredAssumption DEF Load, diskVars
  <2>2. \A j \in Savers : ~Saving(j)' /\ stage'[j] # "writing"
    BY <2>1 DEF CallsNeedServer, Up, Saving, Savers, Calls
  <2> QED
    BY <2>1, <2>2 DEF CopyIsCurrent
<1>2. CASE LoadFails
  BY <1>2 DEF LoadFails, CopyIsCurrent
<1>3. CASE Crash
  BY <1>3 DEF Crash, CopyIsCurrent
<1>4. CASE UNCHANGED credVars
  BY <1>4 DEF credVars, diskVars, CopyIsCurrent, Saving
<1> QED
  BY <1>1, <1>2, <1>3, <1>4, ChangeCopyIsCurrent, SaveCopyIsCurrent DEF CredNext

-----------------------------------------------------------------------------
\* The codes.

\* Steps that leave the codes alone.
LEMMA PairingUntouched ==
    ASSUME CredInv, UNCHANGED pairVars,
           \A p \in Pairings : stage'[p] = "idle" => stage[p] = "idle",
           \A c \in Confirms : stage'[c] \in {"idle", "consumed"} => stage'[c] = stage[c]
    PROVE  PairingInOnePlace' /\ CodeUsedOnce'
BY DEF CredInv, PairingInOnePlace, CodeUsedOnce, pairVars

LEMMA ChangePairing ==
    ASSUME CredInv, Change
    PROVE  PairingInOnePlace' /\ CodeUsedOnce'
<1> USE DEF CredInv
<1>0. /\ Pairings \subseteq Calls /\ Confirms \subseteq Calls /\ Registers \subseteq Calls
      /\ Pairings \cap Confirms = {} /\ Registers \cap (Pairings \cup Confirms) = {}
      /\ NoCred \notin Pairings
  BY CredAssumption DEF Calls, Creds
<1>1. ASSUME NEW r \in Registers, RegisterDevice(r)
      PROVE  PairingInOnePlace' /\ CodeUsedOnce'
  BY <1>0, <1>1, StepOne, PairingUntouched DEF RegisterDevice
<1>2. ASSUME NEW p \in Pairings, StartPairing(p)
      PROVE  PairingInOnePlace' /\ CodeUsedOnce'
  <2>1. PICK code \in Codes : store' = [store EXCEPT ![code] = p]
    BY <1>2 DEF StartPairing
  <2>2. /\ \A x \in Codes : store[x] # p
        /\ \A c \in Confirms : picked[c] # p
    BY <1>0, <1>2 DEF StartPairing, Step, PairingInOnePlace
  <2>3. \A x \in Codes : store'[x] = IF x = code THEN p ELSE store[x]
    BY <2>1 DEF CredTypeOK
  <2>4. /\ picked' = picked
        /\ stage'[p] = "ok"
        /\ \A q \in Calls : q # p => stage'[q] = stage[q]
    BY <1>0, <1>2, StepOne DEF StartPairing
  <2>5. CodeUsedOnce'
    BY <2>4 DEF CodeUsedOnce
  <2> QED
    BY <1>0, <2>2, <2>3, <2>4, <2>5 DEF PairingInOnePlace
<1>3. CASE List \/ \E code \in Codes : Expire(code)
  <2>1. /\ \A x \in Codes : store'[x] \in {store[x], NoCred}
        /\ UNCHANGED <<picked, stage>>
    BY <1>3 DEF List, Expire
  <2> QED
    BY <1>0, <2>1 DEF PairingInOnePlace, CodeUsedOnce
<1>4. ASSUME NEW c \in Confirms, NEW code \in Codes, Consume(c, code)
      PROVE  PairingInOnePlace' /\ CodeUsedOnce'
  <2>1. /\ store[code] # NoCred
        /\ \A x \in Codes : store'[x] = IF x = code THEN NoCred ELSE store[x]
        /\ \A e \in Confirms : picked'[e] = IF e = c THEN store[code] ELSE picked[e]
    BY <1>4 DEF Consume, CredTypeOK
  <2>2. /\ stage[c] = "idle" /\ stage'[c] = "consumed"
        /\ \A q \in Calls : q # c => stage'[q] = stage[q]
    BY <1>0, <1>4, StepOne DEF Consume
  <2>3. store[code] \in Pairings
    BY <2>1 DEF CredTypeOK
  <2>4. /\ \A e \in Confirms : picked[e] # store[code]
        /\ \A x \in Codes : x # code => store[x] # store[code]
        /\ stage[store[code]] # "idle"
    BY <2>1, <2>3 DEF PairingInOnePlace
  <2>5. CodeUsedOnce'
    BY <2>1, <2>4 DEF CodeUsedOnce
  <2> QED
    BY <1>0, <2>1, <2>2, <2>3, <2>4, <2>5 DEF PairingInOnePlace
<1>5. ASSUME NEW c \in Confirms, NEW code \in Codes, Refuse(c, code)
      PROVE  PairingInOnePlace' /\ CodeUsedOnce'
  <2>1. /\ \A x \in Codes : store'[x] \in {store[x], NoCred}
        /\ picked' = picked
    BY <1>5 DEF Refuse, CredTypeOK
  <2>2. /\ stage'[c] = "error"
        /\ \A q \in Calls : q # c => stage'[q] = stage[q]
    BY <1>0, <1>5, StepOne DEF Refuse
  <2> QED
    BY <1>0, <2>1, <2>2 DEF PairingInOnePlace, CodeUsedOnce
<1>6. ASSUME NEW c \in Confirms, AddCredential(c)
      PROVE  PairingInOnePlace' /\ CodeUsedOnce'
  BY <1>0, <1>6, StepOne, PairingUntouched DEF AddCredential
<1> QED
  BY <1>1, <1>2, <1>3, <1>4, <1>5, <1>6 DEF Change

LEMMA NextPairing ==
    ASSUME CredInv, [CredNext]_credVars
    PROVE  PairingInOnePlace' /\ CodeUsedOnce'
<1> USE DEF CredInv
<1>0. /\ Pairings \subseteq Calls /\ Confirms \subseteq Calls
      /\ Loader \notin Pairings /\ Loader \notin Confirms
      /\ Revokes \subseteq Calls /\ Revokes \cap (Pairings \cup Confirms) = {}
      /\ Savers \subseteq Calls \cup {Loader}
      /\ NoCred \notin Pairings
  BY CredAssumption DEF Calls, Savers, Creds
<1>1. CASE Load \/ LoadFails
  BY <1>0, <1>1, StepOne, PairingUntouched DEF Load, LoadFails
<1>2. ASSUME NEW v \in Revokes, RevokeCredential(v)
      PROVE  PairingInOnePlace' /\ CodeUsedOnce'
  BY <1>0, <1>2, StepOne, PairingUntouched DEF RevokeCredential
<1>3. ASSUME NEW j \in Savers, Save(j)
      PROVE  PairingInOnePlace' /\ CodeUsedOnce'
  <2>1. UNCHANGED pairVars
    BY <1>3 DEF Save, Copy, Truncate, Write, SaveFails
  <2>2. stage'[j] \in {"opening", "writing", "ok", "error"}
    <3>1. j \in Calls \cup {Loader}
      BY <1>0
    <3> QED
      BY <1>3, <3>1, StepOne DEF Save, Copy, Truncate, Write, SaveFails, CredTypeOK
  <2>3. \A q \in Calls : q # j => stage'[q] = stage[q]
    BY <1>3, SaveStages
  <2> QED
    BY <1>0, <2>1, <2>2, <2>3, PairingUntouched
<1>4. CASE Crash
  <2>1. /\ \A x \in Codes : store'[x] = NoCred
        /\ picked' = picked
    BY <1>4 DEF Crash
  <2>2. /\ \A p \in Pairings : stage'[p] = "idle" => stage[p] = "idle"
        /\ \A c \in Confirms : stage'[c] = "idle" => stage[c] = "idle"
        /\ \A c \in Confirms : stage'[c] # "consumed"
    BY <1>0, <1>4 DEF Crash
  <2> QED
    BY <1>0, <2>1, <2>2 DEF PairingInOnePlace, CodeUsedOnce
<1>5. CASE UNCHANGED credVars
  BY <1>5, PairingUntouched DEF credVars
<1> QED
  BY <1>1, <1>2, <1>3, <1>4, <1>5, ChangePairing DEF CredNext

-----------------------------------------------------------------------------
\* The tokens.

\* What is confirmed stays confirmed.
LEMMA ConfirmedStays ==
    ASSUME CredInv, [CredNext]_credVars, NEW p \in Pairings, NEW d, Confirmed(p, d)
    PROVE  Confirmed(p, d)'
<1> USE DEF CredInv
<1>0. PICK c \in Confirms : picked[c] = p /\ stage[c] \notin {"idle", "consumed"}
  BY DEF Confirmed
<1>1. c \in Calls /\ c \in Calls \cup {Loader} /\ c # Loader /\ dev[p] = d
  BY CredAssumption DEF Calls, Confirmed
<1>2. SUFFICES dev' = dev /\ picked'[c] = picked[c] /\ stage'[c] \notin {"idle", "consumed"}
  BY <1>0, <1>1 DEF Confirmed
<1>3. dev' = dev
  BY DEF CredNext, Change, Load, LoadFails, RegisterDevice, StartPairing, Expire, List,
         Consume, Refuse, AddCredential, RevokeCredential, Save, Copy, Truncate, Write,
         SaveFails, Crash, credVars
<1>4. CASE Load \/ LoadFails
  <2>1. stage'[c] = stage[c]
    BY <1>1, <1>4, StepOne DEF Load, LoadFails
  <2> QED
    BY <1>0, <1>3, <1>4, <2>1 DEF Load, LoadFails, pairVars
<1>5. CASE Change \/ \E v \in Revokes : RevokeCredential(v)
  <2>1. stage'[c] \notin {"idle", "consumed"}
    BY <1>0, <1>1, <1>5, ChangeStages DEF Moved
  <2>2. picked'[c] = picked[c]
    <3>1. ASSUME NEW e \in Confirms, NEW code \in Codes, Consume(e, code)
          PROVE  picked'[c] = picked[c]
      BY <1>0, <3>1 DEF Consume, Step, CredTypeOK
    <3> QED
      BY <1>5, <3>1 DEF Change, RegisterDevice, StartPairing, Expire, List, Refuse,
         AddCredential, RevokeCredential, pairVars
  <2> QED
    BY <1>3, <2>1, <2>2
<1>6. ASSUME NEW j \in Savers, Save(j) PROVE picked'[c] = picked[c] /\ stage'[c] \notin {"idle", "consumed"}
  <2>1. stage'[j] \in {"opening", "writing", "ok", "error"}
    <3>1. j \in Calls \cup {Loader}
      BY DEF Savers, Calls
    <3> QED
      BY <1>6, <3>1, StepOne DEF Save, Copy, Truncate, Write, SaveFails, CredTypeOK
  <2>2. stage'[c] \notin {"idle", "consumed"}
    BY <1>0, <1>1, <1>6, <2>1, SaveStages
  <2> QED
    BY <1>3, <1>6, <2>2 DEF Save, Copy, Truncate, Write, SaveFails, pairVars
<1>7. CASE Crash
  BY <1>0, <1>1, <1>3, <1>7 DEF Crash
<1>8. CASE UNCHANGED credVars
  BY <1>0, <1>8 DEF credVars, pairVars
<1> QED
  BY <1>3, <1>4, <1>5, <1>6, <1>7, <1>8 DEF CredNext

LEMMA NextConfirmed ==
    ASSUME CredInv, [CredNext]_credVars
    PROVE  OnlyConfirmedAdmitted' /\ CopiesConfirmed'
<1> USE DEF CredInv
<1> DEFINE Kept(map) ==
             \A d \in Devices, p \in Pairings : map[d] = p => Confirmed(p, d)'
<1>0. NoCred \notin Pairings /\ Registers \cap Pairings = {} /\ NoDevices \in Maps
  BY CredAssumption DEF Creds, NoDevices, Maps
<1>1. /\ Kept(devices)
      /\ file \in Maps => Kept(file)
      /\ \A j \in Savers : Kept(snap[j])
      /\ Kept(NoDevices)
  <2>1. \A d \in Devices, p \in Pairings : Confirmed(p, d) => Confirmed(p, d)'
    BY ConfirmedStays
  <2> QED
    BY <1>0, <2>1 DEF OnlyConfirmedAdmitted, CopiesConfirmed, HoldsConfirmed, NoDevices
<1>2. Kept(devices')
  <2>1. ASSUME NEW d \in Devices, NEW cred \in Creds \cup {NoCred}, SetDevice(d, cred),
               \A p \in Pairings : cred = p => Confirmed(p, d)'
        PROVE  Kept(devices')
    <3>1. \A e \in Devices : devices'[e] = IF e = d THEN cred ELSE devices[e]
      BY <2>1 DEF SetDevice, CredTypeOK, Maps
    <3> QED
      BY <1>1, <2>1, <3>1
  <2>2. CASE UNCHANGED devices \/ devices' = NoDevices \/ (file \in Maps /\ devices' = file)
    BY <1>1, <2>2
  <2>3. ASSUME NEW r \in Registers, RegisterDevice(r) PROVE Kept(devices')
    <3>1. dev[r] \in Devices /\ r \in Creds
      BY CredAssumption DEF CredTypeOK, Named, Calls, Creds
    <3> QED
      BY <1>0, <2>1, <2>3, <3>1 DEF RegisterDevice
  <2>4. ASSUME NEW c \in Confirms, AddCredential(c) PROVE Kept(devices')
    <3>1. PICK p \in Pairings : picked[c] = p
      BY <2>4 DEF AddCredential, Step, PairingInOnePlace, CredTypeOK
    <3>2. PICK d \in Devices : dev[p] = d
      BY CredAssumption DEF CredTypeOK, Named, Calls
    <3>3. Confirmed(p, d)'
      <4>1. c \in Calls \cup {Loader}
        BY DEF Calls
      <4>2. stage'[c] = "changed" /\ picked' = picked /\ dev' = dev
        BY <2>4, <4>1, StepOne DEF AddCredential, pairVars
      <4> QED
        BY <3>1, <3>2, <4>2 DEF Confirmed
    <3>4. SetDevice(d, p) /\ p \in Creds
      BY <2>4, <3>1, <3>2 DEF AddCredential, Creds
    <3> QED
      BY <2>1, <3>3, <3>4
  <2>5. ASSUME NEW v \in Revokes, RevokeCredential(v) PROVE Kept(devices')
    <3>1. dev[v] \in Devices
      BY CredAssumption DEF CredTypeOK, Named, Calls
    <3> QED
      BY <1>0, <2>1, <2>5, <3>1 DEF RevokeCredential
  <2>6. \/ UNCHANGED devices \/ devices' = NoDevices \/ (file \in Maps /\ devices' = file)
        \/ \E r \in Registers : RegisterDevice(r)
        \/ \E c \in Confirms : AddCredential(c)
        \/ \E v \in Revokes : RevokeCredential(v)
    BY DEF CredNext, Change, Load, LoadFails, StartPairing, Expire, List, Consume, Refuse,
           Save, Copy, Truncate, Write, SaveFails, Crash, credVars
  <2> QED
    BY <2>2, <2>3, <2>4, <2>5, <2>6
<1>3. file' \in Maps => Kept(file')
  <2>1. UNCHANGED file \/ file' \notin Maps \/ \E j \in Savers : file' = snap[j]
    BY CredAssumption
       DEF CredNext, Change, Load, LoadFails, RegisterDevice, StartPairing, Expire, List,
           Consume, Refuse, AddCredential, RevokeCredential, Save, Copy, Truncate, Write,
           SaveFails, Crash, credVars, diskVars
  <2> QED
    BY <1>1, <2>1
<1>4. \A j \in Savers : Kept(snap'[j])
  <2>1. ASSUME NEW j \in Savers, NEW map \in {devices, NoDevices},
               snap' = [snap EXCEPT ![j] = map]
        PROVE  \A q \in Savers : Kept(snap'[q])
    <3>1. \A q \in Savers : snap'[q] = IF q = j THEN map ELSE snap[q]
      BY <2>1 DEF CredTypeOK
    <3> QED
      BY <1>1, <2>1, <3>1
  <2>2. \/ UNCHANGED snap
        \/ snap' = [j \in Savers |-> NoDevices]
        \/ \E j \in Savers, map \in {devices, NoDevices} : snap' = [snap EXCEPT ![j] = map]
    BY DEF CredNext, Change, Load, LoadFails, RegisterDevice, StartPairing, Expire, List,
           Consume, Refuse, AddCredential, RevokeCredential, Save, Copy, Truncate, Write,
           SaveFails, Crash, credVars
  <2> QED
    BY <1>1, <2>1, <2>2
<1> QED
  BY <1>2, <1>3, <1>4 DEF OnlyConfirmedAdmitted, CopiesConfirmed, HoldsConfirmed

-----------------------------------------------------------------------------
LEMMA NextCredInv == ASSUME CredInv, [CredNext]_credVars PROVE CredInv'
BY NextCredTypeOK, NextCallsNeedServer, NextCopyIsCurrent, NextPairing, NextConfirmed
   DEF CredInv

\* CredInv holds in every reachable state, through crashes and restarts.
THEOREM CredInvariant == CredSpec => []CredInv
<1>1. CredInit => CredInv
  BY InitCredInv
<1>2. CredInv /\ [CredNext]_credVars => CredInv'
  BY NextCredInv
<1> QED
  BY <1>1, <1>2, PTL DEF CredSpec

\* When nobody is changing credentials, the file holds what memory holds unless
\* the latest save was disturbed (auth.go, save).
THEOREM SavedWhenUndisturbed == CredSpec => []SavedUnlessSuspect
<1>1. CredInv => SavedUnlessSuspect
  BY DEF CredInv, CopyIsCurrent, SavedUnlessSuspect, Up, Quiet, Saving
<1> QED
  BY <1>1, CredInvariant, PTL

\* A pairing code is exchanged for a token at most once (auth.go, Consume).
THEOREM CodeOnce == CredSpec => []CodeUsedOnce
<1>1. CredInv => CodeUsedOnce
  BY DEF CredInv
<1> QED
  BY <1>1, CredInvariant, PTL

\* A pairing that nobody has confirmed gives no access, even after a crash.
THEOREM ConfirmedOnly == CredSpec => []OnlyConfirmedAdmitted
<1>1. CredInv => OnlyConfirmedAdmitted
  BY DEF CredInv
<1> QED
  BY <1>1, CredInvariant, PTL
=============================================================================
