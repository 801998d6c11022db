----------------------------- MODULE Credentials -----------------------------
(***************************************************************************)
(* The device credentials: the map in memory, the file it is persisted to, *)
(* the pairing codes that lead to a credential, and the HTTP calls that    *)
(* change them, with crashes and restarts of the server.                   *)
(*                                                                         *)
(* Every call is used once.  A credential is named by the call that drew   *)
(* its random token (a registration or a started pairing), or by an        *)
(* element of Old if the file held it from the start.  A call that changes *)
(* the map then saves it: it copies the map under s.mu, and writes the     *)
(* copy to the file (os.WriteFile: truncate, then write) without a lock.   *)
(*                                                                         *)
(* A crash ends the process, not the machine: what was written stays.      *)
(***************************************************************************)
EXTENDS RpcKey

CONSTANTS
    Registers,  \* calls of POST /devices/register without pairing
    Pairings,   \* calls of POST /devices/register with pairing
    Confirms,   \* calls of POST /devices/register/confirm
    Revokes,    \* calls of DELETE /devices/{device_id}
    Loader,     \* load(), before the server listens
    Old,        \* credentials the file may hold at first
    Codes,      \* pairing codes
    NoCred,     \* no entry
    Blank,      \* the file is empty: truncated, not yet written
    Garbled,    \* the file is not JSON
    DiskFails   \* the file system may refuse to open or to write the file

Savers == Registers \cup Confirms \cup Revokes \cup {Loader}
Calls == Registers \cup Pairings \cup Confirms \cup Revokes
Named == Calls \ Confirms
Creds == Registers \cup Pairings \cup Old
Maps == [Devices -> Creds \cup {NoCred}]

ASSUME CredAssumption ==
    /\ NoCred \notin Creds
    /\ {Blank, Garbled} \cap Maps = {}
    /\ Loader \notin Calls
    /\ DiskFails \in BOOLEAN
    /\ Registers \cap (Pairings \cup Confirms \cup Revokes) = {}
    /\ Pairings \cap (Confirms \cup Revokes) = {}
    /\ Confirms \cap Revokes = {}
    /\ Old \cap Pairings = {}

VARIABLES
    dev,        \* call -> the device it names; a confirm names a code instead
    devices,    \* s.devices: device -> credential or NoCred
    file,       \* contents of the file
    migrate,    \* the file is in the old format or holds plain tokens
    store,      \* p.store: code -> pairing or NoCred
    expired,    \* codes whose entry is past its time
    picked,     \* confirm -> the pairing it consumed, or NoCred
    stage,      \* call -> "idle" | "consumed" | "changed" | "opening" |
                \*         "writing" | "ok" | "error" | "killed"
    snap,       \* saver -> its copy of the map, while it has one
    suspect     \* history: the last save overlapped another, failed, or was
                \* cut by a crash

pairVars == <<store, expired, picked>>
diskVars == <<file, migrate>>
credVars == <<dev, devices, diskVars, pairVars, stage, snap, suspect>>

NoDevices == [d \in Devices |-> NoCred]

CredInit ==
    /\ dev \in [Named -> Devices]
    /\ devices = NoDevices
    /\ file \in [Devices -> Old \cup {NoCred}]
    /\ migrate \in BOOLEAN
    /\ store = [code \in Codes |-> NoCred]
    /\ expired = {}
    /\ picked = [c \in Confirms |-> NoCred]
    /\ stage = [j \in Calls \cup {Loader} |-> "idle"]
    /\ snap = [j \in Savers |-> NoDevices]
    /\ suspect = FALSE

Up == stage[Loader] = "ok"

Step(j, from, to) ==
    /\ stage[j] = from
    /\ stage' = [stage EXCEPT ![j] = to]

\* The map changes under s.mu.
SetDevice(d, cred) == devices' = [devices EXCEPT ![d] = cred]

-----------------------------------------------------------------------------
\* Starting the server: load().  A missing file counts as one without devices.
\* A file to migrate is saved before the server listens.  A file that cannot be
\* read or parsed is reported, and the server starts without any device.
Load ==
    /\ file \in Maps
    /\ Step(Loader, "idle", IF migrate THEN "changed" ELSE "ok")
    /\ devices' = file
    /\ suspect' = FALSE
    /\ UNCHANGED <<dev, diskVars, pairVars, snap>>

LoadFails ==
    /\ file \notin Maps \/ DiskFails
    /\ Step(Loader, "idle", "ok")
    /\ suspect' = TRUE
    /\ UNCHANGED <<dev, devices, diskVars, pairVars, snap>>

\* RegisterDevice: a fresh token for the device.
RegisterDevice(r) ==
    /\ Up
    /\ Step(r, "idle", "changed")
    /\ SetDevice(dev[r], r)
    /\ UNCHANGED <<dev, diskVars, pairVars, snap, suspect>>

\* Mutant: the credential is stored when the pairing starts.
StartPairingStored(p) ==
    /\ Up
    /\ Step(p, "idle", "ok")
    /\ \E code \in Codes :
          /\ store' = [store EXCEPT ![code] = p]
          /\ expired' = expired \ {code}
    /\ SetDevice(dev[p], p)
    /\ UNCHANGED <<dev, diskVars, picked, snap, suspect>>

\* StartPairing and Add: a code, drawn at random, replaces whatever it led to.
StartPairing(p) ==
    /\ Up
    /\ Step(p, "idle", "ok")
    /\ \E code \in Codes :
          /\ store' = [store EXCEPT ![code] = p]
          /\ expired' = expired \ {code}
    /\ UNCHANGED <<dev, devices, diskVars, picked, snap, suspect>>

\* Time passes.
Expire(code) ==
    /\ store[code] # NoCred
    /\ code \notin expired
    /\ expired' = expired \cup {code}
    /\ UNCHANGED <<dev, devices, diskVars, store, picked, stage, snap, suspect>>

\* GET /pairings/pending drops the expired entries.
List ==
    /\ Up
    /\ store' = [code \in Codes |-> IF code \in expired THEN NoCred ELSE store[code]]
    /\ expired' = {}
    /\ UNCHANGED <<dev, devices, diskVars, picked, stage, snap, suspect>>

\* Mutant: the code can be used again.
ConsumeKeeping(c, code) ==
    /\ Up
    /\ store[code] # NoCred
    /\ code \notin expired
    /\ Step(c, "idle", "consumed")
    /\ picked' = [picked EXCEPT ![c] = store[code]]
    /\ UNCHANGED <<dev, devices, diskVars, store, expired, snap, suspect>>

\* Consume, for a code that is there and in time.
Consume(c, code) ==
    /\ Up
    /\ store[code] # NoCred
    /\ code \notin expired
    /\ Step(c, "idle", "consumed")
    /\ picked' = [picked EXCEPT ![c] = store[code]]
    /\ store' = [store EXCEPT ![code] = NoCred]
    /\ UNCHANGED <<dev, devices, diskVars, expired, snap, suspect>>

\* Consume, for a code that is not: an expired entry goes.
Refuse(c, code) ==
    /\ Up
    /\ store[code] = NoCred \/ code \in expired
    /\ Step(c, "idle", "error")
    /\ store' = [store EXCEPT ![code] = NoCred]
    /\ expired' = expired \ {code}
    /\ UNCHANGED <<dev, devices, diskVars, picked, snap, suspect>>

\* AddCredential, once it has hashed the token.
AddCredential(c) ==
    /\ Step(c, "consumed", "changed")
    /\ SetDevice(dev[picked[c]], picked[c])
    /\ UNCHANGED <<dev, diskVars, pairVars, snap, suspect>>

\* credentialStore.RevokeDevice.
RevokeCredential(v) ==
    /\ Up
    /\ Step(v, "idle", "changed")
    /\ SetDevice(dev[v], NoCred)
    /\ UNCHANGED <<dev, diskVars, pairVars, snap, suspect>>

-----------------------------------------------------------------------------
\* save().

Saving(j) == stage[j] \in {"opening", "writing"}

\* Mutant: the copy is what the file held.
CopyFile(j) ==
    /\ Step(j, "changed", "opening")
    /\ snap' = [snap EXCEPT ![j] = IF file \in Maps THEN file ELSE NoDevices]
    /\ suspect' = (\E q \in Savers \ {j} : Saving(q))
    /\ UNCHANGED <<dev, devices, diskVars, pairVars>>

\* The copy under s.mu.
Copy(j) ==
    /\ Step(j, "changed", "opening")
    /\ snap' = [snap EXCEPT ![j] = devices]
    /\ suspect' = (\E q \in Savers \ {j} : Saving(q))
    /\ UNCHANGED <<dev, devices, diskVars, pairVars>>

\* os.WriteFile opens the file with O_TRUNC.
Truncate(j) ==
    /\ Step(j, "opening", "writing")
    /\ file' = Blank
    /\ migrate' = FALSE
    /\ UNCHANGED <<dev, devices, pairVars, snap, suspect>>

\* The write starts at offset 0.  If another saver has written since this one
\* truncated the file, a longer rest of that text may stay behind.
Write(j) ==
    /\ Step(j, "writing", "ok")
    /\ snap' = [snap EXCEPT ![j] = NoDevices]
    /\ \/ file' = snap[j]
       \/ /\ file \notin {Blank, snap[j]}
          /\ file' = Garbled
    /\ UNCHANGED <<dev, devices, migrate, pairVars, suspect>>

\* MkdirAll, the open or the write fails.  A confirm answers with an error,
\* everybody else goes on as if nothing had happened.
SaveFails(j) ==
    /\ DiskFails
    /\ \/ /\ stage[j] = "opening"
          /\ UNCHANGED file
       \/ /\ stage[j] = "writing"
          /\ file' \in {file, Garbled}
    /\ stage' = [stage EXCEPT ![j] = IF j \in Confirms THEN "error" ELSE "ok"]
    /\ snap' = [snap EXCEPT ![j] = NoDevices]
    /\ suspect' = TRUE
    /\ UNCHANGED <<dev, devices, migrate, pairVars>>

Save(j) == Copy(j) \/ Truncate(j) \/ Write(j) \/ SaveFails(j)

\* The process dies; the calls under way die with it, the codes are lost.
Crash ==
    /\ stage[Loader] # "idle"
    /\ stage' = [j \in Calls \cup {Loader} |->
                   IF j = Loader THEN "idle"
                   ELSE IF stage[j] \in {"idle", "ok", "error"} THEN stage[j]
                   ELSE "killed"]
    /\ devices' = NoDevices
    /\ store' = [code \in Codes |-> NoCred]
    /\ expired' = {}
    /\ snap' = [j \in Savers |-> NoDevices]
    /\ UNCHANGED <<dev, diskVars, picked, suspect>>

-----------------------------------------------------------------------------
Change ==
    \/ \E r \in Registers : RegisterDevice(r)
    \/ \E p \in Pairings : StartPairing(p)
    \/ \E code \in Codes : Expire(code)
    \/ List
    \/ \E c \in Confirms, code \in Codes : Consume(c, code) \/ Refuse(c, code)
    \/ \E c \in Confirms : AddCredential(c)

CredNext ==
    \/ Load
    \/ LoadFails
    \/ Change
    \/ \E v \in Revokes : RevokeCredential(v)
    \/ \E j \in Savers : Save(j)
    \/ Crash

CredSpec == CredInit /\ [][CredNext]_credVars

-----------------------------------------------------------------------------
CredTypeOK ==
    /\ dev \in [Named -> Devices]
    /\ devices \in Maps
    /\ file \in Maps \cup {Blank, Garbled}
    /\ migrate \in BOOLEAN
    /\ store \in [Codes -> Pairings \cup {NoCred}]
    /\ expired \subseteq Codes
    /\ picked \in [Confirms -> Pairings \cup {NoCred}]
    /\ stage \in [Calls \cup {Loader} ->
                    {"idle", "consumed", "changed", "opening", "writing",
                     "ok", "error", "killed"}]
    /\ snap \in [Savers -> Maps]
    /\ suspect \in BOOLEAN

Quiet == \A j \in Savers : stage[j] \notin {"changed", "opening", "writing"}

\* When no call is under way, the file holds exactly what memory holds, unless
\* the latest save overlapped another one, failed, or was cut by a crash.
\* Changes of the map may race with a save as they like; and one later save
\* that is left alone repairs whatever went wrong before (auth.go, save and
\* its callers).
SavedUnlessSuspect == Up /\ Quiet /\ ~suspect => file = devices

\* What it rests on: a save that is not suspect is alone with the file, and
\* unless somebody has changed the map since, who will save in turn, its copy
\* is the map.
CopyIsCurrent ==
    stage[Loader] # "idle" /\ ~suspect =>
        /\ \A i, j \in Savers : Saving(i) /\ Saving(j) => i = j
        /\ \A j \in Savers : stage[j] = "writing" => file = Blank
        /\ \/ \E j \in Savers : stage[j] = "changed"
           \/ \E j \in Savers : Saving(j) /\ snap[j] = devices
           \/ (\A j \in Savers : ~Saving(j)) /\ file = devices

\* No call is under way before the server listens.
CallsNeedServer ==
    /\ stage[Loader] = "idle" => devices = NoDevices
    /\ ~Up => \A j \in Calls :
                 stage[j] \notin {"consumed", "changed", "opening", "writing"}

\* No two confirms end up with the same pairing, so a token is given away once
\* (auth.go, Consume under p.mu, and the "shown only once" of tokens).
CodeUsedOnce ==
    \A c, e \in Confirms : picked[c] # NoCred /\ picked[c] = picked[e] => c = e

\* What it rests on: a pairing is in one place at a time.
PairingInOnePlace ==
    /\ \A p \in Pairings : stage[p] = "idle" =>
          /\ \A code \in Codes : store[code] # p
          /\ \A c \in Confirms : picked[c] # p
    /\ \A x, y \in Codes : store[x] # NoCred /\ store[x] = store[y] => x = y
    /\ \A c \in Confirms, x \in Codes : picked[c] # NoCred => store[x] # picked[c]
    /\ \A c \in Confirms :
          /\ stage[c] = "idle" => picked[c] = NoCred
          /\ stage[c] = "consumed" => picked[c] # NoCred

\* A token from a pairing is accepted, now or after any restart, only for the
\* device that the pairing was started for, and only if a confirm has consumed
\* its code and got as far as storing it; if that confirm then failed to write
\* the file or was killed, nobody may know the token (http.go,
\* HandleConfirmPairing: Consume, AddCredential; auth.go, load).
Confirmed(p, d) ==
    /\ dev[p] = d
    /\ \E c \in Confirms : picked[c] = p /\ stage[c] \notin {"idle", "consumed"}

HoldsConfirmed(map) ==
    \A d \in Devices : map[d] \in Pairings => Confirmed(map[d], d)

OnlyConfirmedAdmitted ==
    /\ HoldsConfirmed(devices)
    /\ file \in Maps => HoldsConfirmed(file)

\* What it rests on: copies hold no others either.
CopiesConfirmed == \A j \in Savers : HoldsConfirmed(snap[j])

\* The inductive invariant of the credentials.
CredInv ==
    /\ CredTypeOK
    /\ CallsNeedServer
    /\ CopyIsCurrent
    /\ PairingInOnePlace
    /\ CodeUsedOnce
    /\ OnlyConfirmedAdmitted
    /\ CopiesConfirmed
=============================================================================
