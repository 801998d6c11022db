-------------------------------- MODULE Access --------------------------------
(***************************************************************************)
(* Who may be connected: HandleWS validates a token against the            *)
(* credentials and registers the connection later, and RevokeDevice        *)
(* disconnects the device first and removes its credential later.  The     *)
(* connection table and the credentials have a lock each; no lock spans    *)
(* the two.  One run of the server: a crash ends every socket.             *)
(***************************************************************************)
EXTENDS ConnTable, Credentials

VARIABLES
    shown,      \* connection -> the credential it was validated with, or NoCred
    cut,        \* revocation -> "none" | "cutting" | "cut": its Unregister
    late        \* history: connections registered when the credential was gone or
                \* about to go

accessVars == <<shown, cut, late>>
vars == <<connVars, credVars, accessVars>>

Init ==
    /\ ConnInit
    /\ CredInit
    /\ shown = [c \in Conns |-> NoCred]
    /\ cut = [v \in Revokes |-> "none"]
    /\ late = {}

ConnStep(A) == A /\ UNCHANGED <<credVars, accessVars>>
CredStep(A) == A /\ UNCHANGED <<connVars, accessVars>>

-----------------------------------------------------------------------------
\* HandleWS, ValidateToken: the device shows the token of the credential it is
\* registered with.  With any other token the call ends here.
Validate(c) ==
    /\ Up
    /\ handler[c] = "new"
    /\ shown[c] = NoCred
    /\ devices[cdev[c]] # NoCred
    /\ shown' = [shown EXCEPT ![c] = devices[cdev[c]]]
    /\ UNCHANGED <<connVars, credVars, cut, late>>

\* A revocation of device d has disconnected it and not removed its credential.
Between(d) ==
    \E v \in Revokes : dev[v] = d /\ cut[v] = "cut" /\ stage[v] = "idle"

\* The credential of device d is gone, or is about to go.
Uncovered(d) == devices[d] = NoCred \/ Between(d)

\* HandleWS, Register: after the upgrade of a connection that was validated.
RegisterSocket(c) ==
    /\ shown[c] # NoCred
    /\ Register(c)
    /\ late' = IF Uncovered(cdev[c]) THEN late \cup {c} ELSE late
    /\ UNCHANGED <<credVars, shown, cut>>

-----------------------------------------------------------------------------
\* Hub.RevokeDevice: Unregister, in two steps ...
Cut(v) ==
    /\ Up
    /\ stage[v] = "idle"
    /\ cut[v] = "none"
    /\ RevokeBegin(dev[v])
    /\ cut' = [cut EXCEPT ![v] = "cutting"]
    /\ UNCHANGED <<credVars, shown, late>>

CutEnds(v) ==
    /\ cut[v] = "cutting"
    /\ RevokeEnd(dev[v])
    /\ cut' = [cut EXCEPT ![v] = "cut"]
    /\ UNCHANGED <<credVars, shown, late>>

\* Mutant: the device is not disconnected.
RemoveUncut(v) == CredStep(RevokeCredential(v))

\* ... then the credential.
Remove(v) ==
    /\ cut[v] = "cut"
    /\ CredStep(RevokeCredential(v))

-----------------------------------------------------------------------------
Next ==
    \/ \E c \in Conns :
          \/ Validate(c)
          \/ RegisterSocket(c)
          \/ ConnStep(LeaveBegin(c))
          \/ ConnStep(LeaveEnd(c))
          \/ ConnStep(WriterEnds(c))
          \/ ConnStep(WriterFails(c))
          \/ ConnStep(ReadFails(c))
    \/ \E v \in Revokes : Cut(v) \/ CutEnds(v) \/ Remove(v)
    \/ CredStep(Load)
    \/ CredStep(LoadFails)
    \/ CredStep(Change)
    \/ \E j \in Savers : CredStep(Save(j))

Spec == Init /\ [][Next]_vars

-----------------------------------------------------------------------------
\* A device without a credential is connected only by a socket that slipped
\* past its revocation: it was validated while the credential was there, and
\* registered after RevokeDevice had disconnected the device.  There is no other
\* way, whatever else replaces, fails, pairs or registers again meanwhile
\* (hub.go, RevokeDevice; ws.go, ValidateToken and Register).
OnlyLateSocketsStay ==
    \A d \in Devices :
        conns[d] # NoConn /\ devices[d] = NoCred => conns[d] \in late

\* The inductive form: it holds from the moment the revocation has disconnected
\* the device.
OnlyLateWhileUncovered ==
    \A d \in Devices :
        conns[d] # NoConn /\ Uncovered(d) => conns[d] \in late

AccessTypeOK ==
    /\ shown \in [Conns -> Creds \cup {NoCred}]
    /\ cut \in [Revokes -> {"none", "cutting", "cut"}]
    /\ late \subseteq Conns

AccessInv ==
    /\ ConnInv
    /\ CredInv
    /\ AccessTypeOK
    /\ OnlyLateWhileUncovered
=============================================================================
