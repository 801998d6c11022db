---------------------------- MODULE ForwardSpec -----------------------------
(***************************************************************************)
(* What the hub promises to the callers of ForwardRequestWithOpts, without *)
(* connections, timers, locks or tables.                                   *)
(*                                                                         *)
(* A call occupies its name (device and rpc id) from the moment it opens   *)
(* until it is closed; a name is occupied by one call at a time.  A call   *)
(* ends with an answer to a request of its own name, and no answer goes to *)
(* two calls; or it ends without one, because nobody answered in time or   *)
(* the device went away.                                                   *)
(***************************************************************************)
CONSTANTS Reqs, NoReq

VARIABLES
    name,       \* call -> the name it occupies
    status,     \* call -> "none" | "open" | "closed"
    answer,     \* call -> the call whose request was answered, or NoReq
    result      \* call -> "none" | "answered" | "failed"

vars == <<name, status, answer, result>>

Init ==
    /\ status = [r \in Reqs |-> "none"]
    /\ answer = [r \in Reqs |-> NoReq]
    /\ result = [r \in Reqs |-> "none"]

\* A call takes its name, if nobody occupies it.
Open(r) ==
    /\ status[r] = "none"
    /\ result[r] = "none"
    /\ \A q \in Reqs : status[q] = "open" => name[q] # name[r]
    /\ status' = [status EXCEPT ![r] = "open"]
    /\ UNCHANGED <<name, answer, result>>

\* An answer to the request of call a ends the call r that occupies its name.
Answer(r, a) ==
    /\ status[r] = "open"
    /\ status[a] # "none"
    /\ name[a] = name[r]
    /\ \A q \in Reqs : answer[q] # a
    /\ answer' = [answer EXCEPT ![r] = a]
    /\ status' = [status EXCEPT ![r] = "closed"]
    /\ UNCHANGED <<name, result>>

\* Open calls are closed without an answer.
Close(R) ==
    /\ R # {}
    /\ \A r \in R : status[r] = "open"
    /\ status' = [r \in Reqs |-> IF r \in R THEN "closed" ELSE status[r]]
    /\ UNCHANGED <<name, answer, result>>

\* A closed call returns what it got.
Return(r) ==
    /\ result[r] = "none"
    /\ status[r] = "closed"
    /\ result' = [result EXCEPT ![r] =
                    IF answer[r] = NoReq THEN "failed" ELSE "answered"]
    /\ UNCHANGED <<name, status, answer>>

\* A call gives up, and may leave its name or that of a call like it.
Fail(r) ==
    /\ result[r] = "none"
    /\ result' = [result EXCEPT ![r] = "failed"]
    /\ \/ UNCHANGED status
       \/ \E q \in Reqs :
             /\ status[q] = "open"
             /\ name[q] = name[r]
             /\ status[r] # "none"
             /\ status' = [status EXCEPT ![q] = "closed"]
    /\ UNCHANGED <<name, answer>>

Next ==
    \/ \E r \in Reqs : Open(r) \/ Return(r) \/ Fail(r)
    \/ \E r, a \in Reqs : Answer(r, a)
    \/ \E R \in SUBSET Reqs : Close(R)

Spec == Init /\ [][Next]_vars
=============================================================================
