------------------------------ MODULE Endpoint -------------------------------
(***************************************************************************)
(* The HTTP side of the hub: POST /mcp with its sessions, and POST         *)
(* /api/v1/devices/{device_id}/mcp, which has none; what their callers are *)
(* told, in time; and the server that starts, shuts down and dies.         *)
(*                                                                         *)
(* A post that forwards to a device makes one call of                      *)
(* ForwardRequestWithOpts, of which only ForwardSpec is known here (Hub    *)
(* implements it), and that its timer fires after RequestTimeout.  Posts   *)
(* are used once and numbered as they arrive; a session is named by the    *)
(* post that created it.                                                   *)
(*                                                                         *)
(* Time is how long ago: ages that Tick increments.  What the handlers do  *)
(* without waiting takes no time.                                          *)
(***************************************************************************)
EXTENDS Naturals

CONSTANTS
    Posts,
    Names,              \* what calls are filed under: device and rpc id
    None,               \* no session, no answer
    SessionTTL,         \* 30 min
    RequestTimeout,     \* 5 min
    WriteTimeout,       \* 120 s
    ShutdownTimeout     \* 15 s

ASSUME EndpointAssumption ==
    /\ Posts \subseteq Nat
    /\ None \notin Nat
    /\ {SessionTTL, RequestTimeout, WriteTimeout, ShutdownTimeout} \subseteq Nat \ {0}
    /\ RequestTimeout <= SessionTTL

VARIABLES
    name, status, answer, result,   \* the calls, as ForwardSpec has them
    outcome,    \* post -> "new" | "calling", or how it ended: "replied" |
                \*   "noSession" (a reply too) | "lost" | "dropped" | "killed"
    sess,       \* post -> the session id it carries, or None
    store,      \* mcpSessionStore.m: session -> time since its last use, or None
    age,        \* post -> time since it arrived, while its call is not over
    server,     \* "up" | "draining" | "down"
    drain,      \* how long Shutdown has waited
    unused      \* history: session -> time since a post was accepted with it in
                \* this run of the server, or Long

callVars == <<name, status, answer, result>>
vars == <<callVars, outcome, sess, store, age, server, drain, unused>>

Fwd == INSTANCE ForwardSpec WITH Reqs <- Posts, NoReq <- None

Long == SessionTTL + 1

Init ==
    /\ Fwd!Init
    /\ name \in [Posts -> Names]
    /\ outcome = [p \in Posts |-> "new"]
    /\ sess = [p \in Posts |-> None]
    /\ store = [s \in Posts |-> None]
    /\ age = [p \in Posts |-> 0]
    /\ server = "up"
    /\ drain = 0
    /\ unused = [s \in Posts |-> Long]

-----------------------------------------------------------------------------
\* mcpSessionStore.

Stale(s) == store[s] # None /\ store[s] > SessionTTL

\* pruneLocked.
Pruned == [s \in Posts |-> IF Stale(s) THEN None ELSE store[s]]

\* Mutant: the time is not tested.
ValidUnchecked(s) == s # None /\ store[s] # None

Valid(s) == s # None /\ Pruned[s] # None

\* Mutant: the expiry does not slide.
UsedUnslid(s) == IF Pruned[s] = None THEN [Pruned EXCEPT ![s] = 0] ELSE Pruned

\* What Create and a successful Valid leave behind.
Used(s) == [Pruned EXCEPT ![s] = 0]

Accept(s) ==
    /\ store' = Used(s)
    /\ unused' = [unused EXCEPT ![s] = 0]

-----------------------------------------------------------------------------
\* Handlers.

\* A post arrives with session id s, and ends or goes on as o says.
Arrive(p, s, o) ==
    /\ server = "up"
    /\ outcome[p] = "new"
    /\ \A q \in Posts : q < p => outcome[q] # "new"
    /\ outcome' = [outcome EXCEPT ![p] = o]
    /\ sess' = [sess EXCEPT ![p] = s]
    /\ UNCHANGED <<callVars, age, server, drain>>

\* initialize.
Initialize(p) ==
    /\ Arrive(p, None, "replied")
    /\ Accept(p)

\* notifications/initialized; a body that is too large, not JSON-RPC, or of
\* another method; a REST call without body.  No session is asked for.
Plain(p) ==
    /\ Arrive(p, None, "replied")
    /\ UNCHANGED <<store, unused>>

\* tools/list, and tools/call that stays in the hub: hub_info, an unknown tool,
\* arguments that do not fit.
Local(p, s) ==
    /\ Valid(s)
    /\ Arrive(p, s, "replied")
    /\ Accept(s)

\* tools/call of forward_jsonrpc_to_device or of an edge tool.
CallTool(p, s) ==
    /\ Valid(s)
    /\ Arrive(p, s, "calling")
    /\ Accept(s)

\* tools/list or tools/call without a valid session.
Reject(p, s) ==
    /\ ~Valid(s)
    /\ Arrive(p, s, "noSession")
    /\ store' = IF s = None THEN store ELSE Pruned
    /\ UNCHANGED unused

\* POST /api/v1/devices/{device_id}/mcp.
DevicePost(p) ==
    /\ Arrive(p, None, "calling")
    /\ UNCHANGED <<store, unused>>

Here(p) == outcome[p] = "calling"

\* The call returned.  Once WriteTimeout has passed since the post's header was
\* read, nothing can be written to its connection any more.  Or the call
\* panicked, and net/http drops the connection.
Reply(p) ==
    /\ Here(p)
    /\ result[p] # "none"
    /\ \/ result[p] = "failed" /\ outcome' = [outcome EXCEPT ![p] = "dropped"]
       \/ age[p] <= WriteTimeout /\ outcome' = [outcome EXCEPT ![p] = "replied"]
       \/ age[p] >= WriteTimeout /\ outcome' = [outcome EXCEPT ![p] = "lost"]
    /\ sess' = [sess EXCEPT ![p] = None]
    /\ age' = [age EXCEPT ![p] = IF status[p] = "open" THEN @ ELSE 0]
    /\ UNCHANGED <<callVars, store, server, drain, unused>>

-----------------------------------------------------------------------------
\* The calls.
CallStep(A) == A /\ UNCHANGED <<outcome, sess, store, age, server, drain, unused>>

Open(p) == Here(p) /\ CallStep(Fwd!Open(p))

Fail(p) == Here(p) /\ CallStep(Fwd!Fail(p))

Answer(p, q) == CallStep(Fwd!Answer(p, q))

\* The device went away, or a late timer of the same name fired.
Close(P) == CallStep(Fwd!Close(P))

\* Mutant: the timer does nothing.
TimeOutIdle(p) ==
    /\ age[p] = RequestTimeout
    /\ UNCHANGED vars

TimeOut(p) ==
    /\ age[p] = RequestTimeout
    /\ CallStep(Fwd!Close({p}))

Return(p) == Here(p) /\ CallStep(Fwd!Return(p))

-----------------------------------------------------------------------------
\* The server process.

\* A signal: no more posts, and those that are here may finish.
Quit ==
    /\ server = "up"
    /\ server' = "draining"
    /\ UNCHANGED <<callVars, outcome, sess, store, age, drain, unused>>

\* Shutdown returns and main ends, or the process crashes: posts, calls and
\* sessions are gone.
Die ==
    /\ server # "down"
    /\ server' = "down"
    /\ outcome' = [p \in Posts |-> IF Here(p) THEN "killed" ELSE outcome[p]]
    /\ status' = [p \in Posts |-> IF status[p] = "open" THEN "closed" ELSE status[p]]
    /\ store' = [s \in Posts |-> None]
    /\ unused' = [s \in Posts |-> Long]
    /\ sess' = [p \in Posts |-> None]
    /\ age' = [p \in Posts |-> 0]
    /\ drain' = 0
    /\ UNCHANGED <<name, answer, result>>

Start ==
    /\ server = "down"
    /\ server' = "up"
    /\ UNCHANGED <<callVars, outcome, sess, store, age, drain, unused>>

\* Shutdown waits for the posts that are here, but not longer than its context.
Drained ==
    server = "draining" =>
        drain < ShutdownTimeout /\ \E p \in Posts : Here(p)

\* What the handlers of p can do without waiting has been done.
Settled(p) ==
    /\ Here(p) => status[p] = "open" /\ result[p] = "none"
    /\ status[p] = "open" => age[p] < RequestTimeout

Older(f) == [x \in Posts |-> IF f[x] # None /\ f[x] < Long THEN f[x] + 1 ELSE f[x]]

Tick ==
    /\ Drained
    /\ \A p \in Posts : Settled(p)
    /\ age' = [p \in Posts |-> IF status[p] = "open" THEN age[p] + 1 ELSE age[p]]
    /\ store' = Older(store)
    /\ unused' = Older(unused)
    /\ drain' = IF server = "draining" THEN drain + 1 ELSE drain
    /\ UNCHANGED <<callVars, outcome, sess, server>>

Next ==
    \/ \E p \in Posts :
          \/ Initialize(p)
          \/ Plain(p)
          \/ \E s \in Posts \cup {None} :
                Local(p, s) \/ CallTool(p, s) \/ Reject(p, s)
          \/ DevicePost(p)
          \/ Reply(p)
          \/ Open(p)
          \/ Fail(p)
          \/ TimeOut(p)
          \/ Return(p)
          \/ \E q \in Posts : Answer(p, q)
    \/ \E P \in SUBSET Posts : Close(P)
    \/ Quit
    \/ Die
    \/ Start
    \/ Tick

Spec == Init /\ [][Next]_vars

\* Fairness.  Time passes; handlers, calls and timers that can run do; a server
\* that is draining dies when Shutdown returns.  Devices need not answer.
Fairness ==
    /\ WF_vars(Tick)
    /\ \A p \in Posts :
          /\ WF_vars(Open(p) \/ Fail(p))
          /\ WF_vars(TimeOut(p))
          /\ WF_vars(Return(p))
          /\ WF_vars(Reply(p))
    /\ WF_vars(~Drained /\ Die)

FairSpec == Spec /\ Fairness

-----------------------------------------------------------------------------
EndpointTypeOK ==
    /\ name \in [Posts -> Names]
    /\ status \in [Posts -> {"none", "open", "closed"}]
    /\ answer \in [Posts -> Posts \cup {None}]
    /\ result \in [Posts -> {"none", "answered", "failed"}]
    /\ outcome \in [Posts -> {"new", "calling", "replied", "noSession", "lost",
                              "dropped", "killed"}]
    /\ sess \in [Posts -> Posts \cup {None}]
    /\ store \in [Posts -> (0..Long) \cup {None}]
    /\ age \in [Posts -> 0..RequestTimeout]
    /\ server \in {"up", "draining", "down"}
    /\ drain \in 0..ShutdownTimeout
    /\ unused \in [Posts -> 0..Long]

\* A session that this run of the server created, and that was used within
\* SessionTTL, is never refused (mcp_session.go, Valid slides the expiry).
ActiveIsServed ==
    [][\A p \in Posts :
          outcome[p] = "new" /\ outcome'[p] = "noSession" /\ sess'[p] # None =>
             unused[sess'[p]] > SessionTTL]_vars

\* A session that was not used for longer, that an earlier run of the server
\* created, or that nobody created, is never accepted (mcp_session.go).
StaleIsRefused ==
    [][\A p \in Posts :
          outcome[p] = "new" /\ outcome'[p] \notin {"new", "noSession"}
             /\ sess'[p] # None =>
             unused[sess'[p]] <= SessionTTL]_vars

\* A session cannot expire under a call that was made in it, however long the
\* device takes: when the call is over, the next one in the session is accepted
\* (mcp_session.go, mcpSessionTTL; http.go, requestTimeout).
SessionOutlivesCall ==
    \A p \in Posts : Here(p) /\ sess[p] # None => Valid(sess[p])

\* What it rests on: the store agrees with the history, and a session is not
\* older than the latest call in it.
StoreIsHistory ==
    \A s \in Posts :
        IF store[s] = None THEN unused[s] > SessionTTL ELSE unused[s] = store[s]

CallHoldsSession ==
    \A p \in Posts :
        Here(p) /\ sess[p] # None => unused[sess[p]] <= age[p]

EndpointInv ==
    /\ EndpointTypeOK
    /\ StoreIsHistory
    /\ CallHoldsSession

\* Whoever makes a call is told how it ended, unless it panicked or the server
\* died.
\* main.go: "WriteTimeout: 120 * time.Second, // long for proxied MCP requests".
\* The call may take RequestTimeout, which is longer.
CallersAreTold == \A p \in Posts : outcome[p] # "lost"

\* Every call of a post ends, and no name stays occupied: neither by devices
\* that never answer nor by a caller that has gone.
EveryPostEnds ==
    \A p \in Posts : Here(p) ~> ~Here(p) /\ status[p] # "open"
=============================================================================
