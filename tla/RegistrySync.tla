---------------------------- MODULE RegistrySync -----------------------------
(***************************************************************************)
(* The tool catalog of the binary, and the goroutine of main that posts it *)
(* to the tool registry, tool by tool, with retries.                       *)
(*                                                                         *)
(* A post that got no answer, or an error from somewhere on the way, may   *)
(* still be stored, at any later time, and more than once (posting is an   *)
(* upsert).  The process may die at any time and start again; what it has  *)
(* posted is not undone.                                                   *)
(***************************************************************************)
EXTENDS Naturals, Sequences

CONSTANTS
    Catalog,        \* the tools of the embedded manifest: [id, mcp]
    Blank,          \* an empty registryId or mcpToolName
    MaxAttempts     \* 5

ASSUME SyncAssumption ==
    /\ Catalog \in Seq([id : STRING, mcp : STRING])
    /\ MaxAttempts \in Nat \ {0}

\* The manifest in the binary has 46 tools, and the loop tries each 5 times.
ASSUME SizeAssumption == Len(Catalog) <= 46 /\ MaxAttempts <= 5

\* Tools are named by their positions.
Tools == DOMAIN Catalog

\* EdgeCatalogRegistryToolBodies, in catalog order.
Bodies == {i \in Tools : Catalog[i].id # Blank /\ Catalog[i].mcp # Blank}

\* relayNameSet: what tools/call forwards to a device.
IsEdgeRelayTool(name) == name # Blank /\ \E i \in Tools : Catalog[i].mcp = name

\* edgeRelayToolDescriptors: what tools/list offers.
Listed == {i \in Tools : Catalog[i].mcp # Blank}

VARIABLES
    pc,         \* "send" | "wait" | "backoff" | "synced" | "failed" | "down"
    done,       \* the tools synced counts
    attempt,    \* attempts made for the tool at hand that have failed
    posted,     \* tools that some post has carried, in this run or before
    stored      \* tools that the registry has stored

syncVars == <<pc, done, attempt, posted, stored>>

SyncInit ==
    /\ pc = "send"
    /\ done = {}
    /\ attempt = 0
    /\ posted = {}
    /\ stored = {}

-----------------------------------------------------------------------------
\* The tool at hand: the first that is not done.
Current(i) ==
    /\ i \in Bodies \ done
    /\ \A j \in Bodies \ done : i <= j

\* The body cannot be marshalled, or no request be made for the URL, which is the
\* same for all attempts: the function returns.
CannotPost(i) ==
    /\ pc = "send"
    /\ Current(i)
    /\ attempt = 0
    /\ pc' = "failed"
    /\ UNCHANGED <<done, attempt, posted, stored>>

\* The request of client.Do leaves.
Post(i) ==
    /\ pc = "send"
    /\ Current(i)
    /\ pc' = "wait"
    /\ posted' = posted \cup {i}
    /\ UNCHANGED <<done, attempt, stored>>

\* Mutant: whatever the status, the tool counts.
TrySucceedsAnyStatus(i) ==
    /\ pc = "wait"
    /\ Current(i)
    /\ stored' \in {stored, stored \cup {i}}
    /\ done' = done \cup {i}
    /\ attempt' = 0
    /\ pc' = "send"
    /\ UNCHANGED posted

\* The registry stores the tool and answers 200 or 201.
TrySucceeds(i) ==
    /\ pc = "wait"
    /\ Current(i)
    /\ stored' = stored \cup {i}
    /\ done' = done \cup {i}
    /\ attempt' = 0
    /\ pc' = "send"
    /\ UNCHANGED posted

\* Mutants: the loop goes on with the next tool; attempts are not counted.
TryFailsAndSkips(i) ==
    /\ pc = "wait"
    /\ Current(i)
    /\ IF attempt + 1 < MaxAttempts
       THEN pc' = "backoff" /\ attempt' = attempt + 1 /\ UNCHANGED done
       ELSE pc' = "send" /\ attempt' = 0 /\ done' = done \cup {i}
    /\ UNCHANGED <<posted, stored>>

TryFailsUncounted(i) ==
    /\ pc = "wait"
    /\ Current(i)
    /\ pc' = "backoff"
    /\ UNCHANGED <<done, attempt, posted, stored>>

\* No answer, or another status.  After the last attempt the function returns.
TryFails(i) ==
    /\ pc = "wait"
    /\ Current(i)
    /\ attempt' = attempt + 1
    /\ pc' = IF attempt + 1 < MaxAttempts THEN "backoff" ELSE "failed"
    /\ UNCHANGED <<done, posted, stored>>

\* The timer of the back-off fires; main's context is never cancelled.
BackoffEnds ==
    /\ pc = "backoff"
    /\ pc' = "send"
    /\ UNCHANGED <<done, attempt, posted, stored>>

\* Mutant: tools that are not posted are waited for.
FinishAllTools ==
    /\ pc = "send"
    /\ Tools \subseteq done
    /\ pc' = "synced"
    /\ UNCHANGED <<done, attempt, posted, stored>>

\* All bodies have been sent.
Finish ==
    /\ pc = "send"
    /\ Bodies \subseteq done
    /\ pc' = "synced"
    /\ UNCHANGED <<done, attempt, posted, stored>>

\* A post of any age arrives.
LateStore(i) ==
    /\ i \in posted
    /\ stored' = stored \cup {i}
    /\ UNCHANGED <<pc, done, attempt, posted>>

\* main returns, which does not wait for the goroutine, or the process dies.
Exit ==
    /\ pc # "down"
    /\ pc' = "down"
    /\ UNCHANGED <<done, attempt, posted, stored>>

Restart ==
    /\ pc = "down"
    /\ pc' = "send"
    /\ done' = {}
    /\ attempt' = 0
    /\ UNCHANGED <<posted, stored>>

SyncStep(i) == CannotPost(i) \/ Post(i) \/ TrySucceeds(i) \/ TryFails(i)

SyncNext ==
    \/ \E i \in Tools : SyncStep(i) \/ LateStore(i)
    \/ BackoffEnds
    \/ Finish
    \/ Exit
    \/ Restart

SyncSpec == SyncInit /\ [][SyncNext]_syncVars

\* Fairness.  client.Do returns, after its timeout if not before, and so do
\* timers.  The registry need not do anything, and nobody restarts the process.
Proceed == (\E i \in Tools : SyncStep(i)) \/ BackoffEnds \/ Finish

SyncFairSpec == SyncSpec /\ WF_syncVars(Proceed)

-----------------------------------------------------------------------------
SyncTypeOK ==
    /\ pc \in {"send", "wait", "backoff", "synced", "failed", "down"}
    /\ done \subseteq Bodies
    /\ attempt \in 0..MaxAttempts
    /\ posted \subseteq Tools
    /\ stored \subseteq Tools

\* What the synchronisation reports is true, however many posts were lost or
\* came late: the tools it counted are in the registry, and when it has
\* completed, so is every tool of tools/list that has a registry id
\* (registry_sync.go, synced; dtbclaw_catalog.go, edgeRelayToolDescriptors).
SyncedIsStored ==
    /\ done \subseteq stored
    /\ pc = "synced" => \A i \in Listed : Catalog[i].id # Blank => i \in stored

\* After a failure, a crash or a restart too, the registry has a beginning of
\* the catalog: a tool is not posted before all tools that precede it are
\* stored (registry_sync.go, the return in the loop).
StoredIsPrefix ==
    \A i \in posted \cup stored, j \in Bodies : j < i => j \in stored

\* Whoever takes a tool from the registry can call it through the hub, under
\* the native name stored there, and finds it in tools/list
\* (registry_sync.go, mcpToolName; dtbclaw_catalog.go, isEdgeRelayTool).
StoredIsCallable ==
    \A i \in stored : i \in Listed /\ IsEdgeRelayTool(Catalog[i].mcp)

\* The inductive invariant: what is done is a beginning of the bodies, the post
\* that is waited for is the current one's, and only bodies are posted.
DoneIsPrefix == \A i \in done, j \in Bodies : j < i => j \in done

SyncInv ==
    /\ SyncTypeOK
    /\ DoneIsPrefix
    /\ StoredIsPrefix
    /\ done \subseteq stored
    /\ stored \subseteq posted
    /\ posted \subseteq Bodies
    /\ pc \in {"wait", "backoff"} => \E i \in Tools : Current(i)
    /\ pc = "wait" => \A i \in Tools : Current(i) => i \in posted
    /\ pc = "synced" => Bodies \subseteq done
    /\ pc \in {"send", "wait", "backoff"} => attempt < MaxAttempts

Running == pc \in {"send", "wait", "backoff"}

\* The loop is never without a next step: it finds a tool to send, or that all
\* have been sent, and whatever it waits for comes (registry_sync.go, the loop
\* over the bodies of EdgeCatalogRegistryToolBodies).
SyncStepsEnabled == Running => ENABLED <<Proceed>>_syncVars

\* The synchronisation ends, though the registry may never answer.
SyncEnds == Running ~> pc \in {"synced", "failed", "down"}
=============================================================================
