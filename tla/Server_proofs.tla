---------------------------- MODULE Server_proofs ----------------------------
(***************************************************************************)
(* The HTTP endpoint's sessions, for all time limits, and the registry     *)
(* synchronisation, for every catalog.                                     *)
(*                                                                         *)
(* A session's age is bounded by that of the latest call in it             *)
(* (CallHoldsSession), and a call's by RequestTimeout; so the assumption   *)
(* RequestTimeout <= SessionTTL is what keeps a session alive under its    *)
(* calls.                                                                  *)
(***************************************************************************)
EXTENDS Endpoint, RegistrySync, TLAPS

\* The limits as numbers.
LEMMA Limits ==
    /\ SessionTTL \in Nat /\ RequestTimeout \in Nat /\ ShutdownTimeout \in Nat
    /\ RequestTimeout <= SessionTTL
    /\ Long = SessionTTL + 1
    /\ None \notin Nat
BY EndpointAssumption DEF Long

LEMMA InitEndpointInv == ASSUME Init PROVE EndpointInv
BY EndpointAssumption
   DEF Init, Fwd!Init, EndpointInv, EndpointTypeOK, Long, StoreIsHistory,
       CallHoldsSession, Here

\* A session that was used within SessionTTL is valid, and no other.
LEMMA ValidIffUsed ==
    ASSUME EndpointTypeOK, StoreIsHistory, NEW s \in Posts
    PROVE  Valid(s) <=> unused[s] <= SessionTTL
BY EndpointAssumption DEF EndpointTypeOK, StoreIsHistory, Valid, Pruned, Stale, Long

\* A call that is not over holds its session.
LEMMA HeldIsValid ==
    ASSUME EndpointTypeOK, StoreIsHistory, CallHoldsSession
    PROVE  SessionOutlivesCall
<1> SUFFICES ASSUME NEW p \in Posts, Here(p), sess[p] # None PROVE Valid(sess[p])
  BY DEF SessionOutlivesCall
<1>1. sess[p] \in Posts /\ age[p] \in 0..RequestTimeout /\ unused[sess[p]] \in 0..Long
  BY DEF EndpointTypeOK
<1>2. unused[sess[p]] <= SessionTTL
  BY <1>1, EndpointAssumption DEF CallHoldsSession, Long
<1> QED
  BY <1>1, <1>2, ValidIffUsed

\* What Create and a successful Valid do to the store and its history.
LEMMA AcceptStore ==
    ASSUME EndpointTypeOK, StoreIsHistory, NEW s \in Posts, Accept(s)
    PROVE  /\ store' \in [Posts -> (0..Long) \cup {None}]
           /\ unused' \in [Posts -> 0..Long]
           /\ StoreIsHistory'
           /\ \A t \in Posts : unused'[t] <= unused[t]
           /\ unused'[s] = 0
<1>1. /\ store' = [t \in Posts |-> IF t = s THEN 0 ELSE IF Stale(t) THEN None ELSE store[t]]
      /\ unused' = [t \in Posts |-> IF t = s THEN 0 ELSE unused[t]]
  BY DEF Accept, Used, Pruned, EndpointTypeOK
<1> QED
  BY <1>1, EndpointAssumption DEF EndpointTypeOK, StoreIsHistory, Stale, Long

\* A post that arrives with session s, or without one.
LEMMA ArriveInv ==
    ASSUME EndpointInv, NEW p \in Posts, NEW s \in Posts \cup {None},
           NEW o \in {"calling", "replied", "noSession"}, Arrive(p, s, o),
           \/ \E t \in Posts : Accept(t) /\ (o = "calling" => s = t)
           \/ /\ o = "calling" => s = None
              /\ UNCHANGED unused
              /\ store' = store \/ store' = Pruned
    PROVE  EndpointInv'
<1>1. /\ UNCHANGED <<name, status, answer, result, age, server, drain>>
      /\ outcome' = [outcome EXCEPT ![p] = o]
      /\ sess' = [sess EXCEPT ![p] = s]
  BY DEF Arrive, callVars
<1>2. /\ store' \in [Posts -> (0..Long) \cup {None}]
      /\ unused' \in [Posts -> 0..Long]
      /\ StoreIsHistory'
      /\ \A t \in Posts : unused'[t] <= unused[t]
      /\ o = "calling" /\ s # None => unused'[s] = 0
  <2>1. CASE \E t \in Posts : Accept(t) /\ (o = "calling" => s = t)
    BY <2>1, AcceptStore DEF EndpointInv
  <2>2. CASE /\ o = "calling" => s = None
             /\ UNCHANGED unused
             /\ store' = store \/ store' = Pruned
    BY <2>2, EndpointAssumption
       DEF EndpointInv, EndpointTypeOK, StoreIsHistory, Pruned, Stale, Long
  <2> QED
    BY <2>1, <2>2
<1>3. EndpointTypeOK'
  BY <1>1, <1>2 DEF EndpointInv, EndpointTypeOK
<1>4. CallHoldsSession'
  <2> SUFFICES ASSUME NEW q \in Posts, Here(q)', sess'[q] # None
               PROVE  unused'[sess'[q]] <= age'[q]
    BY DEF CallHoldsSession
  <2>1. CASE q = p
    <3>1. o = "calling" /\ sess'[q] = s
      BY <2>1, <1>1 DEF Here, EndpointInv, EndpointTypeOK
    <3> QED
      BY <3>1, <1>1, <1>2, EndpointAssumption DEF EndpointInv, EndpointTypeOK
  <2>2. CASE q # p
    <3>1. Here(q) /\ sess'[q] = sess[q] /\ sess[q] \in Posts /\ age'[q] = age[q]
      BY <2>2, <1>1 DEF Here, EndpointInv, EndpointTypeOK
    <3>2. unused[sess[q]] <= age[q] /\ unused[sess[q]] \in 0..Long /\ age[q] \in 0..RequestTimeout
          /\ unused'[sess[q]] \in 0..Long /\ unused'[sess[q]] <= unused[sess[q]]
      BY <3>1, <1>2 DEF EndpointInv, EndpointTypeOK, CallHoldsSession
    <3> QED
      BY <3>1, <3>2, EndpointAssumption DEF Long
  <2> QED
    BY <2>1, <2>2
<1> QED
  BY <1>2, <1>3, <1>4 DEF EndpointInv

LEMMA HandlerInv ==
    ASSUME EndpointInv, NEW p \in Posts, NEW s \in Posts \cup {None},
           \/ Initialize(p) \/ Plain(p) \/ DevicePost(p)
           \/ Local(p, s) \/ CallTool(p, s) \/ Reject(p, s)
    PROVE  EndpointInv'
<1>1. CASE Initialize(p)
  BY <1>1, ArriveInv DEF Initialize
<1>2. CASE Plain(p) \/ DevicePost(p)
  BY <1>2, ArriveInv DEF Plain, DevicePost
<1>3. CASE Local(p, s)
  BY <1>3, ArriveInv DEF Local, Valid
<1>4. CASE CallTool(p, s)
  BY <1>4, ArriveInv DEF CallTool, Valid
<1>5. CASE Reject(p, s)
  BY <1>5, ArriveInv DEF Reject
<1> QED
  BY <1>1, <1>2, <1>3, <1>4, <1>5

\* The call moves; nothing else does.
LEMMA CallInv ==
    ASSUME EndpointInv,
           UNCHANGED <<outcome, sess, store, age, server, drain, unused>>,
           \/ \E p \in Posts : Fwd!Open(p) \/ Fwd!Fail(p) \/ Fwd!Return(p)
           \/ \E p, q \in Posts : Fwd!Answer(p, q)
           \/ \E P \in SUBSET Posts : Fwd!Close(P)
    PROVE  EndpointInv'
<1>1. /\ name' \in [Posts -> Names]
      /\ status' \in [Posts -> {"none", "open", "closed"}]
      /\ answer' \in [Posts -> Posts \cup {None}]
      /\ result' \in [Posts -> {"none", "answered", "failed"}]
  <2>1. ASSUME NEW p \in Posts, Fwd!Open(p) \/ Fwd!Return(p) \/ Fwd!Fail(p)
        PROVE  <1>1!:
    BY <2>1 DEF EndpointInv, EndpointTypeOK, Fwd!Open, Fwd!Return, Fwd!Fail
  <2>2. ASSUME NEW p \in Posts, NEW q \in Posts, Fwd!Answer(p, q) PROVE <1>1!:
    BY <2>2 DEF EndpointInv, EndpointTypeOK, Fwd!Answer
  <2>3. ASSUME NEW P \in SUBSET Posts, Fwd!Close(P) PROVE <1>1!:
    BY <2>3 DEF EndpointInv, EndpointTypeOK, Fwd!Close
  <2> QED
    BY <2>1, <2>2, <2>3
<1>2. EndpointTypeOK'
  BY <1>1 DEF EndpointInv, EndpointTypeOK
<1> QED
  BY <1>2 DEF EndpointInv, StoreIsHistory, CallHoldsSession, Here

LEMMA ReplyInv ==
    ASSUME EndpointInv, NEW p \in Posts, Reply(p)
    PROVE  EndpointInv'
<1>1. EndpointTypeOK'
  BY EndpointAssumption DEF EndpointInv, EndpointTypeOK, Reply, callVars
<1>2. ~Here(p)' /\ \A q \in Posts : q # p =>
          (Here(q)' <=> Here(q)) /\ sess'[q] = sess[q] /\ age'[q] = age[q]
  BY DEF EndpointInv, EndpointTypeOK, Reply, Here
<1>3. CallHoldsSession'
  BY <1>2 DEF EndpointInv, CallHoldsSession, Reply
<1>4. StoreIsHistory'
  BY DEF EndpointInv, StoreIsHistory, Reply
<1> QED
  BY <1>1, <1>3, <1>4 DEF EndpointInv

LEMMA ServerInv ==
    ASSUME EndpointInv, Quit \/ Die \/ Start
    PROVE  EndpointInv'
<1>1. CASE Quit \/ Start
  <2>1. EndpointTypeOK'
    BY <1>1 DEF EndpointInv, EndpointTypeOK, Quit, Start, callVars
  <2> QED
    BY <1>1, <2>1
       DEF EndpointInv, StoreIsHistory, CallHoldsSession, Here, Quit, Start
<1>2. CASE Die
  <2>1. EndpointTypeOK'
    BY <1>2, EndpointAssumption DEF EndpointInv, EndpointTypeOK, Die, Long
  <2>2. \A p \in Posts : ~Here(p)'
    BY <1>2 DEF Die, Here
  <2>3. StoreIsHistory'
    BY <1>2, EndpointAssumption DEF StoreIsHistory, Die, Long
  <2> QED
    BY <2>1, <2>2, <2>3 DEF EndpointInv, CallHoldsSession
<1> QED
  BY <1>1, <1>2

LEMMA TickInv == ASSUME EndpointInv, Tick PROVE EndpointInv'
<1>1. UNCHANGED <<name, status, answer, result, outcome, sess, server>>
  BY DEF Tick, callVars
<1>2. \A x \in Posts :
        /\ store'[x] = IF store[x] # None /\ store[x] < Long THEN store[x] + 1 ELSE store[x]
        /\ unused'[x] = IF unused[x] < Long THEN unused[x] + 1 ELSE unused[x]
        /\ age'[x] = IF status[x] = "open" THEN age[x] + 1 ELSE age[x]
        /\ status[x] = "open" => age[x] < RequestTimeout
        /\ Here(x) => status[x] = "open"
  BY EndpointAssumption DEF Tick, Older, Settled, EndpointInv, EndpointTypeOK, Long
<1>3. EndpointTypeOK'
  <2>1. store' \in [Posts -> (0..Long) \cup {None}]
    BY <1>2, EndpointAssumption DEF Tick, Older, EndpointInv, EndpointTypeOK, Long
  <2>2. unused' \in [Posts -> 0..Long]
    BY <1>2, EndpointAssumption DEF Tick, Older, EndpointInv, EndpointTypeOK, Long
  <2>3. age' \in [Posts -> 0..RequestTimeout]
    BY <1>2, EndpointAssumption DEF Tick, EndpointInv, EndpointTypeOK
  <2>4. drain' \in 0..ShutdownTimeout
    BY EndpointAssumption DEF Tick, Drained, EndpointInv, EndpointTypeOK
  <2> QED
    BY <1>1, <2>1, <2>2, <2>3, <2>4 DEF EndpointInv, EndpointTypeOK
<1>4. StoreIsHistory'
  BY <1>2, EndpointAssumption DEF EndpointInv, EndpointTypeOK, StoreIsHistory, Long
<1>5. CallHoldsSession'
  <2> SUFFICES ASSUME NEW p \in Posts, Here(p), sess[p] # None
               PROVE  unused'[sess[p]] <= age'[p]
    BY <1>1 DEF CallHoldsSession, Here
  <2>1. sess[p] \in Posts /\ unused[sess[p]] \in 0..Long /\ age[p] \in 0..RequestTimeout
        /\ unused[sess[p]] <= age[p]
    BY DEF EndpointInv, EndpointTypeOK, CallHoldsSession
  <2>2. age'[p] = age[p] + 1
    BY <1>2
  <2>3. unused'[sess[p]] = unused[sess[p]] \/ unused'[sess[p]] = unused[sess[p]] + 1
    BY <2>1, <1>2
  <2> QED
    BY <2>1, <2>2, <2>3, Limits
<1> QED
  BY <1>3, <1>4, <1>5 DEF EndpointInv

LEMMA NextEndpointInv == ASSUME EndpointInv, [Next]_vars PROVE EndpointInv'
<1>1. ASSUME NEW p \in Posts,
             \/ Open(p) \/ Fail(p) \/ TimeOut(p) \/ Return(p)
             \/ \E q \in Posts : Answer(p, q)
      PROVE  EndpointInv'
  <2>1. {p} \in SUBSET Posts
    OBVIOUS
  <2> QED
    BY <1>1, <2>1, CallInv DEF Open, Fail, TimeOut, Return, Answer, CallStep
<1>2. ASSUME NEW P \in SUBSET Posts, Close(P) PROVE EndpointInv'
  BY <1>2, CallInv DEF Close, CallStep
<1>3. CASE UNCHANGED vars
  BY <1>3 DEF vars, callVars, EndpointInv, EndpointTypeOK, StoreIsHistory,
     CallHoldsSession, Here
<1>4. None \in Posts \cup {None}
  OBVIOUS
<1> QED
  BY <1>1, <1>2, <1>3, <1>4, HandlerInv, ReplyInv, ServerInv, TickInv DEF Next

-----------------------------------------------------------------------------
\* The store agrees with its history, and calls hold their sessions.
THEOREM EndpointInvariant == Spec => []EndpointInv
<1>1. Init => EndpointInv
  BY InitEndpointInv
<1>2. EndpointInv /\ [Next]_vars => EndpointInv'
  BY NextEndpointInv
<1> QED
  BY <1>1, <1>2, PTL DEF Spec

\* No session expires under a call, as RequestTimeout <= SessionTTL.
THEOREM SessionOutlives == Spec => []SessionOutlivesCall
<1>1. EndpointInv => SessionOutlivesCall
  BY HeldIsValid DEF EndpointInv
<1> QED
  BY <1>1, EndpointInvariant, PTL

\* How a post that has just arrived with a session was received.
LEMMA Received ==
    ASSUME EndpointInv, [Next]_vars, NEW p \in Posts,
           outcome[p] = "new", outcome'[p] # "new", sess'[p] # None
    PROVE  /\ sess'[p] \in Posts
           /\ outcome'[p] = "noSession" <=> ~Valid(sess'[p])
<1>1. /\ outcome \in [Posts -> {"new", "calling", "replied", "noSession", "lost",
                               "dropped", "killed"}]
      /\ sess \in [Posts -> Posts \cup {None}]
      /\ unused \in [Posts -> 0..Long]
  BY DEF EndpointInv, EndpointTypeOK
<1>2. ASSUME NEW q \in Posts, NEW s \in Posts \cup {None},
             NEW o \in {"calling", "replied", "noSession"}, Arrive(q, s, o)
      PROVE  q = p /\ sess'[p] = s /\ outcome'[p] = o
  BY <1>1, <1>2 DEF Arrive
<1>3. ASSUME NEW q \in Posts, Initialize(q) \/ Plain(q) \/ DevicePost(q) PROVE FALSE
  BY <1>2, <1>3 DEF Initialize, Plain, DevicePost
<1>4. ASSUME NEW q \in Posts, NEW s \in Posts \cup {None}, Local(q, s) \/ CallTool(q, s)
      PROVE  /\ sess'[p] \in Posts /\ Valid(sess'[p]) /\ outcome'[p] # "noSession"
  BY <1>1, <1>2, <1>4 DEF Local, CallTool, Valid
<1>5. ASSUME NEW q \in Posts, NEW s \in Posts \cup {None}, Reject(q, s)
      PROVE  sess'[p] \in Posts /\ ~Valid(sess'[p]) /\ outcome'[p] = "noSession"
  BY <1>2, <1>5 DEF Reject
<1>6. ASSUME NEW q \in Posts, Reply(q) PROVE FALSE
  BY <1>1, <1>6 DEF Reply, Here
<1>7. ASSUME Quit \/ Die \/ Start \/ Tick \/ UNCHANGED vars PROVE FALSE
  BY <1>1, <1>7 DEF Quit, Die, Start, Tick, vars, Here
<1>8. ASSUME NEW q \in Posts,
             \/ Open(q) \/ Fail(q) \/ TimeOut(q) \/ Return(q)
             \/ \E r \in Posts : Answer(q, r)
      PROVE  FALSE
  BY <1>8 DEF Open, Fail, TimeOut, Return, Answer, CallStep
<1>9. ASSUME NEW P \in SUBSET Posts, Close(P) PROVE FALSE
  BY <1>9 DEF Close, CallStep
<1> QED
  BY <1>3, <1>4, <1>5, <1>6, <1>7, <1>8, <1>9 DEF Next

\* A session that is in use is never refused.
THEOREM ActiveServed == Spec => ActiveIsServed
<1>1. EndpointInv /\ [Next]_vars =>
        [\A p \in Posts :
            outcome[p] = "new" /\ outcome'[p] = "noSession" /\ sess'[p] # None =>
               unused[sess'[p]] > SessionTTL]_vars
  <2> SUFFICES ASSUME EndpointInv, [Next]_vars, NEW p \in Posts,
                      outcome[p] = "new", outcome'[p] = "noSession", sess'[p] # None
               PROVE  unused[sess'[p]] > SessionTTL
    OBVIOUS
  <2>1. sess'[p] \in Posts /\ ~Valid(sess'[p])
    BY Received
  <2>2. unused[sess'[p]] \in 0..Long
    BY <2>1 DEF EndpointInv, EndpointTypeOK
  <2> QED
    BY <2>1, <2>2, ValidIffUsed, Limits DEF EndpointInv
<1> QED
  BY <1>1, EndpointInvariant, PTL DEF Spec, ActiveIsServed

\* A session that is not in use is never accepted.
THEOREM StaleRefused == Spec => StaleIsRefused
<1>1. EndpointInv /\ [Next]_vars =>
        [\A p \in Posts :
            outcome[p] = "new" /\ outcome'[p] \notin {"new", "noSession"}
               /\ sess'[p] # None => unused[sess'[p]] <= SessionTTL]_vars
  <2> SUFFICES ASSUME EndpointInv, [Next]_vars, NEW p \in Posts,
                      outcome[p] = "new", outcome'[p] \notin {"new", "noSession"},
                      sess'[p] # None
               PROVE  unused[sess'[p]] <= SessionTTL
    OBVIOUS
  <2>1. sess'[p] \in Posts /\ Valid(sess'[p])
    BY Received
  <2> QED
    BY <2>1, ValidIffUsed DEF EndpointInv
<1> QED
  BY <1>1, EndpointInvariant, PTL DEF Spec, StaleIsRefused

-----------------------------------------------------------------------------
\* The calls of the posts.  What the server does is a step of ForwardSpec, or
\* none: when it dies, all open calls are closed at once.
LEMMA DieCloses ==
    ASSUME EndpointInv, Die
    PROVE  [Fwd!Next]_callVars
<1> DEFINE P == {p \in Posts : status[p] = "open"}
<1>1. UNCHANGED <<name, answer, result>>
      /\ status' = [p \in Posts |-> IF p \in P THEN "closed" ELSE status[p]]
  BY DEF Die
<1>2. CASE P = {}
  <2>1. status' = status
    BY <1>1, <1>2 DEF EndpointInv, EndpointTypeOK
  <2> QED
    BY <1>1, <2>1 DEF callVars
<1>3. CASE P # {}
  <2>1. P \in SUBSET Posts
    OBVIOUS
  <2>2. Fwd!Close(P)
    BY <1>1, <1>3 DEF Fwd!Close
  <2> QED
    BY <2>1, <2>2 DEF Fwd!Next
<1> QED
  BY <1>2, <1>3

LEMMA EndpointMovesCalls ==
    ASSUME EndpointInv, [Next]_vars
    PROVE  [Fwd!Next]_callVars
<1>1. ASSUME NEW p \in Posts, NEW s, NEW o, Arrive(p, s, o) PROVE UNCHANGED callVars
  BY <1>1 DEF Arrive
<1>2. ASSUME NEW p \in Posts, NEW s \in Posts \cup {None},
             \/ Initialize(p) \/ Plain(p) \/ DevicePost(p)
             \/ Local(p, s) \/ CallTool(p, s) \/ Reject(p, s)
      PROVE  UNCHANGED callVars
  BY <1>1, <1>2 DEF Initialize, Plain, DevicePost, Local, CallTool, Reject
<1>3. ASSUME NEW p \in Posts, \/ Open(p) \/ Fail(p) \/ TimeOut(p) \/ Return(p)
                              \/ \E q \in Posts : Answer(p, q)
      PROVE  Fwd!Next
  <2>1. {p} \in SUBSET Posts
    OBVIOUS
  <2> QED
    BY <1>3, <2>1 DEF Open, Fail, TimeOut, Return, Answer, CallStep, Fwd!Next
<1>4. ASSUME NEW P \in SUBSET Posts, Close(P) PROVE Fwd!Next
  BY <1>4 DEF Close, CallStep, Fwd!Next
<1>5. ASSUME \/ \E p \in Posts : Reply(p)
             \/ Quit \/ Start \/ Tick \/ UNCHANGED vars
      PROVE  UNCHANGED callVars
  BY <1>5 DEF Reply, Quit, Start, Tick, vars
<1>6. None \in Posts \cup {None}
  OBVIOUS
<1> QED
  BY <1>2, <1>3, <1>4, <1>5, <1>6, DieCloses DEF Next

\* The endpoint makes no call that ForwardSpec does not describe, through crashes
\* and restarts of the server too.
THEOREM EndpointImplementsForward == Spec => Fwd!Spec
<1>1. Init => Fwd!Init
  BY DEF Init
<1>2. EndpointInv /\ [Next]_vars => [Fwd!Next]_(Fwd!vars)
  BY EndpointMovesCalls DEF callVars, Fwd!vars
<1> QED
  BY <1>1, <1>2, EndpointInvariant, PTL DEF Spec, Fwd!Spec

\* What follows for the callers: a call that succeeds has the answer to a
\* request of its own name, which no other call has; and it is over.
OwnAnswers ==
    \A p \in Posts :
        /\ result[p] = "answered" => answer[p] # None
        /\ answer[p] # None => status[p] = "closed" /\ name[answer[p]] = name[p]
        /\ \A q \in Posts :
              /\ answer[p] # None /\ answer[q] = answer[p] => q = p
              /\ status[p] = "open" /\ status[q] = "open" /\ name[q] = name[p] => q = p

LEMMA NextOwnAnswers ==
    ASSUME EndpointInv, OwnAnswers, [Fwd!Next]_callVars
    PROVE  OwnAnswers'
<1>1. /\ status \in [Posts -> {"none", "open", "closed"}]
      /\ answer \in [Posts -> Posts \cup {None}]
      /\ result \in [Posts -> {"none", "answered", "failed"}]
      /\ None \notin Posts
  BY EndpointAssumption DEF EndpointInv, EndpointTypeOK
<1>2. ASSUME NEW p \in Posts, Fwd!Open(p) PROVE OwnAnswers'
  BY <1>1, <1>2 DEF Fwd!Open, OwnAnswers
<1>3. ASSUME NEW p \in Posts, Fwd!Return(p) PROVE OwnAnswers'
  BY <1>1, <1>3 DEF Fwd!Return, OwnAnswers
<1>4. ASSUME NEW p \in Posts, Fwd!Fail(p) PROVE OwnAnswers'
  BY <1>1, <1>4 DEF Fwd!Fail, OwnAnswers
<1>5. ASSUME NEW p \in Posts, NEW q \in Posts, Fwd!Answer(p, q) PROVE OwnAnswers'
  BY <1>1, <1>5 DEF Fwd!Answer, OwnAnswers
<1>6. ASSUME NEW P \in SUBSET Posts, Fwd!Close(P) PROVE OwnAnswers'
  BY <1>1, <1>6 DEF Fwd!Close, OwnAnswers
<1>7. CASE UNCHANGED callVars
  BY <1>7 DEF callVars, OwnAnswers
<1> QED
  BY <1>2, <1>3, <1>4, <1>5, <1>6, <1>7 DEF Fwd!Next

\* No post is given the answer to another call, nor to a call of another name.
THEOREM PostsGetTheirAnswers == Spec => []OwnAnswers
<1>1. Init => OwnAnswers
  BY DEF Init, Fwd!Init, OwnAnswers
<1>2. EndpointInv /\ OwnAnswers /\ [Next]_vars => OwnAnswers'
  BY EndpointMovesCalls, NextOwnAnswers
<1> QED
  BY <1>1, <1>2, EndpointInvariant, PTL DEF Spec

-----------------------------------------------------------------------------
\* Tools are natural numbers, and one tool at most is at hand.
LEMMA ToolsAreNats == Tools \subseteq Nat /\ Bodies \subseteq Tools
BY SyncAssumption DEF Tools, Bodies

LEMMA CurrentIsNext ==
    ASSUME SyncInv, NEW i \in Tools, Current(i)
    PROVE  /\ i \in Bodies /\ i \in Nat
           /\ \A j \in Bodies : j < i => j \in done
           /\ \A j \in Tools : Current(j) => j = i
BY ToolsAreNats DEF Current

LEMMA InitSyncInv == ASSUME SyncInit PROVE SyncInv
BY SyncAssumption DEF SyncInit, SyncInv, SyncTypeOK, DoneIsPrefix, StoredIsPrefix

\* A tool is posted, stored or given up.
LEMMA SyncStepInv ==
    ASSUME SyncInv, NEW i \in Tools, SyncStep(i)
    PROVE  SyncInv'
<1>1. CASE Post(i)
  <2>1. StoredIsPrefix'
    BY <1>1, CurrentIsNext DEF SyncInv, StoredIsPrefix, Post
  <2>2. \A j \in Tools : Current(j)' => j \in posted'
    BY <1>1, CurrentIsNext DEF Post, Current
  <2>3. Current(i)'
    BY <1>1 DEF Post, Current, Bodies
  <2> QED
    BY <1>1, <2>1, <2>2, <2>3, CurrentIsNext DEF SyncInv, SyncTypeOK, DoneIsPrefix, Post
<1>2. CASE TrySucceeds(i)
  <2>1. i \in posted /\ i \in Bodies
    BY <1>2 DEF SyncInv, TrySucceeds, Current
  <2>2. DoneIsPrefix'
    BY <1>2, CurrentIsNext DEF SyncInv, DoneIsPrefix, TrySucceeds
  <2>3. StoredIsPrefix'
    BY <1>2, <2>1 DEF SyncInv, StoredIsPrefix, TrySucceeds
  <2> QED
    BY <1>2, <2>1, <2>2, <2>3, SyncAssumption DEF SyncInv, SyncTypeOK, TrySucceeds
<1>3. CASE TryFails(i)
  <2>1. SyncTypeOK'
    BY <1>3, SyncAssumption DEF SyncInv, SyncTypeOK, TryFails
  <2>2. Current(i)'
    BY <1>3 DEF TryFails, Current, Bodies
  <2> QED
    BY <1>3, <2>1, <2>2 DEF SyncInv, DoneIsPrefix, StoredIsPrefix, TryFails
<1>4. CASE CannotPost(i)
  BY <1>4 DEF SyncInv, SyncTypeOK, DoneIsPrefix, StoredIsPrefix, CannotPost, Current
<1> QED
  BY <1>1, <1>2, <1>3, <1>4 DEF SyncStep

LEMMA LateStoreInv ==
    ASSUME SyncInv, NEW i \in Tools, LateStore(i)
    PROVE  SyncInv'
BY DEF SyncInv, SyncTypeOK, DoneIsPrefix, StoredIsPrefix, LateStore, Current

LEMMA NextSyncInv == ASSUME SyncInv, [SyncNext]_syncVars PROVE SyncInv'
<1>1. ASSUME BackoffEnds \/ Finish \/ Exit \/ UNCHANGED syncVars PROVE SyncInv'
  BY <1>1 DEF SyncInv, SyncTypeOK, DoneIsPrefix, StoredIsPrefix, Current, BackoffEnds,
     Finish, Exit, syncVars
<1>2. ASSUME Restart PROVE SyncInv'
  BY <1>2, SyncAssumption DEF SyncInv, SyncTypeOK, DoneIsPrefix, StoredIsPrefix, Restart
<1> QED
  BY <1>1, <1>2, SyncStepInv, LateStoreInv DEF SyncNext

\* The registry has a beginning of the catalog in every reachable state.
THEOREM SyncInvariant == SyncSpec => []SyncInv
<1>1. SyncInit => SyncInv
  BY InitSyncInv
<1>2. SyncInv /\ [SyncNext]_syncVars => SyncInv'
  BY NextSyncInv
<1> QED
  BY <1>1, <1>2, PTL DEF SyncSpec

\* What the synchronisation counts is stored; what it completes is complete.
THEOREM SyncedStored == SyncSpec => []SyncedIsStored
<1>1. SyncInv => SyncedIsStored
  BY DEF SyncInv, SyncedIsStored, Bodies, Listed
<1> QED
  BY <1>1, SyncInvariant, PTL

\* A failure leaves no gaps.
THEOREM StoredPrefix == SyncSpec => []StoredIsPrefix
<1>1. SyncInv => StoredIsPrefix
  BY DEF SyncInv
<1> QED
  BY <1>1, SyncInvariant, PTL

\* What the registry offers, the hub forwards.
THEOREM StoredCallable == SyncSpec => []StoredIsCallable
<1>1. SyncInv => StoredIsCallable
  BY DEF SyncInv, StoredIsCallable, Bodies, Listed, IsEdgeRelayTool
<1> QED
  BY <1>1, SyncInvariant, PTL

-----------------------------------------------------------------------------
\* The synchronisation ends.  As in Hub_proofs, that a step can be taken is a
\* premise that TLC checks.  Each try moves the loop on in the order of tools and
\* attempts: Far(n) is to have got past n tries.
Over == pc \in {"synced", "failed", "down"}
Far(n) == Running /\ \A i \in Bodies \ done : n <= i * MaxAttempts + attempt
FarAt(n, p) == Far(n) /\ pc = p

LEMMA FarStays ==
    ASSUME NEW n \in Nat, Far(n), [SyncNext]_syncVars,
           ~ \E i \in Tools : TrySucceeds(i) \/ TryFails(i)
    PROVE  \/ Far(n)' /\ pc' = pc
           \/ pc = "send" /\ FarAt(n, "wait")'
           \/ pc = "backoff" /\ FarAt(n, "send")'
           \/ Over'
BY DEF Far, FarAt, Running, Over, SyncNext, SyncStep, CannotPost, Post, LateStore,
       BackoffEnds, Finish, Exit, Restart, syncVars, Bodies

\* A try that succeeds goes on to a later tool, one that fails to the next attempt.
LEMMA TryMovesOn ==
    ASSUME SyncInv, NEW n \in Nat, Far(n), NEW i \in Tools,
           TrySucceeds(i) \/ TryFails(i)
    PROVE  Far(n + 1)' \/ Over'
<1>1. /\ i \in Nat /\ i \in Bodies /\ MaxAttempts \in Nat /\ attempt \in Nat
      /\ n <= i * MaxAttempts + attempt /\ i * MaxAttempts \in Nat
  BY CurrentIsNext, SyncAssumption DEF SyncInv, SyncTypeOK, Far, Current, TrySucceeds, TryFails
<1>2. CASE TrySucceeds(i)
  <2>1. attempt < MaxAttempts
    BY <1>2 DEF SyncInv, TrySucceeds
  <2>2. ASSUME NEW j \in Bodies \ done' PROVE n + 1 <= j * MaxAttempts + attempt'
    <3>1. j \in Nat /\ i < j
      BY <1>1, <1>2, <2>2, ToolsAreNats DEF TrySucceeds, Current
    <3>2. (i + 1) * MaxAttempts <= j * MaxAttempts
      BY <1>1, <3>1
    <3>3. (i + 1) * MaxAttempts = i * MaxAttempts + MaxAttempts
      BY <1>1
    <3>4. j * MaxAttempts \in Nat /\ attempt' = 0
      BY <1>1, <1>2, <3>1 DEF TrySucceeds
    <3> QED
      BY <1>1, <2>1, <3>2, <3>3, <3>4
  <2>3. Running'
    BY <1>2 DEF TrySucceeds, Running
  <2> QED
    BY <2>2, <2>3 DEF Far, Bodies
<1>3. CASE TryFails(i)
  <2>1. pc' \in {"backoff", "failed"} /\ attempt' = attempt + 1 /\ done' = done
    BY <1>3 DEF TryFails
  <2>2. ASSUME NEW j \in Bodies \ done PROVE n + 1 <= j * MaxAttempts + attempt'
    <3>1. j \in Nat /\ j * MaxAttempts \in Nat
      BY <1>1, ToolsAreNats
    <3> QED
      BY <1>1, <2>1, <3>1 DEF Far
  <2> QED
    BY <2>1, <2>2 DEF Far, Running, Over
<1> QED
  BY <1>2, <1>3

\* However many tries are behind the loop, it gets past more or ends.
GetsPast(n, m) ==
    SyncFairSpec /\ []SyncStepsEnabled => (Far(n) ~> Far(m) \/ Over)

LEMMA OneTryPast ==
    ASSUME NEW n \in Nat
    PROVE  GetsPast(n, n + 1)
<1>1. SyncInv /\ Far(n) => FarAt(n, "send") \/ FarAt(n, "wait") \/ FarAt(n, "backoff")
  BY DEF Far, FarAt, Running
<1>2. SyncInv /\ [SyncNext]_syncVars /\ FarAt(n, "wait") =>
         FarAt(n, "wait")' \/ Far(n + 1)' \/ Over'
  BY FarStays, TryMovesOn DEF FarAt, Over
<1>3. SyncInv /\ [SyncNext]_syncVars /\ FarAt(n, "send") =>
         FarAt(n, "send")' \/ FarAt(n, "wait")' \/ Over'
  BY FarStays DEF FarAt, Over, TrySucceeds, TryFails
<1>4. SyncInv /\ [SyncNext]_syncVars /\ FarAt(n, "backoff") =>
         FarAt(n, "backoff")' \/ FarAt(n, "send")' \/ Over'
  BY FarStays DEF FarAt, Over, TrySucceeds, TryFails
<1>5. SyncInv /\ FarAt(n, "wait") /\ <<Proceed>>_syncVars => Far(n + 1)' \/ Over'
  BY TryMovesOn DEF FarAt, Proceed, SyncStep, CannotPost, Post, BackoffEnds, Finish
<1>6. SyncInv /\ FarAt(n, "send") /\ <<Proceed>>_syncVars => FarAt(n, "wait")' \/ Over'
  BY DEF Far, FarAt, Running, Over, Proceed, SyncStep, CannotPost, Post, TrySucceeds,
         TryFails, BackoffEnds, Finish
<1>7. SyncInv /\ FarAt(n, "backoff") /\ <<Proceed>>_syncVars => FarAt(n, "send")'
  BY DEF Far, FarAt, Running, Proceed, SyncStep, CannotPost, Post, TrySucceeds,
         TryFails, BackoffEnds, Finish
<1>8. SyncStepsEnabled /\ (FarAt(n, "send") \/ FarAt(n, "wait") \/ FarAt(n, "backoff")) =>
         ENABLED <<Proceed>>_syncVars
  BY DEF SyncStepsEnabled, Far, FarAt
<1> QED
  BY <1>1, <1>2, <1>3, <1>4, <1>5, <1>6, <1>7, <1>8, SyncInvariant, PTL
     DEF GetsPast, SyncFairSpec, SyncSpec

LEMMA PastAndPast ==
    ASSUME NEW i, NEW j, NEW k, GetsPast(i, j), GetsPast(j, k)
    PROVE  GetsPast(i, k)
BY PTL DEF GetsPast

\* Instead of an induction: each step doubles the number of tries, up to more
\* than the catalog and the loop allow.
LEMMA PastDoubled ==
    ASSUME NEW k \in Nat, NEW m \in Nat, m = k + k,
           \A i \in Nat : GetsPast(i, i + k)
    PROVE  \A i \in Nat : GetsPast(i, i + m)
<1> TAKE i \in Nat
<1>1. i + k \in Nat /\ (i + k) + k = i + m
  OBVIOUS
<1>2. GetsPast(i, i + k) /\ GetsPast(i + k, (i + k) + k)
  BY <1>1
<1>3. GetsPast(i, (i + k) + k)
  BY <1>2, PastAndPast
<1> QED
  BY <1>1, <1>3

LEMMA ManyTriesPast == GetsPast(0, 0 + 256)
<1>1. \A i \in Nat : GetsPast(i, i + 1)
  BY OneTryPast
<1>2. \A i \in Nat : GetsPast(i, i + 2)
  BY <1>1, 1 \in Nat, 2 \in Nat, 2 = 1 + 1, PastDoubled
<1>3. \A i \in Nat : GetsPast(i, i + 4)
  BY <1>2, 2 \in Nat, 4 \in Nat, 4 = 2 + 2, PastDoubled
<1>4. \A i \in Nat : GetsPast(i, i + 8)
  BY <1>3, 4 \in Nat, 8 \in Nat, 8 = 4 + 4, PastDoubled
<1>5. \A i \in Nat : GetsPast(i, i + 16)
  BY <1>4, 8 \in Nat, 16 \in Nat, 16 = 8 + 8, PastDoubled
<1>6. \A i \in Nat : GetsPast(i, i + 32)
  BY <1>5, 16 \in Nat, 32 \in Nat, 32 = 16 + 16, PastDoubled
<1>7. \A i \in Nat : GetsPast(i, i + 64)
  BY <1>6, 32 \in Nat, 64 \in Nat, 64 = 32 + 32, PastDoubled
<1>8. PICK k \in Nat : k = 64 + 64
  OBVIOUS
<1>9. \A i \in Nat : GetsPast(i, i + k)
  BY <1>7, <1>8, 64 \in Nat, PastDoubled
<1>10. PICK m \in Nat : m = k + k
  OBVIOUS
<1>11. \A i \in Nat : GetsPast(i, i + m)
  BY <1>9, <1>10, PastDoubled
<1>12. m = 256 /\ 0 \in Nat
  BY <1>8, <1>10
<1> QED
  BY <1>11, <1>12

\* Past so many tries, no tool is left, and there is nothing to do but to finish.
NoneLeft == Running /\ Bodies \subseteq done

LEMMA FarIsThrough == ASSUME SyncInv, Far(0 + 256) PROVE NoneLeft
<1> SUFFICES ASSUME NEW i \in Bodies \ done PROVE FALSE
  BY DEF Far, NoneLeft
<1>1. i \in 1..46
  <2>1. i \in 1..Len(Catalog) /\ Len(Catalog) \in Nat
    BY SyncAssumption DEF Bodies, Tools
  <2> QED
    BY <2>1, SizeAssumption
<1>2. attempt \in Nat /\ MaxAttempts \in Nat /\ attempt <= MaxAttempts /\ MaxAttempts <= 5
  BY SyncAssumption, SizeAssumption DEF SyncInv, SyncTypeOK
<1>3. i * MaxAttempts <= 46 * 5 /\ i * MaxAttempts \in Nat
  BY <1>1, <1>2
<1>4. 256 <= i * MaxAttempts + attempt
  BY DEF Far
<1> QED
  BY <1>2, <1>3, <1>4

LEMMA NoneLeftSteps ==
    ASSUME SyncInv, NoneLeft, [SyncNext]_syncVars
    PROVE  /\ NoneLeft' \/ Over'
           /\ <<Proceed>>_syncVars => Over'
<1>1. \A i \in Tools : ~Current(i)
  BY DEF NoneLeft, Current
<1>2. pc = "send"
  BY <1>1 DEF SyncInv, NoneLeft, Running
<1> QED
  BY <1>1, <1>2 DEF NoneLeft, Running, Over, SyncNext, Proceed, SyncStep, CannotPost, Post,
     TrySucceeds, TryFails, LateStore, BackoffEnds, Finish, Exit, Restart, syncVars

\* The synchronisation ends, whatever the registry does.
THEOREM SyncReturns == SyncFairSpec /\ []SyncStepsEnabled => SyncEnds
<1>1. SyncInv /\ Running => Far(0)
  <2> SUFFICES ASSUME SyncInv, Running, NEW i \in Bodies \ done
               PROVE  0 <= i * MaxAttempts + attempt
    BY DEF Far
  <2>1. i \in Nat /\ MaxAttempts \in Nat /\ attempt \in Nat
    BY ToolsAreNats, SyncAssumption DEF SyncInv, SyncTypeOK
  <2>2. i * MaxAttempts \in Nat
    BY <2>1
  <2> QED
    BY <2>1, <2>2
<1>2. SyncInv /\ Far(0 + 256) => NoneLeft
  BY FarIsThrough
<1>3. SyncInv /\ [SyncNext]_syncVars /\ NoneLeft => NoneLeft' \/ Over'
  BY NoneLeftSteps
<1>4. SyncInv /\ [SyncNext]_syncVars /\ NoneLeft /\ <<Proceed>>_syncVars => Over'
  BY NoneLeftSteps
<1>5. SyncStepsEnabled /\ NoneLeft => ENABLED <<Proceed>>_syncVars
  BY DEF SyncStepsEnabled, NoneLeft
<1>6. Over <=> pc \in {"synced", "failed", "down"}
  BY DEF Over
<1> QED
  BY <1>1, <1>2, <1>3, <1>4, <1>5, <1>6, ManyTriesPast, SyncInvariant, PTL
     DEF GetsPast, SyncFairSpec, SyncSpec, SyncEnds
=============================================================================
