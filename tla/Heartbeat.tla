------------------------------ MODULE Heartbeat -------------------------------
(***************************************************************************)
(* The connection table in time: the writer's ping ticker and write        *)
(* deadline, and the reader's deadline, which only a pong moves.           *)
(*                                                                         *)
(* Every action is one of ConnTable with what it means for the clocks, or  *)
(* a step that ConnTable does not see.  Time advances when nothing that    *)
(* takes no time is left to do and no deadline is overdue.                 *)
(***************************************************************************)
EXTENDS ConnTable, Integers

CONSTANTS
    PongWait,   \* 60 s
    WriteWait,  \* 10 s
    Hold,       \* how long a ping may wait for the writer without harm
    Lag,        \* how long a prompt peer takes to answer a ping it was sent
    MaxOwed     \* pings a peer keeps in mind to answer; RFC 6455 lets it
                \* forget all but the latest

PingPeriod == (PongWait * 9) \div 10

ASSUME TimeAssumption ==
    /\ PongWait \in Nat
    /\ PongWait >= 10
    /\ WriteWait \in Nat \ {0}
    /\ Hold \in Nat
    /\ Lag \in Nat
    /\ PingPeriod + Hold + Lag < PongWait
    /\ MaxOwed \in Nat \ {0}
    /\ WriteWait < PingPeriod

VARIABLES
    peer,       \* connection -> "prompt", a peer that answers every ping in
                \* time; "asked", one that pongs only in answer to pings; or
                \* "other".  Both prompt and other peers may pong unasked
    quiet,      \* connection -> time since the read deadline was last set
    tick,       \* connection -> time since the ticker last ticked
    ticked,     \* connection -> a tick waits in the ticker's channel
    busy,       \* connection -> "no" | "message" | "ping": what is being written
    spent,      \* connection -> time spent on this write
    owed,       \* connection -> pings written that the peer may still answer
    since,      \* connection -> how long a prompt peer has owed the next answer
    held,       \* history: connection -> a prompt peer's ping waited for the
                \* writer longer than Hold, and not all is answered since
    reprieve,   \* history: connection -> how much longer an asked peer may be
                \* read, counted down from when its writer stopped
    draining    \* history: connection -> time since Send was closed, while the
                \* writer still runs

clocks == <<peer, quiet, tick, ticked, busy, spent, owed, since, held,
            reprieve, draining>>
vars == <<connVars, clocks>>

Init ==
    /\ ConnInit
    /\ peer \in [Conns -> {"prompt", "asked", "other"}]
    /\ quiet = [c \in Conns |-> 0]
    /\ tick = [c \in Conns |-> 0]
    /\ ticked = [c \in Conns |-> FALSE]
    /\ busy = [c \in Conns |-> "no"]
    /\ spent = [c \in Conns |-> 0]
    /\ owed = [c \in Conns |-> 0]
    /\ since = [c \in Conns |-> 0]
    /\ held = [c \in Conns |-> FALSE]
    /\ reprieve = [c \in Conns |-> 0]
    /\ draining = [c \in Conns |-> 0]

-----------------------------------------------------------------------------
\* A ping of the ticker has not been written; or it has no answer yet either.
Unsent(c) == ticked[c] \/ busy[c] = "ping"

Outstanding(c) == Unsent(c) \/ owed[c] > 0

\* The writer's deferred Stop of its ticker.  What its peer has been asked may
\* still move the read deadline; the other histories end.
StopTicker(c) ==
    /\ tick' = [tick EXCEPT ![c] = 0]
    /\ ticked' = [ticked EXCEPT ![c] = FALSE]
    /\ since' = [since EXCEPT ![c] = 0]
    /\ held' = [held EXCEPT ![c] = FALSE]
    /\ reprieve' = [reprieve EXCEPT ![c] =
          IF peer[c] = "asked" THEN PongWait * (owed[c] + 1) - quiet[c] ELSE 0]
    /\ draining' = [draining EXCEPT ![c] = 0]
    /\ UNCHANGED <<peer, quiet, owed>>

\* The writer's select: a message, a tick, or a closed and drained channel.
\* Which one it takes when several are ready is open.
StartWrite(c, what) ==
    /\ busy[c] = "no"
    /\ busy' = [busy EXCEPT ![c] = what]
    /\ UNCHANGED <<peer, quiet, tick, spent, owed, since, held, reprieve, draining>>

EndWrite(c) ==
    /\ busy[c] # "no"
    /\ busy' = [busy EXCEPT ![c] = "no"]
    /\ spent' = [spent EXCEPT ![c] = 0]

TakeMessage(c) ==
    /\ WriterTakes(c)
    /\ StartWrite(c, "message")
    /\ UNCHANGED ticked

TakeTick(c) ==
    /\ writer[c] = "running"
    /\ ticked[c]
    /\ StartWrite(c, "ping")
    /\ ticked' = [ticked EXCEPT ![c] = FALSE]
    /\ UNCHANGED connVars

\* The close frame is written under the deadline of the write before it: if that
\* has passed it fails at once, and if nothing was ever written it finds the
\* socket's buffer empty.  It is taken to need no time.
CloseFrame(c) ==
    /\ busy[c] = "no"
    /\ WriterEnds(c)
    /\ StopTicker(c)
    /\ UNCHANGED <<busy, spent>>

\* The write returns.  On a socket that HandleWS has closed it cannot succeed.
\* Each ping may be answered by a pong of its own.
Written(c) ==
    /\ EndWrite(c)
    /\ handler[c] # "gone"
    /\ owed' = [owed EXCEPT ![c] =
          IF busy[c] = "ping" /\ @ < MaxOwed THEN @ + 1 ELSE @]
    /\ UNCHANGED <<connVars, peer, quiet, tick, ticked, since, held, reprieve,
                   draining>>

WriteFails(c) ==
    /\ EndWrite(c)
    /\ UNCHANGED sendBuf
    /\ WriterFails(c)
    /\ StopTicker(c)

\* A pong comes, asked for or not.  With nothing left to answer, what held the
\* pings up is over.
PongComes(c) ==
    /\ handler[c] = "reading"
    /\ peer[c] = "asked" => owed[c] > 0
    /\ owed' = [owed EXCEPT ![c] = IF @ > 0 THEN @ - 1 ELSE 0]
    /\ since' = [since EXCEPT ![c] = 0]
    /\ held' = [held EXCEPT ![c] = @ /\ (Unsent(c) \/ owed[c] > 1)]
    /\ UNCHANGED <<connVars, peer, tick, ticked, busy, spent, reprieve, draining>>

\* Mutant: the pong handler does not move the deadline.
PongIgnored(c) == PongComes(c) /\ UNCHANGED quiet

\* The pong handler, which runs inside ReadMessage and moves the deadline on
\* every pong.  Other messages leave the deadline alone.
Pong(c) ==
    /\ PongComes(c)
    /\ quiet' = [quiet EXCEPT ![c] = 0]

-----------------------------------------------------------------------------
\* How long the writer may take for what is waiting for it and what it has under
\* way, when every write lasts until its deadline.
Waiting(c) == Len(sendBuf[c]) + (IF ticked[c] THEN 1 ELSE 0)
UnderWay(c) == IF busy[c] = "no" THEN 0 ELSE WriteWait - spent[c]
Work(c) == WriteWait * Waiting(c) + UnderWay(c)

\* The writer of a closed channel works off its buffer, a ping that waits and a
\* write under way, while the ticker adds a ping every PingPeriod: it may have
\* been at it for t if
DrainWork == WriteWait * PingPeriod * (SendCap + 2) + WriteWait * (PingPeriod - 1)

DrainInTime(t) == (PingPeriod - WriteWait) * t <= DrainWork

\* Mutant: there is no read deadline.
NoReadDeadline(c) == FALSE

\* A read that has reached its deadline fails at once.
ReadOverdue(c) == handler[c] = "reading" /\ quiet[c] >= PongWait

\* Mutant: there is no write deadline.
WriteWheneverItEnds(c) == busy[c] # "no" => handler[c] # "gone"

WriteInTime(c) ==
    busy[c] # "no" => spent[c] < WriteWait /\ handler[c] # "gone"

\* Nothing is left that the goroutines of c can do without waiting.
Settled(c) ==
    /\ handler[c] # "leaving"
    /\ writer[c] = "running" /\ busy[c] = "no" =>
          sendBuf[c] = <<>> /\ ~ticked[c] /\ ~sendClosed[c]

\* What a prompt peer is: while its socket is served, each answer is there
\* before Lag has passed since the ping was sent, or since the answer before it.
PeerInTime(c) ==
    peer[c] = "prompt" /\ handler[c] = "reading" /\ writer[c] = "running" =>
        (owed[c] > 0 => since[c] < Lag)

Tick ==
    /\ hmu = Free
    /\ \A c \in Conns :
          Settled(c) /\ WriteInTime(c) /\ ~ReadOverdue(c) /\ PeerInTime(c)
    /\ quiet' = [c \in Conns |->
          IF handler[c] = "reading" /\ quiet[c] < PongWait THEN quiet[c] + 1 ELSE quiet[c]]
    /\ tick' = [c \in Conns |->
          IF writer[c] # "running" THEN tick[c]
          ELSE IF tick[c] + 1 = PingPeriod THEN 0 ELSE tick[c] + 1]
    /\ ticked' = [c \in Conns |->
          ticked[c] \/ (writer[c] = "running" /\ tick[c] + 1 = PingPeriod)]
    /\ spent' = [c \in Conns |->
          IF busy[c] # "no" THEN spent[c] + 1 ELSE spent[c]]
    /\ since' = [c \in Conns |->
          IF peer[c] = "prompt" /\ handler[c] = "reading" /\ writer[c] = "running"
             /\ owed[c] > 0
          THEN since[c] + 1 ELSE since[c]]
    /\ held' = [c \in Conns |->
          held[c] \/ /\ peer[c] = "prompt" /\ writer[c] = "running"
                     /\ Unsent(c) /\ tick[c] >= Hold]
    /\ reprieve' = [c \in Conns |->
          IF peer[c] = "asked" /\ writer[c] = "stopped" /\ handler[c] = "reading"
          THEN reprieve[c] - 1 ELSE reprieve[c]]
    /\ draining' = [c \in Conns |->
          IF sendClosed[c] /\ writer[c] = "running" /\ DrainInTime(draining[c])
          THEN draining[c] + 1 ELSE draining[c]]
    /\ UNCHANGED <<connVars, peer, busy, owed>>

\* Steps of the table that take no time and touch no clock.  Register sets the
\* read deadline and starts the ticker: their clocks have not run before.
TableStep(A) == A /\ UNCHANGED clocks

Next ==
    \/ \E c \in Conns :
          \/ TableStep(Register(c))
          \/ TableStep(LeaveBegin(c))
          \/ TableStep(LeaveEnd(c))
          \/ TableStep(ReadFails(c))
          \/ TakeMessage(c)
          \/ TakeTick(c)
          \/ CloseFrame(c)
          \/ Written(c)
          \/ WriteFails(c)
          \/ Pong(c)
    \/ \E c \in Conns, m \in Msgs :
          TableStep(conns[cdev[c]] = c /\ Enqueue(c, m))
    \/ \E d \in Devices : TableStep(RevokeBegin(d)) \/ TableStep(RevokeEnd(d))
    \/ Tick

Spec == Init /\ [][Next]_vars

-----------------------------------------------------------------------------
\* Fairness.  Goroutines that can run do; time passes, whatever else happens
\* in no time; a select that finds a tick ready again and again takes it, as Go
\* chooses at random; a write that has reached its deadline returns; h.mu
\* reaches everybody who waits for it.  Peers need not do anything, except that
\* a prompt peer's pongs do come.
Fairness ==
    /\ SF_vars(Tick)
    /\ \A c \in Conns :
          /\ WF_vars(TakeMessage(c) \/ TakeTick(c) \/ CloseFrame(c))
          /\ SF_vars(TakeTick(c))
          /\ WF_vars(Written(c) \/ WriteFails(c))
          /\ WF_vars(peer[c] = "prompt" /\ owed[c] > 0 /\ Pong(c))
          /\ WF_vars(ReadOverdue(c) /\ TableStep(ReadFails(c)))
          /\ SF_vars(TableStep(LeaveBegin(c)))
          /\ WF_vars(TableStep(LeaveEnd(c)))
    /\ \A d \in Devices : WF_vars(TableStep(RevokeEnd(d)))

FairSpec == Spec /\ Fairness

-----------------------------------------------------------------------------
HbTypeOK ==
    /\ peer \in [Conns -> {"prompt", "asked", "other"}]
    /\ quiet \in [Conns -> 0..PongWait]
    /\ tick \in [Conns -> 0..(PingPeriod - 1)]
    /\ ticked \in [Conns -> BOOLEAN]
    /\ busy \in [Conns -> {"no", "message", "ping"}]
    /\ spent \in [Conns -> 0..WriteWait]
    /\ owed \in [Conns -> 0..MaxOwed]
    /\ since \in [Conns -> 0..Lag]
    /\ held \in [Conns -> BOOLEAN]
    /\ reprieve \in [Conns -> Int]
    /\ draining \in [Conns -> Nat]

\* A socket whose peer answers each ping within Lag of getting it is not timed
\* out while its writer works, unless a ping waited for the writer longer than
\* Hold: between a ping and the deadline there is room for Hold and Lag, but not
\* for a write that takes as long as it may (ws.go, pingPeriod "must be less
\* than pongWait").
PromptPeerStays ==
    \A c \in Conns :
        /\ peer[c] = "prompt" /\ handler[c] = "reading" /\ writer[c] = "running"
        /\ quiet[c] >= PongWait
        => held[c]

\* A socket whose writer has died, and that can therefore never be sent
\* anything again while it is still listed, is read until its deadline and one
\* PongWait more for each ping that is out, and no longer, if its peer pongs only
\* in answer to pings (ws.go, the writer's returns, the reader's deadline and
\* the pong handler).
ZombieIsBrief == \A c \in Conns : reprieve[c] >= 0

\* A socket that was replaced or unregistered does not keep its writer for long,
\* though its peer may take every message as late as it can and the ticker goes
\* on ticking: with the hub's 16 messages, 10 s and 54 s, not for 233 s (ws.go,
\* the writer drains a closed channel, writeWait and pingPeriod).
DrainIsBrief == \A c \in Conns : DrainInTime(draining[c])

\* Every socket that was cut off, or whose writer died, ends through its
\* deadlines alone, unless its peer sends pongs for ever; and a peer that pongs
\* only in answer to pings cannot do that, as nobody pings it any more.  Cut off
\* and ended are for good, so that it suffices to be ended again and again (ws.go,
\* the deadlines and the pong handler).
EndsUnlessPonged ==
    \A c \in Conns :
        \/ []<>(sendClosed[c] \/ writer[c] = "stopped" =>
                   writer[c] = "stopped" /\ handler[c] = "gone" /\ sendClosed[c])
        \/ peer[c] # "asked" /\ []<><<Pong(c)>>_vars

\* The clocks only restrict what the table and the goroutines do.
ImplementsConnTable == ConnSpec

\* The inductive invariant.  Unless pings are held up, a ping is sent within
\* Hold of its tick and answered within Lag of that, before the next; the read
\* deadline has not been left alone for longer than the tick is old, or a period
\* more.  What an asked peer owes covers what it may still be read.  And only a
\* running writer writes.
PongsFollowTicks ==
    \A c \in Conns :
        /\ owed[c] = 0 => since[c] = 0
        /\ peer[c] = "prompt" /\ handler[c] = "reading" /\ writer[c] = "running"
           /\ ~held[c] =>
              /\ quiet[c] <= tick[c] + (IF Outstanding(c) THEN PingPeriod ELSE 0)
              /\ Unsent(c) => tick[c] <= Hold /\ owed[c] = 0
              /\ ticked[c] => busy[c] # "ping"
              /\ owed[c] > 0 => tick[c] <= Hold + since[c] /\ owed[c] = 1

PongsLeft ==
    \A c \in Conns :
        /\ reprieve[c] >= 0
        /\ peer[c] = "asked" /\ writer[c] = "stopped" /\ handler[c] = "reading" =>
              reprieve[c] >= PongWait * (owed[c] + 1) - quiet[c]

WritersWrite ==
    \A c \in Conns :
        /\ busy[c] # "no" => writer[c] = "running"
        /\ handler[c] = "new" => writer[c] = "none" /\ quiet[c] = 0 /\ ~Outstanding(c)

\* Each tick of the clock takes a unit off the work of a closed channel, each
\* tick of the ticker adds one write to it.
DrainBounded ==
    \A c \in Conns :
        /\ ~sendClosed[c] => draining[c] = 0
        /\ busy[c] = "no" => spent[c] = 0
        /\ writer[c] = "running" =>
              PingPeriod * (draining[c] + Work(c)) + WriteWait * tick[c] <=
                  WriteWait * draining[c] + DrainWork

HbInv ==
    /\ ConnInv
    /\ HbTypeOK
    /\ PongsFollowTicks
    /\ PongsLeft
    /\ WritersWrite
    /\ DrainBounded
    /\ DrainIsBrief
=============================================================================
