-------------------------- MODULE Heartbeat_proofs ---------------------------
(***************************************************************************)
(* The clocks of Heartbeat, for all limits that TimeAssumption allows:     *)
(* pings are frequent enough for a prompt peer whose pings are not held    *)
(* up, and what a peer was asked bounds how long a socket whose writer has *)
(* died is read.  Every step is one of ConnTable, or none.                 *)
(***************************************************************************)
EXTENDS Heartbeat, ConnTable_proofs

\* The ping period lies between the time a ping and its answer may take and the
\* read deadline.
LEMMA PeriodBounds ==
    /\ PingPeriod \in Nat
    /\ Hold + Lag + 1 < PingPeriod
    /\ PingPeriod + Hold + Lag < PongWait
    /\ PongWait \in Nat /\ WriteWait \in Nat /\ Hold \in Nat /\ Lag \in Nat
    /\ MaxOwed \in Nat \ {0}
BY TimeAssumption DEF PingPeriod

\* What a peer may still answer, and the deadline it has, as time.
LEMMA AnswersAndDeadline ==
    ASSUME NEW n \in Nat, NEW q \in 0..PongWait
    PROVE  /\ PongWait * n \in Nat /\ PongWait * (n + 1) \in Nat
           /\ PongWait * (n + 1) >= PongWait
           /\ PongWait * (n + 1) - q \in Int /\ PongWait * (n + 1) - q >= 0
           /\ PongWait * (n + 1) - q >= PongWait * n
<1>1. PongWait \in Nat /\ PongWait * n \in Nat
  BY PeriodBounds
<1>2. PongWait * (n + 1) = PongWait * n + PongWait
  BY <1>1
<1> QED
  BY <1>1, <1>2

\* Products grow with their factors.
LEMMA TimesMonotone ==
    ASSUME NEW a \in Nat, NEW b \in Nat, NEW n \in Nat, a <= b
    PROVE  n * a <= n * b
<1>1. PICK d \in Nat : b = a + d
  <2> WITNESS b - a \in Nat
  <2> QED OBVIOUS
<1>2. n * d >= 0
  OBVIOUS
<1>3. n * b = n * a + n * d
  BY <1>1
<1> QED
  BY <1>1, <1>2, <1>3

\* The drain as numbers: P, W and S are PingPeriod, WriteWait and SendCap, w the
\* writes that wait, n what is left of the one under way, k both in time, d how
\* long it has been going on, t the ticker's clock, K what bounds it all.
Covered(P, W, K, d, k, t) == P * (d + k) + W * t <= W * d + K

LEMMA DrainStarts ==
    ASSUME NEW P \in Nat, NEW W \in Nat, NEW S \in Nat, NEW w \in Nat, NEW n \in Nat,
           NEW t \in Nat, NEW u \in Nat, w <= S + 1, n <= W, t <= u
    PROVE  Covered(P, W, W * P * (S + 2) + W * u, 0, W * w + n, t)
<1>1. W * w <= W * (S + 1)
  BY TimesMonotone
<1>2. W * t <= W * u
  BY TimesMonotone
<1>3. W * w + n <= W * (S + 2)
  BY <1>1
<1>4. P * (W * w + n) <= P * (W * (S + 2))
  BY <1>3, TimesMonotone
<1>5. P * (W * (S + 2)) = W * P * (S + 2)
  OBVIOUS
<1> QED
  BY <1>2, <1>4, <1>5 DEF Covered

\* Time passes; time passes and the ticker ticks; there is less to do; what is
\* left in the end.
LEMMA DrainTicks ==
    ASSUME NEW P \in Nat, NEW W \in Nat, NEW k \in Nat, NEW d \in Nat, NEW t \in Nat,
           NEW K \in Nat, k >= 1, Covered(P, W, K, d, k, t)
    PROVE  Covered(P, W, K, d + 1, k - 1, t + 1)
BY DEF Covered

LEMMA DrainTicksOver ==
    ASSUME NEW P \in Nat, NEW W \in Nat, NEW k \in Nat, NEW d \in Nat, NEW K \in Nat,
           NEW m \in Nat, k >= 1, P >= 1, m <= k - 1 + W, Covered(P, W, K, d, k, P - 1)
    PROVE  Covered(P, W, K, d + 1, m, 0)
<1>1. P * ((d + 1) + m) <= P * ((d + 1) + (k - 1 + W))
  BY TimesMonotone
<1>2. P * ((d + 1) + (k - 1 + W)) = P * (d + k) + P * W
  OBVIOUS
<1>3. W * (P - 1) = P * W - W /\ W * (d + 1) = W * d + W
  OBVIOUS
<1> QED
  BY <1>1, <1>2, <1>3 DEF Covered

LEMMA DrainLess ==
    ASSUME NEW P \in Nat, NEW W \in Nat, NEW k \in Nat, NEW d \in Nat, NEW t \in Nat,
           NEW K \in Nat, NEW m \in Nat, m <= k, Covered(P, W, K, d, k, t)
    PROVE  Covered(P, W, K, d, m, t)
<1>1. P * (d + m) <= P * (d + k)
  BY TimesMonotone
<1> QED
  BY <1>1 DEF Covered

LEMMA DrainEnds ==
    ASSUME NEW P \in Nat, NEW W \in Nat, NEW k \in Nat, NEW d \in Nat, NEW t \in Nat,
           NEW K \in Nat, Covered(P, W, K, d, k, t)
    PROVE  (P - W) * d <= K
<1>1. P * (d + k) = P * d + P * k /\ P * k >= 0 /\ W * t >= 0
  OBVIOUS
<1>2. (P - W) * d = P * d - W * d
  OBVIOUS
<1> QED
  BY <1>1, <1>2 DEF Covered

LEMMA DrainBounds ==
    /\ PingPeriod \in Nat /\ WriteWait \in Nat /\ DrainWork \in Nat
    /\ PingPeriod >= 1
    /\ (PingPeriod - WriteWait) * 0 <= DrainWork
<1>1. PingPeriod \in Nat /\ PingPeriod >= 1 /\ WriteWait \in Nat /\ SendCap \in Nat
  BY PeriodBounds, ConnAssumption
<1>2. /\ WriteWait * PingPeriod \in Nat /\ WriteWait * (PingPeriod - 1) \in Nat
      /\ \A m \in Nat : m * (SendCap + 2) \in Nat
  BY <1>1
<1>3. DrainWork \in Nat
  BY <1>1, <1>2 DEF DrainWork
<1> QED
  BY <1>1, <1>3

LEMMA InitHbInv == ASSUME Init PROVE HbInv
<1>1. ConnInv
  BY InitConnInv DEF Init
<1>2. HbTypeOK
  BY PeriodBounds, TimeAssumption DEF Init, HbTypeOK
<1>3. PongsFollowTicks /\ PongsLeft /\ WritersWrite
  BY PeriodBounds DEF Init, ConnInit, PongsFollowTicks, PongsLeft, WritersWrite,
     Outstanding, Unsent
<1>4. \A c \in Conns : writer[c] # "running" /\ draining[c] = 0 /\ spent[c] = 0
  BY DEF Init, ConnInit
<1>5. DrainBounded /\ DrainIsBrief
  BY <1>4, DrainBounds DEF DrainBounded, DrainIsBrief, DrainInTime
<1> QED
  BY <1>1, <1>2, <1>3, <1>5 DEF HbInv

\* A step of Heartbeat is a step of the connection table, or changes nothing
\* there.
LEMMA HbMovesConns == ASSUME ListedIsOpen, ConnTypeOK, [Next]_vars PROVE [ConnNext]_connVars
<1>1. ASSUME NEW c \in Conns,
             \/ TableStep(Register(c)) \/ TableStep(LeaveBegin(c))
             \/ TableStep(LeaveEnd(c)) \/ TableStep(ReadFails(c))
             \/ TakeMessage(c) \/ CloseFrame(c) \/ WriteFails(c)
      PROVE  ConnNext
  BY <1>1 DEF TableStep, TakeMessage, CloseFrame, WriteFails, ConnNext
<1>2. ASSUME NEW c \in Conns, TakeTick(c) \/ Written(c) \/ Pong(c)
      PROVE  UNCHANGED connVars
  BY <1>2 DEF TakeTick, Written, Pong, PongComes
<1>3. ASSUME NEW c \in Conns, NEW m \in Msgs,
             TableStep(conns[cdev[c]] = c /\ Enqueue(c, m))
      PROVE  ConnNext
  BY <1>3, ConnAssumption DEF TableStep, ConnNext, ConnTypeOK, ListedIsOpen
<1>4. ASSUME NEW d \in Devices, TableStep(RevokeBegin(d)) \/ TableStep(RevokeEnd(d))
      PROVE  ConnNext
  BY <1>4 DEF TableStep, ConnNext
<1>5. ASSUME Tick \/ UNCHANGED vars PROVE UNCHANGED connVars
  BY <1>5 DEF Tick, vars
<1> QED
  BY <1>1, <1>2, <1>3, <1>4, <1>5 DEF Next

-----------------------------------------------------------------------------
\* The parts of HbInv that are about clocks, but for the drain.
ClocksOK == HbTypeOK /\ PongsFollowTicks /\ PongsLeft /\ WritersWrite

\* A step that leaves the clocks alone, and handlers and writers too, except
\* that handlers leave.
LEMMA ClocksUntouched ==
    ASSUME HbInv, UNCHANGED clocks, UNCHANGED writer,
           \A c \in Conns : handler'[c] = handler[c] \/ handler'[c] \in {"leaving", "gone"}
    PROVE  ClocksOK'
BY DEF HbInv, ClocksOK, clocks, HbTypeOK, PongsFollowTicks, PongsLeft, WritersWrite,
       Outstanding, Unsent

LEMMA TableClocks ==
    ASSUME HbInv,
           \/ \E c \in Conns : \/ TableStep(LeaveBegin(c)) \/ TableStep(LeaveEnd(c))
                               \/ TableStep(ReadFails(c))
           \/ \E c \in Conns, m \in Msgs : TableStep(conns[cdev[c]] = c /\ Enqueue(c, m))
           \/ \E d \in Devices : TableStep(RevokeBegin(d)) \/ TableStep(RevokeEnd(d))
           \/ UNCHANGED vars
    PROVE  ClocksOK'
<1>1. UNCHANGED clocks /\ UNCHANGED writer
  BY DEF TableStep, LeaveBegin, LeaveEnd, ReadFails, Enqueue, RevokeBegin, RevokeEnd,
         UnregisterBegin, vars, connVars
<1>2. \A c \in Conns : handler'[c] = handler[c] \/ handler'[c] \in {"leaving", "gone"}
  BY DEF HbInv, ConnInv, ConnTypeOK, TableStep, LeaveBegin, LeaveEnd, ReadFails, Enqueue,
         RevokeBegin, RevokeEnd, UnregisterBegin, vars, connVars
<1> QED
  BY <1>1, <1>2, ClocksUntouched

\* A socket that is registered has fresh clocks.
LEMMA RegisterClocks ==
    ASSUME HbInv, NEW c \in Conns, TableStep(Register(c))
    PROVE  ClocksOK'
<1>1. HbTypeOK'
  BY DEF HbInv, HbTypeOK, TableStep, clocks
<1>2. handler[c] = "new" /\ quiet[c] = 0 /\ ~Outstanding(c) /\ tick[c] \in Nat
      /\ owed[c] \in Nat /\ busy[c] = "no" /\ PongsLeft!(c) /\ PongsFollowTicks!(c)
  BY PeriodBounds
     DEF HbInv, HbTypeOK, WritersWrite, PongsLeft, PongsFollowTicks, TableStep, Register
<1>3. handler \in [Conns -> {"new", "reading", "leaving", "gone"}]
      /\ writer \in [Conns -> {"none", "running", "stopped"}]
  BY DEF HbInv, ConnInv, ConnTypeOK
<1>4. /\ handler' = [handler EXCEPT ![c] = "reading"]
      /\ writer' = [writer EXCEPT ![c] = "running"]
      /\ UNCHANGED <<peer, quiet, tick, ticked, busy, spent, owed, since, held, reprieve>>
  BY DEF TableStep, Register, clocks
<1>5. PongsFollowTicks' /\ PongsLeft' /\ WritersWrite'
  <2> SUFFICES ASSUME NEW e \in Conns
               PROVE  /\ PongsFollowTicks!(e)'
                      /\ PongsLeft!(e)'
                      /\ WritersWrite!(e)'
    BY DEF PongsFollowTicks, PongsLeft, WritersWrite
  <2>1. CASE e = c
    BY <2>1, <1>2, <1>3, <1>4, PeriodBounds DEF Outstanding, Unsent
  <2>2. CASE e # c
    BY <2>2, <1>3, <1>4
       DEF HbInv, PongsFollowTicks, PongsLeft, WritersWrite, Outstanding, Unsent
  <2> QED
    BY <2>1, <2>2
<1> QED
  BY <1>1, <1>5 DEF ClocksOK

\* The writer's steps.  A ping that is written becomes one that is owed.
LEMMA WriterClocks ==
    ASSUME HbInv, NEW c \in Conns, TakeMessage(c) \/ TakeTick(c) \/ Written(c)
    PROVE  ClocksOK'
<1>1. UNCHANGED <<handler, writer, peer, quiet, tick, since, held, reprieve>>
  BY DEF TakeMessage, WriterTakes, TakeTick, Written, StartWrite, connVars
<1>2. writer[c] = "running"
  BY DEF HbInv, WritersWrite, TakeMessage, WriterTakes, TakeTick, Written, EndWrite
<1>3. HbTypeOK'
  <2>1. CASE TakeMessage(c)
    BY <2>1 DEF HbInv, HbTypeOK, TakeMessage, StartWrite
  <2>2. CASE TakeTick(c)
    BY <2>2 DEF HbInv, HbTypeOK, TakeTick, StartWrite
  <2>3. CASE Written(c)
    BY <2>3, PeriodBounds DEF HbInv, HbTypeOK, Written, EndWrite
  <2> QED
    BY <2>1, <2>2, <2>3
<1>4. \A e \in Conns :
         e # c => owed'[e] = owed[e] /\ ticked'[e] = ticked[e] /\ busy'[e] = busy[e]
  BY DEF HbInv, HbTypeOK, TakeMessage, TakeTick, Written, StartWrite, EndWrite
<1>5. ASSUME NEW e \in Conns
      PROVE  PongsFollowTicks!(e)' /\ PongsLeft!(e)' /\ WritersWrite!(e)'
  <2>0. /\ PongsFollowTicks!(e) /\ PongsLeft!(e) /\ WritersWrite!(e) /\ HbTypeOK
        /\ handler'[e] = handler[e] /\ writer'[e] = writer[e]
        /\ peer'[e] = peer[e] /\ quiet'[e] = quiet[e] /\ tick'[e] = tick[e]
        /\ since'[e] = since[e] /\ held'[e] = held[e] /\ reprieve'[e] = reprieve[e]
        /\ owed[e] \in Nat /\ since[e] \in Nat
    BY <1>1, PeriodBounds DEF HbInv, PongsFollowTicks, PongsLeft, WritersWrite, HbTypeOK
  <2>1. CASE e # c
    <3>1. (Outstanding(e)' <=> Outstanding(e)) /\ (Unsent(e)' <=> Unsent(e))
      BY <1>4, <2>1 DEF Outstanding, Unsent
    <3> QED
      BY <1>4, <2>0, <2>1, <3>1
  <2>2. CASE e = c
    <3>1. writer[e] = "running" /\ handler[e] # "new"
      BY <1>2, <2>0, <2>2
    <3>2. CASE TakeMessage(c)
      <4>1. UNCHANGED <<owed, ticked>> /\ busy[e] = "no" /\ busy'[e] = "message"
        BY <2>0, <2>2, <3>2 DEF TakeMessage, StartWrite, HbTypeOK
      <4>2. (Outstanding(e)' <=> Outstanding(e)) /\ (Unsent(e)' <=> Unsent(e))
        BY <4>1 DEF Outstanding, Unsent
      <4> QED
        BY <2>0, <3>1, <4>1, <4>2
    <3>3. CASE TakeTick(c)
      <4>1. /\ UNCHANGED owed /\ ticked[e] /\ ~ticked'[e]
            /\ busy[e] = "no" /\ busy'[e] = "ping"
        BY <2>0, <2>2, <3>3 DEF TakeTick, StartWrite, HbTypeOK
      <4>2. Outstanding(e)' /\ Outstanding(e) /\ Unsent(e)' /\ Unsent(e)
        BY <4>1 DEF Outstanding, Unsent
      <4> QED
        BY <2>0, <3>1, <4>1, <4>2
    <3>4. CASE Written(c) /\ busy[e] = "message"
      <4>1. UNCHANGED ticked /\ owed'[e] = owed[e] /\ busy'[e] = "no"
        BY <2>0, <2>2, <3>4 DEF Written, EndWrite, HbTypeOK
      <4>2. (Outstanding(e)' <=> Outstanding(e)) /\ (Unsent(e)' <=> Unsent(e))
        BY <3>4, <4>1 DEF Outstanding, Unsent
      <4> QED
        BY <2>0, <3>1, <4>1, <4>2
    <3>5. CASE Written(c) /\ busy[e] = "ping"
      <4>1. /\ UNCHANGED ticked /\ busy'[e] = "no"
            /\ owed'[e] = IF owed[e] < MaxOwed THEN owed[e] + 1 ELSE owed[e]
        BY <2>0, <2>2, <3>5 DEF Written, EndWrite, HbTypeOK
      <4>2. /\ Unsent(e) /\ Outstanding(e) /\ (Unsent(e)' <=> ticked[e])
            /\ owed[e] = 0 => owed'[e] = 1
            /\ owed'[e] > 0 /\ Outstanding(e)'
        BY <2>0, <3>5, <4>1, PeriodBounds DEF Outstanding, Unsent
      <4>3. quiet[e] \in Nat /\ tick[e] \in Nat
        BY <2>0, PeriodBounds DEF HbTypeOK
      <4> QED
        BY <2>0, <3>1, <3>5, <4>1, <4>2, <4>3, PeriodBounds
    <3>6. Written(c) => busy[e] \in {"message", "ping"}
      BY <2>0, <2>2 DEF Written, EndWrite, HbTypeOK
    <3> QED
      BY <3>2, <3>3, <3>4, <3>5, <3>6
  <2> QED
    BY <2>1, <2>2
<1> QED
  BY <1>3, <1>5 DEF ClocksOK, PongsFollowTicks, PongsLeft, WritersWrite

\* The writer returns: its clocks stop, and it writes no more.  What its peer
\* may be read for yet is counted from here.
LEMMA StopClocks ==
    ASSUME HbInv, NEW c \in Conns, CloseFrame(c) \/ WriteFails(c)
    PROVE  ClocksOK'
<1>1. /\ UNCHANGED <<handler, peer, quiet, owed>>
      /\ writer' = [writer EXCEPT ![c] = "stopped"]
      /\ tick' = [tick EXCEPT ![c] = 0]
      /\ ticked' = [ticked EXCEPT ![c] = FALSE]
      /\ since' = [since EXCEPT ![c] = 0]
      /\ held' = [held EXCEPT ![c] = FALSE]
      /\ reprieve' = [reprieve EXCEPT ![c] =
            IF peer[c] = "asked" THEN PongWait * (owed[c] + 1) - quiet[c] ELSE 0]
      /\ writer[c] = "running"
  BY DEF CloseFrame, WriterEnds, WriteFails, WriterFails, StopTicker, EndWrite
<1>2. busy'[c] = "no" /\ \A e \in Conns : e # c => busy'[e] = busy[e]
  BY DEF HbInv, HbTypeOK, CloseFrame, WriteFails, EndWrite
<1>3. /\ PongWait * (owed[c] + 1) - quiet[c] \in Int
      /\ PongWait * (owed[c] + 1) - quiet[c] >= 0
  <2>1. owed[c] \in Nat /\ quiet[c] \in 0..PongWait
    BY PeriodBounds DEF HbInv, HbTypeOK
  <2> QED
    BY <2>1, AnswersAndDeadline
<1>4. HbTypeOK'
  <2>1. busy' \in [Conns -> {"no", "message", "ping"}] /\ spent' \in [Conns -> 0..WriteWait]
    BY PeriodBounds DEF HbInv, HbTypeOK, CloseFrame, WriteFails, EndWrite
  <2>2. tick' \in [Conns -> 0..(PingPeriod - 1)] /\ ticked' \in [Conns -> BOOLEAN]
        /\ since' \in [Conns -> 0..Lag] /\ held' \in [Conns -> BOOLEAN]
    BY <1>1, PeriodBounds DEF HbInv, HbTypeOK
  <2>3. draining' \in [Conns -> Nat]
    BY DEF HbInv, HbTypeOK, CloseFrame, WriteFails, StopTicker
  <2>4. reprieve' \in [Conns -> Int]
    BY <1>1, <1>3 DEF HbInv, HbTypeOK
  <2> QED
    BY <1>1, <2>1, <2>2, <2>3, <2>4 DEF HbInv, HbTypeOK
<1>5. ASSUME NEW e \in Conns
      PROVE  PongsFollowTicks!(e)' /\ PongsLeft!(e)' /\ WritersWrite!(e)'
  <2>0. /\ PongsFollowTicks!(e) /\ PongsLeft!(e) /\ WritersWrite!(e) /\ HbTypeOK
        /\ ConnTypeOK
    BY DEF HbInv, ConnInv, PongsFollowTicks, PongsLeft, WritersWrite
  <2>1. CASE e # c
    <3>1. /\ UNCHANGED <<handler, peer, quiet, owed>>
          /\ writer'[e] = writer[e] /\ tick'[e] = tick[e] /\ ticked'[e] = ticked[e]
          /\ busy'[e] = busy[e] /\ since'[e] = since[e] /\ held'[e] = held[e]
          /\ reprieve'[e] = reprieve[e]
      BY <1>1, <1>2, <2>0, <2>1 DEF HbTypeOK, ConnTypeOK
    <3>2. (Outstanding(e)' <=> Outstanding(e)) /\ (Unsent(e)' <=> Unsent(e))
      BY <3>1 DEF Outstanding, Unsent
    <3> QED
      BY <2>0, <3>1, <3>2
  <2>2. CASE e = c
    <3>1. /\ writer'[e] = "stopped" /\ since'[e] = 0 /\ busy'[e] = "no"
          /\ reprieve'[e] = IF peer[e] = "asked" THEN PongWait * (owed[e] + 1) - quiet[e]
                            ELSE 0
          /\ UNCHANGED <<handler, peer, quiet, owed>>
      BY <1>1, <1>2, <2>0, <2>2 DEF HbTypeOK, ConnTypeOK
    <3>2. handler'[e] # "new"
      BY <1>1, <2>0, <2>2
    <3> QED
      BY <1>3, <2>2, <3>1, <3>2
  <2> QED
    BY <2>1, <2>2
<1> QED
  BY <1>4, <1>5 DEF ClocksOK, PongsFollowTicks, PongsLeft, WritersWrite

\* A pong pays one ping back, if there is one, and moves the deadline.
LEMMA PongClocks ==
    ASSUME HbInv, NEW c \in Conns, Pong(c)
    PROVE  ClocksOK'
<1>0. HbTypeOK
  BY DEF HbInv
<1>1. /\ UNCHANGED <<handler, writer, peer, tick, ticked, busy, reprieve>>
      /\ quiet'[c] = 0 /\ since'[c] = 0
      /\ owed'[c] = IF owed[c] > 0 THEN owed[c] - 1 ELSE 0
      /\ held'[c] <=> (held[c] /\ (Unsent(c) \/ owed[c] > 1))
      /\ \A e \in Conns : e # c => /\ quiet'[e] = quiet[e] /\ owed'[e] = owed[e]
                                   /\ since'[e] = since[e] /\ held'[e] = held[e]
  BY <1>0 DEF HbTypeOK, Pong, PongComes, connVars
<1>2. handler[c] = "reading" /\ (peer[c] = "asked" => owed[c] > 0)
  BY DEF Pong, PongComes
<1>3. HbTypeOK'
  BY <1>0, PeriodBounds DEF HbTypeOK, Pong, PongComes
<1>4. ASSUME NEW e \in Conns
      PROVE  PongsFollowTicks!(e)' /\ PongsLeft!(e)' /\ WritersWrite!(e)'
  <2>0. /\ PongsFollowTicks!(e) /\ PongsLeft!(e) /\ WritersWrite!(e)
        /\ (Unsent(e)' <=> Unsent(e))
    BY <1>1 DEF HbInv, PongsFollowTicks, PongsLeft, WritersWrite, Unsent
  <2>1. CASE e # c
    <3>1. Outstanding(e)' <=> Outstanding(e)
      BY <1>1, <2>0, <2>1 DEF Outstanding
    <3> QED
      BY <1>1, <2>0, <2>1, <3>1
  <2>2. CASE e = c
    <3>0. /\ owed[e] \in Nat /\ tick[e] \in Nat /\ since[e] \in 0..Lag
          /\ quiet[e] \in 0..PongWait /\ reprieve[e] \in Int
      BY <1>0, PeriodBounds DEF HbTypeOK
    <3>1. PongsFollowTicks!(e)'
      <4> SUFFICES ASSUME peer[e] = "prompt", writer[e] = "running", ~held'[e]
                   PROVE  /\ Unsent(e) => tick[e] <= Hold /\ owed'[e] = 0
                          /\ ticked[e] => busy[e] # "ping"
                          /\ owed'[e] > 0 => tick[e] <= Hold + 0 /\ owed'[e] = 1
        BY <1>1, <2>0, <2>2, <3>0, PeriodBounds
      <4>1. CASE held[e]
        <5>1. ~Unsent(e) /\ owed[e] <= 1
          BY <1>1, <2>2, <3>0, <4>1
        <5>2. owed'[e] = 0 /\ ~ticked[e]
          BY <1>1, <2>2, <3>0, <5>1 DEF Unsent
        <5> QED
          BY <5>1, <5>2
      <4>2. CASE ~held[e]
        <5>1. /\ Unsent(e) => tick[e] <= Hold /\ owed[e] = 0
              /\ ticked[e] => busy[e] # "ping"
              /\ owed[e] > 0 => owed[e] = 1
          BY <1>2, <2>0, <2>2, <4>2
        <5>2. owed'[e] = 0
          BY <1>1, <2>2, <3>0, <5>1
        <5> QED
          BY <5>1, <5>2
      <4> QED
        BY <4>1, <4>2
    <3>2. PongsLeft!(e)'
      <4>1. CASE peer[e] = "asked" /\ writer[e] = "stopped"
        <5>1. owed'[e] = owed[e] - 1 /\ owed[e] > 0 /\ handler[e] = "reading"
          BY <1>1, <1>2, <2>2, <4>1
        <5>2. reprieve[e] >= PongWait * (owed[e] + 1) - quiet[e]
          BY <2>0, <4>1, <5>1
        <5>3. PongWait * (owed[e] + 1) - quiet[e] >= PongWait * owed[e]
              /\ PongWait * (owed[e] + 1) \in Nat /\ PongWait * owed[e] \in Nat
          BY <3>0, AnswersAndDeadline
        <5>4. owed'[e] + 1 = owed[e]
          BY <3>0, <5>1
        <5>5. reprieve[e] >= PongWait * owed[e]
          BY <3>0, <5>2, <5>3
        <5> QED
          BY <1>1, <2>0, <2>2, <5>3, <5>4, <5>5
      <4>2. CASE ~(peer[e] = "asked" /\ writer[e] = "stopped")
        BY <1>1, <2>0, <4>2
      <4> QED
        BY <4>1, <4>2
    <3>3. WritersWrite!(e)'
      BY <1>1, <1>2, <2>0, <2>2
    <3> QED
      BY <3>1, <3>2, <3>3
  <2> QED
    BY <2>1, <2>2
<1> QED
  BY <1>3, <1>4 DEF ClocksOK, PongsFollowTicks, PongsLeft, WritersWrite

\* Time passes for every connection at once.
LEMMA TickClocks == ASSUME HbInv, Tick PROVE ClocksOK'
<1>0. UNCHANGED <<handler, writer, peer, busy, owed>>
  BY DEF Tick, connVars
<1>1. HbTypeOK'
  <2>1. quiet' \in [Conns -> 0..PongWait]
    BY PeriodBounds DEF HbInv, HbTypeOK, Tick
  <2>2. tick' \in [Conns -> 0..(PingPeriod - 1)]
    <3>1. tick \in [Conns -> 0..(PingPeriod - 1)]
      BY DEF HbInv, HbTypeOK
    <3>2. tick' = [c \in Conns |->
             IF writer[c] # "running" THEN tick[c]
             ELSE IF tick[c] + 1 = PingPeriod THEN 0 ELSE tick[c] + 1]
      BY DEF Tick
    <3> QED
      BY <3>1, <3>2, PeriodBounds
  <2>3. ticked' \in [Conns -> BOOLEAN] /\ held' \in [Conns -> BOOLEAN]
    BY DEF HbInv, HbTypeOK, Tick
  <2>4. spent' \in [Conns -> 0..WriteWait]
    BY PeriodBounds DEF HbInv, HbTypeOK, Tick, WriteInTime
  <2>5. since' \in [Conns -> 0..Lag]
    BY PeriodBounds DEF HbInv, HbTypeOK, Tick, PeerInTime
  <2>6. reprieve' \in [Conns -> Int]
    BY DEF HbInv, HbTypeOK, Tick
  <2>7. draining' \in [Conns -> Nat]
    BY DEF HbInv, HbTypeOK, Tick
  <2> QED
    BY <1>0, <2>1, <2>2, <2>3, <2>4, <2>5, <2>6, <2>7 DEF HbInv, HbTypeOK
<1> SUFFICES ASSUME NEW c \in Conns
             PROVE  PongsFollowTicks!(c)' /\ PongsLeft!(c)' /\ WritersWrite!(c)'
  BY <1>1 DEF ClocksOK, PongsFollowTicks, PongsLeft, WritersWrite
<1>2. /\ quiet[c] \in 0..PongWait /\ tick[c] \in 0..(PingPeriod - 1)
      /\ owed[c] \in Nat /\ since[c] \in 0..Lag /\ reprieve[c] \in Int
      /\ ~ReadOverdue(c) /\ PeerInTime(c)
      /\ PongsFollowTicks!(c) /\ PongsLeft!(c) /\ WritersWrite!(c)
  BY PeriodBounds
     DEF HbInv, HbTypeOK, PongsFollowTicks, PongsLeft, WritersWrite, Tick
<1>3. quiet'[c] = IF handler[c] = "reading" THEN quiet[c] + 1 ELSE quiet[c]
  BY <1>2, PeriodBounds DEF Tick, ReadOverdue
<1>4. PongsFollowTicks!(c)'
  <2>1. owed'[c] = 0 => since'[c] = 0
    BY <1>0, <1>2 DEF Tick
  <2> SUFFICES ASSUME peer[c] = "prompt", handler[c] = "reading",
                      writer[c] = "running", ~held'[c]
               PROVE  /\ quiet'[c] <= tick'[c] +
                            (IF Outstanding(c)' THEN PingPeriod ELSE 0)
                      /\ Unsent(c)' => tick'[c] <= Hold /\ owed'[c] = 0
                      /\ ticked'[c] => busy'[c] # "ping"
                      /\ owed'[c] > 0 => tick'[c] <= Hold + since'[c] /\ owed'[c] = 1
    BY <1>0, <2>1
  <2>2. /\ tick'[c] = IF tick[c] + 1 = PingPeriod THEN 0 ELSE tick[c] + 1
        /\ ticked'[c] <=> ticked[c] \/ tick[c] + 1 = PingPeriod
        /\ quiet'[c] = quiet[c] + 1
        /\ since'[c] = IF owed[c] > 0 THEN since[c] + 1 ELSE since[c]
        /\ owed[c] > 0 => since[c] < Lag
        /\ ~held[c] /\ (Unsent(c) => tick[c] < Hold)
    <3>1. /\ tick'[c] = IF tick[c] + 1 = PingPeriod THEN 0 ELSE tick[c] + 1
          /\ ticked'[c] <=> ticked[c] \/ tick[c] + 1 = PingPeriod
      BY <1>0 DEF Tick
    <3>2. peer[c] = "prompt" /\ handler[c] = "reading" /\ writer[c] = "running"
      BY <1>0
    <3>3. quiet'[c] = quiet[c] + 1
      BY <1>3, <3>2
    <3>4. since'[c] = IF owed[c] > 0 THEN since[c] + 1 ELSE since[c]
      BY <3>2 DEF Tick
    <3>5. owed[c] > 0 => since[c] < Lag
      BY <1>2, <3>2 DEF PeerInTime
    <3>6. ~held[c] /\ ~(Unsent(c) /\ tick[c] >= Hold)
      BY <3>2 DEF Tick
    <3>7. Unsent(c) => tick[c] < Hold
      BY <1>2, <3>6, PeriodBounds
    <3> QED
      BY <3>1, <3>3, <3>4, <3>5, <3>6, <3>7
  <2>3. /\ quiet[c] <= tick[c] + (IF Outstanding(c) THEN PingPeriod ELSE 0)
        /\ Unsent(c) => owed[c] = 0
        /\ ticked[c] => busy[c] # "ping"
        /\ owed[c] > 0 => tick[c] <= Hold + since[c] /\ owed[c] = 1
    BY <1>2, <2>2
  <2>4. CASE tick[c] + 1 = PingPeriod
    <3>1. ~Unsent(c) /\ owed[c] = 0
      BY <1>2, <2>2, <2>3, <2>4, PeriodBounds
    <3>2. ~Outstanding(c) /\ ticked'[c] /\ Outstanding(c)' /\ tick'[c] = 0
      BY <2>2, <2>4, <3>1 DEF Outstanding, Unsent
    <3>3. quiet'[c] <= PingPeriod
      BY <1>2, <2>2, <2>3, <2>4, <3>2, PeriodBounds
    <3>4. busy[c] # "ping"
      BY <3>1 DEF Unsent
    <3> QED
      BY <1>0, <3>1, <3>2, <3>3, <3>4, PeriodBounds
  <2>5. CASE tick[c] + 1 # PingPeriod
    <3>1. tick'[c] = tick[c] + 1 /\ (Unsent(c)' <=> Unsent(c))
          /\ (Outstanding(c)' <=> Outstanding(c)) /\ (ticked'[c] <=> ticked[c])
      BY <1>0, <2>2, <2>5 DEF Outstanding, Unsent
    <3> QED
      BY <1>0, <1>2, <2>2, <2>3, <3>1, PeriodBounds
  <2> QED
    BY <2>4, <2>5
<1>5. PongsLeft!(c)'
  <2>1. CASE peer[c] = "asked" /\ writer[c] = "stopped" /\ handler[c] = "reading"
    <3>1. reprieve'[c] = reprieve[c] - 1 /\ quiet'[c] = quiet[c] + 1 /\ owed'[c] = owed[c]
      BY <1>0, <1>3, <2>1 DEF Tick
    <3>2. reprieve[c] >= PongWait * (owed[c] + 1) - quiet[c] /\ quiet[c] < PongWait
      BY <1>2, <2>1, PeriodBounds DEF ReadOverdue
    <3>3. PongWait * (owed[c] + 1) \in Nat /\ PongWait * (owed[c] + 1) >= PongWait
      BY <1>2, AnswersAndDeadline
    <3>4. reprieve'[c] >= PongWait * (owed[c] + 1) - quiet'[c] /\ reprieve'[c] >= 0
      BY <1>2, <3>1, <3>2, <3>3, PeriodBounds
    <3> QED
      BY <3>1, <3>4
  <2>2. CASE ~(peer[c] = "asked" /\ writer[c] = "stopped" /\ handler[c] = "reading")
    <3>1. reprieve'[c] = reprieve[c]
      BY <2>2 DEF Tick
    <3> QED
      BY <1>0, <1>2, <2>2, <3>1
  <2> QED
    BY <2>1, <2>2
<1>6. WritersWrite!(c)'
  <2>1. writer[c] # "running" => (ticked'[c] <=> ticked[c])
    BY DEF Tick
  <2> QED
    BY <1>0, <1>2, <1>3, <2>1 DEF Outstanding, Unsent
<1> QED
  BY <1>4, <1>5, <1>6

-----------------------------------------------------------------------------
\* What a writer has to do is a number, at least one while it writes.
LEMMA WorkType ==
    ASSUME HbTypeOK, ConnTypeOK, NEW c \in Conns
    PROVE  /\ Work(c) \in Nat /\ Waiting(c) \in 0..(SendCap + 1) /\ UnderWay(c) \in 0..WriteWait
           /\ busy[c] # "no" /\ spent[c] < WriteWait => Work(c) >= 1
<1>1. Waiting(c) \in 0..(SendCap + 1)
  BY ConnAssumption DEF ConnTypeOK, Waiting
<1>2. /\ UnderWay(c) \in 0..WriteWait
      /\ busy[c] # "no" /\ spent[c] < WriteWait => UnderWay(c) >= 1
  BY TimeAssumption DEF HbTypeOK, UnderWay
<1>3. WriteWait * Waiting(c) \in Nat
  <2>1. WriteWait \in Nat /\ Waiting(c) \in Nat
    BY <1>1, TimeAssumption
  <2> QED
    BY <2>1
<1> QED
  BY <1>1, <1>2, <1>3, TimeAssumption DEF Work

\* The writer starts a write, time passes, it ends one.
LEMMA NextWrite ==
    ASSUME NEW W \in Nat, NEW w \in Nat
    PROVE  W * (w - 1) + W <= W * w + 0
OBVIOUS

LEMMA MoreWork ==
    ASSUME NEW W \in Nat, NEW w \in Nat, NEW n \in Nat, NEW v, v = w \/ v = w + 1, n >= 1
    PROVE  /\ W * v + (n - 1) \in Nat
           /\ W * v + (n - 1) <= W * w + n - 1 + W
           /\ v = w => W * v + (n - 1) = W * w + n - 1
<1>1. W * (w + 1) = W * w + W /\ W * w \in Nat
  OBVIOUS
<1> QED
  BY <1>1

LEMMA WrittenWrite ==
    ASSUME NEW W \in Nat, NEW w \in Nat, NEW n \in Nat
    PROVE  W * w + 0 <= W * w + n
OBVIOUS

\* A step other than Tick either leaves a drain where it is, with no more to do,
\* or is not one of a drain.
LEMMA DrainSteps ==
    ASSUME HbInv, [Next]_vars, ~Tick, NEW c \in Conns
    PROVE  \/ draining'[c] = 0
           \/ /\ draining'[c] = draining[c]
              /\ tick'[c] = tick[c]
              /\ writer'[c] = "running" =>
                    writer[c] = "running" /\ Work(c)' <= Work(c)
<1> DEFINE Step == \/ draining'[c] = 0
                   \/ /\ draining'[c] = draining[c]
                      /\ tick'[c] = tick[c]
                      /\ writer'[c] = "running" =>
                            writer[c] = "running" /\ Work(c)' <= Work(c)
<1>0. HbTypeOK /\ ConnTypeOK /\ DrainBounded /\ Work(c) \in Nat
      /\ Waiting(c) \in Nat /\ UnderWay(c) \in Nat /\ WriteWait \in Nat
  <2>1. HbTypeOK /\ ConnTypeOK /\ DrainBounded
    BY DEF HbInv, ConnInv
  <2> QED
    BY <2>1, WorkType, TimeAssumption, ConnAssumption
<1>1. ASSUME UNCHANGED clocks, writer'[c] = writer[c], sendBuf'[c] = sendBuf[c]
      PROVE  Step
  <2>1. Waiting(c)' = Waiting(c) /\ UnderWay(c)' = UnderWay(c)
    BY <1>1 DEF clocks, Waiting, UnderWay
  <2> QED
    BY <1>0, <1>1, <2>1 DEF clocks, Work
<1>2. ASSUME NEW e \in Conns, TableStep(Register(e)) PROVE Step
  <2>1. handler[e] = "new" /\ UNCHANGED clocks /\ UNCHANGED sendBuf
        /\ writer' = [writer EXCEPT ![e] = "running"]
    BY <1>2 DEF TableStep, Register
  <2>2. CASE e = c
    BY <1>0, <2>1, <2>2 DEF HbInv, ConnInv, NewIsOpen, DrainBounded, clocks
  <2>3. CASE e # c
    BY <1>0, <1>1, <2>1, <2>3 DEF ConnTypeOK
  <2> QED
    BY <2>2, <2>3
<1>3. ASSUME NEW e \in Conns, NEW m \in Msgs,
             TableStep(conns[cdev[e]] = e /\ Enqueue(e, m))
      PROVE  Step
  <2>1. ~sendClosed[e] /\ UNCHANGED clocks /\ UNCHANGED writer
        /\ sendBuf' = [sendBuf EXCEPT ![e] = Append(@, m)]
    BY <1>3 DEF TableStep, Enqueue
  <2>2. CASE e = c
    BY <1>0, <2>1, <2>2 DEF DrainBounded, clocks
  <2>3. CASE e # c
    BY <1>0, <1>1, <2>1, <2>3 DEF ConnTypeOK
  <2> QED
    BY <2>2, <2>3
<1>4. ASSUME NEW e \in Conns, TakeMessage(e) \/ TakeTick(e) \/ Written(e),
             e # c
      PROVE  Step
  <2>1. /\ UNCHANGED <<writer, draining, tick>>
        /\ sendBuf'[c] = sendBuf[c] /\ ticked'[c] = ticked[c]
        /\ busy'[c] = busy[c] /\ spent'[c] = spent[c]
    BY <1>0, <1>4 DEF TakeMessage, WriterTakes, TakeTick, Written, StartWrite, EndWrite,
       connVars, HbTypeOK, ConnTypeOK
  <2>2. Waiting(c)' = Waiting(c) /\ UnderWay(c)' = UnderWay(c)
    BY <2>1 DEF Waiting, UnderWay
  <2> QED
    BY <1>0, <2>1, <2>2 DEF Work
<1>5. ASSUME NEW e \in Conns, TakeMessage(e), e = c PROVE Step
  <2>1. /\ UNCHANGED <<writer, draining, tick, ticked, spent>>
        /\ busy[c] = "no" /\ busy'[c] # "no" /\ spent[c] = 0
        /\ sendBuf[c] # <<>> /\ sendBuf'[c] = Tail(sendBuf[c])
    BY <1>0, <1>5 DEF TakeMessage, WriterTakes, StartWrite, HbTypeOK, ConnTypeOK,
       DrainBounded
  <2>2. Waiting(c)' = Waiting(c) - 1
    BY <1>0, <2>1 DEF ConnTypeOK, Waiting
  <2>3. UnderWay(c) = 0 /\ UnderWay(c)' = WriteWait
    BY <2>1, TimeAssumption DEF UnderWay
  <2> QED
    BY <1>0, <2>1, <2>2, <2>3, NextWrite DEF Work
<1>6. ASSUME NEW e \in Conns, TakeTick(e), e = c PROVE Step
  <2>1. /\ UNCHANGED <<writer, draining, tick, sendBuf, spent>>
        /\ busy[c] = "no" /\ busy'[c] # "no" /\ spent[c] = 0
        /\ ticked[c] /\ ~ticked'[c]
    BY <1>0, <1>6 DEF TakeTick, StartWrite, connVars, HbTypeOK, DrainBounded
  <2>2. Waiting(c)' = Waiting(c) - 1
    BY <1>0, <2>1 DEF ConnTypeOK, Waiting
  <2>3. UnderWay(c) = 0 /\ UnderWay(c)' = WriteWait
    BY <2>1, TimeAssumption DEF UnderWay
  <2> QED
    BY <1>0, <2>1, <2>2, <2>3, NextWrite DEF Work
<1>7. ASSUME NEW e \in Conns, Written(e), e = c PROVE Step
  <2>1. /\ UNCHANGED <<writer, draining, tick, sendBuf, ticked>>
        /\ busy[c] # "no" /\ busy'[c] = "no"
    BY <1>0, <1>7 DEF Written, EndWrite, connVars, HbTypeOK
  <2>2. Waiting(c)' = Waiting(c) /\ UnderWay(c)' = 0
    BY <2>1 DEF Waiting, UnderWay
  <2>3. Work(c)' <= Work(c)
    BY <1>0, <2>2, WrittenWrite DEF Work
  <2> QED
    BY <2>1, <2>3
<1>8. ASSUME NEW e \in Conns, CloseFrame(e) \/ WriteFails(e) PROVE Step
  <2>1. /\ draining' = [draining EXCEPT ![e] = 0]
        /\ tick' = [tick EXCEPT ![e] = 0]
        /\ ticked' = [ticked EXCEPT ![e] = FALSE]
        /\ writer' = [writer EXCEPT ![e] = "stopped"]
        /\ UNCHANGED sendBuf
    BY <1>8 DEF CloseFrame, WriterEnds, WriteFails, WriterFails, StopTicker, EndWrite
  <2>2. CASE e = c
    BY <1>0, <2>1, <2>2 DEF HbTypeOK
  <2>3. CASE e # c
    <3>1. busy'[c] = busy[c] /\ spent'[c] = spent[c]
      BY <1>0, <1>8, <2>3 DEF CloseFrame, WriteFails, EndWrite, HbTypeOK
    <3>2. ticked'[c] = ticked[c] /\ draining'[c] = draining[c] /\ tick'[c] = tick[c]
          /\ writer'[c] = writer[c]
      BY <1>0, <2>1, <2>3 DEF HbTypeOK, ConnTypeOK
    <3>3. Waiting(c)' = Waiting(c) /\ UnderWay(c)' = UnderWay(c)
      BY <2>1, <3>1, <3>2 DEF Waiting, UnderWay
    <3> QED
      BY <1>0, <3>2, <3>3 DEF Work
  <2> QED
    BY <2>2, <2>3
<1>9. ASSUME NEW e \in Conns, Pong(e) PROVE Step
  <2>1. UNCHANGED <<writer, draining, tick, sendBuf, ticked, busy, spent>>
    BY <1>9 DEF Pong, PongComes, connVars
  <2>2. Waiting(c)' = Waiting(c) /\ UnderWay(c)' = UnderWay(c)
    BY <2>1 DEF Waiting, UnderWay
  <2> QED
    BY <1>0, <2>1, <2>2 DEF Work
<1>10. ASSUME \/ \E e \in Conns : \/ TableStep(LeaveBegin(e)) \/ TableStep(LeaveEnd(e))
                                  \/ TableStep(ReadFails(e))
              \/ \E d \in Devices : TableStep(RevokeBegin(d)) \/ TableStep(RevokeEnd(d))
              \/ UNCHANGED vars
       PROVE  Step
  BY <1>1, <1>10 DEF TableStep, LeaveBegin, LeaveEnd, ReadFails, RevokeBegin, RevokeEnd,
     UnregisterBegin, vars, connVars
<1> HIDE DEF Step
<1>11. ASSUME NEW e \in Conns, TakeMessage(e) \/ TakeTick(e) \/ Written(e) PROVE Step
  BY <1>4, <1>5, <1>6, <1>7, <1>11
<1>12. Step
  BY <1>2, <1>3, <1>8, <1>9, <1>10, <1>11 DEF Next
<1> QED
  BY <1>12 DEF Step

\* One unit of time of a drain.
LEMMA DrainTick ==
    ASSUME HbInv, Tick, NEW c \in Conns, sendClosed[c], writer[c] = "running"
    PROVE  Covered(PingPeriod, WriteWait, DrainWork, draining'[c], Work(c)', tick'[c])
<1>0. HbTypeOK /\ ConnTypeOK
  BY DEF HbInv, ConnInv
<1>1. /\ Covered(PingPeriod, WriteWait, DrainWork, draining[c], Work(c), tick[c])
      /\ draining[c] \in Nat /\ tick[c] \in 0..(PingPeriod - 1)
      /\ spent[c] \in 0..WriteWait
  BY <1>0 DEF HbInv, DrainBounded, HbTypeOK, Covered
<1>2. busy[c] # "no" /\ spent[c] < WriteWait
  BY DEF Tick, Settled, WriteInTime
<1>3. draining'[c] = draining[c] + 1
  BY DEF Tick, HbInv, DrainIsBrief
<1>4. Work(c) \in Nat /\ Work(c) >= 1 /\ Waiting(c) \in Nat
  BY <1>0, <1>2, WorkType, ConnAssumption
<1>5. UnderWay(c)' = UnderWay(c) - 1 /\ UnderWay(c) \in Nat /\ UnderWay(c) >= 1
  <2>1. busy'[c] = busy[c] /\ spent'[c] = spent[c] + 1
    BY <1>2 DEF Tick
  <2> QED
    BY <1>1, <1>2, <2>1, TimeAssumption DEF UnderWay
<1>6. sendBuf' = sendBuf
  BY DEF Tick, connVars
<1>7. CASE tick[c] + 1 # PingPeriod
  <2>1. tick'[c] = tick[c] + 1 /\ ticked'[c] = ticked[c]
    BY <1>0, <1>7 DEF Tick, HbTypeOK
  <2>2. Waiting(c)' = Waiting(c)
    BY <2>1, <1>6 DEF Waiting
  <2>3. Work(c)' = Work(c) - 1
    BY <2>2, <1>4, <1>5, TimeAssumption, MoreWork DEF Work
  <2>4. Covered(PingPeriod, WriteWait, DrainWork,
                draining[c] + 1, Work(c) - 1, tick[c] + 1)
    <3>1. tick[c] \in Nat
      BY <1>1
    <3> QED
      BY <1>1, <1>4, <3>1, DrainTicks, DrainBounds
  <2> QED
    BY <1>3, <2>1, <2>3, <2>4
<1>8. CASE tick[c] + 1 = PingPeriod
  <2>1. tick'[c] = 0 /\ ticked'[c]
    BY <1>8 DEF Tick
  <2>2. Waiting(c)' = Waiting(c) \/ Waiting(c)' = Waiting(c) + 1
    BY <1>0, <1>6, <2>1 DEF Waiting, HbTypeOK, ConnTypeOK
  <2>3. /\ Work(c)' \in Nat
        /\ Work(c)' <= Work(c) - 1 + WriteWait
    BY <2>2, <1>4, <1>5, TimeAssumption, MoreWork DEF Work
  <2>4. tick[c] = PingPeriod - 1
    BY <1>1, <1>8, DrainBounds
  <2>5. Covered(PingPeriod, WriteWait, DrainWork, draining[c] + 1, Work(c)', 0)
    <3>1. Covered(PingPeriod, WriteWait, DrainWork, draining[c], Work(c), PingPeriod - 1)
      BY <1>1, <2>4
    <3> QED
      BY <1>1, <1>4, <2>3, <3>1, DrainTicksOver, DrainBounds
  <2> QED
    BY <1>3, <2>1, <2>5
<1> QED
  BY <1>7, <1>8

\* What WorkType says of all connections, for the next state too.
WorksOK ==
    \A c \in Conns : /\ draining[c] \in Nat /\ tick[c] \in 0..(PingPeriod - 1)
                     /\ Waiting(c) \in 0..(SendCap + 1)
                     /\ UnderWay(c) \in 0..WriteWait
                     /\ Work(c) \in Nat

LEMMA WorkTypes == HbTypeOK /\ ConnTypeOK => WorksOK
BY WorkType DEF HbTypeOK, WorksOK

\* A drain begins with what a closed channel can hold.
LEMMA DrainBegins ==
    ASSUME NEW w \in 0..(SendCap + 1), NEW n \in 0..WriteWait,
           NEW t \in 0..(PingPeriod - 1)
    PROVE  Covered(PingPeriod, WriteWait, DrainWork, 0, WriteWait * w + n, t)
<1>1. /\ w \in Nat /\ n \in Nat /\ t \in Nat /\ PingPeriod - 1 \in Nat
      /\ w <= SendCap + 1 /\ n <= WriteWait /\ t <= PingPeriod - 1
      /\ PingPeriod \in Nat /\ WriteWait \in Nat /\ SendCap \in Nat
  BY PeriodBounds, TimeAssumption, ConnAssumption
<1> QED
  BY <1>1, DrainStarts DEF DrainWork

\* The clock of a write is reset when the write ends.
LEMMA SpentSteps ==
    ASSUME HbInv, [Next]_vars, NEW c \in Conns, busy'[c] = "no"
    PROVE  spent'[c] = 0
<1>0. HbTypeOK /\ (busy[c] = "no" => spent[c] = 0)
  BY DEF HbInv, DrainBounded
<1>1. ASSUME NEW e \in Conns, \/ TakeMessage(e) \/ TakeTick(e) \/ CloseFrame(e)
                             \/ Written(e) \/ WriteFails(e) \/ Pong(e)
      PROVE  spent'[c] = 0
  BY <1>0, <1>1 DEF TakeMessage, TakeTick, CloseFrame, Written, WriteFails, Pong,
     PongComes, StartWrite, EndWrite, HbTypeOK
<1>2. CASE Tick
  BY <1>0, <1>2 DEF Tick
<1>3. CASE UNCHANGED clocks
  BY <1>0, <1>3 DEF clocks
<1> QED
  BY <1>1, <1>2, <1>3 DEF Next, TableStep, vars

\* The drain of a closed channel, and what bounds it, in every step.
LEMMA NextDrain ==
    ASSUME HbInv, [Next]_vars, HbTypeOK', ConnTypeOK'
    PROVE  DrainBounded' /\ DrainIsBrief'
<1>0. HbTypeOK /\ ConnTypeOK
  BY DEF HbInv, ConnInv
<1> SUFFICES ASSUME NEW c \in Conns
             PROVE  DrainBounded!(c)' /\ DrainInTime(draining'[c])
  BY DEF DrainBounded, DrainIsBrief
<1>1. /\ draining'[c] \in Nat /\ tick'[c] \in 0..(PingPeriod - 1)
      /\ Waiting(c)' \in 0..(SendCap + 1) /\ UnderWay(c)' \in 0..WriteWait
      /\ Work(c)' \in Nat
  <2>1. WorksOK'
    BY WorkTypes, PTL
  <2> QED
    BY <2>1 DEF WorksOK
<1>2. /\ draining[c] \in Nat /\ tick[c] \in 0..(PingPeriod - 1) /\ Work(c) \in Nat
      /\ DrainInTime(draining[c]) /\ DrainBounded!(c)
  BY <1>0, WorkTypes DEF HbInv, DrainBounded, DrainIsBrief, WorksOK
<1>3. sendClosed[c] => sendClosed'[c]
  BY <1>0, HbMovesConns
     DEF HbInv, ConnInv, ConnNext, Register, LeaveBegin, LeaveEnd, UnregisterBegin, CloseEntry,
         RevokeBegin, RevokeEnd, WriterTakes, WriterEnds, WriterFails, ReadFails,
         Enqueue, connVars, ConnTypeOK
<1>4. ~sendClosed[c] => draining'[c] = 0
  <2>1. CASE Tick
    BY <1>2, <2>1 DEF Tick
  <2>2. CASE ~Tick
    BY <1>2, <2>2, DrainSteps
  <2> QED
    BY <2>1, <2>2
<1> DEFINE Bounded == Covered(PingPeriod, WriteWait, DrainWork,
                              draining'[c], Work(c)', tick'[c])
<1>5. writer'[c] = "running" => Bounded
  <2> SUFFICES ASSUME writer'[c] = "running" PROVE Bounded
    OBVIOUS
  <2>1. CASE draining'[c] = 0
    <3>1. Work(c)' = WriteWait * Waiting(c)' + UnderWay(c)'
      BY DEF Work
    <3> QED
      BY <1>1, <2>1, <3>1, DrainBegins
  <2>2. CASE Tick /\ draining'[c] # 0
    <3>1. sendClosed[c] /\ writer[c] = "running"
      BY <1>4, <2>2 DEF Tick, connVars
    <3> QED
      BY <2>2, <3>1, DrainTick
  <2>3. CASE ~Tick /\ draining'[c] # 0
    <3>1. /\ draining'[c] = draining[c] /\ tick'[c] = tick[c]
          /\ writer[c] = "running" /\ Work(c)' <= Work(c)
      BY <2>3, DrainSteps
    <3>2. /\ Covered(PingPeriod, WriteWait, DrainWork, draining[c], Work(c), tick[c])
          /\ tick[c] \in Nat
      BY <1>2, <3>1 DEF Covered
    <3> QED
      BY <1>1, <1>2, <3>1, <3>2, DrainLess, DrainBounds
  <2> QED
    BY <2>1, <2>2, <2>3
<1>6. DrainInTime(draining'[c])
  <2>1. CASE writer'[c] = "running"
    <3>1. Bounded /\ tick'[c] \in Nat
      BY <1>1, <1>5, <2>1
    <3> QED
      BY <1>1, <3>1, DrainEnds, DrainBounds DEF DrainInTime
  <2>2. CASE writer'[c] # "running"
    <3>1. draining'[c] \in {0, draining[c]}
      <4>1. CASE Tick
        BY <2>2, <4>1 DEF Tick, connVars
      <4>2. CASE ~Tick
        BY <4>2, DrainSteps
      <4> QED
        BY <4>1, <4>2
    <3> QED
      BY <1>2, <3>1, DrainBounds DEF DrainInTime
  <2> QED
    BY <2>1, <2>2
<1> QED
  BY <1>3, <1>4, <1>5, <1>6, SpentSteps DEF Covered

LEMMA NextHbInv == ASSUME HbInv, [Next]_vars PROVE HbInv'
<1>1. ConnInv'
  BY HbMovesConns, NextConnInv DEF HbInv, ConnInv
<1>2. ClocksOK'
  BY TableClocks, RegisterClocks, WriterClocks, StopClocks, PongClocks, TickClocks
     DEF Next
<1>3. DrainBounded' /\ DrainIsBrief'
  BY <1>1, <1>2, NextDrain DEF ConnInv, ClocksOK
<1> QED
  BY <1>1, <1>2, <1>3 DEF HbInv, ClocksOK

-----------------------------------------------------------------------------
\* The clocks agree with one another in every reachable state.
THEOREM HbInvariant == Spec => []HbInv
<1>1. Init => HbInv
  BY InitHbInv
<1>2. HbInv /\ [Next]_vars => HbInv'
  BY NextHbInv
<1> QED
  BY <1>1, <1>2, PTL DEF Spec

\* A peer that answers pings within Lag is timed out only after a ping waited
\* for the writer longer than Hold, if PingPeriod, Hold and Lag together are below
\* PongWait.
THEOREM PromptStays == Spec => []PromptPeerStays
<1>1. HbInv => PromptPeerStays
  <2> SUFFICES ASSUME HbInv, NEW c \in Conns, ~held[c],
                      peer[c] = "prompt", handler[c] = "reading", writer[c] = "running"
               PROVE  ~(quiet[c] >= PongWait)
    BY DEF PromptPeerStays
  <2>1. /\ tick[c] \in 0..(PingPeriod - 1) /\ quiet[c] \in 0..PongWait
        /\ since[c] \in 0..Lag /\ owed[c] \in Nat /\ PongsFollowTicks!(c)
    BY PeriodBounds DEF HbInv, HbTypeOK, PongsFollowTicks
  <2>2. Outstanding(c) => tick[c] <= Hold + Lag
    BY <2>1, PeriodBounds DEF Outstanding
  <2> QED
    BY <2>1, <2>2, PeriodBounds
<1> QED
  BY <1>1, HbInvariant, PTL

\* A socket that nobody writes to any more is read until its deadline and one
\* PongWait for each ping that is out, by a peer that pongs only in answer to
\* pings.
THEOREM ZombieBrief == Spec => []ZombieIsBrief
<1>1. HbInv => ZombieIsBrief
  BY DEF HbInv, PongsLeft, ZombieIsBrief
<1> QED
  BY <1>1, HbInvariant, PTL

\* The writer of a socket that was cut off ends within a bound that depends on the
\* timeouts and the length of the queue only, as WriteWait < PingPeriod.
THEOREM DrainBrief == Spec => []DrainIsBrief
<1>1. HbInv => DrainIsBrief
  BY DEF HbInv
<1> QED
  BY <1>1, HbInvariant, PTL

\* The goroutines with their clocks implement the connection table, whose
\* invariants hold here too.
THEOREM HbImplementsConnTable == Spec => ImplementsConnTable
<1>1. Init => ConnInit
  BY DEF Init
<1>2. HbInv /\ [Next]_vars => [ConnNext]_connVars
  BY HbMovesConns DEF HbInv, ConnInv
<1> QED
  BY <1>1, <1>2, HbInvariant, PTL DEF Spec, ImplementsConnTable, ConnSpec
=============================================================================
