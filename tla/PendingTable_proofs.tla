------------------------ MODULE PendingTable_proofs -------------------------
(***************************************************************************)
(* The names of pending requests, and the invariants of PendingTable, for  *)
(* every set of requests, devices and ids.                                 *)
(*                                                                         *)
(* Names keep devices apart as long as no device id contains the           *)
(* separator.  PendingInv is inductive: all actions but two come down to   *)
(* one fact about deleting entries and closing their channels together.    *)
(***************************************************************************)
EXTENDS PendingTable, SequenceTheorems, TLAPS

\* A request is filed under a text that is not empty, whatever its id.
LEMMA RequestIdIsText ==
    ASSUME NEW v, v.text \in Seq(Chars)
    PROVE  RequestId(v) \in Seq(Chars) /\ RequestId(v) # <<>>
<1>1. <<"0">> \in Seq(Chars) /\ <<"0">> # <<>> /\ <<>> \in Seq(Chars)
  BY TextAssumption
<1> QED
  BY <1>1 DEF RequestId, IdToString

\* The length and the elements of a key.
LEMMA KeyElements ==
    ASSUME NEW d \in Seq(Chars), NEW i \in Seq(Chars)
    PROVE  /\ KeyOf(d, i) \in Seq(Chars)
           /\ Len(KeyOf(d, i)) = Len(d) + 1 + Len(i)
           /\ \A n \in 1..Len(d) : KeyOf(d, i)[n] = d[n]
           /\ KeyOf(d, i)[Len(d) + 1] = Bar
           /\ \A n \in 1..Len(i) : KeyOf(d, i)[Len(d) + 1 + n] = i[n]
<1> DEFINE p == d \o <<Bar>>
<1>1. Bar \in Chars
  BY TextAssumption
<1>2. /\ <<Bar>> \in Seq(Chars)
      /\ Len(<<Bar>>) = 1
      /\ <<Bar>>[1] = Bar
  BY <1>1
<1>3. /\ p \in Seq(Chars)
      /\ Len(p) = Len(d) + 1
      /\ \A n \in 1..Len(d) : p[n] = d[n]
      /\ p[Len(d) + 1] = Bar
  BY <1>2, ConcatProperties
<1>4. /\ p \o i \in Seq(Chars)
      /\ Len(p \o i) = Len(p) + Len(i)
      /\ \A n \in 1..Len(p) + Len(i) :
            (p \o i)[n] = IF n <= Len(p) THEN p[n] ELSE i[n - Len(p)]
  BY <1>3, ConcatProperties
<1>5. Len(d) \in Nat /\ Len(i) \in Nat
  OBVIOUS
<1> HIDE DEF p
<1>6. KeyOf(d, i) = p \o i
  BY DEF KeyOf, p
<1>7. /\ \A n \in 1..Len(d) : KeyOf(d, i)[n] = d[n]
      /\ KeyOf(d, i)[Len(d) + 1] = Bar
  BY <1>3, <1>4, <1>5, <1>6
<1>8. ASSUME NEW n \in 1..Len(i)
      PROVE  KeyOf(d, i)[Len(d) + 1 + n] = i[n]
  <2>1. Len(d) + 1 + n \in 1..Len(p) + Len(i)
    BY <1>3, <1>5
  <2>2. ~(Len(d) + 1 + n <= Len(p)) /\ Len(d) + 1 + n - Len(p) = n
    BY <1>3, <1>5
  <2> QED
    BY <2>1, <2>2, <1>4, <1>6
<1> QED
  BY <1>3, <1>4, <1>5, <1>6, <1>7, <1>8

\* Two texts without a separator, of which one begins where the other ends
\* with a separator, are the same.
LEMMA SameDevice ==
    ASSUME NEW d \in Seq(Chars), NEW e \in Seq(Chars), BarFree(d), BarFree(e),
           NEW i \in Seq(Chars), NEW j \in Seq(Chars), KeyOf(d, i) = KeyOf(e, j)
    PROVE  d = e
<1>1. Len(d) \in Nat /\ Len(e) \in Nat
  OBVIOUS
<1> DEFINE k == KeyOf(d, i)
<1>2. /\ \A n \in 1..Len(d) : k[n] = d[n]
      /\ k[Len(d) + 1] = Bar
  BY KeyElements
<1>3. /\ \A n \in 1..Len(e) : k[n] = e[n]
      /\ k[Len(e) + 1] = Bar
  <2>1. /\ \A n \in 1..Len(e) : KeyOf(e, j)[n] = e[n]
        /\ KeyOf(e, j)[Len(e) + 1] = Bar
    BY KeyElements
  <2> QED
    BY <2>1
<1> HIDE DEF k
<1>4. ASSUME Len(d) < Len(e) PROVE FALSE
  <2>1. Len(d) + 1 \in 1..Len(e)
    BY <1>1, <1>4
  <2> QED
    BY <2>1, <1>2, <1>3 DEF BarFree
<1>5. ASSUME Len(e) < Len(d) PROVE FALSE
  <2>1. Len(e) + 1 \in 1..Len(d)
    BY <1>1, <1>5
  <2> QED
    BY <2>1, <1>2, <1>3 DEF BarFree
<1>6. Len(d) = Len(e)
  BY <1>1, <1>4, <1>5
<1>7. \A n \in 1..Len(d) : d[n] = e[n]
  BY <1>2, <1>3, <1>6
<1> QED
  BY <1>6, <1>7, SeqEqual

\* Unregister finds every key of its own device.
THEOREM KeyIsOwned ==
    ASSUME NEW d \in Seq(Chars), NEW i \in Seq(Chars)
    PROVE  OwnedBy(KeyOf(d, i), d)
<1> DEFINE k == KeyOf(d, i)
<1>1. /\ k \in Seq(Chars)
      /\ Len(k) = Len(d) + 1 + Len(i)
      /\ \A n \in 1..Len(d) : k[n] = d[n]
      /\ k[Len(d) + 1] = Bar
  BY KeyElements
<1>2. Len(d) \in Nat /\ Len(i) \in Nat
  OBVIOUS
<1> HIDE DEF k
<1>3. Len(k) > Len(d)
  BY <1>1, <1>2
<1>4. /\ SubSeq(k, 1, Len(d)) \in Seq(Chars)
      /\ Len(SubSeq(k, 1, Len(d))) = Len(d)
      /\ \A n \in 1..Len(d) : SubSeq(k, 1, Len(d))[n] = k[n]
  BY <1>1, <1>2, <1>3, SubSeqProperties
<1>5. SubSeq(k, 1, Len(d)) = d
  BY <1>1, <1>4, SeqEqual
<1>6. OwnedBy(k, d)
  BY <1>1, <1>3, <1>5 DEF OwnedBy
<1> QED
  BY <1>6 DEF k

\* Unregister finds only keys of its own device, if device ids are free of the
\* separator.
THEOREM OwnedIsOwn ==
    ASSUME NEW d \in Seq(Chars), NEW e \in Seq(Chars), BarFree(d), BarFree(e),
           NEW i \in Seq(Chars), OwnedBy(KeyOf(d, i), e)
    PROVE  d = e
<1> DEFINE k == KeyOf(d, i)
<1>1. /\ k \in Seq(Chars)
      /\ Len(k) = Len(d) + 1 + Len(i)
      /\ \A n \in 1..Len(d) : k[n] = d[n]
      /\ k[Len(d) + 1] = Bar
  BY KeyElements
<1>2. Len(d) \in Nat /\ Len(e) \in Nat /\ Len(i) \in Nat
  OBVIOUS
<1> HIDE DEF k
<1>3. OwnedBy(k, e)
  BY DEF k
<1>4. Len(k) > Len(e) /\ SubSeq(k, 1, Len(e)) = e /\ k[Len(e) + 1] = Bar
  BY <1>3 DEF OwnedBy
<1>5. \A n \in 1..Len(e) : e[n] = k[n]
  BY <1>1, <1>2, <1>4, SubSeqProperties
<1>6. ASSUME Len(d) < Len(e) PROVE FALSE
  <2>1. Len(d) + 1 \in 1..Len(e)
    BY <1>2, <1>6
  <2> QED
    BY <2>1, <1>1, <1>5 DEF BarFree
<1>7. ASSUME Len(e) < Len(d) PROVE FALSE
  <2>1. Len(e) + 1 \in 1..Len(d)
    BY <1>2, <1>7
  <2> QED
    BY <2>1, <1>1, <1>4 DEF BarFree
<1>8. Len(d) = Len(e)
  BY <1>2, <1>6, <1>7
<1>9. \A n \in 1..Len(d) : d[n] = e[n]
  BY <1>1, <1>5, <1>8
<1> QED
  BY <1>8, <1>9, SeqEqual

\* The name of a request determines its device and its rpc id, if device ids
\* are free of the separator: no two devices share an entry of the table.
THEOREM KeyInjective ==
    ASSUME NEW d \in Seq(Chars), NEW e \in Seq(Chars), BarFree(d), BarFree(e),
           NEW i \in Seq(Chars), NEW j \in Seq(Chars), KeyOf(d, i) = KeyOf(e, j)
    PROVE  d = e /\ i = j
<1>1. d = e
  BY SameDevice
<1>2. Len(d) \in Nat /\ Len(i) \in Nat /\ Len(j) \in Nat
  OBVIOUS
<1> DEFINE k == KeyOf(d, i)
<1>3. /\ Len(k) = Len(d) + 1 + Len(i)
      /\ \A n \in 1..Len(i) : k[Len(d) + 1 + n] = i[n]
  BY KeyElements
<1>4. /\ Len(k) = Len(d) + 1 + Len(j)
      /\ \A n \in 1..Len(j) : k[Len(d) + 1 + n] = j[n]
  <2>1. /\ Len(KeyOf(e, j)) = Len(e) + 1 + Len(j)
        /\ \A n \in 1..Len(j) : KeyOf(e, j)[Len(e) + 1 + n] = j[n]
    BY KeyElements
  <2> QED
    BY <1>1, <2>1
<1> HIDE DEF k
<1>5. Len(i) = Len(j)
  BY <1>2, <1>3, <1>4
<1>6. \A n \in 1..Len(i) : i[n] = j[n]
  BY <1>3, <1>4, <1>5
<1> QED
  BY <1>1, <1>5, <1>6, SeqEqual

-----------------------------------------------------------------------------

\* Every request's key is one the table can hold.
LEMMA KeyInKeys ==
    ASSUME PendingTypeOK, NEW r \in Reqs
    PROVE  Key(r) \in Keys
<1>1. ask[r].dev \in Devices /\ ask[r].id \in Ids
  BY DEF PendingTypeOK
<1>2. RequestId(ask[r].id) \in Texts
  BY <1>1 DEF RequestId, Texts
<1> QED
  BY <1>1, <1>2 DEF Key, Keys

\* The key of a request never changes.
LEMMA KeyFixed ==
    ASSUME UNCHANGED ask, NEW r \in Reqs
    PROVE  Key(r)' = Key(r)
BY DEF Key

LEMMA InitPendingInv == ASSUME PendingInit PROVE PendingInv
<1>1. PendingTypeOK
  BY DEF PendingInit, PendingTypeOK
<1> QED
  BY <1>1 DEF PendingInit, PendingInv, PendingIsOpen, OpenIsPendingAndTimed

\* Deleting the entries of K, closing their channels and stopping their timers
\* keeps the two tables in step.  The timer of a request that is not open any
\* more may do what it likes.
LEMMA DropPendingInv ==
    ASSUME PendingInv, NEW K \in SUBSET Keys, Drop(K), UNCHANGED ask,
           val' \in [Reqs -> Reqs \cup {NoReq}],
           timer' \in [Reqs -> {"off", "armed", "fired", "stopped", "done"}],
           \A r \in Reqs : r \in Filed(K) \/ chan[r] # "open" \/ timer'[r] = timer[r]
    PROVE  PendingInv'
<1>1. PendingTypeOK'
  BY DEF PendingInv, PendingTypeOK, Drop, Keys, Texts
<1>2. \A r \in Reqs : chan'[r] = IF r \in Filed(K) THEN "closed" ELSE chan[r]
  BY DEF Drop
<1>3. \A k \in Keys : pending'[k] = IF k \in K THEN NoReq ELSE pending[k]
  BY DEF Drop, Keys, Texts
<1>4. PendingIsOpen'
  <2> SUFFICES ASSUME NEW k \in Keys, pending'[k] # NoReq
               PROVE  Key(pending[k])' = k /\ chan'[pending'[k]] = "open"
    BY DEF PendingIsOpen, Keys, Texts
  <2>1. k \notin K /\ pending'[k] = pending[k] /\ pending[k] \in Reqs
    BY <1>3 DEF PendingInv, PendingTypeOK
  <2>2. Key(pending[k]) = k /\ chan[pending[k]] = "open"
    BY <2>1, <1>3 DEF PendingInv, PendingIsOpen
  <2>3. pending[k] \notin Filed(K)
    BY <2>1, <2>2, PendingAssumption DEF Filed, PendingInv, PendingIsOpen
  <2> QED
    BY <2>1, <2>2, <2>3, <1>2 DEF Key
<1>5. OpenIsPendingAndTimed'
  <2> SUFFICES ASSUME NEW r \in Reqs, chan'[r] = "open"
               PROVE  pending'[Key(r)'] = r /\ timer'[r] \in {"armed", "fired"}
    BY DEF OpenIsPendingAndTimed
  <2>1. r \notin Filed(K) /\ chan[r] = "open"
    BY <1>2
  <2>2. Key(r)' = Key(r) /\ Key(r) \in Keys
    BY KeyFixed, KeyInKeys DEF PendingInv
  <2>3. pending[Key(r)] = r /\ timer[r] \in {"armed", "fired"}
    BY <2>1 DEF PendingInv, OpenIsPendingAndTimed
  <2>4. Key(r) \notin K
    BY <2>1, <2>3 DEF Filed
  <2> QED
    BY <2>1, <2>2, <2>3, <2>4, <1>3
<1> QED
  BY <1>1, <1>4, <1>5 DEF PendingInv

\* Stop leaves every timer a timer, and touches only those under K.
LEMMA StoppedType ==
    ASSUME PendingTypeOK, NEW K
    PROVE  /\ Stopped(K) \in [Reqs -> {"off", "armed", "fired", "stopped", "done"}]
           /\ \A r \in Reqs : r \in Filed(K) \/ Stopped(K)[r] = timer[r]
BY DEF PendingTypeOK, Stopped

-----------------------------------------------------------------------------
LEMMA InsertPendingInv ==
    ASSUME PendingInv, NEW r \in Reqs, Insert(r)
    PROVE  PendingInv'
<1>1. Key(r) \in Keys
  BY KeyInKeys DEF PendingInv
<1>2. \A q \in Reqs : Key(q)' = Key(q)
  BY KeyFixed DEF Insert
<1>3. PendingTypeOK'
  BY <1>1 DEF PendingInv, PendingTypeOK, Insert, Keys, Texts
<1>4. /\ \A k \in Keys : pending'[k] = IF k = Key(r) THEN r ELSE pending[k]
      /\ \A q \in Reqs : chan'[q] = IF q = r THEN "open" ELSE chan[q]
      /\ \A q \in Reqs : timer'[q] = IF q = r THEN "armed" ELSE timer[q]
  BY <1>1 DEF PendingInv, PendingTypeOK, Insert
<1>5. PendingIsOpen'
  <2> SUFFICES ASSUME NEW k \in Keys, pending'[k] # NoReq
               PROVE  Key(pending[k])' = k /\ chan'[pending'[k]] = "open"
    BY DEF PendingIsOpen, Keys, Texts
  <2> USE DEF Insert
  <2>1. CASE k = Key(r)
    BY <2>1, <1>4 DEF Key
  <2>2. CASE k # Key(r)
    <3>1. pending'[k] = pending[k] /\ pending[k] \in Reqs
      BY <2>2, <1>4 DEF PendingInv, PendingTypeOK
    <3>2. Key(pending[k]) = k /\ chan[pending[k]] = "open"
      BY <3>1 DEF PendingInv, PendingIsOpen
    <3> QED
      BY <3>1, <3>2, <1>4 DEF Key
  <2> QED
    BY <2>1, <2>2
<1>6. OpenIsPendingAndTimed'
  <2> SUFFICES ASSUME NEW q \in Reqs, chan'[q] = "open"
               PROVE  pending'[Key(q)'] = q /\ timer'[q] \in {"armed", "fired"}
    BY DEF OpenIsPendingAndTimed
  <2>1. CASE q = r
    BY <2>1, <1>1, <1>2, <1>4
  <2>2. CASE q # r
    <3>1. chan[q] = "open"
      BY <2>2, <1>4
    <3>2. pending[Key(q)] = q /\ timer[q] \in {"armed", "fired"}
      BY <3>1 DEF PendingInv, OpenIsPendingAndTimed
    <3>3. Key(q) # Key(r)
      BY <3>2, PendingAssumption DEF Insert
    <3>4. Key(q) \in Keys
      BY KeyInKeys DEF PendingInv
    <3> QED
      BY <2>2, <3>2, <3>3, <3>4, <1>2, <1>4
  <2> QED
    BY <2>1, <2>2
<1> QED
  BY <1>3, <1>5, <1>6 DEF PendingInv

LEMMA CleanupPendingInv ==
    ASSUME PendingInv, NEW r \in Reqs, Cleanup(r)
    PROVE  PendingInv'
<1>1. {Key(r)} \in SUBSET Keys
  BY KeyInKeys DEF PendingInv
<1>2. val' \in [Reqs -> Reqs \cup {NoReq}]
  BY DEF PendingInv, PendingTypeOK, Cleanup
<1> QED
  BY <1>1, <1>2, StoppedType, DropPendingInv DEF PendingInv, Cleanup

LEMMA TimerFiresPendingInv ==
    ASSUME PendingInv, NEW r \in Reqs, TimerFires(r)
    PROVE  PendingInv'
<1>1. PendingTypeOK'
  BY DEF PendingInv, PendingTypeOK, TimerFires, Keys, Texts
<1>2. \A q \in Reqs : Key(q)' = Key(q)
  BY KeyFixed DEF TimerFires
<1>3. PendingIsOpen'
  <2> SUFFICES ASSUME NEW k \in Keys, pending[k] # NoReq
               PROVE  Key(pending[k])' = k /\ chan[pending[k]] = "open"
    BY DEF PendingIsOpen, Keys, Texts, TimerFires
  <2> QED
    BY DEF PendingInv, PendingIsOpen, Key, TimerFires
<1>4. OpenIsPendingAndTimed'
  BY <1>2 DEF PendingInv, PendingTypeOK, OpenIsPendingAndTimed, TimerFires
<1> QED
  BY <1>1, <1>3, <1>4 DEF PendingInv

\* The callback may find another request's entry under its key, but the request
\* whose timer it is does not stay open.
LEMMA TimerCallbackPendingInv ==
    ASSUME PendingInv, NEW r \in Reqs, TimerCallback(r)
    PROVE  PendingInv'
<1> DEFINE K == {Key(r)}
<1>1. K \in SUBSET Keys
  BY KeyInKeys DEF PendingInv
<1>2. val' \in [Reqs -> Reqs \cup {NoReq}]
  BY DEF PendingInv, PendingTypeOK, TimerCallback
<1>3. /\ Stopped(K) \in [Reqs -> {"off", "armed", "fired", "stopped", "done"}]
      /\ \A q \in Reqs : q \in Filed(K) \/ Stopped(K)[q] = timer[q]
  BY StoppedType DEF PendingInv
<1>4. /\ timer' \in [Reqs -> {"off", "armed", "fired", "stopped", "done"}]
      /\ \A q \in Reqs : q # r => timer'[q] = Stopped(K)[q]
  BY <1>3 DEF TimerCallback
<1>5. r \in Filed(K) \/ chan[r] # "open"
  BY DEF PendingInv, OpenIsPendingAndTimed, Filed
<1>6. Drop(K) /\ UNCHANGED ask
  BY DEF TimerCallback
<1>7. \A q \in Reqs : q \in Filed(K) \/ chan[q] # "open" \/ timer'[q] = timer[q]
  BY <1>3, <1>4, <1>5
<1> HIDE DEF K
<1> QED
  BY <1>1, <1>2, <1>4, <1>6, <1>7, DropPendingInv

LEMMA DeliverPendingInv ==
    ASSUME PendingInv, NEW k \in Keys, NEW a \in Reqs, Deliver(k, a)
    PROVE  PendingInv'
<1>1. val' \in [Reqs -> Reqs \cup {NoReq}]
  BY DEF PendingInv, PendingTypeOK, Deliver
<1> QED
  BY <1>1, StoppedType, DropPendingInv DEF PendingInv, Deliver

LEMMA CancelOwnedPendingInv ==
    ASSUME PendingInv, NEW d \in Devices, CancelOwned(d)
    PROVE  PendingInv'
<1> DEFINE K == {k \in Keys : OwnedBy(k, d)}
<1>1. Drop(K) /\ timer' = Stopped(K) /\ UNCHANGED <<ask, val>>
  BY DEF CancelOwned
<1>2. K \in SUBSET Keys
  OBVIOUS
<1> HIDE DEF K
<1>3. val' \in [Reqs -> Reqs \cup {NoReq}]
  BY <1>1 DEF PendingInv, PendingTypeOK
<1> QED
  BY <1>1, <1>2, <1>3, StoppedType, DropPendingInv DEF PendingInv

LEMMA UnchangedPendingInv ==
    ASSUME PendingInv, UNCHANGED pendingVars
    PROVE  PendingInv'
<1> USE DEF pendingVars
<1>1. PendingTypeOK'
  BY DEF PendingInv, PendingTypeOK, Keys, Texts
<1>2. PendingIsOpen'
  <2> SUFFICES ASSUME NEW k \in Keys, pending[k] # NoReq
               PROVE  Key(pending[k])' = k /\ chan[pending[k]] = "open"
    BY DEF PendingIsOpen, Keys, Texts
  <2> QED
    BY DEF PendingInv, PendingIsOpen, Key
<1>3. OpenIsPendingAndTimed'
  BY KeyFixed DEF PendingInv, OpenIsPendingAndTimed
<1> QED
  BY <1>1, <1>2, <1>3 DEF PendingInv

\* An answer is looked up under a key the table can hold.
LEMMA AnswerKeyInKeys ==
    ASSUME PendingTypeOK, NEW d \in Devices, NEW a \in Reqs
    PROVE  AnswerKey(d, a) \in Keys
<1>1. ResponseId(ask[a].id) \in Texts
  BY DEF PendingTypeOK, ResponseId, Texts
<1> QED
  BY <1>1 DEF AnswerKey, Keys

-----------------------------------------------------------------------------
\* PendingInv is inductive.
LEMMA NextPendingInv == ASSUME PendingInv, [PendingNext]_pendingVars PROVE PendingInv'
<1>1. ASSUME NEW r \in Reqs, Insert(r) PROVE PendingInv'
  BY <1>1, InsertPendingInv
<1>2. ASSUME NEW r \in Reqs, Cleanup(r) PROVE PendingInv'
  BY <1>2, CleanupPendingInv
<1>3. ASSUME NEW r \in Reqs, TimerFires(r) PROVE PendingInv'
  BY <1>3, TimerFiresPendingInv
<1>4. ASSUME NEW r \in Reqs, TimerCallback(r) PROVE PendingInv'
  BY <1>4, TimerCallbackPendingInv
<1>5. ASSUME NEW d \in Devices, NEW a \in Reqs, Deliver(AnswerKey(d, a), a)
      PROVE  PendingInv'
  <2>1. AnswerKey(d, a) \in Keys
    BY AnswerKeyInKeys DEF PendingInv
  <2> QED
    BY <1>5, <2>1, DeliverPendingInv
<1>6. ASSUME NEW d \in Devices, CancelOwned(d) PROVE PendingInv'
  BY <1>6, CancelOwnedPendingInv
<1>7. ASSUME UNCHANGED pendingVars PROVE PendingInv'
  BY <1>7, UnchangedPendingInv
<1> QED
  BY <1>1, <1>2, <1>3, <1>4, <1>5, <1>6, <1>7 DEF PendingNext

\* The whole of PendingInv holds in every reachable state of the table.
THEOREM PendingInvariant == PendingSpec => []PendingInv
<1>1. PendingInit => PendingInv
  BY InitPendingInv
<1>2. PendingInv /\ [PendingNext]_pendingVars => PendingInv'
  BY NextPendingInv
<1> QED
  BY <1>1, <1>2, PTL DEF PendingSpec

\* No pending channel is closed twice.
THEOREM PendingOpen == PendingSpec => []PendingIsOpen
<1>1. PendingInv => PendingIsOpen
  BY DEF PendingInv
<1> QED
  BY <1>1, PendingInvariant, PTL

\* Nobody waits on a channel that no timer and no lookup reaches.
THEOREM OpenPendingAndTimed == PendingSpec => []OpenIsPendingAndTimed
<1>1. PendingInv => OpenIsPendingAndTimed
  BY DEF PendingInv
<1> QED
  BY <1>1, PendingInvariant, PTL
\* A closed channel stays closed, with what it got: entries are dropped while
\* their channels are open, and an answer goes to a request that is filed.
LEMMA ClosedStays ==
    ASSUME PendingInv, [PendingNext]_pendingVars, NEW r \in Reqs, chan[r] = "closed"
    PROVE  chan'[r] = "closed" /\ val'[r] = val[r]
<1> USE DEF PendingInv, PendingTypeOK
<1>1. ASSUME NEW q \in Reqs, Insert(q)
      PROVE  chan'[r] = "closed" /\ val'[r] = val[r]
  BY <1>1 DEF Insert
<1>2. ASSUME NEW K \in SUBSET Keys, Drop(K)
      PROVE  r \notin Filed(K) /\ chan'[r] = "closed"
  <2>1. r \notin Filed(K)
    BY PendingAssumption DEF Filed, PendingIsOpen
  <2> QED
    BY <1>2, <2>1 DEF Drop
<1>3. ASSUME NEW q \in Reqs, Cleanup(q) \/ TimerCallback(q)
      PROVE  chan'[r] = "closed" /\ val'[r] = val[r]
  <2>1. {Key(q)} \in SUBSET Keys
    BY KeyInKeys
  <2> QED
    BY <1>2, <1>3, <2>1 DEF Cleanup, TimerCallback
<1>4. ASSUME NEW d \in Devices, NEW a \in Reqs, Deliver(AnswerKey(d, a), a)
      PROVE  chan'[r] = "closed" /\ val'[r] = val[r]
  <2>1. {AnswerKey(d, a)} \in SUBSET Keys
    BY AnswerKeyInKeys
  <2> QED
    BY <1>2, <1>4, <2>1 DEF Deliver
<1>5. ASSUME NEW d \in Devices, CancelOwned(d)
      PROVE  chan'[r] = "closed" /\ val'[r] = val[r]
  BY <1>2, <1>5 DEF CancelOwned
<1>6. ASSUME UNCHANGED <<chan, val>>
      PROVE  chan'[r] = "closed" /\ val'[r] = val[r]
  BY <1>6
<1> QED
  BY <1>1, <1>3, <1>4, <1>5, <1>6 DEF PendingNext, TimerFires, pendingVars

\* The outcome of a call never changes once its channel is closed.
THEOREM ClosedFinal == PendingSpec => ClosedIsFinal
<1>1. PendingInv /\ [PendingNext]_pendingVars =>
        [\A r \in Reqs : chan[r] = "closed" =>
            chan'[r] = "closed" /\ val'[r] = val[r]]_pendingVars
  BY ClosedStays
<1> QED
  BY <1>1, PendingInvariant, PTL DEF PendingSpec, ClosedIsFinal
=============================================================================
