-------------------------- MODULE AsyncPump_proofs --------------------------
(* Theorems about AsyncPump, for every value of its constants. *)
EXTENDS AsyncPump, RxQueue_proofs, FiniteSetTheorems

\* The types but for the bounds of the counter.
PumpTypes ==
  /\ QueueTypeOK
  /\ xfer \in [Xfers -> {"unsubmitted", "flight", "done", "freed"}]
  /\ data \in [Xfers -> Seq(Frames)]
  /\ counted \subseteq Xfers
  /\ cb \in Callbacks
  /\ raw \in Seq(Seq(Frames)) /\ Len(raw) <= RawCap
  /\ parser \in [Parsers -> {"none", "lock", "waiting", "upgrade", "push", "notify",
                             "exited"}]
  /\ buf \in [Parsers -> Seq(Frames)]
  /\ events \in {"none", "runs", "exited"}
  /\ device \in BOOLEAN

LEMMA Emptied ==
  ASSUME NEW D, NEW S, NEW f \in [D -> Seq(S)], NEW d
  PROVE  [f EXCEPT ![d] = <<>>] \in [D -> Seq(S)]
  <1>1. <<>> \in Seq(S)
    OBVIOUS
  <1> DEFINE e == <<>>
  <1> HIDE DEF e
  <1>2. e \in Seq(S)
    BY <1>1 DEF e
  <1>3. [f EXCEPT ![d] = e] \in [D -> Seq(S)]
    BY <1>2
  <1> QED
    BY <1>3 DEF e

LEMMA InitTypes == Init => PumpTypes
  <1> SUFFICES ASSUME Init PROVE PumpTypes
    OBVIOUS
  <1>1. QueueTypeOK
    <2>1. pending \in Seq(Frames) /\ waiters \in Seq(Consumers)
      BY DEF Init, QueueInit
    <2> QED
      BY <2>1 DEF Init, QueueInit, QueueTypeOK
  <1>2. raw \in Seq(Seq(Frames)) /\ Len(raw) <= RawCap
    BY AsyncAssumption DEF Init
  <1>3. cb \in Callbacks
    BY DEF Init, NoCb, Callbacks
  <1>4. data \in [Xfers -> Seq(Frames)] /\ buf \in [Parsers -> Seq(Frames)]
    BY DEF Init
  <1> QED
    BY <1>1, <1>2, <1>3, <1>4 DEF Init, PumpTypes

\* A callback that runs has a transfer.
LEMMA CallbackTypes ==
  ASSUME PumpTypes, cb.at \in {"store", "notify", "resubmit", "free"}
  PROVE  /\ cb.t \in Xfers
         /\ \A to \in {"store", "notify", "resubmit", "free"} :
              [cb EXCEPT !.at = to] \in Callbacks
  BY DEF PumpTypes, Callbacks

LEMMA NextTypes == PumpTypes /\ [Next]_vars => PumpTypes'
  <1> SUFFICES ASSUME PumpTypes, [Next]_vars PROVE PumpTypes'
    OBVIOUS
  <1>0. QueueTypeOK
    BY DEF PumpTypes
  <1>1. CASE UNCHANGED vars
    BY <1>1 DEF PumpTypes, QueueTypeOK, vars, queueVars, pumpVars
  <1>2. CASE QueueStep /\ UNCHANGED pumpVars
    BY <1>0, <1>2, QueueStepTypes DEF PumpTypes, pumpVars
  <1>3. CASE DropBackend
    BY <1>3 DEF PumpTypes, QueueTypeOK, DropBackend, DropOwner, pumpVars
  <1>4. CASE Spawn
    BY <1>4 DEF PumpTypes, QueueTypeOK, Spawn
  <1>5. CASE StartEvents
    BY <1>5 DEF PumpTypes, QueueTypeOK, StartEvents, queueVars
  <1>6. ASSUME NEW t \in Xfers, Submit(t) \/ Count(t) PROVE PumpTypes'
    BY <1>6 DEF PumpTypes, QueueTypeOK, Submit, Count, queueVars
  <1>7. CASE Unplug
    BY <1>7 DEF PumpTypes, QueueTypeOK, Unplug, queueVars
  <1>8. ASSUME NEW t \in Xfers, Complete(t) PROVE PumpTypes'
    <2>1. data' \in [Xfers -> Seq(Frames)] /\ air' \subseteq Frames
      <3>1. CASE UNCHANGED <<data, air>>
        BY <3>1 DEF PumpTypes, QueueTypeOK
      <3>2. CASE \E b \in Batches : data' = [data EXCEPT ![t] = b] /\ air' = air \ Range(b)
        <4>1. PICK b \in Batches : data' = [data EXCEPT ![t] = b] /\ air' = air \ Range(b)
          BY <3>2
        <4>2. b \in Seq(Frames)
          BY <1>0, BatchTypes
        <4> QED
          BY <4>1, <4>2 DEF PumpTypes, QueueTypeOK
      <3> QED
        BY <1>8, <3>1, <3>2 DEF Complete
    <2> QED
      BY <1>8, <2>1 DEF PumpTypes, QueueTypeOK, Complete
  <1>9. ASSUME NEW t \in Xfers, CbStarts(t) PROVE PumpTypes'
    <2>1. cb' \in Callbacks
      BY <1>9 DEF CbStarts, Callbacks
    <2> QED
      BY <1>9, <2>1 DEF PumpTypes, QueueTypeOK, CbStarts, queueVars
  <1>10. CASE CbStores
    <2>1. cb.t \in Xfers /\ cb' \in Callbacks
      BY <1>10, CallbackTypes DEF CbStores
    <2>2. raw' \in Seq(Seq(Frames)) /\ Len(raw') <= RawCap
      <3>1. data[cb.t] \in Seq(Frames) /\ RawCap \in Nat
        BY <2>1, AsyncAssumption DEF PumpTypes
      <3>2. CASE Len(raw) < RawCap
        <4>1. raw' = Append(raw, data[cb.t])
          BY <1>10, <3>2 DEF CbStores
        <4>2. raw' \in Seq(Seq(Frames)) /\ Len(raw') = Len(raw) + 1 /\ Len(raw) \in Nat
          BY <3>1, <4>1, Extended DEF PumpTypes
        <4> QED
          BY <3>1, <3>2, <4>2
      <3>3. CASE ~(Len(raw) < RawCap)
        BY <1>10, <3>3 DEF CbStores, PumpTypes
      <3> QED
        BY <3>2, <3>3
    <2>3. data' \in [Xfers -> Seq(Frames)]
      <3>1. data \in [Xfers -> Seq(Frames)] /\ data' = [data EXCEPT ![cb.t] = <<>>]
        BY <1>10 DEF CbStores, PumpTypes
      <3> QED
        BY ONLY <3>1, Emptied
    <2> QED
      BY <1>10, <2>1, <2>2, <2>3 DEF PumpTypes, QueueTypeOK, CbStores, queueVars
  <1>11. CASE CbNotifies
    <2>1. cb' \in Callbacks
      BY <1>11, CallbackTypes DEF CbNotifies
    <2> QED
      BY <1>11, <2>1 DEF PumpTypes, QueueTypeOK, CbNotifies, queueVars
  <1>12. CASE CbResubmits
    <2>1. cb.t \in Xfers /\ cb' \in Callbacks
      BY <1>12, CallbackTypes DEF CbResubmits, NoCb, Callbacks
    <2> QED
      BY <1>12, <2>1 DEF PumpTypes, QueueTypeOK, CbResubmits, queueVars
  <1>13. CASE CbFrees
    <2>1. cb.t \in Xfers /\ cb' \in Callbacks
      BY <1>13, CallbackTypes DEF CbFrees, NoCb, Callbacks
    <2>2. data' \in [Xfers -> Seq(Frames)]
      <3>1. data \in [Xfers -> Seq(Frames)] /\ data' = [data EXCEPT ![cb.t] = <<>>]
        BY <1>13 DEF CbFrees, PumpTypes
      <3> QED
        BY ONLY <3>1, Emptied
    <2> QED
      BY <1>13, <2>1, <2>2 DEF PumpTypes, QueueTypeOK, CbFrees, queueVars
  <1>14. CASE EventsEnd
    BY <1>14 DEF PumpTypes, QueueTypeOK, EventsEnd, queueVars
  <1>15. ASSUME NEW p \in Parsers, ParserStep(p) PROVE PumpTypes'
    <2>1. CASE Take(p)
      <3>1. CASE raw = <<>>
        BY <2>1, <3>1 DEF PumpTypes, QueueTypeOK, Take, queueVars
      <3>2. CASE raw # <<>>
        <4>1. /\ Head(raw) \in Seq(Frames) /\ Tail(raw) \in Seq(Seq(Frames))
              /\ Len(Tail(raw)) = Len(raw) - 1 /\ Len(raw) \in Nat
          BY <3>2, HeadTail DEF PumpTypes
        <4>2. raw' = Tail(raw) /\ Len(raw') <= RawCap /\ buf' \in [Parsers -> Seq(Frames)]
          <5>1. raw' = Tail(raw) /\ buf' = [buf EXCEPT ![p] = Head(raw)]
            BY <2>1, <3>2 DEF Take
          <5>2. Len(raw') <= RawCap
            BY <4>1, <5>1, AsyncAssumption DEF PumpTypes
          <5>3. buf' \in [Parsers -> Seq(Frames)]
            BY <4>1, <5>1 DEF PumpTypes
          <5> QED
            BY <5>1, <5>2, <5>3
        <4> QED
          BY <2>1, <3>2, <4>1, <4>2 DEF PumpTypes, QueueTypeOK, Take, queueVars
      <3> QED
        BY <3>1, <3>2
    <2>2. CASE Upgrade(p)
      <3>1. buf' \in [Parsers -> Seq(Frames)]
        <4>1. /\ buf \in [Parsers -> Seq(Frames)]
              /\ buf' = buf \/ buf' = [buf EXCEPT ![p] = <<>>]
          BY <2>2 DEF PumpTypes, Upgrade
        <4>2. CASE buf' = buf
          BY <4>1, <4>2
        <4>3. CASE buf' = [buf EXCEPT ![p] = <<>>]
          BY ONLY <4>1, <4>3, Emptied
        <4> QED
          BY <4>1, <4>2, <4>3
      <3> QED
        BY <2>2, <3>1 DEF PumpTypes, QueueTypeOK, Upgrade, queueVars
    <2>3. CASE Push(p)
      <3>1. buf[p] \in Seq(Frames) /\ pending \in Seq(Frames)
        BY DEF PumpTypes, QueueTypeOK
      <3>2. pending' \in Seq(Frames)
        BY <2>3, <3>1, Concatenated DEF Push, Enqueue
      <3>3. buf' \in [Parsers -> Seq(Frames)]
        BY <2>3 DEF PumpTypes, Push
      <3> QED
        BY <2>3, <3>2, <3>3 DEF PumpTypes, QueueTypeOK, Push
    <2>4. CASE Notify(p)
      <3>1. QueueTypeOK'
        BY <1>0, <2>4, NotifyOneTypes DEF Notify
      <3> QED
        BY <2>4, <3>1 DEF PumpTypes, Notify
    <2> QED
      BY <1>15, <2>1, <2>2, <2>3, <2>4 DEF ParserStep
  <1> QED
    BY <1>1, <1>2, <1>3, <1>4, <1>5, <1>6, <1>7, <1>8, <1>9, <1>10, <1>11, <1>12, <1>13,
       <1>14, <1>15 DEF Next, SpawnStep, EventStep
----------------------------------------------------------------------------
(* The counter of the event thread.                                         *)

\* Transfers submitted that the spawning thread has not added to the counter.
Uncounted == {t \in Xfers : xfer[t] # "unsubmitted" /\ t \notin counted}

\* The counter lags behind the transfers by those; once the event thread runs
\* there are none.  A callback holds its transfer.
Counts ==
  /\ inflight = Cardinality(Submitted) - Cardinality(Uncounted)
  /\ \A t \in counted : xfer[t] # "unsubmitted"
  /\ cb.at \in {"store", "notify", "resubmit", "free"} => xfer[cb.t] = "done"
  /\ events # "none" => counted = Xfers
  /\ events = "exited" => Submitted = {}

LEMMA FiniteCounts ==
  /\ IsFiniteSet(Submitted) /\ Cardinality(Submitted) \in 0 .. Cardinality(Xfers)
  /\ IsFiniteSet(Uncounted) /\ Cardinality(Uncounted) \in 0 .. Cardinality(Xfers)
  /\ Cardinality(Xfers) \in Nat
  <1>1. Submitted \in SUBSET Xfers /\ Uncounted \in SUBSET Xfers
    BY DEF Submitted, Uncounted
  <1>2. IsFiniteSet(Xfers)
    BY AsyncAssumption
  <1>3. IsFiniteSet(Submitted) /\ Cardinality(Submitted) <= Cardinality(Xfers)
    BY <1>1, <1>2, FS_Subset
  <1>4. IsFiniteSet(Uncounted) /\ Cardinality(Uncounted) <= Cardinality(Xfers)
    BY <1>1, <1>2, FS_Subset
  <1>5. /\ Cardinality(Submitted) \in Nat /\ Cardinality(Uncounted) \in Nat
        /\ Cardinality(Xfers) \in Nat
    BY <1>2, <1>3, <1>4, FS_CardinalityType
  <1> QED
    BY <1>3, <1>4, <1>5

LEMMA InitCounts == Init => Counts
  <1> SUFFICES ASSUME Init PROVE Counts
    OBVIOUS
  <1>1. Submitted = {} /\ Uncounted = {} /\ inflight = 0
    BY DEF Init, Submitted, Uncounted
  <1>2. inflight = Cardinality(Submitted) - Cardinality(Uncounted)
    BY <1>1, FS_EmptySet
  <1> QED
    BY <1>2 DEF Init, Counts, NoCb

\* A step that neither submits, counts nor frees.
LEMMA CountsKept ==
  ASSUME PumpTypes, Counts, UNCHANGED <<inflight, counted>>,
         Submitted' = Submitted, Uncounted' = Uncounted,
         \A t \in Xfers : xfer[t] # "unsubmitted" => xfer'[t] # "unsubmitted",
         cb'.at \in {"store", "notify", "resubmit", "free"} => xfer'[cb'.t] = "done",
         events' # "none" => counted = Xfers,
         events' = "exited" => Submitted = {}
  PROVE  Counts'
  BY DEF PumpTypes, Counts

LEMMA SubmitCounts ==
  ASSUME PumpTypes, Counts, NEW t \in Xfers, Submit(t)
  PROVE  Counts'
  <1>0. /\ xfer[t] = "unsubmitted" /\ inflight' = inflight /\ cb' = cb /\ events' = "none"
        /\ t \notin counted
    BY DEF Submit, Counts
  <1>4. cb'.at \in {"store", "notify", "resubmit", "free"} => cb.t \in Xfers /\ cb.t # t
    BY <1>0, CallbackTypes DEF Counts
  <1>1. CASE xfer' = [xfer EXCEPT ![t] = "flight"] /\ counted' = counted
    <2>1. Submitted' = Submitted \cup {t} /\ t \notin Submitted
      BY <1>0, <1>1 DEF PumpTypes, Submitted
    <2>2. Uncounted' = Uncounted \cup {t} /\ t \notin Uncounted
      BY <1>0, <1>1 DEF PumpTypes, Uncounted
    <2>3. /\ Cardinality(Submitted') = Cardinality(Submitted) + 1
          /\ Cardinality(Uncounted') = Cardinality(Uncounted) + 1
      BY <2>1, <2>2, FiniteCounts, FS_AddElement
    <2>4. inflight' = Cardinality(Submitted') - Cardinality(Uncounted')
      BY <1>0, <2>3, FiniteCounts DEF Counts
    <2>5. \A u \in counted' : xfer'[u] # "unsubmitted"
      BY <1>1 DEF PumpTypes, Counts
    <2> QED
      BY <1>0, <1>1, <1>4, <2>4, <2>5 DEF PumpTypes, Counts
  <1>2. CASE xfer' = [xfer EXCEPT ![t] = "freed"] /\ counted' = counted \cup {t}
    <2>1. Submitted' = Submitted
      BY <1>0, <1>2 DEF PumpTypes, Submitted
    <2>2. Uncounted' = Uncounted
      BY <1>0, <1>2 DEF PumpTypes, Uncounted
    <2>3. \A u \in counted' : xfer'[u] # "unsubmitted"
      BY <1>2 DEF PumpTypes, Counts
    <2> QED
      BY <1>0, <1>2, <1>4, <2>1, <2>2, <2>3 DEF PumpTypes, Counts
  <1> QED
    BY <1>1, <1>2 DEF Submit

LEMMA CountCounts ==
  ASSUME PumpTypes, Counts, NEW t \in Xfers, Count(t)
  PROVE  Counts'
  <1>0. /\ xfer[t] # "unsubmitted" /\ t \notin counted /\ counted' = counted \cup {t}
        /\ inflight' = inflight + 1 /\ UNCHANGED <<xfer, cb, events>>
    BY DEF Count
  <1>1. Submitted' = Submitted
    BY <1>0 DEF Submitted
  <1>2. Uncounted' = Uncounted \ {t} /\ t \in Uncounted
    BY <1>0 DEF Uncounted
  <1>3. Cardinality(Uncounted') = Cardinality(Uncounted) - 1
    BY <1>2, FiniteCounts, FS_RemoveElement
  <1>4. inflight' = Cardinality(Submitted') - Cardinality(Uncounted')
    BY <1>0, <1>1, <1>3, FiniteCounts DEF Counts
  <1> QED
    BY <1>0, <1>1, <1>4 DEF PumpTypes, Counts

LEMMA FreeCounts ==
  ASSUME PumpTypes, Counts, CbFrees
  PROVE  Counts'
  <1> DEFINE t == cb.t
  <1>0. /\ t \in Xfers /\ xfer[t] = "done" /\ xfer' = [xfer EXCEPT ![t] = "freed"]
        /\ inflight' = inflight - 1 /\ cb' = NoCb /\ UNCHANGED <<counted, events>>
    BY CallbackTypes DEF CbFrees, Counts
  <1> HIDE DEF t
  <1>1. Submitted' = Submitted \ {t} /\ t \in Submitted
    BY <1>0 DEF PumpTypes, Submitted
  <1>2. Uncounted' = Uncounted
    BY <1>0 DEF PumpTypes, Uncounted
  <1>3. Cardinality(Submitted') = Cardinality(Submitted) - 1
    BY <1>1, FiniteCounts, FS_RemoveElement
  <1>4. inflight' = Cardinality(Submitted') - Cardinality(Uncounted')
    BY <1>0, <1>2, <1>3, FiniteCounts DEF Counts
  <1>5. \A u \in counted' : xfer'[u] # "unsubmitted"
    BY <1>0 DEF PumpTypes, Counts
  <1> QED
    BY <1>0, <1>1, <1>4, <1>5 DEF Counts, NoCb

LEMMA NextCounts == PumpTypes /\ Counts /\ [Next]_vars => Counts'
  <1> SUFFICES ASSUME PumpTypes, Counts, [Next]_vars PROVE Counts'
    OBVIOUS
  <1>0. ASSUME UNCHANGED <<xfer, inflight, counted, cb, events>> PROVE Counts'
    BY <1>0 DEF Counts, Submitted, Uncounted
  <1>1. CASE UNCHANGED vars \/ (QueueStep /\ UNCHANGED pumpVars) \/ DropBackend
    BY <1>0, <1>1 DEF vars, pumpVars, DropBackend
  <1>2. CASE Spawn \/ Unplug
    BY <1>0, <1>2 DEF Spawn, Unplug
  <1>3. CASE StartEvents
    BY <1>3 DEF StartEvents, Counts, Submitted, Uncounted
  <1>4. ASSUME NEW t \in Xfers, Submit(t) \/ Count(t) PROVE Counts'
    BY <1>4, SubmitCounts, CountCounts
  <1>5. ASSUME NEW t \in Xfers, Complete(t) PROVE Counts'
    <2>1. /\ xfer[t] = "flight" /\ xfer' = [xfer EXCEPT ![t] = "done"]
          /\ UNCHANGED <<inflight, counted, cb, events>>
      BY <1>5 DEF Complete
    <2>2. Submitted' = Submitted /\ Uncounted' = Uncounted
      BY <2>1 DEF PumpTypes, Submitted, Uncounted
    <2>3. cb'.at \in {"store", "notify", "resubmit", "free"} => xfer'[cb'.t] = "done"
      BY <2>1, CallbackTypes DEF PumpTypes, Counts
    <2>4. \A u \in Xfers : xfer[u] # "unsubmitted" => xfer'[u] # "unsubmitted"
      BY <2>1 DEF PumpTypes
    <2> QED
      BY <2>1, <2>2, <2>3, <2>4, CountsKept DEF Counts
  <1>6. ASSUME NEW t \in Xfers, CbStarts(t) PROVE Counts'
    BY <1>6 DEF CbStarts, Counts, Submitted, Uncounted
  <1>7. CASE CbStores \/ CbNotifies
    <2>1. cb'.t = cb.t /\ UNCHANGED <<xfer, inflight, counted, events>>
      BY <1>7 DEF CbStores, CbNotifies, PumpTypes, Callbacks
    <2>2. xfer[cb.t] = "done"
      BY <1>7 DEF CbStores, CbNotifies, Counts
    <2> QED
      BY <2>1, <2>2 DEF Counts, Submitted, Uncounted
  <1>8. CASE CbResubmits
    <2>1. CASE device
      <3>1. /\ cb.t \in Xfers /\ xfer[cb.t] = "done" /\ xfer' = [xfer EXCEPT ![cb.t] = "flight"]
            /\ cb' = NoCb /\ UNCHANGED <<inflight, counted, events>>
        BY <1>8, <2>1, CallbackTypes DEF CbResubmits, Counts
      <3>2. Submitted' = Submitted /\ Uncounted' = Uncounted
        BY <3>1 DEF PumpTypes, Submitted, Uncounted
      <3>3. \A u \in Xfers : xfer[u] # "unsubmitted" => xfer'[u] # "unsubmitted"
        BY <3>1 DEF PumpTypes
      <3> QED
        BY <3>1, <3>2, <3>3, CountsKept DEF Counts, NoCb
    <2>2. CASE ~device
      <3>1. cb'.t = cb.t /\ xfer[cb.t] = "done" /\ UNCHANGED <<xfer, inflight, counted, events>>
        BY <1>8, <2>2 DEF CbResubmits, PumpTypes, Callbacks, Counts
      <3> QED
        BY <3>1 DEF Counts, Submitted, Uncounted
    <2> QED
      BY <2>1, <2>2
  <1>9. CASE CbFrees
    BY <1>9, FreeCounts
  <1>10. CASE EventsEnd
    <2>1. /\ events = "runs" /\ inflight = 0 /\ events' = "exited"
          /\ UNCHANGED <<xfer, inflight, counted, cb>>
      BY <1>10 DEF EventsEnd
    <2>2. Uncounted = {}
      BY <2>1 DEF Counts, Uncounted
    <2>3. Cardinality(Submitted) = 0
      BY <2>1, <2>2, FiniteCounts, FS_EmptySet DEF Counts
    <2>4. Submitted = {}
      BY <2>3, FiniteCounts, FS_EmptySet
    <2> QED
      BY <2>1, <2>4 DEF Counts, Submitted, Uncounted
  <1>11. ASSUME NEW p \in Parsers, ParserStep(p) PROVE Counts'
    BY <1>0, <1>11 DEF ParserStep, Take, Upgrade, Push, Notify
  <1> QED
    BY <1>1, <1>2, <1>3, <1>4, <1>5, <1>6, <1>7, <1>8, <1>9, <1>10, <1>11
       DEF Next, SpawnStep, EventStep

LEMMA TypesAndCounts == Spec => [](PumpTypes /\ Counts)
  BY InitTypes, NextTypes, InitCounts, NextCounts, PTL DEF Spec

\* The pump keeps its types, the raw queue its capacity (rx_pump.rs:224-232) and
\* the counter the bounds of the pool, below zero included while a callback
\* frees a transfer that is not counted yet (rx_pump.rs:239, 312-317).
THEOREM TypeCorrect == Spec => []TypeOK
  <1>1. PumpTypes /\ Counts => TypeOK
    BY FiniteCounts DEF PumpTypes, Counts, TypeOK
  <1> QED
    BY <1>1, TypesAndCounts, PTL

\* Once the event thread runs, its counter is the number of transfers that
\* exist: it ends when none is left, and not before (rx_pump.rs:312-330).
THEOREM InflightIsLiveAlways == Spec => []InflightIsLive
  <1>1. Counts => InflightIsLive
    <2>1. Counts /\ events # "none" => Uncounted = {}
      BY DEF Counts, Uncounted
    <2>2. Counts /\ events # "none" => inflight = Cardinality(Submitted)
      BY <2>1, FiniteCounts, FS_EmptySet DEF Counts
    <2> QED
      BY <2>2 DEF Counts, InflightIsLive
  <1> QED
    BY <1>1, TypesAndCounts, PTL

----------------------------------------------------------------------------
(* The pool keeps its transfers.                                            *)

\* A callback frees its transfer only when the backend or the device is gone, and
\* neither comes back.
FreesAtEnd == cb.at = "free" => ~owner \/ ~device

LEMMA NextFreesAtEnd == PumpTypes /\ FreesAtEnd /\ [Next]_vars => FreesAtEnd'
  <1> SUFFICES ASSUME PumpTypes, FreesAtEnd, [Next]_vars PROVE FreesAtEnd'
    OBVIOUS
  <1>0. ASSUME UNCHANGED <<cb, owner, device>> PROVE FreesAtEnd'
    BY <1>0 DEF FreesAtEnd
  <1>1. CASE UNCHANGED vars
    BY <1>0, <1>1 DEF vars, pumpVars, queueVars
  <1>2. CASE QueueStep /\ UNCHANGED pumpVars
    BY <1>0, <1>2, QueueStepTakes DEF PumpTypes, pumpVars
  <1>3. CASE DropBackend \/ Unplug
    BY <1>3 DEF DropBackend, DropOwner, Unplug, pumpVars, queueVars, FreesAtEnd
  <1>4. CASE SpawnStep
    BY <1>0, <1>4 DEF SpawnStep, Spawn, StartEvents, Submit, Count, queueVars
  <1>5. ASSUME NEW t \in Xfers, Complete(t) PROVE FreesAtEnd'
    BY <1>0, <1>5 DEF Complete
  <1>6. ASSUME NEW t \in Xfers, CbStarts(t) PROVE FreesAtEnd'
    BY <1>6 DEF CbStarts, Alive, FreesAtEnd, queueVars
  <1>7. CASE CbStores \/ CbNotifies
    <2>1. cb'.at # "free"
      BY <1>7 DEF CbStores, CbNotifies, PumpTypes, Callbacks
    <2> QED
      BY <2>1 DEF FreesAtEnd
  <1>8. CASE CbResubmits
    BY <1>8 DEF CbResubmits, NoCb, FreesAtEnd
  <1>9. CASE CbFrees
    BY <1>9 DEF CbFrees, NoCb, FreesAtEnd
  <1>10. CASE EventsEnd
    BY <1>0, <1>10 DEF EventsEnd, queueVars
  <1>11. ASSUME NEW p \in Parsers, ParserStep(p) PROVE FreesAtEnd'
    BY <1>0, <1>11 DEF ParserStep, Take, Upgrade, Push, Notify, queueVars
  <1> QED
    BY <1>1, <1>2, <1>3, <1>4, <1>5, <1>6, <1>7, <1>8, <1>9, <1>10, <1>11
       DEF Next, EventStep

\* While the backend has its owner and the device is there, no transfer leaves the
\* pool, also when the raw queue drops its buffer (rx_pump.rs:224-237).
THEOREM PoolKeepsDepthAlways == Spec => PoolKeepsDepth
  <1>1. Init => FreesAtEnd
    BY DEF Init, NoCb, FreesAtEnd
  <1>2. PumpTypes /\ FreesAtEnd /\ [Next]_vars
          => [owner /\ device => Submitted \subseteq Submitted']_vars
    <2> SUFFICES ASSUME PumpTypes, FreesAtEnd, Next, owner, device,
                        NEW t \in Xfers, xfer[t] \in {"flight", "done"}
                 PROVE  xfer'[t] \in {"flight", "done"}
      BY DEF Submitted
    <2>1. ASSUME xfer' = xfer PROVE xfer'[t] \in {"flight", "done"}
      BY <2>1
    <2>2. CASE (QueueStep /\ UNCHANGED pumpVars) \/ DropBackend \/ Unplug
      BY <2>1, <2>2 DEF DropBackend, Unplug, pumpVars
    <2>3. CASE SpawnStep
      BY <2>3 DEF SpawnStep, Spawn, StartEvents, Submit, Count, PumpTypes
    <2>4. ASSUME NEW u \in Xfers, Complete(u) PROVE xfer'[t] \in {"flight", "done"}
      BY <2>4 DEF Complete, PumpTypes
    <2>5. CASE CbResubmits
      BY <2>5 DEF CbResubmits, PumpTypes
    <2>6. CASE CbFrees
      BY <2>6 DEF CbFrees, FreesAtEnd
    <2>7. CASE (\E u \in Xfers : CbStarts(u)) \/ CbStores \/ CbNotifies \/ EventsEnd
      BY <2>1, <2>7 DEF CbStarts, CbStores, CbNotifies, EventsEnd
    <2>8. ASSUME NEW p \in Parsers, ParserStep(p) PROVE xfer'[t] \in {"flight", "done"}
      BY <2>1, <2>8 DEF ParserStep, Take, Upgrade, Push, Notify
    <2> QED
      BY <2>2, <2>3, <2>4, <2>5, <2>6, <2>7, <2>8 DEF Next, EventStep
  <1> QED
    BY <1>1, <1>2, NextFreesAtEnd, TypesAndCounts, PTL DEF Spec, PoolKeepsDepth

----------------------------------------------------------------------------
(* No wake is lost, of the parse threads' condition variable and of recv.   *)

LEMMA InitBuffer == Init => NoBufferSleeps
  BY DEF Init, NoBufferSleeps

LEMMA NextBuffer == PumpTypes /\ NoBufferSleeps /\ [Next]_vars => NoBufferSleeps'
  <1> SUFFICES ASSUME PumpTypes, NoBufferSleeps, [Next]_vars PROVE NoBufferSleeps'
    OBVIOUS
  <1>0. ASSUME UNCHANGED <<raw, parser, cb>> PROVE NoBufferSleeps'
    BY <1>0 DEF NoBufferSleeps
  <1>1. CASE UNCHANGED vars \/ (QueueStep /\ UNCHANGED pumpVars) \/ DropBackend
    BY <1>0, <1>1 DEF vars, pumpVars, DropBackend
  <1>2. CASE Spawn
    BY <1>2, AsyncAssumption DEF Spawn, NoBufferSleeps
  <1>3. CASE StartEvents \/ Unplug \/ EventsEnd
    BY <1>0, <1>3 DEF StartEvents, Unplug, EventsEnd
  <1>4. ASSUME NEW t \in Xfers, Submit(t) \/ Count(t) \/ Complete(t) PROVE NoBufferSleeps'
    BY <1>0, <1>4 DEF Submit, Count, Complete
  <1>5. ASSUME NEW t \in Xfers, CbStarts(t) PROVE NoBufferSleeps'
    BY <1>5 DEF CbStarts, NoBufferSleeps, NoCb
  <1>6. CASE CbStores
    BY <1>6 DEF CbStores, NoBufferSleeps, PumpTypes, Callbacks
  <1>7. CASE CbNotifies
    <2>1. \E p \in Parsers : parser'[p] # "waiting"
      <3>1. CASE \E p \in Parsers : parser[p] = "waiting"
        BY <1>7, <3>1 DEF CbNotifies, PumpTypes
      <3>2. CASE \A p \in Parsers : parser[p] # "waiting"
        BY <1>7, <3>2, AsyncAssumption DEF CbNotifies
      <3> QED
        BY <3>1, <3>2
    <2> QED
      BY <2>1 DEF NoBufferSleeps
  <1>8. CASE CbResubmits \/ CbFrees
    BY <1>8 DEF CbResubmits, CbFrees, NoBufferSleeps
  <1>9. ASSUME NEW p \in Parsers, ParserStep(p) PROVE NoBufferSleeps'
    <2>1. CASE Take(p) /\ raw = <<>>
      BY <2>1 DEF Take, NoBufferSleeps
    <2>2. CASE \/ Take(p) /\ raw # <<>>
               \/ Upgrade(p) \/ Push(p) \/ Notify(p)
      <3>1. parser'[p] # "waiting"
        BY <2>2 DEF Take, Upgrade, Push, Notify, PumpTypes
      <3> QED
        BY <3>1 DEF NoBufferSleeps
    <2> QED
      BY <1>9, <2>1, <2>2 DEF ParserStep
  <1> QED
    BY <1>1, <1>2, <1>3, <1>4, <1>5, <1>6, <1>7, <1>8, <1>9
       DEF Next, SpawnStep, EventStep

\* A stored buffer is never left to parse threads that all wait on the condition
\* variable (rx_pump.rs:225-230, 273-279).
THEOREM NoBufferSleepsAlways == Spec => []NoBufferSleeps
  BY InitBuffer, NextBuffer, TypesAndCounts, PTL DEF Spec

Notifying == \E p \in Parsers : parser[p] = "notify"

\* Before the threads start none is under way.
NotStarted == ~pumped => \A p \in Parsers : parser[p] = "none"

Wakes == NotStarted /\ WaitListKept /\ (Notifying \/ WakeOwed)

LEMMA InitWakes == Init => Wakes
  BY DEF Init, QueueInit, Wakes, NotStarted, WaitListKept, WakeOwed

\* A parse thread moves, but not out of its notify, and the queue stays.
LEMMA ParserKeepsWakes ==
  ASSUME PumpTypes, Wakes, NEW p \in Parsers, parser[p] \notin {"none", "notify"},
         NEW to, parser' = [parser EXCEPT ![p] = to],
         UNCHANGED <<pumped, pending, permit, waiters, cons>>
  PROVE  Wakes'
  <1>1. pumped
    BY DEF Wakes, NotStarted
  <1>2. Notifying => Notifying'
    BY DEF Notifying, PumpTypes
  <1> QED
    BY <1>1, <1>2 DEF Wakes, NotStarted, WaitListKept, WakeOwed

LEMMA NextWakes == PumpTypes /\ Wakes /\ [Next]_vars => Wakes'
  <1> SUFFICES ASSUME PumpTypes, Wakes, [Next]_vars PROVE Wakes'
    OBVIOUS
  <1>0. QueueTypeOK /\ WaitListKept
    BY DEF PumpTypes, Wakes
  <1>1. ASSUME UNCHANGED <<pumped, pending, permit, waiters, cons, parser>> PROVE Wakes'
    BY <1>1 DEF Wakes, NotStarted, WaitListKept, WakeOwed, Notifying
  <1>2. CASE UNCHANGED vars
    BY <1>1, <1>2 DEF vars, queueVars, pumpVars
  <1>3. CASE QueueStep /\ UNCHANGED pumpVars
    <2>1. WaitListKept' /\ (WakeOwed => WakeOwed') /\ pumped' = pumped
      BY <1>0, <1>3, QueueStepWakes, QueueStepTakes
    <2> QED
      BY <1>3, <2>1 DEF Wakes, NotStarted, Notifying, pumpVars
  <1>4. CASE DropBackend
    BY <1>1, <1>4 DEF DropBackend, DropOwner, pumpVars
  <1>5. CASE Spawn
    <2>1. ~Notifying /\ pumped' /\ WaitListKept' /\ (WakeOwed => WakeOwed')
      BY <1>5 DEF Spawn, Wakes, NotStarted, Notifying, WaitListKept, WakeOwed
    <2> QED
      BY <2>1 DEF Wakes, NotStarted
  <1>6. CASE StartEvents \/ Unplug \/ EventsEnd \/ CbStores \/ CbResubmits \/ CbFrees
    BY <1>1, <1>6 DEF StartEvents, Unplug, EventsEnd, CbStores, CbResubmits, CbFrees, queueVars
  <1>7. ASSUME NEW t \in Xfers, Submit(t) \/ Count(t) \/ Complete(t) \/ CbStarts(t)
        PROVE  Wakes'
    BY <1>1, <1>7 DEF Submit, Count, Complete, CbStarts, queueVars
  <1>8. CASE CbNotifies
    <2>1. CASE UNCHANGED parser
      BY <1>1, <1>8, <2>1 DEF CbNotifies, queueVars
    <2>2. CASE \E p \in Parsers :
                 parser[p] = "waiting" /\ parser' = [parser EXCEPT ![p] = "lock"]
      BY <1>8, <2>2, ParserKeepsWakes DEF CbNotifies, queueVars
    <2> QED
      BY <1>8, <2>1, <2>2 DEF CbNotifies
  <1>9. ASSUME NEW p \in Parsers, ParserStep(p) PROVE Wakes'
    <2>1. CASE Take(p) \/ Upgrade(p)
      BY <2>1, ParserKeepsWakes DEF Take, Upgrade, queueVars
    <2>2. CASE Push(p)
      <3>1. Notifying' /\ pumped
        BY <2>2 DEF Push, Notifying, PumpTypes, Wakes, NotStarted
      <3> QED
        BY <1>0, <2>2, <3>1 DEF Push, Wakes, NotStarted, WaitListKept
    <2>3. CASE Notify(p)
      <3>1. WaitListKept' /\ WakeOwed'
        BY <1>0, <2>3, NotifyOneWakes DEF Notify
      <3>2. pumped /\ pumped' = pumped
        BY <2>3 DEF Notify, Wakes, NotStarted
      <3> QED
        BY <3>1, <3>2 DEF Wakes, NotStarted
    <2> QED
      BY <1>9, <2>1, <2>2, <2>3 DEF ParserStep
  <1> QED
    BY <1>2, <1>3, <1>4, <1>5, <1>6, <1>7, <1>8, <1>9 DEF Next, SpawnStep, EventStep

\* No decoded frame waits while every caller of recv sleeps and no notify is to
\* come (rx_pump.rs:66-88), with any number of parse threads.
THEOREM NoFrameSleepsAlways == Spec => []NoFrameSleeps
  <1>1. Wakes => NoFrameSleeps
    <2>1. Notifying \in BOOLEAN
      BY DEF Notifying
    <2> QED
      BY <2>1, OwedIsNotLost DEF Wakes, NoFrameSleeps, Notifying
  <1> QED
    BY <1>1, TypesAndCounts, InitWakes, NextWakes, PTL DEF Spec

----------------------------------------------------------------------------
(* Each frame is handed out once: the pump implements FrameService.         *)

\* The places a frame can be in hold different frames, each once: the queue of
\* recv, the transfers, the raw queue and the parse threads.
QueueApart == IsInjective(pending) /\ air \cap Range(pending) = {}

DataApart ==
  \A t \in Xfers :
    /\ IsInjective(data[t])
    /\ data[t] # <<>> => xfer[t] = "done"
    /\ air \cap Range(data[t]) = {} /\ Range(pending) \cap Range(data[t]) = {}
    /\ \A u \in Xfers \ {t} : Range(data[t]) \cap Range(data[u]) = {}

RawApart ==
  \A i \in DOMAIN raw :
    /\ IsInjective(raw[i])
    /\ air \cap Range(raw[i]) = {} /\ Range(pending) \cap Range(raw[i]) = {}
    /\ \A t \in Xfers : Range(raw[i]) \cap Range(data[t]) = {}
    /\ \A j \in DOMAIN raw \ {i} : Range(raw[i]) \cap Range(raw[j]) = {}

BufApart ==
  \A p \in Parsers :
    /\ IsInjective(buf[p])
    /\ buf[p] # <<>> => parser[p] \in {"upgrade", "push"}
    /\ air \cap Range(buf[p]) = {} /\ Range(pending) \cap Range(buf[p]) = {}
    /\ \A t \in Xfers : Range(buf[p]) \cap Range(data[t]) = {}
    /\ \A i \in DOMAIN raw : Range(buf[p]) \cap Range(raw[i]) = {}
    /\ \A q \in Parsers \ {p} : Range(buf[p]) \cap Range(buf[q]) = {}

\* The callback has stored its transfer's frames before it resubmits it.
StoredFirst == cb.at \in {"notify", "resubmit"} => data[cb.t] = <<>>

Apart == QueueApart /\ DataApart /\ RawApart /\ BufApart /\ StoredFirst

LEMMA EmptyHolds == Range(<<>>) = {} /\ IsInjective(<<>>)
  BY DEF Range, IsInjective

\* What it is to be held, before and after a step.
LEMMA HeldBy ==
  \A f : /\ f \in held <=> \/ f \in Range(pending)
                           \/ \E i \in DOMAIN raw : f \in Range(raw[i])
                           \/ \E t \in Xfers : f \in Range(data[t])
                           \/ \E p \in Parsers : f \in Range(buf[p])
         /\ f \in held' <=> \/ f \in Range(pending')
                            \/ \E i \in DOMAIN raw' : f \in Range(raw'[i])
                            \/ \E t \in Xfers : f \in Range(data'[t])
                            \/ \E p \in Parsers : f \in Range(buf'[p])
  <1>1. /\ \A x : x \in Range(raw) <=> \E i \in DOMAIN raw : x = raw[i]
        /\ \A x : x \in Range(raw') <=> \E i \in DOMAIN raw' : x = raw'[i]
    BY DEF Range
  <1>2. ASSUME NEW f
        PROVE  /\ (\E b \in Range(raw) : f \in Range(b))
                    <=> \E i \in DOMAIN raw : f \in Range(raw[i])
               /\ (\E b \in Range(raw') : f \in Range(b))
                    <=> \E i \in DOMAIN raw' : f \in Range(raw'[i])
    BY <1>1
  <1>3. ASSUME NEW f
        PROVE  /\ f \in held <=> \/ f \in Range(pending)
                                 \/ \E b \in Range(raw) : f \in Range(b)
                                 \/ \E t \in Xfers : f \in Range(data[t])
                                 \/ \E p \in Parsers : f \in Range(buf[p])
               /\ f \in held' <=> \/ f \in Range(pending')
                                  \/ \E b \in Range(raw') : f \in Range(b)
                                  \/ \E t \in Xfers : f \in Range(data'[t])
                                  \/ \E p \in Parsers : f \in Range(buf'[p])
    BY DEF held
  <1> QED
    BY <1>2, <1>3

LEMMA InitApart == Init => Apart /\ Service!Init
  <1> SUFFICES ASSUME Init PROVE Apart /\ Service!Init
    OBVIOUS
  <1>1. /\ pending = <<>> /\ raw = <<>> /\ cb = NoCb
        /\ \A t \in Xfers : data[t] = <<>>
        /\ \A p \in Parsers : buf[p] = <<>>
    BY DEF Init, QueueInit
  <1>2. DOMAIN raw = {}
    BY <1>1
  <1>3. Apart
    BY <1>1, <1>2, EmptyHolds
       DEF Apart, QueueApart, DataApart, RawApart, BufApart, StoredFirst, NoCb
  <1>4. held = {}
    BY <1>1, <1>2, EmptyHolds, HeldBy
  <1> QED
    BY <1>3, <1>4 DEF Init, QueueInit, Service!Init

\* A step that moves no frame.
LEMMA NothingMoves ==
  ASSUME Apart, UNCHANGED <<air, pending, got, raw, data, buf>>, StoredFirst',
         \A t \in Xfers : data[t] # <<>> => xfer'[t] = "done",
         \A p \in Parsers : buf[p] # <<>> => parser'[p] \in {"upgrade", "push"}
  PROVE  Apart' /\ UNCHANGED Service!vars
  <1>1. DataApart'
    BY DEF Apart, DataApart
  <1>2. RawApart'
    BY DEF Apart, RawApart
  <1>3. BufApart'
    BY DEF Apart, BufApart
  <1> QED
    BY <1>1, <1>2, <1>3 DEF Apart, QueueApart, Service!vars, held

\* A frame that leaves the queue for a consumer was nowhere else.
LEMMA TakeDelivers ==
  ASSUME PumpTypes, Apart, UNCHANGED pumpVars, air' = air, NEW c \in Consumers,
         pending # <<>>, pending' = Tail(pending),
         got' = [got EXCEPT ![c] = @ \cup {Head(pending)}]
  PROVE  Apart' /\ Service!Deliver
  <1> DEFINE f == Head(pending)
  <1>1. pending \in Seq(Frames)
    BY DEF PumpTypes, QueueTypeOK
  <1>2. /\ f \in Range(pending) /\ IsInjective(Tail(pending))
        /\ Range(Tail(pending)) = Range(pending) \ {f}
    BY <1>1, RangeOfTail DEF Apart, QueueApart
  <1> HIDE DEF f
  <1>3. Apart'
    <2>1. QueueApart'
      BY <1>2 DEF Apart, QueueApart
    <2>2. DataApart'
      BY <1>2 DEF Apart, DataApart, pumpVars
    <2>3. RawApart'
      BY <1>2 DEF Apart, RawApart, pumpVars
    <2>4. BufApart'
      BY <1>2 DEF Apart, BufApart, pumpVars
    <2> QED
      BY <2>1, <2>2, <2>3, <2>4 DEF Apart, StoredFirst, pumpVars
  <1>4. held' = held \ {f} /\ f \in held
    <2>1. UNCHANGED <<raw, data, buf>>
      BY DEF pumpVars
    <2>2. \A g : g \in held' <=> g \in held /\ g # f
      <3>1. /\ \A i \in DOMAIN raw : f \notin Range(raw[i])
            /\ \A t \in Xfers : f \notin Range(data[t])
            /\ \A p \in Parsers : f \notin Range(buf[p])
        BY <1>2 DEF Apart, DataApart, RawApart, BufApart
      <3> QED
        BY <1>2, <2>1, <3>1, HeldBy
    <2> QED
      BY <1>2, <2>2, HeldBy
  <1> QED
    BY <1>3, <1>4 DEF Service!Deliver, f

\* What a completed transfer brings was in the air.
LEMMA CompleteCaptures ==
  ASSUME PumpTypes, Counts, Apart, NEW t \in Xfers, Complete(t)
  PROVE  Apart' /\ [Service!Next]_(Service!vars)
  <1>1. /\ xfer[t] = "flight" /\ xfer' = [xfer EXCEPT ![t] = "done"]
        /\ UNCHANGED <<pending, got, cb, raw, parser, buf>>
    BY DEF Complete
  <1>2. data[t] = <<>>
    BY <1>1 DEF Apart, DataApart
  <1>3. \A u \in Xfers : xfer[u] = "done" => xfer'[u] = "done"
    BY <1>1 DEF PumpTypes
  <1>4. CASE UNCHANGED <<data, air>>
    <2>1. StoredFirst'
      BY <1>1, <1>4 DEF Apart, StoredFirst
    <2> QED
      BY <1>1, <1>3, <1>4, <2>1, NothingMoves DEF Apart, DataApart, BufApart
  <1>5. CASE \E b \in Batches : data' = [data EXCEPT ![t] = b] /\ air' = air \ Range(b)
    <2>1. PICK b \in Batches : data' = [data EXCEPT ![t] = b] /\ air' = air \ Range(b)
      BY <1>5
    <2>2. Range(b) \subseteq air /\ IsInjective(b)
      BY BatchTypes DEF PumpTypes
    <2>3. /\ data'[t] = b /\ \A u \in Xfers \ {t} : data'[u] = data[u]
          /\ xfer'[t] = "done"
      BY <1>1, <2>1 DEF PumpTypes
    <2>4. QueueApart'
      BY <1>1, <2>1 DEF Apart, QueueApart
    <2>5. DataApart'
      <3>1. /\ air' \cap Range(b) = {} /\ Range(pending') \cap Range(b) = {}
            /\ \A u \in Xfers : Range(data[u]) \cap Range(b) = {}
        BY <1>1, <2>1, <2>2 DEF Apart, QueueApart, DataApart
      <3> QED
        BY <1>1, <1>3, <2>1, <2>2, <2>3, <3>1 DEF Apart, DataApart
    <2>6. RawApart'
      BY <1>1, <2>1, <2>2, <2>3 DEF Apart, RawApart
    <2>7. BufApart'
      <3>1. \A p \in Parsers : Range(buf[p]) \cap Range(b) = {}
        BY <2>2 DEF Apart, BufApart
      <3>2. \A p \in Parsers, u \in Xfers : Range(buf[p]) \cap Range(data'[u]) = {}
        BY <2>3, <3>1 DEF Apart, BufApart
      <3>3. \A p \in Parsers : air' \cap Range(buf[p]) = {}
        BY <2>1 DEF Apart, BufApart
      <3> QED
        BY <1>1, <3>2, <3>3 DEF Apart, BufApart
    <2>8. StoredFirst'
      <3>1. cb.at \in {"notify", "resubmit"} => cb.t \in Xfers /\ cb.t # t
        BY <1>1, CallbackTypes DEF Counts
      <3> QED
        BY <1>1, <2>3, <3>1 DEF Apart, StoredFirst
    <2>9. held' = held \cup Range(b)
      <3>1. Range(data[t]) = {}
        BY <1>2, EmptyHolds
      <3>2. \A f : f \in held' <=> f \in held \/ f \in Range(b)
        BY <1>1, <2>3, <3>1, HeldBy
      <3> QED
        BY <3>2
    <2> QED
      BY <1>1, <2>1, <2>2, <2>4, <2>5, <2>6, <2>7, <2>8, <2>9
         DEF Apart, Service!Next, Service!Capture
  <1> QED
    BY <1>4, <1>5 DEF Complete

\* The frames of one transfer are discarded.
LEMMA DropLoses ==
  ASSUME PumpTypes, Apart, NEW t \in Xfers, data' = [data EXCEPT ![t] = <<>>],
         UNCHANGED <<air, pending, got, raw, buf, parser>>, StoredFirst',
         \A u \in Xfers \ {t} : xfer[u] = "done" => xfer'[u] = "done"
  PROVE  Apart' /\ Service!Lose
  <1> DEFINE e == <<>>
  <1>1. Range(e) = {} /\ IsInjective(e)
    BY EmptyHolds
  <1>2. data'[t] = e /\ \A u \in Xfers \ {t} : data'[u] = data[u]
    BY DEF PumpTypes
  <1>3. \A u \in Xfers \ {t} : data'[u] # e => xfer'[u] = "done"
    BY <1>2 DEF Apart, DataApart
  <1> HIDE DEF e
  <1>4. DataApart'
    <2>1. ASSUME NEW u \in Xfers
          PROVE  /\ IsInjective(data'[u])
                 /\ data'[u] # e => xfer'[u] = "done"
                 /\ air' \cap Range(data'[u]) = {} /\ Range(pending') \cap Range(data'[u]) = {}
                 /\ \A v \in Xfers \ {u} : Range(data'[u]) \cap Range(data'[v]) = {}
      <3>1. CASE u = t
        BY <1>1, <1>2, <3>1
      <3>2. CASE u # t
        BY <1>1, <1>2, <1>3, <3>2 DEF Apart, DataApart
      <3> QED
        BY <3>1, <3>2
    <2> QED
      BY <2>1 DEF DataApart, e
  <1>5. RawApart'
    BY <1>1, <1>2 DEF Apart, RawApart
  <1>6. BufApart'
    BY <1>1, <1>2 DEF Apart, BufApart
  <1>7. held' = held \ (held \ held') /\ held \ held' \in SUBSET held
    <2>1. \A f : f \in held' => f \in held
      BY <1>1, <1>2, HeldBy
    <2> QED
      BY <2>1
  <1> QED
    BY <1>4, <1>5, <1>6, <1>7 DEF Apart, QueueApart, Service!Lose

\* The callback moves its transfer's frames into the raw queue.
LEMMA StoreMoves ==
  ASSUME PumpTypes, Apart, CbStores
  PROVE  Apart' /\ [Service!Next]_(Service!vars)
  <1>1. PICK t \in Xfers : cb.t = t
    BY CallbackTypes DEF CbStores
  <1>2. /\ cb.at = "store" /\ data' = [data EXCEPT ![t] = <<>>]
        /\ UNCHANGED <<air, pending, got, xfer, parser, buf>>
    BY <1>1 DEF CbStores, queueVars
  <1>3. StoredFirst'
    <2>1. cb'.t = t /\ data'[t] = <<>>
      BY <1>1, <1>2 DEF CbStores, PumpTypes, Callbacks
    <2> QED
      BY <2>1 DEF StoredFirst
  <1>4. CASE ~(Len(raw) < RawCap)
    <2>1. raw' = raw
      BY <1>4 DEF CbStores
    <2> QED
      BY <1>2, <1>3, <2>1, DropLoses DEF Service!Next
  <1>5. CASE Len(raw) < RawCap
    <2> DEFINE d == data[t]  n == Len(raw) + 1  e == <<>>
    <2>1. raw \in Seq(Seq(Frames)) /\ d \in Seq(Frames) /\ raw' = Append(raw, d)
      BY <1>1, <1>5 DEF CbStores, PumpTypes
    <2> HIDE DEF d
    <2>2. /\ DOMAIN raw' = DOMAIN raw \cup {n} /\ n \notin DOMAIN raw
          /\ raw'[n] = d /\ \A i \in DOMAIN raw : raw'[i] = raw[i]
      BY ONLY <2>1
    <2> HIDE DEF n
    <2>3. Range(e) = {} /\ IsInjective(e)
      BY EmptyHolds
    <2>4. data'[t] = e /\ \A u \in Xfers \ {t} : data'[u] = data[u]
      BY <1>2 DEF PumpTypes
    <2>5. \A u \in Xfers : data'[u] # e => xfer'[u] = "done"
      BY <1>2, <2>4 DEF Apart, DataApart
    <2> HIDE DEF e
    <2>6. /\ IsInjective(d) /\ air \cap Range(d) = {} /\ Range(pending) \cap Range(d) = {}
          /\ \A u \in Xfers \ {t} : Range(d) \cap Range(data[u]) = {}
          /\ \A i \in DOMAIN raw : Range(d) \cap Range(raw[i]) = {}
          /\ \A p \in Parsers : Range(d) \cap Range(buf[p]) = {}
      BY DEF Apart, DataApart, RawApart, BufApart, d
    <2>7. DataApart'
      <3>1. ASSUME NEW u \in Xfers
            PROVE  /\ IsInjective(data'[u])
                   /\ data'[u] # e => xfer'[u] = "done"
                   /\ air' \cap Range(data'[u]) = {}
                   /\ Range(pending') \cap Range(data'[u]) = {}
                   /\ \A v \in Xfers \ {u} : Range(data'[u]) \cap Range(data'[v]) = {}
        <4>1. CASE u = t
          BY <2>3, <2>4, <4>1
        <4>2. CASE u # t
          BY <1>2, <2>3, <2>4, <2>5, <4>2 DEF Apart, DataApart
        <4> QED
          BY <4>1, <4>2
      <3> QED
        BY <3>1 DEF DataApart, e
    <2>8. RawApart'
      <3>1. ASSUME NEW i \in DOMAIN raw'
            PROVE  /\ IsInjective(raw'[i])
                   /\ air' \cap Range(raw'[i]) = {} /\ Range(pending') \cap Range(raw'[i]) = {}
                   /\ \A u \in Xfers : Range(raw'[i]) \cap Range(data'[u]) = {}
                   /\ \A j \in DOMAIN raw' \ {i} : Range(raw'[i]) \cap Range(raw'[j]) = {}
        <4>1. CASE i = n
          BY <1>2, <2>2, <2>3, <2>4, <2>6, <4>1
        <4>2. CASE i # n
          BY <1>2, <2>2, <2>3, <2>4, <2>6, <4>2 DEF Apart, RawApart
        <4> QED
          BY <4>1, <4>2
      <3> QED
        BY <3>1 DEF RawApart
    <2>9. BufApart'
      <3>1. \A p \in Parsers, u \in Xfers : Range(buf[p]) \cap Range(data'[u]) = {}
        BY <2>3, <2>4 DEF Apart, BufApart
      <3>2. \A p \in Parsers : \A i \in DOMAIN raw' : Range(buf[p]) \cap Range(raw'[i]) = {}
        BY <2>2, <2>6 DEF Apart, BufApart
      <3> QED
        BY <1>2, <3>1, <3>2 DEF Apart, BufApart
    <2>10. held' = held
      <3>1. \A f : f \in held' <=> f \in held
        <4>1. ASSUME NEW f, f \in held' PROVE f \in held
          BY <1>2, <2>2, <2>3, <2>4, <4>1, HeldBy DEF d
        <4>2. ASSUME NEW f, f \in held PROVE f \in held'
          BY <1>2, <2>2, <2>4, <4>2, HeldBy DEF d
        <4> QED
          BY <4>1, <4>2
      <3> QED
        BY <3>1
    <2> QED
      BY <1>2, <1>3, <2>7, <2>8, <2>9, <2>10 DEF Apart, QueueApart, Service!vars
  <1> QED
    BY <1>4, <1>5

\* A parse thread takes the first raw buffer.
LEMMA ParserTakes ==
  ASSUME PumpTypes, Apart, NEW p \in Parsers, Take(p)
  PROVE  Apart' /\ UNCHANGED Service!vars
  <1>1. /\ parser[p] = "lock" /\ buf[p] = <<>>
        /\ UNCHANGED <<air, pending, got, xfer, data, cb>>
        /\ \A q \in Parsers \ {p} : parser'[q] = parser[q]
    BY DEF Take, queueVars, PumpTypes, Apart, BufApart
  <1>2. CASE raw = <<>>
    BY <1>1, <1>2, NothingMoves DEF Take, Apart, DataApart, BufApart, StoredFirst
  <1>3. CASE raw # <<>>
    <2> DEFINE d == Head(raw)
    <2>1. /\ raw \in Seq(Seq(Frames)) /\ raw' = Tail(raw) /\ buf' = [buf EXCEPT ![p] = d]
          /\ parser'[p] = "upgrade"
      BY <1>3 DEF Take, PumpTypes
    <2> HIDE DEF d
    <2>2. /\ \A i \in DOMAIN raw' : i + 1 \in DOMAIN raw \ {1} /\ raw'[i] = raw[i + 1]
          /\ \A i \in DOMAIN raw \ {1} : i - 1 \in DOMAIN raw' /\ raw'[i - 1] = raw[i]
          /\ 1 \in DOMAIN raw /\ raw[1] = d
          /\ \A i, j \in DOMAIN raw' : i # j => i + 1 # j + 1
      BY ONLY <1>3, <2>1, HeadTail DEF d
    <2>3. buf'[p] = d /\ \A q \in Parsers \ {p} : buf'[q] = buf[q]
      BY <2>1 DEF PumpTypes
    <2>4. /\ IsInjective(d) /\ air \cap Range(d) = {} /\ Range(pending) \cap Range(d) = {}
          /\ \A t \in Xfers : Range(d) \cap Range(data[t]) = {}
          /\ \A i \in DOMAIN raw' : Range(d) \cap Range(raw'[i]) = {}
          /\ \A q \in Parsers : Range(d) \cap Range(buf[q]) = {}
      <3>1. \A i \in DOMAIN raw \ {1} : Range(d) \cap Range(raw[i]) = {}
        BY <2>2 DEF Apart, RawApart
      <3> QED
        BY <2>2, <3>1 DEF Apart, RawApart, BufApart
    <2>5. QueueApart' /\ DataApart' /\ StoredFirst'
      BY <1>1 DEF Apart, QueueApart, DataApart, StoredFirst
    <2>6. RawApart'
      <3>1. ASSUME NEW i \in DOMAIN raw'
            PROVE  /\ IsInjective(raw'[i])
                   /\ air' \cap Range(raw'[i]) = {} /\ Range(pending') \cap Range(raw'[i]) = {}
                   /\ \A u \in Xfers : Range(raw'[i]) \cap Range(data'[u]) = {}
        BY <1>1, <2>2 DEF Apart, RawApart
      <3>2. ASSUME NEW i \in DOMAIN raw', NEW j \in DOMAIN raw' \ {i}
            PROVE  Range(raw'[i]) \cap Range(raw'[j]) = {}
        <4>1. /\ i + 1 \in DOMAIN raw /\ j + 1 \in DOMAIN raw \ {i + 1}
              /\ raw'[i] = raw[i + 1] /\ raw'[j] = raw[j + 1]
          BY <2>2
        <4> QED
          BY <4>1 DEF Apart, RawApart
      <3> QED
        BY <3>1, <3>2 DEF RawApart
    <2>7. BufApart'
      <3>1. ASSUME NEW q \in Parsers
            PROVE  /\ IsInjective(buf'[q])
                   /\ buf'[q] # <<>> => parser'[q] \in {"upgrade", "push"}
                   /\ air \cap Range(buf'[q]) = {} /\ Range(pending) \cap Range(buf'[q]) = {}
                   /\ \A t \in Xfers : Range(buf'[q]) \cap Range(data[t]) = {}
                   /\ \A i \in DOMAIN raw' : Range(buf'[q]) \cap Range(raw'[i]) = {}
                   /\ \A r \in Parsers \ {q} : Range(buf'[q]) \cap Range(buf'[r]) = {}
        <4>1. CASE q = p
          BY <2>1, <2>3, <2>4, <4>1
        <4>2. CASE q # p
          <5>1. \A i \in DOMAIN raw' : Range(buf'[q]) \cap Range(raw'[i]) = {}
            BY <2>2, <2>3, <4>2 DEF Apart, BufApart
          <5>2. \A r \in Parsers \ {q} : Range(buf'[q]) \cap Range(buf'[r]) = {}
            BY <2>3, <2>4, <4>2 DEF Apart, BufApart
          <5> QED
            BY <1>1, <2>3, <4>2, <5>1, <5>2 DEF Apart, BufApart
        <4> QED
          BY <4>1, <4>2
      <3> QED
        BY <1>1, <3>1 DEF BufApart
    <2>8. held' = held
      <3>1. Range(buf[p]) = {}
        BY <1>1, EmptyHolds
      <3>2. \A f : (\E i \in DOMAIN raw : f \in Range(raw[i]))
                     <=> f \in Range(d) \/ \E i \in DOMAIN raw' : f \in Range(raw'[i])
        BY <2>2
      <3>3. \A f : (\E q \in Parsers : f \in Range(buf'[q]))
                     <=> f \in Range(d) \/ \E q \in Parsers : f \in Range(buf[q])
        BY <2>3, <3>1
      <3>4. \A f : f \in held' <=> f \in held
        BY <1>1, <3>2, <3>3, HeldBy
      <3> QED
        BY <3>4
    <2> QED
      BY <1>1, <2>5, <2>6, <2>7, <2>8 DEF Apart, Service!vars
  <1> QED
    BY <1>2, <1>3

\* A parse thread empties its buffer: the frames go where `to` says.
LEMMA BufEmptied ==
  ASSUME PumpTypes, Apart, NEW p \in Parsers, buf' = [buf EXCEPT ![p] = <<>>],
         UNCHANGED <<air, got, raw, data, xfer, cb>>,
         \A q \in Parsers \ {p} : parser'[q] = parser[q],
         pending' \in {pending, pending \o buf[p]}
  PROVE  /\ Apart'
         /\ \A f : f \in held' <=>
              f \in held /\ (f \notin Range(buf[p]) \/ f \in Range(pending'))
  <1> DEFINE e == <<>>
  <1>1. Range(e) = {} /\ IsInjective(e)
    BY EmptyHolds
  <1>2. buf'[p] = e /\ \A q \in Parsers \ {p} : buf'[q] = buf[q]
    BY DEF PumpTypes
  <1>3. \A q \in Parsers : buf'[q] # e => parser'[q] \in {"upgrade", "push"}
    BY <1>2 DEF Apart, BufApart
  <1> HIDE DEF e
  <1>4. /\ Range(pending) \subseteq Range(pending')
        /\ Range(pending') \subseteq Range(pending) \cup Range(buf[p])
        /\ IsInjective(pending')
    <2>1. buf[p] \in Seq(Frames) /\ pending \in Seq(Frames)
      BY DEF PumpTypes, QueueTypeOK
    <2>2. CASE pending' = pending
      BY <2>2 DEF Apart, QueueApart
    <2>3. CASE pending' = pending \o buf[p]
      BY <2>1, <2>3, RangeOfConcatenation DEF Apart, QueueApart, BufApart
    <2> QED
      BY <2>2, <2>3
  <1>5. QueueApart'
    BY <1>4 DEF Apart, QueueApart, BufApart
  <1>6. DataApart'
    <2>1. \A t \in Xfers : Range(pending') \cap Range(data[t]) = {}
      BY <1>4 DEF Apart, DataApart, BufApart
    <2> QED
      BY <2>1 DEF Apart, DataApart
  <1>7. RawApart'
    <2>1. \A i \in DOMAIN raw : Range(pending') \cap Range(raw[i]) = {}
      BY <1>4 DEF Apart, RawApart, BufApart
    <2> QED
      BY <2>1 DEF Apart, RawApart
  <1>8. BufApart'
    <2>1. ASSUME NEW q \in Parsers
          PROVE  /\ IsInjective(buf'[q])
                 /\ buf'[q] # e => parser'[q] \in {"upgrade", "push"}
                 /\ air \cap Range(buf'[q]) = {} /\ Range(pending') \cap Range(buf'[q]) = {}
                 /\ \A t \in Xfers : Range(buf'[q]) \cap Range(data[t]) = {}
                 /\ \A i \in DOMAIN raw : Range(buf'[q]) \cap Range(raw[i]) = {}
                 /\ \A r \in Parsers \ {q} : Range(buf'[q]) \cap Range(buf'[r]) = {}
      <3>1. CASE q = p
        BY <1>1, <1>2, <3>1
      <3>2. CASE q # p
        <4>1. Range(buf[p]) \cap Range(buf[q]) = {} /\ buf'[q] = buf[q]
          BY <1>2, <3>2 DEF Apart, BufApart
        <4>2. Range(pending') \cap Range(buf'[q]) = {}
          BY <1>4, <4>1 DEF Apart, BufApart
        <4>3. \A r \in Parsers \ {q} : Range(buf'[q]) \cap Range(buf'[r]) = {}
          BY <1>1, <1>2, <3>2 DEF Apart, BufApart
        <4> QED
          BY <1>3, <4>1, <4>2, <4>3 DEF Apart, BufApart
      <3> QED
        BY <3>1, <3>2
    <2> QED
      BY <2>1 DEF BufApart, e
  <1>9. ASSUME NEW f
        PROVE  f \in held' <=> f \in held /\ (f \notin Range(buf[p]) \/ f \in Range(pending'))
    <2>1. f \in Range(buf[p]) => /\ f \notin Range(pending)
                                 /\ \A t \in Xfers : f \notin Range(data[t])
                                 /\ \A i \in DOMAIN raw : f \notin Range(raw[i])
                                 /\ \A q \in Parsers \ {p} : f \notin Range(buf[q])
      BY DEF Apart, BufApart
    <2>2. (\E q \in Parsers : f \in Range(buf'[q]))
            <=> \E q \in Parsers \ {p} : f \in Range(buf[q])
      BY <1>1, <1>2
    <2>3. f \in held' <=> \/ f \in Range(pending')
                          \/ \E i \in DOMAIN raw : f \in Range(raw[i])
                          \/ \E t \in Xfers : f \in Range(data[t])
                          \/ \E q \in Parsers \ {p} : f \in Range(buf[q])
      BY <2>2, HeldBy
    <2>4. f \in held <=> \/ f \in Range(pending)
                         \/ \E i \in DOMAIN raw : f \in Range(raw[i])
                         \/ \E t \in Xfers : f \in Range(data[t])
                         \/ f \in Range(buf[p])
                         \/ \E q \in Parsers \ {p} : f \in Range(buf[q])
      BY HeldBy
    <2> QED
      BY <1>4, <2>1, <2>3, <2>4
  <1> QED
    BY <1>5, <1>6, <1>7, <1>8, <1>9 DEF Apart, StoredFirst

LEMMA PushMoves ==
  ASSUME PumpTypes, Apart, NEW p \in Parsers, Push(p)
  PROVE  Apart' /\ UNCHANGED Service!vars
  <1>1. /\ buf' = [buf EXCEPT ![p] = <<>>] /\ pending' = pending \o buf[p]
        /\ UNCHANGED <<air, got, raw, data, xfer, cb>>
        /\ \A q \in Parsers \ {p} : parser'[q] = parser[q]
    BY DEF Push, Enqueue, PumpTypes
  <1>2. buf[p] \in Seq(Frames) /\ pending \in Seq(Frames)
    BY DEF PumpTypes, QueueTypeOK
  <1>3. Range(buf[p]) \subseteq Range(pending')
    BY <1>1, <1>2, RangeOfConcatenation
  <1>4. Apart' /\ \A f : f \in held' <=>
                    f \in held /\ (f \notin Range(buf[p]) \/ f \in Range(pending'))
    BY <1>1, BufEmptied
  <1>5. held' = held
    BY <1>3, <1>4
  <1> QED
    BY <1>1, <1>4, <1>5 DEF Service!vars

LEMMA UpgradeLoses ==
  ASSUME PumpTypes, Apart, NEW p \in Parsers, Upgrade(p)
  PROVE  Apart' /\ [Service!Next]_(Service!vars)
  <1>1. /\ UNCHANGED <<air, pending, got, raw, data, xfer, cb>>
        /\ \A q \in Parsers \ {p} : parser'[q] = parser[q]
    BY DEF Upgrade, queueVars, PumpTypes
  <1>2. CASE Alive
    <2>1. parser'[p] = "push" /\ buf' = buf
      BY <1>2 DEF Upgrade, PumpTypes
    <2> QED
      BY <1>1, <2>1, NothingMoves DEF Apart, DataApart, BufApart, StoredFirst
  <1>3. CASE ~Alive
    <2>1. buf' = [buf EXCEPT ![p] = <<>>]
      BY <1>3 DEF Upgrade
    <2>2. Apart' /\ \A f : f \in held' <=>
                      f \in held /\ (f \notin Range(buf[p]) \/ f \in Range(pending'))
      BY <1>1, <2>1, BufEmptied
    <2>3. held' = held \ (held \ held') /\ held \ held' \in SUBSET held
      BY <2>2
    <2> QED
      BY <1>1, <2>2, <2>3 DEF Service!Next, Service!Lose
  <1> QED
    BY <1>2, <1>3

LEMMA NextApart ==
  ASSUME PumpTypes, Counts, Wakes, Apart, [Next]_vars
  PROVE  Apart' /\ [Service!Next]_(Service!vars)
  <1>0. QueueTypeOK
    BY DEF PumpTypes
  <1>1. ASSUME UNCHANGED <<air, pending, got, raw, data, buf, xfer, parser, cb>>
        PROVE  Apart' /\ UNCHANGED Service!vars
    BY <1>1, NothingMoves DEF Apart, DataApart, BufApart, StoredFirst
  <1>2. CASE UNCHANGED vars \/ DropBackend
    BY <1>1, <1>2 DEF vars, queueVars, pumpVars, DropBackend, DropOwner
  <1>3. CASE QueueStep /\ UNCHANGED pumpVars
    <2>1. /\ air' = air
          /\ \/ pending' = pending /\ got' = got
             \/ \E c \in Consumers :
                  /\ pending # <<>> /\ pending' = Tail(pending)
                  /\ got' = [got EXCEPT ![c] = @ \cup {Head(pending)}]
      BY <1>0, <1>3, QueueStepTakes
    <2>2. CASE pending' = pending /\ got' = got
      BY <1>1, <1>3, <2>1, <2>2 DEF pumpVars
    <2>3. CASE \E c \in Consumers :
                 /\ pending # <<>> /\ pending' = Tail(pending)
                 /\ got' = [got EXCEPT ![c] = @ \cup {Head(pending)}]
      BY <1>3, <2>1, <2>3, TakeDelivers DEF Service!Next
    <2> QED
      BY <2>1, <2>2, <2>3
  <1>4. CASE Spawn
    <2>1. \A p \in Parsers : buf[p] = <<>>
      BY <1>4 DEF Spawn, Wakes, NotStarted, Apart, BufApart
    <2> QED
      BY <1>4, <2>1, NothingMoves DEF Spawn, Apart, DataApart, StoredFirst
  <1>5. CASE StartEvents \/ Unplug \/ EventsEnd
    BY <1>1, <1>5 DEF StartEvents, Unplug, EventsEnd, queueVars
  <1>6. ASSUME NEW t \in Xfers, Submit(t) \/ Count(t)
        PROVE  Apart' /\ UNCHANGED Service!vars
    <2>1. UNCHANGED <<air, pending, got, raw, data, buf, parser, cb>>
      BY <1>6 DEF Submit, Count, queueVars
    <2>2. \A u \in Xfers : xfer[u] = "done" => xfer'[u] = "done"
      BY <1>6 DEF Submit, Count, PumpTypes
    <2> QED
      BY <2>1, <2>2, NothingMoves DEF Apart, DataApart, BufApart, StoredFirst
  <1>7. ASSUME NEW t \in Xfers, Complete(t)
        PROVE  Apart' /\ [Service!Next]_(Service!vars)
    BY <1>7, CompleteCaptures
  <1>8. ASSUME NEW t \in Xfers, CbStarts(t)
        PROVE  Apart' /\ UNCHANGED Service!vars
    <2>1. UNCHANGED <<air, pending, got, raw, data, buf, xfer, parser>>
      BY <1>8 DEF CbStarts, queueVars
    <2>2. StoredFirst'
      BY <1>8 DEF CbStarts, StoredFirst
    <2> QED
      BY <2>1, <2>2, NothingMoves DEF Apart, DataApart, BufApart
  <1>9. CASE CbStores
    BY <1>9, StoreMoves
  <1>10. CASE CbNotifies
    <2>1. UNCHANGED <<air, pending, got, raw, data, buf, xfer>>
      BY <1>10 DEF CbNotifies, queueVars
    <2>2. StoredFirst'
      BY <1>10, <2>1 DEF CbNotifies, PumpTypes, Callbacks, Apart, StoredFirst
    <2>3. \A p \in Parsers : buf[p] # <<>> => parser'[p] \in {"upgrade", "push"}
      BY <1>10 DEF CbNotifies, PumpTypes, Apart, BufApart
    <2> QED
      BY <2>1, <2>2, <2>3, NothingMoves DEF Apart, DataApart
  <1>11. CASE CbResubmits
    <2>1. /\ cb.t \in Xfers /\ data[cb.t] = <<>>
          /\ UNCHANGED <<air, pending, got, raw, data, buf, parser>>
      BY <1>11, CallbackTypes DEF CbResubmits, queueVars, Apart, StoredFirst
    <2>2. \A u \in Xfers : data[u] # <<>> => xfer'[u] = "done"
      BY <1>11, <2>1 DEF CbResubmits, PumpTypes, Apart, DataApart
    <2>3. StoredFirst'
      BY <1>11 DEF CbResubmits, NoCb, PumpTypes, Callbacks, StoredFirst
    <2> QED
      BY <2>1, <2>2, <2>3, NothingMoves DEF Apart, BufApart
  <1>12. CASE CbFrees
    <2>1. PICK t \in Xfers : cb.t = t
      BY <1>12, CallbackTypes DEF CbFrees
    <2>2. /\ data' = [data EXCEPT ![t] = <<>>] /\ cb' = NoCb
          /\ UNCHANGED <<air, pending, got, raw, buf, parser>>
          /\ \A u \in Xfers \ {t} : xfer[u] = "done" => xfer'[u] = "done"
      BY <1>12, <2>1 DEF CbFrees, queueVars, PumpTypes
    <2>3. StoredFirst'
      BY <2>2 DEF NoCb, StoredFirst
    <2> QED
      BY <2>2, <2>3, DropLoses DEF Service!Next
  <1>13. ASSUME NEW p \in Parsers, ParserStep(p)
         PROVE  Apart' /\ [Service!Next]_(Service!vars)
    <2>1. CASE Notify(p)
      <3>1. /\ UNCHANGED <<air, pending, got, raw, data, buf, xfer, cb>>
            /\ \A q \in Parsers : buf[q] # <<>> => parser'[q] \in {"upgrade", "push"}
        BY <2>1 DEF Notify, PumpTypes, Apart, BufApart
      <3> QED
        BY <3>1, NothingMoves DEF Apart, DataApart, StoredFirst
    <2> QED
      BY <1>13, <2>1, ParserTakes, UpgradeLoses, PushMoves DEF ParserStep
  <1> QED
    BY <1>2, <1>3, <1>4, <1>5, <1>6, <1>7, <1>8, <1>9, <1>10, <1>11, <1>12, <1>13
       DEF Next, SpawnStep, EventStep

\* Through the transfers, the raw queue, the parse threads and the queue of recv,
\* each received frame is handed out once (rx_pump.rs:66-88, 218-286).
THEOREM PumpImplementsService == Spec => ImplementsService
  <1>1. PumpTypes /\ Counts /\ Wakes /\ Apart /\ [Next]_vars
          => Apart' /\ [Service!Next]_(Service!vars)
    BY NextApart
  <1> QED
    BY <1>1, InitApart, InitWakes, NextWakes, TypesAndCounts, PTL
       DEF Spec, ImplementsService, Service!Spec

=============================================================================
