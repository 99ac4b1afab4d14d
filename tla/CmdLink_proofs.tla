--------------------------- MODULE CmdLink_proofs ---------------------------
(* Theorems about CmdLink, for every value of its constants. *)
EXTENDS CmdLink, TLAPS

\* What a step needs to know of the sequences it takes from and adds to.
LEMMA HeadTail ==
  ASSUME NEW S, NEW s \in Seq(S), s # <<>>
  PROVE  Head(s) \in S /\ Tail(s) \in Seq(S)
OBVIOUS

LEMMA Extended ==
  ASSUME NEW S, NEW s \in Seq(S), NEW x \in S
  PROVE  Append(s, x) \in Seq(S) /\ s \o <<x>> \in Seq(S)
OBVIOUS

LEMMA EventCaps == \A e \in Events : e.cap \in Caps
BY DEF Events

\* The events the node and the beacon write are events.
LEMMA EventTypes ==
  ASSUME TypeOK, NEW typ \in EvTypes, NEW r \in Requests, NEW ok \in BOOLEAN
  PROVE  Reply(typ, r, ok) \in Events /\ Unasked(typ, ok) \in Events
BY BoundsAssumption DEF TypeOK, NodeTypeOK, Reply, Unasked, Events, Requests, AllOps, EvTypes

----------------------------------------------------------------------------
LEMMA InitTypeOK == Init => TypeOK
<1> SUFFICES ASSUME Init PROVE TypeOK
  OBVIOUS
<1>1. PICK v \in Values :
        /\ reg = [freq |-> v, sf |-> v]
        /\ mirror = reg
        /\ req = [c \in Callers |-> [id |-> 0, op |-> "tx", val |-> v]]
  BY DEF Init
<1>2. [id |-> 0, op |-> "tx", val |-> v] \in Requests
  BY BoundsAssumption DEF Requests, AllOps
<1>3. reg \in Settings /\ mirror \in Settings /\ req \in [Callers -> Requests]
  BY <1>1, <1>2 DEF Settings
<1>4. cap \in Caps /\ profile \in Caps /\ learned \in [Callers -> Caps]
  BY PhysAssumption DEF Init, Caps
<1>5. HostTypeOK
  BY <1>3, <1>4 DEF Init, HostTypeOK, PcValues
<1>6. NodeTypeOK
  <2>1. 0 \in 0 .. MaxReqs
    BY BoundsAssumption
  <2>2. toNode \in Seq(Requests) /\ toHost \in Seq(Events) /\ ring \in Seq(Requests)
    BY DEF Init
  <2> QED BY <1>3, <1>4, <2>1, <2>2 DEF Init, NodeTypeOK
<1>7. HistoryTypeOK
  <2>1. nextId = 1 /\ nextId \in 1 .. MaxReqs + 1
    BY BoundsAssumption DEF Init
  <2> QED BY <2>1 DEF Init, HistoryTypeOK
<1>8. StageTypeOK
  BY DEF Init, StageTypeOK
<1> QED BY <1>5, <1>6, <1>7, <1>8 DEF TypeOK

LEMMA BeginTypeOK ==
  ASSUME TypeOK, NEW c \in Callers, Issue(c)
  PROVE  TypeOK'
<1> PICK op \in AllOps, v \in Values \cup Phys :
      Begin(c, op, v) /\ (IF op = "phy" THEN v \in Phys ELSE v \in Values)
  BY OpsAssumption DEF Issue
<1> DEFINE r == [id |-> nextId, op |-> op, val |-> v]
<1>1. r \in Requests /\ nextId \in Ids /\ r.op = op /\ r.id = nextId
  BY BoundsAssumption DEF TypeOK, HistoryTypeOK, Begin, Requests, Ids
<1>2. HostTypeOK'
  BY <1>1 DEF TypeOK, HostTypeOK, Begin, PcValues, Settings, readVars
<1>3. NodeTypeOK'
  BY DEF TypeOK, NodeTypeOK, Begin, wireVars, nodeVars
<1>4. HistoryTypeOK'
  BY <1>1, BoundsAssumption DEF TypeOK, HistoryTypeOK, Begin, AllOps, Ids
<1>5. StageTypeOK'
  BY <1>1 DEF TypeOK, HostTypeOK, StageTypeOK, Begin
<1> QED BY <1>2, <1>3, <1>4, <1>5 DEF TypeOK


\* The two ways out of a wait, and out of an operation, keep the types.
LEMMA FinishTypeOK ==
  ASSUME TypeOK, NEW c \in Callers, NEW r \in {"none", "ok", "err"}, Finish(c, r)
  PROVE  /\ pc' \in [Callers -> PcValues] /\ pc'[c] = "idle"
         /\ \A d \in Callers \ {c} : pc'[d] = pc[d]
         /\ result' \in [Ids -> {"none", "ok", "err"}]
BY DEF TypeOK, HostTypeOK, HistoryTypeOK, Finish, PcValues

LEMMA FailTypeOK ==
  ASSUME TypeOK, NEW c \in Callers, Fail(c)
  PROVE  /\ pc' \in [Callers -> PcValues] /\ pc'[c] \in {"idle", "lock"}
         /\ \A d \in Callers \ {c} : pc'[d] = pc[d]
         /\ result' \in [Ids -> {"none", "ok", "err"}]
<1>1. CASE Idempotent(req[c].op) /\ tries[c] < KNOB_ATTEMPTS
  BY <1>1 DEF Fail, TypeOK, HostTypeOK, HistoryTypeOK, PcValues
<1>2. CASE ~(Idempotent(req[c].op) /\ tries[c] < KNOB_ATTEMPTS)
  <2>1. Finish(c, "err")
    BY <1>2 DEF Fail
  <2> QED BY <2>1, FinishTypeOK
<1> QED BY <1>1, <1>2

LEMMA SendModTypeOK ==
  ASSUME TypeOK, NEW c \in Callers, SendMod(c)
  PROVE  TypeOK'
<1>1. CASE HasSpreadingFactor(profile)
  <2>1. /\ req' = [req EXCEPT ![c].val = mirror.sf]
        /\ pc' = [pc EXCEPT ![c] = "lock"] /\ UNCHANGED result
    BY <1>1 DEF SendMod
  <2>2. mirror.sf \in Values /\ req[c].op = "mod" /\ req[c] \in Requests
    BY DEF SendMod, TypeOK, HostTypeOK, StageTypeOK, Settings
  <2>3. [req[c] EXCEPT !.val = mirror.sf] \in Requests
    BY <2>2 DEF Requests
  <2>4. HostTypeOK'
    BY <2>1, <2>3 DEF SendMod, TypeOK, HostTypeOK, PcValues, readVars
  <2>5. StageTypeOK'
    BY <2>1, <2>2 DEF SendMod, TypeOK, HostTypeOK, StageTypeOK, Requests
  <2>6. NodeTypeOK' /\ HistoryTypeOK'
    BY <2>1 DEF SendMod, TypeOK, NodeTypeOK, HistoryTypeOK, wireVars, nodeVars
  <2> QED BY <2>4, <2>5, <2>6 DEF TypeOK
<1>2. CASE ~HasSpreadingFactor(profile)
  <2>1. Finish(c, "err") /\ UNCHANGED req
    BY <1>2 DEF SendMod
  <2>2. /\ pc' \in [Callers -> PcValues] /\ pc'[c] = "idle"
        /\ \A d \in Callers \ {c} : pc'[d] = pc[d]
        /\ result' \in [Ids -> {"none", "ok", "err"}]
    BY <2>1, FinishTypeOK
  <2> QED
    BY <2>1, <2>2
       DEF SendMod, TypeOK, HostTypeOK, NodeTypeOK, HistoryTypeOK, StageTypeOK,
           readVars, wireVars, nodeVars
<1> QED BY <1>1, <1>2

LEMMA ExecOnTypeOK ==
  ASSUME TypeOK, NEW c \in Callers, ExecOn(c)
  PROVE  TypeOK'
<1>1. HostTypeOK'
  BY DEF ExecOn, TypeOK, HostTypeOK, PcValues
<1>2. NodeTypeOK'
  BY DEF ExecOn, TypeOK, HostTypeOK, NodeTypeOK, nodeVars
<1>3. HistoryTypeOK' /\ StageTypeOK'
  BY DEF ExecOn, TypeOK, HostTypeOK, HistoryTypeOK, StageTypeOK, histVars
<1> QED BY <1>1, <1>2, <1>3 DEF TypeOK

LEMMA ExecOnClosedTypeOK ==
  ASSUME TypeOK, NEW c \in Callers, ExecOnClosed(c)
  PROVE  TypeOK'
<1>1. /\ pc' \in [Callers -> PcValues] /\ pc'[c] \in {"idle", "lock"}
      /\ \A d \in Callers \ {c} : pc'[d] = pc[d]
      /\ result' \in [Ids -> {"none", "ok", "err"}]
  BY FailTypeOK DEF ExecOnClosed
<1>2. HostTypeOK'
  <2>1. tries' \in [Callers -> Nat] /\ resp' = <<>>
    BY DEF ExecOnClosed, TypeOK, HostTypeOK
  <2> QED BY <1>1, <2>1 DEF ExecOnClosed, TypeOK, HostTypeOK, PcValues
<1>3. NodeTypeOK' /\ HistoryTypeOK'
  BY <1>1 DEF ExecOnClosed, TypeOK, NodeTypeOK, HistoryTypeOK, wireVars, nodeVars
<1>4. StageTypeOK'
  BY <1>1 DEF ExecOnClosed, TypeOK, StageTypeOK
<1> QED BY <1>2, <1>3, <1>4 DEF TypeOK

\* The request a waiting caller gives up on is one of the requests made.
LEMMA AdriftTypeOK ==
  ASSUME TypeOK, NEW c \in Callers, pc[c] # "idle", NEW e \in Events
  PROVE  AdriftBut(c, e) \subseteq Ids /\ adrift \cup {req[c].id} \subseteq Ids
BY DEF TypeOK, HistoryTypeOK, StageTypeOK, AdriftBut

LEMMA TakeReplyTypeOK ==
  ASSUME TypeOK, NEW c \in Callers, TakeReply(c)
  PROVE  TypeOK'
<1> DEFINE e == Head(resp)
<1>1. e \in Events /\ Tail(resp) \in Seq(Events)
  BY HeadTail DEF TakeReply, TypeOK, HostTypeOK
<1>2. adrift' \subseteq Ids
  BY <1>1, AdriftTypeOK DEF TakeReply
<1>3. /\ pc' \in [Callers -> PcValues]
      /\ \A d \in Callers \ {c} : pc'[d] = pc[d]
      /\ pc'[c] \in {"mirror", "install", "race", "idle"}
      /\ pc'[c] = "mirror" => req[c].op = "freq"
      /\ result' \in [Ids -> {"none", "ok", "err"}]
      /\ learned' \in [Callers -> Caps]
  <2>1. CASE req[c].op = "freq"
    <3>1. pc' = [pc EXCEPT ![c] = "mirror"] /\ UNCHANGED <<result, learned>>
      BY <2>1 DEF TakeReply
    <3> QED BY <2>1, <3>1 DEF TypeOK, HostTypeOK, HistoryTypeOK, PcValues
  <2>2. CASE req[c].op = "phy"
    <3>1. /\ learned' = [learned EXCEPT ![c] = e.cap] /\ UNCHANGED result
          /\ pc' = [pc EXCEPT ![c] =
                      IF e.cap.phy = req[c].val THEN "install" ELSE "race"]
      BY <2>2 DEF TakeReply
    <3>2. e.cap \in Caps
      BY <1>1 DEF Events
    <3> QED BY <3>1, <3>2 DEF TypeOK, HostTypeOK, HistoryTypeOK, PcValues
  <2>3. CASE req[c].op \notin {"freq", "phy"}
    <3>1. Finish(c, IF e.ok THEN "ok" ELSE "err") /\ UNCHANGED learned
      BY <2>3 DEF TakeReply
    <3>2. (IF e.ok THEN "ok" ELSE "err") \in {"none", "ok", "err"}
      OBVIOUS
    <3>3. /\ pc' \in [Callers -> PcValues] /\ pc'[c] = "idle"
          /\ \A d \in Callers \ {c} : pc'[d] = pc[d]
          /\ result' \in [Ids -> {"none", "ok", "err"}]
      BY <3>1, <3>2, FinishTypeOK
    <3> QED BY <3>1, <3>3 DEF TypeOK, HostTypeOK
  <2> QED BY <2>1, <2>2, <2>3
<1>4. HostTypeOK'
  BY <1>1, <1>3 DEF TakeReply, Unlock, TypeOK, HostTypeOK
<1>5. NodeTypeOK' /\ HistoryTypeOK'
  BY <1>2, <1>3 DEF TakeReply, TypeOK, NodeTypeOK, HistoryTypeOK, wireVars, nodeVars
<1>6. StageTypeOK'
  BY <1>3 DEF TakeReply, TypeOK, StageTypeOK
<1> QED BY <1>4, <1>5, <1>6 DEF TypeOK

LEMMA TakeRefusalTypeOK ==
  ASSUME TypeOK, NEW c \in Callers, TakeRefusal(c)
  PROVE  TypeOK'
<1>1. Head(resp) \in Events /\ Tail(resp) \in Seq(Events)
  BY HeadTail DEF TakeRefusal, TypeOK, HostTypeOK
<1>2. adrift' \subseteq Ids
  BY <1>1, AdriftTypeOK DEF TakeRefusal
<1>3. /\ pc' \in [Callers -> PcValues] /\ pc'[c] = "idle"
      /\ \A d \in Callers \ {c} : pc'[d] = pc[d]
      /\ result' \in [Ids -> {"none", "ok", "err"}]
  BY FinishTypeOK DEF TakeRefusal
<1>4. HostTypeOK'
  BY <1>1, <1>3 DEF TakeRefusal, Unlock, TypeOK, HostTypeOK
<1>5. NodeTypeOK' /\ HistoryTypeOK' /\ StageTypeOK'
  BY <1>2, <1>3
     DEF TakeRefusal, TypeOK, NodeTypeOK, HistoryTypeOK, StageTypeOK, wireVars, nodeVars
<1> QED BY <1>4, <1>5 DEF TypeOK

LEMMA SkipEventTypeOK ==
  ASSUME TypeOK, NEW c \in Callers, SkipEvent(c)
  PROVE  TypeOK'
<1>1. Tail(resp) \in Seq(Events)
  BY HeadTail DEF SkipEvent, TypeOK, HostTypeOK
<1> QED
  BY <1>1 DEF SkipEvent, TypeOK, HostTypeOK, NodeTypeOK, HistoryTypeOK, StageTypeOK,
              hostVars, wireVars, nodeVars, histVars

LEMMA GiveUpTypeOK ==
  ASSUME TypeOK, NEW c \in Callers, Timeout(c) \/ Disconnected(c)
  PROVE  TypeOK'
<1>1. /\ pc' \in [Callers -> PcValues] /\ pc'[c] \in {"idle", "lock"}
      /\ \A d \in Callers \ {c} : pc'[d] = pc[d]
      /\ result' \in [Ids -> {"none", "ok", "err"}]
  BY FailTypeOK DEF Timeout, Disconnected
<1>2. adrift' \subseteq Ids /\ disturbed' \in BOOLEAN
  BY DEF Timeout, Disconnected, TypeOK, HistoryTypeOK, StageTypeOK
<1>3. HostTypeOK'
  BY <1>1 DEF Timeout, Disconnected, Unlock, TypeOK, HostTypeOK, readVars
<1>4. NodeTypeOK'
  BY DEF Timeout, Disconnected, TypeOK, NodeTypeOK, wireVars, nodeVars
<1>5. HistoryTypeOK'
  BY <1>1, <1>2 DEF Timeout, Disconnected, TypeOK, HistoryTypeOK
<1>6. StageTypeOK'
  BY <1>1 DEF Timeout, Disconnected, TypeOK, StageTypeOK
<1> QED BY <1>3, <1>4, <1>5, <1>6 DEF TypeOK

LEMMA SetMirrorTypeOK ==
  ASSUME TypeOK, NEW c \in Callers, SetMirror(c)
  PROVE  TypeOK'
<1>1. /\ pc' \in [Callers -> PcValues] /\ pc'[c] = "idle"
      /\ \A d \in Callers \ {c} : pc'[d] = pc[d]
      /\ result' \in [Ids -> {"none", "ok", "err"}]
  BY FinishTypeOK DEF SetMirror
<1>2. req[c].val \in Values
  BY DEF SetMirror, TypeOK, HostTypeOK, StageTypeOK, Requests
<1>3. HostTypeOK'
  BY <1>1, <1>2 DEF SetMirror, TypeOK, HostTypeOK, Settings, readVars
<1>4. NodeTypeOK' /\ HistoryTypeOK' /\ StageTypeOK'
  BY <1>1 DEF SetMirror, TypeOK, NodeTypeOK, HistoryTypeOK, StageTypeOK,
              wireVars, nodeVars
<1> QED BY <1>3, <1>4 DEF TypeOK

LEMMA InstallTypeOK ==
  ASSUME TypeOK, NEW c \in Callers, Install(c)
  PROVE  TypeOK'
<1>1. /\ pc' \in [Callers -> PcValues] /\ pc'[c] = "idle"
      /\ \A d \in Callers \ {c} : pc'[d] = pc[d]
      /\ result' \in [Ids -> {"none", "ok", "err"}]
  BY FinishTypeOK DEF Install
<1>2. HostTypeOK'
  BY <1>1 DEF Install, TypeOK, HostTypeOK, readVars
<1>3. NodeTypeOK' /\ HistoryTypeOK' /\ StageTypeOK'
  BY <1>1 DEF Install, TypeOK, NodeTypeOK, HistoryTypeOK, StageTypeOK,
              wireVars, nodeVars
<1> QED BY <1>2, <1>3 DEF TypeOK

LEMMA RecvOnTypeOK ==
  ASSUME TypeOK, NEW c \in Callers, RecvOn(c) \/ RecvOnCap(c) \/ RecvOnTimeout(c)
  PROVE  TypeOK'
<1>1. CASE RecvOn(c)
  BY <1>1 DEF RecvOn, TypeOK, HostTypeOK, NodeTypeOK, HistoryTypeOK, StageTypeOK,
              PcValues, readVars, wireVars, nodeVars, histVars
<1>2. CASE RecvOnCap(c)
  <2>1. Head(resp).cap \in Caps /\ Tail(resp) \in Seq(Events)
    BY <1>2, HeadTail, EventCaps DEF RecvOnCap, TypeOK, HostTypeOK
  <2>2. HostTypeOK'
    BY <1>2, <2>1 DEF RecvOnCap, Unlock, TypeOK, HostTypeOK, PcValues
  <2>3. NodeTypeOK' /\ HistoryTypeOK' /\ StageTypeOK'
    BY <1>2 DEF RecvOnCap, TypeOK, HostTypeOK, NodeTypeOK, HistoryTypeOK, StageTypeOK,
                wireVars, nodeVars, histVars
  <2> QED BY <2>2, <2>3 DEF TypeOK
<1>3. CASE RecvOnTimeout(c)
  BY <1>3 DEF RecvOnTimeout, Unlock, TypeOK, HostTypeOK, NodeTypeOK, HistoryTypeOK,
              StageTypeOK, PcValues, readVars, wireVars, nodeVars, histVars
<1> QED BY <1>1, <1>2, <1>3

LEMMA CallerStepTypeOK ==
  ASSUME TypeOK, NEW c \in Callers, CallerStep(c)
  PROVE  TypeOK'
BY SendModTypeOK, ExecOnTypeOK, ExecOnClosedTypeOK, TakeReplyTypeOK,
   TakeRefusalTypeOK, SkipEventTypeOK, GiveUpTypeOK, SetMirrorTypeOK,
   InstallTypeOK, RecvOnTypeOK
   DEF CallerStep

----------------------------------------------------------------------------
LEMMA ReaderStepTypeOK ==
  ASSUME TypeOK, ReaderStep
  PROVE  TypeOK'
<1>1. CASE ReaderStoresCap
  <2>1. /\ Head(toHost) \in Events /\ Head(toHost).cap \in Caps
        /\ Tail(toHost) \in Seq(Events)
    BY <1>1, HeadTail, EventCaps DEF ReaderStoresCap, TypeOK, NodeTypeOK
  <2>11. HostTypeOK'
    BY <1>1, <2>1 DEF ReaderStoresCap, TypeOK, HostTypeOK
  <2>12. NodeTypeOK'
    BY <1>1, <2>1 DEF ReaderStoresCap, TypeOK, NodeTypeOK, nodeVars
  <2>13. HistoryTypeOK'
    BY <1>1, <2>1 DEF ReaderStoresCap, TypeOK, HistoryTypeOK, histVars
  <2>14. StageTypeOK'
    BY <1>1, <2>1 DEF ReaderStoresCap, TypeOK, StageTypeOK
  <2> QED BY <2>11, <2>12, <2>13, <2>14 DEF TypeOK
<1>2. CASE ReaderOffersCap
  <2>1. resp \o offering \in Seq(Events)
    BY DEF TypeOK, HostTypeOK
  <2>11. HostTypeOK'
    BY <1>2, <2>1 DEF ReaderOffersCap, TypeOK, HostTypeOK, hostVars
  <2>12. NodeTypeOK'
    BY <1>2, <2>1 DEF ReaderOffersCap, TypeOK, NodeTypeOK, wireVars, nodeVars
  <2>13. HistoryTypeOK'
    BY <1>2, <2>1 DEF ReaderOffersCap, TypeOK, HistoryTypeOK, histVars
  <2>14. StageTypeOK'
    BY <1>2, <2>1 DEF ReaderOffersCap, TypeOK, StageTypeOK, hostVars
  <2> QED BY <2>11, <2>12, <2>13, <2>14 DEF TypeOK
<1>3. CASE ReaderForwards
  <2>1. Head(toHost) \in Events /\ Tail(toHost) \in Seq(Events)
    BY <1>3, HeadTail DEF ReaderForwards, TypeOK, NodeTypeOK
  <2>11. HostTypeOK'
    BY <1>3, <2>1 DEF ReaderForwards, TypeOK, HostTypeOK, hostVars
  <2>12. NodeTypeOK'
    BY <1>3, <2>1 DEF ReaderForwards, TypeOK, NodeTypeOK, nodeVars
  <2>13. HistoryTypeOK'
    BY <1>3, <2>1 DEF ReaderForwards, TypeOK, HistoryTypeOK, histVars
  <2>14. StageTypeOK'
    BY <1>3, <2>1 DEF ReaderForwards, TypeOK, StageTypeOK, hostVars
  <2> QED BY <2>11, <2>12, <2>13, <2>14 DEF TypeOK
<1> QED BY <1>1, <1>2, <1>3 DEF ReaderStep

LEMMA LineStepTypeOK ==
  ASSUME TypeOK, LineStep
  PROVE  TypeOK'
<1>1. CASE PortFails
  <2>11. HostTypeOK'
    BY <1>1 DEF PortFails, TypeOK, HostTypeOK, hostVars
  <2>12. NodeTypeOK'
    BY <1>1 DEF PortFails, TypeOK, NodeTypeOK, nodeVars
  <2>13. HistoryTypeOK'
    BY <1>1 DEF PortFails, TypeOK, HistoryTypeOK
  <2>14. StageTypeOK'
    BY <1>1 DEF PortFails, TypeOK, StageTypeOK, hostVars
  <2> QED BY <2>11, <2>12, <2>13, <2>14 DEF TypeOK
<1>2. CASE LoseEvent \/ LoseCommand
  <2>1. toNode' \in Seq(Requests) /\ toHost' \in Seq(Events) /\ lost' \in Nat
    <3>1. CASE LoseEvent
      <4>1. Tail(toHost) \in Seq(Events)
        BY <3>1, HeadTail DEF LoseEvent, TypeOK, NodeTypeOK
      <4> QED BY <3>1, <4>1 DEF LoseEvent, TypeOK, NodeTypeOK
    <3>2. CASE LoseCommand
      <4>1. Tail(toNode) \in Seq(Requests)
        BY <3>2, HeadTail DEF LoseCommand, TypeOK, NodeTypeOK
      <4> QED BY <3>2, <4>1 DEF LoseCommand, TypeOK, NodeTypeOK
    <3> QED BY <1>2, <3>1, <3>2
  <2>11. HostTypeOK'
    BY <1>2, <2>1 DEF LoseEvent, LoseCommand, TypeOK, HostTypeOK, hostVars, readVars
  <2>12. NodeTypeOK'
    BY <1>2, <2>1 DEF LoseEvent, LoseCommand, TypeOK, NodeTypeOK, nodeVars
  <2>13. HistoryTypeOK'
    BY <1>2, <2>1 DEF LoseEvent, LoseCommand, TypeOK, HistoryTypeOK, histVars
  <2>14. StageTypeOK'
    BY <1>2, <2>1 DEF LoseEvent, LoseCommand, TypeOK, StageTypeOK, hostVars
  <2> QED BY <2>11, <2>12, <2>13, <2>14 DEF TypeOK
<1> QED BY <1>1, <1>2 DEF LineStep

----------------------------------------------------------------------------
LEMMA ArriveTypeOK ==
  ASSUME TypeOK, Arrive
  PROVE  TypeOK'
<1>1. Head(toNode) \in Requests /\ Tail(toNode) \in Seq(Requests)
  BY HeadTail DEF Arrive, TypeOK, NodeTypeOK
<1>2. ring' \in Seq(Requests) /\ overrun' \in BOOLEAN
  <2>1. Append(ring, Head(toNode)) \in Seq(Requests)
    BY <1>1 DEF TypeOK, NodeTypeOK
  <2>2. CASE Busy <= RingCap
    BY <2>1, <2>2 DEF Arrive, TypeOK, HistoryTypeOK
  <2>3. CASE ~(Busy <= RingCap)
    BY <2>3 DEF Arrive, TypeOK, NodeTypeOK
  <2> QED BY <2>2, <2>3
<1>11. HostTypeOK'
  BY <1>1, <1>2 DEF Arrive, TypeOK, HostTypeOK, hostVars, readVars
<1>12. NodeTypeOK'
  BY <1>1, <1>2 DEF Arrive, TypeOK, NodeTypeOK
<1>13. HistoryTypeOK'
  BY <1>1, <1>2 DEF Arrive, TypeOK, HistoryTypeOK
<1>14. StageTypeOK'
  BY <1>1, <1>2 DEF Arrive, TypeOK, StageTypeOK, hostVars
<1> QED BY <1>11, <1>12, <1>13, <1>14 DEF TypeOK

\* What handle_cmd finds at the head of the ring, and what is left of it.
LEMMA ServingTypeOK ==
  ASSUME TypeOK, NEW op \in AllOps, Serving(op)
  PROVE  /\ Head(ring) \in Requests /\ Head(ring).id \in 0 .. MaxReqs
         /\ Head(ring).op = op
         /\ op = "phy" => Head(ring).val \in Phys
         /\ op # "phy" => Head(ring).val \in Values
         /\ Tail(ring) \in Seq(Requests)
<1>1. Head(ring) \in Requests /\ Tail(ring) \in Seq(Requests) /\ Head(ring).op = op
  BY HeadTail DEF Serving, TypeOK, NodeTypeOK
<1> QED BY <1>1 DEF Requests

\* handle_cmd leaves the host alone, and changes of the node what it must.
LEMMA HandledTypeOK ==
  ASSUME TypeOK, UNCHANGED NodeElse,
         ring' \in Seq(Requests), toHost' \in Seq(Events), slot' \in 0 .. MaxReqs,
         reg' \in Settings, cap' \in Caps, served' \in [Ids -> Nat],
         disturbed' \in BOOLEAN, staged' \in BOOLEAN, loaded' \in 0 .. MaxReqs
  PROVE  TypeOK'
<1>11. HostTypeOK'
  BY DEF NodeElse, TypeOK, HostTypeOK, hostVars, readVars
<1>12. NodeTypeOK'
  BY DEF NodeElse, TypeOK, NodeTypeOK
<1>13. HistoryTypeOK'
  BY DEF NodeElse, TypeOK, HistoryTypeOK
<1>14. StageTypeOK'
  BY DEF NodeElse, TypeOK, StageTypeOK, hostVars
<1> QED BY <1>11, <1>12, <1>13, <1>14 DEF TypeOK

LEMMA ExecuteTypeOK ==
  ASSUME TypeOK, NEW id, Execute(id)
  PROVE  served' \in [Ids -> Nat]
<1>1. served \in [Ids -> Nat] /\ served' = [served EXCEPT ![id] = served[id] + 1]
  BY DEF TypeOK, HistoryTypeOK, Execute
<1>2. CASE id \in Ids
  BY <1>1, <1>2
<1>3. CASE id \notin Ids
  BY <1>1, <1>3
<1> QED BY <1>2, <1>3

LEMMA AnswerTypeOK ==
  ASSUME TypeOK, NEW op \in AllOps, Serving(op), NEW evs \in Seq(Events), Answer(evs)
  PROVE  ring' \in Seq(Requests) /\ toHost' \in Seq(Events)
<1>1. Tail(ring) \in Seq(Requests)
  BY ServingTypeOK
<1> QED BY <1>1 DEF Answer, TypeOK, NodeTypeOK

LEMMA OneOrTwo ==
  ASSUME NEW S, NEW x \in S, NEW y \in S
  PROVE  <<>> \in Seq(S) /\ <<x>> \in Seq(S) /\ <<x, y>> \in Seq(S)
OBVIOUS

LEMMA Concatenated ==
  ASSUME NEW S, NEW s \in Seq(S), NEW t \in Seq(S)
  PROVE  s \o t \in Seq(S)
OBVIOUS

LEMMA HandleTypeOK ==
  ASSUME TypeOK,
         \/ HandleTx \/ HandleTxAt \/ RefuseTxAt \/ HandleSetFreq \/ HandleSetMod
         \/ HandleSetPhy \/ RefuseSetPhy
  PROVE  TypeOK'
<1> DEFINE r == Head(ring)
<1>0. /\ ring \in Seq(Requests) /\ toHost \in Seq(Events) /\ slot \in 0 .. MaxReqs
      /\ reg \in Settings /\ cap \in Caps /\ served \in [Ids -> Nat]
      /\ disturbed \in BOOLEAN
  BY DEF TypeOK, NodeTypeOK, HistoryTypeOK
<1>9. staged' \in BOOLEAN /\ loaded' \in 0 .. MaxReqs
  <2>1. staged \in BOOLEAN /\ loaded \in 0 .. MaxReqs /\ 0 \in 0 .. MaxReqs
    BY BoundsAssumption DEF TypeOK, NodeTypeOK
  <2>2. staged' \in {staged, FALSE} /\ loaded' \in {loaded, 0}
    BY DEF HandleTx, HandleTxAt, RefuseTxAt, HandleSetFreq, HandleSetMod, HandleSetPhy,
           RefuseSetPhy, Rearm
  <2> QED BY <2>1, <2>2
<1>1. CASE HandleTx
  <2>1. r \in Requests /\ Tail(ring) \in Seq(Requests)
    BY <1>1, ServingTypeOK DEF HandleTx, AllOps
  <2>2. PICK ok \in BOOLEAN : Answer(<<Reply("TXDONE", r, ok)>>)
    BY <1>1 DEF HandleTx
  <2>3. Reply("TXDONE", r, ok) \in Events
    BY <2>1, EventTypes DEF EvTypes
  <2>4. ring' \in Seq(Requests) /\ toHost' \in Seq(Events)
    BY <1>0, <2>1, <2>2, <2>3 DEF Answer
  <2>5. served' \in [Ids -> Nat]
    BY <1>1, ExecuteTypeOK DEF HandleTx
  <2> QED BY <1>9, <1>0, <1>1, <2>4, <2>5, HandledTypeOK DEF HandleTx
<1>2. CASE HandleTxAt
  <2>1. r \in Requests /\ r.id \in 0 .. MaxReqs /\ Tail(ring) \in Seq(Requests)
    BY <1>2, ServingTypeOK DEF HandleTxAt, AllOps
  <2>2. Reply("TXDONE", r, FALSE) \in Events
    BY <2>1, EventTypes DEF EvTypes
  <2>3. /\ ring' \in Seq(Requests) /\ toHost' \in Seq(Events)
        /\ slot' \in 0 .. MaxReqs
    <3>1. CASE slot = 0
      <4>1. slot' = r.id /\ Answer(<<>>) /\ Serving("txat")
        BY <1>2, <3>1 DEF HandleTxAt
      <4> QED BY <2>1, <2>2, <4>1, AnswerTypeOK, OneOrTwo DEF AllOps
    <3>2. CASE slot # 0
      <4>1. slot' = slot /\ Answer(<<Reply("TXDONE", r, FALSE)>>) /\ Serving("txat")
        BY <1>2, <3>2 DEF HandleTxAt
      <4> QED BY <1>0, <2>2, <4>1, AnswerTypeOK, OneOrTwo DEF AllOps
    <3> QED BY <3>1, <3>2
  <2> QED BY <1>9, <1>0, <1>2, <2>3, HandledTypeOK DEF HandleTxAt
<1>6. CASE RefuseTxAt
  <2>1. r \in Requests
    BY <1>6, ServingTypeOK DEF RefuseTxAt, AllOps
  <2>2. Reply("UNSUPPORTED", r, FALSE) \in Events
    BY <2>1, EventTypes DEF EvTypes
  <2>3. Answer(<<Reply("UNSUPPORTED", r, FALSE)>>) /\ Serving("txat")
    BY <1>6 DEF RefuseTxAt
  <2>4. ring' \in Seq(Requests) /\ toHost' \in Seq(Events)
    BY <2>2, <2>3, AnswerTypeOK, OneOrTwo DEF AllOps
  <2> QED BY <1>9, <1>0, <1>6, <2>4, HandledTypeOK DEF RefuseTxAt
<1>3. CASE HandleSetFreq
  <2>1. r \in Requests /\ r.val \in Values /\ Tail(ring) \in Seq(Requests)
    BY <1>3, ServingTypeOK DEF HandleSetFreq, AllOps
  <2>2. Reply("INFO", r, TRUE) \in Events
    BY <2>1, EventTypes DEF EvTypes
  <2>3. ring' \in Seq(Requests) /\ toHost' \in Seq(Events) /\ reg' \in Settings
    <3>1. Answer(<<Reply("INFO", r, TRUE)>>) /\ Serving("freq")
      BY <1>3 DEF HandleSetFreq
    <3>2. reg' \in Settings
      BY <1>0, <1>3, <2>1 DEF HandleSetFreq, Settings
    <3> QED BY <2>2, <3>1, <3>2, AnswerTypeOK, OneOrTwo DEF AllOps
  <2>4. served' \in [Ids -> Nat]
    BY <1>3, ExecuteTypeOK DEF HandleSetFreq
  <2> QED BY <1>9, <1>0, <1>3, <2>3, <2>4, HandledTypeOK DEF HandleSetFreq
<1>4. CASE HandleSetMod
  <2>1. r \in Requests /\ r.val \in Values /\ Tail(ring) \in Seq(Requests)
    BY <1>4, ServingTypeOK DEF HandleSetMod, AllOps
  <2>2. Reply("INFO", r, TRUE) \in Events /\ Reply("UNSUPPORTED", r, FALSE) \in Events
    BY <2>1, EventTypes DEF EvTypes
  <2>3. /\ ring' \in Seq(Requests) /\ toHost' \in Seq(Events) /\ reg' \in Settings
        /\ served' \in [Ids -> Nat]
    <3>1. CASE HasSpreadingFactor(cap)
      <4>1. Execute(r.id)
        BY <1>4, <3>1 DEF HandleSetMod
      <4>2. served' \in [Ids -> Nat]
        BY <4>1, ExecuteTypeOK
      <4>3. Answer(<<Reply("INFO", r, TRUE)>>) /\ Serving("mod")
        BY <1>4, <3>1 DEF HandleSetMod
      <4>4. reg' \in Settings
        BY <1>0, <1>4, <2>1, <3>1 DEF HandleSetMod, Settings
      <4> QED BY <2>2, <4>2, <4>3, <4>4, AnswerTypeOK, OneOrTwo DEF AllOps
    <3>2. CASE ~HasSpreadingFactor(cap)
      <4>1. Answer(<<Reply("UNSUPPORTED", r, FALSE)>>) /\ Serving("mod")
        BY <1>4, <3>2 DEF HandleSetMod
      <4>2. reg' = reg /\ served' = served
        BY <1>4, <3>2 DEF HandleSetMod
      <4> QED BY <1>0, <2>2, <4>1, <4>2, AnswerTypeOK, OneOrTwo DEF AllOps
    <3> QED BY <3>1, <3>2
  <2> QED BY <1>9, <1>0, <1>4, <2>3, HandledTypeOK DEF HandleSetMod
<1>5. CASE HandleSetPhy \/ RefuseSetPhy
  <2>1. r \in Requests /\ r.val \in Phys /\ Tail(ring) \in Seq(Requests)
    BY <1>5, ServingTypeOK DEF HandleSetPhy, RefuseSetPhy, AllOps
  <2>2. Cancelled \in Seq(Events)
    <3>1. Reply("TXDONE", r, FALSE) \in Events
      BY <2>1, EventTypes DEF EvTypes
    <3>2. [Reply("TXDONE", r, FALSE) EXCEPT !.id = slot] \in Events
      BY <1>0, <3>1 DEF Events
    <3> QED BY <3>2 DEF Cancelled
  <2>3. Reply("PHY_ERR", r, FALSE) \in Events /\ Reply("CAP", r, TRUE) \in Events
    BY <2>1, EventTypes DEF EvTypes
  <2>4. CASE HandleSetPhy
    <3> DEFINE e == [Reply("CAP", r, TRUE) EXCEPT !.cap = cap']
    <3>1. cap' \in Caps
      BY <1>0, <2>1, <2>4 DEF HandleSetPhy, Caps
    <3>2. e \in Events
      BY <2>3, <3>1 DEF Events
    <3>3. \/ Answer(Cancelled \o <<e>>) /\ UNCHANGED disturbed
          \/ Answer(Cancelled \o <<e>> \o <<Reply("PHY_ERR", r, FALSE)>>) /\ disturbed' = TRUE
      BY <2>4 DEF HandleSetPhy
    <3>4. Cancelled \o <<e>> \in Seq(Events)
      BY <2>2, <3>2
    <3>5. Cancelled \o <<e>> \o <<Reply("PHY_ERR", r, FALSE)>> \in Seq(Events)
      BY <2>3, <3>4, OneOrTwo, Concatenated
    <3>6. /\ ring' \in Seq(Requests) /\ toHost' \in Seq(Events)
          /\ disturbed' \in BOOLEAN
      <4> HIDE DEF e
      <4>1. CASE Answer(Cancelled \o <<e>>) /\ UNCHANGED disturbed
        <5>1. ring' \in Seq(Requests) /\ toHost' \in Seq(Events)
          BY <2>4, <3>4, <4>1, AnswerTypeOK DEF HandleSetPhy, AllOps
        <5> QED BY <1>0, <4>1, <5>1
      <4>2. CASE Answer(Cancelled \o <<e>> \o <<Reply("PHY_ERR", r, FALSE)>>) /\ disturbed' = TRUE
        BY <2>4, <3>5, <4>2, AnswerTypeOK DEF HandleSetPhy, AllOps
      <4> QED BY <3>3, <4>1, <4>2
    <3>7. served' \in [Ids -> Nat]
      BY <2>4, ExecuteTypeOK DEF HandleSetPhy
    <3>8. slot' \in 0 .. MaxReqs /\ reg' \in Settings /\ UNCHANGED NodeElse
      BY <1>0, <2>4, BoundsAssumption DEF HandleSetPhy
    <3> QED BY <1>9, <3>1, <3>6, <3>7, <3>8, HandledTypeOK
  <2>5. CASE RefuseSetPhy
    <3>1. Cancelled \o <<Reply("PHY_ERR", r, FALSE)>> \in Seq(Events)
      BY <2>2, <2>3, OneOrTwo, Concatenated
    <3>2. ring' \in Seq(Requests) /\ toHost' \in Seq(Events)
      BY <2>5, <3>1, AnswerTypeOK DEF RefuseSetPhy, AllOps
    <3>3. slot' \in 0 .. MaxReqs
      BY <2>5, BoundsAssumption DEF RefuseSetPhy
    <3> QED BY <1>9, <1>0, <2>5, <3>2, <3>3, HandledTypeOK DEF RefuseSetPhy
  <2> QED BY <1>5, <2>4, <2>5
<1> QED BY <1>1, <1>2, <1>3, <1>4, <1>5, <1>6

LEMMA SchedTypeOK ==
  ASSUME TypeOK, SchedStage \/ SchedIssue \/ SchedDone
  PROVE  TypeOK'
<1>1. CASE SchedIssue
  <2>1. served' \in [Ids -> Nat]
    <3>1. CASE Execute(slot)
      BY <3>1, ExecuteTypeOK
    <3>2. CASE UNCHANGED served
      BY <3>2 DEF TypeOK, HistoryTypeOK
    <3> QED BY <1>1, <3>1, <3>2 DEF SchedIssue
  <2>2. HostTypeOK' /\ StageTypeOK'
    BY <1>1 DEF SchedIssue, TypeOK, HostTypeOK, StageTypeOK, hostVars, readVars
  <2>3. NodeTypeOK' /\ HistoryTypeOK'
    BY <1>1, <2>1 DEF SchedIssue, TypeOK, NodeTypeOK, HistoryTypeOK, wireVars
  <2> QED BY <2>2, <2>3 DEF TypeOK
<1>2. CASE SchedDone
  <2>0. /\ slot' \in 0 .. MaxReqs /\ staged' \in BOOLEAN /\ loaded' \in 0 .. MaxReqs
        /\ UNCHANGED <<toNode, lost, ring, reg, beacons>> /\ airing' = "none"
    <3>1. slot' = 0 /\ staged' = FALSE /\ loaded' = 0 /\ 0 \in 0 .. MaxReqs
      BY <1>2, BoundsAssumption DEF SchedDone, Rearm
    <3>2. UNCHANGED <<toNode, lost, ring, reg, beacons>> /\ airing' = "none"
      BY <1>2 DEF SchedDone
    <3> QED BY <3>1, <3>2
  <2>1. PICK ok \in BOOLEAN :
          LET done == <<[Unasked("TXDONE", ok) EXCEPT !.id = slot]>> IN
          \/ toHost' = toHost \o done /\ UNCHANGED <<cap, pushes, disturbed>>
          \/ /\ pushes' = pushes + 1
             /\ cap' = [cap EXCEPT !.ver = @ + 1]
             /\ toHost' = toHost \o done \o <<[Unasked("CAP", TRUE) EXCEPT !.cap = cap']>>
             /\ disturbed' = TRUE
    BY <1>2 DEF SchedDone
  <2> DEFINE done == [Unasked("TXDONE", ok) EXCEPT !.id = slot]
             push == [Unasked("CAP", TRUE) EXCEPT !.cap = cap']
  <2>2. /\ toHost \in Seq(Events) /\ slot \in 0 .. MaxReqs /\ cap \in Caps
        /\ pushes \in Nat /\ disturbed \in BOOLEAN
    BY DEF TypeOK, NodeTypeOK, HistoryTypeOK
  <2>3. cap' \in Caps /\ pushes' \in Nat /\ disturbed' \in BOOLEAN
    <3>1. \/ UNCHANGED <<cap, pushes, disturbed>>
          \/ /\ pushes' = pushes + 1 /\ cap' = [cap EXCEPT !.ver = @ + 1]
             /\ disturbed' = TRUE
      BY <2>1
    <3>2. [cap EXCEPT !.ver = @ + 1] \in Caps
      BY <2>2 DEF Caps
    <3>3. disturbed' \in BOOLEAN
      BY <2>2, <3>1, Zenon
    <3> QED BY <2>2, <3>1, <3>2, <3>3
  <2>4. \A ok1 \in BOOLEAN : Unasked("TXDONE", ok1) \in Events /\ Unasked("CAP", ok1) \in Events
    BY <2>2, BoundsAssumption DEF Unasked, Events, EvTypes, AllOps
  <2>5. done \in Events /\ push \in Events
    BY <2>2, <2>3, <2>4 DEF Events
  <2>6. \/ toHost' = toHost \o <<done>>
        \/ toHost' = toHost \o <<done>> \o <<push>>
    BY <2>1
  <2>7. toHost' \in Seq(Events)
    <3> HIDE DEF done, push
    <3>1. toHost \o <<done>> \in Seq(Events)
      BY <2>2, <2>5, OneOrTwo, Concatenated
    <3>2. toHost \o <<done>> \o <<push>> \in Seq(Events)
      BY <2>5, <3>1, OneOrTwo, Concatenated
    <3> QED BY <2>6, <3>1, <3>2
  <2>8. HostTypeOK' /\ StageTypeOK'
    BY <1>2 DEF SchedDone, TypeOK, HostTypeOK, StageTypeOK, hostVars, readVars
  <2>9. NodeTypeOK'
    BY <2>0, <2>3, <2>7 DEF TypeOK, NodeTypeOK
  <2>10. HistoryTypeOK'
    BY <1>2, <2>3 DEF SchedDone, TypeOK, HistoryTypeOK
  <2> QED BY <2>8, <2>9, <2>10 DEF TypeOK
<1>3. CASE SchedStage
  <2>1. HostTypeOK' /\ StageTypeOK'
    BY <1>3 DEF SchedStage, TypeOK, HostTypeOK, StageTypeOK, hostVars, readVars
  <2>2. NodeTypeOK' /\ HistoryTypeOK'
    BY <1>3 DEF SchedStage, TypeOK, NodeTypeOK, HistoryTypeOK, wireVars, histVars
  <2> QED BY <2>1, <2>2 DEF TypeOK
<1> QED BY <1>1, <1>2, <1>3

LEMMA BeaconTypeOK ==
  ASSUME TypeOK, BeaconStart \/ BeaconDone \/ RelayStart \/ RelayDone
  PROVE  TypeOK'
<1>1. toHost' \in Seq(Events)
  <2>1. CASE BeaconStart \/ RelayStart \/ RelayDone
    BY <2>1 DEF BeaconStart, RelayStart, RelayDone, TypeOK, NodeTypeOK, wireVars
  <2>2. CASE BeaconDone
    <3>1. PICK ok \in BOOLEAN : toHost' = Append(toHost, Unasked("TXDONE", ok))
      BY <2>2 DEF BeaconDone
    <3>2. Unasked("TXDONE", ok) \in Events
      BY BoundsAssumption DEF TypeOK, NodeTypeOK, Unasked, Events, EvTypes, AllOps
    <3> QED BY <3>1, <3>2 DEF TypeOK, NodeTypeOK
  <2> QED BY <2>1, <2>2
<1>2. HostTypeOK'
  BY DEF BeaconStart, BeaconDone, RelayStart, RelayDone, TypeOK, HostTypeOK, hostVars, readVars
<1>3. NodeTypeOK'
  BY <1>1 DEF BeaconStart, BeaconDone, RelayStart, RelayDone, TypeOK, NodeTypeOK, wireVars
<1>4. HistoryTypeOK'
  BY DEF BeaconStart, BeaconDone, RelayStart, RelayDone, TypeOK, HistoryTypeOK, histVars
<1>5. StageTypeOK'
  BY DEF BeaconStart, BeaconDone, RelayStart, RelayDone, TypeOK, StageTypeOK, hostVars
<1> QED BY <1>2, <1>3, <1>4, <1>5 DEF TypeOK

LEMMA NextTypeOK == TypeOK /\ [Next]_vars => TypeOK'
<1> SUFFICES ASSUME TypeOK, [Next]_vars PROVE TypeOK'
  OBVIOUS
<1>1. CASE \E c \in Callers : Issue(c) \/ CallerStep(c)
  BY <1>1, BeginTypeOK, CallerStepTypeOK
<1>2. CASE ReaderStep \/ LineStep
  BY <1>2, ReaderStepTypeOK, LineStepTypeOK
<1>3. CASE NodeStep
  BY <1>3, ArriveTypeOK, HandleTypeOK, SchedTypeOK, BeaconTypeOK DEF NodeStep
<1>4. CASE UNCHANGED vars
  <2>1. HostTypeOK' /\ StageTypeOK'
    BY <1>4 DEF vars, hostVars, readVars, TypeOK, HostTypeOK, StageTypeOK
  <2>2. NodeTypeOK'
    BY <1>4 DEF vars, wireVars, nodeVars, TypeOK, NodeTypeOK
  <2>3. HistoryTypeOK'
    BY <1>4 DEF vars, histVars, TypeOK, HistoryTypeOK
  <2> QED BY <2>1, <2>2, <2>3 DEF TypeOK
<1> QED BY <1>1, <1>2, <1>3, <1>4 DEF Next

\* Every variable of the link keeps its type, and every stage of an operation
\* the request it belongs to (exec_on and its callers, reader_loop, handle_cmd).
THEOREM TypeCorrect == Spec => []TypeOK
BY InitTypeOK, NextTypeOK, PTL DEF Spec

----------------------------------------------------------------------------
(* The mutex.                                                              *)

LEMMA NextLocked == TypeOK /\ LockedWhileWaiting /\ [Next]_vars => LockedWhileWaiting'
<1> SUFFICES ASSUME TypeOK, LockedWhileWaiting, [Next]_vars
             PROVE  LockedWhileWaiting'
  OBVIOUS
<1> USE DEF LockedWhileWaiting, Waiting
<1>0. pc \in [Callers -> PcValues]
  BY DEF TypeOK, HostTypeOK
<1>1. ASSUME NEW c \in Callers, Issue(c)
      PROVE  LockedWhileWaiting'
  <2>1. PICK op \in AllOps, v \in Values \cup Phys : Begin(c, op, v)
    BY <1>1, OpsAssumption DEF Issue
  <2>2. /\ pc[c] = "idle" /\ lock' = lock
        /\ \E s \in {"send_mod", "lock"} : pc' = [pc EXCEPT ![c] = s]
    BY <2>1 DEF Begin
  <2> QED BY <1>0, <2>2
<1>2. ASSUME NEW c \in Callers, SendMod(c) \/ SetMirror(c) \/ Install(c)
      PROVE  LockedWhileWaiting'
  <2>1. /\ pc[c] \in {"send_mod", "mirror", "install"} /\ lock' = lock
        /\ \E s \in {"lock", "idle"} : pc' = [pc EXCEPT ![c] = s]
    BY <1>2 DEF SendMod, SetMirror, Install, Finish
  <2> QED BY <1>0, <2>1
<1>3. ASSUME NEW c \in Callers, ExecOn(c) \/ RecvOn(c)
      PROVE  LockedWhileWaiting'
  <2>1. /\ lock = NoCaller /\ lock' = c
        /\ \E s \in {"wait", "race_wait"} : pc' = [pc EXCEPT ![c] = s]
    BY <1>3 DEF ExecOn, RecvOn, CanLock
  <2> QED BY <1>0, <2>1, CallersAssumption
<1>4. ASSUME NEW c \in Callers, ExecOnClosed(c)
      PROVE  LockedWhileWaiting'
  <2>1. /\ pc[c] = "lock" /\ lock' = lock
        /\ \E s \in {"lock", "idle"} : pc' = [pc EXCEPT ![c] = s]
    BY <1>4 DEF ExecOnClosed, Fail, Finish
  <2> QED BY <1>0, <2>1
<1>5. ASSUME NEW c \in Callers,
             TakeReply(c) \/ TakeRefusal(c) \/ Timeout(c) \/ Disconnected(c)
               \/ RecvOnCap(c) \/ RecvOnTimeout(c)
      PROVE  LockedWhileWaiting'
  <2>1. /\ lock = c /\ lock' = NoCaller
        /\ \E s \in PcValues \ {"wait", "race_wait"} : pc' = [pc EXCEPT ![c] = s]
    BY <1>5 DEF TakeReply, TakeRefusal, Timeout, Disconnected, RecvOnCap,
                RecvOnTimeout, Unlock, Fail, Finish, PcValues
  <2> QED BY <1>0, <2>1, CallersAssumption
<1>6. CASE \/ \E c \in Callers : SkipEvent(c)
           \/ ReaderStep \/ LineStep \/ NodeStep \/ UNCHANGED vars
  <2>1. lock' = lock /\ pc' = pc
    BY <1>6 DEF SkipEvent, ReaderStep, ReaderStoresCap, ReaderOffersCap, ReaderForwards,
                LineStep, PortFails, LoseEvent, LoseCommand, NodeStep, Arrive, HandleTx,
                HandleTxAt, RefuseTxAt, HandleSetFreq, HandleSetMod, HandleSetPhy, RefuseSetPhy,
                SchedStage, SchedIssue, SchedDone, BeaconStart, BeaconDone, RelayStart,
                RelayDone, NodeElse, hostVars, vars
  <2> QED BY <2>1
<1> QED BY <1>1, <1>2, <1>3, <1>4, <1>5, <1>6 DEF Next, CallerStep

\* exec_on and recv_on hold the command mutex exactly while they wait.
THEOREM MutexHeldWhileWaiting == Spec => []LockedWhileWaiting
<1>1. Init => LockedWhileWaiting
  BY CallersAssumption DEF Init, LockedWhileWaiting, Waiting
<1> QED BY <1>1, NextLocked, TypeCorrect, PTL DEF Spec

----------------------------------------------------------------------------
(* Who a command or a reply in flight belongs to.                          *)
(*                                                                         *)
(* The stream is everything the node has said and no caller has taken.  A  *)
(* trailing EVT_PHY_ERR counts as a reply only while nothing is disturbed. *)

Stream == resp \o offering \o toHost

Cmd(i) == {r \in Requests : r.id = i}
Ans(i) == {e \in Events : e.id = i /\ (e.typ = "PHY_ERR" => ~disturbed)}
Err(i) == {e \in Events : e.id = i /\ e.typ = "PHY_ERR"}

\* A member of A is in s; at most one is; none comes after a member of E.
Has(s, A) == \E k \in DOMAIN s : s[k] \in A
Single(s, A) == \A j, k \in DOMAIN s : s[j] \in A /\ s[k] \in A => j = k
NoneAfter(s, E, A) == \A j, k \in DOMAIN s : s[j] \in E /\ s[k] \in A => k <= j

\* The node, or the line to it, holds the command of request i.
Held(i) == Has(toNode, Cmd(i)) \/ Has(ring, Cmd(i)) \/ (slot = i /\ slot # 0)

\* Request i has an owner: given up on, or waited for, or (0) never asked.
HasOwner(i) ==
  \/ i \in adrift
  \/ \E c \in Callers : pc[c] = "wait" /\ req[c].id = i
  \/ i = 0 /\ disturbed

\* Requests are numbered as they are made, and no two callers share one.
Numbered ==
  /\ \A c \in Callers : req[c].id < nextId
  /\ \A c, d \in Callers :
       pc[c] # "idle" /\ pc[d] # "idle" /\ req[c].id = req[d].id => c = d
  /\ \A i \in adrift : i < nextId

AllOwned == \A i \in 0 .. MaxReqs : Held(i) \/ Has(Stream, Ans(i)) => HasOwner(i)

\* What is in flight for a request that is still waited for: its command in one
\* place, or its one reply, with nothing but a PHY_ERR behind it.
OnceInFlight(i) ==
  /\ Single(toNode, Cmd(i)) /\ Single(ring, Cmd(i)) /\ Single(Stream, Ans(i))
  /\ NoneAfter(Stream, Err(i), Ans(i))
  /\ Has(toNode, Cmd(i)) => ~Has(ring, Cmd(i)) /\ slot # i
  /\ Has(ring, Cmd(i)) => slot # i
  /\ Held(i) => ~Has(Stream, Ans(i)) /\ ~Has(Stream, Err(i))

InFlight == \A c \in Callers : pc[c] = "wait" /\ req[c].id \notin adrift => OnceInFlight(req[c].id)

\* A stray PHY_ERR is never one of a request not sent yet.
ErrsAreOld ==
  \A i \in 0 .. MaxReqs : Has(Stream, Err(i)) =>
    /\ i < nextId
    /\ \A c \in Callers :
         pc[c] \in {"send_mod", "lock"} /\ req[c].id = i => i \in adrift

\* While nothing is disturbed nobody is adrift and no command is lost.
Calm ==
  /\ ~disturbed => adrift = {} /\ readerUp /\ airing \notin {"beacon", "relay"} /\ ~overrun
  /\ airing = "sched" \/ staged => slot # 0

IInv ==
  /\ TypeOK /\ LockedWhileWaiting
  /\ Numbered /\ AllOwned /\ InFlight /\ ErrsAreOld /\ Calm

----------------------------------------------------------------------------
(* How Has, Single and NoneAfter split over a concatenation.               *)

LEMMA HasConcat ==
  ASSUME NEW S, NEW s \in Seq(S), NEW t \in Seq(S), NEW A
  PROVE  Has(s \o t, A) <=> Has(s, A) \/ Has(t, A)
<1>1. /\ DOMAIN s = 1 .. Len(s) /\ DOMAIN t = 1 .. Len(t) /\ Len(s) \in Nat /\ Len(t) \in Nat
      /\ DOMAIN (s \o t) = 1 .. Len(s) + Len(t)
      /\ \A k \in 1 .. Len(s) + Len(t) :
           (s \o t)[k] = IF k <= Len(s) THEN s[k] ELSE t[k - Len(s)]
  BY SMT
<1>2. ASSUME NEW k \in DOMAIN s PROVE k \in DOMAIN (s \o t) /\ (s \o t)[k] = s[k]
  BY <1>1
<1>3. ASSUME NEW k \in DOMAIN t
      PROVE  k + Len(s) \in DOMAIN (s \o t) /\ (s \o t)[k + Len(s)] = t[k]
  BY <1>1
<1>4. ASSUME NEW k \in DOMAIN (s \o t)
      PROVE  \/ k \in DOMAIN s /\ (s \o t)[k] = s[k]
             \/ k - Len(s) \in DOMAIN t /\ (s \o t)[k] = t[k - Len(s)]
  BY <1>1
<1> QED BY <1>2, <1>3, <1>4 DEF Has

LEMMA SingleConcat ==
  ASSUME NEW S, NEW s \in Seq(S), NEW t \in Seq(S), NEW A
  PROVE  Single(s \o t, A) <=> Single(s, A) /\ Single(t, A) /\ ~(Has(s, A) /\ Has(t, A))
<1>1. /\ DOMAIN s = 1 .. Len(s) /\ DOMAIN t = 1 .. Len(t) /\ Len(s) \in Nat /\ Len(t) \in Nat
      /\ DOMAIN (s \o t) = 1 .. Len(s) + Len(t)
      /\ \A k \in 1 .. Len(s) + Len(t) :
           (s \o t)[k] = IF k <= Len(s) THEN s[k] ELSE t[k - Len(s)]
  BY SMT
<1>2. ASSUME Single(s \o t, A)
      PROVE  Single(s, A) /\ Single(t, A) /\ ~(Has(s, A) /\ Has(t, A))
  <2>1. \A k \in DOMAIN s : k \in DOMAIN (s \o t) /\ (s \o t)[k] = s[k]
    BY <1>1
  <2>2. \A k \in DOMAIN t : k + Len(s) \in DOMAIN (s \o t) /\ (s \o t)[k + Len(s)] = t[k]
    BY <1>1
  <2>3. Single(s, A)
    BY <1>2, <2>1 DEF Single
  <2>4. Single(t, A)
    <3> SUFFICES ASSUME NEW j \in DOMAIN t, NEW k \in DOMAIN t, t[j] \in A, t[k] \in A
                 PROVE  j = k
      BY DEF Single
    <3>1. j + Len(s) = k + Len(s)
      BY <1>2, <2>2 DEF Single
    <3> QED BY <1>1, <3>1
  <2>5. ASSUME NEW j \in DOMAIN s, NEW k \in DOMAIN t, s[j] \in A, t[k] \in A
        PROVE  FALSE
    <3>1. j = k + Len(s)
      BY <1>2, <2>1, <2>2, <2>5 DEF Single
    <3> QED BY <1>1, <3>1
  <2> QED BY <2>3, <2>4, <2>5 DEF Has
<1>3. ASSUME Single(s, A), Single(t, A), ~(Has(s, A) /\ Has(t, A))
      PROVE  Single(s \o t, A)
  <2> SUFFICES ASSUME NEW j \in DOMAIN (s \o t), NEW k \in DOMAIN (s \o t),
                      (s \o t)[j] \in A, (s \o t)[k] \in A
               PROVE  j = k
    BY DEF Single
  <2>1. CASE j <= Len(s) /\ k <= Len(s)
    BY <1>1, <1>3, <2>1 DEF Single
  <2>2. CASE j > Len(s) /\ k > Len(s)
    <3>1. /\ j - Len(s) \in DOMAIN t /\ k - Len(s) \in DOMAIN t
          /\ t[j - Len(s)] \in A /\ t[k - Len(s)] \in A
      BY <1>1, <2>2
    <3>2. j - Len(s) = k - Len(s)
      BY <1>3, <3>1 DEF Single
    <3> QED BY <1>1, <3>2
  <2>3. CASE j <= Len(s) /\ k > Len(s)
    BY <1>1, <1>3, <2>3 DEF Has
  <2>4. CASE j > Len(s) /\ k <= Len(s)
    BY <1>1, <1>3, <2>4 DEF Has
  <2> QED BY <1>1, <2>1, <2>2, <2>3, <2>4
<1> QED BY <1>2, <1>3

LEMMA NoneAfterConcat ==
  ASSUME NEW S, NEW s \in Seq(S), NEW t \in Seq(S), NEW E, NEW A
  PROVE  NoneAfter(s \o t, E, A) <=>
           NoneAfter(s, E, A) /\ NoneAfter(t, E, A) /\ ~(Has(s, E) /\ Has(t, A))
<1>1. /\ DOMAIN s = 1 .. Len(s) /\ DOMAIN t = 1 .. Len(t) /\ Len(s) \in Nat /\ Len(t) \in Nat
      /\ DOMAIN (s \o t) = 1 .. Len(s) + Len(t)
      /\ \A k \in 1 .. Len(s) + Len(t) :
           (s \o t)[k] = IF k <= Len(s) THEN s[k] ELSE t[k - Len(s)]
  BY SMT
<1>2. ASSUME NoneAfter(s \o t, E, A)
      PROVE  NoneAfter(s, E, A) /\ NoneAfter(t, E, A) /\ ~(Has(s, E) /\ Has(t, A))
  <2>1. \A k \in DOMAIN s : k \in DOMAIN (s \o t) /\ (s \o t)[k] = s[k]
    BY <1>1
  <2>2. \A k \in DOMAIN t : k + Len(s) \in DOMAIN (s \o t) /\ (s \o t)[k + Len(s)] = t[k]
    BY <1>1
  <2>3. NoneAfter(s, E, A)
    BY <1>2, <2>1 DEF NoneAfter
  <2>4. NoneAfter(t, E, A)
    <3> SUFFICES ASSUME NEW j \in DOMAIN t, NEW k \in DOMAIN t, t[j] \in E, t[k] \in A
                 PROVE  k <= j
      BY DEF NoneAfter
    <3>1. k + Len(s) <= j + Len(s)
      BY <1>2, <2>2 DEF NoneAfter
    <3> QED BY <1>1, <3>1
  <2>5. ASSUME NEW j \in DOMAIN s, NEW k \in DOMAIN t, s[j] \in E, t[k] \in A
        PROVE  FALSE
    <3>1. k + Len(s) <= j
      BY <1>2, <2>1, <2>2, <2>5 DEF NoneAfter
    <3> QED BY <1>1, <3>1
  <2> QED BY <2>3, <2>4, <2>5 DEF Has
<1>3. ASSUME NoneAfter(s, E, A), NoneAfter(t, E, A), ~(Has(s, E) /\ Has(t, A))
      PROVE  NoneAfter(s \o t, E, A)
  <2> SUFFICES ASSUME NEW j \in DOMAIN (s \o t), NEW k \in DOMAIN (s \o t),
                      (s \o t)[j] \in E, (s \o t)[k] \in A
               PROVE  k <= j
    BY DEF NoneAfter
  <2>1. CASE j <= Len(s) /\ k <= Len(s)
    BY <1>1, <1>3, <2>1 DEF NoneAfter
  <2>2. CASE j > Len(s) /\ k > Len(s)
    <3>1. /\ j - Len(s) \in DOMAIN t /\ k - Len(s) \in DOMAIN t
          /\ t[j - Len(s)] \in E /\ t[k - Len(s)] \in A
      BY <1>1, <2>2
    <3>2. k - Len(s) <= j - Len(s)
      BY <1>3, <3>1 DEF NoneAfter
    <3> QED BY <1>1, <3>2
  <2>3. CASE j <= Len(s) /\ k > Len(s)
    BY <1>1, <1>3, <2>3 DEF Has
  <2>4. CASE j > Len(s) /\ k <= Len(s)
    BY <1>1, <2>4
  <2> QED BY <1>1, <2>1, <2>2, <2>3, <2>4
<1> QED BY <1>2, <1>3

LEMMA EmptyHas ==
  ASSUME NEW A, NEW E
  PROVE  ~Has(<<>>, A) /\ Single(<<>>, A) /\ NoneAfter(<<>>, E, A)
BY DEF Has, Single, NoneAfter

LEMMA OneHas ==
  ASSUME NEW x, NEW A, NEW E
  PROVE  (Has(<<x>>, A) <=> x \in A) /\ Single(<<x>>, A) /\ NoneAfter(<<x>>, E, A)
<1>1. DOMAIN <<x>> = {1} /\ <<x>>[1] = x
  OBVIOUS
<1>2. Has(<<x>>, A) <=> x \in A
  BY <1>1 DEF Has
<1>3. Single(<<x>>, A)
  BY <1>1 DEF Single
<1>4. NoneAfter(<<x>>, E, A)
  BY <1>1 DEF NoneAfter
<1> QED BY <1>2, <1>3, <1>4

LEMMA HeadThenTail ==
  ASSUME NEW S, NEW s \in Seq(S), s # <<>>
  PROVE  /\ s = <<Head(s)>> \o Tail(s)
         /\ <<Head(s)>> \in Seq(S) /\ Tail(s) \in Seq(S) /\ Head(s) \in S
OBVIOUS

\* The same, for a sequence taken apart at its head and put together at its end.
LEMMA TakenFrom ==
  ASSUME NEW S, NEW s \in Seq(S), s # <<>>, NEW A, NEW E
  PROVE  /\ Has(s, A) <=> Head(s) \in A \/ Has(Tail(s), A)
         /\ Single(s, A) <=> Single(Tail(s), A) /\ ~(Head(s) \in A /\ Has(Tail(s), A))
         /\ NoneAfter(s, E, A) <=>
              NoneAfter(Tail(s), E, A) /\ ~(Head(s) \in E /\ Has(Tail(s), A))
<1> DEFINE h == <<Head(s)>>
           t == Tail(s)
<1>1. s = h \o t /\ h \in Seq(S) /\ t \in Seq(S)
  BY HeadThenTail
<1>2. \A B : Has(h, B) <=> Head(s) \in B
  BY OneHas
<1>3. Single(h, A) /\ NoneAfter(h, E, A)
  BY OneHas
<1> HIDE DEF h, t
<1>4. /\ Has(s, A) <=> Has(h, A) \/ Has(t, A)
      /\ Single(s, A) <=> Single(h, A) /\ Single(t, A) /\ ~(Has(h, A) /\ Has(t, A))
      /\ NoneAfter(s, E, A) <=>
           NoneAfter(h, E, A) /\ NoneAfter(t, E, A) /\ ~(Has(h, E) /\ Has(t, A))
  BY <1>1, HasConcat, SingleConcat, NoneAfterConcat
<1> QED BY <1>2, <1>3, <1>4 DEF t

LEMMA PutAfter ==
  ASSUME NEW S, NEW s \in Seq(S), NEW x \in S, NEW A, NEW E
  PROVE  /\ Has(s \o <<x>>, A) <=> Has(s, A) \/ x \in A
         /\ Single(s \o <<x>>, A) <=> Single(s, A) /\ ~(Has(s, A) /\ x \in A)
         /\ NoneAfter(s \o <<x>>, E, A) <=>
              NoneAfter(s, E, A) /\ ~(Has(s, E) /\ x \in A)
         /\ s \o <<x>> \in Seq(S) /\ Append(s, x) = s \o <<x>>
<1>1. <<x>> \in Seq(S) /\ s \o <<x>> \in Seq(S) /\ Append(s, x) = s \o <<x>>
  OBVIOUS
<1>2. \A B : Has(<<x>>, B) <=> x \in B
  BY OneHas
<1>3. Single(<<x>>, A) /\ NoneAfter(<<x>>, E, A)
  BY OneHas
<1> QED BY <1>1, <1>2, <1>3, HasConcat, SingleConcat, NoneAfterConcat

LEMMA Appended ==
  ASSUME NEW S, NEW s \in Seq(S), NEW x \in S, NEW A
  PROVE  /\ Has(Append(s, x), A) <=> Has(s, A) \/ x \in A
         /\ Single(Append(s, x), A) <=> Single(s, A) /\ ~(Has(s, A) /\ x \in A)
<1> DEFINE t == s \o <<x>>
<1>1. Append(s, x) = t
  OBVIOUS
<1>2. /\ Has(t, A) <=> Has(s, A) \/ x \in A
      /\ Single(t, A) <=> Single(s, A) /\ ~(Has(s, A) /\ x \in A)
  BY PutAfter
<1> HIDE DEF t
<1> QED BY <1>1, <1>2

----------------------------------------------------------------------------
(* Taking things away, and ending a wait.                                  *)

\* Of two sequences, t holds no more than s, in the same order.
Sub(t, s) == \A A, E :
  /\ Has(t, A) => Has(s, A)
  /\ Single(s, A) => Single(t, A)
  /\ NoneAfter(s, E, A) => NoneAfter(t, E, A)

LEMMA SubSelf == ASSUME NEW s PROVE Sub(s, s)
BY DEF Sub

LEMMA SubTail ==
  ASSUME NEW S, NEW s \in Seq(S), s # <<>>
  PROVE  Sub(Tail(s), s)
BY TakenFrom DEF Sub

LEMMA SubSuffix ==
  ASSUME NEW S, NEW s \in Seq(S), NEW t \in Seq(S)
  PROVE  Sub(t, s \o t) /\ Sub(s, s \o t)
BY HasConcat, SingleConcat, NoneAfterConcat DEF Sub

\* A part made smaller makes the whole smaller.
LEMMA SubConcat ==
  ASSUME NEW S, NEW s \in Seq(S), NEW t \in Seq(S), NEW s2 \in Seq(S), NEW t2 \in Seq(S),
         Sub(s2, s), Sub(t2, t)
  PROVE  Sub(s2 \o t2, s \o t)
<1> SUFFICES ASSUME NEW A, NEW E
             PROVE  /\ Has(s2 \o t2, A) => Has(s \o t, A)
                    /\ Single(s \o t, A) => Single(s2 \o t2, A)
                    /\ NoneAfter(s \o t, E, A) => NoneAfter(s2 \o t2, E, A)
  BY DEF Sub
<1>1. /\ Has(s2, A) => Has(s, A)
      /\ Has(t2, A) => Has(t, A)
      /\ Has(s2, E) => Has(s, E)
      /\ Single(s, A) => Single(s2, A)
      /\ Single(t, A) => Single(t2, A)
      /\ NoneAfter(s, E, A) => NoneAfter(s2, E, A)
      /\ NoneAfter(t, E, A) => NoneAfter(t2, E, A)
  BY DEF Sub
<1> QED BY <1>1, HasConcat, SingleConcat, NoneAfterConcat

\* Fewer members of a smaller set.
LEMMA Smaller ==
  ASSUME NEW s, NEW A, NEW B, A \subseteq B, NEW E
  PROVE  /\ Has(s, A) => Has(s, B)
         /\ Single(s, B) => Single(s, A)
         /\ NoneAfter(s, E, B) => NoneAfter(s, E, A)
BY DEF Has, Single, NoneAfter

\* Once disturbed, always; so the replies that count only become fewer.
LEMMA FewerAnswers ==
  ASSUME disturbed => disturbed', NEW i
  PROVE  Ans(i)' \subseteq Ans(i) /\ Err(i)' = Err(i) /\ Cmd(i)' = Cmd(i)
BY DEF Ans, Err, Cmd, Events, Caps, EvTypes, AllOps, Requests

Facts == Numbered /\ AllOwned /\ InFlight /\ ErrsAreOld

\* Nothing but removals, from any place: what was true of who owns what remains.
LEMMA Removed ==
  ASSUME Facts, disturbed => disturbed',
         Sub(toNode', toNode), Sub(ring', ring), Sub(Stream', Stream),
         UNCHANGED <<slot, pc, req, nextId, adrift>>
  PROVE  Facts'
<1>1. \A i : /\ Has(toNode', Cmd(i)') => Has(toNode, Cmd(i))
             /\ Has(ring', Cmd(i)') => Has(ring, Cmd(i))
             /\ Has(Stream', Ans(i)') => Has(Stream, Ans(i))
             /\ Has(Stream', Err(i)') => Has(Stream, Err(i))
             /\ Held(i)' => Held(i)
  BY FewerAnswers, Smaller DEF Sub, Held
<1>2. \A i : HasOwner(i) => HasOwner(i)'
  BY DEF HasOwner
<1>3. Numbered'
  BY DEF Facts, Numbered
<1>4. AllOwned'
  BY <1>1, <1>2 DEF Facts, AllOwned
<1>5. InFlight'
  <2> SUFFICES ASSUME NEW c \in Callers, pc[c] = "wait", req[c].id \notin adrift
               PROVE  OnceInFlight(req[c].id)'
    BY DEF InFlight
  <2> DEFINE i == req[c].id
  <2>1. OnceInFlight(i)
    BY DEF Facts, InFlight
  <2>2. Single(toNode', Cmd(i)') /\ Single(ring', Cmd(i)') /\ Single(Stream', Ans(i)')
    <3>1. Single(toNode', Cmd(i)) /\ Single(ring', Cmd(i)) /\ Single(Stream', Ans(i))
      BY <2>1 DEF OnceInFlight, Sub
    <3> QED BY <3>1, FewerAnswers, Smaller
  <2>3. NoneAfter(Stream', Err(i)', Ans(i)')
    <3>1. NoneAfter(Stream', Err(i), Ans(i))
      BY <2>1 DEF OnceInFlight, Sub
    <3> QED BY <3>1, FewerAnswers, Smaller
  <2>4. /\ Has(toNode', Cmd(i)') => ~Has(ring', Cmd(i)') /\ slot' # i
        /\ Has(ring', Cmd(i)') => slot' # i
    BY <1>1, <2>1 DEF OnceInFlight
  <2>5. Held(i)' => ~Has(Stream', Ans(i)') /\ ~Has(Stream', Err(i)')
    BY <1>1, <2>1 DEF OnceInFlight
  <2> QED BY <2>2, <2>3, <2>4, <2>5 DEF OnceInFlight
<1>6. ErrsAreOld'
  BY <1>1 DEF Facts, ErrsAreOld
<1> QED BY <1>3, <1>4, <1>5, <1>6 DEF Facts

\* A caller that is not waiting afterwards: nothing is owed to it any more.
LEMMA Left ==
  ASSUME Facts, TypeOK, TypeOK', NEW c \in Callers,
         UNCHANGED <<toNode, ring, slot, nextId>>, Sub(Stream', Stream),
         disturbed => disturbed',
         adrift' = adrift \/ adrift' = adrift \cup {req[c].id},
         \A d \in Callers \ {c} : pc'[d] = pc[d] /\ req'[d] = req[d],
         req'[c].id = req[c].id, pc[c] # "idle", pc'[c] # "wait",
         pc[c] = "wait" /\ req[c].id \notin adrift' =>
           ~Held(req[c].id) /\ ~Has(Stream', Ans(req[c].id)),
         pc'[c] \in {"send_mod", "lock"} =>
           pc[c] \in {"send_mod", "lock"} \/ req[c].id \in adrift'
  PROVE  Facts'
<1> DEFINE n == req[c].id
<1>0. adrift \subseteq adrift' /\ n < nextId /\ n # 0
  BY DEF Facts, Numbered, TypeOK, HostTypeOK, StageTypeOK, Ids
<1>1. \A i : /\ Has(Stream', Ans(i)') => Has(Stream', Ans(i))
             /\ Has(Stream', Ans(i)) => Has(Stream, Ans(i))
             /\ Has(Stream', Err(i)') => Has(Stream, Err(i))
             /\ Cmd(i)' = Cmd(i) /\ Err(i)' = Err(i)
             /\ Held(i)' <=> Held(i)
  BY FewerAnswers, Smaller DEF Sub, Held
<1>2. Numbered'
  BY <1>0 DEF Facts, Numbered
<1>3. ASSUME NEW i \in 0 .. MaxReqs, Held(i)' \/ Has(Stream', Ans(i)')
      PROVE  HasOwner(i)'
  <2>1. HasOwner(i)
    BY <1>1, <1>3 DEF Facts, AllOwned
  <2>2. CASE i \in adrift \/ (i = 0 /\ disturbed)
    BY <1>0, <2>2 DEF HasOwner
  <2>3. CASE \E d \in Callers : pc[d] = "wait" /\ req[d].id = i
    <3>1. PICK d \in Callers : pc[d] = "wait" /\ req[d].id = i
      BY <2>3
    <3>2. CASE d # c
      BY <3>1, <3>2 DEF HasOwner
    <3>3. CASE d = c
      BY <1>1, <1>3, <3>1, <3>3 DEF HasOwner
    <3> QED BY <3>2, <3>3
  <2> QED BY <2>1, <2>2, <2>3 DEF HasOwner
<1>4. InFlight'
  <2> SUFFICES ASSUME NEW d \in Callers, pc'[d] = "wait", req'[d].id \notin adrift'
               PROVE  OnceInFlight(req[d].id)'
    BY DEF InFlight
  <2> PICK i : i = req[d].id
    OBVIOUS
  <2>1. d # c /\ pc[d] = "wait" /\ req'[d].id = i /\ i \notin adrift
    BY <1>0
  <2>2. OnceInFlight(i)
    BY <2>1 DEF Facts, InFlight
  <2>3. Single(toNode', Cmd(i)') /\ Single(ring', Cmd(i)') /\ Single(Stream', Ans(i)')
    <3>1. Single(toNode', Cmd(i)) /\ Single(ring', Cmd(i)) /\ Single(Stream', Ans(i))
      BY <2>2 DEF OnceInFlight, Sub
    <3>2. Ans(i)' \subseteq Ans(i) /\ Cmd(i)' = Cmd(i)
      BY FewerAnswers
    <3> QED BY <3>1, <3>2, Smaller
  <2>4. NoneAfter(Stream', Err(i)', Ans(i)')
    <3>1. NoneAfter(Stream', Err(i), Ans(i))
      BY <2>2 DEF OnceInFlight, Sub
    <3> QED BY <3>1, FewerAnswers, Smaller
  <2>5. slot' = slot
    OBVIOUS
  <2>6. OnceInFlight(i)'
    BY <1>1, <2>2, <2>3, <2>4, <2>5 DEF OnceInFlight
  <2> QED BY <2>1, <2>6 DEF OnceInFlight
<1>5. ASSUME NEW i \in 0 .. MaxReqs, Has(Stream', Err(i)')
      PROVE  /\ i < nextId'
             /\ \A d \in Callers :
                  pc'[d] \in {"send_mod", "lock"} /\ req'[d].id = i => i \in adrift'
  <2>1. /\ i < nextId
        /\ \A d \in Callers :
             pc[d] \in {"send_mod", "lock"} /\ req[d].id = i => i \in adrift
    BY <1>1, <1>5 DEF Facts, ErrsAreOld
  <2> QED BY <1>0, <2>1
<1> QED BY <1>2, <1>3, <1>4, <1>5 DEF Facts, AllOwned, ErrsAreOld

----------------------------------------------------------------------------
(* Host steps.                                                             *)

LEMMA SubEmpty == ASSUME NEW s PROVE Sub(<<>>, s)
BY EmptyHas DEF Sub

LEMMA StreamType ==
  ASSUME TypeOK
  PROVE  /\ resp \in Seq(Events) /\ offering \in Seq(Events) /\ toHost \in Seq(Events)
         /\ resp \o offering \in Seq(Events) /\ Stream \in Seq(Events)
<1>1. resp \in Seq(Events) /\ offering \in Seq(Events) /\ toHost \in Seq(Events)
  BY DEF TypeOK, HostTypeOK, NodeTypeOK
<1> QED BY <1>1, Concatenated DEF Stream

LEMMA StreamSub ==
  ASSUME TypeOK, TypeOK', Sub(resp', resp), Sub(offering', offering), Sub(toHost', toHost)
  PROVE  Sub(Stream', Stream)
<1>1. /\ resp \in Seq(Events) /\ offering \in Seq(Events) /\ toHost \in Seq(Events)
      /\ resp \o offering \in Seq(Events)
  BY StreamType
<1>2. /\ resp' \in Seq(Events) /\ offering' \in Seq(Events) /\ toHost' \in Seq(Events)
      /\ resp' \o offering' \in Seq(Events)
  BY Concatenated DEF TypeOK, HostTypeOK, NodeTypeOK
<1>3. Sub(resp' \o offering', resp \o offering)
  BY <1>1, <1>2, SubConcat
<1> QED BY <1>1, <1>2, <1>3, SubConcat DEF Stream

\* The oldest event of the stream is the head of the response channel.
LEMMA StreamHead ==
  ASSUME TypeOK, resp # <<>>, resp' = Tail(resp), UNCHANGED <<offering, toHost>>
  PROVE  /\ Stream # <<>> /\ Head(Stream) = Head(resp) /\ Stream' = Tail(Stream)
         /\ Head(resp) \in Events
<1>1. resp \in Seq(Events) /\ offering \in Seq(Events) /\ toHost \in Seq(Events)
  BY StreamType
<1>2. \A s, t \in Seq(Events) : s # <<>> =>
        s \o t # <<>> /\ Head(s \o t) = Head(s) /\ Tail(s \o t) = Tail(s) \o t
  OBVIOUS
<1>3. /\ resp \o offering # <<>> /\ Head(resp \o offering) = Head(resp)
      /\ Tail(resp \o offering) = Tail(resp) \o offering
  BY <1>1, <1>2
<1>4. resp \o offering \in Seq(Events)
  BY StreamType
<1>5. Stream # <<>> /\ Head(Stream) = Head(resp)
  BY <1>1, <1>2, <1>3, <1>4 DEF Stream
<1>6. Tail(Stream) = (Tail(resp) \o offering) \o toHost
  BY <1>1, <1>2, <1>3, <1>4 DEF Stream
<1>7. Head(resp) \in Events
  BY <1>1, HeadTail
<1> QED BY <1>5, <1>6, <1>7 DEF Stream

LEMMA BeginFacts ==
  ASSUME Facts, TypeOK, NEW c \in Callers, Issue(c)
  PROVE  Facts'
<1> PICK op \in AllOps, v \in Values \cup Phys : Begin(c, op, v)
  BY OpsAssumption DEF Issue
<1>1. /\ UNCHANGED <<toNode, ring, slot, adrift, disturbed, resp, offering, toHost>>
      /\ pc[c] = "idle" /\ nextId' = nextId + 1 /\ nextId \in Nat
      /\ req' = [req EXCEPT ![c] = [id |-> nextId, op |-> op, val |-> v]]
      /\ pc' = [pc EXCEPT ![c] = IF op = "mod" THEN "send_mod" ELSE "lock"]
      /\ pc \in [Callers -> PcValues] /\ req \in [Callers -> Requests]
      /\ \A d \in Callers : req[d].id \in Nat
  BY DEF Begin, wireVars, nodeVars, readVars, TypeOK, HostTypeOK, HistoryTypeOK, Requests
<1>2. \A d \in Callers \ {c} : pc'[d] = pc[d] /\ req'[d] = req[d]
  BY <1>1
<1>3. req'[c].id = nextId /\ pc'[c] \in {"send_mod", "lock"}
  BY <1>1
<1>4. Stream' = Stream /\ \A i : /\ Ans(i)' = Ans(i) /\ Err(i)' = Err(i) /\ Cmd(i)' = Cmd(i)
                                 /\ Held(i)' <=> Held(i)
  BY <1>1 DEF Stream, Ans, Err, Cmd, Held, Events, Caps, EvTypes, AllOps, Requests
<1>5. Numbered'
  <2>1. \A d \in Callers : req'[d].id < nextId'
    BY <1>1, <1>2, <1>3 DEF Facts, Numbered
  <2>2. ASSUME NEW a \in Callers, NEW b \in Callers, pc'[a] # "idle", pc'[b] # "idle",
               req'[a].id = req'[b].id
        PROVE  a = b
    <3>1. \A d \in Callers \ {c} : req'[d].id < nextId
      BY <1>2 DEF Facts, Numbered
    <3>2. (a = c) <=> (b = c)
      BY <1>1, <1>2, <1>3, <2>2, <3>1
    <3> QED BY <1>2, <2>2, <3>2 DEF Facts, Numbered
  <2>3. \A i \in adrift : i < nextId'
    <3>1. \A i \in adrift : i \in Nat /\ i < nextId
      BY DEF Facts, Numbered, TypeOK, HistoryTypeOK, Ids
    <3> QED BY <1>1, <3>1
  <2> QED BY <1>1, <2>1, <2>2, <2>3 DEF Numbered
<1>6. AllOwned'
  <2>1. \A i : HasOwner(i) => HasOwner(i)'
    BY <1>1, <1>2 DEF HasOwner
  <2> QED BY <1>4, <2>1 DEF Facts, AllOwned
<1>7. InFlight'
  <2> SUFFICES ASSUME NEW d \in Callers, pc'[d] = "wait", req'[d].id \notin adrift'
               PROVE  OnceInFlight(req[d].id)'
    BY DEF InFlight
  <2>1. d # c /\ pc[d] = "wait" /\ req'[d] = req[d] /\ req[d].id \notin adrift
    BY <1>1, <1>2, <1>3
  <2>2. OnceInFlight(req[d].id)
    BY <2>1 DEF Facts, InFlight
  <2> QED BY <1>1, <1>4, <2>1, <2>2 DEF OnceInFlight
<1>8. ErrsAreOld'
  <2> SUFFICES ASSUME NEW i \in 0 .. MaxReqs, Has(Stream', Err(i)')
               PROVE  /\ i < nextId'
                      /\ \A d \in Callers :
                           pc'[d] \in {"send_mod", "lock"} /\ req'[d].id = i => i \in adrift'
    BY DEF ErrsAreOld
  <2>1. i < nextId /\ \A d \in Callers :
          pc[d] \in {"send_mod", "lock"} /\ req[d].id = i => i \in adrift
    BY <1>4 DEF Facts, ErrsAreOld
  <2> QED BY <1>1, <1>2, <1>3, <2>1, BoundsAssumption
<1> QED BY <1>5, <1>6, <1>7, <1>8 DEF Facts

\* What Finish and Fail do to the stages.
LEMMA Ends ==
  ASSUME TypeOK, NEW c \in Callers, (\E r \in {"ok", "err"} : Finish(c, r)) \/ Fail(c)
  PROVE  /\ pc'[c] \in {"idle", "lock"} /\ \A d \in Callers \ {c} : pc'[d] = pc[d]
         /\ (\E r \in {"ok", "err"} : Finish(c, r)) => pc'[c] = "idle"
BY DEF Finish, Fail, TypeOK, HostTypeOK

LEMMA SendModFacts ==
  ASSUME Facts, TypeOK, TypeOK', NEW c \in Callers, SendMod(c)
  PROVE  Facts'
<1>1. UNCHANGED <<toNode, ring, slot, nextId, adrift, disturbed, resp, offering, toHost>>
  BY DEF SendMod, wireVars, nodeVars, readVars
<1>2. Sub(Stream', Stream)
  BY <1>1, SubSelf DEF Stream
<1>3. /\ \A d \in Callers \ {c} : pc'[d] = pc[d] /\ req'[d] = req[d]
      /\ req'[c].id = req[c].id /\ pc'[c] \in {"idle", "lock"}
  <2>1. CASE HasSpreadingFactor(profile)
    BY <2>1 DEF SendMod, TypeOK, HostTypeOK, Requests
  <2>2. CASE ~HasSpreadingFactor(profile)
    BY <2>2, Ends DEF SendMod
  <2> QED BY <2>1, <2>2
<1>4. pc[c] = "send_mod"
  BY DEF SendMod
<1> QED BY <1>1, <1>2, <1>3, <1>4, Left

LEMMA ExecOnClosedFacts ==
  ASSUME Facts, TypeOK, TypeOK', NEW c \in Callers, ExecOnClosed(c)
  PROVE  Facts'
<1>1. /\ UNCHANGED <<toNode, ring, slot, nextId, adrift, disturbed, offering, toHost, req>>
      /\ resp' = <<>> /\ pc[c] = "lock"
  BY DEF ExecOnClosed, wireVars, nodeVars
<1>2. Sub(Stream', Stream)
  BY <1>1, SubSelf, SubEmpty, StreamSub
<1>3. pc'[c] \in {"idle", "lock"} /\ \A d \in Callers \ {c} : pc'[d] = pc[d]
  BY Ends DEF ExecOnClosed
<1> QED BY <1>1, <1>2, <1>3, Left

\* The reply a caller ends its wait with is its own, or it is adrift.
LEMMA TakeReplyFacts ==
  ASSUME Facts, TypeOK, TypeOK', NEW c \in Callers, TakeReply(c)
  PROVE  Facts'
<1> DEFINE e == Head(resp)
           n == req[c].id
<1>1. /\ UNCHANGED <<toNode, ring, slot, nextId, disturbed, offering, toHost, req>>
      /\ resp # <<>> /\ resp' = Tail(resp) /\ pc[c] = "wait" /\ adrift' = AdriftBut(c, e)
      /\ Matches(c, e)
  BY DEF TakeReply, wireVars, nodeVars
<1>2. /\ Stream # <<>> /\ Head(Stream) = e /\ Stream' = Tail(Stream) /\ e \in Events
      /\ Stream \in Seq(Events)
  BY <1>1, StreamHead, StreamType
<1>3. Sub(Stream', Stream)
  BY <1>2, SubTail
<1>4. /\ pc'[c] \in {"mirror", "install", "race", "idle"}
      /\ \A d \in Callers \ {c} : pc'[d] = pc[d]
  <2>1. CASE req[c].op = "freq"
    BY <2>1 DEF TakeReply, TypeOK, HostTypeOK
  <2>2. CASE req[c].op = "phy"
    <3>1. pc' = [pc EXCEPT ![c] = IF e.cap.phy = req[c].val THEN "install" ELSE "race"]
      BY <2>2 DEF TakeReply
    <3> QED BY <3>1 DEF TypeOK, HostTypeOK
  <2>3. CASE req[c].op \notin {"freq", "phy"}
    <3>1. Finish(c, IF e.ok THEN "ok" ELSE "err")
      BY <2>3 DEF TakeReply
    <3> QED BY <3>1, Ends
  <2> QED BY <2>1, <2>2, <2>3
<1>5. ASSUME n \notin adrift'
      PROVE  ~Held(n) /\ ~Has(Stream', Ans(n))
  <2>1. e.id = n /\ n \notin adrift
    BY <1>1, <1>5 DEF AdriftBut
  <2>2. e.typ # "PHY_ERR"
    BY <1>1 DEF Matches, Expect, TypeOK, HostTypeOK, Requests, AllOps
  <2>3. e \in Ans(n)
    BY <1>2, <2>1, <2>2 DEF Ans
  <2>4. OnceInFlight(n)
    BY <1>1, <2>1 DEF Facts, InFlight
  <2>5. Has(Stream, Ans(n)) /\ ~Has(Tail(Stream), Ans(n))
    BY <1>2, <2>3, <2>4, TakenFrom DEF OnceInFlight
  <2> QED BY <1>2, <2>4, <2>5 DEF OnceInFlight
<1>6. adrift' = adrift \/ adrift' = adrift \cup {n}
  BY <1>1 DEF AdriftBut
<1> QED BY <1>1, <1>3, <1>4, <1>5, <1>6, Left

LEMMA TakeRefusalFacts ==
  ASSUME Facts, TypeOK, TypeOK', NEW c \in Callers, TakeRefusal(c)
  PROVE  Facts'
<1> DEFINE e == Head(resp)
           n == req[c].id
<1>1. /\ UNCHANGED <<toNode, ring, slot, nextId, disturbed, offering, toHost, req>>
      /\ resp # <<>> /\ resp' = Tail(resp) /\ pc[c] = "wait" /\ adrift' = AdriftBut(c, e)
  BY DEF TakeRefusal, wireVars, nodeVars
<1>2. /\ Stream # <<>> /\ Head(Stream) = e /\ Stream' = Tail(Stream) /\ e \in Events
      /\ Stream \in Seq(Events)
  BY <1>1, StreamHead, StreamType
<1>3. Sub(Stream', Stream)
  BY <1>2, SubTail
<1>4. pc'[c] = "idle" /\ \A d \in Callers \ {c} : pc'[d] = pc[d]
  BY Ends DEF TakeRefusal
<1>5. ASSUME n \notin adrift'
      PROVE  ~Held(n) /\ ~Has(Stream', Ans(n))
  <2>1. e.id = n /\ n \notin adrift
    BY <1>1, <1>5 DEF AdriftBut
  <2>2. e \in Ans(n) \/ e \in Err(n)
    BY <1>2, <2>1 DEF Ans, Err
  <2>3. OnceInFlight(n)
    BY <1>1, <2>1 DEF Facts, InFlight
  <2>4. Has(Stream, Ans(n)) \/ Has(Stream, Err(n))
    BY <1>2, <2>2, TakenFrom
  <2>5. ~Has(Tail(Stream), Ans(n))
    BY <1>2, <2>2, <2>3, TakenFrom DEF OnceInFlight
  <2> QED BY <1>2, <2>3, <2>4, <2>5 DEF OnceInFlight
<1>6. adrift' = adrift \/ adrift' = adrift \cup {n}
  BY <1>1 DEF AdriftBut
<1> QED BY <1>1, <1>3, <1>4, <1>5, <1>6, Left

LEMMA GiveUpFacts ==
  ASSUME Facts, TypeOK, TypeOK', NEW c \in Callers, Timeout(c) \/ Disconnected(c)
  PROVE  Facts'
<1>1. /\ UNCHANGED <<toNode, ring, slot, nextId, resp, offering, toHost, req>>
      /\ pc[c] = "wait" /\ adrift' = adrift \cup {req[c].id} /\ (disturbed => disturbed')
  BY DEF Timeout, Disconnected, wireVars, nodeVars, readVars
<1>2. Sub(Stream', Stream)
  BY <1>1, SubSelf DEF Stream
<1>3. pc'[c] \in {"idle", "lock"} /\ \A d \in Callers \ {c} : pc'[d] = pc[d]
  BY Ends DEF Timeout, Disconnected
<1> QED BY <1>1, <1>2, <1>3, Left

LEMMA RecvOnFacts ==
  ASSUME Facts, TypeOK, TypeOK', NEW c \in Callers,
         SetMirror(c) \/ Install(c) \/ RecvOn(c) \/ RecvOnCap(c) \/ RecvOnTimeout(c)
  PROVE  Facts'
<1>1. /\ UNCHANGED <<toNode, ring, slot, nextId, offering, toHost, req, adrift, disturbed>>
      /\ pc[c] \in {"mirror", "install", "race", "race_wait"}
  BY DEF SetMirror, Install, RecvOn, RecvOnCap, RecvOnTimeout, wireVars, nodeVars,
         readVars, histVars
<1>2. /\ pc'[c] \in {"idle", "install", "race_wait"}
      /\ \A d \in Callers \ {c} : pc'[d] = pc[d]
  <2>1. CASE SetMirror(c) \/ Install(c)
    BY <2>1, Ends DEF SetMirror, Install
  <2>2. CASE RecvOn(c) \/ RecvOnCap(c) \/ RecvOnTimeout(c)
    BY <2>2 DEF RecvOn, RecvOnCap, RecvOnTimeout, TypeOK, HostTypeOK
  <2> QED BY <2>1, <2>2
<1>3. Sub(resp', resp)
  <2>1. CASE RecvOnCap(c)
    BY <2>1, SubTail DEF RecvOnCap, TypeOK, HostTypeOK
  <2>2. CASE ~RecvOnCap(c)
    BY <2>2, SubSelf DEF SetMirror, Install, RecvOn, RecvOnTimeout, readVars
  <2> QED BY <2>1, <2>2
<1>4. Sub(Stream', Stream)
  BY <1>1, <1>3, SubSelf, StreamSub
<1> QED BY <1>1, <1>2, <1>4, Left

LEMMA SkipEventFacts ==
  ASSUME Facts, TypeOK, TypeOK', NEW c \in Callers, SkipEvent(c)
  PROVE  Facts'
<1>1. /\ UNCHANGED <<toNode, ring, slot, nextId, offering, toHost, pc, req, adrift, disturbed>>
      /\ resp # <<>> /\ resp' = Tail(resp)
  BY DEF SkipEvent, hostVars, wireVars, nodeVars, histVars
<1>2. Sub(resp', resp)
  BY <1>1, SubTail DEF TypeOK, HostTypeOK
<1> QED BY <1>1, <1>2, SubSelf, StreamSub, Removed

LEMMA LineFacts ==
  ASSUME Facts, TypeOK, TypeOK', LineStep
  PROVE  Facts'
<1>1. /\ UNCHANGED <<ring, slot, nextId, offering, resp, pc, req, adrift>>
      /\ disturbed => disturbed'
  BY DEF LineStep, PortFails, LoseEvent, LoseCommand, hostVars, readVars, nodeVars, histVars
<1>2. Sub(toHost', toHost) /\ Sub(toNode', toNode)
  <2>1. CASE PortFails
    BY <2>1, SubEmpty DEF PortFails
  <2>2. CASE LoseEvent
    BY <2>2, SubTail, SubSelf DEF LoseEvent, TypeOK, NodeTypeOK
  <2>3. CASE LoseCommand
    BY <2>3, SubTail, SubSelf DEF LoseCommand, TypeOK, NodeTypeOK
  <2> QED BY <2>1, <2>2, <2>3 DEF LineStep
<1> QED BY <1>1, <1>2, SubSelf, StreamSub, Removed

\* The reader moves an event along the stream and changes nothing in it.
LEMMA ReaderFacts ==
  ASSUME Facts, TypeOK, TypeOK', ReaderStep
  PROVE  Facts'
<1>1. UNCHANGED <<toNode, ring, slot, nextId, pc, req, adrift, disturbed>>
  BY DEF ReaderStep, ReaderStoresCap, ReaderOffersCap, ReaderForwards, hostVars,
         wireVars, nodeVars, histVars
<1>2. resp \in Seq(Events) /\ offering \in Seq(Events) /\ toHost \in Seq(Events)
  BY StreamType
<1>3. \A s, t \in Seq(Events) : t # <<>> =>
        /\ (s \o <<>>) \o t = (s \o <<Head(t)>>) \o Tail(t)
        /\ (s \o <<>>) \o t = (Append(s, Head(t)) \o <<>>) \o Tail(t)
  BY HeadTail
<1>4. \A s, t, u \in Seq(Events) : (s \o t) \o u = ((s \o t) \o <<>>) \o u
  OBVIOUS
<1>5. Stream' = Stream
  <2>1. CASE ReaderStoresCap
    BY <1>2, <1>3, <2>1 DEF ReaderStoresCap, Stream
  <2>2. CASE ReaderForwards
    BY <1>2, <1>3, <2>2 DEF ReaderForwards, Stream
  <2>3. CASE ReaderOffersCap
    BY <1>2, <1>4, <2>3 DEF ReaderOffersCap, Stream, wireVars
  <2> QED BY <2>1, <2>2, <2>3 DEF ReaderStep
<1> QED BY <1>1, <1>5, SubSelf, Removed

LEMMA StutterFacts ==
  ASSUME Facts, UNCHANGED vars
  PROVE  Facts'
<1>1. /\ UNCHANGED <<toNode, ring, slot, nextId, pc, req, adrift, disturbed>>
      /\ Stream' = Stream
  BY DEF vars, hostVars, readVars, wireVars, nodeVars, histVars, Stream
<1> QED BY <1>1, SubSelf, Removed

\* exec_on sends on an empty response channel, with nobody else waiting.
LEMMA ExecOnFacts ==
  ASSUME Facts, TypeOK, TypeOK', LockedWhileWaiting, NEW c \in Callers, ExecOn(c)
  PROVE  Facts'
<1> PICK n : n = req[c].id
  OBVIOUS
<1>1. /\ UNCHANGED <<ring, slot, nextId, offering, toHost, req, adrift, disturbed>>
      /\ resp' = <<>> /\ toNode' = Append(toNode, req[c])
      /\ pc[c] = "lock" /\ pc' = [pc EXCEPT ![c] = "wait"] /\ lock = NoCaller
  BY DEF ExecOn, CanLock, nodeVars, histVars
<1>2. /\ pc'[c] = "wait" /\ \A d \in Callers \ {c} : pc'[d] = pc[d]
      /\ toNode \in Seq(Requests) /\ req[c] \in Requests /\ n \in 1 .. MaxReqs /\ n \in 0 .. MaxReqs
      /\ n # 0
  BY <1>1 DEF TypeOK, HostTypeOK, NodeTypeOK, StageTypeOK, Ids, Requests
<1>3. Sub(Stream', Stream)
  BY <1>1, SubSelf, SubEmpty, StreamSub
<1>4. \A i : Cmd(i)' = Cmd(i) /\ Err(i)' = Err(i) /\ Ans(i)' = Ans(i)
  BY <1>1 DEF Ans, Err, Cmd, Events, Caps, EvTypes, AllOps, Requests
<1>5. \A i : /\ Has(toNode', Cmd(i)) <=> Has(toNode, Cmd(i)) \/ i = n
             /\ Single(toNode', Cmd(i)) <=> Single(toNode, Cmd(i)) /\ ~(Has(toNode, Cmd(i)) /\ i = n)
             /\ Held(i)' <=> Held(i) \/ i = n
             /\ Has(Stream', Ans(i)) => Has(Stream, Ans(i))
             /\ Has(Stream', Err(i)) => Has(Stream, Err(i))
  <2> TAKE i
  <2>1. req[c] \in Cmd(i) <=> i = n
    BY <1>2 DEF Cmd
  <2>2. /\ Has(toNode', Cmd(i)) <=> Has(toNode, Cmd(i)) \/ i = n
        /\ Single(toNode', Cmd(i)) <=> Single(toNode, Cmd(i)) /\ ~(Has(toNode, Cmd(i)) /\ i = n)
    BY <1>1, <1>2, <2>1, Appended
  <2> QED BY <1>1, <1>3, <1>4, <2>2 DEF Held, Sub
<1>6. \A d \in Callers : pc[d] # "wait"
  BY <1>1, CallersAssumption DEF LockedWhileWaiting, Waiting
<1>7. n \notin adrift => ~Held(n) /\ ~Has(Stream, Ans(n)) /\ ~Has(Stream, Err(n))
  <2> SUFFICES ASSUME n \notin adrift
               PROVE  ~Held(n) /\ ~Has(Stream, Ans(n)) /\ ~Has(Stream, Err(n))
    OBVIOUS
  <2>1. ~HasOwner(n)
    BY <1>2, <1>6 DEF HasOwner
  <2> QED BY <1>1, <1>2, <2>1 DEF Facts, AllOwned, ErrsAreOld
<1>8. Numbered'
  BY <1>1, <1>2 DEF Facts, Numbered
<1>9. AllOwned'
  <2>1. HasOwner(n)'
    BY <1>1, <1>2 DEF HasOwner
  <2>2. \A i : HasOwner(i) => HasOwner(i)'
    BY <1>1, <1>6 DEF HasOwner
  <2> QED BY <1>4, <1>5, <2>1, <2>2 DEF Facts, AllOwned
<1>10. InFlight'
  <2> SUFFICES ASSUME NEW d \in Callers, pc'[d] = "wait", req'[d].id \notin adrift'
               PROVE  OnceInFlight(req[d].id)'
    BY DEF InFlight
  <2>1. d = c /\ req'[d].id = n /\ n \notin adrift
    BY <1>1, <1>2, <1>6
  <2>2. ~Held(n) /\ ~Has(Stream', Ans(n)) /\ ~Has(Stream', Err(n))
    BY <1>5, <1>7, <2>1
  <2>3. /\ Single(toNode', Cmd(n)) /\ Single(ring', Cmd(n))
        /\ ~Has(ring', Cmd(n)) /\ slot' # n
    <3>1. ~Has(toNode, Cmd(n)) /\ ~Has(ring, Cmd(n)) /\ slot # n
      BY <1>2, <2>2 DEF Held
    <3>2. Single(toNode, Cmd(n)) /\ Single(ring, Cmd(n))
      BY <3>1 DEF Single, Has
    <3> QED BY <1>1, <1>5, <3>1, <3>2
  <2>4. Single(Stream', Ans(n)) /\ NoneAfter(Stream', Err(n), Ans(n))
    BY <2>2 DEF Single, NoneAfter, Has
  <2>5. OnceInFlight(n)'
    BY <1>4, <2>2, <2>3, <2>4 DEF OnceInFlight
  <2> QED BY <2>1, <2>5 DEF OnceInFlight
<1>11. ErrsAreOld'
  BY <1>1, <1>2, <1>4, <1>5 DEF Facts, ErrsAreOld
<1> QED BY <1>8, <1>9, <1>10, <1>11 DEF Facts

----------------------------------------------------------------------------
(* Node steps.                                                             *)

\* The command of i is in one place at most.
Placed(i) ==
  /\ Single(toNode, Cmd(i)) /\ Single(ring, Cmd(i))
  /\ Has(toNode, Cmd(i)) => ~Has(ring, Cmd(i)) /\ slot # i
  /\ Has(ring, Cmd(i)) => slot # i

\* A step of the node that says evs: it speaks of what it held and holds no more.
LEMMA NodeSpoke ==
  ASSUME Facts, TypeOK, TypeOK', disturbed => disturbed',
         UNCHANGED <<pc, req, nextId, adrift, resp, offering>>,
         NEW evs \in Seq(Events), toHost' = toHost \o evs,
         \A i \in 0 .. MaxReqs :
           /\ Held(i)' => Held(i)
           /\ Has(evs, Ans(i)') => Held(i) \/ (i = 0 /\ disturbed')
           /\ Has(evs, Err(i)) => Held(i)
           /\ i # 0 /\ Placed(i) =>
                /\ Placed(i)' /\ Single(evs, Ans(i)') /\ NoneAfter(evs, Err(i), Ans(i)')
                /\ Held(i)' => ~Has(evs, Ans(i)') /\ ~Has(evs, Err(i))
  PROVE  Facts'
<1>1. Stream' = Stream \o evs /\ Stream \in Seq(Events)
  <2>1. \A s, t, u \in Seq(Events) : s \o (t \o u) = (s \o t) \o u
    OBVIOUS
  <2> QED BY <2>1, StreamType DEF Stream
<1>2. \A i : HasOwner(i) => HasOwner(i)'
  BY DEF HasOwner
<1>3. \A i : Ans(i)' \subseteq Ans(i) /\ Cmd(i)' = Cmd(i) /\ Err(i)' = Err(i)
  BY FewerAnswers
<1>4. \A i : /\ Has(Stream', Ans(i)') => Has(Stream, Ans(i)) \/ Has(evs, Ans(i)')
             /\ Has(Stream', Err(i)) => Has(Stream, Err(i)) \/ Has(evs, Err(i))
  <2> TAKE i
  <2>1. Has(Stream', Ans(i)') <=> Has(Stream, Ans(i)') \/ Has(evs, Ans(i)')
    BY <1>1, HasConcat
  <2>2. Has(Stream', Err(i)) <=> Has(Stream, Err(i)) \/ Has(evs, Err(i))
    BY <1>1, HasConcat
  <2> QED BY <1>3, <2>1, <2>2, Smaller
<1>5. Numbered'
  BY DEF Facts, Numbered
<1>6. AllOwned'
  BY <1>2, <1>4 DEF Facts, AllOwned, HasOwner
<1>7. InFlight'
  <2> SUFFICES ASSUME NEW c \in Callers, pc[c] = "wait", req[c].id \notin adrift
               PROVE  OnceInFlight(req[c].id)'
    BY DEF InFlight
  <2> PICK i : i = req[c].id
    OBVIOUS
  <2>0. req[c].id \in Ids
    BY DEF TypeOK, StageTypeOK
  <2>1. i # 0 /\ i \in 0 .. MaxReqs
    BY <2>0, BoundsAssumption DEF Ids
  <2>2. OnceInFlight(i)
    BY DEF Facts, InFlight
  <2>3. /\ Placed(i)' /\ Single(evs, Ans(i)') /\ NoneAfter(evs, Err(i), Ans(i)')
        /\ Held(i)' => ~Has(evs, Ans(i)') /\ ~Has(evs, Err(i))
    BY <2>1, <2>2 DEF OnceInFlight, Placed
  <2>4. Has(evs, Ans(i)') => ~Has(Stream, Ans(i)) /\ ~Has(Stream, Err(i))
    BY <2>1, <2>2 DEF OnceInFlight
  <2>5. Single(Stream, Ans(i)') /\ NoneAfter(Stream, Err(i), Ans(i)')
    BY <1>3, <2>2, Smaller DEF OnceInFlight
  <2>6. Has(evs, Ans(i)') => ~Has(Stream, Ans(i)')
    BY <1>3, <2>4, Smaller
  <2>7. Single(Stream', Ans(i)') /\ NoneAfter(Stream', Err(i), Ans(i)')
    BY <1>1, <2>3, <2>4, <2>5, <2>6, SingleConcat, NoneAfterConcat
  <2>8. Held(i)' => ~Has(Stream', Ans(i)') /\ ~Has(Stream', Err(i))
    BY <1>4, <2>1, <2>2, <2>3 DEF OnceInFlight
  <2>9. OnceInFlight(i)'
    BY <1>3, <2>3, <2>7, <2>8 DEF OnceInFlight, Placed
  <2> QED BY <2>9 DEF OnceInFlight
<1>8. ErrsAreOld'
  <2> SUFFICES ASSUME NEW i \in 0 .. MaxReqs, Has(Stream', Err(i)')
               PROVE  /\ i < nextId
                      /\ \A c \in Callers :
                           pc[c] \in {"send_mod", "lock"} /\ req[c].id = i => i \in adrift
    BY DEF ErrsAreOld
  <2>1. CASE Has(Stream, Err(i))
    BY <2>1 DEF Facts, ErrsAreOld
  <2>2. CASE Has(evs, Err(i))
    <3>1. HasOwner(i)
      BY <2>2 DEF Facts, AllOwned
    <3>2. 0 < nextId /\ \A c \in Callers : pc[c] # "idle" => req[c].id # 0
      BY BoundsAssumption DEF TypeOK, HistoryTypeOK, StageTypeOK, Ids
    <3> QED BY <3>1, <3>2 DEF HasOwner, Facts, Numbered
  <2> QED BY <1>3, <1>4, <2>1, <2>2
<1> QED BY <1>5, <1>6, <1>7, <1>8 DEF Facts

LEMMA AnsMembers ==
  ASSUME NEW e, NEW i
  PROVE  /\ e \in Ans(i)' => e.id = i /\ (e.typ = "PHY_ERR" => ~disturbed')
         /\ e \in Err(i) => e.id = i /\ e.typ = "PHY_ERR"
BY DEF Ans, Err

\* What the node says while it serves a command of request n: a cancelled
\* transmission of request m, at most, and then the reply x.
Said(evs, m, n) ==
  \A i :
    /\ Has(evs, Ans(i)') => i = n \/ (i = m /\ m # 0)
    /\ Has(evs, Err(i)) => i = n
    /\ i # m \/ m # n => Single(evs, Ans(i)')
    /\ NoneAfter(evs, Err(i), Ans(i)')

LEMMA SaidOne ==
  ASSUME NEW x \in Events, NEW m
  PROVE  Said(<<x>>, m, x.id)
BY OneHas, AnsMembers DEF Said

LEMMA SaidNothing ==
  ASSUME NEW m, NEW n
  PROVE  Said(<<>>, m, n)
BY EmptyHas DEF Said

LEMMA SaidTwo ==
  ASSUME NEW d \in Events, NEW x \in Events, d.typ # "PHY_ERR", d.id # 0
  PROVE  Said(<<d>> \o <<x>>, d.id, x.id)
<1> SUFFICES ASSUME NEW i
             PROVE  /\ Has(<<d>> \o <<x>>, Ans(i)') => i = x.id \/ i = d.id
                    /\ Has(<<d>> \o <<x>>, Err(i)) => i = x.id
                    /\ i # d.id \/ d.id # x.id => Single(<<d>> \o <<x>>, Ans(i)')
                    /\ NoneAfter(<<d>> \o <<x>>, Err(i), Ans(i)')
  BY DEF Said
<1>1. <<d>> \in Seq(Events)
  OBVIOUS
<1>2. \A A, E : /\ Has(<<d>> \o <<x>>, A) <=> Has(<<d>>, A) \/ x \in A
                /\ Single(<<d>> \o <<x>>, A) <=> Single(<<d>>, A) /\ ~(Has(<<d>>, A) /\ x \in A)
                /\ NoneAfter(<<d>> \o <<x>>, E, A) <=>
                     NoneAfter(<<d>>, E, A) /\ ~(Has(<<d>>, E) /\ x \in A)
  BY <1>1, PutAfter
<1>3. \A A, E : (Has(<<d>>, A) <=> d \in A) /\ Single(<<d>>, A) /\ NoneAfter(<<d>>, E, A)
  BY OneHas
<1>4. /\ d \in Ans(i)' => d.id = i
      /\ x \in Ans(i)' => x.id = i
      /\ d \notin Err(i)
      /\ x \in Err(i) => x.id = i
  BY AnsMembers
<1> QED BY <1>2, <1>3, <1>4

\* A PHY_ERR that trails an accepted switch is no reply.
LEMMA SaidTrailer ==
  ASSUME NEW evs \in Seq(Events), NEW m, NEW n, Said(evs, m, n), disturbed',
         NEW y \in Events, y.id = n, y.typ = "PHY_ERR"
  PROVE  Said(evs \o <<y>>, m, n)
<1> SUFFICES ASSUME NEW i
             PROVE  /\ Has(evs \o <<y>>, Ans(i)') => i = n \/ (i = m /\ m # 0)
                    /\ Has(evs \o <<y>>, Err(i)) => i = n
                    /\ i # m \/ m # n => Single(evs \o <<y>>, Ans(i)')
                    /\ NoneAfter(evs \o <<y>>, Err(i), Ans(i)')
  BY DEF Said
<1>1. \A A, E : /\ Has(evs \o <<y>>, A) <=> Has(evs, A) \/ y \in A
                /\ Single(evs \o <<y>>, A) <=> Single(evs, A) /\ ~(Has(evs, A) /\ y \in A)
                /\ NoneAfter(evs \o <<y>>, E, A) <=>
                     NoneAfter(evs, E, A) /\ ~(Has(evs, E) /\ y \in A)
  BY PutAfter
<1>2. y \notin Ans(i)' /\ (y \in Err(i) => i = n)
  BY AnsMembers
<1>3. /\ Has(evs, Ans(i)') => i = n \/ (i = m /\ m # 0)
      /\ Has(evs, Err(i)) => i = n
      /\ i # m \/ m # n => Single(evs, Ans(i)')
      /\ NoneAfter(evs, Err(i), Ans(i)')
  BY DEF Said
<1> QED BY <1>1, <1>2, <1>3

\* Serving the head of the ring: the node closes it, and may close the
\* scheduled transmission with it.
LEMMA ServedFacts ==
  ASSUME Facts, TypeOK, TypeOK', disturbed => disturbed',
         UNCHANGED <<pc, req, nextId, adrift, resp, offering, toNode>>,
         ring # <<>>, ring' = Tail(ring),
         NEW m, (m = 0 /\ slot' = slot) \/ (m = slot /\ slot' = 0),
         NEW evs \in Seq(Events), toHost' = toHost \o evs, Said(evs, m, Head(ring).id)
  PROVE  Facts'
<1> PICK n : n = Head(ring).id
  OBVIOUS
<1>1. ring \in Seq(Requests) /\ slot \in 0 .. MaxReqs
  BY DEF TypeOK, NodeTypeOK
<1>2. \A i : Head(ring) \in Cmd(i) <=> i = n
  BY <1>1, HeadTail DEF Cmd
<1>3. \A i : Cmd(i)' = Cmd(i)
  BY FewerAnswers
<1>4. \A i : /\ Has(ring, Cmd(i)) <=> i = n \/ Has(ring', Cmd(i)')
             /\ Single(ring, Cmd(i)) <=> Single(ring', Cmd(i)') /\ ~(i = n /\ Has(ring', Cmd(i)'))
             /\ Has(toNode', Cmd(i)') <=> Has(toNode, Cmd(i))
             /\ Single(toNode', Cmd(i)') <=> Single(toNode, Cmd(i))
  BY <1>1, <1>2, <1>3, TakenFrom
<1>5. \A i : Held(i)' => Held(i)
  BY <1>4 DEF Held
<1>6. Held(n) /\ (m # 0 => Held(m))
  BY <1>4 DEF Held
<1>7. \A i : i # 0 /\ Placed(i) =>
              /\ Placed(i)'
              /\ i = n \/ (i = m /\ m # 0) => ~Held(i)'
              /\ i # m \/ m # n
  BY <1>4 DEF Held, Placed
<1>8. \A i : /\ Has(evs, Ans(i)') => i = n \/ (i = m /\ m # 0)
             /\ Has(evs, Err(i)) => i = n
             /\ i # m \/ m # n => Single(evs, Ans(i)')
             /\ NoneAfter(evs, Err(i), Ans(i)')
  BY DEF Said
<1>9. \A i \in 0 .. MaxReqs :
        /\ Held(i)' => Held(i)
        /\ Has(evs, Ans(i)') => Held(i) \/ (i = 0 /\ disturbed')
        /\ Has(evs, Err(i)) => Held(i)
        /\ i # 0 /\ Placed(i) =>
             /\ Placed(i)' /\ Single(evs, Ans(i)') /\ NoneAfter(evs, Err(i), Ans(i)')
             /\ Held(i)' => ~Has(evs, Ans(i)') /\ ~Has(evs, Err(i))
  BY <1>5, <1>6, <1>7, <1>8
<1> QED BY <1>9, NodeSpoke

\* An answer of the node is an event.
LEMMA RepliesAreEvents ==
  ASSUME TypeOK, NEW r \in Requests, NEW typ \in EvTypes, NEW ok \in BOOLEAN
  PROVE  /\ Reply(typ, r, ok) \in Events
         /\ Reply(typ, r, ok).id = r.id /\ Reply(typ, r, ok).typ = typ
BY DEF Reply, Events, Requests, TypeOK, NodeTypeOK

LEMMA ServingHead ==
  ASSUME TypeOK, NEW op, Serving(op)
  PROVE  ring # <<>> /\ Head(ring) \in Requests
<1>1. ring \in Seq(Requests) /\ ring # <<>>
  BY DEF TypeOK, NodeTypeOK, Serving
<1> QED BY <1>1, HeadTail

\* A command answered with one reply.
LEMMA OneReplyFacts ==
  ASSUME Facts, TypeOK, TypeOK', NEW op, Serving(op),
         UNCHANGED <<pc, req, nextId, adrift, resp, offering, toNode, disturbed, slot>>,
         NEW typ \in EvTypes, NEW ok \in BOOLEAN, Answer(<<Reply(typ, Head(ring), ok)>>)
  PROVE  Facts'
<1> PICK r : r = Head(ring)
  OBVIOUS
<1> PICK x : x = Reply(typ, r, ok)
  OBVIOUS
<1> PICK m : m = 0
  OBVIOUS
<1>1. /\ UNCHANGED <<pc, req, nextId, adrift, resp, offering, toNode>>
      /\ disturbed => disturbed'
      /\ (m = 0 /\ slot' = slot) \/ (m = slot /\ slot' = 0)
  OBVIOUS
<1>2. ring # <<>> /\ r \in Requests
  BY ServingHead
<1>3. x \in Events /\ x.id = r.id
  BY <1>2, RepliesAreEvents
<1>4. <<x>> \in Seq(Events) /\ Said(<<x>>, m, r.id)
  BY <1>3, SaidOne
<1>5. ring' = Tail(ring) /\ toHost' = toHost \o <<x>>
  BY DEF Answer
<1> QED BY <1>1, <1>2, <1>4, <1>5, ServedFacts

LEMMA HandleTxFacts ==
  ASSUME Facts, TypeOK, TypeOK', HandleTx
  PROVE  Facts'
<1>1. /\ UNCHANGED <<pc, req, nextId, adrift, resp, offering, toNode, disturbed, slot>>
      /\ Serving("tx")
      /\ \E ok \in BOOLEAN : Answer(<<Reply("TXDONE", Head(ring), ok)>>)
  BY DEF HandleTx, NodeElse, hostVars, readVars
<1>2. "TXDONE" \in EvTypes
  BY DEF EvTypes
<1> QED BY <1>1, <1>2, OneReplyFacts

LEMMA HandleSetFreqFacts ==
  ASSUME Facts, TypeOK, TypeOK', HandleSetFreq
  PROVE  Facts'
<1>1. /\ UNCHANGED <<pc, req, nextId, adrift, resp, offering, toNode, disturbed, slot>>
      /\ Serving("freq") /\ Answer(<<Reply("INFO", Head(ring), TRUE)>>)
  BY DEF HandleSetFreq, NodeElse, hostVars, readVars
<1>2. "INFO" \in EvTypes
  BY DEF EvTypes
<1> QED BY <1>1, <1>2, OneReplyFacts

LEMMA HandleSetModFacts ==
  ASSUME Facts, TypeOK, TypeOK', HandleSetMod
  PROVE  Facts'
<1>1. /\ UNCHANGED <<pc, req, nextId, adrift, resp, offering, toNode, disturbed, slot>>
      /\ Serving("mod")
  BY DEF HandleSetMod, NodeElse, hostVars, readVars
<1>2. \/ Answer(<<Reply("INFO", Head(ring), TRUE)>>)
      \/ Answer(<<Reply("UNSUPPORTED", Head(ring), FALSE)>>)
  BY DEF HandleSetMod
<1>3. "INFO" \in EvTypes /\ "UNSUPPORTED" \in EvTypes
  BY DEF EvTypes
<1> QED BY <1>1, <1>2, <1>3, OneReplyFacts

LEMMA RefuseTxAtFacts ==
  ASSUME Facts, TypeOK, TypeOK', RefuseTxAt
  PROVE  Facts'
<1>1. /\ UNCHANGED <<pc, req, nextId, adrift, resp, offering, toNode, disturbed>>
      /\ Serving("txat") /\ slot' = slot
      /\ Answer(<<Reply("UNSUPPORTED", Head(ring), FALSE)>>)
  BY DEF RefuseTxAt, NodeElse, hostVars, readVars
<1>2. "UNSUPPORTED" \in EvTypes
  BY DEF EvTypes
<1> QED BY <1>1, <1>2, OneReplyFacts

LEMMA HandleTxAtFacts ==
  ASSUME Facts, TypeOK, TypeOK', HandleTxAt
  PROVE  Facts'
<1>1. /\ UNCHANGED <<pc, req, nextId, adrift, resp, offering, toNode, disturbed>>
      /\ Serving("txat")
  BY DEF HandleTxAt, NodeElse, hostVars, readVars
<1>2. CASE slot # 0
  <2>1. Answer(<<Reply("TXDONE", Head(ring), FALSE)>>) /\ slot' = slot
    BY <1>2 DEF HandleTxAt
  <2>2. "TXDONE" \in EvTypes
    BY DEF EvTypes
  <2> QED BY <1>1, <2>1, <2>2, OneReplyFacts
<1>3. CASE slot = 0
  <2> PICK n : n = Head(ring).id
    OBVIOUS
  <2>1. slot' = n /\ ring' = Tail(ring) /\ toHost' = toHost \o <<>>
    BY <1>3 DEF HandleTxAt, Answer
  <2>2. ring # <<>> /\ Head(ring) \in Requests /\ ring \in Seq(Requests)
    BY <1>1, ServingHead DEF TypeOK, NodeTypeOK
  <2>3. \A i : (Head(ring) \in Cmd(i) <=> i = n) /\ Cmd(i)' = Cmd(i)
    BY <2>2, FewerAnswers, <1>1 DEF Cmd
  <2>4. \A i : /\ Has(ring, Cmd(i)) <=> i = n \/ Has(ring', Cmd(i)')
               /\ Single(ring, Cmd(i)) <=> Single(ring', Cmd(i)') /\ ~(i = n /\ Has(ring', Cmd(i)'))
               /\ Has(toNode', Cmd(i)') <=> Has(toNode, Cmd(i))
               /\ Single(toNode', Cmd(i)') <=> Single(toNode, Cmd(i))
    BY <1>1, <2>1, <2>2, <2>3, TakenFrom
  <2>5. \A i : Held(i)' => Held(i)
    BY <2>1, <2>4 DEF Held
  <2>6. \A i : i # 0 /\ Placed(i) => Placed(i)'
    BY <1>3, <2>1, <2>4 DEF Placed
  <2>7. \A A, E : ~Has(<<>>, A) /\ Single(<<>>, A) /\ NoneAfter(<<>>, E, A)
    BY EmptyHas
  <2>8. <<>> \in Seq(Events)
    OBVIOUS
  <2>9. \A i \in 0 .. MaxReqs :
          /\ Held(i)' => Held(i)
          /\ Has(<<>>, Ans(i)') => Held(i) \/ (i = 0 /\ disturbed')
          /\ Has(<<>>, Err(i)) => Held(i)
          /\ i # 0 /\ Placed(i) =>
               /\ Placed(i)' /\ Single(<<>>, Ans(i)') /\ NoneAfter(<<>>, Err(i), Ans(i)')
               /\ Held(i)' => ~Has(<<>>, Ans(i)') /\ ~Has(<<>>, Err(i))
    BY <2>5, <2>6, <2>7
  <2> QED BY <1>1, <2>1, <2>8, <2>9, NodeSpoke
<1> QED BY <1>2, <1>3

\* SET_PHY: a cancelled transmission first, then the reply.
LEMMA CancelledSaid ==
  ASSUME TypeOK, ring # <<>>, Head(ring) \in Requests,
         NEW x \in Events, x.id = Head(ring).id
  PROVE  /\ Cancelled \in Seq(Events) /\ Cancelled \o <<x>> \in Seq(Events)
         /\ Said(Cancelled \o <<x>>, slot, x.id)
<1>0. slot \in 0 .. MaxReqs
  BY DEF TypeOK, NodeTypeOK
<1>1. CASE slot = 0
  <2>1. Cancelled = <<>> /\ <<>> \o <<x>> = <<x>>
    BY <1>1 DEF Cancelled
  <2> QED BY <2>1, SaidOne
<1>2. CASE slot # 0
  <2> PICK d : d = [Reply("TXDONE", Head(ring), FALSE) EXCEPT !.id = slot]
    OBVIOUS
  <2>1. d \in Events /\ d.id = slot /\ d.typ = "TXDONE"
    BY <1>0 DEF Reply, Events, EvTypes, Requests, TypeOK, NodeTypeOK
  <2>2. Cancelled = <<d>>
    BY <1>2 DEF Cancelled
  <2>3. Said(<<d>> \o <<x>>, d.id, x.id)
    BY <1>2, <2>1, SaidTwo
  <2>4. <<d>> \in Seq(Events) /\ <<d>> \o <<x>> \in Seq(Events)
    BY <2>1
  <2> QED BY <2>1, <2>2, <2>3, <2>4
<1> QED BY <1>1, <1>2

LEMMA SetPhyFacts ==
  ASSUME Facts, TypeOK, TypeOK', HandleSetPhy
  PROVE  Facts'
<1> PICK r : r = Head(ring)
  OBVIOUS
<1> PICK x : x = [Reply("CAP", r, TRUE) EXCEPT !.cap = cap']
  OBVIOUS
<1> PICK y : y = Reply("PHY_ERR", r, FALSE)
  OBVIOUS
<1>1. /\ UNCHANGED <<pc, req, nextId, adrift, resp, offering, toNode>>
      /\ disturbed => disturbed'
      /\ Serving("phy") /\ slot' = 0
  BY DEF HandleSetPhy, NodeElse, hostVars, readVars
<1>2. ring # <<>> /\ r \in Requests /\ slot \in 0 .. MaxReqs
  BY <1>1, ServingHead DEF TypeOK, NodeTypeOK
<1>3. x \in Events /\ x.id = r.id
  BY <1>2 DEF Reply, Events, EvTypes, Requests, TypeOK, NodeTypeOK
<1>4. y \in Events /\ y.id = r.id /\ y.typ = "PHY_ERR"
  BY <1>2 DEF Reply, Events, EvTypes, Requests, TypeOK, NodeTypeOK
<1>5. /\ Cancelled \in Seq(Events) /\ Cancelled \o <<x>> \in Seq(Events)
      /\ Said(Cancelled \o <<x>>, slot, r.id)
  BY <1>2, <1>3, CancelledSaid
<1>6. CASE Answer(Cancelled \o <<x>>)
  <2>1. ring' = Tail(ring) /\ toHost' = toHost \o (Cancelled \o <<x>>)
    BY <1>6 DEF Answer
  <2> QED BY <1>1, <1>2, <1>5, <2>1, ServedFacts
<1>7. CASE Answer(Cancelled \o <<x>> \o <<y>>) /\ disturbed'
  <2>1. (Cancelled \o <<x>>) \o <<y>> \in Seq(Events)
    BY <1>4, <1>5, PutAfter
  <2>2. Said((Cancelled \o <<x>>) \o <<y>>, slot, r.id)
    BY <1>4, <1>5, <1>7, SaidTrailer
  <2>3. ring' = Tail(ring) /\ toHost' = toHost \o ((Cancelled \o <<x>>) \o <<y>>)
    BY <1>7, <2>1 DEF Answer
  <2> QED BY <1>1, <1>2, <2>1, <2>2, <2>3, ServedFacts
<1> QED BY <1>6, <1>7 DEF HandleSetPhy

LEMMA RefuseSetPhyFacts ==
  ASSUME Facts, TypeOK, TypeOK', RefuseSetPhy
  PROVE  Facts'
<1> PICK r : r = Head(ring)
  OBVIOUS
<1> PICK y : y = Reply("PHY_ERR", r, FALSE)
  OBVIOUS
<1>1. /\ UNCHANGED <<pc, req, nextId, adrift, resp, offering, toNode, disturbed>>
      /\ Serving("phy") /\ slot' = 0 /\ Answer(Cancelled \o <<y>>)
  BY DEF RefuseSetPhy, NodeElse, hostVars, readVars
<1>2. ring # <<>> /\ r \in Requests /\ slot \in 0 .. MaxReqs
  BY <1>1, ServingHead DEF TypeOK, NodeTypeOK
<1>3. y \in Events /\ y.id = r.id
  BY <1>2 DEF Reply, Events, EvTypes, Requests, TypeOK, NodeTypeOK
<1>4. /\ Cancelled \o <<y>> \in Seq(Events)
      /\ Said(Cancelled \o <<y>>, slot, r.id)
  BY <1>2, <1>3, CancelledSaid
<1>5. ring' = Tail(ring) /\ toHost' = toHost \o (Cancelled \o <<y>>)
  BY <1>1 DEF Answer
<1> QED BY <1>1, <1>2, <1>4, <1>5, ServedFacts

\* A command leaves the line for the ring, or for nowhere.
LEMMA ArriveFacts ==
  ASSUME Facts, TypeOK, TypeOK', Arrive
  PROVE  Facts'
<1>1. /\ UNCHANGED <<pc, req, nextId, adrift, resp, offering, toHost, slot, disturbed>>
      /\ toNode # <<>> /\ toNode' = Tail(toNode)
      /\ ring' = ring \/ ring' = Append(ring, Head(toNode))
  BY DEF Arrive, hostVars, readVars
<1>2. toNode \in Seq(Requests) /\ ring \in Seq(Requests) /\ Head(toNode) \in Requests
  BY <1>1, HeadTail DEF TypeOK, NodeTypeOK
<1>3. CASE ring' = ring
  BY <1>1, <1>2, <1>3, SubTail, SubSelf, Removed DEF Stream
<1>4. CASE ring' = Append(ring, Head(toNode))
  <2> PICK n : n = Head(toNode).id
    OBVIOUS
  <2>1. \A i : (Head(toNode) \in Cmd(i) <=> i = n) /\ Cmd(i)' = Cmd(i)
    BY <1>1, <1>2, FewerAnswers DEF Cmd
  <2>2. \A i : /\ Has(toNode, Cmd(i)) <=> i = n \/ Has(toNode', Cmd(i)')
               /\ Single(toNode, Cmd(i)) <=>
                    Single(toNode', Cmd(i)') /\ ~(i = n /\ Has(toNode', Cmd(i)'))
    BY <1>1, <1>2, <2>1, TakenFrom
  <2>3. \A i : /\ Has(ring', Cmd(i)') <=> Has(ring, Cmd(i)) \/ i = n
               /\ Single(ring', Cmd(i)') <=> Single(ring, Cmd(i)) /\ ~(Has(ring, Cmd(i)) /\ i = n)
    BY <1>2, <1>4, <2>1, Appended
  <2>4. \A i : Held(i)' => Held(i)
    BY <1>1, <2>2, <2>3 DEF Held
  <2>5. \A i : i # 0 /\ Placed(i) => Placed(i)'
    BY <1>1, <2>2, <2>3 DEF Placed
  <2>6. \A A, E : ~Has(<<>>, A) /\ Single(<<>>, A) /\ NoneAfter(<<>>, E, A)
    BY EmptyHas
  <2>7. <<>> \in Seq(Events) /\ toHost' = toHost \o <<>>
    BY <1>1 DEF TypeOK, NodeTypeOK
  <2>8. \A i \in 0 .. MaxReqs :
          /\ Held(i)' => Held(i)
          /\ Has(<<>>, Ans(i)') => Held(i) \/ (i = 0 /\ disturbed')
          /\ Has(<<>>, Err(i)) => Held(i)
          /\ i # 0 /\ Placed(i) =>
               /\ Placed(i)' /\ Single(<<>>, Ans(i)') /\ NoneAfter(<<>>, Err(i), Ans(i)')
               /\ Held(i)' => ~Has(<<>>, Ans(i)') /\ ~Has(<<>>, Err(i))
    BY <2>4, <2>5, <2>6
  <2> QED BY <1>1, <2>7, <2>8, NodeSpoke
<1> QED BY <1>1, <1>3, <1>4

\* Going on the air, and coming back from a relay, say nothing.
LEMMA AiringFacts ==
  ASSUME Facts, TypeOK, TypeOK',
         SchedStage \/ SchedIssue \/ BeaconStart \/ RelayStart \/ RelayDone
  PROVE  Facts'
<1>1. UNCHANGED <<pc, req, nextId, adrift, resp, offering, toHost, toNode, ring, slot>>
  BY DEF SchedStage, SchedIssue, BeaconStart, RelayStart, RelayDone, hostVars, readVars,
         wireVars, histVars
<1>2. disturbed => disturbed'
  BY DEF SchedStage, SchedIssue, BeaconStart, RelayStart, RelayDone, histVars
<1> QED BY <1>1, <1>2, SubSelf, Removed DEF Stream

\* What is said unasked: of the scheduled transmission m, and of nobody.
Unprompted(evs, m) ==
  \A i :
    /\ Has(evs, Ans(i)') => (i = m /\ m # 0) \/ (i = 0 /\ disturbed')
    /\ ~Has(evs, Err(i))
    /\ i # 0 => Single(evs, Ans(i)')

\* What the node says unasked has no command behind it, except the report of
\* the scheduled transmission m, whose slot it empties.
LEMMA UnaskedFacts ==
  ASSUME Facts, TypeOK, TypeOK', disturbed => disturbed',
         UNCHANGED <<pc, req, nextId, adrift, resp, offering, toNode, ring>>,
         NEW m, (m = 0 /\ slot' = slot) \/ (m = slot /\ slot' = 0),
         NEW evs \in Seq(Events), toHost' = toHost \o evs, Unprompted(evs, m)
  PROVE  Facts'
<1>0. \A i :
        /\ Has(evs, Ans(i)') => (i = m /\ m # 0) \/ (i = 0 /\ disturbed')
        /\ ~Has(evs, Err(i))
        /\ i # 0 => Single(evs, Ans(i)')
  BY DEF Unprompted
<1>1. \A i : Cmd(i)' = Cmd(i)
  BY FewerAnswers
<1>2. \A i : Held(i)' => Held(i)
  BY <1>1 DEF Held
<1>3. m # 0 => Held(m)
  BY DEF Held
<1>4. \A i : i # 0 /\ Placed(i) => Placed(i)' /\ (i = m => ~Held(i)')
  BY <1>1 DEF Placed, Held
<1>5. \A i : NoneAfter(evs, Err(i), Ans(i)')
  BY <1>0 DEF NoneAfter, Has
<1>6. \A i \in 0 .. MaxReqs :
        /\ Held(i)' => Held(i)
        /\ Has(evs, Ans(i)') => Held(i) \/ (i = 0 /\ disturbed')
        /\ Has(evs, Err(i)) => Held(i)
        /\ i # 0 /\ Placed(i) =>
             /\ Placed(i)' /\ Single(evs, Ans(i)') /\ NoneAfter(evs, Err(i), Ans(i)')
             /\ Held(i)' => ~Has(evs, Ans(i)') /\ ~Has(evs, Err(i))
  BY <1>0, <1>2, <1>3, <1>4, <1>5
<1> QED BY <1>6, NodeSpoke

LEMMA UnaskedEvents ==
  ASSUME TypeOK, NEW ok \in BOOLEAN, NEW b \in BOOLEAN, NEW k \in Caps
  PROVE  /\ Unasked("TXDONE", ok) \in Events /\ Unasked("TXDONE", ok).id = 0
         /\ Unasked("TXDONE", ok).typ = "TXDONE"
         /\ [Unasked("TXDONE", ok) EXCEPT !.id = slot] \in Events
         /\ [Unasked("TXDONE", ok) EXCEPT !.id = slot].id = slot
         /\ [Unasked("TXDONE", ok) EXCEPT !.id = slot].typ = "TXDONE"
         /\ [Unasked("CAP", b) EXCEPT !.cap = k] \in Events
         /\ [Unasked("CAP", b) EXCEPT !.cap = k].id = 0
         /\ [Unasked("CAP", b) EXCEPT !.cap = k].typ = "CAP"
<1>1. /\ cap \in Caps /\ slot \in 0 .. MaxReqs /\ 0 \in 0 .. MaxReqs
  BY BoundsAssumption DEF TypeOK, NodeTypeOK
<1>2. Unasked("TXDONE", ok) = [typ |-> "TXDONE", id |-> 0, op |-> "tx", ok |-> ok, cap |-> cap]
  BY DEF Unasked
<1>3. [Unasked("TXDONE", ok) EXCEPT !.id = slot]
        = [typ |-> "TXDONE", id |-> slot, op |-> "tx", ok |-> ok, cap |-> cap]
  BY DEF Unasked
<1>4. [Unasked("CAP", b) EXCEPT !.cap = k]
        = [typ |-> "CAP", id |-> 0, op |-> "tx", ok |-> b, cap |-> k]
  BY DEF Unasked
<1> QED BY <1>1, <1>2, <1>3, <1>4 DEF Events, EvTypes, AllOps

LEMMA PairHas ==
  ASSUME NEW S, NEW d \in S, NEW x \in S, NEW A
  PROVE  /\ Has(<<d>> \o <<x>>, A) <=> d \in A \/ x \in A
         /\ Single(<<d>> \o <<x>>, A) <=> ~(d \in A /\ x \in A)
<1>1. <<d>> \in Seq(S)
  OBVIOUS
<1>2. /\ Has(<<d>> \o <<x>>, A) <=> Has(<<d>>, A) \/ x \in A
      /\ Single(<<d>> \o <<x>>, A) <=> Single(<<d>>, A) /\ ~(Has(<<d>>, A) /\ x \in A)
  BY <1>1, PutAfter
<1> QED BY <1>2, OneHas

LEMMA UnpromptedPair ==
  ASSUME NEW d \in Events, NEW x \in Events, d.id # 0, d.typ # "PHY_ERR",
         x.id = 0, x.typ # "PHY_ERR", disturbed'
  PROVE  Unprompted(<<d>> \o <<x>>, d.id)
<1>1. \A A : /\ Has(<<d>> \o <<x>>, A) <=> d \in A \/ x \in A
             /\ Single(<<d>> \o <<x>>, A) <=> ~(d \in A /\ x \in A)
  BY PairHas
<1>2. \A i : /\ d \in Ans(i)' => i = d.id
             /\ x \in Ans(i)' => i = 0
             /\ d \notin Err(i) /\ x \notin Err(i)
  BY AnsMembers
<1> QED BY <1>1, <1>2 DEF Unprompted

LEMMA SchedDoneFacts ==
  ASSUME Facts, TypeOK, TypeOK', Calm, SchedDone
  PROVE  Facts'
<1> PICK m : m = slot
  OBVIOUS
<1> PICK k : k = cap'
  OBVIOUS
<1>1. /\ UNCHANGED <<pc, req, nextId, adrift, resp, offering, toNode, ring>>
      /\ m # 0 /\ ((m = 0 /\ slot' = slot) \/ (m = slot /\ slot' = 0)) /\ (disturbed => disturbed')
      /\ k \in Caps
  BY DEF SchedDone, Calm, hostVars, readVars, TypeOK, NodeTypeOK
<1> PICK ok \in BOOLEAN :
      \/ /\ toHost' = toHost \o <<[Unasked("TXDONE", ok) EXCEPT !.id = slot]>>
         /\ UNCHANGED disturbed
      \/ /\ toHost' = toHost \o <<[Unasked("TXDONE", ok) EXCEPT !.id = slot]>>
                             \o <<[Unasked("CAP", TRUE) EXCEPT !.cap = k]>>
         /\ disturbed' = TRUE
  BY DEF SchedDone
<1> PICK d : d = [Unasked("TXDONE", ok) EXCEPT !.id = slot]
  OBVIOUS
<1> PICK x : x = [Unasked("CAP", TRUE) EXCEPT !.cap = k]
  OBVIOUS
<1>2. /\ d \in Events /\ d.id = m /\ d.typ = "TXDONE"
      /\ x \in Events /\ x.id = 0 /\ x.typ = "CAP"
  BY <1>1, UnaskedEvents
<1>3. <<d>> \in Seq(Events) /\ toHost \in Seq(Events)
  BY <1>2, OneOrTwo DEF TypeOK, NodeTypeOK
<1>4. \A i : /\ d \in Ans(i)' => i = m
             /\ x \in Ans(i)' => i = 0
             /\ d \notin Err(i) /\ x \notin Err(i)
  BY <1>2, AnsMembers
<1>5. \A A, E : (Has(<<d>>, A) <=> d \in A) /\ Single(<<d>>, A)
  BY OneHas
<1>6. CASE toHost' = toHost \o <<d>>
  <2>1. Unprompted(<<d>>, m)
    BY <1>1, <1>4, <1>5 DEF Unprompted
  <2> QED BY <1>1, <1>3, <1>6, <2>1, UnaskedFacts
<1>7. CASE toHost' = toHost \o <<d>> \o <<x>> /\ disturbed' = TRUE
  <2>2. Unprompted(<<d>> \o <<x>>, m)
    BY <1>1, <1>2, <1>7, UnpromptedPair
  <2>3. toHost' = toHost \o (<<d>> \o <<x>>)
    <3>1. \A s, t, u \in Seq(Events) : s \o (t \o u) = (s \o t) \o u
      OBVIOUS
    <3>2. <<x>> \in Seq(Events)
      BY <1>2, OneOrTwo
    <3>3. toHost \o (<<d>> \o <<x>>) = (toHost \o <<d>>) \o <<x>>
      BY <1>3, <3>1, <3>2
    <3> QED BY <1>7, <3>3
  <2>4. <<d>> \o <<x>> \in Seq(Events)
    BY <1>2, OneOrTwo, Concatenated
  <2> QED BY <1>1, <2>2, <2>3, <2>4, UnaskedFacts
<1> QED BY <1>6, <1>7

LEMMA BeaconDoneFacts ==
  ASSUME Facts, TypeOK, TypeOK', Calm, BeaconDone
  PROVE  Facts'
<1> PICK m : m = 0
  OBVIOUS
<1>1. /\ UNCHANGED <<pc, req, nextId, adrift, resp, offering, toNode, ring, disturbed>>
      /\ (m = 0 /\ slot' = slot) \/ (m = slot /\ slot' = 0)
      /\ disturbed /\ (disturbed => disturbed')
  BY DEF BeaconDone, Calm, hostVars, readVars, histVars
<1> PICK k : k = cap
  OBVIOUS
<1> PICK ok \in BOOLEAN : toHost' = Append(toHost, Unasked("TXDONE", ok))
  BY DEF BeaconDone
<1> PICK d : d = Unasked("TXDONE", ok)
  OBVIOUS
<1>2. d \in Events /\ d.id = 0 /\ d.typ = "TXDONE"
  <2>1. k \in Caps
    BY DEF TypeOK, NodeTypeOK
  <2> QED BY <2>1, UnaskedEvents
<1>3. <<d>> \in Seq(Events) /\ toHost' = toHost \o <<d>>
  <2>1. toHost \in Seq(Events)
    BY DEF TypeOK, NodeTypeOK
  <2> QED BY <1>2, <2>1, OneOrTwo, PutAfter
<1>4. \A i : (d \in Ans(i)' => i = 0) /\ d \notin Err(i)
  BY <1>2, AnsMembers
<1>5. \A A : (Has(<<d>>, A) <=> d \in A) /\ Single(<<d>>, A)
  BY OneHas
<1>6. Unprompted(<<d>>, m)
  BY <1>1, <1>4, <1>5 DEF Unprompted
<1> QED BY <1>1, <1>3, <1>6, UnaskedFacts

LEMMA NodeFacts ==
  ASSUME Facts, TypeOK, TypeOK', Calm, NodeStep
  PROVE  Facts'
BY ArriveFacts, HandleTxFacts, HandleTxAtFacts, RefuseTxAtFacts, HandleSetFreqFacts,
   HandleSetModFacts, SetPhyFacts, RefuseSetPhyFacts, AiringFacts, SchedDoneFacts, BeaconDoneFacts
   DEF NodeStep

LEMMA CallerFacts ==
  ASSUME Facts, TypeOK, TypeOK', LockedWhileWaiting, NEW c \in Callers, CallerStep(c)
  PROVE  Facts'
BY SendModFacts, ExecOnFacts, ExecOnClosedFacts, TakeReplyFacts, TakeRefusalFacts,
   SkipEventFacts, GiveUpFacts, RecvOnFacts
   DEF CallerStep

LEMMA NextFacts ==
  ASSUME Facts, TypeOK, TypeOK', LockedWhileWaiting, Calm, [Next]_vars
  PROVE  Facts'
BY BeginFacts, CallerFacts, ReaderFacts, LineFacts, NodeFacts, StutterFacts DEF Next

----------------------------------------------------------------------------
(* While nothing is disturbed.                                             *)

\* The events of the stream, by the channel they are in.
LEMMA InStream ==
  ASSUME TypeOK, NEW A
  PROVE  Has(Stream, A) <=> Has(resp, A) \/ Has(offering, A) \/ Has(toHost, A)
BY StreamType, HasConcat DEF Stream

\* Only one caller waits, so what is in flight undisturbed is that caller's.
LEMMA OneOwner ==
  ASSUME TypeOK, LockedWhileWaiting, Calm, ~disturbed, NEW c \in Callers,
         pc[c] = "wait", NEW i, HasOwner(i)
  PROVE  req[c].id = i
<1>1. PICK d \in Callers : pc[d] = "wait" /\ req[d].id = i
  BY DEF HasOwner, Calm
<1>2. d = c
  BY <1>1 DEF LockedWhileWaiting, Waiting
<1> QED BY <1>1, <1>2

\* A caller that ends its wait undisturbed has its own reply in hand.
LEMMA OwnReply ==
  ASSUME Facts, TypeOK, LockedWhileWaiting, Calm, ~disturbed, NEW c \in Callers,
         pc[c] = "wait", resp # <<>>
  PROVE  Head(resp).id = req[c].id
<1> PICK e : e = Head(resp)
  OBVIOUS
<1>1. resp \in Seq(Events) /\ e \in Events
  BY HeadTail DEF TypeOK, HostTypeOK
<1>2. e.id \in 0 .. MaxReqs /\ e \in Ans(e.id)
  BY <1>1 DEF Ans, Events
<1>3. Has(resp, Ans(e.id))
  BY <1>1, <1>2, TakenFrom
<1>4. HasOwner(e.id)
  BY <1>2, <1>3, InStream DEF Facts, AllOwned
<1> QED BY <1>4, OneOwner

LEMMA HeadHas ==
  ASSUME NEW S, NEW s \in Seq(S), s # <<>>, NEW A, Head(s) \in A
  PROVE  Has(s, A)
BY TakenFrom

LEMMA CommandIds ==
  ASSUME NEW r \in Requests
  PROVE  r.id \in 0 .. MaxReqs /\ r \in Cmd(r.id)
BY DEF Requests, Cmd

\* Undisturbed, the command that arrives finds the node with nothing to do.
LEMMA RoomToArrive ==
  ASSUME Facts, TypeOK, LockedWhileWaiting, Calm, ~disturbed, toNode # <<>>
  PROVE  Busy <= RingCap
<1> PICK i : i = Head(toNode).id
  OBVIOUS
<1>1. /\ toNode \in Seq(Requests) /\ ring \in Seq(Requests) /\ slot \in 0 .. MaxReqs
      /\ airing \in {"none", "sched", "beacon", "relay"}
  BY DEF TypeOK, NodeTypeOK
<1>2. Head(toNode) \in Requests
  BY <1>1, HeadTail
<1>3. i \in 0 .. MaxReqs /\ Has(toNode, Cmd(i))
  <2>1. i \in 0 .. MaxReqs /\ Head(toNode) \in Cmd(i)
    BY <1>2, CommandIds
  <2> QED BY <1>1, <2>1, HeadHas
<1>4. HasOwner(i)
  BY <1>3 DEF Facts, AllOwned, Held
<1>5. PICK c \in Callers : pc[c] = "wait" /\ req[c].id = i
  BY <1>4 DEF HasOwner, Calm
<1>6. OnceInFlight(i)
  BY <1>5 DEF Calm, Facts, InFlight
<1>7. ring = <<>>
  <2> SUFFICES ASSUME ring # <<>>
               PROVE  FALSE
    OBVIOUS
  <2> PICK j : j = Head(ring).id
    OBVIOUS
  <2>1. Head(ring) \in Requests
    BY <1>1, HeadTail
  <2>2. j \in 0 .. MaxReqs /\ Has(ring, Cmd(j))
    <3>1. j \in 0 .. MaxReqs /\ Head(ring) \in Cmd(j)
      BY <2>1, CommandIds
    <3> QED BY <1>1, <3>1, HeadHas
  <2>3. HasOwner(j)
    BY <2>2 DEF Facts, AllOwned, Held
  <2>4. j = i
    BY <1>5, <2>3, OneOwner
  <2> QED BY <1>3, <1>6, <2>2, <2>4 DEF OnceInFlight
<1>8. airing = "none"
  <2>1. airing # "sched"
    <3> SUFFICES ASSUME airing = "sched"
                 PROVE  FALSE
      OBVIOUS
    <3>1. slot # 0 /\ HasOwner(slot)
      BY <1>1 DEF Calm, Facts, AllOwned, Held
    <3>2. slot = i
      BY <1>5, <3>1, OneOwner
    <3> QED BY <1>3, <1>6, <3>2 DEF OnceInFlight
  <2> QED BY <1>1, <2>1 DEF Calm
<1> QED BY <1>7, <1>8, BoundsAssumption DEF Busy

LEMMA NextCalm ==
  ASSUME Facts, TypeOK, LockedWhileWaiting, Calm, [Next]_vars
  PROVE  Calm'
<1>1. ASSUME UNCHANGED <<adrift, readerUp, airing, overrun, disturbed, slot, staged>>
      PROVE  Calm'
  BY <1>1 DEF Calm
<1>2. ASSUME NEW c \in Callers, Issue(c)
      PROVE  Calm'
  BY <1>1, <1>2 DEF Issue, Begin, readVars, nodeVars
<1>3. ASSUME NEW c \in Callers,
             \/ SendMod(c) \/ ExecOn(c) \/ ExecOnClosed(c) \/ SkipEvent(c) \/ SetMirror(c)
             \/ RecvOn(c) \/ RecvOnCap(c) \/ RecvOnTimeout(c) \/ Install(c)
      PROVE  Calm'
  BY <1>1, <1>3 DEF SendMod, ExecOn, ExecOnClosed, SkipEvent, SetMirror, RecvOn, RecvOnCap,
                    RecvOnTimeout, Install, readVars, nodeVars, histVars
<1>4. ASSUME NEW c \in Callers, TakeReply(c) \/ TakeRefusal(c)
      PROVE  Calm'
  <2>1. /\ UNCHANGED <<readerUp, airing, overrun, disturbed, slot, staged>>
        /\ pc[c] = "wait" /\ resp # <<>> /\ adrift' = AdriftBut(c, Head(resp))
    BY <1>4 DEF TakeReply, TakeRefusal, nodeVars
  <2>2. ~disturbed => adrift' = adrift
    BY <2>1, OwnReply DEF AdriftBut
  <2> QED BY <2>1, <2>2 DEF Calm
<1>5. ASSUME NEW c \in Callers, Timeout(c)
      PROVE  Calm'
  BY <1>5 DEF Timeout, nodeVars, Calm
<1>6. ASSUME NEW c \in Callers, Disconnected(c)
      PROVE  Calm'
  BY <1>6 DEF Disconnected, nodeVars, Calm
<1>7. CASE \/ ReaderStep \/ LoseEvent \/ LoseCommand
           \/ HandleTx \/ RefuseTxAt \/ HandleSetFreq \/ HandleSetMod
  BY <1>1, <1>7 DEF ReaderStep, ReaderStoresCap, ReaderOffersCap, ReaderForwards, LoseEvent,
                    LoseCommand, HandleTx, RefuseTxAt, HandleSetFreq, HandleSetMod, NodeElse,
                    readVars, nodeVars, histVars
<1>8. CASE PortFails \/ BeaconStart \/ RelayStart
  BY <1>8 DEF PortFails, BeaconStart, RelayStart, nodeVars, Calm
<1>9. CASE Arrive
  <2>1. UNCHANGED <<adrift, readerUp, airing, disturbed, slot, staged>> /\ toNode # <<>>
    BY <1>9 DEF Arrive, readVars
  <2>2. ~disturbed => overrun' = overrun
    BY <1>9, <2>1, RoomToArrive DEF Arrive
  <2> QED BY <2>1, <2>2 DEF Calm
<1>10. CASE HandleTxAt \/ HandleSetPhy \/ RefuseSetPhy
  <2>1. UNCHANGED <<adrift, readerUp, airing, overrun>> /\ airing = "none"
    BY <1>10 DEF HandleTxAt, HandleSetPhy, RefuseSetPhy, Serving, NodeElse, readVars
  <2>2. disturbed => disturbed'
    BY <1>10 DEF HandleTxAt, HandleSetPhy, RefuseSetPhy
  <2>3. staged' => slot' # 0
    BY <1>10 DEF HandleTxAt, HandleSetPhy, RefuseSetPhy, Calm
  <2> QED BY <2>1, <2>2, <2>3 DEF Calm
<1>11. CASE SchedStage \/ SchedIssue \/ SchedDone \/ BeaconDone \/ RelayDone
  <2>1. CASE SchedIssue
    BY <2>1 DEF SchedIssue, readVars, Calm
  <2>4. CASE SchedStage
    BY <2>4 DEF SchedStage, readVars, histVars, Calm
  <2>2. CASE SchedDone
    <3>1. UNCHANGED <<adrift, readerUp, overrun>> /\ airing' = "none" /\ ~staged'
      BY <2>2 DEF SchedDone, readVars
    <3>2. disturbed => disturbed'
      BY <2>2 DEF SchedDone
    <3> QED BY <3>1, <3>2 DEF Calm
  <2>3. CASE BeaconDone \/ RelayDone
    <3>1. UNCHANGED <<adrift, readerUp, overrun, disturbed, slot, staged>> /\ airing' = "none"
      BY <2>3 DEF BeaconDone, RelayDone, readVars, histVars
    <3> QED BY <3>1 DEF Calm
  <2> QED BY <1>11, <2>1, <2>2, <2>3, <2>4
<1>12. CASE UNCHANGED vars
  BY <1>1, <1>12 DEF vars, readVars, nodeVars, histVars
<1> QED BY <1>2, <1>3, <1>4, <1>5, <1>6, <1>7, <1>8, <1>9, <1>10, <1>11, <1>12
        DEF Next, CallerStep, LineStep, NodeStep

LEMMA InitFacts ==
  ASSUME Init
  PROVE  Facts /\ Calm
<1>1. /\ toNode = <<>> /\ ring = <<>> /\ slot = 0 /\ adrift = {} /\ ~disturbed
      /\ nextId = 1 /\ readerUp /\ airing = "none" /\ ~staged /\ ~overrun
      /\ resp = <<>> /\ offering = <<>> /\ toHost = <<>>
      /\ \A c \in Callers : pc[c] = "idle" /\ req[c].id = 0
  BY DEF Init
<1>2. Stream = <<>>
  BY <1>1 DEF Stream
<1>3. \A A : ~Has(<<>>, A)
  BY EmptyHas
<1> QED BY <1>1, <1>2, <1>3 DEF Facts, Numbered, AllOwned, InFlight, ErrsAreOld, Held, Calm

\* The inductive invariant of the link.
THEOREM LinkInvariant == Spec => []IInv
<1>1. Init => Facts /\ Calm /\ LockedWhileWaiting
  <2>1. Init => LockedWhileWaiting
    BY CallersAssumption DEF Init, LockedWhileWaiting, Waiting
  <2> QED BY <2>1, InitFacts
<1>2. TypeOK /\ TypeOK' /\ LockedWhileWaiting /\ Facts /\ Calm /\ [Next]_vars => Facts' /\ Calm'
  BY NextFacts, NextCalm
<1>3. TypeOK /\ LockedWhileWaiting /\ Facts /\ Calm => IInv
  BY DEF Facts, IInv
<1> QED BY <1>1, <1>2, <1>3, TypeCorrect, MutexHeldWhileWaiting, PTL DEF Spec

\* A command the node holds and a reply on its way belong to the caller that is
\* waiting, or to a request its caller gave up on, or to nobody.
THEOREM RepliesOwned == Spec => []RepliesAreOwned
<1>1. IInv => RepliesAreOwned
  <2> SUFFICES ASSUME IInv
               PROVE  RepliesAreOwned
    OBVIOUS
  <2>1. \A i : HasOwner(i) => Owned(i)
    BY DEF HasOwner, Owned
  <2>2. /\ toNode \in Seq(Requests) /\ ring \in Seq(Requests) /\ slot \in 0 .. MaxReqs
        /\ resp \in Seq(Events) /\ offering \in Seq(Events) /\ toHost \in Seq(Events)
    BY DEF IInv, TypeOK, HostTypeOK, NodeTypeOK
  <2>3. ASSUME NEW S, NEW s \in Seq(S), NEW x \in Range(s), NEW A, x \in A
        PROVE  Has(s, A)
    BY <2>3 DEF Range, Has
  <2>4. ASSUME NEW S, NEW s \in Seq(S), NEW x \in Range(s)
        PROVE  x \in S
    <3>1. \A k \in DOMAIN s : s[k] \in S
      OBVIOUS
    <3> QED BY <3>1 DEF Range
  <2>5. ASSUME NEW r \in Range(toNode) \cup Range(ring)
        PROVE  Owned(r.id)
    <3>1. r \in Requests /\ r.id \in 0 .. MaxReqs
      BY <2>2, <2>4 DEF Requests
    <3>2. Held(r.id)
      BY <2>2, <2>3, <3>1 DEF Held, Cmd
    <3> QED BY <2>1, <3>1, <3>2 DEF IInv, AllOwned
  <2>6. slot # 0 => Owned(slot)
    BY <2>1, <2>2 DEF IInv, AllOwned, Held
  <2>7. ASSUME NEW e \in Range(toHost) \cup Range(offering) \cup Range(resp), e.typ # "PHY_ERR"
        PROVE  Owned(e.id)
    <3>0. e \in Events
      BY <2>2, <2>4, <2>7
    <3>1. e \in Events /\ e.id \in 0 .. MaxReqs
      BY <3>0 DEF Events
    <3>2. e \in Ans(e.id)
      BY <2>7, <3>1 DEF Ans
    <3>3. Has(Stream, Ans(e.id))
      <4>1. Has(resp, Ans(e.id)) \/ Has(offering, Ans(e.id)) \/ Has(toHost, Ans(e.id))
        BY <2>2, <2>3, <3>2
      <4> QED BY <4>1, InStream DEF IInv
    <3> QED BY <2>1, <3>1, <3>3 DEF IInv, AllOwned
  <2> QED BY <2>5, <2>6, <2>7 DEF RepliesAreOwned, Outstanding, Upward, AllItems
<1> QED BY <1>1, LinkInvariant, PTL

\* While no deadline has expired and the node has said nothing of its own, no
\* caller takes a reply meant for another request.
THEOREM CleanLink == Spec => []CleanLinkAttributes
<1>1. IInv => CleanLinkAttributes
  BY DEF IInv, Calm, CleanLinkAttributes
<1> QED BY <1>1, LinkInvariant, PTL

\* On the same link no command reaches a node that has no room for it, with no
\* ring at all (RingCap = 0) as with any ring.
THEOREM NodeNotOverrun == Spec => []NoOverrun
<1>1. IInv => NoOverrun
  BY DEF IInv, Calm, NoOverrun
<1> QED BY <1>1, LinkInvariant, PTL

----------------------------------------------------------------------------
(* What the node executes of a request that is sent once.                  *)

\* The requests no caller repeats.
OnceOps == {"tx", "txat", "phy"}

\* A command of no request, or of a request of another operation.
Foreign == {r \in Requests : r.id = 0 \/ opOf[r.id] # r.op}

\* The command of request i is before its execution.
Unsent(i) ==
  Has(toNode, Cmd(i)) \/ Has(ring, Cmd(i)) \/ (slot = i /\ slot # 0 /\ airing # "sched")

Known ==
  /\ \A c \in Callers : pc[c] # "idle" => opOf[req[c].id] = req[c].op
  /\ ~Has(toNode, Foreign) /\ ~Has(ring, Foreign)
  /\ slot # 0 => opOf[slot] = "txat"

Once ==
  \A i \in Ids : opOf[i] \in OnceOps =>
    served[i] <= 1 /\ Placed(i) /\ (Unsent(i) => served[i] = 0)

NotYet ==
  /\ \A i \in Ids : i >= nextId => served[i] = 0
  /\ \A c \in Callers : pc[c] = "lock" /\ req[c].op \in OnceOps
       => served[req[c].id] = 0 /\ ~Held(req[c].id)

OnceInv == Known /\ Once /\ NotYet

LEMMA CmdSame == \A i : Cmd(i)' = Cmd(i)
BY DEF Cmd, Requests, AllOps

\* A step that executes nothing and only takes commands away.
LEMMA OnceKept ==
  ASSUME IInv, OnceInv, Sub(toNode', toNode), Sub(ring', ring),
         UNCHANGED <<opOf, nextId, served>>, slot' = slot \/ slot' = 0,
         slot' # 0 /\ airing' # "sched" => airing # "sched",
         \A c \in Callers : pc'[c] # "idle" =>
           pc[c] # "idle" /\ req'[c].id = req[c].id /\ req'[c].op = req[c].op,
         \A c \in Callers : pc'[c] = "lock" /\ req[c].op \in OnceOps => pc[c] = "lock"
  PROVE  OnceInv'
<1>1. Foreign' = Foreign
  BY DEF Foreign, Requests, AllOps
<1>2. \A A : /\ Has(toNode', A) => Has(toNode, A)
             /\ Has(ring', A) => Has(ring, A)
             /\ Single(toNode, A) => Single(toNode', A)
             /\ Single(ring, A) => Single(ring', A)
  BY DEF Sub
<1>3. Known'
  BY <1>1, <1>2 DEF OnceInv, Known
<1>4. \A i : i # 0 => /\ Unsent(i)' => Unsent(i)
                      /\ Held(i)' => Held(i)
                      /\ Placed(i) => Placed(i)'
  BY <1>2, CmdSame DEF Unsent, Held, Placed
<1>5. Once'
  BY <1>4 DEF OnceInv, Once, Ids
<1>6. NotYet'
  <2>1. \A c \in Callers : pc[c] = "lock" => req[c].id # 0
    BY DEF IInv, TypeOK, StageTypeOK, Ids
  <2> QED BY <1>4, <2>1 DEF OnceInv, NotYet
<1> QED BY <1>3, <1>5, <1>6 DEF OnceInv

\* A request that is not made yet is nowhere.
LEMMA NotMade ==
  ASSUME IInv, nextId <= MaxReqs
  PROVE  ~Held(nextId)
<1>1. nextId \in 1 .. MaxReqs /\ nextId \in 0 .. MaxReqs /\ nextId # 0
  BY BoundsAssumption DEF IInv, TypeOK, HistoryTypeOK
<1>2. ~HasOwner(nextId)
  BY <1>1 DEF HasOwner, IInv, Numbered
<1> QED BY <1>1, <1>2 DEF IInv, AllOwned

LEMMA BeginOnce ==
  ASSUME IInv, OnceInv, TypeOK', NEW c \in Callers, Issue(c)
  PROVE  OnceInv'
<1> PICK op \in AllOps, v \in Values \cup Phys : Begin(c, op, v)
  BY OpsAssumption DEF Issue
<1>1. /\ UNCHANGED <<toNode, ring, slot, airing, served>>
      /\ nextId' = nextId + 1 /\ opOf' = [opOf EXCEPT ![nextId] = op] /\ nextId <= MaxReqs
      /\ pc[c] = "idle" /\ pc'[c] \in {"send_mod", "lock"}
      /\ \A d \in Callers \ {c} : pc'[d] = pc[d] /\ req'[d] = req[d]
      /\ req'[c] = [id |-> nextId, op |-> op, val |-> v]
      /\ nextId \in Ids /\ nextId \in Nat /\ nextId # 0
      /\ opOf \in [Ids -> AllOps \cup {"none"}]
  BY BoundsAssumption DEF Begin, wireVars, nodeVars, IInv, TypeOK, HostTypeOK, HistoryTypeOK, Ids
<1>2. ~Held(nextId)
  BY <1>1, NotMade
<1>3. /\ opOf'[nextId] = op
      /\ \A i \in Ids : i # nextId => opOf'[i] = opOf[i]
  BY <1>1
<1>4. \A d \in Callers : req[d].id < nextId /\ (pc[d] # "idle" => req[d].id \in Ids)
  BY DEF IInv, Numbered, TypeOK, StageTypeOK
<1>5. ~Has(toNode, Foreign') /\ ~Has(ring, Foreign')
  <2>1. \A r \in Foreign' : r \in Foreign \/ r \in Cmd(nextId)
    <3> SUFFICES ASSUME NEW r \in Foreign', r.id # nextId
                 PROVE  r \in Foreign
      BY DEF Cmd, Foreign, Requests, AllOps
    <3>1. r \in Requests /\ r.id \in 0 .. MaxReqs /\ (r.id = 0 \/ opOf'[r.id] # r.op)
      BY DEF Foreign, Requests, AllOps
    <3> QED BY <1>3, <3>1, BoundsAssumption DEF Foreign, Ids
  <2> QED BY <1>2, <2>1 DEF Has, Held, OnceInv, Known
<1>6. slot # 0 => slot \in Ids /\ slot # nextId
  BY <1>2 DEF Held, IInv, TypeOK, NodeTypeOK, Ids
<1>7. Known'
  <2>1. ASSUME NEW d \in Callers, pc'[d] # "idle"
        PROVE  opOf'[req'[d].id] = req'[d].op
    <3>1. CASE d = c
      BY <1>1, <1>3, <3>1
    <3>2. CASE d # c
      BY <1>1, <1>3, <1>4, <2>1, <3>2 DEF OnceInv, Known
    <3> QED BY <3>1, <3>2
  <2> QED BY <1>1, <1>3, <1>5, <1>6, <2>1 DEF Known, OnceInv
<1>8. \A i : (Unsent(i)' <=> Unsent(i)) /\ (Held(i)' <=> Held(i)) /\ (Placed(i)' <=> Placed(i))
  BY <1>1, CmdSame DEF Unsent, Held, Placed
<1>9. Once'
  <2> SUFFICES ASSUME NEW i \in Ids, opOf'[i] \in OnceOps
               PROVE  served[i] <= 1 /\ Placed(i) /\ (Unsent(i) => served[i] = 0)
    BY <1>1, <1>8 DEF Once
  <2>1. CASE i # nextId
    BY <1>3, <2>1 DEF OnceInv, Once
  <2>2. CASE i = nextId
    <3>1. served[i] = 0
      BY <1>1, <2>2 DEF OnceInv, NotYet
    <3>2. Placed(i)
      BY <1>1, <1>2, <2>2 DEF Placed, Held, Has, Single
    <3> QED BY <3>1, <3>2
  <2> QED BY <2>1, <2>2
<1>10. NotYet'
  <2>1. \A i \in Ids : i >= nextId' => served'[i] = 0
    BY <1>1 DEF OnceInv, NotYet, Ids
  <2>2. ASSUME NEW d \in Callers, pc'[d] = "lock", req'[d].op \in OnceOps
        PROVE  served'[req'[d].id] = 0 /\ ~Held(req'[d].id)
    <3>1. CASE d = c
      BY <1>1, <1>2, <3>1 DEF OnceInv, NotYet
    <3>2. CASE d # c
      BY <1>1, <2>2, <3>2 DEF OnceInv, NotYet
    <3> QED BY <3>1, <3>2
  <2>3. \A d \in Callers : Held(req'[d].id) <=> Held(req[d].id)'
    BY <1>8
  <2> QED BY <1>1, <2>1, <2>2, <2>3, CmdSame DEF NotYet, Held
<1> QED BY <1>7, <1>9, <1>10 DEF OnceInv

\* What is held was asked for.
LEMMA HeldIsMade ==
  ASSUME IInv, NEW i \in Ids, Held(i)
  PROVE  i < nextId
<1>1. i \in 0 .. MaxReqs /\ i # 0
  BY BoundsAssumption DEF Ids
<1>2. HasOwner(i)
  BY <1>1 DEF IInv, AllOwned
<1> QED BY <1>1, <1>2 DEF HasOwner, IInv, Numbered

\* The head of a queue of commands is of a request that was made, with its operation.
LEMMA HeadKnown ==
  ASSUME NEW s \in Seq(Requests), s # <<>>, ~Has(s, Foreign)
  PROVE  /\ Head(s) \in Requests /\ Head(s).id \in Ids /\ opOf[Head(s).id] = Head(s).op
         /\ Has(s, Cmd(Head(s).id))
<1>1. Head(s) \in Requests /\ Head(s) \notin Foreign
  BY HeadTail, HeadHas
<1>2. Head(s) \in Cmd(Head(s).id) /\ Head(s).id \in 0 .. MaxReqs
  BY <1>1, CommandIds
<1>3. Has(s, Cmd(Head(s).id))
  BY <1>2, HeadHas
<1> QED BY <1>1, <1>2, <1>3, BoundsAssumption DEF Foreign, Ids

LEMMA CommandQueues ==
  ASSUME IInv
  PROVE  toNode \in Seq(Requests) /\ ring \in Seq(Requests) /\ slot \in 0 .. MaxReqs
BY DEF IInv, TypeOK, NodeTypeOK

LEMMA ExecOnOnce ==
  ASSUME IInv, OnceInv, NEW c \in Callers, ExecOn(c)
  PROVE  OnceInv'
<1> PICK n : n = req[c].id
  OBVIOUS
<1>1. /\ UNCHANGED <<ring, slot, airing, nextId, req, opOf, served>>
      /\ toNode' = Append(toNode, req[c])
      /\ pc[c] = "lock" /\ pc' = [pc EXCEPT ![c] = "wait"]
  BY DEF ExecOn, nodeVars, histVars
<1>2. /\ pc'[c] = "wait" /\ \A d \in Callers \ {c} : pc'[d] = pc[d]
      /\ toNode \in Seq(Requests) /\ req[c] \in Requests /\ n \in Ids /\ n # 0
  BY <1>1 DEF IInv, TypeOK, HostTypeOK, NodeTypeOK, StageTypeOK, Ids
<1>3. \A i : req[c] \in Cmd(i) <=> i = n
  BY <1>2 DEF Cmd
<1>4. \A A : /\ Has(toNode', A) <=> Has(toNode, A) \/ req[c] \in A
             /\ Single(toNode', A) <=> Single(toNode, A) /\ ~(Has(toNode, A) /\ req[c] \in A)
  BY <1>1, <1>2, Appended
<1>5. opOf[n] = req[c].op
  BY <1>1 DEF OnceInv, Known
<1>6. Known'
  <2>1. Foreign' = Foreign /\ req[c] \notin Foreign
    BY <1>1, <1>2, <1>5 DEF Foreign, Requests, AllOps
  <2> QED BY <1>1, <1>2, <1>4, <1>5, <2>1 DEF OnceInv, Known
<1>7. \A i : i # n => /\ Unsent(i)' <=> Unsent(i)
                      /\ Held(i)' <=> Held(i)
                      /\ Placed(i)' <=> Placed(i)
  BY <1>1, <1>3, <1>4, CmdSame DEF Unsent, Held, Placed
<1>8. Once'
  <2> SUFFICES ASSUME NEW i \in Ids, opOf[i] \in OnceOps
               PROVE  served[i] <= 1 /\ Placed(i)' /\ (Unsent(i)' => served[i] = 0)
    BY <1>1 DEF Once
  <2>1. CASE i # n
    BY <1>7, <2>1 DEF OnceInv, Once
  <2>2. CASE i = n
    <3>1. served[n] = 0 /\ ~Held(n)
      BY <1>1, <1>5, <2>2 DEF OnceInv, NotYet
    <3>2. Placed(n)
      BY <2>2 DEF OnceInv, Once
    <3>3. Placed(n)'
      BY <1>1, <1>2, <1>3, <1>4, <3>1, <3>2, CmdSame DEF Placed, Held
    <3> QED BY <2>2, <3>1, <3>3
  <2> QED BY <2>1, <2>2
<1>9. NotYet'
  <2>1. ASSUME NEW d \in Callers, pc'[d] = "lock", req[d].op \in OnceOps
        PROVE  served[req[d].id] = 0 /\ ~Held(req[d].id)'
    <3>1. d # c /\ pc[d] = "lock" /\ req[d].id # n
      BY <1>1, <1>2, <2>1 DEF IInv, Numbered
    <3>2. served[req[d].id] = 0 /\ ~Held(req[d].id)
      BY <2>1, <3>1 DEF OnceInv, NotYet
    <3> PICK j : j = req[d].id
      OBVIOUS
    <3>3. ~Held(j)'
      BY <1>7, <3>1, <3>2
    <3> QED BY <1>1, <3>2, <3>3 DEF Held
  <2> QED BY <1>1, <2>1 DEF OnceInv, NotYet, Held
<1> QED BY <1>6, <1>8, <1>9 DEF OnceInv

\* A step that leaves the host as it is.
LEMMA HostSame ==
  ASSUME OnceInv, UNCHANGED <<pc, req, opOf, nextId, served>>,
         ~Has(toNode', Foreign), ~Has(ring', Foreign), slot' # 0 => opOf[slot'] = "txat",
         \A i \in Ids : /\ Placed(i) => Placed(i)'
                        /\ Unsent(i)' => Unsent(i)
                        /\ Held(i)' => Held(i),
         \A c \in Callers : pc[c] # "idle" => req[c].id \in Ids
  PROVE  OnceInv'
<1>1. Foreign' = Foreign
  BY DEF Foreign, Requests, AllOps
<1>2. Known'
  BY <1>1 DEF OnceInv, Known
<1>3. Once'
  BY DEF OnceInv, Once
<1>4. NotYet'
  BY DEF OnceInv, NotYet
<1> QED BY <1>2, <1>3, <1>4 DEF OnceInv

LEMMA CallersAsked ==
  ASSUME IInv
  PROVE  \A c \in Callers : pc[c] # "idle" => req[c].id \in Ids
BY DEF IInv, TypeOK, StageTypeOK

LEMMA ArriveOnce ==
  ASSUME IInv, OnceInv, Arrive
  PROVE  OnceInv'
<1>1. /\ UNCHANGED <<pc, req, opOf, nextId, served, slot, airing>>
      /\ toNode # <<>> /\ toNode' = Tail(toNode)
      /\ toNode \in Seq(Requests) /\ ring \in Seq(Requests)
  BY CommandQueues DEF Arrive, hostVars
<1>2. CASE ring' = ring
  <2>1. Sub(toNode', toNode) /\ Sub(ring', ring)
    BY <1>1, <1>2, SubTail, SubSelf
  <2> QED BY <1>1, <2>1, OnceKept
<1>3. CASE ring' = Append(ring, Head(toNode))
  <2> PICK h : h = Head(toNode)
    OBVIOUS
  <2>1. h \in Requests
    BY <1>1, HeadTail
  <2>2. \A A, E : /\ Has(toNode, A) <=> h \in A \/ Has(toNode', A)
                  /\ Single(toNode, A) <=> Single(toNode', A) /\ ~(h \in A /\ Has(toNode', A))
    BY <1>1, TakenFrom
  <2>3. \A A : /\ Has(ring', A) <=> Has(ring, A) \/ h \in A
               /\ Single(ring', A) <=> Single(ring, A) /\ ~(Has(ring, A) /\ h \in A)
    BY <1>1, <1>3, <2>1, Appended
  <2>4. \A i : /\ Placed(i) => Placed(i)'
               /\ Unsent(i)' => Unsent(i)
               /\ Held(i)' => Held(i)
    BY <1>1, <2>2, <2>3, CmdSame DEF Unsent, Held, Placed
  <2>5. ~Has(toNode', Foreign) /\ ~Has(ring', Foreign)
    BY <2>2, <2>3 DEF OnceInv, Known
  <2>6. slot' # 0 => opOf[slot'] = "txat"
    BY <1>1 DEF OnceInv, Known
  <2> QED BY <1>1, <2>4, <2>5, <2>6, CallersAsked, HostSame
<1> QED BY <1>2, <1>3 DEF Arrive

\* A frame that is armed has left the ring and is not yet on the air.
LEMMA ArmOnce ==
  ASSUME IInv, OnceInv, HandleTxAt, slot = 0
  PROVE  OnceInv'
<1> PICK n : n = Head(ring).id
  OBVIOUS
<1>1. /\ UNCHANGED <<pc, req, opOf, nextId, served, toNode, airing>>
      /\ airing = "none" /\ slot' = n /\ ring # <<>> /\ ring' = Tail(ring)
      /\ Head(ring).op = "txat" /\ ring \in Seq(Requests)
  BY CommandQueues DEF HandleTxAt, Serving, Answer, NodeElse, hostVars
<1>2. Head(ring) \in Requests /\ n \in Ids /\ opOf[n] = "txat"
  BY <1>1, HeadKnown DEF OnceInv, Known
<1>3. \A i : Head(ring) \in Cmd(i) <=> i = n
  BY <1>2 DEF Cmd
<1>4. \A A, E : /\ Has(ring, A) <=> Head(ring) \in A \/ Has(ring', A)
                /\ Single(ring, A) <=> Single(ring', A) /\ ~(Head(ring) \in A /\ Has(ring', A))
  BY <1>1, TakenFrom
<1>5. \A i \in Ids : /\ Placed(i) => Placed(i)'
                     /\ Unsent(i)' => Unsent(i)
                     /\ Held(i)' => Held(i)
  BY <1>1, <1>3, <1>4, CmdSame DEF Unsent, Held, Placed
<1>6. ~Has(toNode', Foreign) /\ ~Has(ring', Foreign)
  BY <1>1, <1>4 DEF OnceInv, Known
<1> QED BY <1>1, <1>2, <1>5, <1>6, CallersAsked, HostSame

\* The execution of request n, which leaves the places before it.
LEMMA ExecuteOnce ==
  ASSUME IInv, OnceInv, UNCHANGED <<pc, req, opOf, nextId>>,
         NEW n \in Ids, Execute(n), Held(n), opOf[n] \in OnceOps => Unsent(n) /\ ~Unsent(n)',
         ~Has(toNode', Foreign), ~Has(ring', Foreign), slot' \in {slot, 0},
         \A i \in Ids : /\ Placed(i) => Placed(i)'
                        /\ Unsent(i)' => Unsent(i)
                        /\ Held(i)' => Held(i)
  PROVE  OnceInv'
<1>1. /\ served \in [Ids -> Nat] /\ served'[n] = served[n] + 1
      /\ \A i \in Ids : i # n => served'[i] = served[i]
  BY DEF Execute, IInv, TypeOK, HistoryTypeOK
<1>2. Foreign' = Foreign
  BY DEF Foreign, Requests, AllOps
<1>3. Known'
  BY <1>2 DEF OnceInv, Known
<1>4. Once'
  <2> SUFFICES ASSUME NEW i \in Ids, opOf[i] \in OnceOps
               PROVE  served'[i] <= 1 /\ Placed(i)' /\ (Unsent(i)' => served'[i] = 0)
    BY DEF Once
  <2>1. served[i] <= 1 /\ Placed(i) /\ (Unsent(i) => served[i] = 0)
    BY DEF OnceInv, Once
  <2> QED BY <1>1, <2>1
<1>5. NotYet'
  <2>1. n < nextId
    BY HeldIsMade
  <2>2. \A i \in Ids : i >= nextId => served'[i] = 0
    BY <1>1, <2>1, BoundsAssumption DEF OnceInv, NotYet, Ids, IInv, TypeOK, HistoryTypeOK
  <2>3. ASSUME NEW c \in Callers, pc[c] = "lock", req[c].op \in OnceOps
        PROVE  served'[req[c].id] = 0 /\ ~Held(req[c].id)'
    <3>1. req[c].id \in Ids
      BY <2>3, CallersAsked
    <3> QED BY <1>1, <2>3, <3>1 DEF OnceInv, NotYet
  <2> QED BY <2>2, <2>3 DEF NotYet
<1> QED BY <1>3, <1>4, <1>5 DEF OnceInv

\* handle_cmd executes the head of the ring.
LEMMA ServeOnce ==
  ASSUME IInv, OnceInv, UNCHANGED <<pc, req, opOf, nextId, toNode, airing>>,
         airing = "none", ring # <<>>, ring' = Tail(ring), Execute(Head(ring).id),
         slot' \in {slot, 0}
  PROVE  OnceInv'
<1> PICK n : n = Head(ring).id
  OBVIOUS
<1>1. ring \in Seq(Requests) /\ slot \in 0 .. MaxReqs
  BY CommandQueues
<1>2. Head(ring) \in Requests /\ n \in Ids /\ Has(ring, Cmd(n)) /\ n # 0
  BY <1>1, HeadKnown DEF OnceInv, Known, Ids
<1>3. \A i : Head(ring) \in Cmd(i) <=> i = n
  BY <1>2 DEF Cmd
<1>4. \A A, E : /\ Has(ring, A) <=> Head(ring) \in A \/ Has(ring', A)
                /\ Single(ring, A) <=> Single(ring', A) /\ ~(Head(ring) \in A /\ Has(ring', A))
  BY <1>1, TakenFrom
<1>5. \A i \in Ids : /\ Placed(i) => Placed(i)'
                     /\ Unsent(i)' => Unsent(i)
                     /\ Held(i)' => Held(i)
  BY <1>4, CmdSame DEF Unsent, Held, Placed, Ids
<1>6. opOf[n] \in OnceOps => Unsent(n) /\ ~Unsent(n)'
  <2> SUFFICES ASSUME opOf[n] \in OnceOps
               PROVE  Unsent(n) /\ ~Unsent(n)'
    OBVIOUS
  <2>1. Placed(n)
    BY <1>2 DEF OnceInv, Once
  <2> QED BY <1>2, <1>3, <1>4, <2>1, CmdSame DEF Unsent, Placed
<1>7. ~Has(toNode', Foreign) /\ ~Has(ring', Foreign) /\ Held(n)
  BY <1>2, <1>4 DEF OnceInv, Known, Held
<1> QED BY <1>2, <1>5, <1>6, <1>7, ExecuteOnce

\* sched_service keys up the frame it holds.
LEMMA IssueOnce ==
  ASSUME IInv, OnceInv, SchedIssue
  PROVE  OnceInv'
<1>1. /\ UNCHANGED <<pc, req, opOf, nextId, toNode, ring, slot>>
      /\ staged /\ airing = "none" /\ airing' = "sched"
      /\ Execute(slot) \/ served' = served
  BY DEF SchedIssue, hostVars, wireVars
<1>2. slot \in Ids /\ Held(slot) /\ opOf[slot] = "txat"
  <2>1. slot # 0
    BY <1>1 DEF IInv, Calm
  <2> QED BY <2>1, CommandQueues, BoundsAssumption DEF Ids, Held, OnceInv, Known
<1>3. \A i \in Ids : /\ Placed(i) => Placed(i)'
                     /\ Unsent(i)' => Unsent(i)
                     /\ Held(i)' => Held(i)
  BY <1>1, CmdSame DEF Unsent, Held, Placed
<1>4. ~Has(toNode', Foreign) /\ ~Has(ring', Foreign)
  BY <1>1 DEF OnceInv, Known
<1>5. CASE served' = served
  <2>1. slot' # 0 => opOf[slot'] = "txat"
    BY <1>1, <1>2
  <2> QED BY <1>1, <1>3, <1>4, <1>5, <2>1, CallersAsked, HostSame
<1>6. CASE Execute(slot)
  <2>1. Placed(slot)
    BY <1>2 DEF OnceInv, Once, OnceOps
  <2> PICK n : n = slot
    OBVIOUS
  <2>2. n \in Ids /\ n # 0 /\ Placed(n)
    BY <1>2, <2>1 DEF Ids
  <2>3. Unsent(n)
    BY <1>1, <2>2 DEF Unsent
  <2>4. ~Unsent(n)'
    BY <1>1, <2>2, CmdSame DEF Unsent, Placed
  <2> QED BY <1>1, <1>2, <1>3, <1>4, <1>6, <2>2, <2>3, <2>4, ExecuteOnce
<1> QED BY <1>1, <1>5, <1>6

LEMMA NodeOnce ==
  ASSUME IInv, OnceInv, NodeStep
  PROVE  OnceInv'
<1>1. ring \in Seq(Requests)
  BY CommandQueues
<1>2. CASE Arrive \/ SchedIssue
  BY <1>2, ArriveOnce, IssueOnce
<1>3. CASE HandleTx \/ HandleSetFreq \/ HandleSetPhy \/ (HandleSetMod /\ Execute(Head(ring).id))
  <2>1. /\ UNCHANGED <<pc, req, opOf, nextId, toNode, airing>>
        /\ airing = "none" /\ ring # <<>> /\ ring' = Tail(ring) /\ Execute(Head(ring).id)
        /\ slot' \in {slot, 0}
    BY <1>3 DEF HandleTx, HandleSetFreq, HandleSetPhy, HandleSetMod, Serving, Answer, NodeElse,
                hostVars
  <2> QED BY <2>1, ServeOnce
<1>4. CASE HandleTxAt /\ slot = 0
  BY <1>4, ArmOnce
<1>5. CASE \/ HandleTxAt /\ slot # 0
           \/ RefuseTxAt \/ RefuseSetPhy \/ (HandleSetMod /\ ~HasSpreadingFactor(cap))
  <2>1. /\ UNCHANGED <<pc, req, opOf, nextId, toNode, airing, served>>
        /\ ring # <<>> /\ ring' = Tail(ring) /\ (slot' = slot \/ slot' = 0)
    BY <1>5 DEF HandleTxAt, RefuseTxAt, RefuseSetPhy, HandleSetMod, Serving, Answer, NodeElse,
                hostVars
  <2>2. Sub(toNode', toNode) /\ Sub(ring', ring)
    BY <1>1, <2>1, SubTail, SubSelf
  <2> QED BY <2>1, <2>2, OnceKept
<1>6. CASE SchedStage \/ SchedDone \/ BeaconStart \/ BeaconDone \/ RelayStart \/ RelayDone
  <2>1. /\ UNCHANGED <<pc, req, opOf, nextId, toNode, ring, served>>
        /\ slot' = slot \/ slot' = 0
        /\ slot' # 0 /\ airing' # "sched" => airing # "sched"
    BY <1>6 DEF SchedStage, SchedDone, BeaconStart, BeaconDone, RelayStart, RelayDone, hostVars,
                wireVars, histVars
  <2>2. Sub(toNode', toNode) /\ Sub(ring', ring)
    BY <2>1, SubSelf
  <2> QED BY <2>1, <2>2, OnceKept
<1>7. HandleSetMod => Execute(Head(ring).id) \/ ~HasSpreadingFactor(cap)
  BY DEF HandleSetMod
<1> QED BY <1>2, <1>3, <1>4, <1>5, <1>6, <1>7 DEF NodeStep

\* A caller that is in its wait, or past it, does not send again what is sent once.
LEMMA CallerOnce ==
  ASSUME IInv, OnceInv, NEW c \in Callers, CallerStep(c)
  PROVE  OnceInv'
<1>1. TypeOK
  BY DEF IInv
<1>2. CASE ExecOn(c)
  BY <1>2, ExecOnOnce
<1>3. CASE ~ExecOn(c)
  <2>1. /\ UNCHANGED <<toNode, ring, slot, airing, opOf, nextId, served>> /\ pc[c] # "idle"
    BY <1>3 DEF CallerStep, SendMod, ExecOnClosed, TakeReply, TakeRefusal, SkipEvent, Timeout,
                Disconnected, SetMirror, RecvOn, RecvOnCap, RecvOnTimeout, Install,
                wireVars, nodeVars, histVars
  <2>2. \A d \in Callers : req'[d].id = req[d].id /\ req'[d].op = req[d].op
    <3>1. CASE SendMod(c) /\ HasSpreadingFactor(profile)
      <4>1. req' = [req EXCEPT ![c].val = mirror.sf]
        BY <3>1 DEF SendMod
      <4> QED BY <1>1, <4>1 DEF TypeOK, HostTypeOK, Requests
    <3>2. CASE ~(SendMod(c) /\ HasSpreadingFactor(profile))
      <4>1. req' = req
        BY <1>3, <3>2 DEF CallerStep, SendMod, ExecOnClosed, TakeReply, TakeRefusal, SkipEvent,
             Timeout, Disconnected, SetMirror, RecvOn, RecvOnCap, RecvOnTimeout, Install, hostVars
      <4> QED BY <4>1
    <3> QED BY <3>1, <3>2
  <2>3. \A d \in Callers \ {c} : pc'[d] = pc[d]
    BY <1>1, <1>3 DEF CallerStep, SendMod, ExecOnClosed, TakeReply, TakeRefusal, SkipEvent,
         Timeout, Disconnected, SetMirror, RecvOn, RecvOnCap, RecvOnTimeout, Install, hostVars,
         Finish, Fail, TypeOK, HostTypeOK
  <2>4. pc'[c] = "lock" => req[c].op \notin OnceOps
    <3>1. CASE SendMod(c)
      BY <1>1, <3>1 DEF SendMod, OnceOps, TypeOK, StageTypeOK
    <3>2. CASE ExecOnClosed(c) \/ Timeout(c) \/ Disconnected(c)
      <4>1. Fail(c)
        BY <3>2 DEF ExecOnClosed, Timeout, Disconnected
      <4> QED BY <1>1, <4>1 DEF Fail, Finish, Idempotent, OnceOps, TypeOK, HostTypeOK
    <3>3. CASE TakeReply(c) \/ TakeRefusal(c) \/ SetMirror(c) \/ Install(c)
      BY <1>1, <3>3 DEF TakeReply, TakeRefusal, SetMirror, Install, Finish, TypeOK, HostTypeOK
    <3>4. CASE SkipEvent(c) \/ RecvOn(c) \/ RecvOnCap(c) \/ RecvOnTimeout(c)
      BY <1>1, <3>4 DEF SkipEvent, RecvOn, RecvOnCap, RecvOnTimeout, hostVars, TypeOK, HostTypeOK
    <3> QED BY <1>3, <3>1, <3>2, <3>3, <3>4 DEF CallerStep
  <2>5. Sub(toNode', toNode) /\ Sub(ring', ring)
    BY <2>1, SubSelf
  <2> QED BY <2>1, <2>2, <2>3, <2>4, <2>5, OnceKept
<1> QED BY <1>2, <1>3

LEMMA NextOnce ==
  ASSUME IInv, TypeOK', OnceInv, [Next]_vars
  PROVE  OnceInv'
<1>1. ASSUME NEW c \in Callers, Issue(c) \/ CallerStep(c)
      PROVE  OnceInv'
  BY <1>1, BeginOnce, CallerOnce
<1>2. CASE ReaderStep \/ LineStep \/ UNCHANGED vars
  <2>1. UNCHANGED <<pc, req, opOf, nextId, served, slot, airing, ring>>
    BY <1>2 DEF ReaderStep, ReaderStoresCap, ReaderOffersCap, ReaderForwards, LineStep,
         PortFails, LoseEvent, LoseCommand, vars, hostVars, wireVars, nodeVars, histVars
  <2>2. toNode' = toNode \/ toNode' = <<>> \/ (toNode # <<>> /\ toNode' = Tail(toNode))
    BY <1>2 DEF ReaderStep, ReaderStoresCap, ReaderOffersCap, ReaderForwards, LineStep,
         PortFails, LoseEvent, LoseCommand, vars, wireVars
  <2>3. Sub(toNode', toNode) /\ Sub(ring', ring)
    BY <2>1, <2>2, CommandQueues, SubSelf, SubEmpty, SubTail
  <2> QED BY <2>1, <2>3, OnceKept
<1> QED BY <1>1, <1>2, NodeOnce DEF Next

\* Where a request that is sent once can be, and that it is unexecuted there.
THEOREM OnceInvariant == Spec => []OnceInv
<1>1. Init => OnceInv
  <2> SUFFICES ASSUME Init
               PROVE  OnceInv
    OBVIOUS
  <2>1. /\ toNode = <<>> /\ ring = <<>> /\ slot = 0 /\ served = [i \in Ids |-> 0]
        /\ \A c \in Callers : pc[c] = "idle"
    BY DEF Init
  <2>2. \A A : ~Has(<<>>, A) /\ Single(<<>>, A)
    BY EmptyHas
  <2> QED BY <2>1, <2>2 DEF OnceInv, Known, Once, NotYet, Placed, Unsent, Ids
<1>2. IInv /\ IInv' /\ OnceInv /\ [Next]_vars => OnceInv'
  BY NextOnce DEF IInv
<1> QED BY <1>1, <1>2, LinkInvariant, PTL DEF Spec

\* No frame is put on the air twice for one inject, and no modulation switched twice for
\* one set_phy_mode, whatever is lost, late, refused or sent again.
THEOREM SentOnceAlways == Spec => []SentOnce
<1>1. OnceInv => SentOnce
  BY DEF OnceInv, Once, SentOnce, OnceOps
<1> QED BY <1>1, OnceInvariant, PTL

----------------------------------------------------------------------------
(* What the node has done when a caller returns Ok.                        *)
(*                                                                         *)
(* The command of a request that nobody gave up on is the last one on its  *)
(* way: so nothing is served between the staging of its frame and its      *)
(* key-up, and what is reported of it is what happened.                    *)

Newest ==
  \A i \in Ids \ adrift :
    /\ NoneAfter(toNode, Cmd(i), Requests) /\ NoneAfter(ring, Cmd(i), Requests)
    /\ Has(ring, Cmd(i)) => ~Has(toNode, Requests)
    /\ slot = i => ~Has(toNode, Requests) /\ ~Has(ring, Requests)

Armed ==
  slot # 0 /\ slot \notin adrift =>
    (staged => loaded = slot) /\ (airing = "sched" => served[slot] >= 1)

\* The events that let the operation of request i return Ok.
Yes(i) ==
  {e \in Events : e.id = i /\ (e.typ \in {"INFO", "CAP"} \/ (e.typ = "TXDONE" /\ e.ok))}

Truthful == \A i \in Ids \ adrift : Has(Stream, Yes(i)) => served[i] >= 1

Passed ==
  \A c \in Callers :
    pc[c] \in {"mirror", "race", "race_wait", "install"} /\ req[c].id \notin adrift
      => served[req[c].id] >= 1

EarnedInv == Newest /\ Armed /\ Truthful /\ Passed /\ OkWasServed

LEMMA YesSame == \A i : Yes(i)' = Yes(i)
BY DEF Yes, Events, Caps, EvTypes, AllOps

LEMMA ServedType ==
  ASSUME IInv
  PROVE  served \in [Ids -> Nat]
BY DEF IInv, TypeOK, HistoryTypeOK

\* What has been executed stays executed.
LEMMA ServedGrows ==
  ASSUME IInv, (\E id : Execute(id)) \/ served' = served
  PROVE  \A i \in Ids : served[i] >= 1 => served'[i] >= 1
<1>1. served \in [Ids -> Nat]
  BY ServedType
<1>2. ASSUME NEW id, Execute(id), NEW i \in Ids, served[i] >= 1
      PROVE  served'[i] >= 1
  <2>1. served' = [served EXCEPT ![id] = served[id] + 1]
    BY <1>2 DEF Execute
  <2>2. CASE i = id
    BY <1>1, <1>2, <2>1, <2>2
  <2>3. CASE i # id
    BY <1>1, <1>2, <2>1, <2>3
  <2> QED BY <2>2, <2>3
<1> QED BY <1>2

\* Commands are only taken away, and events are true.
LEMMA EarnedDown ==
  ASSUME IInv, EarnedInv, Sub(toNode', toNode), Sub(ring', ring),
         adrift \subseteq adrift', slot' = slot \/ slot' = 0,
         \A i \in Ids : served[i] >= 1 => served'[i] >= 1,
         \A i \in Ids \ adrift' : Has(Stream', Yes(i)) => Has(Stream, Yes(i)) \/ served'[i] >= 1
  PROVE  Newest' /\ Truthful'
<1>1. \A A, E : /\ Has(toNode', A) => Has(toNode, A)
                /\ Has(ring', A) => Has(ring, A)
                /\ NoneAfter(toNode, E, A) => NoneAfter(toNode', E, A)
                /\ NoneAfter(ring, E, A) => NoneAfter(ring', E, A)
  BY DEF Sub
<1>2. Newest'
  <2>1. Requests' = Requests
    BY DEF Requests, AllOps
  <2> SUFFICES ASSUME NEW i \in Ids \ adrift'
               PROVE  /\ NoneAfter(toNode', Cmd(i), Requests) /\ NoneAfter(ring', Cmd(i), Requests)
                      /\ Has(ring', Cmd(i)) => ~Has(toNode', Requests)
                      /\ slot' = i => ~Has(toNode', Requests) /\ ~Has(ring', Requests)
    BY <2>1, CmdSame DEF Newest
  <2>2. i \in Ids \ adrift /\ i # 0
    BY DEF Ids
  <2> QED BY <1>1, <2>2 DEF EarnedInv, Newest
<1>3. Truthful'
  BY YesSame DEF EarnedInv, Truthful
<1> QED BY <1>2, <1>3

\* A step that leaves the callers as they are.
LEMMA CallersSame ==
  ASSUME IInv, EarnedInv, UNCHANGED <<pc, req, result, adrift>>,
         \A i \in Ids : served[i] >= 1 => served'[i] >= 1
  PROVE  Passed' /\ OkWasServed'
<1>1. \A c \in Callers : pc[c] # "idle" => req[c].id \in Ids
  BY CallersAsked
<1>2. Passed'
  BY <1>1 DEF EarnedInv, Passed
<1>3. OkWasServed'
  BY DEF EarnedInv, OkWasServed
<1> QED BY <1>2, <1>3

\* A caller's step other than sending: commands stay and events are taken.
LEMMA CallerEarned ==
  ASSUME IInv, TypeOK', EarnedInv, NEW c \in Callers,
         UNCHANGED <<toNode, ring, slot, staged, loaded, airing, served>>,
         Sub(Stream', Stream), adrift \subseteq adrift',
         \A d \in Callers \ {c} : pc'[d] = pc[d] /\ req'[d] = req[d],
         req'[c].id = req[c].id, pc[c] # "idle",
         pc'[c] \in {"mirror", "race", "race_wait", "install"} /\ req[c].id \notin adrift'
           => served[req[c].id] >= 1,
         \A i \in Ids : result'[i] = "ok" =>
           result[i] = "ok" \/ (i = req[c].id /\ (i \notin adrift' => served[i] >= 1))
  PROVE  EarnedInv'
<1>1. Sub(toNode', toNode) /\ Sub(ring', ring)
  BY SubSelf
<1>2. \A i : Has(Stream', Yes(i)) => Has(Stream, Yes(i))
  BY DEF Sub
<1>3. Newest' /\ Truthful'
  BY <1>1, <1>2, EarnedDown
<1>4. Armed'
  BY DEF EarnedInv, Armed
<1>5. Passed'
  BY DEF EarnedInv, Passed
<1>6. OkWasServed'
  BY DEF EarnedInv, OkWasServed
<1> QED BY <1>3, <1>4, <1>5, <1>6 DEF EarnedInv

LEMMA TakeReplyEarned ==
  ASSUME IInv, TypeOK', EarnedInv, NEW c \in Callers, TakeReply(c)
  PROVE  EarnedInv'
<1> PICK e : e = Head(resp)
  OBVIOUS
<1> PICK n : n = req[c].id
  OBVIOUS
<1>1. TypeOK
  BY DEF IInv
<1>2. /\ UNCHANGED <<toNode, ring, slot, staged, loaded, airing, served, offering, toHost, req>>
      /\ resp # <<>> /\ resp' = Tail(resp) /\ pc[c] = "wait" /\ adrift' = AdriftBut(c, e)
      /\ Matches(c, e)
  BY DEF TakeReply, wireVars, nodeVars
<1>3. /\ Stream # <<>> /\ Head(Stream) = e /\ Stream' = Tail(Stream) /\ e \in Events
      /\ Stream \in Seq(Events)
  BY <1>1, <1>2, StreamHead, StreamType
<1>4. Sub(Stream', Stream) /\ adrift \subseteq adrift'
  BY <1>2, <1>3, SubTail DEF AdriftBut
<1>5. n \in Ids /\ req[c] \in Requests /\ req[c].op \in AllOps
  BY <1>1, <1>2, CallersAsked DEF TypeOK, HostTypeOK, Requests
<1>6. ASSUME n \notin adrift', req[c].op \notin {"tx", "txat"} \/ e.ok
      PROVE  served[n] >= 1
  <2>1. e.id = n /\ n \notin adrift
    BY <1>2, <1>6 DEF AdriftBut
  <2>2. e \in Yes(n)
    BY <1>2, <1>3, <1>5, <1>6, <2>1 DEF Yes, Matches, Expect, AllOps
  <2>3. Has(Stream, Yes(n))
    BY <1>3, <2>2, HeadHas
  <2> QED BY <1>5, <2>1, <2>3 DEF EarnedInv, Truthful
<1>7. /\ \A d \in Callers \ {c} : pc'[d] = pc[d]
      /\ pc'[c] \in {"mirror", "race", "race_wait", "install"} /\ n \notin adrift' => served[n] >= 1
      /\ \A i \in Ids : result'[i] = "ok" =>
           result[i] = "ok" \/ (i = n /\ (i \notin adrift' => served[i] >= 1))
  <2>1. CASE req[c].op \in {"freq", "phy"}
    <3>1. result' = result /\ \E s \in PcValues : pc' = [pc EXCEPT ![c] = s]
      BY <2>1 DEF TakeReply, PcValues
    <3> QED BY <1>1, <1>6, <2>1, <3>1 DEF TypeOK, HostTypeOK
  <2>2. CASE req[c].op \notin {"freq", "phy"}
    <3>1. Finish(c, IF e.ok THEN "ok" ELSE "err")
      BY <2>2 DEF TakeReply
    <3> QED BY <1>1, <1>5, <1>6, <3>1 DEF Finish, TypeOK, HostTypeOK, HistoryTypeOK
  <2> QED BY <2>1, <2>2
<1> QED BY <1>2, <1>4, <1>7, CallerEarned

\* An operation that ends without a reply ends with an error, or is tried again.
LEMMA FailureEarned ==
  ASSUME IInv, TypeOK', EarnedInv, NEW c \in Callers,
         TakeRefusal(c) \/ Timeout(c) \/ Disconnected(c) \/ ExecOnClosed(c) \/ SendMod(c)
  PROVE  EarnedInv'
<1>1. TypeOK
  BY DEF IInv
<1>2. /\ UNCHANGED <<toNode, ring, slot, staged, loaded, airing, served, offering, toHost>>
      /\ pc[c] # "idle" /\ adrift \subseteq adrift'
  BY DEF TakeRefusal, Timeout, Disconnected, ExecOnClosed, SendMod, readVars, wireVars, nodeVars,
         AdriftBut
<1>3. Sub(resp', resp)
  <2>1. resp' = resp \/ resp' = <<>> \/ (resp # <<>> /\ resp' = Tail(resp))
    BY DEF TakeRefusal, Timeout, Disconnected, ExecOnClosed, SendMod, readVars
  <2> QED BY <1>1, <2>1, SubSelf, SubEmpty, SubTail DEF TypeOK, HostTypeOK
<1>4. Sub(Stream', Stream)
  BY <1>1, <1>2, <1>3, SubSelf, StreamSub
<1>5. /\ \A d \in Callers \ {c} : pc'[d] = pc[d] /\ req'[d] = req[d]
      /\ pc'[c] \in {"idle", "lock"} /\ req'[c].id = req[c].id
      /\ \A i \in Ids : result'[i] = "ok" => result[i] = "ok"
  <2>1. CASE SendMod(c) /\ HasSpreadingFactor(profile)
    <3>1. /\ req' = [req EXCEPT ![c].val = mirror.sf] /\ pc' = [pc EXCEPT ![c] = "lock"]
          /\ result' = result
      BY <2>1 DEF SendMod
    <3> QED BY <1>1, <3>1 DEF TypeOK, HostTypeOK, Requests
  <2>2. CASE ~(SendMod(c) /\ HasSpreadingFactor(profile))
    <3>1. req' = req /\ (Fail(c) \/ Finish(c, "err"))
      BY <2>2 DEF TakeRefusal, Timeout, Disconnected, ExecOnClosed, SendMod
    <3> QED BY <1>1, <3>1 DEF Fail, Finish, TypeOK, HostTypeOK, HistoryTypeOK
  <2> QED BY <2>1, <2>2
<1> QED BY <1>2, <1>4, <1>5, CallerEarned

LEMMA LaterEarned ==
  ASSUME IInv, TypeOK', EarnedInv, NEW c \in Callers,
         SetMirror(c) \/ Install(c) \/ RecvOn(c) \/ RecvOnCap(c) \/ RecvOnTimeout(c)
  PROVE  EarnedInv'
<1>1. TypeOK
  BY DEF IInv
<1>2. /\ UNCHANGED <<toNode, ring, slot, staged, loaded, airing, served, offering, toHost, req,
                     adrift>>
      /\ pc[c] \in {"mirror", "race", "race_wait", "install"}
  BY DEF SetMirror, Install, RecvOn, RecvOnCap, RecvOnTimeout, readVars, wireVars, nodeVars, histVars
<1>3. Sub(resp', resp)
  <2>1. resp' = resp \/ (resp # <<>> /\ resp' = Tail(resp))
    BY DEF SetMirror, Install, RecvOn, RecvOnCap, RecvOnTimeout, readVars
  <2> QED BY <1>1, <2>1, SubSelf, SubTail DEF TypeOK, HostTypeOK
<1>4. Sub(Stream', Stream)
  BY <1>1, <1>2, <1>3, SubSelf, StreamSub
<1>5. req[c].id \notin adrift => served[req[c].id] >= 1
  BY <1>2 DEF EarnedInv, Passed
<1>6. /\ \A d \in Callers \ {c} : pc'[d] = pc[d]
      /\ \A i \in Ids : result'[i] = "ok" => result[i] = "ok" \/ i = req[c].id
  <2>1. CASE SetMirror(c) \/ Install(c)
    <3>1. Finish(c, "ok")
      BY <2>1 DEF SetMirror, Install
    <3> QED BY <1>1, <3>1 DEF Finish, TypeOK, HostTypeOK, HistoryTypeOK
  <2>2. CASE RecvOn(c) \/ RecvOnCap(c) \/ RecvOnTimeout(c)
    <3>1. result' = result /\ \E s \in PcValues : pc' = [pc EXCEPT ![c] = s]
      BY <2>2 DEF RecvOn, RecvOnCap, RecvOnTimeout, histVars, PcValues
    <3> QED BY <1>1, <3>1 DEF TypeOK, HostTypeOK
  <2> QED BY <2>1, <2>2
<1> QED BY <1>2, <1>4, <1>5, <1>6, CallerEarned

LEMMA BeginEarned ==
  ASSUME IInv, TypeOK', EarnedInv, NEW c \in Callers, Issue(c)
  PROVE  EarnedInv'
<1> PICK op \in AllOps, v \in Values \cup Phys : Begin(c, op, v)
  BY OpsAssumption DEF Issue
<1>1. /\ UNCHANGED <<toNode, ring, slot, staged, loaded, airing, served, resp, offering, toHost,
                     adrift, result>>
      /\ pc'[c] \in {"send_mod", "lock"}
      /\ \A d \in Callers \ {c} : pc'[d] = pc[d] /\ req'[d] = req[d]
  BY DEF Begin, readVars, wireVars, nodeVars, IInv, TypeOK, HostTypeOK
<1>2. Sub(toNode', toNode) /\ Sub(ring', ring) /\ Stream' = Stream
  BY <1>1, SubSelf DEF Stream
<1>3. Newest' /\ Truthful'
  BY <1>1, <1>2, EarnedDown
<1>4. Armed' /\ Passed' /\ OkWasServed'
  BY <1>1 DEF EarnedInv, Armed, Passed, OkWasServed
<1> QED BY <1>3, <1>4 DEF EarnedInv

\* The mutex is free, so nothing is on its way that somebody still waits for.
LEMMA ExecOnEarned ==
  ASSUME IInv, TypeOK', EarnedInv, NEW c \in Callers, ExecOn(c)
  PROVE  EarnedInv'
<1>1. /\ UNCHANGED <<ring, slot, staged, loaded, airing, served, offering, toHost, adrift, result,
                     req>>
      /\ resp' = <<>> /\ toNode' = Append(toNode, req[c]) /\ lock = NoCaller
      /\ pc' = [pc EXCEPT ![c] = "wait"]
  BY DEF ExecOn, CanLock, nodeVars, histVars
<1>2. /\ TypeOK /\ toNode \in Seq(Requests) /\ req[c] \in Requests
      /\ pc'[c] = "wait" /\ \A d \in Callers \ {c} : pc'[d] = pc[d]
  BY <1>1 DEF IInv, TypeOK, HostTypeOK, NodeTypeOK
<1>3. \A i \in Ids \ adrift : ~Held(i)
  <2>1. \A d \in Callers : pc[d] # "wait"
    BY <1>1, CallersAssumption DEF IInv, LockedWhileWaiting, Waiting
  <2> QED BY <2>1, BoundsAssumption DEF IInv, AllOwned, HasOwner, Ids
<1>4. Newest'
  <2>1. Requests' = Requests
    BY DEF Requests, AllOps
  <2> SUFFICES ASSUME NEW i \in Ids \ adrift
               PROVE  /\ NoneAfter(toNode', Cmd(i), Requests) /\ NoneAfter(ring, Cmd(i), Requests)
                      /\ ~Has(ring, Cmd(i)) /\ slot # i
    BY <1>1, <2>1, CmdSame DEF Newest
  <2>2. ~Has(toNode, Cmd(i)) /\ ~Has(ring, Cmd(i)) /\ slot # i
    BY <1>3 DEF Held, Ids
  <2>3. NoneAfter(toNode, Cmd(i), Requests) /\ NoneAfter(ring, Cmd(i), Requests)
    BY DEF EarnedInv, Newest
  <2> DEFINE t == toNode \o <<req[c]>>
  <2>4. toNode' = t /\ NoneAfter(t, Cmd(i), Requests)
    BY <1>1, <1>2, <2>2, <2>3, PutAfter
  <2> QED BY <2>2, <2>3, <2>4
<1>5. Armed'
  BY <1>1 DEF EarnedInv, Armed
<1>6. Truthful'
  <2>1. Sub(Stream', Stream)
    BY <1>1, <1>2, SubSelf, SubEmpty, StreamSub
  <2> QED BY <1>1, <2>1, YesSame DEF EarnedInv, Truthful, Sub
<1>7. Passed' /\ OkWasServed'
  BY <1>1, <1>2 DEF EarnedInv, Passed, OkWasServed
<1> QED BY <1>4, <1>5, <1>6, <1>7 DEF EarnedInv

LEMMA SkipEarned ==
  ASSUME IInv, TypeOK', EarnedInv, NEW c \in Callers, SkipEvent(c)
  PROVE  EarnedInv'
<1>1. /\ UNCHANGED <<toNode, ring, slot, staged, loaded, airing, served, offering, toHost, pc, req,
                     result, adrift>>
      /\ resp # <<>> /\ resp' = Tail(resp)
  BY DEF SkipEvent, hostVars, wireVars, nodeVars, histVars
<1>2. TypeOK /\ Sub(resp', resp)
  BY <1>1, SubTail DEF IInv, TypeOK, HostTypeOK
<1>3. Sub(toNode', toNode) /\ Sub(ring', ring) /\ Sub(Stream', Stream)
  BY <1>1, <1>2, SubSelf, StreamSub
<1>4. Newest' /\ Truthful'
  BY <1>1, <1>3, EarnedDown DEF Sub
<1>5. Armed' /\ Passed' /\ OkWasServed'
  BY <1>1, CallersSame DEF EarnedInv, Armed
<1> QED BY <1>4, <1>5 DEF EarnedInv

\* The reader moves an event along the stream and changes nothing in it.
LEMMA StreamMoved ==
  ASSUME TypeOK, ReaderStep
  PROVE  Stream' = Stream
<1>1. resp \in Seq(Events) /\ offering \in Seq(Events) /\ toHost \in Seq(Events)
  BY StreamType
<1>2. \A s, t \in Seq(Events) : t # <<>> =>
        /\ (s \o <<>>) \o t = (s \o <<Head(t)>>) \o Tail(t)
        /\ (s \o <<>>) \o t = (Append(s, Head(t)) \o <<>>) \o Tail(t)
  BY HeadTail
<1>3. \A s, t, u \in Seq(Events) : (s \o t) \o u = ((s \o t) \o <<>>) \o u
  OBVIOUS
<1>4. CASE ReaderStoresCap
  BY <1>1, <1>2, <1>4 DEF ReaderStoresCap, Stream
<1>5. CASE ReaderForwards
  BY <1>1, <1>2, <1>5 DEF ReaderForwards, Stream
<1>6. CASE ReaderOffersCap
  BY <1>1, <1>3, <1>6 DEF ReaderOffersCap, Stream, wireVars
<1> QED BY <1>4, <1>5, <1>6 DEF ReaderStep

LEMMA LineEarned ==
  ASSUME IInv, TypeOK', EarnedInv, ReaderStep \/ LineStep \/ UNCHANGED vars
  PROVE  EarnedInv'
<1>1. UNCHANGED <<ring, slot, staged, loaded, airing, served, pc, req, result, adrift>>
  BY DEF ReaderStep, ReaderStoresCap, ReaderOffersCap, ReaderForwards, LineStep,
         PortFails, LoseEvent, LoseCommand, vars, hostVars, wireVars, nodeVars, histVars
<1>2. toNode' = toNode \/ toNode' = <<>> \/ (toNode # <<>> /\ toNode' = Tail(toNode))
  BY DEF ReaderStep, ReaderStoresCap, ReaderOffersCap, ReaderForwards, LineStep,
         PortFails, LoseEvent, LoseCommand, vars, wireVars
<1>3. TypeOK
  BY DEF IInv
<1>4. Sub(Stream', Stream)
  <2>1. CASE ReaderStep
    BY <1>3, <2>1, StreamMoved, SubSelf
  <2>2. CASE LineStep \/ UNCHANGED vars
    <3>1. /\ UNCHANGED <<resp, offering>>
          /\ toHost' = toHost \/ toHost' = <<>> \/ (toHost # <<>> /\ toHost' = Tail(toHost))
      BY <2>2 DEF LineStep, PortFails, LoseEvent, LoseCommand, vars, readVars, wireVars
    <3>2. Sub(toHost', toHost)
      BY <1>3, <3>1, SubSelf, SubEmpty, SubTail DEF TypeOK, NodeTypeOK
    <3> QED BY <1>3, <3>1, <3>2, SubSelf, StreamSub
  <2> QED BY <2>1, <2>2
<1>5. Sub(toNode', toNode) /\ Sub(ring', ring)
  BY <1>1, <1>2, CommandQueues, SubSelf, SubEmpty, SubTail
<1>6. Newest' /\ Truthful'
  BY <1>1, <1>4, <1>5, EarnedDown DEF Sub
<1>7. Armed' /\ Passed' /\ OkWasServed'
  BY <1>1, CallersSame DEF EarnedInv, Armed
<1> QED BY <1>6, <1>7 DEF EarnedInv

LEMMA HasPut ==
  ASSUME NEW s \in Seq(Events), NEW x \in Events
  PROVE  /\ s \o <<x>> \in Seq(Events)
         /\ \A A : Has(s \o <<x>>, A) <=> Has(s, A) \/ x \in A
<1>1. s \o <<x>> \in Seq(Events)
  OBVIOUS
<1>2. \A A : Has(s \o <<x>>, A) <=> Has(s, A) \/ x \in A
  BY PutAfter
<1> QED BY <1>1, <1>2

LEMMA OneSays ==
  ASSUME NEW s \in Seq(Events), NEW x \in Events, NEW n,
         \A i : (Has(s, Yes(i)) => i = n) /\ (x \in Yes(i) => i = n)
  PROVE  s \o <<x>> \in Seq(Events) /\ \A i : Has(s \o <<x>>, Yes(i)) => i = n
BY HasPut

LEMMA PairSays ==
  ASSUME NEW d \in Events, NEW x \in Events
  PROVE  \A A : Has(<<d>> \o <<x>>, A) <=> d \in A \/ x \in A
BY PairHas

LEMMA StreamAppend ==
  ASSUME TypeOK, UNCHANGED <<resp, offering>>, NEW evs \in Seq(Events),
         toHost' = toHost \o evs, NEW A
  PROVE  Has(Stream', A) <=> Has(Stream, A) \/ Has(evs, A)
<1>1. /\ resp \o offering \in Seq(Events) /\ toHost \in Seq(Events)
      /\ toHost \o evs \in Seq(Events)
  BY StreamType, Concatenated
<1>2. Has(toHost \o evs, A) <=> Has(toHost, A) \/ Has(evs, A)
  BY <1>1, HasConcat
<1> PICK a : a = resp \o offering
  OBVIOUS
<1> PICK b : b = toHost \o evs
  OBVIOUS
<1>3. Stream' = a \o b /\ Stream = a \o toHost
  BY DEF Stream
<1>4. /\ Has(a \o b, A) <=> Has(a, A) \/ Has(b, A)
      /\ Has(a \o toHost, A) <=> Has(a, A) \/ Has(toHost, A)
  BY <1>1, HasConcat
<1> QED BY <1>2, <1>3, <1>4

\* A step of the node that takes commands away and says what is true.
LEMMA SpokeEarned ==
  ASSUME IInv, EarnedInv, UNCHANGED <<pc, req, result, adrift, resp, offering, toNode>>,
         Sub(ring', ring), slot' = slot \/ slot' = 0,
         NEW evs \in Seq(Events), toHost' = toHost \o evs,
         (\E id : Execute(id)) \/ served' = served,
         \A i \in Ids \ adrift : Has(evs, Yes(i)) => served'[i] >= 1,
         Armed'
  PROVE  EarnedInv'
<1>1. \A i \in Ids : served[i] >= 1 => served'[i] >= 1
  BY ServedGrows
<1>2. Sub(toNode', toNode)
  BY SubSelf
<1>3. \A A : Has(Stream', A) <=> Has(Stream, A) \/ Has(evs, A)
  BY StreamAppend DEF IInv
<1>4. Newest' /\ Truthful'
  BY <1>1, <1>2, <1>3, EarnedDown
<1>5. Passed' /\ OkWasServed'
  BY <1>1, CallersSame
<1> QED BY <1>4, <1>5 DEF EarnedInv

LEMMA CommandPut ==
  ASSUME NEW s \in Seq(Requests), NEW x \in Requests
  PROVE  \A A, E : /\ Has(Append(s, x), A) <=> Has(s, A) \/ x \in A
                   /\ NoneAfter(Append(s, x), E, A) <=>
                        NoneAfter(s, E, A) /\ ~(Has(s, E) /\ x \in A)
<1>1. Append(s, x) = s \o <<x>>
  OBVIOUS
<1>2. \A A, E : /\ Has(s \o <<x>>, A) <=> Has(s, A) \/ x \in A
                /\ NoneAfter(s \o <<x>>, E, A) <=>
                     NoneAfter(s, E, A) /\ ~(Has(s, E) /\ x \in A)
  BY PutAfter
<1> QED BY <1>1, <1>2

\* A command leaves the line for the ring, or for nowhere.
LEMMA ArriveEarned ==
  ASSUME IInv, EarnedInv, Arrive
  PROVE  EarnedInv'
<1>1. /\ UNCHANGED <<pc, req, result, adrift, resp, offering, toHost, slot, staged, loaded,
                     airing, served>>
      /\ toNode # <<>> /\ toNode' = Tail(toNode)
      /\ toNode \in Seq(Requests) /\ ring \in Seq(Requests)
  BY CommandQueues DEF Arrive, hostVars, readVars
<1>2. Armed' /\ Passed' /\ OkWasServed'
  BY <1>1, CallersSame DEF EarnedInv, Armed
<1>3. Truthful'
  BY <1>1, YesSame DEF EarnedInv, Truthful, Stream
<1>4. CASE ring' = ring
  <2>1. Sub(toNode', toNode) /\ Sub(ring', ring)
    BY <1>1, <1>4, SubTail, SubSelf
  <2>2. Newest'
    BY <1>1, <2>1, EarnedDown DEF Stream
  <2> QED BY <1>2, <1>3, <2>2 DEF EarnedInv
<1>5. CASE ring' = Append(ring, Head(toNode))
  <2> PICK h : h = Head(toNode)
    OBVIOUS
  <2>1. h \in Requests
    BY <1>1, HeadTail
  <2>2. \A A, E : /\ Has(toNode, A) <=> h \in A \/ Has(toNode', A)
                  /\ NoneAfter(toNode, E, A) <=>
                       NoneAfter(toNode', E, A) /\ ~(h \in E /\ Has(toNode', A))
    BY <1>1, TakenFrom
  <2>3. \A A, E : /\ Has(ring', A) <=> Has(ring, A) \/ h \in A
                  /\ NoneAfter(ring', E, A) <=> NoneAfter(ring, E, A) /\ ~(Has(ring, E) /\ h \in A)
    BY <1>1, <1>5, <2>1, CommandPut
  <2>4. Requests' = Requests
    BY DEF Requests, AllOps
  <2>5. Newest'
    <3> SUFFICES ASSUME NEW i \in Ids \ adrift
                 PROVE  /\ NoneAfter(toNode', Cmd(i), Requests) /\ NoneAfter(ring', Cmd(i), Requests)
                        /\ Has(ring', Cmd(i)) => ~Has(toNode', Requests)
                        /\ slot # i
      BY <1>1, <2>4, CmdSame DEF Newest
    <3>1. /\ NoneAfter(toNode, Cmd(i), Requests) /\ NoneAfter(ring, Cmd(i), Requests)
          /\ ~Has(ring, Cmd(i)) /\ slot # i
      BY <2>1, <2>2 DEF EarnedInv, Newest
    <3> QED BY <2>1, <2>2, <2>3, <3>1
  <2> QED BY <1>2, <1>3, <2>5 DEF EarnedInv
<1> QED BY <1>4, <1>5 DEF Arrive

\* The head of the ring is a command behind every frame that is scheduled.
LEMMA ServedBehind ==
  ASSUME IInv, EarnedInv, ring # <<>>
  PROVE  /\ Head(ring) \in Requests
         /\ slot # 0 => slot \in adrift
<1>1. Head(ring) \in Requests /\ Has(ring, Requests) /\ slot \in 0 .. MaxReqs
  BY CommandQueues, HeadTail, HeadHas
<1>2. slot # 0 => slot \in Ids
  BY <1>1, BoundsAssumption DEF Ids
<1> QED BY <1>1, <1>2 DEF EarnedInv, Newest

\* CMD_TX_AT armed: its frame takes the place its command had.
LEMMA ArmEarned ==
  ASSUME IInv, EarnedInv, HandleTxAt, slot = 0
  PROVE  EarnedInv'
<1> PICK n : n = Head(ring).id
  OBVIOUS
<1>1. /\ UNCHANGED <<pc, req, result, adrift, resp, offering, toNode, staged, airing, served>>
      /\ airing = "none" /\ slot' = n /\ ring # <<>> /\ ring' = Tail(ring)
      /\ toHost' = toHost \o <<>>
      /\ ring \in Seq(Requests)
  BY CommandQueues DEF HandleTxAt, Serving, Answer, NodeElse, hostVars, readVars
<1>2. toHost' = toHost
  BY <1>1 DEF IInv, TypeOK, NodeTypeOK
<1>3. Passed' /\ OkWasServed' /\ Truthful'
  BY <1>1, <1>2, CallersSame, YesSame DEF EarnedInv, Truthful, Stream
<1>4. Armed'
  BY <1>1 DEF Armed, IInv, Calm
<1>5. Head(ring) \in Requests /\ Head(ring) \in Cmd(n)
  BY <1>1, HeadTail, CommandIds
<1>6. \A A, E : /\ Has(ring, A) <=> Head(ring) \in A \/ Has(ring', A)
                /\ NoneAfter(ring, E, A) <=>
                     NoneAfter(ring', E, A) /\ ~(Head(ring) \in E /\ Has(ring', A))
  BY <1>1, TakenFrom
<1>7. Requests' = Requests
  BY DEF Requests, AllOps
<1>8. Newest'
  <2> SUFFICES ASSUME NEW i \in Ids \ adrift
               PROVE  /\ NoneAfter(toNode, Cmd(i), Requests) /\ NoneAfter(ring', Cmd(i), Requests)
                      /\ Has(ring', Cmd(i)) => ~Has(toNode, Requests)
                      /\ n = i => ~Has(toNode, Requests) /\ ~Has(ring', Requests)
    BY <1>1, <1>7, CmdSame DEF Newest
  <2>1. /\ NoneAfter(toNode, Cmd(i), Requests) /\ NoneAfter(ring, Cmd(i), Requests)
        /\ Has(ring, Cmd(i)) => ~Has(toNode, Requests)
    BY DEF EarnedInv, Newest
  <2> QED BY <1>5, <1>6, <2>1
<1> QED BY <1>3, <1>4, <1>8 DEF EarnedInv

\* handle_cmd takes the head of the ring and answers it.
LEMMA ServeEarned ==
  ASSUME IInv, EarnedInv, UNCHANGED <<pc, req, result, adrift, resp, offering, toNode>>,
         ring # <<>>, slot' = slot \/ slot' = 0,
         NEW evs \in Seq(Events), Answer(evs),
         (\E id : Execute(id)) \/ served' = served,
         \A i \in Ids : Has(evs, Yes(i)) => i = Head(ring).id /\ Execute(i)
  PROVE  EarnedInv'
<1>1. ring' = Tail(ring) /\ toHost' = toHost \o evs /\ ring \in Seq(Requests)
  BY CommandQueues DEF Answer
<1>2. Sub(ring', ring)
  BY <1>1, SubTail
<1>3. Armed'
  BY ServedBehind DEF Armed
<1>4. ASSUME NEW i \in Ids, Has(evs, Yes(i))
      PROVE  served'[i] >= 1
  <2>1. Execute(i)
    BY <1>4
  <2>2. served'[i] = served[i] + 1 /\ served[i] \in Nat
    BY <2>1, ServedType DEF Execute
  <2> QED BY <2>2
<1> QED BY <1>1, <1>2, <1>3, <1>4, SpokeEarned

\* A command answered with one reply, and with a good one only when it was executed.
LEMMA OneReplyEarned ==
  ASSUME IInv, EarnedInv, NEW op, Serving(op),
         UNCHANGED <<pc, req, result, adrift, resp, offering, toNode, slot>>,
         NEW typ \in EvTypes, NEW ok \in BOOLEAN, Answer(<<Reply(typ, Head(ring), ok)>>),
         Execute(Head(ring).id) \/ (served' = served /\ typ \notin {"INFO", "CAP"} /\ ~ok)
  PROVE  EarnedInv'
<1> PICK r : r = Head(ring)
  OBVIOUS
<1> PICK x : x = Reply(typ, r, ok)
  OBVIOUS
<1>1. ring # <<>> /\ r \in Requests
  BY ServingHead DEF IInv
<1>2. x \in Events /\ x.id = r.id /\ x.typ = typ /\ x.ok = ok
  <2>1. x \in Events /\ x.id = r.id /\ x.typ = typ
    BY <1>1, RepliesAreEvents DEF IInv
  <2> QED BY <2>1 DEF Reply
<1>3. <<x>> \in Seq(Events)
  BY <1>2
<1>4. ASSUME NEW i \in Ids, Has(<<x>>, Yes(i))
      PROVE  i = r.id /\ Execute(i)
  <2>1. x \in Yes(i)
    BY <1>4, OneHas
  <2> QED BY <1>2, <2>1 DEF Yes
<1>5. /\ UNCHANGED <<pc, req, result, adrift, resp, offering, toNode>> /\ slot' = slot
      /\ (\E id : Execute(id)) \/ served' = served
  OBVIOUS
<1>6. Answer(<<x>>)
  OBVIOUS
<1>7. \A i \in Ids : Has(<<x>>, Yes(i)) => i = Head(ring).id /\ Execute(i)
  BY <1>4
<1> QED BY <1>1, <1>3, <1>5, <1>6, <1>7, ServeEarned

LEMMA HandleEarned ==
  ASSUME IInv, EarnedInv,
         HandleTx \/ HandleTxAt \/ RefuseTxAt \/ HandleSetFreq \/ HandleSetMod
  PROVE  EarnedInv'
<1>0. "TXDONE" \in EvTypes /\ "INFO" \in EvTypes /\ "UNSUPPORTED" \in EvTypes
  BY DEF EvTypes
<1>1. UNCHANGED <<pc, req, result, adrift, resp, offering, toNode>>
  BY DEF HandleTx, HandleTxAt, RefuseTxAt, HandleSetFreq, HandleSetMod, NodeElse, hostVars, readVars
<1>2. CASE HandleTx
  <2>1. PICK ok \in BOOLEAN : Answer(<<Reply("TXDONE", Head(ring), ok)>>)
    BY <1>2 DEF HandleTx
  <2>2. Serving("tx") /\ slot' = slot /\ Execute(Head(ring).id)
    BY <1>2 DEF HandleTx
  <2> QED BY <1>0, <1>1, <2>1, <2>2, OneReplyEarned
<1>3. CASE HandleTxAt /\ slot = 0
  BY <1>3, ArmEarned
<1>4. CASE HandleTxAt /\ slot # 0
  <2>1. /\ Serving("txat") /\ slot' = slot /\ served' = served
        /\ Answer(<<Reply("TXDONE", Head(ring), FALSE)>>)
    BY <1>4 DEF HandleTxAt
  <2> QED BY <1>0, <1>1, <2>1, OneReplyEarned
<1>5. CASE RefuseTxAt
  <2>1. /\ Serving("txat") /\ slot' = slot /\ served' = served
        /\ Answer(<<Reply("UNSUPPORTED", Head(ring), FALSE)>>)
    BY <1>5 DEF RefuseTxAt
  <2> QED BY <1>0, <1>1, <2>1, OneReplyEarned
<1>6. CASE HandleSetFreq
  <2>1. /\ Serving("freq") /\ slot' = slot /\ Execute(Head(ring).id)
        /\ Answer(<<Reply("INFO", Head(ring), TRUE)>>)
    BY <1>6 DEF HandleSetFreq
  <2> QED BY <1>0, <1>1, <2>1, OneReplyEarned
<1>7. CASE HandleSetMod /\ HasSpreadingFactor(cap)
  <2>1. /\ Serving("mod") /\ slot' = slot /\ Execute(Head(ring).id)
        /\ Answer(<<Reply("INFO", Head(ring), TRUE)>>)
    BY <1>7 DEF HandleSetMod
  <2> QED BY <1>0, <1>1, <2>1, OneReplyEarned
<1>8. CASE HandleSetMod /\ ~HasSpreadingFactor(cap)
  <2>1. /\ Serving("mod") /\ slot' = slot /\ served' = served
        /\ Answer(<<Reply("UNSUPPORTED", Head(ring), FALSE)>>)
    BY <1>8 DEF HandleSetMod
  <2> QED BY <1>0, <1>1, <2>1, OneReplyEarned
<1> QED BY <1>2, <1>3, <1>4, <1>5, <1>6, <1>7, <1>8

\* What SET_PHY cancels is reported as not sent.
LEMMA CancelledEvents ==
  ASSUME TypeOK, ring # <<>>, Head(ring) \in Requests
  PROVE  Cancelled \in Seq(Events) /\ \A i : ~Has(Cancelled, Yes(i))
<1>0. slot \in 0 .. MaxReqs
  BY DEF TypeOK, NodeTypeOK
<1>1. CASE slot = 0
  <2>1. Cancelled = <<>>
    BY <1>1 DEF Cancelled
  <2> QED BY <2>1, EmptyHas
<1>2. CASE slot # 0
  <2> PICK d : d = [Reply("TXDONE", Head(ring), FALSE) EXCEPT !.id = slot]
    OBVIOUS
  <2>1. d \in Events /\ d.typ = "TXDONE" /\ ~d.ok
    BY <1>0 DEF Reply, Events, EvTypes, Requests, TypeOK, NodeTypeOK
  <2>2. Cancelled = <<d>>
    BY <1>2 DEF Cancelled
  <2>4. <<d>> \in Seq(Events)
    BY <2>1
  <2>3. \A i : d \notin Yes(i)
    BY <2>1 DEF Yes
  <2> QED BY <2>2, <2>3, <2>4, OneHas
<1> QED BY <1>1, <1>2

LEMMA SetPhyEarned ==
  ASSUME IInv, EarnedInv, HandleSetPhy \/ RefuseSetPhy
  PROVE  EarnedInv'
<1> PICK r : r = Head(ring)
  OBVIOUS
<1> PICK k : k = cap'
  OBVIOUS
<1> PICK x : x = [Reply("CAP", r, TRUE) EXCEPT !.cap = k]
  OBVIOUS
<1> PICK y : y = Reply("PHY_ERR", r, FALSE)
  OBVIOUS
<1>1. /\ UNCHANGED <<pc, req, result, adrift, resp, offering, toNode>>
      /\ Serving("phy") /\ slot' = 0
  BY DEF HandleSetPhy, RefuseSetPhy, NodeElse, hostVars, readVars
<1>2. TypeOK /\ ring # <<>> /\ r \in Requests
  BY <1>1, ServingHead DEF IInv
<1>3. Cancelled \in Seq(Events) /\ \A i : ~Has(Cancelled, Yes(i))
  BY <1>2, CancelledEvents
<1>4. y \in Events /\ \A i : y \notin Yes(i)
  BY <1>2 DEF Reply, Yes, Events, EvTypes, Requests, TypeOK, NodeTypeOK
<1>5. CASE HandleSetPhy
  <2>1. k \in Caps
    BY <1>2, <1>5 DEF HandleSetPhy, Serving, Caps, Requests, TypeOK, NodeTypeOK
  <2>2. x \in Events /\ \A i : x \in Yes(i) => i = r.id
    BY <1>2, <2>1 DEF Reply, Yes, Events, EvTypes, Requests, TypeOK, NodeTypeOK
  <2> PICK p : p = Cancelled \o <<x>>
    OBVIOUS
  <2> PICK q : q = p \o <<y>>
    OBVIOUS
  <2>3. p \in Seq(Events) /\ \A i : Has(p, Yes(i)) => i = r.id
    BY <1>3, <2>2, OneSays
  <2>4. q \in Seq(Events) /\ \A i : Has(q, Yes(i)) => i = r.id
    BY <1>4, <2>3, OneSays
  <2>5. Execute(r.id) /\ (Answer(p) \/ Answer(q))
    BY <1>5 DEF HandleSetPhy
  <2>6. PICK evs \in {p, q} : Answer(evs)
    BY <2>5
  <2>7. evs \in Seq(Events) /\ \A i \in Ids : Has(evs, Yes(i)) => i = Head(ring).id /\ Execute(i)
    BY <2>3, <2>4, <2>5
  <2> QED BY <1>1, <1>2, <2>5, <2>6, <2>7, ServeEarned
<1>6. CASE RefuseSetPhy
  <2> PICK p : p = Cancelled \o <<y>>
    OBVIOUS
  <2>1. p \in Seq(Events) /\ \A i : ~Has(p, Yes(i))
    BY <1>3, <1>4, HasPut
  <2>2. Answer(p) /\ served' = served
    BY <1>6 DEF RefuseSetPhy
  <2> QED BY <1>1, <1>2, <2>1, <2>2, ServeEarned
<1> QED BY <1>5, <1>6

\* sched_service up to the key-up: a frame nobody gave up on is the one in the chip.
LEMMA SchedEarned ==
  ASSUME IInv, EarnedInv, SchedStage \/ SchedIssue
  PROVE  EarnedInv'
<1>1. /\ UNCHANGED <<pc, req, result, adrift, resp, offering, toHost, toNode, ring, slot>>
      /\ (\E id : Execute(id)) \/ served' = served
  BY DEF SchedStage, SchedIssue, hostVars, readVars, wireVars, histVars
<1>2. \A i \in Ids : served[i] >= 1 => served'[i] >= 1
  BY <1>1, ServedGrows
<1>3. Sub(toNode', toNode) /\ Sub(ring', ring)
  BY <1>1, SubSelf
<1>4. Newest' /\ Truthful'
  BY <1>1, <1>2, <1>3, EarnedDown DEF Stream
<1>5. Passed' /\ OkWasServed'
  BY <1>1, <1>2, CallersSame
<1>6. Armed'
  <2>1. CASE SchedStage
    BY <2>1 DEF SchedStage, histVars, Armed
  <2>2. CASE SchedIssue
    <3> SUFFICES ASSUME slot # 0, slot \notin adrift
                 PROVE  (staged' => loaded' = slot) /\ served'[slot] >= 1
      BY <1>1 DEF Armed
    <3>1. staged /\ staged' = staged /\ loaded' = loaded /\ loaded = slot /\ Execute(slot)
      BY <2>2 DEF SchedIssue, EarnedInv, Armed
    <3>2. slot \in Ids
      BY CommandQueues, BoundsAssumption DEF Ids
    <3>3. served'[slot] = served[slot] + 1 /\ served[slot] \in Nat
      BY <3>1, <3>2, ServedType DEF Execute
    <3> QED BY <3>1, <3>3
  <2> QED BY <2>1, <2>2
<1> QED BY <1>4, <1>5, <1>6 DEF EarnedInv

LEMMA SchedDoneEarned ==
  ASSUME IInv, TypeOK', EarnedInv, SchedDone
  PROVE  EarnedInv'
<1> PICK m : m = slot
  OBVIOUS
<1> PICK k : k = cap'
  OBVIOUS
<1>1. /\ UNCHANGED <<pc, req, result, adrift, resp, offering, toNode, ring, served>>
      /\ airing = "sched" /\ slot' = 0 /\ TypeOK /\ m # 0
  BY DEF SchedDone, Calm, hostVars, readVars, IInv
<1>0. k \in Caps
  BY DEF TypeOK, NodeTypeOK
<1> PICK ok \in BOOLEAN :
      \/ toHost' = toHost \o <<[Unasked("TXDONE", ok) EXCEPT !.id = slot]>>
      \/ toHost' = toHost \o <<[Unasked("TXDONE", ok) EXCEPT !.id = slot]>>
                          \o <<[Unasked("CAP", TRUE) EXCEPT !.cap = k]>>
  BY DEF SchedDone
<1>10. PICK d : d = [Unasked("TXDONE", ok) EXCEPT !.id = slot]
  OBVIOUS
<1>11. PICK x : x = [Unasked("CAP", TRUE) EXCEPT !.cap = k]
  OBVIOUS
<1>2. d \in Events /\ d.id = m /\ x \in Events /\ x.id = 0
  BY <1>0, <1>1, <1>10, <1>11, UnaskedEvents
<1>3. <<d>> \in Seq(Events) /\ <<x>> \in Seq(Events) /\ toHost \in Seq(Events)
  BY <1>1, <1>2, OneOrTwo DEF TypeOK, NodeTypeOK
<1>12. PICK p : p = <<d>> \o <<x>>
  OBVIOUS
<1>4. p \in Seq(Events) /\ toHost \o p = (toHost \o <<d>>) \o <<x>>
  <2>1. \A s, t, u \in Seq(Events) : s \o (t \o u) = (s \o t) \o u
    OBVIOUS
  <2> QED BY <1>3, <1>12, <2>1, Concatenated
<1>5. PICK evs \in {<<d>>, p} : toHost' = toHost \o evs
  BY <1>4, <1>10, <1>11
<1>6. \A A : /\ Has(<<d>>, A) <=> d \in A
             /\ Has(p, A) <=> d \in A \/ x \in A
  <2>1. \A A : Has(<<d>> \o <<x>>, A) <=> d \in A \/ x \in A
    BY <1>2, PairSays
  <2>2. \A A : Has(<<d>>, A) <=> d \in A
    BY OneHas
  <2> QED BY <1>12, <2>1, <2>2
<1>7. ASSUME NEW i \in Ids \ adrift, Has(evs, Yes(i))
      PROVE  served[i] >= 1
  <2>1. d \in Yes(i) \/ x \in Yes(i)
    BY <1>5, <1>6, <1>7
  <2>2. i = m
    <3>1. i # 0
      BY DEF Ids
    <3> QED BY <1>2, <2>1, <3>1 DEF Yes
  <2> QED BY <1>1, <1>7, <2>2 DEF EarnedInv, Armed
<1>8. Armed'
  BY <1>1 DEF Armed
<1>9. Sub(ring', ring) /\ evs \in Seq(Events)
  BY <1>1, <1>3, <1>4, <1>5, SubSelf
<1> QED BY <1>1, <1>5, <1>7, <1>8, <1>9, SpokeEarned

LEMMA OwnAirEarned ==
  ASSUME IInv, EarnedInv, BeaconStart \/ BeaconDone \/ RelayStart \/ RelayDone
  PROVE  EarnedInv'
<1>1. /\ UNCHANGED <<pc, req, result, adrift, resp, offering, toNode, ring, slot, staged, loaded,
                     served>>
      /\ airing' # "sched"
      /\ toHost' = toHost \/ \E ok \in BOOLEAN : toHost' = Append(toHost, Unasked("TXDONE", ok))
  BY DEF BeaconStart, BeaconDone, RelayStart, RelayDone, hostVars, readVars, wireVars, histVars
<1>2. Armed' /\ Passed' /\ OkWasServed'
  BY <1>1, CallersSame DEF EarnedInv, Armed
<1>3. Sub(toNode', toNode) /\ Sub(ring', ring)
  BY <1>1, SubSelf
<1>4. CASE toHost' = toHost
  BY <1>1, <1>2, <1>3, <1>4, EarnedDown DEF Stream, EarnedInv
<1>5. ASSUME NEW ok \in BOOLEAN, toHost' = Append(toHost, Unasked("TXDONE", ok))
      PROVE  EarnedInv'
  <2> PICK k : k = cap
    OBVIOUS
  <2> PICK d : d = Unasked("TXDONE", ok)
    OBVIOUS
  <2>1. d \in Events /\ d.id = 0
    <3>1. k \in Caps /\ TypeOK
      BY DEF IInv, TypeOK, NodeTypeOK
    <3> QED BY <3>1, UnaskedEvents
  <2>2. <<d>> \in Seq(Events) /\ toHost' = toHost \o <<d>>
    <3>1. toHost \in Seq(Events)
      BY DEF IInv, TypeOK, NodeTypeOK
    <3> QED BY <1>5, <2>1, <3>1, OneOrTwo, PutAfter
  <2>3. \A i \in Ids : ~Has(<<d>>, Yes(i))
    BY <2>1, OneHas DEF Yes, Ids
  <2> QED BY <1>1, <1>2, <1>3, <2>2, <2>3, SpokeEarned
<1> QED BY <1>1, <1>4, <1>5

LEMMA NextEarned ==
  ASSUME IInv, TypeOK', EarnedInv, [Next]_vars
  PROVE  EarnedInv'
<1>1. ASSUME NEW c \in Callers, Issue(c) \/ CallerStep(c)
      PROVE  EarnedInv'
  BY <1>1, BeginEarned, ExecOnEarned, TakeReplyEarned, FailureEarned, LaterEarned, SkipEarned
     DEF CallerStep
<1>2. CASE NodeStep
  BY <1>2, ArriveEarned, HandleEarned, SetPhyEarned, SchedEarned, SchedDoneEarned, OwnAirEarned
     DEF NodeStep
<1> QED BY <1>1, <1>2, LineEarned DEF Next

\* An operation that returned Ok on its own reply was executed by the node: a frame that
\* inject_after reports as sent went out, and a knob that is reported as set was set.
THEOREM OkWasServedAlways == Spec => []OkWasServed
<1>1. Init => EarnedInv
  <2> SUFFICES ASSUME Init
               PROVE  EarnedInv
    OBVIOUS
  <2>1. /\ toNode = <<>> /\ ring = <<>> /\ slot = 0 /\ Stream = <<>>
        /\ \A c \in Callers : pc[c] = "idle"
        /\ \A i \in Ids : result[i] = "none"
    BY DEF Init, Stream
  <2>2. \A A, E : ~Has(<<>>, A) /\ NoneAfter(<<>>, E, A)
    BY EmptyHas
  <2> QED BY <2>1, <2>2 DEF EarnedInv, Newest, Armed, Truthful, Passed, OkWasServed, Ids
<1>2. IInv /\ IInv' /\ EarnedInv /\ [Next]_vars => EarnedInv'
  BY NextEarned DEF IInv
<1>3. EarnedInv => OkWasServed
  BY DEF EarnedInv
<1> QED BY <1>1, <1>2, <1>3, LinkInvariant, PTL DEF Spec

----------------------------------------------------------------------------
(* What the host believes, when one caller uses the backend.               *)
(*                                                                         *)
(* Two callers that overlap can leave the mirror and the profile wrong on  *)
(* an undisturbed link: each writes them after it has released `cmd`.      *)
(* With one caller they are in step but for the time an operation needs.   *)

OneCaller == \E d \in Callers : \A c \in Callers : c = d

\* What the caller is inside of, and what it waits for.
Inside(c, op) == pc[c] # "idle" /\ req[c].op = op
Awaiting(c, op) == pc[c] = "wait" /\ req[c].op = op

CapsOf(k) == {e \in Events : e.typ = "CAP" /\ e.cap = k}
AnyCap == {e \in Events : e.typ = "CAP"}
Refusals == {e \in Events : e.typ \in {"PHY_ERR", "UNSUPPORTED"}}

\* What travels to the node is the command that is waited on.
AsSent(c) ==
  pc[c] = "wait" => \A r \in Requests \ {req[c]} : ~Has(toNode, {r}) /\ ~Has(ring, {r})

\* No capability but the current one is on its way, and the profile is the current one
\* but for the time between a switch and the storing of its capability.
ProfileOf(c) ==
  /\ \A k \in Caps \ {cap} : ~Has(Stream, CapsOf(k))
  /\ Has(resp, AnyCap) \/ Has(offering, AnyCap) => profile = cap
  /\ pc[c] \in {"install", "race", "race_wait"} => learned[c] = cap /\ req[c].op = "phy"
  /\ Has(toNode, Requests) \/ Has(ring, Requests) \/ Has(Stream, Refusals) \/ ~Awaiting(c, "phy")
       => profile = cap

\* A knob is in step with the mirror but while an operation is moving it.
MirrorOf(c) ==
  /\ ~Inside(c, "freq") => mirror.freq = reg.freq
  /\ ~Inside(c, "mod") => mirror.sf = reg.sf
  /\ Inside(c, "mod") => HasSpreadingFactor(cap)
  /\ Inside(c, "mod") /\ pc[c] \in {"lock", "wait"} => req[c].val = mirror.sf
  /\ Awaiting(c, "freq") \/ Awaiting(c, "mod") => ~Has(Stream, Refusals)
  /\ Awaiting(c, "freq") /\ Has(Stream, Events) => reg.freq = req[c].val
  /\ Awaiting(c, "mod") /\ Has(Stream, Events) => reg.sf = req[c].val
  /\ pc[c] = "mirror" => reg.freq = req[c].val

LoneInv(c) == ~disturbed => AsSent(c) /\ ProfileOf(c) /\ MirrorOf(c)

LEMMA SetsSame ==
  /\ Requests' = Requests /\ Events' = Events /\ Caps' = Caps
  /\ AnyCap' = AnyCap /\ Refusals' = Refusals /\ \A k : CapsOf(k)' = CapsOf(k)
BY DEF Requests, Events, Caps, AnyCap, Refusals, CapsOf, EvTypes, AllOps

LEMMA DisturbedStays == [Next]_vars => (disturbed => disturbed')
BY DEF Next, Issue, Begin, CallerStep, SendMod, ExecOn, ExecOnClosed, TakeReply, TakeRefusal,
       SkipEvent, Timeout, Disconnected, SetMirror, RecvOn, RecvOnCap, RecvOnTimeout, Install,
       ReaderStep, ReaderStoresCap, ReaderOffersCap, ReaderForwards, LineStep, PortFails,
       LoseEvent, LoseCommand, NodeStep, Arrive, HandleTx, HandleTxAt, RefuseTxAt, HandleSetFreq,
       HandleSetMod, HandleSetPhy, RefuseSetPhy, SchedStage, SchedIssue, SchedDone, BeaconStart,
       BeaconDone, RelayStart, RelayDone, NodeElse, vars, histVars

\* Undisturbed, whatever is on its way is the waiting caller's.
LEMMA LoneFlight ==
  ASSUME OneCaller, IInv, ~disturbed, NEW c \in Callers
  PROVE  /\ slot # 0 \/ Has(toNode, Requests) \/ Has(ring, Requests) \/ Has(Stream, Events)
              => pc[c] = "wait"
         /\ slot # 0 => slot = req[c].id /\ ~Has(ring, Requests) /\ ~Has(Stream, Events)
         /\ ring # <<>> =>
              /\ Head(ring).id = req[c].id /\ Head(ring) \in Requests
              /\ slot = 0 /\ ~Has(toNode, Requests) /\ ~Has(Tail(ring), Requests)
              /\ ~Has(Stream, Events)
<1>0. TypeOK /\ ring \in Seq(Requests) /\ slot \in 0 .. MaxReqs
  BY CommandQueues DEF IInv
<1>1. ASSUME NEW i, HasOwner(i)
      PROVE  pc[c] = "wait" /\ i = req[c].id /\ OnceInFlight(i)
  <2>1. PICK d \in Callers : pc[d] = "wait" /\ req[d].id = i
    BY <1>1 DEF HasOwner, IInv, Calm
  <2>2. d = c
    BY DEF OneCaller
  <2> QED BY <2>1, <2>2 DEF IInv, InFlight, Calm
<1>2. ASSUME NEW i \in 0 .. MaxReqs, Held(i) \/ Has(Stream, Ans(i))
      PROVE  pc[c] = "wait" /\ i = req[c].id /\ OnceInFlight(i)
  BY <1>1, <1>2 DEF IInv, AllOwned
<1>3. ASSUME NEW s, NEW r \in Requests, Has(s, {r})
      PROVE  Has(s, Cmd(r.id)) /\ r.id \in 0 .. MaxReqs
  BY <1>3, CommandIds DEF Has
<1>4. \A s : Has(s, Requests) => \E r \in Requests : Has(s, {r})
  BY DEF Has
<1>5. ASSUME Has(Stream, Events)
      PROVE  Has(Stream, Ans(req[c].id)) /\ req[c].id \in 0 .. MaxReqs /\ pc[c] = "wait"
  <2>1. PICK e \in Events : Has(Stream, {e})
    BY <1>5 DEF Has
  <2>2. e.id \in 0 .. MaxReqs /\ e \in Ans(e.id)
    BY DEF Ans, Events
  <2>3. Has(Stream, Ans(e.id))
    BY <2>1, <2>2 DEF Has
  <2> QED BY <1>2, <2>2, <2>3
<1>6. ASSUME NEW r \in Requests, Has(toNode, {r}) \/ Has(ring, {r})
      PROVE  pc[c] = "wait" /\ r.id = req[c].id /\ OnceInFlight(r.id) /\ Held(r.id)
  BY <1>2, <1>3, <1>6 DEF Held
<1>7. slot # 0 => slot = req[c].id /\ pc[c] = "wait" /\ OnceInFlight(slot) /\ Held(slot)
  BY <1>0, <1>2 DEF Held
<1>8. slot # 0 => ~Has(ring, Requests) /\ ~Has(Stream, Events)
  <2> SUFFICES ASSUME slot # 0
               PROVE  ~Has(ring, Requests) /\ ~Has(Stream, Events)
    OBVIOUS
  <2>1. ~Has(ring, Requests)
    <3> SUFFICES ASSUME Has(ring, Requests)
                 PROVE  FALSE
      OBVIOUS
    <3>1. PICK r \in Requests : Has(ring, {r})
      BY <1>4
    <3>2. r.id = slot /\ Has(ring, Cmd(r.id)) /\ OnceInFlight(r.id)
      BY <1>3, <1>6, <1>7, <3>1
    <3> QED BY <3>2 DEF OnceInFlight
  <2>2. ~Has(Stream, Events)
    BY <1>5, <1>7 DEF OnceInFlight
  <2> QED BY <2>1, <2>2
<1>9. ASSUME ring # <<>>
      PROVE  /\ Head(ring).id = req[c].id /\ Head(ring) \in Requests
             /\ slot = 0 /\ ~Has(toNode, Requests) /\ ~Has(Tail(ring), Requests)
             /\ ~Has(Stream, Events)
  <2> PICK h : h = Head(ring)
    OBVIOUS
  <2>1. h \in Requests /\ Has(ring, {h}) /\ Has(ring, Requests)
    BY <1>0, <1>9, HeadTail, HeadHas
  <2>2. h.id = req[c].id /\ OnceInFlight(h.id) /\ Held(h.id) /\ Has(ring, Cmd(h.id))
    BY <1>3, <1>6, <2>1
  <2>3. slot = 0 /\ ~Has(Stream, Events)
    BY <1>5, <1>8, <2>1, <2>2 DEF OnceInFlight
  <2>4. ~Has(toNode, Requests)
    <3> SUFFICES ASSUME Has(toNode, Requests)
                 PROVE  FALSE
      OBVIOUS
    <3>1. PICK r \in Requests : Has(toNode, {r})
      BY <1>4
    <3>2. r.id = h.id /\ Has(toNode, Cmd(r.id))
      BY <1>3, <1>6, <2>2, <3>1
    <3> QED BY <2>2, <3>2 DEF OnceInFlight
  <2>5. ~Has(Tail(ring), Requests)
    <3> SUFFICES ASSUME Has(Tail(ring), Requests)
                 PROVE  FALSE
      OBVIOUS
    <3>1. PICK r \in Requests : Has(Tail(ring), {r})
      BY <1>4
    <3>2. \A A : /\ Has(ring, A) <=> h \in A \/ Has(Tail(ring), A)
                 /\ Single(ring, A) <=> Single(Tail(ring), A) /\ ~(h \in A /\ Has(Tail(ring), A))
      BY <1>0, <1>9, TakenFrom
    <3>3. r.id = h.id /\ Has(Tail(ring), Cmd(h.id))
      BY <1>3, <1>6, <2>2, <3>1, <3>2
    <3>4. h \in Cmd(h.id)
      BY <2>1, CommandIds
    <3> QED BY <2>2, <3>2, <3>3, <3>4 DEF OnceInFlight
  <2> QED BY <2>1, <2>2, <2>3, <2>4, <2>5
<1> QED BY <1>4, <1>5, <1>6, <1>7, <1>8, <1>9

\* A step that moves what is on its way, or takes it away, and changes nothing else.
LEMMA LoneFrame ==
  ASSUME NEW c \in Callers, LoneInv(c), disturbed => disturbed',
         UNCHANGED <<mirror, profile, reg, cap>>,
         pc'[c] = pc[c], req'[c] = req[c], learned'[c] = learned[c],
         \A A : /\ Has(Stream', A) => Has(Stream, A)
                /\ Has(resp', A) \/ Has(offering', A) => Has(resp, A) \/ Has(offering, A)
                /\ Has(toNode', A) \/ Has(ring', A) => Has(toNode, A) \/ Has(ring, A)
  PROVE  LoneInv(c)'
<1> SUFFICES ASSUME ~disturbed'
             PROVE  AsSent(c)' /\ ProfileOf(c)' /\ MirrorOf(c)'
  BY DEF LoneInv
<1>1. AsSent(c) /\ ProfileOf(c) /\ MirrorOf(c)
  BY DEF LoneInv
<1>2. AsSent(c)'
  BY <1>1, SetsSame DEF AsSent
<1>3. ProfileOf(c)'
  BY <1>1, SetsSame DEF ProfileOf, Awaiting
<1>4. MirrorOf(c)'
  BY <1>1, SetsSame DEF MirrorOf, Awaiting, Inside, HasSpreadingFactor
<1> QED BY <1>2, <1>3, <1>4

LEMMA BeginLone ==
  ASSUME IInv, NEW c \in Callers, LoneInv(c), Issue(c)
  PROVE  LoneInv(c)'
<1> PICK op \in AllOps, v \in Values \cup Phys : Begin(c, op, v)
  BY OpsAssumption DEF Issue
<1>1. /\ UNCHANGED <<learned, profile, resp, offering, toHost, toNode, ring, reg, cap, disturbed>>
      /\ pc[c] = "idle" /\ Permitted(op, v)
      /\ req'[c] = [id |-> nextId, op |-> op, val |-> v]
      /\ pc'[c] = IF op = "mod" THEN "send_mod" ELSE "lock"
      /\ mirror' = IF op = "mod" THEN [mirror EXCEPT !.sf = v] ELSE mirror
      /\ mirror \in Settings
  BY DEF Begin, readVars, wireVars, nodeVars, IInv, TypeOK, HostTypeOK
<1> SUFFICES ASSUME ~disturbed
             PROVE  AsSent(c)' /\ ProfileOf(c)' /\ MirrorOf(c)'
  BY <1>1 DEF LoneInv
<1>2. ProfileOf(c) /\ MirrorOf(c)
  BY DEF LoneInv
<1>3. Stream' = Stream
  BY <1>1 DEF Stream
<1>4. AsSent(c)' /\ pc'[c] \notin {"idle", "wait", "mirror", "install", "race", "race_wait"}
  BY <1>1 DEF AsSent
<1>5. profile = cap
  BY <1>1, <1>2 DEF ProfileOf, Awaiting
<1>6. ProfileOf(c)'
  BY <1>1, <1>2, <1>3, <1>4, <1>5, SetsSame DEF ProfileOf, Awaiting
<1>7. mirror = reg \/ (mirror.freq = reg.freq /\ mirror.sf = reg.sf)
  BY <1>1, <1>2 DEF MirrorOf, Inside
<1>8. MirrorOf(c)'
  <2>1. CASE op = "mod"
    <3>1. HasSpreadingFactor(cap) /\ mirror'.freq = mirror.freq /\ req'[c].op = "mod"
      BY <1>1, <1>5, <2>1 DEF Permitted, Settings
    <3> QED BY <1>1, <1>4, <1>7, <2>1, <3>1 DEF MirrorOf, Inside, Awaiting, HasSpreadingFactor
  <2>2. CASE op # "mod"
    BY <1>1, <1>4, <1>7, <2>2 DEF MirrorOf, Inside, Awaiting, HasSpreadingFactor
  <2> QED BY <2>1, <2>2
<1> QED BY <1>4, <1>6, <1>8

\* The command of set_spreading_factor is built from the mirror it moved.
LEMMA SendModLone ==
  ASSUME IInv, NEW c \in Callers, LoneInv(c), SendMod(c)
  PROVE  LoneInv(c)'
<1>1. /\ UNCHANGED <<learned, profile, mirror, resp, offering, toHost, toNode, ring, reg, cap,
                     disturbed>>
      /\ pc[c] = "send_mod" /\ req[c].op = "mod" /\ TypeOK
  BY DEF SendMod, readVars, wireVars, nodeVars, IInv, TypeOK, StageTypeOK
<1> SUFFICES ASSUME ~disturbed
             PROVE  AsSent(c)' /\ ProfileOf(c)' /\ MirrorOf(c)'
  BY <1>1 DEF LoneInv
<1>2. ProfileOf(c) /\ MirrorOf(c)
  BY DEF LoneInv
<1>3. Stream' = Stream
  BY <1>1 DEF Stream
<1>4. HasSpreadingFactor(profile)
  BY <1>1, <1>2 DEF ProfileOf, MirrorOf, Awaiting, Inside
<1>5. pc'[c] = "lock" /\ req'[c].op = "mod" /\ req'[c].val = mirror.sf
  <2>1. pc' = [pc EXCEPT ![c] = "lock"] /\ req' = [req EXCEPT ![c].val = mirror.sf]
    BY <1>4 DEF SendMod
  <2> QED BY <1>1, <2>1 DEF TypeOK, HostTypeOK, Requests
<1>6. AsSent(c)'
  BY <1>5 DEF AsSent
<1>7. ProfileOf(c)'
  BY <1>1, <1>2, <1>3, <1>5, SetsSame DEF ProfileOf, Awaiting
<1>8. MirrorOf(c)'
  BY <1>1, <1>2, <1>5 DEF MirrorOf, Inside, Awaiting, HasSpreadingFactor
<1> QED BY <1>6, <1>7, <1>8

LEMMA ExecOnLone ==
  ASSUME OneCaller, IInv, TypeOK', NEW c \in Callers, LoneInv(c), ExecOn(c)
  PROVE  LoneInv(c)'
<1>1. /\ UNCHANGED <<learned, profile, mirror, req, offering, toHost, ring, reg, cap, disturbed>>
      /\ pc[c] = "lock" /\ resp' = <<>> /\ toNode' = Append(toNode, req[c]) /\ TypeOK
      /\ pc' = [pc EXCEPT ![c] = "wait"]
  BY DEF ExecOn, nodeVars, histVars, IInv
<1>2. pc'[c] = "wait" /\ req[c] \in Requests /\ toNode \in Seq(Requests)
  BY <1>1 DEF TypeOK, HostTypeOK, NodeTypeOK
<1> SUFFICES ASSUME ~disturbed
             PROVE  AsSent(c)' /\ ProfileOf(c)' /\ MirrorOf(c)'
  BY <1>1 DEF LoneInv
<1>3. ProfileOf(c) /\ MirrorOf(c)
  BY DEF LoneInv
<1>4. ~Has(toNode, Requests) /\ ~Has(ring, Requests) /\ ~Has(Stream, Events)
  BY <1>1, LoneFlight
<1>5. \A A : Has(toNode', A) <=> Has(toNode, A) \/ req[c] \in A
  BY <1>1, <1>2, Appended
<1>6. Sub(Stream', Stream)
  BY <1>1, SubSelf, SubEmpty, StreamSub
<1>7. \A A : Has(Stream', A) => Has(Stream, A)
  BY <1>6 DEF Sub
<1>8. AsSent(c)'
  <2> SUFFICES ASSUME NEW r \in Requests, r # req[c]
               PROVE  ~Has(toNode', {r}) /\ ~Has(ring, {r})
    BY <1>1, SetsSame DEF AsSent
  <2> QED BY <1>4, <1>5 DEF Has
<1>9. profile = cap /\ ~Has(resp', AnyCap) /\ (Has(offering, AnyCap) => profile = cap)
  BY <1>1, <1>3, EmptyHas DEF ProfileOf, Awaiting
<1>10. ProfileOf(c)'
  BY <1>1, <1>2, <1>3, <1>7, <1>9, SetsSame DEF ProfileOf
<1>11. \A A \in SUBSET Events : ~Has(Stream', A)
  BY <1>4, <1>7 DEF Has
<1>12. ~Has(Stream', Events) /\ ~Has(Stream', Refusals)
  BY <1>11 DEF Refusals
<1>13. MirrorOf(c)'
  BY <1>1, <1>2, <1>3, <1>12, SetsSame DEF MirrorOf, Inside, Awaiting, HasSpreadingFactor
<1> QED BY <1>8, <1>10, <1>13

\* A reply taken: the caller leaves with what the node now runs with.
LEMMA TakeReplyLone ==
  ASSUME IInv, TypeOK', NEW c \in Callers, LoneInv(c), TakeReply(c)
  PROVE  LoneInv(c)'
<1> PICK e : e = Head(resp)
  OBVIOUS
<1>1. /\ UNCHANGED <<profile, mirror, req, offering, toHost, toNode, ring, reg, cap, disturbed>>
      /\ pc[c] = "wait" /\ resp # <<>> /\ resp' = Tail(resp) /\ Matches(c, e)
  BY DEF TakeReply, wireVars, nodeVars
<1>2. /\ TypeOK /\ e \in Events /\ e = Head(Stream) /\ Stream # <<>> /\ Stream' = Tail(Stream)
      /\ Stream \in Seq(Events) /\ resp \in Seq(Events)
  BY <1>1, StreamHead, StreamType DEF IInv
<1> SUFFICES ASSUME ~disturbed
             PROVE  AsSent(c)' /\ ProfileOf(c)' /\ MirrorOf(c)'
  BY <1>1 DEF LoneInv
<1>3. ProfileOf(c) /\ MirrorOf(c)
  BY DEF LoneInv
<1>4. Sub(Stream', Stream) /\ Sub(resp', resp) /\ Has(Stream, Events)
  BY <1>1, <1>2, SubTail, HeadHas
<1>5. \A A : (Has(Stream', A) => Has(Stream, A)) /\ (Has(resp', A) => Has(resp, A))
  BY <1>4 DEF Sub
<1>6. /\ pc'[c] \in {"idle", "mirror", "race", "install"}
      /\ pc'[c] = "mirror" => req[c].op = "freq"
      /\ pc'[c] = "idle" => req[c].op \notin {"freq", "phy"}
      /\ req[c].op = "phy" => learned'[c] = e.cap
      /\ pc'[c] \in {"race", "install"} => req[c].op = "phy"
  BY <1>2 DEF TakeReply, Finish, TypeOK, HostTypeOK
<1>7. req[c].op = "phy" => e.cap = cap /\ profile = cap
  <2> SUFFICES ASSUME req[c].op = "phy"
               PROVE  e.cap = cap /\ profile = cap
    OBVIOUS
  <2>1. e.typ = "CAP" /\ e.cap \in Caps
    BY <1>1, <1>2, EventCaps DEF Matches, Expect, AllOps
  <2>2. Has(resp, AnyCap) /\ Has(Stream, CapsOf(e.cap))
    BY <1>1, <1>2, <2>1, HeadHas DEF AnyCap, CapsOf
  <2> QED BY <1>3, <2>1, <2>2 DEF ProfileOf
<1>8. profile = cap
  BY <1>3, <1>7 DEF ProfileOf, Awaiting
<1>9. AsSent(c)'
  BY <1>6 DEF AsSent
<1>10. ProfileOf(c)'
  BY <1>1, <1>3, <1>5, <1>6, <1>7, <1>8, SetsSame DEF ProfileOf, Awaiting
<1>11. req[c].op = "freq" => reg.freq = req[c].val /\ pc'[c] = "mirror"
  <2>1. req[c].op = "freq" => pc' = [pc EXCEPT ![c] = "mirror"]
    BY DEF TakeReply
  <2> QED BY <1>1, <1>2, <1>3, <1>4, <2>1 DEF MirrorOf, Awaiting, TypeOK, HostTypeOK
<1>12. req[c].op = "mod" => reg.sf = mirror.sf
  BY <1>1, <1>3, <1>4 DEF MirrorOf, Awaiting, Inside
<1>13. MirrorOf(c)'
  BY <1>1, <1>3, <1>6, <1>11, <1>12 DEF MirrorOf, Inside, Awaiting, HasSpreadingFactor
<1> QED BY <1>9, <1>10, <1>13

\* Undisturbed, a refusal ends a set_phy_mode or an inject, and leaves the node as it was.
LEMMA TakeRefusalLone ==
  ASSUME IInv, TypeOK', NEW c \in Callers, LoneInv(c), TakeRefusal(c)
  PROVE  LoneInv(c)'
<1> PICK e : e = Head(resp)
  OBVIOUS
<1>1. /\ UNCHANGED <<profile, mirror, req, learned, offering, toHost, toNode, ring, reg, cap,
                     disturbed>>
      /\ pc[c] = "wait" /\ resp # <<>> /\ resp' = Tail(resp) /\ Refuses(c, e) /\ Finish(c, "err")
  BY DEF TakeRefusal, wireVars, nodeVars
<1>2. /\ TypeOK /\ e \in Events /\ e = Head(Stream) /\ Stream # <<>> /\ Stream' = Tail(Stream)
      /\ Stream \in Seq(Events) /\ resp \in Seq(Events)
  BY <1>1, StreamHead, StreamType DEF IInv
<1> SUFFICES ASSUME ~disturbed
             PROVE  AsSent(c)' /\ ProfileOf(c)' /\ MirrorOf(c)'
  BY <1>1 DEF LoneInv
<1>3. ProfileOf(c) /\ MirrorOf(c)
  BY DEF LoneInv
<1>4. Sub(Stream', Stream) /\ Sub(resp', resp)
  BY <1>1, <1>2, SubTail
<1>5. \A A : (Has(Stream', A) => Has(Stream, A)) /\ (Has(resp', A) => Has(resp, A))
  BY <1>4 DEF Sub
<1>6. pc'[c] = "idle"
  BY <1>1, <1>2 DEF Finish, TypeOK, HostTypeOK
<1>7. Has(Stream, Refusals)
  <2>1. e \in Refusals
    BY <1>1, <1>2 DEF Refuses, Refusals
  <2> QED BY <1>2, <2>1, HeadHas
<1>8. profile = cap /\ req[c].op \notin {"freq", "mod"}
  BY <1>1, <1>3, <1>7 DEF ProfileOf, MirrorOf, Awaiting
<1>9. AsSent(c)'
  BY <1>6 DEF AsSent
<1>10. ProfileOf(c)'
  BY <1>1, <1>3, <1>5, <1>6, <1>8, SetsSame DEF ProfileOf, Awaiting
<1>11. MirrorOf(c)'
  BY <1>1, <1>3, <1>6, <1>8 DEF MirrorOf, Inside, Awaiting
<1> QED BY <1>9, <1>10, <1>11

\* Waits that end in no reply end the quiet; a closed port is not a quiet one.
LEMMA GivenUpLone ==
  ASSUME IInv, NEW c \in Callers, LoneInv(c), Timeout(c) \/ Disconnected(c) \/ ExecOnClosed(c)
  PROVE  LoneInv(c)'
<1>1. Timeout(c) => disturbed'
  BY DEF Timeout
<1>2. Disconnected(c) \/ ExecOnClosed(c) => disturbed /\ disturbed' = disturbed
  BY DEF Disconnected, ExecOnClosed, IInv, Calm
<1> QED BY <1>1, <1>2 DEF LoneInv

LEMMA SkipLone ==
  ASSUME IInv, TypeOK', NEW c \in Callers, LoneInv(c), SkipEvent(c)
  PROVE  LoneInv(c)'
<1>1. /\ UNCHANGED <<pc, req, learned, mirror, profile, offering, toHost, toNode, ring, reg, cap,
                     disturbed>>
      /\ resp # <<>> /\ resp' = Tail(resp)
  BY DEF SkipEvent, hostVars, wireVars, nodeVars, histVars
<1>2. TypeOK /\ Sub(resp', resp)
  BY <1>1, SubTail DEF IInv, TypeOK, HostTypeOK
<1>3. Sub(Stream', Stream)
  BY <1>1, <1>2, SubSelf, StreamSub
<1>4. \A A : (Has(Stream', A) => Has(Stream, A)) /\ (Has(resp', A) => Has(resp, A))
  BY <1>2, <1>3 DEF Sub
<1> QED BY <1>1, <1>4, LoneFrame

\* set_channel and set_phy_mode after their reply.  Undisturbed there is nothing left on
\* the channel for the second look of recv_on to find.
LEMMA LaterLone ==
  ASSUME OneCaller, IInv, NEW c \in Callers, LoneInv(c),
         SetMirror(c) \/ Install(c) \/ RecvOn(c) \/ RecvOnCap(c) \/ RecvOnTimeout(c)
  PROVE  LoneInv(c)'
<1>1. /\ UNCHANGED <<req, offering, toHost, toNode, ring, reg, cap, disturbed>>
      /\ pc[c] \in {"mirror", "install", "race", "race_wait"} /\ TypeOK
  BY DEF SetMirror, Install, RecvOn, RecvOnCap, RecvOnTimeout, readVars, wireVars, nodeVars,
         histVars, IInv
<1> SUFFICES ASSUME ~disturbed
             PROVE  AsSent(c)' /\ ProfileOf(c)' /\ MirrorOf(c)'
  BY <1>1 DEF LoneInv
<1>2. ProfileOf(c) /\ MirrorOf(c)
  BY DEF LoneInv
<1>3. ~Has(Stream, Events) /\ profile = cap
  BY <1>1, <1>2, LoneFlight DEF ProfileOf, Awaiting
<1>4. resp = <<>>  \/ ~RecvOnCap(c)
  <2> SUFFICES ASSUME resp # <<>>, RecvOnCap(c)
               PROVE  FALSE
    OBVIOUS
  <2>1. Has(resp, Events)
    BY <1>1, HeadTail, HeadHas DEF TypeOK, HostTypeOK
  <2> QED BY <1>1, <1>3, <2>1, InStream
<1>5. ~RecvOnCap(c)
  BY <1>4 DEF RecvOnCap
<1>6. resp' = resp /\ Stream' = Stream
  BY <1>1, <1>5 DEF SetMirror, Install, RecvOn, RecvOnTimeout, readVars, Stream
<1>7. CASE SetMirror(c)
  <2>1. /\ mirror' = [mirror EXCEPT !.freq = req[c].val] /\ Finish(c, "ok") /\ pc[c] = "mirror"
        /\ profile' = profile
    BY <1>7 DEF SetMirror
  <2>2. pc'[c] = "idle" /\ mirror'.freq = req[c].val /\ mirror'.sf = mirror.sf /\ req[c].op = "freq"
    BY <1>1, <2>1 DEF Finish, TypeOK, HostTypeOK, StageTypeOK, Settings
  <2>3. AsSent(c)' /\ ProfileOf(c)'
    BY <1>1, <1>2, <1>3, <1>6, <2>1, <2>2, SetsSame DEF AsSent, ProfileOf, Awaiting
  <2>4. MirrorOf(c)'
    BY <1>1, <1>2, <2>1, <2>2 DEF MirrorOf, Inside, Awaiting
  <2> QED BY <2>3, <2>4
<1>8. CASE Install(c)
  <2>1. profile' = learned[c] /\ Finish(c, "ok") /\ pc[c] = "install" /\ mirror' = mirror
    BY <1>8 DEF Install
  <2>2. pc'[c] = "idle" /\ profile' = cap
    BY <1>1, <1>2, <2>1 DEF Finish, TypeOK, HostTypeOK, ProfileOf
  <2>3. AsSent(c)' /\ ProfileOf(c)'
    BY <1>1, <1>2, <1>6, <2>2, SetsSame DEF AsSent, ProfileOf
  <2>4. MirrorOf(c)'
    <3>1. mirror.freq = reg.freq /\ mirror.sf = reg.sf
      BY <1>2, <2>1 DEF MirrorOf, ProfileOf, Inside
    <3> QED BY <1>1, <2>1, <2>2, <3>1 DEF MirrorOf, Inside, Awaiting
  <2> QED BY <2>3, <2>4
<1>9. CASE RecvOn(c) \/ RecvOnTimeout(c)
  <2>1. UNCHANGED <<learned, mirror, profile>> /\ pc'[c] \in {"race_wait", "install"}
        /\ pc[c] \in {"race", "race_wait"}
    BY <1>1, <1>9 DEF RecvOn, RecvOnTimeout, TypeOK, HostTypeOK
  <2>2. AsSent(c)' /\ ProfileOf(c)'
    BY <1>1, <1>2, <1>3, <1>6, <2>1, SetsSame DEF AsSent, ProfileOf
  <2>3. MirrorOf(c)'
    BY <1>1, <1>2, <2>1 DEF MirrorOf, Inside, Awaiting, HasSpreadingFactor
  <2> QED BY <2>2, <2>3
<1> QED BY <1>5, <1>7, <1>8, <1>9

LEMMA CallerLone ==
  ASSUME OneCaller, IInv, TypeOK', NEW c \in Callers, LoneInv(c), Issue(c) \/ CallerStep(c)
  PROVE  LoneInv(c)'
BY BeginLone, SendModLone, ExecOnLone, TakeReplyLone, TakeRefusalLone, GivenUpLone, SkipLone,
   LaterLone DEF CallerStep

\* The reader stores the capability it is about to offer.
LEMMA ReaderLone ==
  ASSUME IInv, TypeOK', NEW c \in Callers, LoneInv(c), ReaderStep
  PROVE  LoneInv(c)'
<1>1. /\ UNCHANGED <<pc, req, learned, mirror, toNode, ring, reg, cap, disturbed>>
      /\ TypeOK /\ Stream' = Stream
      /\ resp \in Seq(Events) /\ offering \in Seq(Events) /\ toHost \in Seq(Events)
  BY StreamMoved, StreamType DEF ReaderStep, ReaderStoresCap, ReaderOffersCap, ReaderForwards,
       hostVars, wireVars, nodeVars, histVars, IInv
<1>2. CASE ReaderOffersCap
  <2>1. resp' = resp \o offering /\ offering' = <<>> /\ profile' = profile
    BY <1>2 DEF ReaderOffersCap, hostVars
  <2>2. \A A : Has(resp', A) \/ Has(offering', A) => Has(resp, A) \/ Has(offering, A)
    BY <1>1, <2>1, HasConcat, EmptyHas
  <2> QED BY <1>1, <2>1, <2>2, LoneFrame
<1> PICK e : e = Head(toHost)
  OBVIOUS
<1> SUFFICES ASSUME ~disturbed, ReaderStoresCap \/ ReaderForwards
             PROVE  AsSent(c)' /\ ProfileOf(c)' /\ MirrorOf(c)'
  BY <1>1, <1>2 DEF LoneInv, ReaderStep
<1>3. AsSent(c) /\ ProfileOf(c) /\ MirrorOf(c)
  BY DEF LoneInv
<1>4. AsSent(c)' /\ MirrorOf(c)'
  BY <1>1, <1>3, SetsSame DEF AsSent, MirrorOf, Inside, Awaiting, HasSpreadingFactor
<1>5. toHost # <<>> /\ e \in Events
  BY <1>1, HeadTail DEF ReaderStoresCap, ReaderForwards
<1>6. CASE ReaderStoresCap
  <2>1. e.typ = "CAP" /\ profile' = e.cap /\ e.cap \in Caps
    BY <1>5, <1>6, EventCaps DEF ReaderStoresCap
  <2>2. Has(Stream, CapsOf(e.cap))
    <3>1. Has(toHost, CapsOf(e.cap))
      BY <1>1, <1>5, <2>1, HeadHas DEF CapsOf
    <3> QED BY <1>1, <3>1, InStream
  <2>3. profile' = cap
    BY <1>3, <2>1, <2>2 DEF ProfileOf
  <2>4. ProfileOf(c)'
    BY <1>1, <1>3, <2>3, SetsSame DEF ProfileOf
  <2> QED BY <1>4, <2>4
<1>7. CASE ReaderForwards
  <2>1. /\ resp' = Append(resp, e) /\ e.typ # "CAP" /\ UNCHANGED <<offering, profile>>
    BY <1>7 DEF ReaderForwards, hostVars
  <2>2. Has(resp', AnyCap) => Has(resp, AnyCap)
    BY <1>1, <1>5, <2>1, Appended DEF AnyCap
  <2>3. ProfileOf(c)'
    BY <1>1, <1>3, <2>1, <2>2, SetsSame DEF ProfileOf, Awaiting
  <2> QED BY <1>4, <2>3
<1> QED BY <1>6, <1>7

LEMMA LineLone ==
  ASSUME IInv, TypeOK', NEW c \in Callers, LoneInv(c), LineStep \/ UNCHANGED vars
  PROVE  LoneInv(c)'
<1>1. CASE PortFails
  BY <1>1 DEF PortFails, LoneInv
<1>2. CASE LoseEvent \/ LoseCommand \/ UNCHANGED vars
  <2>1. /\ UNCHANGED <<pc, req, learned, mirror, profile, resp, offering, ring, reg, cap, disturbed>>
        /\ toNode' = toNode \/ (toNode # <<>> /\ toNode' = Tail(toNode))
        /\ toHost' = toHost \/ (toHost # <<>> /\ toHost' = Tail(toHost))
    BY <1>2 DEF LoseEvent, LoseCommand, vars, hostVars, readVars, wireVars, nodeVars, histVars
  <2>2. TypeOK /\ Sub(toNode', toNode) /\ Sub(toHost', toHost)
    BY <2>1, SubTail, SubSelf DEF IInv, TypeOK, NodeTypeOK
  <2>3. Sub(Stream', Stream)
    BY <2>1, <2>2, SubSelf, StreamSub
  <2>4. \A A : (Has(Stream', A) => Has(Stream, A)) /\ (Has(toNode', A) => Has(toNode, A))
    BY <2>2, <2>3 DEF Sub
  <2> QED BY <2>1, <2>4, LoneFrame
<1> QED BY <1>1, <1>2 DEF LineStep

LEMMA ArriveLone ==
  ASSUME IInv, NEW c \in Callers, LoneInv(c), Arrive
  PROVE  LoneInv(c)'
<1> PICK h : h = Head(toNode)
  OBVIOUS
<1>1. /\ UNCHANGED <<pc, req, learned, mirror, profile, resp, offering, toHost, reg, cap, disturbed>>
      /\ toNode # <<>> /\ toNode' = Tail(toNode)
      /\ ring' = ring \/ ring' = Append(ring, h)
      /\ toNode \in Seq(Requests) /\ ring \in Seq(Requests)
  BY CommandQueues DEF Arrive, hostVars, readVars
<1>2. h \in Requests
  BY <1>1, HeadTail
<1>3. \A A : Has(toNode, A) <=> h \in A \/ Has(toNode', A)
  BY <1>1, TakenFrom
<1>4. \A A : Has(ring', A) => Has(ring, A) \/ h \in A
  <2>1. \A A : Has(Append(ring, h), A) => Has(ring, A) \/ h \in A
    BY <1>1, <1>2, Appended
  <2> QED BY <1>1, <2>1
<1>5. Stream' = Stream
  BY <1>1 DEF Stream
<1> QED BY <1>1, <1>3, <1>4, <1>5, LoneFrame

\* Undisturbed, the command that is served is the one that is waited on, and the only
\* thing on its way.
LEMMA ServingLone ==
  ASSUME OneCaller, IInv, ~disturbed, NEW c \in Callers, LoneInv(c), NEW op, Serving(op),
         NEW evs \in Seq(Events), Answer(evs),
         UNCHANGED <<pc, req, resp, offering, toNode>>
  PROVE  /\ Awaiting(c, op) /\ Head(ring) = req[c] /\ slot = 0 /\ profile = cap
         /\ ~Has(toNode, Requests) /\ ~Has(ring', Requests) /\ AsSent(c)'
         /\ \A A \in SUBSET Events : ~Has(resp, A) /\ ~Has(offering, A)
         /\ \A A \in SUBSET Events : Has(Stream', A) => Has(evs, A)
<1> PICK h : h = Head(ring)
  OBVIOUS
<1>1. /\ ring # <<>> /\ h.op = op /\ ring' = Tail(ring) /\ toHost' = toHost \o evs
      /\ ring \in Seq(Requests) /\ TypeOK
  BY CommandQueues DEF Serving, Answer, IInv
<1>2. Has(ring, {h}) /\ Has(ring, Requests)
  BY <1>1, HeadTail, HeadHas
<1>3. /\ pc[c] = "wait" /\ h \in Requests /\ slot = 0
      /\ ~Has(toNode, Requests) /\ ~Has(ring', Requests) /\ ~Has(Stream, Events)
  BY <1>1, <1>2, LoneFlight
<1>4. h = req[c]
  BY <1>2, <1>3 DEF LoneInv, AsSent
<1>5. profile = cap
  BY <1>2 DEF LoneInv, ProfileOf
<1>6. \A A \in SUBSET Events : ~Has(Stream, A)
  BY <1>3 DEF Has
<1>7. \A A : Has(Stream', A) <=> Has(Stream, A) \/ Has(evs, A)
  BY <1>1, StreamAppend
<1>8. \A A \in SUBSET Events : ~Has(resp, A) /\ ~Has(offering, A)
  BY <1>1, <1>6, InStream
<1>9. AsSent(c)'
  <2> SUFFICES ASSUME NEW r \in Requests
               PROVE  ~Has(toNode, {r}) /\ ~Has(ring', {r})
    BY SetsSame DEF AsSent
  <2> QED BY <1>3 DEF Has
<1> QED BY <1>1, <1>3, <1>4, <1>5, <1>6, <1>7, <1>8, <1>9 DEF Awaiting

\* An answer that moves no setting and announces no capability.
LEMMA AnswerLone ==
  ASSUME OneCaller, IInv, NEW c \in Callers, LoneInv(c),
         NEW op, op \notin {"freq", "mod"}, Serving(op),
         UNCHANGED <<pc, req, learned, mirror, profile, resp, offering, toNode, reg, cap, disturbed>>,
         NEW evs \in Seq(Events), Answer(evs), ~disturbed => ~Has(evs, AnyCap)
  PROVE  LoneInv(c)'
<1> SUFFICES ASSUME ~disturbed
             PROVE  AsSent(c)' /\ ProfileOf(c)' /\ MirrorOf(c)'
  BY DEF LoneInv
<1>1. ProfileOf(c) /\ MirrorOf(c)
  BY DEF LoneInv
<1>2. /\ Awaiting(c, op) /\ profile = cap /\ AsSent(c)'
      /\ \A A \in SUBSET Events : Has(Stream', A) => Has(evs, A)
  BY ServingLone
<1>3. \A k : ~Has(Stream', CapsOf(k))
  BY <1>2 DEF Has, CapsOf, AnyCap
<1>4. ProfileOf(c)'
  BY <1>1, <1>2, <1>3, SetsSame DEF ProfileOf
<1>5. MirrorOf(c)'
  BY <1>1, <1>2 DEF MirrorOf, Inside, Awaiting
<1> QED BY <1>2, <1>4, <1>5

LEMMA ReplySays ==
  ASSUME TypeOK, NEW op, Serving(op), NEW typ \in EvTypes \ {"CAP"}, NEW ok \in BOOLEAN
  PROVE  /\ <<Reply(typ, Head(ring), ok)>> \in Seq(Events)
         /\ ~Has(<<Reply(typ, Head(ring), ok)>>, AnyCap)
         /\ typ \in {"TXDONE", "INFO"} => ~Has(<<Reply(typ, Head(ring), ok)>>, Refusals)
<1> PICK r : r = Head(ring)
  OBVIOUS
<1>1. r \in Requests
  BY ServingHead
<1>2. PICK x : x = Reply(typ, r, ok)
  OBVIOUS
<1>3. x \in Events /\ x.typ = typ
  BY <1>1, <1>2, RepliesAreEvents
<1>4. <<x>> \in Seq(Events) /\ x \notin AnyCap /\ (typ \in {"TXDONE", "INFO"} => x \notin Refusals)
  BY <1>3 DEF AnyCap, Refusals
<1>5. ~Has(<<x>>, AnyCap) /\ (typ \in {"TXDONE", "INFO"} => ~Has(<<x>>, Refusals))
  BY <1>4, OneHas
<1> QED BY <1>2, <1>4, <1>5

LEMMA HandleLone ==
  ASSUME OneCaller, IInv, NEW c \in Callers, LoneInv(c),
         HandleTx \/ HandleTxAt \/ RefuseTxAt \/ RefuseSetPhy
  PROVE  LoneInv(c)'
<1>0. /\ "TXDONE" \in EvTypes \ {"CAP"} /\ "UNSUPPORTED" \in EvTypes \ {"CAP"}
      /\ "PHY_ERR" \in EvTypes \ {"CAP"} /\ TypeOK
  BY DEF EvTypes, IInv
<1>1. /\ UNCHANGED <<pc, req, learned, mirror, profile, resp, offering, toNode, reg, cap, disturbed>>
      /\ \/ Serving("tx")
         \/ Serving("txat")
         \/ Serving("phy")
  BY DEF HandleTx, HandleTxAt, RefuseTxAt, RefuseSetPhy, NodeElse, hostVars, readVars
<1>2. CASE HandleTx
  <2>1. PICK ok \in BOOLEAN : Answer(<<Reply("TXDONE", Head(ring), ok)>>)
    BY <1>2 DEF HandleTx
  <2>2. Serving("tx")
    BY <1>2 DEF HandleTx
  <2>3. /\ <<Reply("TXDONE", Head(ring), ok)>> \in Seq(Events)
        /\ ~Has(<<Reply("TXDONE", Head(ring), ok)>>, AnyCap)
    BY <1>0, <2>2, ReplySays
  <2> QED BY <1>1, <2>1, <2>2, <2>3, AnswerLone
<1>3. CASE HandleTxAt \/ RefuseTxAt
  <2>1. Serving("txat")
    BY <1>3 DEF HandleTxAt, RefuseTxAt
  <2>2. PICK evs \in {<<>>, <<Reply("TXDONE", Head(ring), FALSE)>>,
                      <<Reply("UNSUPPORTED", Head(ring), FALSE)>>} : Answer(evs)
    BY <1>3 DEF HandleTxAt, RefuseTxAt
  <2>3. evs \in Seq(Events) /\ ~Has(evs, AnyCap)
    <3>1. <<>> \in Seq(Events) /\ ~Has(<<>>, AnyCap)
      BY EmptyHas
    <3>2. /\ <<Reply("TXDONE", Head(ring), FALSE)>> \in Seq(Events)
          /\ ~Has(<<Reply("TXDONE", Head(ring), FALSE)>>, AnyCap)
      BY <1>0, <2>1, ReplySays
    <3>3. /\ <<Reply("UNSUPPORTED", Head(ring), FALSE)>> \in Seq(Events)
          /\ ~Has(<<Reply("UNSUPPORTED", Head(ring), FALSE)>>, AnyCap)
      BY <1>0, <2>1, ReplySays
    <3> QED BY <2>2, <3>1, <3>2, <3>3
  <2> QED BY <1>1, <2>1, <2>2, <2>3, AnswerLone
<1>4. CASE RefuseSetPhy
  <2>1. Serving("phy") /\ Answer(Cancelled \o <<Reply("PHY_ERR", Head(ring), FALSE)>>)
    BY <1>4 DEF RefuseSetPhy
  <2> PICK evs : evs = Cancelled \o <<Reply("PHY_ERR", Head(ring), FALSE)>>
    OBVIOUS
  <2>2. evs \in Seq(Events)
    <3>1. ring # <<>> /\ Head(ring) \in Requests
      BY <1>0, <2>1, ServingHead
    <3>2. Cancelled \in Seq(Events) /\ <<Reply("PHY_ERR", Head(ring), FALSE)>> \in Seq(Events)
      BY <1>0, <2>1, <3>1, CancelledEvents, ReplySays
    <3> QED BY <3>2, Concatenated
  <2>3. ~disturbed => slot = 0
    BY <1>1, <2>1, <2>2, ServingLone
  <2>4. ~disturbed => evs = <<Reply("PHY_ERR", Head(ring), FALSE)>>
    <3>1. <<Reply("PHY_ERR", Head(ring), FALSE)>> \in Seq(Events)
      BY <1>0, <2>1, ReplySays
    <3>2. \A s \in Seq(Events) : <<>> \o s = s
      OBVIOUS
    <3>3. ~disturbed => Cancelled = <<>>
      BY <2>3 DEF Cancelled
    <3> QED BY <3>1, <3>2, <3>3
  <2>5. ~disturbed => ~Has(evs, AnyCap)
    BY <1>0, <2>1, <2>4, ReplySays
  <2> QED BY <1>1, <2>1, <2>2, <2>5, AnswerLone
<1> QED BY <1>2, <1>3, <1>4

\* CMD_SET_FREQ and CMD_SET_MOD: the radio moves, and the reply says so.
LEMMA SetKnobLone ==
  ASSUME OneCaller, IInv, NEW c \in Callers, LoneInv(c), HandleSetFreq \/ HandleSetMod
  PROVE  LoneInv(c)'
<1>0. "INFO" \in EvTypes \ {"CAP"} /\ "UNSUPPORTED" \in EvTypes \ {"CAP"} /\ TypeOK
  BY DEF EvTypes, IInv
<1>1. /\ UNCHANGED <<pc, req, learned, mirror, profile, resp, offering, toNode, cap, disturbed>>
      /\ reg \in Settings
  BY DEF HandleSetFreq, HandleSetMod, NodeElse, hostVars, readVars, IInv, TypeOK, NodeTypeOK
<1> SUFFICES ASSUME ~disturbed
             PROVE  AsSent(c)' /\ ProfileOf(c)' /\ MirrorOf(c)'
  BY <1>1 DEF LoneInv
<1>2. ProfileOf(c) /\ MirrorOf(c)
  BY DEF LoneInv
<1>3. PICK op \in {"freq", "mod"} :
        Serving(op) /\ (op = "freq" => HandleSetFreq) /\ (op = "mod" => HandleSetMod)
  BY DEF HandleSetFreq, HandleSetMod
<1>4. PICK typ \in {"INFO", "UNSUPPORTED"}, ok \in BOOLEAN : Answer(<<Reply(typ, Head(ring), ok)>>)
  BY DEF HandleSetFreq, HandleSetMod
<1> PICK evs : evs = <<Reply(typ, Head(ring), ok)>>
  OBVIOUS
<1>5. evs \in Seq(Events) /\ ~Has(evs, AnyCap)
  BY <1>0, <1>3, <1>4, ReplySays
<1>6. /\ Awaiting(c, op) /\ Head(ring) = req[c] /\ profile = cap /\ AsSent(c)'
      /\ \A A \in SUBSET Events : Has(Stream', A) => Has(evs, A)
  BY <1>1, <1>3, <1>4, <1>5, ServingLone
<1>7. \A k : ~Has(Stream', CapsOf(k))
  BY <1>5, <1>6 DEF Has, CapsOf, AnyCap
<1>8. ProfileOf(c)'
  BY <1>1, <1>2, <1>6, <1>7, SetsSame DEF ProfileOf
<1>9. op = "mod" => HasSpreadingFactor(cap)
  BY <1>2, <1>6 DEF MirrorOf, Inside, Awaiting
<1>10. Has(Stream', Refusals) => FALSE
  <2>1. Answer(<<Reply("INFO", Head(ring), TRUE)>>)
    BY <1>3, <1>9 DEF HandleSetFreq, HandleSetMod
  <2> PICK inf : inf = <<Reply("INFO", Head(ring), TRUE)>>
    OBVIOUS
  <2>2. inf \in Seq(Events) /\ ~Has(inf, Refusals)
    BY <1>0, <1>3, ReplySays
  <2>3. \A A \in SUBSET Events : Has(Stream', A) => Has(inf, A)
    BY <1>1, <1>3, <2>1, <2>2, ServingLone
  <2> QED BY <2>2, <2>3 DEF Refusals
<1>11. MirrorOf(c)'
  <2>1. CASE op = "freq"
    <3>1. reg'.freq = req[c].val /\ reg'.sf = reg.sf
      BY <1>1, <1>3, <1>6, <2>1 DEF HandleSetFreq, Settings
    <3> QED BY <1>1, <1>2, <1>6, <1>10, <2>1, <3>1, SetsSame DEF MirrorOf, Inside, Awaiting
  <2>2. CASE op = "mod"
    <3>1. reg'.sf = req[c].val /\ reg'.freq = reg.freq
      BY <1>1, <1>3, <1>6, <1>9, <2>2 DEF HandleSetMod, Settings
    <3> QED BY <1>1, <1>2, <1>6, <1>9, <1>10, <2>2, <3>1, SetsSame
         DEF MirrorOf, Inside, Awaiting, HasSpreadingFactor
  <2> QED BY <1>3, <2>1, <2>2
<1> QED BY <1>6, <1>8, <1>11

\* CMD_SET_PHY: the node switches, and the one capability on its way is the new one.
LEMMA SwitchLone ==
  ASSUME OneCaller, IInv, TypeOK', NEW c \in Callers, LoneInv(c), HandleSetPhy
  PROVE  LoneInv(c)'
<1> PICK k : k = cap'
  OBVIOUS
<1>1. /\ UNCHANGED <<pc, req, learned, mirror, profile, resp, offering, toNode, reg>>
      /\ Serving("phy") /\ TypeOK /\ k \in Caps
  BY DEF HandleSetPhy, NodeElse, hostVars, readVars, IInv, TypeOK, NodeTypeOK
<1> SUFFICES ASSUME ~disturbed, ~disturbed'
             PROVE  AsSent(c)' /\ ProfileOf(c)' /\ MirrorOf(c)'
  BY DEF LoneInv, HandleSetPhy
<1>2. ProfileOf(c) /\ MirrorOf(c)
  BY DEF LoneInv
<1>3. PICK x : x = [Reply("CAP", Head(ring), TRUE) EXCEPT !.cap = k]
  OBVIOUS
<1>4. Answer(Cancelled \o <<x>>)
  BY <1>3 DEF HandleSetPhy
<1>5. ring # <<>> /\ Head(ring) \in Requests
  BY <1>1, ServingHead
<1>6. x \in Events /\ x.typ = "CAP" /\ x.cap = k
  BY <1>1, <1>3, <1>5 DEF Reply, Events, EvTypes, Requests, TypeOK, NodeTypeOK
<1>7. Cancelled \in Seq(Events) /\ Cancelled \o <<x>> \in Seq(Events) /\ <<x>> \in Seq(Events)
  BY <1>1, <1>5, <1>6, CancelledEvents, HasPut
<1>8. /\ Awaiting(c, "phy") /\ slot = 0 /\ AsSent(c)'
      /\ ~Has(toNode, Requests) /\ ~Has(ring', Requests)
      /\ \A A \in SUBSET Events : ~Has(resp, A) /\ ~Has(offering, A)
      /\ \A A \in SUBSET Events : Has(Stream', A) => Has(Cancelled \o <<x>>, A)
  BY <1>1, <1>4, <1>7, ServingLone
<1>9. Cancelled \o <<x>> = <<x>>
  BY <1>7, <1>8 DEF Cancelled
<1>10. \A A \in SUBSET Events : Has(Stream', A) => x \in A
  BY <1>8, <1>9, OneHas
<1>11. /\ \A j \in Caps \ {k} : ~Has(Stream', CapsOf(j))
       /\ ~Has(Stream', Refusals)
       /\ ~Has(resp, AnyCap) /\ ~Has(offering, AnyCap)
  BY <1>6, <1>8, <1>10 DEF CapsOf, Refusals, AnyCap
<1>12. ProfileOf(c)'
  BY <1>1, <1>8, <1>11, SetsSame DEF ProfileOf, Awaiting
<1>13. MirrorOf(c)'
  BY <1>1, <1>2, <1>8 DEF MirrorOf, Inside, Awaiting
<1> QED BY <1>8, <1>12, <1>13

\* sched_service, and what the node airs of its own.
LEMMA AirLone ==
  ASSUME OneCaller, IInv, OnceInv, TypeOK', NEW c \in Callers, LoneInv(c),
         \/ SchedStage \/ SchedIssue \/ SchedDone
         \/ BeaconStart \/ BeaconDone \/ RelayStart \/ RelayDone
  PROVE  LoneInv(c)'
<1>1. CASE BeaconStart \/ RelayStart
  BY <1>1 DEF BeaconStart, RelayStart, LoneInv
<1>2. CASE BeaconDone \/ RelayDone
  BY <1>2 DEF BeaconDone, RelayDone, histVars, LoneInv, IInv, Calm
<1>3. CASE SchedStage \/ SchedIssue
  <2>1. UNCHANGED <<pc, req, learned, mirror, profile, resp, offering, toHost, toNode, ring, reg,
                    cap, disturbed>>
    BY <1>3 DEF SchedStage, SchedIssue, hostVars, readVars, wireVars, histVars
  <2>2. Stream' = Stream
    BY <2>1 DEF Stream
  <2> QED BY <2>1, <2>2, LoneFrame
<1>4. CASE SchedDone
  <2> SUFFICES ASSUME ~disturbed, ~disturbed'
               PROVE  AsSent(c)' /\ ProfileOf(c)' /\ MirrorOf(c)'
    BY <1>4 DEF LoneInv, SchedDone
  <2>1. /\ UNCHANGED <<pc, req, learned, mirror, profile, resp, offering, toNode, ring, reg, cap>>
        /\ airing = "sched" /\ TypeOK
    BY <1>4 DEF SchedDone, hostVars, readVars, IInv
  <2>2. AsSent(c) /\ ProfileOf(c) /\ MirrorOf(c)
    BY DEF LoneInv
  <2>3. slot # 0 /\ slot = req[c].id /\ pc[c] = "wait" /\ ~Has(Stream, Events)
    BY <2>1, LoneFlight DEF IInv, Calm
  <2>4. req[c].op = "txat"
    BY <2>3 DEF OnceInv, Known
  <2>5. PICK ok \in BOOLEAN : toHost' = toHost \o <<[Unasked("TXDONE", ok) EXCEPT !.id = slot]>>
    BY <1>4 DEF SchedDone
  <2>6. PICK d : d = [Unasked("TXDONE", ok) EXCEPT !.id = slot]
    OBVIOUS
  <2>7. d \in Events /\ d.typ = "TXDONE" /\ <<d>> \in Seq(Events)
    <3> PICK k : k = cap
      OBVIOUS
    <3>1. k \in Caps
      BY <2>1 DEF TypeOK, NodeTypeOK
    <3>2. d \in Events /\ d.typ = "TXDONE"
      BY <2>1, <2>6, <3>1, UnaskedEvents
    <3> QED BY <3>2
  <2>8. \A A : Has(Stream', A) <=> Has(Stream, A) \/ d \in A
    <3>1. toHost' = toHost \o <<d>>
      BY <2>5, <2>6
    <3> QED BY <2>1, <2>7, <3>1, StreamAppend, OneHas
  <2>9. \A k : ~Has(Stream', CapsOf(k))
    <3>1. \A k : d \notin CapsOf(k) /\ CapsOf(k) \subseteq Events
      BY <2>7 DEF CapsOf
    <3>2. \A A \in SUBSET Events : ~Has(Stream, A)
      BY <2>3 DEF Has
    <3> QED BY <2>8, <3>1, <3>2
  <2>10. AsSent(c)'
    BY <2>1, <2>2, SetsSame DEF AsSent
  <2>11. ProfileOf(c)'
    BY <2>1, <2>2, <2>4, <2>9, SetsSame DEF ProfileOf, Awaiting
  <2>12. MirrorOf(c)'
    BY <2>1, <2>2, <2>3, <2>4 DEF MirrorOf, Inside, Awaiting
  <2> QED BY <2>10, <2>11, <2>12
<1> QED BY <1>1, <1>2, <1>3, <1>4

LEMMA NextLone ==
  ASSUME OneCaller, IInv, OnceInv, TypeOK', NEW c \in Callers, LoneInv(c), [Next]_vars
  PROVE  LoneInv(c)'
<1>1. ASSUME NEW d \in Callers, Issue(d) \/ CallerStep(d)
      PROVE  LoneInv(c)'
  <2>1. d = c
    BY DEF OneCaller
  <2> QED BY <1>1, <2>1, CallerLone
<1>2. CASE NodeStep
  BY <1>2, ArriveLone, HandleLone, SetKnobLone, SwitchLone, AirLone DEF NodeStep
<1> QED BY <1>1, <1>2, ReaderLone, LineLone DEF Next

Lone == \A c \in Callers : LoneInv(c)

LEMMA InitLone == Init => Lone
<1> SUFFICES ASSUME Init, NEW c \in Callers
             PROVE  LoneInv(c)
  BY DEF Lone
<1>1. /\ toNode = <<>> /\ ring = <<>> /\ Stream = <<>> /\ resp = <<>> /\ offering = <<>>
      /\ pc[c] = "idle" /\ mirror = reg /\ profile = cap
  BY DEF Init, Stream
<1>2. \A A : ~Has(<<>>, A)
  BY EmptyHas
<1> QED BY <1>1, <1>2 DEF LoneInv, AsSent, ProfileOf, MirrorOf, Inside, Awaiting

\* What one caller believes of an undisturbed node, at every moment.
THEOREM LoneInvariant ==
  ASSUME OneCaller
  PROVE  Spec => []Lone
<1>1. IInv /\ IInv' /\ OnceInv /\ Lone /\ [Next]_vars => Lone'
  BY NextLone DEF Lone, IInv
<1> QED BY <1>1, InitLone, LinkInvariant, OnceInvariant, PTL DEF Spec

\* The profile that is stored describes the node whenever the link is quiet.
THEOREM QuietProfile ==
  ASSUME OneCaller
  PROVE  Spec => []QuietProfileIsCurrent
<1>1. Lone => QuietProfileIsCurrent
  BY DEF OneCaller, Lone, LoneInv, ProfileOf, Awaiting, QuietProfileIsCurrent, Quiet
<1> QED BY <1>1, LoneInvariant, PTL

\* A caller that is woken by its EVT_CAP finds a profile no older than that capability.
THEOREM WokenCaller ==
  ASSUME OneCaller
  PROVE  Spec => []WokenCallerSeesCap
<1>1. Lone /\ TypeOK => WokenCallerSeesCap
  <2> SUFFICES ASSUME Lone, TypeOK, ~disturbed, NEW c \in Callers, pc[c] = "install"
               PROVE  profile.ver >= learned[c].ver
    BY DEF WokenCallerSeesCap
  <2>1. ProfileOf(c)
    BY DEF Lone, LoneInv
  <2>2. profile = cap /\ learned[c] = cap
    BY <2>1 DEF ProfileOf, Awaiting
  <2>3. profile.ver \in Nat
    BY DEF TypeOK, HostTypeOK, Caps
  <2>4. profile.ver >= profile.ver
    BY <2>3
  <2> QED BY <2>2, <2>4
<1> QED BY <1>1, LoneInvariant, TypeCorrect, PTL

\* The mirror that params() reads is what the radio runs with whenever the link is quiet.
THEOREM QuietMirror ==
  ASSUME OneCaller
  PROVE  Spec => []QuietMirrorIsLive
<1>1. Lone /\ TypeOK => QuietMirrorIsLive
  <2> SUFFICES ASSUME Lone, TypeOK, Quiet, ~disturbed
               PROVE  mirror = reg
    BY DEF QuietMirrorIsLive
  <2>1. mirror.freq = reg.freq /\ mirror.sf = reg.sf
    BY DEF OneCaller, Lone, LoneInv, MirrorOf, Inside, Quiet
  <2>2. mirror \in Settings /\ reg \in Settings
    BY DEF TypeOK, HostTypeOK, NodeTypeOK
  <2> QED BY <2>1, <2>2 DEF Settings
<1> QED BY <1>1, LoneInvariant, TypeCorrect, PTL
=============================================================================
