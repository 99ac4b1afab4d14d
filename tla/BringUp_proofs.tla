---------------------------- MODULE BringUp_proofs ----------------------------
(* Theorems about BringUp, for every plan, part and request, and at the end about *)
(* LeaseGrid, for every grid, hash and time: the two contracts of the crate that *)
(* no radio's code enters.                                                       *)
EXTENDS BringUp, LeaseGrid, FiniteSetTheorems, WellFoundedInduction, SequenceTheorems, TLAPS

----------------------------------------------------------------------------
(* The arguments of a run.                                                 *)

\* The parts of a call that the proofs use, typed.
LEMMA RequestType ==
  ASSUME NEW c \in Requests
  PROVE  /\ c.steps \in Seq(Rungs)
         /\ c.asserts \in Seq([id : AssertIds, severity : {"Warn", "Fatal"}])
         /\ c.role \in Roles /\ c.proof \in Proofs
BY CallsAssumption DEF Calls

\* An index of a sequence within its length.
LEMMA SeqIndex ==
  ASSUME NEW S, NEW s \in Seq(S), NEW i \in Nat \ {0}, i <= Len(s)
  PROVE  i \in 1 .. Len(s) /\ s[i] \in S
OBVIOUS

\* Plans and readbacks are finite lists.
LEMMA PlanLength ==
  ASSUME NEW c \in Requests
  PROVE  Len(c.steps) \in Nat /\ Len(c.asserts) \in Nat
<1>1. \A S : \A s \in Seq(S) : Len(s) \in Nat
  OBVIOUS
<1> QED BY <1>1, RequestType, Zenon

\* A set of numbers has a smallest one.
LEMMA LeastNumber ==
  ASSUME NEW S \in SUBSET Nat, S # {}
  PROVE  \E n \in S : \A m \in S : n <= m
<1>1. PICK R : IsWellFoundedOn(R, Nat) /\ R = {ss \in Nat \X Nat : ss[1] < ss[2]}
  BY NatLessThanWellFounded, Zenon DEF OpToRel
<1>2. PICK n \in S : \A m \in S : <<m, n>> \notin R
  BY <1>1, WFMin, Zenon
<1>3. \A m \in S : ~ (m < n)
  BY <1>1, <1>2
<1> QED BY <1>2, <1>3

\* LastRung, the cut of a deviation that resolves, is a rung of the plan or none.
LEMMA LastRungType ==
  ASSUME NEW c \in Requests, Resolves(c)
  PROVE  LastRung(c) \in 0 .. Len(c.steps)
<1> DEFINE N == Len(c.steps)
           Within(m) == \A e \in EditsOf(c, "stop-after") :
                          \E i \in Labelled(c.steps, e.arg) : m <= i
           Above == {k \in Nat : k <= N /\ Within(N - k)}
<1>1. N \in Nat
  BY RequestType, LenProperties
<1>2. Within(0)
  <2>1. c.steps \in Seq(Rungs)
    BY RequestType
  <2> SUFFICES ASSUME NEW e \in EditsOf(c, "stop-after")
               PROVE  \E i \in Labelled(c.steps, e.arg) : 0 <= i
    OBVIOUS
  <2>2. PICK i \in Labelled(c.steps, e.arg) : TRUE
    BY Zenon DEF Resolves, EditsOf
  <2>3. i \in Nat
    BY <2>1, <2>2, LenProperties DEF Labelled
  <2> QED BY <2>2, <2>3
<1> HIDE DEF Within, N
<1>3. N \in Above
  <2>1. N - N = 0
    BY <1>1
  <2> QED BY <2>1, <1>1, <1>2
<1>4. PICK k \in Above : \A m \in Above : k <= m
  BY <1>3, LeastNumber, Above \in SUBSET Nat
<1>5. N - k \in 0 .. N /\ Within(N - k)
  BY <1>1, <1>4
<1>6. ASSUME NEW m \in 0 .. N, Within(m) PROVE m <= N - k
  <2>1. N - m \in Nat /\ N - m <= N /\ N - (N - m) = m
    BY <1>1
  <2>2. Within(N - (N - m))
    BY <2>1, <1>6
  <2>3. N - m \in Above
    BY <2>1, <2>2
  <2> QED BY <2>3, <1>4, <1>1
<1>7. \E n \in 0 .. N : Within(n) /\ \A m \in 0 .. N : Within(m) => m <= n
  BY <1>5, <1>6
<1> QED BY <1>7 DEF LastRung, Within, N

\* Position finds a rung of the name if the plan has one, the first of them.
LEMMA PositionIsFirst ==
  ASSUME NEW plan \in Seq(Rungs), NEW id, Position(plan, id) # 0
  PROVE  /\ Position(plan, id) \in DOMAIN plan
         /\ plan[Position(plan, id)].id = id
         /\ \A j \in 1 .. Position(plan, id) - 1 : plan[j].id # id
<1> DEFINE At == {i \in DOMAIN plan : plan[i].id = id}
<1>1. At \in SUBSET Nat /\ DOMAIN plan = 1 .. Len(plan) /\ Len(plan) \in Nat
  BY LenProperties
<1>2. At # {}
  BY Zenon DEF Position
<1>3. PICK i \in At : \A m \in At : i <= m
  BY <1>1, <1>2, LeastNumber
<1>4. \A j \in 1 .. i - 1 : plan[j].id # id
  BY <1>1, <1>3
<1>5. Position(plan, id) =
        CHOOSE n \in DOMAIN plan :
          plan[n].id = id /\ \A j \in 1 .. n - 1 : plan[j].id # id
  BY <1>3, Zenon DEF Position
<1> QED BY <1>3, <1>4, <1>5, Zenon

----------------------------------------------------------------------------
(* Type correctness.                                                       *)

\* The rung run_plan has come to is a rung of the plan, and has a record.
LEMMA RungType ==
  ASSUME TypeOK, AtRung
  PROVE  /\ at \in 1 .. Len(call.steps) /\ Rung \in Rungs
         /\ \A out \in Outcomes : Record(out) \in Records
<1>1. call.steps \in Seq(Rungs) /\ at \in Nat \ {0} /\ at <= Len(call.steps)
  BY RequestType DEF TypeOK, AtRung
<1>2. at \in 1 .. Len(call.steps) /\ Rung \in Rungs
  BY <1>1, SeqIndex, Zenon DEF Rung
<1> QED BY <1>2 DEF Rungs, Record, Records

\* The readback it has come to is a readback of the part.
LEMMA AssertType ==
  ASSUME TypeOK, pc = "assert", at <= Len(call.asserts)
  PROVE  /\ at \in 1 .. Len(call.asserts)
         /\ call.asserts[at] \in [id : AssertIds, severity : {"Warn", "Fatal"}]
<1>1. /\ call.asserts \in Seq([id : AssertIds, severity : {"Warn", "Fatal"}])
      /\ at \in Nat \ {0}
  BY RequestType DEF TypeOK
<1> QED BY <1>1, SeqIndex, Zenon

\* A deviation that resolves skips rungs of the plan only.
LEMMA SkipType ==
  ASSUME NEW c \in Requests, Resolves(c)
  PROVE  {e.arg : e \in EditsOf(c, "skip")} \subseteq StepIds
<1> SUFFICES ASSUME NEW e \in EditsOf(c, "skip") PROVE e.arg \in StepIds
  OBVIOUS
<1>1. c.steps \in Seq(Rungs)
  BY RequestType
<1>2. Position(c.steps, e.arg) # 0
  BY Zenon DEF Resolves, EditsOf
<1>3. /\ Position(c.steps, e.arg) \in DOMAIN c.steps
      /\ c.steps[Position(c.steps, e.arg)].id = e.arg
  BY <1>1, <1>2, PositionIsFirst
<1>4. c.steps[Position(c.steps, e.arg)] \in Rungs
  BY <1>1, <1>3, LenProperties, ElementOfSeq
<1> QED BY <1>3, <1>4 DEF Rungs

LEMMA InitTypeOK == Init => TypeOK
<1> SUFFICES ASSUME Init PROVE TypeOK
  OBVIOUS
<1>1. Len(call.steps) \in Nat
  BY PlanLength DEF Init
<1>2. <<>> \in Seq(Records) /\ <<>> \in Seq(BOOLEAN)
  OBVIOUS
<1>3. at \in Nat \ {0} /\ cut \in 0 .. Len(call.steps)
  BY <1>1 DEF Init
<1> QED BY <1>2, <1>3 DEF Init, TypeOK

\* What a rung that ran, or was removed, appends to the report.
LEMMA AppendRecord ==
  ASSUME TypeOK, AtRung, NEW out \in Outcomes
  PROVE  /\ Append(steps, Record(out)) \in Seq(Records)
         /\ Append(ran, Record(out)) \in Seq(Records)
BY RungType, AppendProperties DEF TypeOK

LEMMA NextTypeOK == TypeOK /\ [Next]_vars => TypeOK'
<1> SUFFICES ASSUME TypeOK, [Next]_vars PROVE TypeOK'
  OBVIOUS
<1>1. CASE UNCHANGED vars
  BY <1>1 DEF TypeOK, vars
<1>2. CASE CheckPlan \/ ValidateProof
  BY <1>2 DEF TypeOK, CheckPlan, ValidateProof, Fail, report
<1>9. CASE RungsDone \/ AssertsDone
  BY <1>9 DEF TypeOK, RungsDone, AssertsDone, report
<1>3. CASE Resolve
  <2>1. CASE Resolves(call)
    <3>1. LastRung(call) \in 0 .. Len(call.steps)
      BY <2>1, LastRungType DEF TypeOK
    <3>2. {e.arg : e \in EditsOf(call, "skip")} \subseteq StepIds
      BY <2>1, SkipType DEF TypeOK
    <3> QED BY <1>3, <2>1, <3>1, <3>2 DEF TypeOK, Resolve, report
  <2>2. CASE ~ Resolves(call)
    BY <1>3, <2>2 DEF TypeOK, Resolve, Fail, report
  <2> QED BY <2>1, <2>2
<1>4. CASE SkipRung
  <2>1. Append(steps, Record("removed")) \in Seq(Records)
    BY <1>4, AppendRecord DEF SkipRung, Outcomes
  <2> QED BY <1>4, <2>1 DEF TypeOK, SkipRung
<1>5. CASE RunRung
  <2>1. PICK out \in {"done", "skipped"} \cup Facts \cup GuardNames :
          /\ ran' = Append(ran, Record(out))
          /\ steps' = Append(steps, Record(out))
          /\ facts' = facts \cup ({out} \cap Facts)
          /\ guards' = guards \cup ({out} \cap GuardNames)
    BY <1>5 DEF RunRung
  <2>2. ran' \in Seq(Records) /\ steps' \in Seq(Records)
    BY <1>5, <2>1, AppendRecord DEF RunRung, Outcomes
  <2>3. facts' \subseteq Facts /\ guards' \subseteq GuardNames
    BY <2>1 DEF TypeOK
  <2> QED BY <1>5, <2>2, <2>3 DEF TypeOK, RunRung
<1>6. CASE RungFails
  <2>1. ran' \in Seq(Records) /\ steps' \in Seq(Records)
    BY <1>6, AppendRecord DEF RungFails, Outcomes
  <2>2. Rung.id \in StepIds
    BY <1>6, RungType DEF RungFails, Rungs
  <2> QED BY <1>6, <2>1, <2>2 DEF TypeOK, RungFails, Fail
<1>7. CASE ReadAssert
  <2>1. call.asserts[at].id \in AssertIds
    BY <1>7, AssertType DEF ReadAssert, TypeOK
  <2>2. asserts' \in Seq(BOOLEAN)
    BY <1>7 DEF ReadAssert, TypeOK
  <2>3. at' \in Nat \ {0} /\ pc' \in {"assert", "down"} /\ guards' \subseteq GuardNames
    BY <1>7 DEF ReadAssert, TypeOK, Fail
  <2>4. warnings' \subseteq StepIds \cup AssertIds \cup {"tx_proof"}
    BY <1>7, <2>1 DEF ReadAssert, TypeOK
  <2> QED BY <1>7, <2>2, <2>3, <2>4 DEF TypeOK, ReadAssert
<1>8. CASE NotAsked \/ AskWitness \/ NoInstrument \/ NoProber \/ Probe
  BY <1>8 DEF TypeOK, NotAsked, AskWitness, NoInstrument, NoProber, Probe, Answer, Fail
<1> QED
  BY <1>1, <1>2, <1>3, <1>4, <1>5, <1>6, <1>7, <1>8, <1>9 DEF Next

\* The report and the run's own state keep their types (run_plan), whatever the
\* plan, the part and the request.
THEOREM TypeCorrect == Spec => []TypeOK
BY InitTypeOK, NextTypeOK, PTL DEF Spec

----------------------------------------------------------------------------
(* What a transmitter that comes up has been asked.                        *)

\* validate_proof has let the request through.
Validated == pc \in {"resolve", "rung", "assert", "tx"} => Answerable(call)

LEMMA InitExamined == Init => Validated /\ TransmitterExamined
BY DEF Init, Validated, TransmitterExamined

LEMMA NextExamined ==
  TypeOK /\ Validated /\ TransmitterExamined /\ [Next]_vars
    => Validated' /\ TransmitterExamined'
<1> SUFFICES ASSUME TypeOK, Validated, TransmitterExamined, [Next]_vars
             PROVE  Validated' /\ TransmitterExamined'
  OBVIOUS
<1> USE DEF Validated, TransmitterExamined
<1>1. CASE UNCHANGED vars
  BY <1>1 DEF vars, Answerable
<1>2. CASE CheckPlan \/ ValidateProof \/ Resolve
  BY <1>2 DEF CheckPlan, ValidateProof, Resolve, Fail, Answerable
<1>3. CASE SkipRung \/ RunRung \/ RungsDone \/ AssertsDone
  BY <1>3 DEF SkipRung, RunRung, RungsDone, AssertsDone, AtRung, Answerable
<1>4. CASE RungFails
  BY <1>4 DEF RungFails, AtRung, Fail, Answerable
<1>5. CASE ReadAssert
  BY <1>5 DEF ReadAssert, Fail, Answerable
<1>6. CASE NotAsked
  BY <1>6 DEF NotAsked, Answer, Answerable
<1>7. CASE AskWitness
  BY <1>7 DEF AskWitness, Answer, Fail, Answerable, ByWitness
<1>8. CASE NoInstrument
  BY <1>8 DEF NoInstrument, Answer, Fail, Answerable, ByInstrument
<1>9. CASE NoProber
  BY <1>9 DEF NoProber, Answer, Fail, Answerable, ByInstrument, Hard
<1>10. CASE Probe
  BY <1>10 DEF Probe, Answer, Fail, Answerable, ByInstrument, Hard
<1> QED
  BY <1>1, <1>2, <1>3, <1>4, <1>5, <1>6, <1>7, <1>8, <1>9, <1>10 DEF Next

\* LAW 4 for every plan, part and request: a transmitter that comes up was asked,
\* a hard gate passed on its own proof, and a refutation was warned about
\* (validate_proof, tx_proof).
THEOREM Examined == Spec => []TransmitterExamined
BY InitExamined, NextExamined, TypeCorrect, PTL DEF Spec

----------------------------------------------------------------------------
(* What the report says of effects and losses.                             *)

\* A record appended to a report is the one that is new in it.
LEMMA RangeAppend ==
  ASSUME NEW S, NEW s \in Seq(S), NEW x
  PROVE  Range(Append(s, x)) = Range(s) \cup {x}
<1>1. /\ Len(s) \in Nat /\ DOMAIN s = 1 .. Len(s)
      /\ DOMAIN Append(s, x) = 1 .. Len(s) + 1
      /\ \A i \in 1 .. Len(s) : Append(s, x)[i] = s[i]
      /\ Append(s, x)[Len(s) + 1] = x
  OBVIOUS
<1> QED BY <1>1 DEF Range

\* How the rungs of a report ended.
Outs(s) == {r.out : r \in Range(s)}

LEMMA OutsAppend ==
  ASSUME NEW s \in Seq(Records), NEW x
  PROVE  Outs(Append(s, x)) = Outs(s) \cup {x.out}
BY RangeAppend DEF Outs

LEMMA OutsEmpty == Outs(<<>>) = {}
BY DEF Outs, Range

\* EffectsAreReported while the run is under way.
Effects ==
  /\ facts = Outs(ran) \cap Facts
  /\ guards = IF pc = "down" THEN {} ELSE Outs(steps) \cap GuardNames

LEMMA InitEffects == Init => Effects
BY OutsEmpty DEF Init, Effects

LEMMA NextEffects == TypeOK /\ Effects /\ [Next]_vars => Effects'
<1> SUFFICES ASSUME TypeOK, Effects, [Next]_vars PROVE Effects'
  OBVIOUS
<1>0. /\ steps \in Seq(Records) /\ ran \in Seq(Records)
      /\ \A out : Record(out).out = out
  BY DEF TypeOK, Record
<1>1. CASE UNCHANGED <<facts, ran, steps>> /\ (Fail \/ (UNCHANGED guards /\ pc # "down" /\ pc' # "down"))
  BY <1>1 DEF Effects, Fail
<1>2. CASE SkipRung
  <2>1. steps' = Append(steps, Record("removed"))
    BY <1>2 DEF SkipRung
  <2>2. Outs(steps') = Outs(steps) \cup {"removed"}
    BY <1>0, <2>1, OutsAppend
  <2>3. Outs(steps') \cap GuardNames = Outs(steps) \cap GuardNames
    BY <2>2, OutcomesAssumption
  <2> QED BY <1>2, <2>3 DEF Effects, SkipRung, AtRung
<1>3. CASE RunRung
  <2>1. PICK out \in {"done", "skipped"} \cup Facts \cup GuardNames :
          /\ ran' = Append(ran, Record(out))
          /\ steps' = Append(steps, Record(out))
          /\ facts' = facts \cup ({out} \cap Facts)
          /\ guards' = guards \cup ({out} \cap GuardNames)
    BY <1>3 DEF RunRung
  <2>2. Outs(ran') = Outs(ran) \cup {out} /\ Outs(steps') = Outs(steps) \cup {out}
    BY <1>0, <2>1, OutsAppend
  <2>3. pc = "rung" /\ pc' = "rung"
    BY <1>3 DEF RunRung, AtRung
  <2> QED BY <2>1, <2>2, <2>3 DEF Effects
<1>4. CASE RungFails
  <2>1. ran' = Append(ran, Record("failed")) /\ steps' = Append(steps, Record("failed"))
    BY <1>4 DEF RungFails
  <2>2. Outs(ran') = Outs(ran) \cup {"failed"} /\ Outs(steps') = Outs(steps) \cup {"failed"}
    BY <1>0, <2>1, OutsAppend
  <2>3. /\ Outs(ran') \cap Facts = Outs(ran) \cap Facts
        /\ Outs(steps') \cap GuardNames = Outs(steps) \cap GuardNames
    BY <2>2, OutcomesAssumption
  <2>4. pc = "rung" /\ UNCHANGED facts /\ (Fail \/ UNCHANGED <<pc, guards>>)
    BY <1>4 DEF RungFails, AtRung
  <2> QED BY <2>3, <2>4 DEF Effects, Fail
<1>5. CASE UNCHANGED vars
  BY <1>5 DEF Effects, vars
<1>6. CASE CheckPlan \/ ValidateProof \/ Resolve \/ RungsDone \/ AssertsDone \/ ReadAssert
  BY <1>1, <1>6
     DEF CheckPlan, ValidateProof, Resolve, RungsDone, AssertsDone, ReadAssert, report
<1>7. CASE NotAsked \/ AskWitness \/ NoInstrument \/ NoProber \/ Probe
  BY <1>1, <1>7 DEF NotAsked, AskWitness, NoInstrument, NoProber, Probe, Answer
<1> QED BY <1>2, <1>3, <1>4, <1>5, <1>6, <1>7 DEF Next

\* LAW 6 on every way out, for every plan: the report's facts are those the rungs
\* that ran established, and guards outlive a success only, as reported (run_plan).
THEOREM EffectsReported == Spec => []EffectsAreReported
<1>1. Effects => EffectsAreReported
  BY DEF Effects, EffectsAreReported, Outs
<1> QED BY <1>1, InitEffects, NextEffects, TypeCorrect, PTL DEF Spec

\* How far the readbacks have come.
ReadSoFar ==
  /\ pc \in {"check", "proof", "resolve", "rung"} => asserts = <<>>
  /\ pc = "assert" => Len(asserts) = at - 1
\* NothingLostSilently, for the rungs and for the readbacks.
RungLosses ==
  \A s \in Range(ran) : s.out = "failed" /\ s.class # "Required" => s.id \in warnings
ReadLosses ==
  \A i \in DOMAIN asserts : ~asserts[i] =>
    IF call.asserts[i].severity = "Fatal" THEN pc = "down"
    ELSE call.asserts[i].id \in warnings

LEMMA InitLosses == Init => ReadSoFar /\ RungLosses /\ ReadLosses
BY DEF Init, ReadSoFar, RungLosses, ReadLosses, Range

LEMMA NextRungLosses == TypeOK /\ RungLosses /\ [Next]_vars => RungLosses'
<1> SUFFICES ASSUME TypeOK, RungLosses, [Next]_vars PROVE RungLosses'
  OBVIOUS
<1>0. ran \in Seq(Records)
  BY DEF TypeOK
<1>1. CASE UNCHANGED ran /\ warnings \subseteq warnings'
  BY <1>1 DEF RungLosses
<1>2. CASE RunRung
  <2>1. PICK out \in {"done", "skipped"} \cup Facts \cup GuardNames :
          ran' = Append(ran, Record(out))
    BY <1>2 DEF RunRung
  <2>2. Range(ran') = Range(ran) \cup {Record(out)} /\ Record(out).out # "failed"
    BY <1>0, <2>1, RangeAppend, OutcomesAssumption DEF Record
  <2>3. UNCHANGED warnings
    BY <1>2 DEF RunRung
  <2> QED BY <2>2, <2>3 DEF RungLosses
<1>3. CASE RungFails
  <2>1. Range(ran') = Range(ran) \cup {Record("failed")}
    BY <1>0, <1>3, RangeAppend DEF RungFails
  <2>2. /\ Record("failed").id = Rung.id /\ Record("failed").class = Rung.class
        /\ warnings \subseteq warnings'
        /\ Rung.class # "Required" => Rung.id \in warnings'
    BY <1>3 DEF Record, RungFails
  <2> QED BY <2>1, <2>2 DEF RungLosses
<1>4. CASE UNCHANGED vars
  BY <1>1, <1>4 DEF vars
<1>5. CASE CheckPlan \/ ValidateProof \/ Resolve \/ SkipRung \/ RungsDone \/ AssertsDone
           \/ ReadAssert
  BY <1>1, <1>5
     DEF CheckPlan, ValidateProof, Resolve, SkipRung, RungsDone, AssertsDone, ReadAssert, report
<1>6. CASE NotAsked \/ AskWitness \/ NoInstrument \/ NoProber \/ Probe
  BY <1>1, <1>6 DEF NotAsked, AskWitness, NoInstrument, NoProber, Probe, Answer
<1> QED BY <1>2, <1>3, <1>4, <1>5, <1>6 DEF Next

LEMMA NextReadLosses ==
  TypeOK /\ ReadSoFar /\ ReadLosses /\ [Next]_vars => ReadSoFar' /\ ReadLosses'
<1> SUFFICES ASSUME TypeOK, ReadSoFar, ReadLosses, [Next]_vars
             PROVE  ReadSoFar' /\ ReadLosses'
  OBVIOUS
<1>1. CASE /\ UNCHANGED <<asserts, call>> /\ warnings \subseteq warnings'
           /\ pc # "down" /\ (pc = "assert" => pc' \in {"tx", "down"})
           /\ pc \in {"tx", "up"} => pc' \in {"up", "down"}
           /\ pc \in {"check", "proof", "resolve", "rung"} => pc' # "assert" \/ at' = 1
  <2>1. ReadSoFar'
    BY <1>1 DEF ReadSoFar, TypeOK
  <2>2. pc' = "down" \/ pc' # "down"
    OBVIOUS
  <2> QED BY <1>1, <2>1 DEF ReadLosses
<1>2. CASE ReadAssert
  <2>1. PICK ok \in BOOLEAN :
          /\ asserts' = Append(asserts, ok)
          /\ IF ok \/ call.asserts[at].severity = "Warn"
               THEN at' = at + 1 /\ UNCHANGED pc
               ELSE pc' = "down" /\ UNCHANGED at
          /\ warnings' = IF ok \/ call.asserts[at].severity = "Fatal" THEN warnings
                         ELSE warnings \cup {call.asserts[at].id}
    BY <1>2 DEF ReadAssert, Fail
  <2>2. /\ pc = "assert" /\ UNCHANGED call /\ at \in Nat /\ Len(asserts) = at - 1
        /\ asserts \in Seq(BOOLEAN)
        /\ call.asserts[at].severity \in {"Warn", "Fatal"}
    BY <1>2, AssertType DEF ReadAssert, ReadSoFar, TypeOK
  <2>3. /\ DOMAIN asserts = 1 .. at - 1 /\ DOMAIN asserts' = 1 .. at /\ Len(asserts') = at
        /\ \A i \in 1 .. at - 1 : asserts'[i] = asserts[i]
        /\ asserts'[at] = ok
    BY <2>1, <2>2
  <2>4. ReadSoFar'
    BY <2>1, <2>2, <2>3 DEF ReadSoFar
  <2>5. ASSUME NEW i \in DOMAIN asserts', ~asserts'[i]
        PROVE  IF call.asserts[i].severity = "Fatal" THEN pc' = "down"
               ELSE call.asserts[i].id \in warnings'
    <3>1. CASE i = at
      BY <2>1, <2>2, <2>3, <2>5, <3>1
    <3>2. CASE i # at
      <4>1. i \in DOMAIN asserts /\ ~asserts[i]
        BY <2>2, <2>3, <2>5, <3>2
      <4> QED BY <2>1, <2>2, <4>1 DEF ReadLosses
    <3> QED BY <3>1, <3>2
  <2> QED BY <2>2, <2>4, <2>5 DEF ReadLosses
<1>3. CASE UNCHANGED vars
  BY <1>3 DEF vars, ReadSoFar, ReadLosses
<1>4. CASE CheckPlan \/ ValidateProof \/ Resolve
  BY <1>1, <1>4 DEF CheckPlan, ValidateProof, Resolve, Fail, report
<1>5. CASE SkipRung \/ RunRung \/ RungFails \/ RungsDone
  BY <1>1, <1>5 DEF SkipRung, RunRung, RungFails, RungsDone, AtRung, Fail, report
<1>6. CASE AssertsDone
  BY <1>1, <1>6 DEF AssertsDone, report
<1>7. CASE NotAsked \/ AskWitness \/ NoInstrument \/ NoProber \/ Probe
  BY <1>1, <1>7 DEF NotAsked, AskWitness, NoInstrument, NoProber, Probe, Answer, Fail
<1> QED BY <1>2, <1>3, <1>4, <1>5, <1>6, <1>7 DEF Next

\* "Continuing past a failure without naming what is lost" cannot happen, in any
\* plan: a failed rung or readback that did not end the run is in the warnings.
THEOREM NothingLost == Spec => []NothingLostSilently
<1>1. RungLosses /\ ReadLosses => NothingLostSilently
  BY DEF RungLosses, ReadLosses, NothingLostSilently
<1> QED BY <1>1, InitLosses, NextRungLosses, NextReadLosses, TypeCorrect, PTL DEF Spec

----------------------------------------------------------------------------
(* The order of the rungs.                                                 *)

\* The plan was checked before the first rung.
Checked ==
  /\ pc \in {"check", "proof", "resolve"} => steps = <<>> /\ at = 1
  /\ pc \in {"proof", "resolve", "rung"} \/ steps # <<>> => Check(call.steps)
\* The report's rungs are the first ones of the plan.
Prefix ==
  /\ Len(steps) <= Len(call.steps)
  /\ \A i \in DOMAIN steps : steps[i].id = call.steps[i].id
  /\ pc = "rung" => Len(steps) = at - 1
\* What ran is in the report.
Reported == \A i \in DOMAIN ran : \E k \in DOMAIN steps : steps[k] = ran[i]

LEMMA InitOrder == Init => Checked /\ Prefix /\ Reported
<1> SUFFICES ASSUME Init PROVE Checked /\ Prefix /\ Reported
  OBVIOUS
<1>1. Len(call.steps) \in Nat
  BY PlanLength DEF Init
<1>2. steps = <<>> /\ ran = <<>> /\ pc = "check" /\ at = 1
  BY DEF Init
<1> QED BY <1>1, <1>2 DEF Checked, Prefix, Reported

\* A rung's record at the end of the report keeps it a prefix of the plan.
LEMMA AppendPrefix ==
  ASSUME TypeOK, Prefix, AtRung, NEW out, steps' = Append(steps, Record(out)), UNCHANGED call
  PROVE  /\ Len(steps') = at /\ Len(steps') <= Len(call'.steps)
         /\ \A i \in DOMAIN steps' : steps'[i].id = call'.steps[i].id
         /\ DOMAIN steps = 1 .. at - 1 /\ DOMAIN steps' = 1 .. at /\ at \in Nat
         /\ \A i \in 1 .. at - 1 : steps'[i] = steps[i]
         /\ steps'[at] = Record(out)
<1>1. /\ steps \in Seq(Records) /\ at \in Nat /\ at <= Len(call.steps)
      /\ Len(steps) = at - 1 /\ Record(out).id = call.steps[at].id
  BY DEF TypeOK, Prefix, AtRung, Record, Rung
<1>2. /\ Len(steps') = at /\ DOMAIN steps = 1 .. at - 1 /\ DOMAIN steps' = 1 .. at
      /\ \A i \in 1 .. at - 1 : steps'[i] = steps[i]
      /\ steps'[at] = Record(out)
  BY <1>1
<1>3. ASSUME NEW i \in DOMAIN steps' PROVE steps'[i].id = call.steps[i].id
  <2>1. CASE i = at
    BY <1>1, <1>2, <2>1
  <2>2. CASE i # at
    <3>1. i \in DOMAIN steps
      BY <1>1, <1>2, <2>2
    <3> QED BY <1>2, <3>1 DEF Prefix
  <2> QED BY <2>1, <2>2
<1> QED BY <1>1, <1>2, <1>3

LEMMA NextOrder ==
  TypeOK /\ Checked /\ Prefix /\ Reported /\ [Next]_vars => Checked' /\ Prefix' /\ Reported'
<1> SUFFICES ASSUME TypeOK, Checked, Prefix, Reported, [Next]_vars
             PROVE  Checked' /\ Prefix' /\ Reported'
  OBVIOUS
<1>1. CASE /\ UNCHANGED <<call, steps, ran>> /\ pc' \in {"assert", "tx", "up", "down"}
  BY <1>1 DEF Checked, Prefix, Reported
<1>2. CASE CheckPlan \/ ValidateProof \/ Resolve
  <2>1. /\ UNCHANGED <<call, steps, ran, at>> /\ steps = <<>> /\ at = 1
        /\ pc' \in {"proof", "resolve", "rung"} => Check(call.steps)
        /\ pc' \in {"proof", "resolve", "rung", "down"}
    BY <1>2 DEF CheckPlan, ValidateProof, Resolve, Fail, report, Checked
  <2> QED BY <2>1 DEF Checked, Prefix, Reported
<1>3. ASSUME NEW out, AtRung, UNCHANGED call, steps' = Append(steps, Record(out)),
             \/ UNCHANGED ran
             \/ ran' = Append(ran, Record(out)),
             \/ pc' = "rung" /\ at' = at + 1
             \/ pc' = "down"
      PROVE  Checked' /\ Prefix' /\ Reported'
  <2>1. /\ Len(steps') = at /\ Len(steps') <= Len(call'.steps)
        /\ \A i \in DOMAIN steps' : steps'[i].id = call'.steps[i].id
        /\ DOMAIN steps = 1 .. at - 1 /\ DOMAIN steps' = 1 .. at /\ at \in Nat
        /\ \A i \in 1 .. at - 1 : steps'[i] = steps[i]
        /\ steps'[at] = Record(out)
    BY <1>3, AppendPrefix
  <2>2. Prefix'
    BY <1>3, <2>1 DEF Prefix
  <2>3. Checked'
    BY <1>3 DEF Checked, AtRung
  <2>4. ASSUME NEW i \in DOMAIN ran' PROVE \E k \in DOMAIN steps' : steps'[k] = ran'[i]
    <3>1. CASE i \in DOMAIN ran /\ ran'[i] = ran[i]
      <4>1. PICK k \in DOMAIN steps : steps[k] = ran[i]
        BY <3>1 DEF Reported
      <4> QED BY <2>1, <3>1, <4>1
    <3>2. CASE ran'[i] = Record(out)
      <4>1. at \in DOMAIN steps'
        BY <2>1, <1>3 DEF TypeOK, AtRung
      <4> QED BY <2>1, <3>2, <4>1
    <3>3. ran \in Seq(Records)
      BY DEF TypeOK
    <3>4. (i \in DOMAIN ran /\ ran'[i] = ran[i]) \/ ran'[i] = Record(out)
      BY <1>3, <2>4, <3>3
    <3> QED BY <3>1, <3>2, <3>4
  <2> QED BY <2>2, <2>3, <2>4 DEF Reported
<1>4. CASE SkipRung
  BY <1>3, <1>4 DEF SkipRung, AtRung
<1>5. CASE RunRung
  <2>1. PICK out : ran' = Append(ran, Record(out)) /\ steps' = Append(steps, Record(out))
    BY <1>5 DEF RunRung
  <2> QED BY <1>3, <1>5, <2>1 DEF RunRung, AtRung
<1>6. CASE RungFails
  BY <1>3, <1>6 DEF RungFails, AtRung, Fail
<1>7. CASE UNCHANGED vars
  BY <1>7 DEF vars, Checked, Prefix, Reported
<1>8. CASE RungsDone \/ AssertsDone
  BY <1>1, <1>8 DEF RungsDone, AssertsDone, report
<1>9. CASE ReadAssert
  BY <1>1, <1>9 DEF ReadAssert, Fail
<1>10. CASE NotAsked \/ AskWitness \/ NoInstrument \/ NoProber \/ Probe
  BY <1>1, <1>10 DEF NotAsked, AskWitness, NoInstrument, NoProber, Probe, Answer, Fail
<1> QED BY <1>2, <1>4, <1>5, <1>6, <1>7, <1>8, <1>9, <1>10 DEF Next

\* A checked plan's first rungs, as reported, keep its ordering contract.
LEMMA PrefixInOrder ==
  ASSUME TypeOK, Checked, Prefix, NEW k \in DOMAIN steps
  PROVE  /\ \A want \in call.steps[k].follow : \E j \in 1 .. k - 1 : steps[j].id = want
         /\ \A want \in call.steps[k].precede : \A j \in 1 .. k : steps[j].id # want
<1>1. /\ call.steps \in Seq(Rungs) /\ steps \in Seq(Records)
      /\ DOMAIN steps = 1 .. Len(steps) /\ Len(steps) \in Nat
      /\ DOMAIN call.steps = 1 .. Len(call.steps) /\ Len(call.steps) \in Nat
      /\ k \in DOMAIN call.steps /\ k \in Nat
  <2>1. call.steps \in Seq(Rungs) /\ steps \in Seq(Records)
    BY RequestType DEF TypeOK
  <2> QED BY <2>1 DEF Prefix
<1>2. Sound(call.steps, k)
  <2>1. steps # <<>>
    BY <1>1
  <2> QED BY <1>1, <2>1 DEF Checked, Check
<1>3. ASSUME NEW want \in call.steps[k].follow
      PROVE  \E j \in 1 .. k - 1 : steps[j].id = want
  <2>1. Position(call.steps, want) \in 1 .. k - 1
    BY <1>2 DEF Sound
  <2>2. call.steps[Position(call.steps, want)].id = want
    BY <1>1, <2>1, PositionIsFirst
  <2>3. Position(call.steps, want) \in DOMAIN steps
    BY <1>1, <2>1
  <2> QED BY <2>1, <2>2, <2>3 DEF Prefix
<1>4. ASSUME NEW want \in call.steps[k].precede, NEW j \in 1 .. k
      PROVE  steps[j].id # want
  <2>1. Position(call.steps, want) > k
    BY <1>2 DEF Sound
  <2>2. /\ Position(call.steps, want) \in DOMAIN call.steps
        /\ \A i \in 1 .. Position(call.steps, want) - 1 : call.steps[i].id # want
    <3>1. Position(call.steps, want) # 0
      BY <1>1, <2>1
    <3> QED BY <1>1, <3>1, PositionIsFirst
  <2>3. j \in 1 .. Position(call.steps, want) - 1 /\ j \in DOMAIN steps
    BY <1>1, <2>1, <2>2
  <2> QED BY <2>2, <2>3 DEF Prefix
<1> QED BY <1>3, <1>4

\* "TSSI before enable_tx" for every plan: a rung that ran was come to after all it
\* must follow and before all it must precede (Plan::check, run_plan).
THEOREM OrderKept == Spec => []RanInOrder
<1>1. TypeOK /\ Checked /\ Prefix /\ Reported => RanInOrder
  <2> SUFFICES ASSUME TypeOK, Checked, Prefix, Reported, NEW i \in DOMAIN ran
               PROVE  \E k \in DOMAIN steps :
                        /\ steps[k] = ran[i]
                        /\ \A want \in call.steps[k].follow :
                             \E j \in 1 .. k - 1 : steps[j].id = want
                        /\ \A want \in call.steps[k].precede :
                             \A j \in 1 .. k : steps[j].id # want
    BY DEF RanInOrder
  <2>1. PICK k \in DOMAIN steps : steps[k] = ran[i]
    BY DEF Reported
  <2> QED BY <2>1, PrefixInOrder
<1> QED BY <1>1, InitOrder, NextOrder, TypeCorrect, PTL DEF Spec

----------------------------------------------------------------------------
(* The report and what ran.                                                *)

\* What ran is what the report holds and was not removed, in its order.
Matched(s, r) ==
  /\ Len(r) = Cardinality(Kept(s, Len(s)))
  /\ \A k \in Kept(s, Len(s)) : r[Cardinality(Kept(s, k))] = s[k]
\* A failure that ends the run.
EndsRun(record) == record.out = "failed" /\ record.class \in {"Required", "OutOfBand"}
Ended == \A i \in DOMAIN ran : EndsRun(ran[i]) => i = Len(ran) /\ pc = "down"
\* The rungs are through when the readbacks begin.
Complete == pc \in {"assert", "tx", "up"} => Len(steps) = Len(call.steps)

\* How many of a report's first rungs were kept is a number, at most their number.
LEMMA KeptCount ==
  ASSUME NEW s, NEW k \in Nat
  PROVE  /\ IsFiniteSet(Kept(s, k)) /\ Cardinality(Kept(s, k)) \in Nat
         /\ Cardinality(Kept(s, k)) <= k
<1>1. IsFiniteSet(1 .. k) /\ Cardinality(1 .. k) = k
  BY FS_Interval
<1>2. Kept(s, k) \subseteq 1 .. k
  BY DEF Kept
<1> QED BY <1>1, <1>2, FS_Subset, FS_CardinalityType

\* More of the rungs keep more.
LEMMA KeptGrows ==
  ASSUME NEW s, NEW k \in Nat, NEW n \in Nat, k <= n
  PROVE  Cardinality(Kept(s, k)) <= Cardinality(Kept(s, n))
<1>1. Kept(s, k) \subseteq Kept(s, n)
  BY DEF Kept
<1> QED BY <1>1, KeptCount, FS_Subset

\* A kept rung is the first to reach its own count, which is not zero.
LEMMA KeptOwnCount ==
  ASSUME NEW s, NEW n \in Nat, NEW k \in Kept(s, n)
  PROVE  Cardinality(Kept(s, k)) \in 1 .. Cardinality(Kept(s, n))
<1>1. k \in 1 .. n /\ k \in Nat /\ k \in Kept(s, k)
  BY DEF Kept
<1>2. Cardinality(Kept(s, k)) \in Nat /\ IsFiniteSet(Kept(s, k))
  BY <1>1, KeptCount
<1>3. Cardinality(Kept(s, k)) # 0
  BY <1>1, <1>2, FS_EmptySet
<1>4. Cardinality(Kept(s, k)) <= Cardinality(Kept(s, n))
  BY <1>1, KeptGrows
<1>5. Cardinality(Kept(s, n)) \in Nat
  BY KeptCount
<1> QED BY <1>2, <1>3, <1>4, <1>5

\* A record at the end of a report leaves what was kept before it.
LEMMA KeptBefore ==
  ASSUME NEW s \in Seq(Records), NEW x \in Records, NEW k \in Nat, k <= Len(s)
  PROVE  Kept(Append(s, x), k) = Kept(s, k)
<1>1. \A j \in 1 .. k : Append(s, x)[j] = s[j]
  OBVIOUS
<1> QED BY <1>1 DEF Kept

\* A removed rung adds nothing to what was kept, any other adds itself.
LEMMA KeptAppend ==
  ASSUME NEW s \in Seq(Records), NEW x \in Records
  PROVE  /\ Len(Append(s, x)) = Len(s) + 1
         /\ x.out = "removed" => Kept(Append(s, x), Len(s) + 1) = Kept(s, Len(s))
         /\ x.out # "removed" =>
              /\ Kept(Append(s, x), Len(s) + 1) = Kept(s, Len(s)) \cup {Len(s) + 1}
              /\ Cardinality(Kept(Append(s, x), Len(s) + 1)) = Cardinality(Kept(s, Len(s))) + 1
<1>1. /\ Len(Append(s, x)) = Len(s) + 1 /\ Append(s, x)[Len(s) + 1] = x /\ Len(s) \in Nat
      /\ \A j \in 1 .. Len(s) : Append(s, x)[j] = s[j]
  OBVIOUS
<1>2. 1 .. Len(s) + 1 = (1 .. Len(s)) \cup {Len(s) + 1} /\ Len(s) + 1 \notin 1 .. Len(s)
  BY <1>1
<1>3. x.out = "removed" => Kept(Append(s, x), Len(s) + 1) = Kept(s, Len(s))
  BY <1>1, <1>2 DEF Kept
<1>4. x.out # "removed" =>
        Kept(Append(s, x), Len(s) + 1) = Kept(s, Len(s)) \cup {Len(s) + 1}
  BY <1>1, <1>2 DEF Kept
<1>5. Len(s) + 1 \notin Kept(s, Len(s))
  BY <1>2 DEF Kept
<1>6. IsFiniteSet(Kept(s, Len(s)))
  BY <1>1, KeptCount
<1>7. Cardinality(Kept(s, Len(s)) \cup {Len(s) + 1}) = Cardinality(Kept(s, Len(s))) + 1
  BY <1>5, <1>6, FS_AddElement
<1> QED BY <1>1, <1>3, <1>4, <1>7

\* A removed rung is recorded, and what ran still matches.
LEMMA MatchedRemoved ==
  ASSUME NEW s \in Seq(Records), NEW r \in Seq(Records), NEW x \in Records,
         Matched(s, r), x.out = "removed"
  PROVE  Matched(Append(s, x), r)
<1> DEFINE t == Append(s, x)
<1>1. Len(t) = Len(s) + 1 /\ Kept(t, Len(t)) = Kept(s, Len(s)) /\ Len(s) \in Nat
  BY KeptAppend, LenProperties
<1>2. ASSUME NEW k \in Kept(t, Len(t)) PROVE r[Cardinality(Kept(t, k))] = t[k]
  <2>1. k \in Kept(s, Len(s)) /\ k \in 1 .. Len(s)
    BY <1>1, <1>2 DEF Kept
  <2>2. Kept(t, k) = Kept(s, k)
    BY <1>1, <2>1, KeptBefore
  <2>3. t[k] = s[k]
    BY <2>1
  <2> QED BY <2>1, <2>2, <2>3 DEF Matched
<1> HIDE DEF t
<1>3. Len(r) = Cardinality(Kept(t, Len(t)))
  BY <1>1 DEF Matched
<1>4. Matched(t, r)
  BY <1>2, <1>3 DEF Matched
<1> QED BY <1>4 DEF t

\* A rung that ran is recorded where it ran.
LEMMA MatchedRan ==
  ASSUME NEW s \in Seq(Records), NEW r \in Seq(Records), NEW x \in Records,
         Matched(s, r), x.out # "removed"
  PROVE  Matched(Append(s, x), Append(r, x))
<1> DEFINE t == Append(s, x)
           q == Append(r, x)
<1>1. /\ Len(t) = Len(s) + 1 /\ Kept(t, Len(t)) = Kept(s, Len(s)) \cup {Len(t)}
      /\ Cardinality(Kept(t, Len(t))) = Cardinality(Kept(s, Len(s))) + 1 /\ Len(s) \in Nat
  BY KeptAppend, LenProperties
<1>2. Len(r) = Cardinality(Kept(s, Len(s)))
  BY DEF Matched
<1>3. /\ Len(q) = Len(r) + 1 /\ q[Len(r) + 1] = x /\ t[Len(s) + 1] = x /\ Len(r) \in Nat
      /\ \A i \in 1 .. Len(r) : q[i] = r[i]
      /\ \A i \in 1 .. Len(s) : t[i] = s[i]
  OBVIOUS
<1>4. ASSUME NEW k \in Kept(s, Len(s)) PROVE q[Cardinality(Kept(t, k))] = t[k]
  <2>1. k \in 1 .. Len(s)
    BY <1>4 DEF Kept
  <2>2. Kept(t, k) = Kept(s, k)
    BY <1>1, <2>1, KeptBefore
  <2>3. Cardinality(Kept(s, k)) \in 1 .. Len(r)
    BY <1>1, <1>2, <1>4, KeptOwnCount
  <2>4. r[Cardinality(Kept(s, k))] = s[k]
    BY <1>4 DEF Matched
  <2>5. q[Cardinality(Kept(s, k))] = s[k]
    BY <1>3, <2>3, <2>4
  <2>6. t[k] = s[k]
    BY <1>3, <2>1
  <2> QED BY <2>2, <2>5, <2>6
<1> HIDE DEF t, q
<1>5. q[Cardinality(Kept(t, Len(t)))] = t[Len(t)]
  BY <1>1, <1>2, <1>3
<1>6. \A k \in Kept(t, Len(t)) : q[Cardinality(Kept(t, k))] = t[k]
  BY <1>1, <1>4, <1>5
<1>7. Len(q) = Cardinality(Kept(t, Len(t)))
  BY <1>1, <1>2, <1>3
<1>8. Matched(t, q)
  BY <1>6, <1>7 DEF Matched
<1> QED BY <1>8 DEF t, q

LEMMA InitTold == Init => Matched(steps, ran) /\ Ended /\ Complete
<1> SUFFICES ASSUME Init PROVE Matched(steps, ran) /\ Ended /\ Complete
  OBVIOUS
<1>1. steps = <<>> /\ ran = <<>> /\ pc = "check"
  BY DEF Init
<1>2. Kept(<<>>, 0) = {}
  BY DEF Kept
<1>3. Len(<<>>) = 0 /\ DOMAIN <<>> = {}
  OBVIOUS
<1>4. Matched(<<>>, <<>>)
  BY <1>2, <1>3, FS_EmptySet DEF Matched
<1> QED BY <1>1, <1>3, <1>4 DEF Ended, Complete

\* A rung that runs is the last that ran, and the run goes on if it may.
LEMMA AppendEnded ==
  ASSUME TypeOK, Ended, AtRung, NEW x \in Records, ran' = Append(ran, x),
         EndsRun(x) => pc' = "down"
  PROVE  Ended'
<1>1. ran \in Seq(Records) /\ pc # "down"
  BY DEF TypeOK, AtRung
<1>2. ASSUME NEW i \in DOMAIN ran', EndsRun(ran'[i]) PROVE i = Len(ran') /\ pc' = "down"
  <2>1. \/ i \in DOMAIN ran /\ ran'[i] = ran[i]
        \/ i = Len(ran') /\ ran'[i] = x
    BY <1>1, <1>2
  <2>2. ~ (i \in DOMAIN ran /\ ran'[i] = ran[i])
    BY <1>1, <1>2 DEF Ended
  <2> QED BY <1>2, <2>1, <2>2
<1>3. \A i \in DOMAIN ran' : EndsRun(ran'[i]) => i = Len(ran') /\ pc' = "down"
  BY <1>2
<1> QED BY <1>3 DEF Ended, EndsRun

LEMMA NextTold ==
  TypeOK /\ Checked /\ Prefix /\ Matched(steps, ran) /\ Ended /\ Complete /\ [Next]_vars
    => Matched(steps, ran)' /\ Ended' /\ Complete'
<1> SUFFICES ASSUME TypeOK, Checked, Prefix, Matched(steps, ran), Ended, Complete, [Next]_vars
             PROVE  Matched(steps', ran') /\ Ended' /\ Complete'
  BY DEF Matched, Kept
<1>1. steps \in Seq(Records) /\ ran \in Seq(Records)
  BY DEF TypeOK
<1>2. ASSUME UNCHANGED <<call, steps, ran>>, pc # "down",
             pc' \in {"assert", "tx", "up"} =>
               pc \in {"assert", "tx"} \/ Len(steps) = Len(call.steps)
      PROVE  Matched(steps', ran') /\ Ended' /\ Complete'
  BY <1>2 DEF Ended, Complete
<1>3. CASE CheckPlan \/ ValidateProof \/ Resolve
  <2>1. /\ UNCHANGED <<call, steps, ran>> /\ pc # "down"
        /\ pc' \notin {"assert", "tx", "up"}
    BY <1>3 DEF CheckPlan, ValidateProof, Resolve, Fail, report
  <2> QED BY <1>2, <2>1
<1>4. CASE SkipRung
  <2>1. Record("removed") \in Records
    BY <1>4, RungType DEF SkipRung, Records, Record, Outcomes, Rungs
  <2>2. Matched(steps', ran')
    BY <1>1, <1>4, <2>1, MatchedRemoved DEF SkipRung, Record
  <2> QED BY <1>4, <2>2 DEF SkipRung, AtRung, Ended, Complete
<1>5. CASE RunRung
  <2>1. PICK out \in {"done", "skipped"} \cup Facts \cup GuardNames :
          ran' = Append(ran, Record(out)) /\ steps' = Append(steps, Record(out))
    BY <1>5 DEF RunRung
  <2>2. AtRung /\ UNCHANGED <<call, pc>>
    BY <1>5 DEF RunRung
  <2>3. out # "removed" /\ out # "failed" /\ out \in Outcomes
    BY <2>1, OutcomesAssumption DEF Outcomes
  <2>4. Record(out) \in Records /\ Record(out).out = out
    BY <2>2, <2>3, RungType DEF Records, Record, Rungs
  <2>5. Matched(steps', ran')
    BY <1>1, <2>1, <2>3, <2>4, MatchedRan
  <2>6. ~ EndsRun(Record(out))
    BY <2>3, <2>4 DEF EndsRun
  <2>7. Ended'
    BY <2>1, <2>2, <2>4, <2>6, AppendEnded
  <2> QED BY <2>2, <2>5, <2>7 DEF AtRung, Complete
<1>6. CASE RungFails
  <2>1. /\ AtRung /\ UNCHANGED call /\ pc' \in {"rung", "down"}
        /\ ran' = Append(ran, Record("failed")) /\ steps' = Append(steps, Record("failed"))
        /\ Rung.class \in {"Required", "OutOfBand"} => pc' = "down"
    BY <1>6 DEF RungFails, Fail, AtRung
  <2>2. /\ Record("failed") \in Records /\ Record("failed").out = "failed"
        /\ Record("failed").class = Rung.class
    BY <2>1, RungType DEF Records, Record, Outcomes, Rungs
  <2>3. Matched(steps', ran')
    BY <1>1, <2>1, <2>2, MatchedRan
  <2>4. EndsRun(Record("failed")) => pc' = "down"
    BY <2>1, <2>2 DEF EndsRun
  <2>5. Ended'
    BY <2>1, <2>2, <2>4, AppendEnded
  <2> QED BY <2>1, <2>3, <2>5 DEF Complete
<1>7. CASE RungsDone
  <2>1. Len(steps) = at - 1 /\ Len(steps) <= Len(call.steps) /\ at > Len(call.steps)
    BY <1>7 DEF RungsDone, Prefix
  <2>2. Len(call.steps) \in Nat /\ at \in Nat
    BY PlanLength DEF TypeOK
  <2>3. Len(steps) = Len(call.steps)
    BY <2>1, <2>2
  <2> QED BY <1>2, <1>7, <2>3 DEF RungsDone, report
<1>8. CASE AssertsDone
  BY <1>2, <1>8 DEF AssertsDone, report
<1>9. CASE ReadAssert
  BY <1>2, <1>9 DEF ReadAssert, Fail
<1>10. CASE NotAsked \/ AskWitness \/ NoInstrument \/ NoProber \/ Probe
  BY <1>2, <1>10 DEF NotAsked, AskWitness, NoInstrument, NoProber, Probe, Answer, Fail
<1>11. CASE UNCHANGED vars
  BY <1>11 DEF vars, report, Ended, Complete
<1> QED
  BY <1>3, <1>4, <1>5, <1>6, <1>7, <1>8, <1>9, <1>10, <1>11 DEF Next

\* The report of run_plan tells what ran, whichever way out was taken: each rung once,
\* in the plan's order, with its outcome, and none after a fatal failure.
THEOREM ReportIsTrue == Spec => []ReportTellsWhatRan
<1>1. Prefix /\ Matched(steps, ran) /\ Ended /\ Complete => ReportTellsWhatRan
  BY DEF Prefix, Matched, Ended, Complete, EndsRun, ReportTellsWhatRan
<1> QED
  BY <1>1, InitTold, NextTold, InitOrder, NextOrder, TypeCorrect, PTL DEF Spec

----------------------------------------------------------------------------
(* The lease's grid: division with remainder, and the turns of an owner.    *)

LEMMA GridType ==
  ASSUME NEW g \in Grids
  PROVE  /\ g.slot \in Nat /\ g.slots \in Nat /\ g.guard \in Nat
         /\ g.slot >= 1 /\ g.slots >= 2 /\ g.guard < g.slot
  BY DEF Grids, Geometries, ForMeasurement

LEMMA Division ==
  ASSUME NEW n \in Nat, NEW d \in Nat, d >= 1
  PROVE  /\ n \div d \in Nat /\ n % d \in Nat
         /\ n % d < d
         /\ n = d * (n \div d) + (n % d)
  OBVIOUS

LEMMA QuotientIsUnique ==
  ASSUME NEW q \in Nat, NEW r \in Nat, NEW d \in Nat, r < d
  PROVE  (d * q + r) \div d = q /\ (d * q + r) % d = r
  OBVIOUS

LEMMA ProductsAreOrdered ==
  ASSUME NEW p \in Nat, NEW q \in Nat, NEW d \in Nat, p < q
  PROVE  p * d + d <= q * d
  OBVIOUS

LEMMA ProductOfSum ==
  ASSUME NEW p \in Nat, NEW q \in Nat, NEW d \in Nat
  PROVE  (p + q) * d = p * d + q * d /\ p * d \in Nat /\ q * d \in Nat
  OBVIOUS

\* A time is its slot's start and its phase.
LEMMA TimeIsStartAndPhase ==
  ASSUME NEW g \in Grids, NEW t \in Nat
  PROVE  /\ Epoch(g, t) \in Nat /\ Phase(g, t) \in Nat /\ Phase(g, t) < g.slot
         /\ t = Epoch(g, t) * g.slot + Phase(g, t)
  <1>1. g.slot \in Nat /\ g.slot >= 1
    BY GridType
  <1>2. /\ t \div g.slot \in Nat /\ t % g.slot \in Nat /\ t % g.slot < g.slot
        /\ t = g.slot * (t \div g.slot) + (t % g.slot)
    BY <1>1, Division
  <1>3. g.slot * (t \div g.slot) = (t \div g.slot) * g.slot
    BY <1>1, <1>2
  <1> QED
    BY <1>2, <1>3 DEF Epoch, Phase

\* The start of a slot lies in that slot, at phase 0.
LEMMA StartOfSlot ==
  ASSUME NEW g \in Grids, NEW e \in Nat
  PROVE  /\ e * g.slot \in Nat
         /\ Epoch(g, e * g.slot) = e /\ Phase(g, e * g.slot) = 0
         /\ CurrentSlot(g, e * g.slot) = e % g.slots
  <1>1. g.slot \in Nat /\ g.slot >= 1
    BY GridType
  <1>2. (g.slot * e + 0) \div g.slot = e /\ (g.slot * e + 0) % g.slot = 0
    BY <1>1, QuotientIsUnique
  <1>3. g.slot * e + 0 = e * g.slot /\ e * g.slot \in Nat
    BY <1>1
  <1> QED
    BY <1>2, <1>3 DEF Epoch, Phase, CurrentSlot

LEMMA OwnerSlotType ==
  ASSUME NEW g \in Grids, NEW hash \in Nat
  PROVE  OwnerSlot(g, hash) \in Nat /\ OwnerSlot(g, hash) < g.slots
  BY GridType, Division DEF OwnerSlot

\* Ahead is the distance to the owner's next slot, below one superframe.
LEMMA AheadReachesOwner ==
  ASSUME NEW g \in Grids, NEW hash \in Nat, NEW e \in Nat
  PROVE  /\ Ahead(g, hash, e) \in Nat /\ Ahead(g, hash, e) < g.slots
         /\ (e + Ahead(g, hash, e)) % g.slots = OwnerSlot(g, hash)
         /\ \A k \in Nat : k < Ahead(g, hash, e)
                             => (e + k) % g.slots # OwnerSlot(g, hash)
  <1> DEFINE n == g.slots  o == OwnerSlot(g, hash)  c == e % g.slots  q == e \div g.slots
  <1>1. n \in Nat /\ n >= 2 /\ o \in Nat /\ o < n
    BY GridType, OwnerSlotType
  <1>2. c \in Nat /\ c < n /\ q \in Nat /\ e = n * q + c
    <2>1. g.slots \in Nat /\ g.slots >= 1
      BY GridType
    <2> QED
      BY <2>1, Division, Zenon DEF n, c, q
  <1>0. Ahead(g, hash, e) = (o + n - c) % n /\ n = g.slots /\ o = OwnerSlot(g, hash)
    BY DEF Ahead
  <1> HIDE DEF n, o, c, q
  <1>3. CASE o >= c
    <2>1. (o + n - c) % n = o - c
      <3>1. o - c \in Nat /\ o - c < n
        BY <1>1, <1>2, <1>3
      <3>2. (n * 1 + (o - c)) % n = o - c
        BY <3>1, <1>1, QuotientIsUnique
      <3>3. o + n - c = n * 1 + (o - c)
        BY <1>1, <1>2
      <3> QED
        BY <3>2, <3>3
    <2>2. (e + (o - c)) % n = o
      <3>1. (n * q + o) % n = o
        BY <1>1, <1>2, QuotientIsUnique
      <3>2. e + (o - c) = n * q + o
        BY <1>1, <1>2
      <3> QED
        BY <3>1, <3>2
    <2>3. ASSUME NEW k \in Nat, k < o - c
          PROVE  (e + k) % n # o
      <3>1. c + k \in Nat /\ c + k < n /\ c + k < o
        BY <2>3, <1>1, <1>2
      <3>2. (n * q + (c + k)) % n = c + k
        BY <3>1, <1>1, <1>2, QuotientIsUnique
      <3>3. n * q + (c + k) = e + k
        BY <1>1, <1>2
      <3> QED
        BY <3>1, <3>2, <3>3, <1>1
    <2> QED
      BY <1>0, <2>1, <2>2, <2>3, <1>1, <1>2, <1>3
  <1>4. CASE o < c
    <2>1. o + n - c \in Nat /\ o + n - c < n
      BY <1>1, <1>2, <1>4
    <2>2. (o + n - c) % n = o + n - c
      <3>1. (n * 0 + (o + n - c)) % n = o + n - c
        BY <2>1, <1>1, QuotientIsUnique
      <3>2. n * 0 + (o + n - c) = o + n - c
        BY <2>1, <1>1
      <3> QED
        BY <3>1, <3>2
    <2>3. (e + (o + n - c)) % n = o
      <3>1. (n * (q + 1) + o) % n = o
        BY <1>1, <1>2, QuotientIsUnique
      <3>2. e + (o + n - c) = n * (q + 1) + o
        BY <1>1, <1>2
      <3> QED
        BY <3>1, <3>2
    <2>4. ASSUME NEW k \in Nat, k < o + n - c
          PROVE  (e + k) % n # o
      <3>1. CASE c + k < n
        <4>1. (n * q + (c + k)) % n = c + k
          BY <3>1, <1>1, <1>2, QuotientIsUnique
        <4>2. n * q + (c + k) = e + k
          BY <1>1, <1>2
        <4> QED
          BY <4>1, <4>2, <1>1, <1>2, <1>4
      <3>2. CASE c + k >= n
        <4>1. c + k - n \in Nat /\ c + k - n < n /\ c + k - n < o
          BY <3>2, <2>4, <1>1, <1>2
        <4>2. (n * (q + 1) + (c + k - n)) % n = c + k - n
          BY <4>1, <1>1, <1>2, QuotientIsUnique
        <4>3. n * (q + 1) + (c + k - n) = e + k
          BY <1>1, <1>2
        <4> QED
          BY <4>1, <4>2, <4>3, <1>1
      <3> QED
        BY <3>1, <3>2, <1>1, <1>2
    <2> QED
      BY <1>0, <2>1, <2>2, <2>3, <2>4
  <1> QED
    BY <1>1, <1>2, <1>3, <1>4

\* Two slots of one owner a whole number of superframes apart.
LEMMA SameOwnerNextSuperframe ==
  ASSUME NEW n \in Nat, n >= 2, NEW e \in Nat
  PROVE  (e + n) % n = e % n
  <1>1. e % n \in Nat /\ e % n < n /\ e \div n \in Nat /\ e = n * (e \div n) + (e % n)
    <2>1. n >= 1
      OBVIOUS
    <2> QED
      BY <2>1, Division, Zenon
  <1>2. (n * ((e \div n) + 1) + (e % n)) % n = e % n
    <2>1. (e \div n) + 1 \in Nat
      BY <1>1
    <2> QED
      BY <1>1, <2>1, QuotientIsUnique, Zenon
  <1>3. n * ((e \div n) + 1) + (e % n) = e + n
    BY <1>1
  <1> QED
    BY <1>2, <1>3

\* A geometry new_for_frame accepts is a grid, and a frame of the cost it was
\* built for, launched at the start of an owned slot, is over before the guard
\* (lease.rs:154-181).
THEOREM NewHoldsOneFrame ==
  ASSUME NEW g \in Geometries, NEW cost \in Nat, NewForFrame(g, cost),
         NEW hash \in Nat, NEW e \in Nat, OwnsNow(g, hash, e * g.slot)
  PROVE  g \in Grids /\ FitsAt(g, hash, e * g.slot, cost)
  <1>1. g \in Grids /\ g.guard + cost <= g.slot
    BY DEF NewForFrame, Grids, Geometries
  <1>2. Phase(g, e * g.slot) = 0
    BY <1>1, StartOfSlot
  <1>3. Usable(g) \in Nat /\ Usable(g) > 0 /\ cost <= Usable(g)
    BY <1>1, GridType DEF Usable
  <1> QED
    BY <1>1, <1>2, <1>3 DEF FitsAt, InsideLease

\* Waiting wait_us brings the name into a slot it owns, in less than one
\* superframe, and no earlier slot of this or a later epoch was its own
\* (lease.rs:306-315).
THEOREM WaitReachesOwnSlot ==
  ASSUME NEW g \in Grids, NEW hash \in Nat, NEW t \in Nat
  PROVE  /\ Wait(g, hash, t) \in Nat /\ Wait(g, hash, t) < Superframe(g)
         /\ OwnsNow(g, hash, t + Wait(g, hash, t))
         /\ \A e \in Nat :
              Epoch(g, t) <= e /\ e < Epoch(g, t + Wait(g, hash, t))
                => ~OwnsNow(g, hash, e * g.slot)
  <1> DEFINE E == Epoch(g, t)  A == Ahead(g, hash, E)  s == g.slot  n == g.slots
             w == Wait(g, hash, t)
  <1>1. s \in Nat /\ s >= 1 /\ n \in Nat /\ n >= 2
    BY GridType
  <1>2. E \in Nat /\ Phase(g, t) \in Nat /\ Phase(g, t) < s /\ t = E * s + Phase(g, t)
    BY TimeIsStartAndPhase
  <1>3. /\ A \in Nat /\ A < n /\ (E + A) % n = OwnerSlot(g, hash)
        /\ \A k \in Nat : k < A => (E + k) % n # OwnerSlot(g, hash)
    BY <1>2, AheadReachesOwner
  <1>4. CASE OwnsNow(g, hash, t)
    <2>1. w = 0
      BY <1>4 DEF Wait
    <2>2. t + w = t
      BY <2>1
    <2>3. 0 < Superframe(g)
      BY <1>1 DEF Superframe
    <2> QED
      BY <1>2, <1>4, <2>1, <2>2, <2>3
  <1>5. CASE ~OwnsNow(g, hash, t)
    <2>1. A # 0
      BY <1>2, <1>3, <1>5 DEF OwnsNow, CurrentSlot
    <2>2. w = (E + A) * s - t /\ w = A * s - Phase(g, t)
      <3>1. w = (E + A) * s - t
        BY <1>5 DEF Wait
      <3>2. (E + A) * s = E * s + A * s /\ E * s \in Nat /\ A * s \in Nat
        <4> HIDE DEF E, A, s, n, w
        <4> QED
          BY <1>1, <1>2, <1>3, ProductOfSum
      <3> HIDE DEF E, A, s, w
      <3> QED
        BY <3>1, <3>2, <1>2
    <2>3. t + w = (E + A) * s
      <3>1. (E + A) * s \in Nat /\ A * s \in Nat
        BY <1>1, <1>2, <1>3
      <3> HIDE DEF E, A, s, w
      <3> QED
        BY <2>2, <3>1
    <2>4. Epoch(g, t + w) = E + A /\ CurrentSlot(g, t + w) = (E + A) % n
      BY <1>2, <1>3, <2>3, StartOfSlot
    <2>5. OwnsNow(g, hash, t + w)
      BY <1>3, <2>4 DEF OwnsNow
    <2>6. w \in Nat /\ w < Superframe(g)
      <3>1. 0 * s + s <= A * s
        BY <1>1, <1>3, <2>1, ProductsAreOrdered
      <3>2. A * s + s <= n * s
        BY <1>1, <1>3, ProductsAreOrdered
      <3>3. Superframe(g) = n * s /\ A * s \in Nat /\ n * s \in Nat /\ 0 * s = 0
        BY <1>1, <1>3 DEF Superframe
      <3> HIDE DEF E, A, s, w, n
      <3> QED
        BY <1>1, <1>2, <2>2, <3>1, <3>2, <3>3
    <2>7. ASSUME NEW e \in Nat, E <= e, e < E + A
          PROVE  ~OwnsNow(g, hash, e * s)
      <3>1. e - E \in Nat /\ e - E < A /\ E + (e - E) = e
        BY <1>2, <1>3, <2>7
      <3>2. e % n # OwnerSlot(g, hash)
        BY <1>3, <3>1
      <3>3. CurrentSlot(g, e * s) = e % n
        BY StartOfSlot
      <3> QED
        BY <3>2, <3>3 DEF OwnsNow
    <2> QED
      BY <2>4, <2>5, <2>6, <2>7
  <1> QED
    BY <1>4, <1>5

\* next_slot_start_us is the start of an owned slot, later than not_before, at
\* most a superframe later, and no slot of the name starts in between: the
\* scheduler neither skips a turn nor hands out a target already past
\* (lease.rs:324-332).
THEOREM NextSlotStartIsTheNextTurn ==
  ASSUME NEW g \in Grids, NEW hash \in Nat, NEW t \in Nat
  PROVE  LET next == NextSlotStart(g, hash, t)
         IN  /\ next \in Nat /\ next > t /\ next <= t + Superframe(g)
             /\ OwnsNow(g, hash, next) /\ Phase(g, next) = 0
             /\ \A e \in Nat : t < e * g.slot /\ e * g.slot < next
                                 => ~OwnsNow(g, hash, e * g.slot)
  <1> DEFINE E == Epoch(g, t)  N == E + 1  A == Ahead(g, hash, N)  s == g.slot  n == g.slots
             next == NextSlotStart(g, hash, t)
  <1>1. s \in Nat /\ s >= 1 /\ n \in Nat /\ n >= 2
    BY GridType
  <1>2. E \in Nat /\ Phase(g, t) \in Nat /\ Phase(g, t) < s /\ t = E * s + Phase(g, t)
    BY TimeIsStartAndPhase
  <1>3. /\ A \in Nat /\ A < n /\ (N + A) % n = OwnerSlot(g, hash)
        /\ \A k \in Nat : k < A => (N + k) % n # OwnerSlot(g, hash)
    <2>1. N \in Nat
      BY <1>2
    <2> QED
      BY <2>1, AheadReachesOwner, Zenon
  <1>4. next = (N + A) * s /\ N + A \in Nat
    BY <1>2, <1>3 DEF NextSlotStart
  <1>5. next \in Nat /\ Phase(g, next) = 0 /\ CurrentSlot(g, next) = (N + A) % n
    BY <1>4, StartOfSlot
  <1>6. OwnsNow(g, hash, next)
    BY <1>3, <1>5 DEF OwnsNow
  <1>7. next > t /\ next <= t + Superframe(g)
    <2>1. E * s + s <= (N + A) * s
      BY <1>1, <1>2, <1>3, ProductsAreOrdered
    <2>2. (N + A) * s = E * s + (A + 1) * s
      <3>1. N + A = E + (A + 1) /\ A + 1 \in Nat
        BY <1>2, <1>3
      <3>2. (E + (A + 1)) * s = E * s + (A + 1) * s
        <4> HIDE DEF E, N, A, s, n, next
        <4> QED
          BY <1>1, <1>2, <3>1, ProductOfSum
      <3> QED
        BY <3>1, <3>2, Zenon
    <2>3. (A + 1) * s <= n * s
      BY <1>1, <1>3
    <2>4. Superframe(g) = n * s /\ E * s \in Nat /\ (A + 1) * s \in Nat /\ n * s \in Nat
      BY <1>1, <1>2, <1>3 DEF Superframe
    <2> HIDE DEF E, N, A, s, n, next
    <2> QED
      BY <1>1, <1>2, <1>4, <2>1, <2>2, <2>3, <2>4
  <1>8. ASSUME NEW e \in Nat, t < e * s, e * s < next
        PROVE  ~OwnsNow(g, hash, e * s)
    <2>1. N <= e
      <3>1. CASE e < E
        <4>1. e * s + s <= E * s
          BY <1>1, <1>2, <3>1, ProductsAreOrdered
        <4>2. e * s \in Nat /\ E * s \in Nat
          BY <1>1, <1>2
        <4> HIDE DEF E, s, next
        <4> QED
          BY <1>1, <1>2, <1>8, <4>1, <4>2
      <3>2. CASE e = E
        <4>1. e * s <= t
          <5>1. E * s \in Nat
            BY <1>1, <1>2
          <5> HIDE DEF E, s
          <5> QED
            BY <1>2, <3>2, <5>1
        <4>2. e * s \in Nat
          BY <1>1
        <4> QED
          BY <1>8, <4>1, <4>2
      <3> QED
        BY <1>2, <3>1, <3>2
    <2>2. e < N + A
      <3>1. CASE e > N + A
        <4>1. (N + A) * s + s <= e * s
          BY <1>1, <1>4, <3>1, ProductsAreOrdered
        <4>2. e * s \in Nat
          BY <1>1
        <4> HIDE DEF N, A, s, next
        <4> QED
          BY <1>1, <1>4, <1>5, <1>8, <4>1, <4>2
      <3>2. CASE e = N + A
        BY <1>4, <1>5, <1>8, <3>2
      <3> QED
        BY <1>4, <3>1, <3>2
    <2>3. e - N \in Nat /\ e - N < A /\ N + (e - N) = e
      BY <1>2, <1>3, <2>1, <2>2
    <2>4. e % n # OwnerSlot(g, hash)
      BY <1>3, <2>3
    <2>5. CurrentSlot(g, e * s) = e % n
      BY StartOfSlot
    <2> QED
      BY <2>4, <2>5 DEF OwnsNow
  <1> QED
    BY <1>5, <1>6, <1>7, <1>8

\* following_slot_start_us of a slot the name owns is one it owns: iterating it
\* never drifts off the grid (lease.rs:336-338).
THEOREM FollowingSlotIsOwned ==
  ASSUME NEW g \in Grids, NEW hash \in Nat, NEW e \in Nat, OwnsNow(g, hash, e * g.slot)
  PROVE  /\ FollowingSlotStart(g, e * g.slot) = (e + g.slots) * g.slot
         /\ OwnsNow(g, hash, FollowingSlotStart(g, e * g.slot))
  <1>1. g.slot \in Nat /\ g.slots \in Nat /\ g.slots >= 2
    BY GridType
  <1>2. FollowingSlotStart(g, e * g.slot) = (e + g.slots) * g.slot
    BY <1>1 DEF FollowingSlotStart, Superframe
  <1>3. CurrentSlot(g, e * g.slot) = e % g.slots
    BY StartOfSlot
  <1>4. e + g.slots \in Nat
    BY <1>1
  <1>5. CurrentSlot(g, (e + g.slots) * g.slot) = (e + g.slots) % g.slots
    BY <1>4, StartOfSlot
  <1>6. (e + g.slots) % g.slots = e % g.slots
    BY <1>1, SameOwnerNextSuperframe
  <1> QED
    BY <1>2, <1>3, <1>5, <1>6 DEF OwnsNow

\* A frame that fits_at accepts lies in its slot and leaves the guard free.
LEMMA FitLeavesTheGuard ==
  ASSUME NEW g \in Grids, NEW hash \in Nat, NEW t \in Nat, NEW d \in Nat,
         FitsAt(g, hash, t, d)
  PROVE  /\ Epoch(g, t) * g.slot <= t
         /\ t + d + g.guard <= Epoch(g, t) * g.slot + g.slot
         /\ OwnerSlot(g, hash) = Epoch(g, t) % g.slots
  <1> DEFINE E == Epoch(g, t)
  <1>1. E \in Nat /\ Phase(g, t) \in Nat /\ t = E * g.slot + Phase(g, t)
    BY TimeIsStartAndPhase
  <1>2. g.slot \in Nat /\ g.guard \in Nat /\ Phase(g, t) + d <= g.slot - g.guard
    BY GridType DEF FitsAt, Usable
  <1>3. OwnerSlot(g, hash) = E % g.slots
    BY DEF FitsAt, InsideLease, OwnsNow, CurrentSlot
  <1>4. E * g.slot \in Nat
    BY <1>1, <1>2
  <1> QED
    BY <1>1, <1>2, <1>3, <1>4

\* The promise of the guard: two names that own different slots never overlap
\* on the air when each sends only frames fits_at accepts, as long as their
\* clocks disagree by at most the guard (lease.rs:263-285).  skew is what the
\* second node's clock is ahead of the first's.
THEOREM GuardSeparatesOwners ==
  ASSUME NEW g \in Grids, NEW h1 \in Nat, NEW h2 \in Nat,
         OwnerSlot(g, h1) # OwnerSlot(g, h2),
         NEW t1 \in Nat, NEW t2 \in Nat, NEW d1 \in Nat, NEW d2 \in Nat,
         FitsAt(g, h1, t1, d1), FitsAt(g, h2, t2, d2),
         NEW skew \in Int, -g.guard <= skew, skew <= g.guard
  PROVE  t1 + d1 <= t2 - skew \/ t2 - skew + d2 <= t1
  <1> DEFINE E == Epoch(g, t1)  F == Epoch(g, t2)
  <1>1. g.slot \in Nat /\ g.guard \in Nat /\ E \in Nat /\ F \in Nat
    BY GridType, TimeIsStartAndPhase
  <1>2. /\ E * g.slot <= t1 /\ t1 + d1 + g.guard <= E * g.slot + g.slot
        /\ OwnerSlot(g, h1) = E % g.slots
    BY FitLeavesTheGuard
  <1>3. /\ F * g.slot <= t2 /\ t2 + d2 + g.guard <= F * g.slot + g.slot
        /\ OwnerSlot(g, h2) = F % g.slots
    BY FitLeavesTheGuard
  <1>4. E * g.slot \in Nat /\ F * g.slot \in Nat
    BY <1>1
  <1>5. E # F
    BY <1>2, <1>3
  <1>6. CASE E < F
    <2>1. E * g.slot + g.slot <= F * g.slot
      BY <1>1, <1>6, ProductsAreOrdered
    <2> HIDE DEF E, F
    <2> QED
      BY <1>1, <1>2, <1>3, <1>4, <2>1
  <1>7. CASE F < E
    <2>1. F * g.slot + g.slot <= E * g.slot
      BY <1>1, <1>7, ProductsAreOrdered
    <2> HIDE DEF E, F
    <2> QED
      BY <1>1, <1>2, <1>3, <1>4, <2>1
  <1> QED
    BY <1>1, <1>5, <1>6, <1>7

\* What the weaker ends_inside_slot still gives when the two clocks agree: no
\* overlap, with no guard kept free (lease.rs:300-303).
THEOREM SlotsSeparateSynchronousOwners ==
  ASSUME NEW g \in Grids, NEW h1 \in Nat, NEW h2 \in Nat,
         OwnerSlot(g, h1) # OwnerSlot(g, h2),
         NEW t1 \in Nat, NEW t2 \in Nat, NEW d1 \in Nat, NEW d2 \in Nat,
         EndsInsideSlot(g, h1, t1, d1), EndsInsideSlot(g, h2, t2, d2)
  PROVE  t1 + d1 <= t2 \/ t2 + d2 <= t1
  <1> DEFINE E == Epoch(g, t1)  F == Epoch(g, t2)
  <1>1. /\ g.slot \in Nat /\ E \in Nat /\ F \in Nat
        /\ Phase(g, t1) \in Nat /\ t1 = E * g.slot + Phase(g, t1)
        /\ Phase(g, t2) \in Nat /\ t2 = F * g.slot + Phase(g, t2)
    BY GridType, TimeIsStartAndPhase
  <1>2. /\ Phase(g, t1) + d1 <= g.slot /\ Phase(g, t2) + d2 <= g.slot
        /\ E % g.slots # F % g.slots
    BY DEF EndsInsideSlot, OwnsNow, CurrentSlot
  <1>3. E * g.slot \in Nat /\ F * g.slot \in Nat
    BY <1>1
  <1>4. CASE E < F
    <2>1. E * g.slot + g.slot <= F * g.slot
      BY <1>1, <1>4, ProductsAreOrdered
    <2> HIDE DEF E, F
    <2> QED
      BY <1>1, <1>2, <1>3, <2>1
  <1>5. CASE F < E
    <2>1. F * g.slot + g.slot <= E * g.slot
      BY <1>1, <1>5, ProductsAreOrdered
    <2> HIDE DEF E, F
    <2> QED
      BY <1>1, <1>2, <1>3, <2>1
  <1>6. E < F \/ F < E
    <2>1. E # F
      BY <1>2
    <2> HIDE DEF E, F
    <2> QED
      BY <1>1, <2>1
  <1> QED
    BY <1>4, <1>5, <1>6
=============================================================================
