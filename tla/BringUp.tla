------------------------------- MODULE BringUp -------------------------------
(***************************************************************************)
(* run_plan (crates/ndn-radio-hal/src/bringup/plan.rs): a declared plan is *)
(* checked, the transmit question and the deviation are checked against    *)
(* it, its rungs run in order, the gates they wrote are read back, and the *)
(* transmit question is answered.  Every way out carries a report.         *)
(*                                                                         *)
(* A rung is an opaque function of the driver, so what one does is a       *)
(* choice among the outcomes StepOutcome has, and its failure.  Texts are  *)
(* present or blank; times, the rendered report and the digest's hash are  *)
(* left out.                                                               *)
(***************************************************************************)
EXTENDS Naturals, Sequences, FiniteSets, Functions

CONSTANTS
  Requests,   \* the calls of run_plan an instance makes, see Calls below
  StepIds,    \* names of rungs
  Stages,     \* labels of rungs
  Facts,      \* what a rung may establish
  GuardNames, \* what a rung may leave running
  AssertIds   \* names of readbacks

Classes == {"Required", "BestEffort", "Assert", "OutOfBand"}
Rungs == [id : StepIds, stage : Stages, class : Classes,
          why : BOOLEAN,          \* the reason is not blank
          loss : BOOLEAN,         \* the Degradation of a BestEffort rung is stated
          follow : SUBSET StepIds, precede : SUBSET StepIds]
Roles == {"ReceiveOnly", "TransmitOnly", "TransmitAndReceive"}
Proofs == {"None", "BestAvailable", "MacKeyedOrFail", "WitnessOrFail"}
Edits == [op : {"skip", "stop-after", "recorded"}, arg : StepIds \cup Stages, why : BOOLEAN]

\* A call: the plan and what the part offers, and the run the caller asks for.
Calls ==
  [steps : Seq(Rungs), planned : Roles,
   asserts : Seq([id : AssertIds, severity : {"Warn", "Fatal"}]),
   instrument : BOOLEAN, prober : BOOLEAN,
   role : Roles, proof : Proofs, witness : BOOLEAN,
   question : {"none", "blank", "stated"}, edits : Seq(Edits)]

ASSUME CallsAssumption == \A r \in Requests : r \in Calls
\* What a rung establishes or leaves running is told from how it ended.
ASSUME OutcomesAssumption ==
  (Facts \cup GuardNames) \cap {"done", "skipped", "removed", "failed"} = {}

VARIABLES
  call,      \* the arguments of this run
  pc,        \* the stage of run_plan, or how it returned
  at,        \* the rung, then the assert, it has come to
  skip, cut, \* the resolved deviation: rungs not to run, the last one to run
  steps,     \* the report: a record [id, class, out] of each rung
  facts,     \* the report: RadioState::facts
  warnings,  \* the report: who warned
  asserts,   \* the report: the result of each readback
  tx,        \* the report: the answer to the transmit question
  guards,    \* what is left running: Guards, dropped with a failure
  ran        \* history: what the rungs did to the chip, [id, class, out]

report == <<steps, facts, warnings, asserts, tx>>
vars == <<call, pc, at, skip, cut, steps, facts, warnings, asserts, tx, guards, ran>>

Transmits(role) == role \in {"TransmitOnly", "TransmitAndReceive"}

Init ==
  /\ call \in Requests
  /\ pc = "check" /\ at = 1
  /\ skip = {} /\ cut = 0
  /\ steps = <<>> /\ facts = {} /\ warnings = {} /\ asserts = <<>>
  /\ tx = "unreached"
  /\ guards = {} /\ ran = <<>>

----------------------------------------------------------------------------
(* Plan::check, Plan::resolve and validate_proof.                          *)

\* position(): the first rung of that name, or 0.
Position(plan, id) ==
  IF \E i \in DOMAIN plan : plan[i].id = id
    THEN CHOOSE i \in DOMAIN plan :
           plan[i].id = id /\ \A j \in 1 .. i - 1 : plan[j].id # id
    ELSE 0

\* Mutant of Sound: a rung may follow itself, and precede what is not there.
SoundLoosely(plan, i) ==
  /\ plan[i].why
  /\ plan[i].class = "BestEffort" => plan[i].loss
  /\ \A j \in 1 .. i - 1 : plan[j].id # plan[i].id
  /\ \A want \in plan[i].follow : Position(plan, want) \in 1 .. i
  /\ \A want \in plan[i].precede : Position(plan, want) # i
Sound(plan, i) ==
  /\ plan[i].why
  /\ plan[i].class = "BestEffort" => plan[i].loss
  /\ \A j \in 1 .. i - 1 : plan[j].id # plan[i].id
  /\ \A want \in plan[i].follow : Position(plan, want) \in 1 .. i - 1
  /\ \A want \in plan[i].precede : Position(plan, want) > i

Check(plan) == \A i \in DOMAIN plan : Sound(plan, i)

\* Mutant of Answerable: a hard gate on a part with no instrument is let through.
AnswerableBlindly(c) ==
  Transmits(c.role) =>
    /\ c.proof # "None"
    /\ c.proof = "WitnessOrFail" => c.witness
\* validate_proof.
Answerable(c) ==
  Transmits(c.role) =>
    /\ c.proof # "None"
    /\ c.proof = "MacKeyedOrFail" => c.instrument
    /\ c.proof = "WitnessOrFail" => c.witness

EditsOf(c, op) == {e \in Range(c.edits) : c.question # "none" /\ e.op = op}
Labelled(plan, stage) == {i \in DOMAIN plan : plan[i].stage = stage}

Resolves(c) ==
  c.question # "none" =>
    /\ c.question = "stated"
    /\ \A e \in Range(c.edits) : e.why
    /\ \A e \in EditsOf(c, "skip") : Position(c.steps, e.arg) # 0
    /\ \A e \in EditsOf(c, "stop-after") : Labelled(c.steps, e.arg) # {}

\* The last rung with the label, and of two stop-afters the earlier cut.
LastRung(c) ==
  CHOOSE n \in 0 .. Len(c.steps) :
    LET Within(m) == \A e \in EditsOf(c, "stop-after") :
                       \E i \in Labelled(c.steps, e.arg) : m <= i
    IN  Within(n) /\ \A m \in 0 .. Len(c.steps) : Within(m) => m <= n

\* Mutant of Fail: what the run left running outlives its failure.
FailLeavingGuards == pc' = "down" /\ UNCHANGED guards
\* BringUpFailure: the report as it stands, and the guards dropped.
Fail == pc' = "down" /\ guards' = {}

CheckPlan ==
  /\ pc = "check"
  /\ IF Check(call.steps) /\ call.planned = call.role
       THEN pc' = "proof" /\ UNCHANGED guards
       ELSE Fail
  /\ UNCHANGED <<call, at, skip, cut, ran>> /\ UNCHANGED report

ValidateProof ==
  /\ pc = "proof"
  /\ IF Answerable(call) THEN pc' = "resolve" /\ UNCHANGED guards ELSE Fail
  /\ UNCHANGED <<call, at, skip, cut, ran>> /\ UNCHANGED report

Resolve ==
  /\ pc = "resolve"
  /\ IF Resolves(call)
       THEN /\ pc' = "rung"
            /\ skip' = {e.arg : e \in EditsOf(call, "skip")}
            /\ cut' = LastRung(call)
            /\ UNCHANGED guards
       ELSE Fail /\ UNCHANGED <<skip, cut>>
  /\ UNCHANGED <<call, at, ran>> /\ UNCHANGED report

----------------------------------------------------------------------------
(* The rungs.                                                              *)

Rung == call.steps[at]
Removed == Rung.id \in skip \/ at > cut
AtRung == pc = "rung" /\ at <= Len(call.steps)
Record(out) == [id |-> Rung.id, class |-> Rung.class, out |-> out]

\* Removed by the deviation: recorded, and not run.
SkipRung ==
  /\ AtRung /\ Removed
  /\ steps' = Append(steps, Record("removed"))
  /\ at' = at + 1
  /\ UNCHANGED <<call, pc, skip, cut, facts, warnings, asserts, tx, guards, ran>>

\* The rung runs to its end: done or branched, nothing to do, a fact, a guard.
RunRung ==
  /\ AtRung /\ ~Removed
  /\ \E out \in {"done", "skipped"} \cup Facts \cup GuardNames :
       /\ ran' = Append(ran, Record(out))
       /\ steps' = Append(steps, Record(out))
       /\ facts' = facts \cup ({out} \cap Facts)
       /\ guards' = guards \cup ({out} \cap GuardNames)
  /\ at' = at + 1
  /\ UNCHANGED <<call, pc, skip, cut, warnings, asserts, tx>>

\* Mutants of RungFails: a failure that is not fatal is not warned about; an
\* out-of-band rung that did not validate is continued past.
RungFailsQuietly ==
  /\ AtRung /\ ~Removed
  /\ ran' = Append(ran, Record("failed"))
  /\ steps' = Append(steps, Record("failed"))
  /\ IF Rung.class \in {"Required", "OutOfBand"}
       THEN Fail /\ UNCHANGED at
       ELSE at' = at + 1 /\ UNCHANGED <<pc, guards>>
  /\ UNCHANGED <<call, skip, cut, facts, warnings, asserts, tx>>
RungFailsOn ==
  /\ AtRung /\ ~Removed
  /\ ran' = Append(ran, Record("failed"))
  /\ steps' = Append(steps, Record("failed"))
  /\ warnings' = warnings \cup {Rung.id}
  /\ IF Rung.class = "Required"
       THEN Fail /\ UNCHANGED at
       ELSE at' = at + 1 /\ UNCHANGED <<pc, guards>>
  /\ UNCHANGED <<call, skip, cut, facts, asserts, tx>>
\* The rung fails, which is the end of the run or a warning, by its class.
RungFails ==
  /\ AtRung /\ ~Removed
  /\ ran' = Append(ran, Record("failed"))
  /\ steps' = Append(steps, Record("failed"))
  /\ warnings' = IF Rung.class = "Required" THEN warnings ELSE warnings \cup {Rung.id}
  /\ IF Rung.class \in {"Required", "OutOfBand"}
       THEN Fail /\ UNCHANGED at
       ELSE at' = at + 1 /\ UNCHANGED <<pc, guards>>
  /\ UNCHANGED <<call, skip, cut, facts, asserts, tx>>

RungsDone ==
  /\ pc = "rung" /\ at > Len(call.steps)
  /\ pc' = "assert" /\ at' = 1
  /\ UNCHANGED <<call, skip, cut, guards, ran>> /\ UNCHANGED report

----------------------------------------------------------------------------
(* The readbacks, and the transmit question.                               *)

\* A gate reads as wanted, or not, or cannot be read.
ReadAssert ==
  /\ pc = "assert" /\ at <= Len(call.asserts)
  /\ \E ok \in BOOLEAN :
       /\ asserts' = Append(asserts, ok)
       /\ IF ok \/ call.asserts[at].severity = "Warn"
            THEN at' = at + 1 /\ UNCHANGED <<pc, guards>>
            ELSE Fail /\ UNCHANGED at
       /\ warnings' = IF ok \/ call.asserts[at].severity = "Fatal" THEN warnings
                      ELSE warnings \cup {call.asserts[at].id}
  /\ UNCHANGED <<call, skip, cut, steps, facts, tx, ran>>

AssertsDone ==
  /\ pc = "assert" /\ at > Len(call.asserts)
  /\ pc' = "tx"
  /\ UNCHANGED <<call, at, skip, cut, guards, ran>> /\ UNCHANGED report

\* tx_proof returns an answer, whether it refuses the run, and may warn.
Answer(answer, refused, warned) ==
  /\ tx' = answer
  /\ warnings' = IF warned THEN warnings \cup {"tx_proof"} ELSE warnings
  /\ IF refused THEN Fail ELSE pc' = "up" /\ UNCHANGED guards
  /\ UNCHANGED <<call, at, skip, cut, steps, facts, asserts, ran>>

ByWitness == Transmits(call.role) /\ call.proof = "WitnessOrFail"
ByInstrument == Transmits(call.role) /\ call.proof # "WitnessOrFail"
Hard == call.proof = "MacKeyedOrFail"

NotAsked == pc = "tx" /\ ~Transmits(call.role) /\ Answer("NotRequested", FALSE, FALSE)

\* The peer decodes enough of the probes, too few, or cannot be asked.
AskWitness ==
  /\ pc = "tx" /\ ByWitness
  /\ \/ Answer("WitnessDecoded", FALSE, FALSE)
     \/ Answer("WitnessDecoded", TRUE, FALSE)
     \/ Answer("Unprovable", TRUE, FALSE)

NoInstrument ==
  pc = "tx" /\ ByInstrument /\ ~call.instrument /\ Answer("Unprovable", FALSE, FALSE)

NoProber ==
  /\ pc = "tx" /\ ByInstrument /\ call.instrument /\ ~call.prober
  /\ Answer("Unprovable", Hard, FALSE)

\* Mutant of Probe: a transmitter that did not key is only ever warned about.
ProbeSoftly ==
  /\ pc = "tx" /\ ByInstrument /\ call.instrument /\ call.prober
  /\ \/ Answer("MacKeyed", FALSE, FALSE)
     \/ Answer("Refuted", FALSE, TRUE)
     \/ Answer("Unprovable", Hard, TRUE)
\* The instrument moves, or does not, or the probe cannot be taken.
Probe ==
  /\ pc = "tx" /\ ByInstrument /\ call.instrument /\ call.prober
  /\ \/ Answer("MacKeyed", FALSE, FALSE)
     \/ Answer("Refuted", Hard, ~Hard)
     \/ Answer("Unprovable", Hard, TRUE)

Next ==
  \/ CheckPlan \/ ValidateProof \/ Resolve
  \/ SkipRung \/ RunRung \/ RungFails \/ RungsDone
  \/ ReadAssert \/ AssertsDone
  \/ NotAsked \/ AskWitness \/ NoInstrument \/ NoProber \/ Probe

Spec == Init /\ [][Next]_vars

----------------------------------------------------------------------------
Outcomes == {"done", "skipped", "removed", "failed"} \cup Facts \cup GuardNames
Records == [id : StepIds, class : Classes, out : Outcomes]

\* The state of run_plan keeps its types: facts are facts, guards are guards, and
\* the cut of a deviation is a rung of the plan or none.
TypeOK ==
  /\ call \in Requests
  /\ pc \in {"check", "proof", "resolve", "rung", "assert", "tx", "up", "down"}
  /\ at \in Nat \ {0}
  /\ skip \subseteq StepIds /\ cut \in 0 .. Len(call.steps)
  /\ steps \in Seq(Records) /\ ran \in Seq(Records)
  /\ facts \subseteq Facts /\ guards \subseteq GuardNames
  /\ warnings \subseteq StepIds \cup AssertIds \cup {"tx_proof"}
  /\ asserts \in Seq(BOOLEAN)
  /\ tx \in {"unreached", "NotRequested", "Unprovable", "MacKeyed", "Refuted",
             "WitnessDecoded"}

\* "checked at plan construction -- so TSSI before enable_tx stops being prose":
\* whenever a rung has run, the rungs it must follow were come to before it, and
\* the rungs it must precede were not.
RanInOrder ==
  \A i \in DOMAIN ran :
    \E k \in DOMAIN steps :
      /\ steps[k] = ran[i]
      /\ \A want \in call.steps[k].follow : \E j \in 1 .. k - 1 : steps[j].id = want
      /\ \A want \in call.steps[k].precede : \A j \in 1 .. k : steps[j].id # want

\* The rungs among the first k of a report that the deviation did not remove.
Kept(s, k) == {j \in 1 .. k : s[j].out # "removed"}

\* "A failure still says how far it got" (run_plan), and so does a success: the
\* report holds the plan's rungs in their order up to where the run came, what ran
\* is what it holds and was not removed, in that order and with what each one did,
\* and nothing ran after a rung whose failure is fatal.
ReportTellsWhatRan ==
  /\ Len(ran) = Cardinality(Kept(steps, Len(steps)))
  /\ \A k \in Kept(steps, Len(steps)) : ran[Cardinality(Kept(steps, k))] = steps[k]
  /\ \A i \in DOMAIN steps : steps[i].id = call.steps[i].id
  /\ pc \in {"assert", "tx", "up"} => Len(steps) = Len(call.steps)
  /\ \A i \in DOMAIN ran :
       ran[i].out = "failed" /\ ran[i].class \in {"Required", "OutOfBand"} =>
         i = Len(ran) /\ pc = "down"

\* LAW 6, "every Fact lands in RadioState::facts", on the failing ways out too;
\* and what is left running after a success is what the report names.
EffectsAreReported ==
  /\ facts = {s.out : s \in Range(ran)} \cap Facts
  /\ pc = "up" => guards = {s.out : s \in Range(steps)} \cap GuardNames
  /\ pc = "down" => guards = {}

\* "Continuing past a failure without naming what is lost is the bare `let _ =`
\* this contract removes": every failure that did not end the run has its warning.
NothingLostSilently ==
  /\ \A s \in Range(ran) : s.out = "failed" /\ s.class # "Required" => s.id \in warnings
  /\ \A i \in DOMAIN asserts : ~asserts[i] =>
       IF call.asserts[i].severity = "Fatal" THEN pc = "down"
       ELSE call.asserts[i].id \in warnings

\* LAW 4: a radio that intends to transmit does not come up unexamined; a hard
\* gate passes on its own proof only; a soft one never hides a refutation.
TransmitterExamined ==
  pc = "up" /\ Transmits(call.role) =>
    /\ tx \in {"MacKeyed", "WitnessDecoded", "Refuted", "Unprovable"}
    /\ call.proof = "MacKeyedOrFail" => tx = "MacKeyed"
    /\ call.proof = "WitnessOrFail" => tx = "WitnessDecoded"
    /\ tx = "Refuted" => "tx_proof" \in warnings
=============================================================================
