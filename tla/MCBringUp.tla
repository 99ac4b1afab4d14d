------------------------------ MODULE MCBringUp ------------------------------
(* An instance of BringUp for TLC: the plans, parts and runs it tries. *)
EXTENDS BringUp, TLC

Step(id, stage, class, follow, precede) ==
  [id |-> id, stage |-> stage, class |-> class, why |-> TRUE, loss |-> TRUE,
   follow |-> follow, precede |-> precede]

\* Three rungs of any classes, the second after the first and before the third;
\* the labels are not sorted.
Good(x, y, z) ==
  <<Step("a", "Tune", x, {}, {}),
    Step("b", "Power", y, {"a"}, {"c"}),
    Step("c", "Tune", z, {}, {})>>
Typical == Good("Required", "BestEffort", "Assert")

GoodPlans == {Good(x, y, z) : x, y, z \in Classes}
BadPlans ==
  {<<Step("a", "Tune", "Required", {f}, {}), Step("b", "Power", "Required", {}, {p})>> :
     f, p \in StepIds} \cup
  {<<Step("a", "Tune", "Required", {}, {}), Step("a", "Power", "Required", {"a"}, {})>>,
   <<[Step("a", "Tune", "Required", {}, {}) EXCEPT !.why = FALSE]>>,
   <<[Step("a", "Tune", "BestEffort", {}, {}) EXCEPT !.loss = FALSE]>>}

Skip(id) == [op |-> "skip", arg |-> id, why |-> TRUE]
Stop(stage) == [op |-> "stop-after", arg |-> stage, why |-> TRUE]
Deviations ==
  {<<>>, <<Skip("b")>>, <<Stop("Tune")>>, <<Stop("Power")>>, <<Stop("Tune"), Stop("Power")>>,
   <<Skip("a"), Stop("Power")>>, <<Skip("d")>>, <<Stop("Verify")>>,
   <<[op |-> "recorded", arg |-> "a", why |-> TRUE]>>,
   <<[Skip("b") EXCEPT !.why = FALSE]>>}

Base ==
  [steps |-> Typical, planned |-> "TransmitAndReceive",
   asserts |-> <<[id |-> "TXENAB", severity |-> "Warn"], [id |-> "CR", severity |-> "Fatal"]>>,
   instrument |-> TRUE, prober |-> TRUE,
   role |-> "TransmitAndReceive", proof |-> "BestAvailable", witness |-> FALSE,
   question |-> "none", edits |-> <<>>]

MCRequests ==
  {[Base EXCEPT !.steps = s, !.asserts = <<>>] : s \in GoodPlans \cup BadPlans} \cup
  {[Base EXCEPT !.edits = d, !.question = q] : d \in Deviations, q \in {"blank", "stated"}} \cup
  {[Base EXCEPT !.role = r, !.proof = p, !.witness = w, !.instrument = i, !.prober = b] :
     r \in {"ReceiveOnly", "TransmitAndReceive"}, p \in Proofs,
     w \in BOOLEAN, i \in BOOLEAN, b \in BOOLEAN} \cup
  {[Base EXCEPT !.role = "ReceiveOnly", !.planned = "ReceiveOnly", !.proof = p] : p \in Proofs}
=============================================================================
