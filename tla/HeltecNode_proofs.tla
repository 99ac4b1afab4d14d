------------------------- MODULE HeltecNode_proofs -------------------------
(* Theorems about HeltecNode, for every value of its constants. *)
EXTENDS HeltecNode, FiniteSetTheorems, TLAPS

LEMMA Parameters ==
  /\ HomeFreq \in Freqs /\ HomeMod \in Mods /\ HopLists \subseteq Seq(Freqs)
  /\ Delays \subseteq Nat /\ MaxCmds \in Nat /\ StageBudget \in Nat /\ LbtAttempts \in Nat
  BY ParametersAssumption

----------------------------------------------------------------------------
(* What the helpers return.                                                 *)

LEMMA ChipWith ==
  ASSUME NEW c \in Chips, NEW a \in Modes, NEW m \in Mods, NEW f \in Freqs,
         NEW i \in BOOLEAN, NEW g \in BOOLEAN, NEW x \in 0 .. MaxCmds
  PROVE  [c EXCEPT !.mode = a, !.mod = m, !.frf = f, !.hopIrq = i, !.hopFlag = g,
                   !.fifo = x] \in Chips
  BY DEF Chips, Modes

LEMMA ArmTypes ==
  ASSUME TypeOK, NEW k \in Nat, NEW c \in Chips, NEW md \in Modes
  PROVE  ArmUpTo(k, c, md) \in Chips /\ ArmMode(k, md) \in Modes
  <1> DEFINE a == IF k >= 6 THEN "rx" ELSE IF k >= 1 THEN ToStandby(c, md).mode ELSE c.mode
             m == IF k >= 2 THEN mdltn.mod ELSE c.mod
             f == IF k >= 3 THEN p.freq ELSE c.frf
             i == IF k >= 5 THEN hop.on ELSE k < 4 /\ c.hopIrq
             g == (k < 5 \/ ~hop.on) /\ c.hopFlag
             x == IF k >= 6 THEN 0 ELSE c.fifo
  <1>1. ToStandby(c, md).mode \in Modes
    BY DEF ToStandby, Chips, Modes
  <1>2. p.freq \in Freqs /\ mdltn.mod \in Mods /\ hop.on \in BOOLEAN
    BY DEF TypeOK, Knobs
  <1>3. a \in Modes /\ m \in Mods /\ f \in Freqs /\ x \in 0 .. MaxCmds
    BY <1>1, <1>2, Parameters DEF Chips, Modes
  <1>4. i \in BOOLEAN /\ g \in BOOLEAN
    BY <1>2 DEF Chips
  <1>5. ArmUpTo(k, c, md) = [c EXCEPT !.mode = a, !.mod = m, !.frf = f, !.hopIrq = i,
                                      !.hopFlag = g, !.fifo = x]
    BY DEF ArmUpTo
  <1>6. ArmMode(k, md) \in Modes
    BY DEF ArmMode, Modes
  <1> HIDE DEF a, m, f, i, g, x
  <1>7. [c EXCEPT !.mode = a, !.mod = m, !.frf = f, !.hopIrq = i, !.hopFlag = g,
                  !.fifo = x] \in Chips
    BY <1>3, <1>4, ChipWith, Zenon
  <1> QED
    BY <1>5, <1>6, <1>7

LEMMA StageTypes ==
  ASSUME TypeOK, NEW k \in Nat, NEW c \in Chips, NEW md \in Modes, NEW id \in 0 .. MaxCmds
  PROVE  StageUpTo(k, c, md, id) \in Chips /\ StageMode(k, md) \in Modes
  <1> DEFINE a == IF k >= 1 THEN ToStandby(c, md).mode ELSE c.mode
             m == IF k >= 2 THEN mdltn.mod ELSE c.mod
             f == IF k >= 3 THEN p.freq ELSE c.frf
             x == IF k >= 4 THEN id ELSE c.fifo
             i == IF k >= 6 THEN hop.on ELSE k < 5 /\ c.hopIrq
             g == (k < 6 \/ ~hop.on) /\ c.hopFlag
  <1>1. ToStandby(c, md).mode \in Modes
    BY DEF ToStandby, Chips, Modes
  <1>2. p.freq \in Freqs /\ mdltn.mod \in Mods /\ hop.on \in BOOLEAN
    BY DEF TypeOK, Knobs
  <1>3. a \in Modes /\ m \in Mods /\ f \in Freqs /\ x \in 0 .. MaxCmds
    BY <1>1, <1>2, Parameters DEF Chips, Modes
  <1>4. i \in BOOLEAN /\ g \in BOOLEAN
    BY <1>2 DEF Chips
  <1>5. StageUpTo(k, c, md, id) = [c EXCEPT !.mode = a, !.mod = m, !.frf = f, !.hopIrq = i,
                                            !.hopFlag = g, !.fifo = x]
    BY <1>1 DEF StageUpTo, Chips
  <1>6. StageMode(k, md) \in Modes
    BY DEF StageMode, Modes
  <1> HIDE DEF a, m, f, i, g, x
  <1>7. [c EXCEPT !.mode = a, !.mod = m, !.frf = f, !.hopIrq = i, !.hopFlag = g,
                  !.fifo = x] \in Chips
    BY <1>3, <1>4, ChipWith, Zenon
  <1> QED
    BY <1>5, <1>6, <1>7

LEMMA ChipTypes ==
  ASSUME TypeOK, NEW c \in Chips, NEW md \in Modes
  PROVE  /\ ToStandby(c, md) \in Chips
         /\ \A m \in Mods, cleared \in BOOLEAN : CadDone(c, m, cleared) \in Chips
  <1>1. p.freq \in Freqs
    BY DEF TypeOK, Knobs
  <1>2. ToStandby(c, md) \in Chips
    BY DEF ToStandby, Chips, Modes
  <1>3. ASSUME NEW m \in Mods, NEW cleared \in BOOLEAN
        PROVE  CadDone(c, m, cleared) \in Chips
    BY <1>1, <1>3 DEF CadDone, Chips, Modes
  <1> QED
    BY <1>2, <1>3

LEMMA CadStepTypes ==
  ASSUME TypeOK, NEW k \in Nat, NEW c \in Chips, NEW md \in Modes, NEW m \in Mods
  PROVE  CadUpTo(k, c, md, m) \in Chips /\ CadMode(k, md) \in Modes
  <1> DEFINE a == IF k >= 5 THEN "cad" ELSE IF k >= 1 THEN ToStandby(c, md).mode ELSE c.mode
             n == IF k >= 2 THEN m ELSE c.mod
             f == IF k >= 3 THEN p.freq ELSE c.frf
             i == k < 4 /\ c.hopIrq
  <1>1. ToStandby(c, md).mode \in Modes
    BY DEF ToStandby, Chips, Modes
  <1>2. p.freq \in Freqs
    BY DEF TypeOK, Knobs
  <1>3. a \in Modes /\ n \in Mods /\ f \in Freqs /\ i \in BOOLEAN
    BY <1>1, <1>2 DEF Chips, Modes
  <1>4. CadUpTo(k, c, md, m) = [c EXCEPT !.mode = a, !.mod = n, !.frf = f, !.hopIrq = i]
    BY DEF CadUpTo
  <1>5. CadMode(k, md) \in Modes
    BY DEF CadMode, Modes
  <1> HIDE DEF a, n, f, i
  <1>6. [c EXCEPT !.mode = a, !.mod = n, !.frf = f, !.hopIrq = i] \in Chips
    BY <1>3 DEF Chips
  <1> QED
    BY <1>4, <1>5, <1>6

\* What a handler may make of the radio.
Outcomes == [chip: Chips, mode: Modes, ok: BOOLEAN]

LEMMA RadioTypes ==
  ASSUME TypeOK, NEW md \in Modes
  PROVE  /\ Radio(md) \in Outcomes
         /\ Radio(md).chip = chip /\ Radio(md).mode = md
  BY DEF TypeOK, Radio, Outcomes

LEMMA BecomesTypes ==
  ASSUME TypeOK, NEW r \in Outcomes, Becomes(r)
  PROVE  /\ chip' \in Chips /\ mode' \in Modes /\ faults' \in Nat
         /\ chip' = r.chip /\ mode' = r.mode
  BY DEF TypeOK, Becomes, Outcomes, Fault, NoFault

\* The three ways a CAD ends.
LEMMA CadCases ==
  ASSUME NEW r, NEW m, NEW s \in Cad(r, m)
  PROVE  \/ s = CadEnds(r, m)
         \/ \E cleared \in BOOLEAN :
              s = [chip |-> CadDone(r.chip, m, cleared), mode |-> "standby", ok |-> FALSE]
         \/ \E k \in Nat :
              s = [chip |-> CadUpTo(k, r.chip, r.mode, m), mode |-> CadMode(k, r.mode),
                   ok |-> FALSE]
  BY DEF Cad, Failing, CadSteps

LEMMA CadTypes ==
  ASSUME TypeOK, NEW r \in Outcomes, NEW m \in Mods
  PROVE  CadEnds(r, m) \in Outcomes /\ Cad(r, m) \subseteq Outcomes
  <1>1. r.chip \in Chips /\ r.mode \in Modes /\ r.ok \in BOOLEAN /\ "standby" \in Modes
    BY DEF Outcomes, Modes
  <1>2. \A cleared \in BOOLEAN : CadDone(r.chip, m, cleared) \in Chips
    BY <1>1, ChipTypes
  <1>3. \A k \in Nat : /\ CadUpTo(k, r.chip, r.mode, m) \in Chips
                       /\ CadMode(k, r.mode) \in Modes
    BY <1>1, CadStepTypes
  <1>4. CadEnds(r, m) \in Outcomes
    BY <1>1, <1>2 DEF CadEnds, Outcomes
  <1>5. ASSUME NEW s \in Cad(r, m) PROVE s \in Outcomes
    <2>1. CASE s = CadEnds(r, m)
      BY <1>4, <2>1
    <2>2. CASE \E cleared \in BOOLEAN :
                 s = [chip |-> CadDone(r.chip, m, cleared), mode |-> "standby", ok |-> FALSE]
      BY <1>1, <1>2, <2>2 DEF Outcomes
    <2>3. CASE \E k \in Nat :
                 s = [chip |-> CadUpTo(k, r.chip, r.mode, m), mode |-> CadMode(k, r.mode),
                      ok |-> FALSE]
      BY <1>3, <2>3 DEF Outcomes
    <2> QED
      BY <1>5, <2>1, <2>2, <2>3, CadCases
  <1> QED
    BY <1>4, <1>5

LEMMA CadsTypes ==
  ASSUME TypeOK, NEW r \in Outcomes, NEW ms \in SUBSET Mods
  PROVE  Cads(r, ms) \subseteq Outcomes
  BY CadTypes DEF Cads

\* The ways a reading of the RSSI ends.
LEMMA RssiCases ==
  ASSUME NEW r, NEW s \in SenseRssi(r)
  PROVE  \/ s = Listens(r) \/ s = [Listens(r) EXCEPT !.ok = FALSE]
         \/ \E k \in Nat :
              s = [chip |-> ArmUpTo(k, r.chip, r.mode), mode |-> ArmMode(k, r.mode),
                   ok |-> FALSE]
  BY DEF SenseRssi, Failing, ArmSteps

LEMMA RssiTypes ==
  ASSUME TypeOK, NEW r \in Outcomes
  PROVE  Listens(r) \in Outcomes /\ SenseRssi(r) \subseteq Outcomes
  <1>1. r.chip \in Chips /\ r.mode \in Modes /\ r.ok \in BOOLEAN /\ "rx" \in Modes
    BY DEF Outcomes, Modes
  <1>2. \A k \in Nat : /\ ArmUpTo(k, r.chip, r.mode) \in Chips
                       /\ ArmMode(k, r.mode) \in Modes
    BY <1>1, ArmTypes
  <1>3. Listens(r) \in Outcomes
    BY <1>1, <1>2 DEF Listens, Outcomes, ArmSteps
  <1>4. [Listens(r) EXCEPT !.ok = FALSE] \in Outcomes
    BY <1>3 DEF Outcomes
  <1>5. ASSUME NEW s \in SenseRssi(r) PROVE s \in Outcomes
    <2>1. CASE s = Listens(r) \/ s = [Listens(r) EXCEPT !.ok = FALSE]
      BY <1>3, <1>4, <2>1
    <2>2. CASE \E k \in Nat :
                 s = [chip |-> ArmUpTo(k, r.chip, r.mode), mode |-> ArmMode(k, r.mode),
                      ok |-> FALSE]
      BY <1>2, <2>2 DEF Outcomes
    <2> QED
      BY <1>5, <2>1, <2>2, RssiCases
  <1> QED
    BY <1>3, <1>5

LEMMA HopRegsTypes ==
  ASSUME NEW c \in Chips, NEW k \in Nat, NEW on \in BOOLEAN
  PROVE  HopRegs(k, c, on) \in Chips
  BY DEF HopRegs, Chips

\* Records whose fields change.
LEMMA KnobsWith ==
  ASSUME NEW q \in Knobs, NEW f \in Freqs
  PROVE  [q EXCEPT !.freq = f] \in Knobs
  BY DEF Knobs

LEMMA HopsWith ==
  ASSUME NEW on \in BOOLEAN, NEW l \in Seq(Freqs), NEW b \in Freqs \cup {NoFreq}
  PROVE  /\ [on |-> on, list |-> l, base |-> b]
              \in [on: BOOLEAN, list: Seq(Freqs), base: Freqs \cup {NoFreq}]
         /\ \A h \in [on: BOOLEAN, list: Seq(Freqs), base: Freqs \cup {NoFreq}] :
              [h EXCEPT !.on = on, !.list = l]
                \in [on: BOOLEAN, list: Seq(Freqs), base: Freqs \cup {NoFreq}]
  OBVIOUS

\* The first element of a list is set.
LEMMA FirstSet ==
  ASSUME NEW S, NEW s \in Seq(S), NEW x \in S
  PROVE  /\ [s EXCEPT ![1] = x] \in Seq(S)
         /\ s # <<>> => [s EXCEPT ![1] = x] # <<>> /\ [s EXCEPT ![1] = x][1] = x
  <1> DEFINE t == [s EXCEPT ![1] = x]
  <1>1. DOMAIN t = DOMAIN s /\ Len(s) \in Nat /\ DOMAIN s = 1 .. Len(s)
    OBVIOUS
  <1>2. \A i \in 1 .. Len(s) : t[i] = (IF i = 1 THEN x ELSE s[i]) /\ s[i] \in S
    OBVIOUS
  <1>3. t = [i \in 1 .. Len(s) |-> t[i]]
    BY <1>1
  <1> HIDE DEF t
  <1>4. \A i \in 1 .. Len(s) : t[i] \in S
    BY <1>2
  <1>5. t \in Seq(S)
    BY <1>1, <1>3, <1>4
  <1>6. s # <<>> => 1 \in 1 .. Len(s)
    BY <1>1
  <1>7. s # <<>> => t # <<>> /\ t[1] = x
    BY <1>1, <1>2, <1>6
  <1> QED
    BY <1>5, <1>7 DEF t

LEMMA HeadTail ==
  ASSUME NEW S, NEW s \in Seq(S), s # <<>>
  PROVE  Head(s) \in S /\ Tail(s) \in Seq(S)
  OBVIOUS

LEMMA ElementOf ==
  ASSUME NEW S, NEW s \in Seq(S), NEW n \in 1 .. Len(s)
  PROVE  s[n] \in S
  OBVIOUS

\* A command taken from the queue.
LEMMA CommandTypes ==
  ASSUME TypeOK, cmdq # <<>>
  PROVE  /\ Id \in Ids /\ Id \in 0 .. MaxCmds /\ Id # 0 /\ Cmd \in Commands
         /\ Tail(cmdq) \in Seq([id: Ids, cmd: Commands])
         /\ Cmd.op = "freq" => Cmd.freq \in Freqs
         /\ Cmd.op = "mod" => Cmd.mod \in Mods
         /\ Cmd.op = "beacon" => Cmd.on \in BOOLEAN
         /\ Cmd.op \in {"at", "abs"} => Cmd.when \in Nat
         /\ Cmd.op = "hop" => /\ Cmd.on \in BOOLEAN /\ Cmd.list \in Seq(Freqs)
                              /\ Cmd.on => Cmd.list # <<>>
  <1>1. Head(cmdq) \in [id: Ids, cmd: Commands] /\ Tail(cmdq) \in Seq([id: Ids, cmd: Commands])
    <2>1. cmdq \in Seq([id: Ids, cmd: Commands])
      BY DEF TypeOK
    <2> QED
      BY <2>1, HeadTail
  <1>2. Id \in Ids /\ Cmd \in Commands
    BY <1>1 DEF Id, Cmd
  <1>3. Id \in 0 .. MaxCmds /\ Id # 0
    BY <1>2, Parameters DEF Ids
  <1> QED
    BY <1>1, <1>2, <1>3, Parameters DEF Commands

LEMMA AnswerTypes ==
  ASSUME TypeOK, NEW id \in 0 .. MaxCmds
  PROVE  Answered(id) \in [Ids -> Nat] /\ {id} \cap Ids \subseteq Ids
  BY Parameters DEF TypeOK, Answered, Ids

\* The demotion of a staged frame.
LEMMA DemotedTypes ==
  ASSUME TypeOK
  PROVE  Demoted \in Slots /\ DemotedMode \in Modes
  BY DEF TypeOK, Demoted, DemotedMode, Slots, Modes

----------------------------------------------------------------------------
(* Types.                                                                   *)

LEMMA InitTypeOK == Init => TypeOK
  <1> SUFFICES ASSUME Init PROVE TypeOK
    OBVIOUS
  <1>1. cmdq \in Seq([id: Ids, cmd: Commands])
    BY DEF Init
  <1>2. hop \in [on: BOOLEAN, list: Seq(Freqs), base: Freqs \cup {NoFreq}]
    BY DEF Init
  <1>3. job \in Jobs /\ sched \in Slots
    BY Parameters DEF Init, Jobs, NoJob, Slots, Idle
  <1>4. p \in Knobs /\ mdltn \in Knobs
    BY Parameters DEF Init, Knobs
  <1>5. chip \in Chips
    BY Parameters DEF Init, Chips, Modes
  <1>6. now \in Nat /\ open \subseteq Ids /\ replies \in [Ids -> Nat] /\ keyed \in [Ids -> Nat]
    BY DEF Init
  <1>7. /\ beacon \in [on: BOOLEAN, due: BOOLEAN]
        /\ pc \in {"top", "select", "lbt", "clear", "send", "fire", "beacon"}
        /\ rxArmed \in BOOLEAN /\ armFailed \in BOOLEAN /\ mode \in Modes
        /\ lostStandby \in BOOLEAN
        /\ faults \in Nat /\ hops \in Nat /\ received \in Nat /\ beacons \in Nat
    BY DEF Init, Modes
  <1> QED
    BY <1>1, <1>2, <1>3, <1>4, <1>5, <1>6, <1>7 DEF TypeOK

LEMMA KeyUpTypes ==
  ASSUME TypeOK, NEW id \in 0 .. MaxCmds, KeyUp(id)
  PROVE  keyed' \in [Ids -> Nat]
  <1>1. keyed \in [Ids -> Nat]
    BY DEF TypeOK
  <1>2. CASE id = 0
    BY <1>1, <1>2 DEF KeyUp
  <1>3. CASE id # 0
    <2>1. keyed' = [keyed EXCEPT ![id] = keyed[id] + 1] /\ id \in Ids
      BY <1>3, Parameters DEF KeyUp, Ids
    <2> QED
      BY <1>1, <2>1
  <1> QED
    BY <1>2, <1>3

\* A transmission that starts, or fails.
LEMMA TransmitTypes ==
  ASSUME TypeOK, NEW c \in Chips, NEW md \in Modes, NEW j \in Jobs, Transmit(c, md, j)
  PROVE  /\ chip' \in Chips /\ mode' \in Modes /\ pc' \in {"top", "fire"} /\ job' \in Jobs
         /\ open' \subseteq Ids /\ replies' \in [Ids -> Nat] /\ keyed' \in [Ids -> Nat]
         /\ faults' \in Nat
  <1>1. j.id \in 0 .. MaxCmds
    BY DEF Jobs
  <1>2. CASE /\ chip' = [StageUpTo(StageSteps, c, md, j.id) EXCEPT !.mode = "tx"]
             /\ mode' = "tx" /\ pc' = "fire" /\ job' = j
             /\ KeyUp(j.id) /\ open' = open \cup ({j.id} \cap Ids)
             /\ NoFault /\ UNCHANGED replies
    <2>1. StageUpTo(StageSteps, c, md, j.id) \in Chips
      BY <1>1, StageTypes DEF StageSteps
    <2>2. chip' \in Chips /\ mode' \in Modes
      BY <1>2, <2>1 DEF Chips, Modes
    <2>3. keyed' \in [Ids -> Nat]
      BY <1>1, <1>2, KeyUpTypes
    <2> QED
      BY <1>2, <2>2, <2>3 DEF TypeOK, NoFault
  <1>3. CASE /\ \/ \E k \in 0..StageSteps - 1 :
                     /\ chip' = StageUpTo(k, c, md, j.id) /\ mode' = StageMode(k, md)
                \/ /\ chip' = StageUpTo(StageSteps, c, md, j.id) /\ mode' = "standby"
             /\ Fault /\ pc' = "top" /\ job' = NoJob
             /\ replies' = Answered(j.id) /\ open' = open \ {j.id} /\ UNCHANGED keyed
    <2>1. chip' \in Chips /\ mode' \in Modes
      <3>1. \A k \in 0 .. StageSteps : /\ StageUpTo(k, c, md, j.id) \in Chips
                                       /\ StageMode(k, md) \in Modes
        BY <1>1, StageTypes DEF StageSteps
      <3> QED
        BY <1>3, <3>1 DEF StageSteps, Modes
    <2>2. job' \in Jobs
      BY <1>3, Parameters DEF NoJob, Jobs
    <2> QED
      BY <1>1, <1>3, <2>1, <2>2, AnswerTypes DEF TypeOK, Fault
  <1> QED
    BY <1>2, <1>3 DEF Transmit

\* A command leaves the queue; the rest of its handler is given by its clean facts.
LEMMA TakeTypes ==
  ASSUME TypeOK, NEW ops, Take(ops)
  PROVE  /\ cmdq' \in Seq([id: Ids, cmd: Commands]) /\ rxArmed' \in BOOLEAN
         /\ UNCHANGED <<now, armFailed, lostStandby, hops, received, beacons>>
         /\ cmdq # <<>> /\ pc = "select" /\ Cmd.op \in ops
  BY CommandTypes DEF Take

LEMMA ReplyTypes ==
  ASSUME TypeOK, cmdq # <<>>, Reply
  PROVE  /\ pc' = "top" /\ replies' \in [Ids -> Nat]
         /\ UNCHANGED <<open, keyed, job>>
  BY CommandTypes, AnswerTypes DEF Reply

\* The handlers' common frame: what is left is chip, mode, p, mdltn, hop, sched, beacon,
\* and the transmission's state.
LEMMA HandlerTypes ==
  ASSUME TypeOK, NEW ops, Take(ops),
         pc' \in {"top", "lbt", "fire"}, job' \in Jobs, p' \in Knobs, mdltn' \in Knobs,
         hop' \in [on: BOOLEAN, list: Seq(Freqs), base: Freqs \cup {NoFreq}],
         sched' \in Slots, beacon' \in [on: BOOLEAN, due: BOOLEAN], mode' \in Modes,
         chip' \in Chips, open' \subseteq Ids, replies' \in [Ids -> Nat],
         keyed' \in [Ids -> Nat], faults' \in Nat
  PROVE  TypeOK'
  <1>1. /\ cmdq' \in Seq([id: Ids, cmd: Commands]) /\ rxArmed' \in BOOLEAN
        /\ UNCHANGED <<now, armFailed, lostStandby, hops, received, beacons>>
    BY TakeTypes
  <1> QED
    BY <1>1 DEF TypeOK, Modes

LEMMA FaultTypes ==
  ASSUME TypeOK, Fault \/ NoFault
  PROVE  faults' \in Nat
  BY DEF TypeOK, Fault, NoFault

LEMMA ServiceHopTypes ==
  ASSUME TypeOK, ServiceHop
  PROVE  /\ chip' \in Chips /\ faults' \in Nat
         /\ hop' \in [on: BOOLEAN, list: Seq(Freqs), base: Freqs \cup {NoFreq}]
  <1>0. /\ chip \in Chips
        /\ hop \in [on: BOOLEAN, list: Seq(Freqs), base: Freqs \cup {NoFreq}]
        /\ \A i \in 1 .. Len(hop.list) : hop.list[i] \in Freqs
    BY DEF TypeOK
  <1>1. chip' \in Chips
    BY <1>0 DEF ServiceHop, Chips
  <1>2. hop' = hop \/ hop' = [hop EXCEPT !.on = FALSE]
    BY DEF ServiceHop
  <1>3. hop' \in [on: BOOLEAN, list: Seq(Freqs), base: Freqs \cup {NoFreq}]
    BY ONLY <1>0, <1>2
  <1> QED
    BY <1>1, <1>3, FaultTypes DEF ServiceHop

LEMMA HandleCmdTypes == TypeOK /\ HandleCmd => TypeOK'
  <1> SUFFICES ASSUME TypeOK, HandleCmd PROVE TypeOK'
    OBVIOUS
  <1>0. /\ Demoted \in Slots /\ DemotedMode \in Modes
        /\ job \in Jobs /\ p \in Knobs /\ mdltn \in Knobs
        /\ hop \in [on: BOOLEAN, list: Seq(Freqs), base: Freqs \cup {NoFreq}]
        /\ sched \in Slots /\ beacon \in [on: BOOLEAN, due: BOOLEAN] /\ mode \in Modes
        /\ chip \in Chips /\ open \subseteq Ids /\ replies \in [Ids -> Nat]
        /\ keyed \in [Ids -> Nat]
    BY DemotedTypes DEF TypeOK, Modes
  <1>1. CASE HandleTx
    <2>1. Take({"tx"}) /\ Transmit(chip, DemotedMode, [who |-> "cmd", id |-> Id, attempt |-> 0])
          /\ sched' = Demoted /\ UNCHANGED <<p, mdltn, hop, beacon>>
      BY <1>1 DEF HandleTx
    <2>2. [who |-> "cmd", id |-> Id, attempt |-> 0] \in Jobs
      BY <2>1, TakeTypes, CommandTypes DEF Jobs
    <2>3. /\ chip' \in Chips /\ mode' \in Modes /\ pc' \in {"top", "fire"} /\ job' \in Jobs
          /\ open' \subseteq Ids /\ replies' \in [Ids -> Nat] /\ keyed' \in [Ids -> Nat]
          /\ faults' \in Nat
      BY <1>0, <2>1, <2>2, TransmitTypes
    <2> QED
      BY <1>0, <2>1, <2>3, HandlerTypes
  <1>2. CASE HandleTxLbt
    <2>1. Id \in Ids /\ [who |-> "cmd", id |-> Id, attempt |-> 0] \in Jobs
      BY <1>2, TakeTypes, CommandTypes DEF HandleTxLbt, Jobs
    <2> QED
      BY <1>0, <1>2, <2>1, HandlerTypes, FaultTypes DEF HandleTxLbt
  <1>3. CASE HandleFreq \/ HandleMod \/ HandleKnob \/ HandleBeacon
    <2>1. cmdq # <<>> /\ Reply /\ sched' = Demoted /\ mode' = DemotedMode
          /\ NoFault /\ UNCHANGED chip
      BY <1>3 DEF HandleFreq, HandleMod, HandleKnob, HandleBeacon, Take
    <2>2. /\ pc' = "top" /\ replies' \in [Ids -> Nat] /\ UNCHANGED <<open, keyed, job>>
          /\ faults' \in Nat
      BY <2>1, ReplyTypes, FaultTypes
    <2>3. CASE HandleFreq
      <3>1. Cmd.freq \in Freqs /\ Take({"freq"}) /\ Retune([p EXCEPT !.freq = Cmd.freq])
            /\ UNCHANGED beacon
        BY <2>3, TakeTypes, CommandTypes DEF HandleFreq
      <3>2. p' \in Knobs /\ mdltn' \in Knobs
        BY <1>0, <3>1 DEF Retune, Knobs
      <3>3. hop' \in [on: BOOLEAN, list: Seq(Freqs), base: Freqs \cup {NoFreq}]
        <4>1. CASE hop.on
          <5>1. hop' = [hop EXCEPT !.list = [hop.list EXCEPT ![1] = p'.freq]]
            BY <1>0, <3>1, <4>1 DEF Retune
          <5>2. p'.freq \in Freqs /\ hop.list \in Seq(Freqs)
            BY <1>0, <3>2 DEF Knobs
          <5>3. [hop.list EXCEPT ![1] = p'.freq] \in Seq(Freqs)
            BY <5>2, FirstSet
          <5> QED
            BY <1>0, <5>1, <5>3
        <4>2. CASE ~hop.on
          BY <1>0, <3>1, <4>2 DEF Retune
        <4> QED
          BY <4>1, <4>2
      <3> QED
        BY <1>0, <2>1, <2>2, <3>1, <3>2, <3>3, HandlerTypes
    <2>4. CASE HandleMod
      <3>1. Cmd.mod \in Mods /\ Take({"mod"}) /\ UNCHANGED <<hop, beacon>>
        BY <2>4, TakeTypes, CommandTypes DEF HandleMod
      <3>2. p' \in Knobs /\ mdltn' \in Knobs
        BY <1>0, <2>4, <3>1 DEF HandleMod, Knobs
      <3> QED
        BY <1>0, <2>1, <2>2, <3>1, <3>2, HandlerTypes
    <2>5. CASE HandleKnob
      BY <1>0, <2>1, <2>2, <2>5, HandlerTypes DEF HandleKnob
    <2>6. CASE HandleBeacon
      <3>1. Take({"beacon"}) /\ UNCHANGED <<p, mdltn, hop>>
            /\ beacon' = [beacon EXCEPT !.on = Cmd.on]
        BY <2>6 DEF HandleBeacon
      <3>2. Cmd.on \in BOOLEAN
        BY <3>1, TakeTypes, CommandTypes
      <3>3. beacon' \in [on: BOOLEAN, due: BOOLEAN]
        BY ONLY <1>0, <3>1, <3>2
      <3> QED
        BY <1>0, <2>1, <2>2, <3>1, <3>3, HandlerTypes
    <2> QED
      BY <1>3, <2>3, <2>4, <2>5, <2>6
  <1>4. CASE HandleStandby \/ HandleCad \/ HandleRssi
    <2>1. cmdq # <<>> /\ Reply /\ sched' = Demoted /\ UNCHANGED <<p, hop, beacon>>
      BY <1>4 DEF HandleStandby, HandleCad, HandleRssi, Take
    <2>2. /\ pc' = "top" /\ replies' \in [Ids -> Nat] /\ UNCHANGED <<open, keyed, job>>
      BY <2>1, ReplyTypes
    <2>0. Radio(DemotedMode) \in Outcomes /\ mdltn.mod \in Mods
      BY <1>0, RadioTypes DEF Knobs
    <2>3. CASE HandleStandby
      <3>1. /\ chip' \in Chips /\ mode' \in Modes /\ faults' \in Nat /\ Take({"standby"})
            /\ UNCHANGED mdltn
        BY <1>0, <2>3, ChipTypes, FaultTypes DEF HandleStandby, Modes
      <3> QED
        BY <1>0, <2>1, <2>2, <3>1, HandlerTypes
    <2>4. CASE HandleCad
      <3>1. PICK r \in Cad(Radio(DemotedMode), mdltn.mod) \cup Sweep(Radio(DemotedMode)) :
              Becomes(r)
        BY <2>4 DEF HandleCad
      <3>2. r \in Outcomes
        BY <2>0, CadTypes, CadsTypes DEF Sweep
      <3>3. mdltn' \in Knobs /\ Take({"cad", "scan"})
        BY <1>0, <2>4 DEF HandleCad
      <3>4. chip' \in Chips /\ mode' \in Modes /\ faults' \in Nat
        BY <3>1, <3>2, BecomesTypes
      <3> QED
        BY <1>0, <2>1, <2>2, <3>3, <3>4, HandlerTypes
    <2>5. CASE HandleRssi
      <3>1. PICK q \in {Radio(DemotedMode)} \cup Cads(Radio(DemotedMode), {mdltn.mod}) :
              \E r \in SenseRssi(q) : Becomes(r)
        BY <2>5 DEF HandleRssi
      <3>2. PICK r \in SenseRssi(q) : Becomes(r)
        BY <3>1
      <3>3. r \in Outcomes
        BY <2>0, <3>1, CadsTypes, RssiTypes
      <3>4. chip' \in Chips /\ mode' \in Modes /\ faults' \in Nat
        BY <3>2, <3>3, BecomesTypes
      <3>5. Take({"rssi", "sense"}) /\ UNCHANGED mdltn
        BY <2>5 DEF HandleRssi
      <3> QED
        BY <1>0, <2>1, <2>2, <3>4, <3>5, HandlerTypes
    <2> QED
      BY <1>4, <2>3, <2>4, <2>5
  <1>5. CASE HandleHop
    <2>1. cmdq # <<>> /\ Reply /\ sched' = Demoted /\ UNCHANGED beacon /\ Take({"hop"})
      BY <1>5 DEF HandleHop, Take
    <2>2. /\ pc' = "top" /\ replies' \in [Ids -> Nat] /\ UNCHANGED <<open, keyed, job>>
      BY <2>1, ReplyTypes
    <2>3. Cmd.on \in BOOLEAN /\ Cmd.list \in Seq(Freqs) /\ (Cmd.on => Cmd.list # <<>>)
      BY <2>1, TakeTypes, CommandTypes
    <2>4. mode' \in Modes /\ faults' \in Nat
      BY <1>0, <1>5, FaultTypes DEF HandleHop, Modes
    <2>5. PICK c \in Chips : HopSet(c) \/ HopSetFails(c)
      BY <1>0, <1>5, ChipTypes DEF HandleHop
    <2>6. chip' \in Chips
      <3>1. \A k \in 0 .. 3, on \in BOOLEAN : HopRegs(k, c, on) \in Chips
        BY HopRegsTypes
      <3>2. CASE HopSet(c)
        <4>1. chip' = HopRegs(3, c, Cmd.on)
          BY <3>2 DEF HopSet
        <4> QED
          BY <2>3, <3>1, <4>1
      <3>3. CASE HopSetFails(c)
        <4>1. PICK k \in 0 .. 2, l \in 0 .. 3 :
                chip' = HopRegs(l, HopRegs(k, c, Cmd.on), FALSE)
          BY <3>3 DEF HopSetFails
        <4>2. HopRegs(k, c, Cmd.on) \in Chips /\ l \in Nat
          BY <2>3, <3>1
        <4> QED
          BY <4>1, <4>2, HopRegsTypes
      <3> QED
        BY <2>5, <3>2, <3>3
    <2>7. CASE HopSet(c)
      <3>1. Restored \in Knobs
        <4>1. hop.base # NoFreq => hop.base \in Freqs
          BY <1>0
        <4> QED
          BY <1>0, <4>1, KnobsWith DEF Restored
      <3>2. Cmd.on => Cmd.list[1] \in Freqs
        BY <2>3
      <3>3. p' \in Knobs /\ mdltn' \in Knobs
        <4> DEFINE q == IF Cmd.on THEN [p EXCEPT !.freq = Cmd.list[1]] ELSE Restored
        <4>1. q \in Knobs
          BY <1>0, <3>1, <3>2, KnobsWith
        <4>2. /\ p' = IF Accepted(q) \/ ~Cmd.on THEN q ELSE p
              /\ mdltn' = IF Accepted(q) THEN q ELSE mdltn
          BY <2>7 DEF HopSet
        <4> HIDE DEF q
        <4> QED
          BY <1>0, <4>1, <4>2
      <3>4. hop' \in [on: BOOLEAN, list: Seq(Freqs), base: Freqs \cup {NoFreq}]
        <4>1. p'.freq \in Freqs /\ p.freq \in Freqs /\ hop.base \in Freqs \cup {NoFreq}
          BY <1>0, <3>3 DEF Knobs
        <4>2. [Cmd.list EXCEPT ![1] = p'.freq] \in Seq(Freqs)
          BY <2>3, <4>1, FirstSet
        <4> DEFINE l == IF Cmd.on THEN [Cmd.list EXCEPT ![1] = p'.freq] ELSE Cmd.list
                   b == IF ~Cmd.on THEN NoFreq
                        ELSE IF hop.base = NoFreq THEN p.freq ELSE hop.base
        <4>3. hop' = [on |-> Cmd.on, list |-> l, base |-> b]
          BY <2>7 DEF HopSet
        <4>4. l \in Seq(Freqs) /\ b \in Freqs \cup {NoFreq}
          BY <2>3, <4>1, <4>2
        <4> HIDE DEF l, b
        <4> QED
          BY <2>3, <4>3, <4>4, HopsWith
      <3> QED
        BY <1>0, <2>1, <2>2, <2>4, <2>6, <3>3, <3>4, HandlerTypes
    <2>8. CASE HopSetFails(c)
      <3>1. hop' \in [on: BOOLEAN, list: Seq(Freqs), base: Freqs \cup {NoFreq}]
            /\ UNCHANGED <<p, mdltn>>
        <4>1. hop' = [hop EXCEPT !.on = FALSE, !.list = Cmd.list] /\ UNCHANGED <<p, mdltn>>
          BY <2>8 DEF HopSetFails
        <4>2. NoFreq \in Freqs \cup {NoFreq}
          OBVIOUS
        <4> QED
          BY <1>0, <2>3, <4>1, <4>2, HopsWith
      <3> QED
        BY <1>0, <2>1, <2>2, <2>4, <2>6, <3>1, HandlerTypes
    <2> QED
      BY <2>5, <2>7, <2>8
  <1>6. CASE HandleTxAt
    <2>1. /\ Take({"at", "abs"}) /\ cmdq # <<>> /\ mode' = DemotedMode /\ NoFault
          /\ UNCHANGED <<p, mdltn, hop, beacon, chip>>
      BY <1>6 DEF HandleTxAt, Take
    <2>2. CASE IsArmed
      <3>1. Reply /\ sched' = Demoted
        BY <1>6, <2>2 DEF HandleTxAt
      <3> QED
        BY <1>0, <2>1, <3>1, ReplyTypes, FaultTypes, HandlerTypes
    <2>3. CASE ~IsArmed
      <3> DEFINE fire == IF Cmd.op = "at" THEN now + Cmd.when ELSE Cmd.when
      <3>1. fire \in Nat /\ Id \in Ids /\ Id \in 0 .. MaxCmds
        <4>1. now \in Nat
          BY DEF TypeOK
        <4>2. Cmd.op \in {"at", "abs"}
          BY <2>1, TakeTypes
        <4>3. Cmd.when \in Nat /\ Id \in Ids /\ Id \in 0 .. MaxCmds
          BY <2>1, <4>2, CommandTypes
        <4> QED
          BY <4>1, <4>3
      <3>2. /\ sched' = [st |-> "pending", id |-> Id, fire |-> fire]
            /\ pc' = "top" /\ open' = open \cup {Id} /\ UNCHANGED <<replies, keyed, job>>
        BY <1>6, <2>3 DEF HandleTxAt
      <3> HIDE DEF fire
      <3>3. sched' \in Slots /\ open' \subseteq Ids
        BY <1>0, <3>1, <3>2 DEF Slots
      <3> QED
        BY <1>0, <2>1, <3>2, <3>3, FaultTypes, HandlerTypes
    <2> QED
      BY <2>2, <2>3
  <1> QED
    BY <1>1, <1>2, <1>3, <1>4, <1>5, <1>6 DEF HandleCmd

LEMMA LoopTypes ==
  TypeOK /\ (Top \/ TakeRx \/ WakeHop \/ WakeTick \/ Beacon) => TypeOK'
  <1> SUFFICES ASSUME TypeOK, Top \/ TakeRx \/ WakeHop \/ WakeTick \/ Beacon PROVE TypeOK'
    OBVIOUS
  <1>0. chip \in Chips /\ mode \in Modes
    BY DEF TypeOK, Modes
  <1>1. CASE Top
    <2>1. \A k \in 0 .. ArmSteps : ArmUpTo(k, chip, mode) \in Chips /\ ArmMode(k, mode) \in Modes
      BY <1>0, ArmTypes DEF ArmSteps
    <2>2. chip' \in Chips /\ mode' \in Modes /\ rxArmed' \in BOOLEAN /\ armFailed' \in BOOLEAN
      <3>1. CASE UNCHANGED <<rxArmed, mode, chip>> /\ armFailed' = FALSE
        BY <1>0, <3>1 DEF TypeOK
      <3>2. CASE /\ chip' = ArmUpTo(ArmSteps, chip, mode)
                 /\ mode' = ArmMode(ArmSteps, mode)
                 /\ rxArmed' = TRUE /\ armFailed' = FALSE
        <4>1. ArmSteps \in 0 .. ArmSteps
          BY DEF ArmSteps
        <4> QED
          BY <2>1, <3>2, <4>1, Zenon
      <3>3. CASE \E k \in 0..ArmSteps :
                   /\ chip' = ArmUpTo(k, chip, mode) /\ mode' = ArmMode(k, mode)
                   /\ rxArmed' = FALSE /\ armFailed' = TRUE
        BY <2>1, <3>3
      <3> QED
        BY <1>1, <3>1, <3>2, <3>3 DEF Top
    <2>3. Fault \/ NoFault
      BY <1>1 DEF Top
    <2>4. faults' \in Nat
      BY <2>3, FaultTypes
    <2> QED
      BY <1>1, <2>2, <2>4 DEF Top, TypeOK, Modes
  <1>2. CASE TakeRx
    <2>1. [who |-> "rx", id |-> 0, attempt |-> 0] \in Jobs
      BY Parameters DEF Jobs
    <2>2. RxRead => chip' \in Chips
      BY <1>0 DEF RxRead, Chips
    <2>3. chip' \in Chips /\ job' \in Jobs /\ rxArmed' \in BOOLEAN /\ (Fault \/ NoFault)
          /\ pc' \in {"top", "lbt"}
      BY <1>0, <1>2, <2>1, <2>2 DEF TakeRx, TypeOK
    <2> QED
      BY <1>2, <2>3, FaultTypes DEF TakeRx, TypeOK
  <1>3. CASE WakeHop
    <2>1. /\ chip' \in Chips /\ faults' \in Nat
          /\ hop' \in [on: BOOLEAN, list: Seq(Freqs), base: Freqs \cup {NoFreq}]
      BY <1>3, ServiceHopTypes DEF WakeHop
    <2> QED
      BY <1>3, <2>1 DEF WakeHop, TypeOK
  <1>4. CASE WakeTick
    BY <1>4 DEF WakeTick, TypeOK
  <1>5. CASE Beacon
    <2>1. beacon' \in [on: BOOLEAN, due: BOOLEAN]
      <3>1. beacon' = [beacon EXCEPT !.due = beacon.due /\ ~beacon.on]
        BY <1>5 DEF Beacon
      <3>2. beacon \in [on: BOOLEAN, due: BOOLEAN]
        BY DEF TypeOK
      <3> QED
        BY ONLY <3>1, <3>2
    <2>2. CASE BeaconDue /\ ~IsArmed
      <3>1. Transmit(chip, mode, [who |-> "beacon", id |-> 0, attempt |-> 0]) /\ rxArmed' = FALSE
        BY <1>5, <2>2 DEF Beacon
      <3>2. [who |-> "beacon", id |-> 0, attempt |-> 0] \in Jobs
        BY Parameters DEF Jobs
      <3>3. /\ chip' \in Chips /\ mode' \in Modes /\ pc' \in {"top", "fire"} /\ job' \in Jobs
            /\ open' \subseteq Ids /\ replies' \in [Ids -> Nat] /\ keyed' \in [Ids -> Nat]
            /\ faults' \in Nat
        BY <1>0, <3>1, <3>2, TransmitTypes
      <3>4. UNCHANGED <<now, cmdq, p, mdltn, hop, sched, armFailed, lostStandby, hops,
                        received, beacons>>
        BY <1>5 DEF Beacon
      <3> QED
        BY <2>1, <3>1, <3>3, <3>4 DEF TypeOK, Modes
    <2>3. CASE ~(BeaconDue /\ ~IsArmed)
      <3>1. pc' = "top" /\ UNCHANGED <<rxArmed, job, mode, chip, open, replies, keyed, faults>>
            /\ UNCHANGED <<now, cmdq, p, mdltn, hop, sched, armFailed, lostStandby, hops,
                           received, beacons>>
        BY <1>5, <2>3 DEF Beacon
      <3> QED
        BY <2>1, <3>1 DEF TypeOK
    <2> QED
      BY <2>2, <2>3
  <1> QED
    BY <1>1, <1>2, <1>3, <1>4, <1>5

LEMMA ScheduleTypes == TypeOK /\ (WakeStage \/ WakeFire) => TypeOK'
  <1> SUFFICES ASSUME TypeOK, WakeStage \/ WakeFire PROVE TypeOK'
    OBVIOUS
  <1>0. /\ chip \in Chips /\ mode \in Modes /\ sched \in Slots /\ sched.id \in 0 .. MaxCmds
        /\ Idle \in Slots /\ open \subseteq Ids
        /\ replies \in [Ids -> Nat] /\ keyed \in [Ids -> Nat]
    BY Parameters DEF TypeOK, Modes, Slots, Idle
  <1>1. Answered(sched.id) \in [Ids -> Nat]
    BY <1>0, AnswerTypes
  <1>2. CASE WakeStage
    <2>1. \A k \in 0 .. StageSteps : /\ StageUpTo(k, chip, mode, sched.id) \in Chips
                                     /\ StageMode(k, mode) \in Modes
      BY <1>0, StageTypes DEF StageSteps
    <2>2. /\ chip' \in Chips /\ mode' \in Modes /\ sched' \in Slots /\ open' \subseteq Ids
          /\ replies' \in [Ids -> Nat] /\ faults' \in Nat
      <3>1. CASE /\ chip' = StageUpTo(StageSteps, chip, mode, sched.id)
                 /\ mode' = StageMode(StageSteps, mode)
                 /\ sched' = [sched EXCEPT !.st = "staged"]
                 /\ NoFault /\ UNCHANGED <<open, replies>>
        <4>1. sched' \in Slots
          BY <1>0, <3>1 DEF Slots
        <4> QED
          BY <1>0, <2>1, <3>1, <4>1, FaultTypes DEF StageSteps
      <3>2. CASE /\ \E k \in 0..StageSteps - 1 :
                      /\ chip' = StageUpTo(k, chip, mode, sched.id)
                      /\ mode' = StageMode(k, mode)
                 /\ sched' = Idle /\ Fault
                 /\ replies' = Answered(sched.id) /\ open' = open \ {sched.id}
        BY <1>0, <1>1, <2>1, <3>2, FaultTypes DEF StageSteps
      <3> QED
        BY <1>2, <3>1, <3>2 DEF WakeStage
    <2> QED
      BY <1>2, <2>2 DEF WakeStage, TypeOK, Modes
  <1>3. CASE WakeFire
    <2>1. CASE /\ chip' = [chip EXCEPT !.mode = "tx"] /\ pc' = "fire"
               /\ job' = [who |-> "sched", id |-> sched.id, attempt |-> 0]
               /\ KeyUp(sched.id) /\ NoFault
               /\ UNCHANGED <<sched, mode, rxArmed, open, replies>>
      <3>1. chip' \in Chips
        BY <1>0, <2>1 DEF Modes, Chips
      <3>2. job' \in Jobs
        BY <1>0, <2>1 DEF Jobs
      <3>3. keyed' \in [Ids -> Nat]
        BY <1>0, <2>1, KeyUpTypes
      <3> QED
        BY <1>3, <2>1, <3>1, <3>2, <3>3, FaultTypes DEF WakeFire, TypeOK
    <2>2. CASE /\ pc' = "beacon" /\ sched' = Idle /\ rxArmed' = FALSE /\ mode' = "standby"
               /\ replies' = Answered(sched.id) /\ open' = open \ {sched.id}
               /\ Fault /\ UNCHANGED <<chip, job, keyed>>
      <3>1. faults' \in Nat
        BY <2>2, FaultTypes
      <3> QED
        BY <1>0, <1>1, <1>3, <2>2, <3>1 DEF Modes, WakeFire, TypeOK
    <2> QED
      BY <1>3, <2>1, <2>2 DEF WakeFire
  <1> QED
    BY <1>2, <1>3

LEMMA TransmissionTypes == TypeOK /\ (LbtStep \/ FireStep) => TypeOK'
  <1> SUFFICES ASSUME TypeOK, LbtStep \/ FireStep PROVE TypeOK'
    OBVIOUS
  <1>0. /\ chip \in Chips /\ job \in Jobs /\ job.id \in 0 .. MaxCmds /\ job.attempt \in Nat
        /\ mdltn.mod \in Mods /\ open \subseteq Ids /\ NoJob \in Jobs
        /\ sched \in Slots /\ Idle \in Slots /\ "standby" \in Modes
    BY Parameters DEF TypeOK, Jobs, NoJob, Knobs, Slots, Idle, Modes
  <1>1. Answered(job.id) \in [Ids -> Nat]
    BY <1>0, AnswerTypes
  <1>2. /\ Radio(mode) \in Outcomes /\ CadEnds(Radio(mode), mdltn.mod) \in Outcomes
        /\ Cads(Radio(mode), {mdltn.mod}) \subseteq Outcomes
        /\ Listens(Radio(mode)) \in Outcomes /\ SenseRssi(Radio(mode)) \subseteq Outcomes
    <2>1. Radio(mode) \in Outcomes
      BY RadioTypes DEF TypeOK
    <2>2. {mdltn.mod} \in SUBSET Mods
      BY <1>0
    <2> QED
      BY <1>0, <2>1, <2>2, CadTypes, CadsTypes, RssiTypes
  <1>3. CASE LbtBusy \/ LbtClear \/ LbtRssi
    <2>1. PICK r \in Outcomes : Becomes(r)
      BY <1>2, <1>3 DEF LbtBusy, LbtClear, LbtRssi
    <2>2. chip' \in Chips /\ mode' \in Modes /\ faults' \in Nat
      BY <2>1, BecomesTypes
    <2>3. LbtDefers => /\ job' \in Jobs /\ pc' \in {"lbt", "top"}
                       /\ replies' \in [Ids -> Nat] /\ open' \subseteq Ids
      <3>1. [job EXCEPT !.attempt = job.attempt + 1] \in Jobs
        BY <1>0 DEF Jobs
      <3> QED
        BY <1>0, <1>1, <3>1 DEF LbtDefers, TypeOK
    <2>4. /\ job' \in Jobs /\ pc' \in {"lbt", "clear", "send", "top"}
          /\ replies' \in [Ids -> Nat] /\ open' \subseteq Ids
      <3>1. \/ LbtDefers
            \/ pc' \in {"clear", "send"} /\ UNCHANGED <<job, open, replies>>
        BY <1>3 DEF LbtBusy, LbtClear, LbtRssi
      <3> QED
        BY <1>0, <2>3, <3>1 DEF TypeOK
    <2>5. LbtFrame /\ UNCHANGED keyed
      BY <1>3 DEF LbtBusy, LbtClear, LbtRssi
    <2> QED
      BY <2>2, <2>4, <2>5 DEF LbtFrame, TypeOK
  <1>4. CASE LbtSend
    <2>1. [job EXCEPT !.attempt = 0] \in Jobs /\ mode \in Modes
      BY <1>0 DEF Jobs, TypeOK
    <2>2. Transmit(chip, mode, [job EXCEPT !.attempt = 0]) /\ LbtFrame
      BY <1>4 DEF LbtSend
    <2>3. /\ chip' \in Chips /\ mode' \in Modes /\ pc' \in {"top", "fire"} /\ job' \in Jobs
          /\ open' \subseteq Ids /\ replies' \in [Ids -> Nat] /\ keyed' \in [Ids -> Nat]
          /\ faults' \in Nat
      BY <1>0, <2>1, <2>2, TransmitTypes
    <2> QED
      BY <2>2, <2>3 DEF LbtFrame, TypeOK
  <1>5. CASE FireDone \/ FireFails
    <2>1. FireReturns
      BY <1>5 DEF FireDone, FireFails
    <2>2. /\ pc' \in {"beacon", "top"} /\ job' \in Jobs /\ rxArmed' = FALSE /\ mode' = "standby"
          /\ sched' \in Slots /\ replies' \in [Ids -> Nat] /\ open' \subseteq Ids
      BY <1>0, <1>1, <2>1 DEF FireReturns
    <2>3. /\ chip' \in Chips /\ (Fault \/ NoFault) /\ lostStandby' \in BOOLEAN
          /\ UNCHANGED <<now, cmdq, p, mdltn, hop, armFailed, beacon, keyed, hops,
                         received, beacons>>
      <3>1. CASE FireDone
        BY <1>0, <3>1 DEF FireDone, Chips, TypeOK
      <3>2. CASE FireFails
        <4>1. PICK cleared \in BOOLEAN, lost \in BOOLEAN :
                /\ lostStandby' = (lost \/ lostStandby)
                /\ chip' = [chip EXCEPT !.mode = IF lost THEN "tx" ELSE "standby",
                                        !.hopFlag = ~cleared /\ chip.hopFlag,
                                        !.hopIrq = ~cleared /\ chip.hopIrq,
                                        !.rxDone = ~cleared /\ chip.rxDone]
          BY <3>2 DEF FireFails
        <4>2. chip' \in Chips
          BY <1>0, <4>1 DEF Modes, Chips
        <4>3. lostStandby' \in BOOLEAN
          BY <4>1
        <4> QED
          BY <3>2, <4>2, <4>3 DEF FireFails
      <3> QED
        BY <1>5, <3>1, <3>2
    <2>4. faults' \in Nat
      BY <2>3, FaultTypes
    <2> QED
      BY <2>2, <2>3, <2>4 DEF Modes, TypeOK
  <1>6. CASE FireHop
    <2>1. /\ chip' \in Chips /\ faults' \in Nat
          /\ hop' \in [on: BOOLEAN, list: Seq(Freqs), base: Freqs \cup {NoFreq}]
      BY <1>6, ServiceHopTypes DEF FireHop
    <2> QED
      BY <1>6, <2>1 DEF FireHop, TypeOK
  <1> QED
    BY <1>3, <1>4, <1>5, <1>6 DEF LbtStep, FireStep

\* The commands sent so far are finitely many, so they can be counted.
LEMMA SentFinite ==
  ASSUME TypeOK
  PROVE  Sent \subseteq Ids /\ Cardinality(Sent) \in Nat
  <1>1. \A n \in 1 .. Len(cmdq) : cmdq[n].id \in Ids
    <2>1. cmdq \in Seq([id: Ids, cmd: Commands])
      BY DEF TypeOK
    <2>2. \A n \in 1 .. Len(cmdq) : cmdq[n] \in [id: Ids, cmd: Commands]
      BY <2>1, ElementOf
    <2> QED
      BY <2>2
  <1>2. Sent \in SUBSET Ids
    BY <1>1 DEF Sent
  <1>3. IsFiniteSet(Ids)
    BY Parameters, FS_Interval DEF Ids
  <1> QED
    BY <1>2, <1>3, FS_Subset, FS_CardinalityType

LEMMA EnvironmentTypes == TypeOK /\ Environment => TypeOK'
  <1> SUFFICES ASSUME TypeOK, Environment PROVE TypeOK'
    OBVIOUS
  <1>1. CASE Tick
    BY <1>1 DEF Tick, TypeOK
  <1>2. CASE UartReader
    <2>1. PICK c \in Commands : cmdq' = Append(cmdq, [id |-> Cardinality(Sent) + 1, cmd |-> c])
      BY <1>2 DEF UartReader
    <2>2. Cardinality(Sent) + 1 \in Ids
      BY <1>2, SentFinite, Parameters DEF UartReader, Ids
    <2>3. [id |-> Cardinality(Sent) + 1, cmd |-> c] \in [id: Ids, cmd: Commands]
      BY <2>2
    <2>4. cmdq' \in Seq([id: Ids, cmd: Commands])
      BY <2>1, <2>3 DEF TypeOK
    <2> QED
      BY <1>2, <2>4 DEF UartReader, TypeOK
  <1>3. CASE FrameArrives
    <2>1. chip' \in Chips
      BY <1>3 DEF FrameArrives, TypeOK, Chips
    <2> QED
      BY <1>3, <2>1 DEF FrameArrives, TypeOK
  <1>4. CASE HopDue
    <2>1. chip' \in Chips
      BY <1>4 DEF HopDue, TypeOK, Chips
    <2> QED
      BY <1>4, <2>1 DEF HopDue, TypeOK
  <1>5. CASE BeaconPeriod
    <2>1. beacon' \in [on: BOOLEAN, due: BOOLEAN]
      BY <1>5 DEF BeaconPeriod, TypeOK
    <2> QED
      BY <1>5, <2>1 DEF BeaconPeriod, TypeOK
  <1>6. CASE CadExpires
    <2>1. chip' \in Chips
      BY <1>6 DEF CadExpires, TypeOK, Chips, Modes
    <2> QED
      BY <1>6, <2>1 DEF CadExpires, TypeOK
  <1> QED
    BY <1>1, <1>2, <1>3, <1>4, <1>5, <1>6 DEF Environment

LEMMA NextTypes == TypeOK /\ [Next]_vars => TypeOK'
  <1>1. TypeOK /\ UNCHANGED vars => TypeOK'
    BY DEF vars, TypeOK
  <1> QED
    BY <1>1, HandleCmdTypes, LoopTypes, ScheduleTypes, TransmissionTypes, EnvironmentTypes
    DEF Next, RadioTask, WakeTimer

\* Every variable of the radio task keeps its type.
THEOREM TypeCorrect == Spec => []TypeOK
  BY InitTypeOK, NextTypes, PTL DEF Spec

----------------------------------------------------------------------------
(* The hop list.                                                            *)

\* The actions that move a carrier or a hop list.
LEMMA Retuners ==
  ASSUME [Next]_vars
  PROVE  \/ UNCHANGED <<p, hop>>
         \/ HandleFreq \/ HandleMod \/ HandleHop
         \/ UNCHANGED p /\ ServiceHop
  <1>1. HandleCmd => \/ UNCHANGED <<p, hop>> \/ HandleFreq \/ HandleMod \/ HandleHop
    BY DEF HandleCmd, HandleTx, HandleTxLbt, HandleKnob, HandleBeacon, HandleStandby,
           HandleCad, HandleRssi, HandleTxAt
  <1>2. Top \/ TakeRx \/ WakeTimer \/ Beacon \/ LbtStep \/ FireDone \/ FireFails
          => UNCHANGED <<p, hop>>
    BY DEF Top, TakeRx, WakeTimer, WakeStage, WakeFire, WakeTick, Beacon, LbtStep, LbtBusy,
           LbtClear, LbtRssi, LbtSend, LbtFrame, FireDone, FireFails
  <1>3. WakeHop \/ FireHop => UNCHANGED p /\ ServiceHop
    BY DEF WakeHop, FireHop
  <1>4. Environment => UNCHANGED <<p, hop>>
    BY DEF Environment, Tick, UartReader, FrameArrives, HopDue, CadExpires,
           BeaconPeriod
  <1> QED
    BY <1>1, <1>2, <1>3, <1>4 DEF Next, RadioTask, FireStep, vars

LEMMA HopListKept == TypeOK /\ HopStartsAtBase /\ [Next]_vars => HopStartsAtBase'
  <1> SUFFICES ASSUME TypeOK, HopStartsAtBase, [Next]_vars PROVE HopStartsAtBase'
    OBVIOUS
  <1>0. /\ p \in Knobs /\ hop \in [on: BOOLEAN, list: Seq(Freqs), base: Freqs \cup {NoFreq}]
        /\ p'.freq \in Freqs
    BY NextTypes DEF TypeOK, Knobs
  <1>1. CASE UNCHANGED <<p, hop>>
    BY <1>1 DEF HopStartsAtBase
  <1>2. CASE HandleFreq
    <2>1. CASE hop.on
      <3>1. hop' = [hop EXCEPT !.list = [hop.list EXCEPT ![1] = p'.freq]]
        BY <1>0, <1>2, <2>1 DEF HandleFreq, Retune
      <3>2. hop.list \in Seq(Freqs) /\ hop.list # <<>>
        BY <1>0, <2>1 DEF HopStartsAtBase
      <3>3. LET l == [hop.list EXCEPT ![1] = p'.freq] IN l # <<>> /\ l[1] = p'.freq
        BY <1>0, <3>2, FirstSet
      <3> QED
        BY <1>0, <3>1, <3>3 DEF HopStartsAtBase
    <2>2. CASE ~hop.on
      BY <1>2, <2>2 DEF HandleFreq, Retune, HopStartsAtBase
    <2> QED
      BY <2>1, <2>2
  <1>3. CASE HandleMod
    <2>1. p'.freq = p.freq /\ UNCHANGED hop
      BY <1>0, <1>3 DEF HandleMod, Knobs
    <2> QED
      BY <2>1 DEF HopStartsAtBase
  <1>4. CASE HandleHop
    <2>1. Cmd.on \in BOOLEAN /\ Cmd.list \in Seq(Freqs) /\ (Cmd.on => Cmd.list # <<>>)
      BY <1>4, TakeTypes, CommandTypes DEF HandleHop
    <2>2. PICK c \in {chip, ToStandby(chip, DemotedMode)} : HopSet(c) \/ HopSetFails(c)
      BY <1>4 DEF HandleHop
    <2>3. CASE HopSet(c)
      <3>1. /\ hop'.on = Cmd.on
            /\ Cmd.on => hop'.list = [Cmd.list EXCEPT ![1] = p'.freq]
        BY <2>3 DEF HopSet
      <3>2. Cmd.on => LET l == [Cmd.list EXCEPT ![1] = p'.freq] IN l # <<>> /\ l[1] = p'.freq
        BY <1>0, <2>1, FirstSet
      <3> QED
        BY <3>1, <3>2 DEF HopStartsAtBase
    <2>4. CASE HopSetFails(c)
      BY <1>0, <2>4 DEF HopSetFails, HopStartsAtBase
    <2> QED
      BY <2>2, <2>3, <2>4
  <1>5. CASE UNCHANGED p /\ ServiceHop
    <2>1. hop' = hop \/ hop' = [hop EXCEPT !.on = FALSE]
      BY <1>5 DEF ServiceHop
    <2> QED
      BY <1>0, <1>5, <2>1 DEF HopStartsAtBase
  <1> QED
    BY <1>1, <1>2, <1>3, <1>4, <1>5, Retuners

\* Hop channel 0 is the carrier of the knobs, whoever moved either of them last.
THEOREM HopStartsAtBaseAlways == Spec => []HopStartsAtBase
  <1>1. Init => HopStartsAtBase
    BY DEF Init, HopStartsAtBase
  <1> QED
    BY <1>1, TypeCorrect, HopListKept, PTL DEF Spec

----------------------------------------------------------------------------
(* The ledger of the requests: queued, open, answered, keyed up.            *)

QueuedIn(q) == {q[n].id : n \in 1 .. Len(q)}
Distinct(q) == \A m, n \in 1 .. Len(q) : q[m].id = q[n].id => m = n

\* The request on the air, and those somebody still has to answer.
OnAir == IF pc = "fire" THEN job.id ELSE 0
Owed == (IF IsArmed THEN {sched.id} ELSE {})
        \cup (IF pc \in {"lbt", "clear", "send", "fire"} /\ job.who = "cmd" THEN {job.id} ELSE {})

\* Requests are numbered as they are sent; a queued one is untouched; one that was
\* keyed up and not yet answered is on the air.
Accounts ==
  /\ open = Owed
  /\ AtMostOnce
  /\ \E k \in 0 .. MaxCmds : Sent = 1 .. k
  /\ Distinct(cmdq)
  /\ \A i \in QueuedIn(cmdq) : i \notin open /\ replies[i] = 0 /\ keyed[i] = 0
  /\ \A i \in Ids : keyed[i] > 0 => replies[i] > 0 \/ (i \in open /\ OnAir = i)

\* lbt_tx has not keyed up yet.
Sensing == pc \in {"lbt", "clear", "send"}

\* Who transmits, and for which request.
Owners ==
  /\ IsArmed => sched.id \in Ids
  /\ Sensing => job.who \in {"cmd", "rx"}
  /\ pc = "fire" => job.who \in {"cmd", "rx", "beacon", "sched"}
  /\ Sensing \/ pc = "fire" =>
       /\ job.who = "cmd" => job.id \in Ids /\ (IsArmed => job.id # sched.id)
       /\ job.who \in {"rx", "beacon"} => job.id = 0
       /\ job.who = "sched" => OwnsRadio /\ job.id = sched.id

\* What a step may do to the ledger.
Quiet == UNCHANGED <<cmdq, open, replies, keyed, Owed, OnAir>>
AnswerHead ==
  /\ cmdq # <<>> /\ cmdq' = Tail(cmdq)
  /\ replies' = [replies EXCEPT ![Id] = replies[Id] + 1]
  /\ OnAir = 0 /\ UNCHANGED <<open, keyed, Owed, OnAir>>
OpenHead ==
  /\ cmdq # <<>> /\ cmdq' = Tail(cmdq)
  /\ open' = open \cup {Id} /\ Owed' = Owed \cup {Id}
  /\ OnAir = 0 /\ UNCHANGED <<replies, keyed, OnAir>>
KeyHead ==
  /\ cmdq # <<>> /\ cmdq' = Tail(cmdq)
  /\ open' = open \cup {Id} /\ Owed' = Owed \cup {Id}
  /\ keyed' = [keyed EXCEPT ![Id] = keyed[Id] + 1]
  /\ OnAir = 0 /\ OnAir' = Id /\ UNCHANGED replies
Key(x) ==
  /\ x \in open /\ keyed' = [keyed EXCEPT ![x] = keyed[x] + 1]
  /\ OnAir = 0 /\ OnAir' = x /\ UNCHANGED <<cmdq, open, replies, Owed>>
Close(x) ==
  /\ x \in open /\ open' = open \ {x} /\ Owed' = Owed \ {x}
  /\ replies' = [replies EXCEPT ![x] = replies[x] + 1]
  /\ OnAir \in {0, x} /\ OnAir' = 0 /\ UNCHANGED <<cmdq, keyed>>
Send == UartReader
Moves == Quiet \/ AnswerHead \/ OpenHead \/ KeyHead \/ Send
           \/ \E x \in Ids : Key(x) \/ Close(x)

LEMMA TailIds ==
  ASSUME NEW q \in Seq([id: Ids, cmd: Commands]), q # <<>>, Distinct(q)
  PROVE  /\ QueuedIn(q) = QueuedIn(Tail(q)) \cup {Head(q).id}
         /\ Head(q).id \notin QueuedIn(Tail(q)) /\ Distinct(Tail(q))
  <1>1. /\ Len(q) \in Nat /\ Len(q) > 0 /\ Len(Tail(q)) = Len(q) - 1 /\ Head(q) = q[1]
        /\ \A n \in 1 .. Len(q) - 1 : Tail(q)[n] = q[n + 1]
    OBVIOUS
  <1>2. Distinct(Tail(q))
    BY <1>1 DEF Distinct
  <1>3. Head(q).id \notin QueuedIn(Tail(q))
    <2> SUFFICES ASSUME NEW n \in 1 .. Len(q) - 1, Tail(q)[n].id = q[1].id PROVE FALSE
      BY <1>1 DEF QueuedIn
    <2>1. n + 1 \in 1 .. Len(q) /\ 1 \in 1 .. Len(q) /\ q[n + 1].id = q[1].id
      BY <1>1
    <2> QED
      BY <2>1 DEF Distinct
  <1>4. \A i : i \in QueuedIn(q) <=> i \in QueuedIn(Tail(q)) \cup {Head(q).id}
    <2> TAKE i
    <2>1. ASSUME i \in QueuedIn(q) PROVE i \in QueuedIn(Tail(q)) \cup {Head(q).id}
      <3>1. PICK n \in 1 .. Len(q) : i = q[n].id
        BY <2>1 DEF QueuedIn
      <3>2. CASE n = 1
        BY <1>1, <3>1, <3>2
      <3>3. CASE n # 1
        <4>1. n - 1 \in 1 .. Len(Tail(q)) /\ Tail(q)[n - 1] = q[n]
          BY <1>1, <3>3
        <4> QED
          BY <3>1, <4>1 DEF QueuedIn
      <3> QED
        BY <3>2, <3>3
    <2>2. ASSUME i \in QueuedIn(Tail(q)) \cup {Head(q).id} PROVE i \in QueuedIn(q)
      <3>1. CASE i = Head(q).id
        <4>1. 1 \in 1 .. Len(q) /\ i = q[1].id
          BY <1>1, <3>1
        <4> QED
          BY <4>1 DEF QueuedIn
      <3>2. CASE i \in QueuedIn(Tail(q))
        <4>1. PICK n \in 1 .. Len(q) - 1 : i = Tail(q)[n].id
          BY <1>1, <3>2 DEF QueuedIn
        <4>2. n + 1 \in 1 .. Len(q) /\ i = q[n + 1].id
          BY <1>1, <4>1
        <4> QED
          BY <4>2 DEF QueuedIn
      <3> QED
        BY <2>2, <3>1, <3>2
    <2> QED
      BY <2>1, <2>2
  <1> QED
    BY <1>2, <1>3, <1>4

LEMMA AppendIds ==
  ASSUME NEW q \in Seq([id: Ids, cmd: Commands]), Distinct(q),
         NEW e \in [id: Ids, cmd: Commands], e.id \notin QueuedIn(q)
  PROVE  QueuedIn(Append(q, e)) = QueuedIn(q) \cup {e.id} /\ Distinct(Append(q, e))
  <1> DEFINE r == Append(q, e)
  <1>1. /\ Len(q) \in Nat /\ Len(r) = Len(q) + 1 /\ r[Len(q) + 1] = e
        /\ \A n \in 1 .. Len(q) : r[n] = q[n]
    OBVIOUS
  <1> HIDE DEF r
  <1>2. \A n \in 1 .. Len(r) : n = Len(q) + 1 \/ n \in 1 .. Len(q)
    BY <1>1
  <1>3. QueuedIn(r) = QueuedIn(q) \cup {e.id}
    <2>1. \A i \in QueuedIn(r) : i \in QueuedIn(q) \cup {e.id}
      BY <1>1, <1>2 DEF QueuedIn
    <2>2. \A i \in QueuedIn(q) : i \in QueuedIn(r)
      <3>1. \A n \in 1 .. Len(q) : n \in 1 .. Len(r)
        BY <1>1
      <3> QED
        BY <1>1, <3>1 DEF QueuedIn
    <2>3. e.id \in QueuedIn(r)
      <3>1. Len(q) + 1 \in 1 .. Len(r)
        BY <1>1
      <3> QED
        BY <1>1, <3>1 DEF QueuedIn
    <2> QED
      BY <2>1, <2>2, <2>3
  <1>4. \A n \in 1 .. Len(q) : q[n].id \in QueuedIn(q)
    BY DEF QueuedIn
  <1>5. Distinct(r)
    <2> SUFFICES ASSUME NEW m \in 1 .. Len(r), NEW n \in 1 .. Len(r), r[m].id = r[n].id
                 PROVE  m = n
      BY DEF Distinct
    <2>1. CASE m \in 1 .. Len(q) /\ n \in 1 .. Len(q)
      BY <1>1, <2>1 DEF Distinct
    <2>2. CASE m = Len(q) + 1 /\ n = Len(q) + 1
      BY <2>2
    <2>3. CASE m = Len(q) + 1 /\ n \in 1 .. Len(q)
      BY <1>1, <1>4, <2>3
    <2>4. CASE n = Len(q) + 1 /\ m \in 1 .. Len(q)
      BY <1>1, <1>4, <2>4
    <2> QED
      BY <1>2, <2>1, <2>2, <2>3, <2>4
  <1> QED
    BY <1>3, <1>5 DEF r

\* The head of a queue in order: fresh, and gone from the rest.
LEMMA FreshHead ==
  ASSUME TypeOK, Accounts, cmdq # <<>>, cmdq' = Tail(cmdq)
  PROVE  /\ QueuedIn(cmdq) = QueuedIn(cmdq') \cup {Id} /\ Id \notin QueuedIn(cmdq')
         /\ Distinct(cmdq')
         /\ Id \in Ids /\ Id # 0 /\ Id \notin open /\ replies[Id] = 0 /\ keyed[Id] = 0
         /\ QueuedIn(cmdq) \subseteq Ids
  <1>1. cmdq \in Seq([id: Ids, cmd: Commands])
    BY DEF TypeOK
  <1>2. Distinct(cmdq)
    BY DEF Accounts
  <1>3. /\ QueuedIn(cmdq) = QueuedIn(Tail(cmdq)) \cup {Head(cmdq).id}
        /\ Head(cmdq).id \notin QueuedIn(Tail(cmdq)) /\ Distinct(Tail(cmdq))
    BY <1>1, <1>2, TailIds
  <1>4. Id \in QueuedIn(cmdq) /\ Id \in Ids /\ Id # 0
    BY <1>3, CommandTypes DEF Id
  <1>5. QueuedIn(cmdq) \subseteq Ids
    <2>1. \A n \in 1 .. Len(cmdq) : cmdq[n] \in [id: Ids, cmd: Commands]
      BY <1>1, ElementOf
    <2> QED
      BY <2>1 DEF QueuedIn
  <1> QED
    BY <1>3, <1>4, <1>5 DEF Accounts, Id

LEMMA SentIs ==
  /\ Sent = {i \in Ids : i \in open \/ replies[i] > 0} \cup QueuedIn(cmdq)
  /\ Sent' = {i \in Ids : i \in open' \/ replies'[i] > 0} \cup QueuedIn(cmdq')
  BY DEF Sent, QueuedIn

LEMMA NoZero == 0 \notin Ids
  BY Parameters DEF Ids

LEMMA MovesKeepAccounts ==
  ASSUME TypeOK, TypeOK', Accounts, Moves
  PROVE  Accounts'
  <1>0. /\ replies \in [Ids -> Nat] /\ keyed \in [Ids -> Nat] /\ open \subseteq Ids
        /\ 0 \notin Ids
    BY NoZero DEF TypeOK
  <1>1. CASE Quiet
    <2>1. Sent' = Sent
      BY <1>1, SentIs DEF Quiet
    <2> QED
      BY <1>1, <2>1 DEF Quiet, Accounts, AtMostOnce
  <1>2. CASE AnswerHead
    <2>1. /\ QueuedIn(cmdq) = QueuedIn(cmdq') \cup {Id} /\ Id \notin QueuedIn(cmdq')
          /\ Distinct(cmdq')
          /\ Id \in Ids /\ Id \notin open /\ replies[Id] = 0 /\ keyed[Id] = 0
          /\ QueuedIn(cmdq) \subseteq Ids
      BY <1>2, FreshHead DEF AnswerHead
    <2>2. /\ replies'[Id] = 1 /\ \A i \in Ids : i # Id => replies'[i] = replies[i]
          /\ UNCHANGED <<open, keyed, Owed, OnAir>>
      BY <1>0, <1>2, <2>1 DEF AnswerHead
    <2>3. Sent' = Sent
      BY <1>0, <2>1, <2>2, SentIs
    <2> QED
      BY <1>0, <2>1, <2>2, <2>3 DEF Accounts, AtMostOnce
  <1>3. CASE OpenHead \/ KeyHead
    <2>1. /\ QueuedIn(cmdq) = QueuedIn(cmdq') \cup {Id} /\ Id \notin QueuedIn(cmdq')
          /\ Distinct(cmdq')
          /\ Id \in Ids /\ Id # 0 /\ Id \notin open /\ replies[Id] = 0 /\ keyed[Id] = 0
          /\ QueuedIn(cmdq) \subseteq Ids
      BY <1>3, FreshHead DEF OpenHead, KeyHead
    <2>2. /\ open' = open \cup {Id} /\ Owed' = Owed \cup {Id} /\ UNCHANGED replies
          /\ OnAir = 0
      BY <1>3 DEF OpenHead, KeyHead
    <2>3. /\ \A i \in Ids : i # Id => keyed'[i] = keyed[i]
          /\ keyed'[Id] = 0 \/ (keyed'[Id] = 1 /\ OnAir' = Id)
      BY <1>0, <1>3, <2>1 DEF OpenHead, KeyHead
    <2>4. Sent' = Sent
      BY <1>0, <2>1, <2>2, SentIs
    <2>5. \A i \in Ids : keyed'[i] > 0 => replies'[i] > 0 \/ (i \in open' /\ OnAir' = i)
      BY <1>0, <2>1, <2>2, <2>3 DEF Accounts
    <2> QED
      BY <1>0, <2>1, <2>2, <2>3, <2>4, <2>5 DEF Accounts, AtMostOnce
  <1>4. CASE Send
    <2>1. PICK k \in 0 .. MaxCmds : Sent = 1 .. k
      BY DEF Accounts
    <2>2. k \in Nat /\ Cardinality(Sent) = k
      BY <2>1, FS_Interval
    <2>3. PICK c \in Commands : cmdq' = Append(cmdq, [id |-> k + 1, cmd |-> c])
      BY <1>4, <2>2 DEF Send, UartReader
    <2>4. k + 1 \in Ids /\ k + 1 \in 0 .. MaxCmds /\ k + 1 \notin Sent
      BY <1>4, <2>1, <2>2, Parameters DEF Send, UartReader, Ids
    <2>5. /\ k + 1 \notin QueuedIn(cmdq) /\ k + 1 \notin open /\ replies[k + 1] = 0
          /\ keyed[k + 1] = 0
      BY <1>0, <2>4, SentIs DEF Accounts
    <2>6. QueuedIn(cmdq') = QueuedIn(cmdq) \cup {k + 1} /\ Distinct(cmdq')
      <3> DEFINE e == [id |-> k + 1, cmd |-> c]
      <3>1. e \in [id: Ids, cmd: Commands] /\ e.id = k + 1
        BY <2>4
      <3>2. cmdq \in Seq([id: Ids, cmd: Commands]) /\ Distinct(cmdq)
        BY DEF TypeOK, Accounts
      <3>3. cmdq' = Append(cmdq, e)
        BY <2>3
      <3> HIDE DEF e
      <3> QED
        BY <2>5, <3>1, <3>2, <3>3, AppendIds
    <2>7. UNCHANGED <<open, replies, keyed, Owed, OnAir>>
      BY <1>4 DEF Send, UartReader, Owed, OnAir, IsArmed
    <2>8. Sent' = 1 .. (k + 1)
      <3>1. Sent' = Sent \cup {k + 1}
        BY <2>6, <2>7, SentIs
      <3> QED
        BY <2>1, <2>2, <3>1
    <2> QED
      BY <1>0, <2>4, <2>5, <2>6, <2>7, <2>8 DEF Accounts, AtMostOnce
  <1>5. CASE \E x \in Ids : Key(x)
    <2>1. PICK x \in Ids : Key(x)
      BY <1>5
    <2>2. /\ x \in open /\ UNCHANGED <<cmdq, open, replies, Owed>> /\ OnAir = 0 /\ OnAir' = x
          /\ keyed[x] = 0 /\ keyed'[x] = 1 /\ \A i \in Ids : i # x => keyed'[i] = keyed[i]
      <3>1. x # 0 /\ replies[x] = 0
        BY <1>0, <2>1 DEF Key, Accounts, AtMostOnce
      <3>2. keyed[x] = 0
        BY <1>0, <2>1, <3>1 DEF Key, Accounts
      <3> QED
        BY <1>0, <2>1, <3>2 DEF Key
    <2>3. Sent' = Sent
      BY <2>2, SentIs
    <2>4. \A i \in Ids : keyed'[i] > 0 => replies'[i] > 0 \/ (i \in open' /\ OnAir' = i)
      BY <1>0, <2>2 DEF Accounts
    <2>5. \A i \in QueuedIn(cmdq) : keyed'[i] = keyed[i]
      <3>1. \A i \in QueuedIn(cmdq) : i # x
        BY <2>2 DEF Accounts
      <3>2. QueuedIn(cmdq) \subseteq Ids
        BY SentFinite, SentIs
      <3> QED
        BY <2>2, <3>1, <3>2
    <2> QED
      BY <1>0, <2>2, <2>3, <2>4, <2>5 DEF Accounts, AtMostOnce
  <1>6. CASE \E x \in Ids : Close(x)
    <2>1. PICK x \in Ids : Close(x)
      BY <1>6
    <2>2. /\ x \in open /\ open' = open \ {x} /\ Owed' = Owed \ {x}
          /\ OnAir \in {0, x} /\ OnAir' = 0 /\ UNCHANGED <<cmdq, keyed>>
          /\ replies[x] = 0 /\ replies'[x] = 1
          /\ \A i \in Ids : i # x => replies'[i] = replies[i]
      <3>1. replies[x] = 0
        BY <2>1 DEF Close, Accounts, AtMostOnce
      <3> QED
        BY <1>0, <2>1, <3>1 DEF Close
    <2>3. Sent' = Sent
      BY <1>0, <2>2, SentIs
    <2>4. \A i \in Ids : keyed'[i] > 0 => replies'[i] > 0 \/ (i \in open' /\ OnAir' = i)
      BY <1>0, <2>2 DEF Accounts
    <2>5. \A i \in QueuedIn(cmdq) : replies'[i] = replies[i]
      <3>1. \A i \in QueuedIn(cmdq) : i # x
        BY <2>2 DEF Accounts
      <3>2. QueuedIn(cmdq) \subseteq Ids
        BY SentFinite, SentIs
      <3> QED
        BY <2>2, <3>1, <3>2
    <2> QED
      BY <1>0, <2>2, <2>3, <2>4, <2>5 DEF Accounts, AtMostOnce
  <1> QED
    BY <1>1, <1>2, <1>3, <1>4, <1>5, <1>6 DEF Moves

\* Nothing of the ledger changes.
LEMMA SameOwners ==
  ASSUME Owners, UNCHANGED <<cmdq, pc, job, sched, open, replies, keyed>>
  PROVE  Quiet /\ Owners'
  BY DEF Sensing, Owners, Quiet, Owed, OnAir, IsArmed, OwnsRadio

\* A transmission, as the ledger sees it.
LEMMA TransmitMoves ==
  ASSUME TypeOK, NEW c, NEW md, NEW j \in Jobs, Transmit(c, md, j)
  PROVE  \/ /\ pc' = "fire" /\ job' = j /\ UNCHANGED replies
            /\ j.id = 0 => UNCHANGED <<open, keyed>>
            /\ j.id \in Ids => /\ open' = open \cup {j.id}
                               /\ keyed' = [keyed EXCEPT ![j.id] = keyed[j.id] + 1]
         \/ /\ pc' = "top" /\ job' = NoJob /\ UNCHANGED keyed
            /\ j.id = 0 => UNCHANGED <<open, replies>>
            /\ j.id \in Ids => /\ open' = open \ {j.id}
                               /\ replies' = [replies EXCEPT ![j.id] = replies[j.id] + 1]
  <1>1. 0 \notin Ids /\ open \subseteq Ids
    BY NoZero DEF TypeOK
  <1>2. \/ /\ pc' = "fire" /\ job' = j /\ UNCHANGED replies
           /\ KeyUp(j.id) /\ open' = open \cup ({j.id} \cap Ids)
        \/ /\ pc' = "top" /\ job' = NoJob /\ UNCHANGED keyed
           /\ replies' = Answered(j.id) /\ open' = open \ {j.id}
    BY DEF Transmit
  <1> QED
    BY <1>1, <1>2 DEF KeyUp, Answered

LEMMA DemotedKeeps ==
  ASSUME TypeOK, sched' = Demoted
  PROVE  /\ IsArmed' <=> IsArmed
         /\ IsArmed => sched'.id = sched.id
         /\ ~OwnsRadio'
  BY DEF TypeOK, Slots, Demoted, IsArmed, OwnsRadio

\* Every handler answers the command, opens it, or keys it up.
LEMMA HandlerMoves ==
  ASSUME TypeOK, Owners, Accounts, HandleCmd
  PROVE  Moves /\ Owners'
  <1>0. /\ pc = "select" /\ cmdq # <<>> /\ cmdq' = Tail(cmdq) /\ OnAir = 0
        /\ Owed = IF IsArmed THEN {sched.id} ELSE {}
    BY DEF HandleCmd, HandleTx, HandleTxLbt, HandleFreq, HandleMod, HandleKnob, HandleBeacon,
           HandleStandby, HandleCad, HandleRssi, HandleHop, HandleTxAt, Take, OnAir, Owed
  <1>1. /\ Id \in Ids /\ Id # 0 /\ Id \notin open /\ open = Owed /\ open \subseteq Ids
        /\ IsArmed => sched.id \in Ids /\ sched.id # Id
    BY <1>0, FreshHead DEF Accounts, Owners, TypeOK
  <1>2. CASE Reply /\ sched' = Demoted
    <2>1. replies' = [replies EXCEPT ![Id] = replies[Id] + 1] /\ pc' = "top"
          /\ UNCHANGED <<open, keyed>>
      BY <1>1, <1>2 DEF Reply, Answered
    <2>2. Owed' = Owed /\ OnAir' = 0 /\ Owners'
      BY <1>0, <1>1, <1>2, <2>1, DemotedKeeps DEF Owed, OnAir, Owners, Sensing
    <2> QED
      BY <1>0, <2>1, <2>2 DEF AnswerHead, Moves
  <1>3. CASE HandleTx
    <2> DEFINE j == [who |-> "cmd", id |-> Id, attempt |-> 0]
    <2>1. j \in Jobs /\ j.id = Id /\ j.who = "cmd"
      BY <1>0, CommandTypes DEF Jobs
    <2>2. Transmit(chip, DemotedMode, j) /\ sched' = Demoted
      BY <1>3 DEF HandleTx
    <2> HIDE DEF j
    <2>3. CASE /\ pc' = "fire" /\ job' = j /\ UNCHANGED replies
               /\ open' = open \cup {j.id}
               /\ keyed' = [keyed EXCEPT ![j.id] = keyed[j.id] + 1]
      <3>1. Owed' = Owed \cup {Id} /\ OnAir' = Id
        BY <1>0, <1>1, <2>1, <2>2, <2>3, DemotedKeeps DEF Owed, OnAir
      <3>2. Owners'
        BY <1>1, <2>1, <2>2, <2>3, DemotedKeeps DEF Owners
      <3> QED
        BY <1>0, <2>1, <2>3, <3>1, <3>2 DEF KeyHead, Moves
    <2>4. CASE /\ pc' = "top" /\ job' = NoJob /\ UNCHANGED keyed
               /\ open' = open \ {j.id}
               /\ replies' = [replies EXCEPT ![j.id] = replies[j.id] + 1]
      <3>1. open' = open
        BY <1>1, <2>1, <2>4
      <3>2. Owed' = Owed /\ OnAir' = 0 /\ Owners'
        BY <1>0, <1>1, <2>2, <2>4, DemotedKeeps DEF Owed, OnAir, Owners, Sensing
      <3> QED
        BY <1>0, <2>1, <2>4, <3>1, <3>2 DEF AnswerHead, Moves
    <2> QED
      BY <1>1, <2>1, <2>2, <2>3, <2>4, TransmitMoves
  <1>4. CASE HandleTxLbt
    <2>1. /\ pc' = "lbt" /\ open' = open \cup {Id} /\ job'.who = "cmd" /\ job'.id = Id
          /\ sched' = Demoted /\ UNCHANGED <<replies, keyed>>
      BY <1>4 DEF HandleTxLbt
    <2>2. Owed' = Owed \cup {Id} /\ OnAir' = 0
      BY <1>0, <1>1, <2>1, DemotedKeeps DEF Owed, OnAir
    <2>3. Owners'
      BY <1>1, <2>1, DemotedKeeps DEF Owners
    <2> QED
      BY <1>0, <2>1, <2>2, <2>3 DEF OpenHead, Moves
  <1>5. CASE HandleTxAt /\ ~IsArmed
    <2>1. /\ sched'.id = Id /\ sched'.st = "pending" /\ pc' = "top" /\ open' = open \cup {Id}
          /\ UNCHANGED <<replies, keyed>>
      BY <1>5 DEF HandleTxAt
    <2>2. Owed' = Owed \cup {Id} /\ OnAir' = 0 /\ Owners'
      BY <1>0, <1>1, <1>5, <2>1 DEF Owed, OnAir, Owners, Sensing, IsArmed
    <2> QED
      BY <1>0, <2>1, <2>2 DEF OpenHead, Moves
  <1> QED
    BY <1>2, <1>3, <1>4, <1>5
    DEF HandleCmd, HandleFreq, HandleMod, HandleKnob, HandleBeacon, HandleStandby,
        HandleCad, HandleRssi, HandleHop, HandleTxAt

\* What concerns no request of the host, or only its transmission's end.
LEMMA TransmissionMoves ==
  ASSUME TypeOK, Owners, Accounts, LbtStep \/ FireStep
  PROVE  Moves /\ Owners'
  <1>0. /\ 0 \notin Ids /\ open \subseteq Ids /\ open = Owed /\ job \in Jobs /\ cmdq' = cmdq
    BY NoZero DEF TypeOK, Accounts, LbtStep, FireStep, LbtBusy, LbtClear, LbtRssi, LbtSend,
       LbtFrame, FireDone, FireFails, FireHop
  <1>1. CASE LbtStep
    <2>1. /\ Sensing /\ UNCHANGED sched /\ job.who \in {"cmd", "rx"} /\ OnAir = 0
          /\ job.who = "cmd" => job.id \in Ids /\ (IsArmed => job.id # sched.id)
          /\ job.who = "rx" => job.id = 0
          /\ IsArmed' <=> IsArmed
      <3>1. Sensing /\ LbtFrame
        BY <1>1 DEF LbtStep, LbtBusy, LbtClear, LbtRssi, LbtSend, Sensing
      <3> QED
        BY <3>1 DEF LbtFrame, Owners, OnAir, IsArmed, Sensing
    <2>2. IsArmed => sched.id \in Ids
      BY DEF Owners
    <2>3. job.who = "cmd" => job.id \in open
      BY <1>0, <2>1 DEF Owed, Sensing
    <2>4. CASE /\ Sensing' /\ job'.who = job.who /\ job'.id = job.id
               /\ UNCHANGED <<replies, keyed, open>>
      <3>1. Owed' = Owed /\ OnAir' = 0 /\ Owners'
        BY <2>1, <2>2, <2>4 DEF Owed, OnAir, Owners, Sensing
      <3> QED
        BY <1>0, <2>1, <2>4, <3>1 DEF Quiet, Moves
    <2>5. CASE /\ pc' = "fire" /\ job'.who = job.who /\ job'.id = job.id
               /\ UNCHANGED replies
               /\ job.id = 0 => UNCHANGED <<open, keyed>>
               /\ job.id \in Ids => /\ open' = open \cup {job.id}
                                    /\ keyed' = [keyed EXCEPT ![job.id] = keyed[job.id] + 1]
      <3>1. Owed' = Owed /\ OnAir' = job.id /\ Owners'
        BY <2>1, <2>2, <2>5 DEF Owed, OnAir, Owners, Sensing
      <3>2. CASE job.who = "cmd"
        <4>1. open' = open
          BY <2>1, <2>3, <2>5, <3>2
        <4>2. Key(job.id)
          BY <1>0, <2>1, <2>3, <2>5, <3>1, <3>2, <4>1 DEF Key
        <4> QED
          BY <2>1, <3>1, <3>2, <4>2 DEF Moves
      <3>3. CASE job.who = "rx"
        BY <1>0, <2>1, <2>5, <3>1, <3>3 DEF Quiet, Moves
      <3> QED
        BY <2>1, <3>2, <3>3
    <2>6. CASE /\ pc' = "top" /\ UNCHANGED keyed
               /\ job.id = 0 => UNCHANGED <<open, replies>>
               /\ job.id \in Ids => /\ open' = open \ {job.id}
                                    /\ replies' = [replies EXCEPT ![job.id] = replies[job.id] + 1]
      <3>1. OnAir' = 0 /\ Owners'
        BY <2>1, <2>2, <2>6 DEF OnAir, Owners, Sensing
      <3>2. CASE job.who = "cmd"
        <4>1. Owed' = Owed \ {job.id}
          BY <2>1, <2>6, <3>2 DEF Owed, Sensing
        <4>2. Close(job.id)
          BY <1>0, <2>1, <2>3, <2>6, <3>1, <3>2, <4>1 DEF Close
        <4> QED
          BY <2>1, <3>1, <3>2, <4>2 DEF Moves
      <3>3. CASE job.who = "rx"
        <4>1. Owed' = Owed
          BY <2>1, <2>6, <3>3 DEF Owed, Sensing
        <4> QED
          BY <1>0, <2>1, <2>6, <3>1, <3>3, <4>1 DEF Quiet, Moves
      <3> QED
        BY <2>1, <3>2, <3>3
    <2>7. CASE LbtDefers /\ UNCHANGED keyed
      <3>1. CASE job.attempt + 1 < LbtAttempts
        BY <1>0, <2>1, <2>4, <2>7, <3>1 DEF LbtDefers, Jobs, Sensing
      <3>2. CASE ~(job.attempt + 1 < LbtAttempts)
        <4>1. /\ pc' = "top" /\ UNCHANGED keyed
              /\ replies' = Answered(job.id) /\ open' = open \ {job.id}
          BY <2>7, <3>2 DEF LbtDefers
        <4> QED
          BY <1>0, <2>6, <4>1 DEF Answered
      <3> QED
        BY <3>1, <3>2
    <2>8. CASE pc' \in {"clear", "send"} /\ UNCHANGED <<job, open, replies, keyed>>
      BY <2>4, <2>8 DEF Sensing
    <2>9. CASE LbtSend
      <3> DEFINE j == [job EXCEPT !.attempt = 0]
      <3>1. j \in Jobs /\ j.id = job.id /\ j.who = job.who
        BY <1>0 DEF Jobs
      <3>2. Transmit(chip, mode, j)
        BY <2>9 DEF LbtSend
      <3> HIDE DEF j
      <3> QED
        BY <2>5, <2>6, <3>1, <3>2, TransmitMoves
    <2>10. \/ LbtDefers /\ UNCHANGED keyed
           \/ pc' \in {"clear", "send"} /\ UNCHANGED <<job, open, replies, keyed>>
           \/ LbtSend
      BY <1>1 DEF LbtStep, LbtBusy, LbtClear, LbtRssi
    <2> QED
      BY <2>7, <2>8, <2>9, <2>10
  <1>2. CASE FireDone \/ FireFails
    <2>1. pc = "fire" /\ FireReturns /\ UNCHANGED keyed
      BY <1>2 DEF FireDone, FireFails
    <2>2. /\ job.who \in {"cmd", "rx", "beacon", "sched"} /\ OnAir = job.id
          /\ job.who = "cmd" => job.id \in Ids /\ (IsArmed => job.id # sched.id)
          /\ job.who \in {"rx", "beacon"} => job.id = 0
          /\ job.who = "sched" => OwnsRadio /\ job.id = sched.id
          /\ IsArmed => sched.id \in Ids
      BY <2>1 DEF Owners, OnAir
    <2>3. /\ pc' \in {"top", "beacon"} /\ replies' = Answered(job.id) /\ open' = open \ {job.id}
          /\ sched' = IF job.who = "sched" THEN Idle ELSE sched
          /\ OnAir' = 0
      BY <2>1 DEF FireReturns, OnAir
    <2>4. Owners'
      BY <2>2, <2>3 DEF Sensing, Owners, IsArmed, Idle
    <2>5. CASE job.who \in {"cmd", "sched"}
      <3>1. job.id \in Ids /\ job.id \in Owed
        BY <2>1, <2>2, <2>5 DEF Owed, OwnsRadio, IsArmed
      <3>2. Owed' = Owed \ {job.id}
        BY <2>1, <2>2, <2>3, <2>5 DEF Owed, OwnsRadio, IsArmed, Idle
      <3>3. Close(job.id)
        BY <1>0, <2>1, <2>2, <2>3, <3>1, <3>2 DEF Close, Answered
      <3> QED
        BY <2>4, <3>1, <3>3 DEF Moves
    <2>6. CASE job.who \in {"rx", "beacon"}
      <3>1. Owed' = Owed
        BY <2>1, <2>2, <2>3, <2>6 DEF Owed, IsArmed
      <3> QED
        BY <1>0, <2>1, <2>2, <2>3, <2>4, <2>6, <3>1 DEF Quiet, Moves, Answered
    <2> QED
      BY <2>2, <2>5, <2>6
  <1>3. CASE FireHop
    <2>1. UNCHANGED <<cmdq, pc, job, sched, open, replies, keyed>>
      BY <1>3 DEF FireHop
    <2> QED
      BY <2>1, SameOwners DEF Moves
  <1> QED
    BY <1>1, <1>2, <1>3 DEF FireStep

LEMMA LoopMoves ==
  ASSUME TypeOK, Owners, Accounts, Top \/ TakeRx \/ WakeHop \/ WakeTimer \/ Beacon
  PROVE  Moves /\ Owners'
  <1>0. 0 \notin Ids /\ open \subseteq Ids /\ open = Owed
    BY NoZero DEF TypeOK, Accounts
  <1>1. CASE Top \/ WakeHop \/ WakeTick
    <2>1. /\ UNCHANGED <<cmdq, job, sched, open, replies, keyed>>
          /\ pc \in {"top", "select"} /\ pc' \in {"top", "select", "beacon"}
      BY <1>1 DEF Top, WakeHop, WakeTick, TimerWakes
    <2> QED
      BY <2>1 DEF Sensing, Owners, Moves, Quiet, Owed, OnAir, IsArmed
  <1>2. CASE TakeRx
    <2>1. /\ UNCHANGED <<cmdq, sched, open, replies, keyed>> /\ pc = "select"
          /\ pc' = "top" \/ (pc' = "lbt" /\ job'.who = "rx" /\ job'.id = 0)
      BY <1>2 DEF TakeRx
    <2> QED
      BY <2>1 DEF Sensing, Owners, Moves, Quiet, Owed, OnAir, IsArmed
  <1>3. CASE WakeStage \/ WakeFire
    <2>1. /\ UNCHANGED cmdq /\ pc = "select" /\ IsArmed /\ sched.id \in Ids
          /\ sched.id \in open /\ Owed = {sched.id} /\ OnAir = 0
      BY <1>0, <1>3
      DEF WakeStage, WakeFire, TimerWakes, StageDue, FireDue, OwnsRadio, IsArmed, Owners,
          Owed, OnAir
    <2>2. CASE /\ pc' = "beacon" /\ sched' = [sched EXCEPT !.st = "staged"]
               /\ UNCHANGED <<open, replies, keyed>>
      <3>1. sched'.id = sched.id /\ IsArmed'
        BY <2>2 DEF TypeOK, Slots, IsArmed
      <3> QED
        BY <2>1, <2>2, <3>1 DEF Sensing, Owners, Moves, Quiet, Owed, OnAir
    <2>3. CASE /\ pc' = "beacon" /\ sched' = Idle /\ UNCHANGED keyed
               /\ replies' = Answered(sched.id) /\ open' = open \ {sched.id}
      <3>1. ~IsArmed' /\ Owed' = {} /\ OnAir' = 0 /\ Owners'
        BY <2>3 DEF Sensing, IsArmed, Idle, Owed, OnAir, Owners
      <3>2. Close(sched.id)
        BY <1>0, <2>1, <2>3, <3>1 DEF Close, Answered
      <3> QED
        BY <2>1, <3>1, <3>2 DEF Moves
    <2>4. CASE /\ pc' = "fire" /\ job' = [who |-> "sched", id |-> sched.id, attempt |-> 0]
               /\ OwnsRadio /\ KeyUp(sched.id) /\ UNCHANGED <<sched, open, replies>>
      <3>1. job'.who = "sched" /\ job'.id = sched.id /\ OwnsRadio' /\ IsArmed'
        BY <2>4 DEF OwnsRadio, IsArmed
      <3>2. Owed' = {sched.id} /\ OnAir' = sched.id /\ Owners'
        BY <2>1, <2>4, <3>1 DEF Owed, OnAir, Owners, Sensing
      <3>3. Key(sched.id)
        BY <1>0, <2>1, <2>4, <3>2 DEF Key, KeyUp
      <3> QED
        BY <2>1, <3>2, <3>3 DEF Moves
    <2>5. WakeStage => UNCHANGED keyed /\ pc' = "beacon"
      BY DEF WakeStage
    <2>6. WakeFire => FireDue
      BY DEF WakeFire
    <2> QED
      BY <1>3, <2>2, <2>3, <2>4, <2>5, <2>6 DEF WakeStage, WakeFire, FireDue
  <1>4. CASE Beacon
    <2>1. UNCHANGED <<cmdq, sched>> /\ pc = "beacon" /\ OnAir = 0
      BY <1>4 DEF Beacon, OnAir
    <2>2. CASE BeaconDue /\ ~IsArmed
      <3> DEFINE j == [who |-> "beacon", id |-> 0, attempt |-> 0]
      <3>1. j \in Jobs /\ j.id = 0 /\ j.who = "beacon"
        BY Parameters DEF Jobs
      <3>2. Transmit(chip, mode, j)
        BY <1>4, <2>2 DEF Beacon
      <3> HIDE DEF j
      <3>3. /\ UNCHANGED <<open, keyed, replies>>
            /\ pc' = "top" \/ (pc' = "fire" /\ job' = j)
        BY <3>1, <3>2, TransmitMoves
      <3> QED
        BY <2>1, <2>2, <3>1, <3>3 DEF Sensing, Owners, Moves, Quiet, Owed, OnAir, IsArmed
    <2>3. CASE ~(BeaconDue /\ ~IsArmed)
      <3>1. pc' = "top" /\ UNCHANGED <<open, keyed, replies>>
        BY <1>4, <2>3 DEF Beacon
      <3> QED
        BY <2>1, <3>1 DEF Sensing, Owners, Moves, Quiet, Owed, OnAir, IsArmed
    <2> QED
      BY <2>2, <2>3
  <1> QED
    BY <1>1, <1>2, <1>3, <1>4 DEF WakeTimer

LEMMA EnvironmentMoves ==
  ASSUME TypeOK, Owners, Accounts, Environment \/ UNCHANGED vars
  PROVE  Moves /\ Owners'
  <1>1. CASE UartReader
    BY <1>1 DEF Sensing, UartReader, Moves, Send, Owners, IsArmed, OwnsRadio
  <1>2. CASE \/ Tick \/ FrameArrives \/ HopDue \/ CadExpires \/ BeaconPeriod
             \/ UNCHANGED vars
    <2>1. UNCHANGED <<cmdq, pc, job, sched, open, replies, keyed>>
      BY <1>2 DEF Tick, FrameArrives, HopDue, CadExpires, BeaconPeriod, vars
    <2> QED
      BY <2>1, SameOwners DEF Moves
  <1> QED
    BY <1>1, <1>2 DEF Environment

\* The ledger is kept by every step.
LEMMA LedgerKept == TypeOK /\ Owners /\ Accounts /\ [Next]_vars => Owners' /\ Accounts'
  <1> SUFFICES ASSUME TypeOK, Owners, Accounts, [Next]_vars PROVE Owners' /\ Accounts'
    OBVIOUS
  <1>1. Moves /\ Owners'
    BY HandlerMoves, TransmissionMoves, LoopMoves, EnvironmentMoves DEF Next, RadioTask
  <1> QED
    BY <1>1, NextTypes, MovesKeepAccounts

LEMMA LedgerInit == Init => Owners /\ Accounts
  <1> SUFFICES ASSUME Init PROVE Owners /\ Accounts
    OBVIOUS
  <1>1. QueuedIn(cmdq) = {} /\ Distinct(cmdq)
    BY DEF Init, QueuedIn, Distinct
  <1>2. Owners /\ Owed = {} /\ open = {}
    BY DEF Sensing, Init, Owners, Owed, IsArmed, Idle
  <1>3. \A i \in Ids : replies[i] = 0 /\ keyed[i] = 0
    BY DEF Init
  <1>4. Sent = 1 .. 0 /\ 0 \in 0 .. MaxCmds
    <2>1. Sent = {}
      BY <1>1, <1>2, <1>3, SentIs
    <2> QED
      BY <2>1, Parameters
  <1> QED
    BY <1>1, <1>2, <1>3, <1>4 DEF Accounts, AtMostOnce

\* An accepted request is the one in the slot or the one on its way, until it is answered.
THEOREM NoneForgottenAlways == Spec => []NoneForgotten
  <1>1. Accounts => NoneForgotten
    BY DEF Accounts, Owed, NoneForgotten
  <1> QED
    BY <1>1, LedgerInit, LedgerKept, TypeCorrect, PTL DEF Spec

\* No request is answered twice, and no frame of the host is keyed up twice.
THEOREM AtMostOnceAlways == Spec => []AtMostOnce
  <1>1. Accounts => AtMostOnce
    BY DEF Accounts
  <1> QED
    BY <1>1, LedgerInit, LedgerKept, TypeCorrect, PTL DEF Spec

----------------------------------------------------------------------------
(* What the chip holds, against what the firmware believes.                 *)

\* A chip that the mirror md says is in standby is, unless a set_standby was lost.
Rests(c, md) == md = "standby" => c.mode = "standby" \/ lostStandby

Listening ==
  /\ chip.mode = "rx" /\ mode = "rx" /\ chip.mod = mdltn.mod
  /\ \/ HopGaveUp \/ chip.frf = p.freq
     \/ hop.on /\ \E i \in 1..Len(hop.list) : chip.frf = hop.list[i]
  /\ hop.on => chip.hopIrq

Between == pc \in {"top", "select", "beacon"}

\* While nothing is being transmitted, the chip is loaded or it listens, as the
\* scheduled slot and rxArmed say.
RadioOK ==
  /\ Rests(chip, mode)
  /\ StagedIsLoaded
  /\ OwnsRadio /\ Between => mode = "tx"
  /\ rxArmed /\ Between => Listening
  /\ Sensing => ~OwnsRadio /\ ~rxArmed
  /\ pc = "fire" /\ OwnsRadio => job.who = "sched"

LEMMA RestsThrough ==
  ASSUME TypeOK, NEW c \in Chips, NEW md \in Modes, Rests(c, md), NEW k \in Nat
  PROVE  /\ Rests(ArmUpTo(k, c, md), ArmMode(k, md))
         /\ \A id : Rests(StageUpTo(k, c, md, id), StageMode(k, md))
         /\ \A id : Rests(StageUpTo(StageSteps, c, md, id), "standby")
         /\ Rests(ToStandby(c, md), "standby")
         /\ \A m, cleared, z : Rests(CadDone(c, m, cleared), z)
         /\ \A m : Rests(CadUpTo(k, c, md, m), CadMode(k, md))
         /\ \A on \in BOOLEAN : \A z : Rests(c, z) => Rests(HopRegs(k, c, on), z)
  <1>1. Rests(ToStandby(c, md), "standby")
    BY DEF Rests, ToStandby, Chips
  <1>2. \A m, cleared, z : Rests(CadDone(c, m, cleared), z)
    BY DEF Rests, CadDone, Chips
  <1>3. \A on \in BOOLEAN : HopRegs(k, c, on).mode = c.mode
    BY DEF HopRegs, Chips
  <1>4. ArmUpTo(k, c, md).mode
          = IF k >= 6 THEN "rx" ELSE IF k >= 1 THEN ToStandby(c, md).mode ELSE c.mode
    BY DEF ArmUpTo, Chips
  <1>5. \A n, id : StageUpTo(n, c, md, id).mode
          = IF n >= 1 THEN ToStandby(c, md).mode ELSE c.mode
    BY DEF StageUpTo, Chips
  <1>6. Rests(ArmUpTo(k, c, md), ArmMode(k, md))
    BY <1>1, <1>4 DEF Rests, ArmMode
  <1>7. \A id : Rests(StageUpTo(k, c, md, id), StageMode(k, md))
    BY <1>1, <1>5 DEF Rests, StageMode
  <1>8. \A id : Rests(StageUpTo(StageSteps, c, md, id), "standby")
    BY <1>1, <1>5 DEF Rests, StageSteps
  <1>9. \A m : Rests(CadUpTo(k, c, md, m), CadMode(k, md))
    <2>1. \A m : CadUpTo(k, c, md, m).mode
            = IF k >= 5 THEN "cad" ELSE IF k >= 1 THEN ToStandby(c, md).mode ELSE c.mode
      BY DEF CadUpTo, Chips
    <2> QED
      BY <1>1, <2>1 DEF Rests, CadMode
  <1> QED
    BY <1>1, <1>2, <1>3, <1>6, <1>7, <1>8, <1>9 DEF Rests

\* So it stays through any number of CADs and a reading of the RSSI.
LEMMA CadRests ==
  ASSUME TypeOK, NEW r \in Outcomes, Rests(r.chip, r.mode), NEW m \in Mods
  PROVE  /\ Rests(CadEnds(r, m).chip, CadEnds(r, m).mode)
         /\ \A s \in Cad(r, m) : Rests(s.chip, s.mode)
  <1>1. r.chip \in Chips /\ r.mode \in Modes
    BY DEF Outcomes
  <1>2. /\ \A cleared, z : Rests(CadDone(r.chip, m, cleared), z)
        /\ \A k \in Nat : Rests(CadUpTo(k, r.chip, r.mode, m), CadMode(k, r.mode))
    BY <1>1, RestsThrough
  <1>3. Rests(CadEnds(r, m).chip, CadEnds(r, m).mode)
    BY <1>2 DEF CadEnds
  <1> QED
    BY <1>2, <1>3, CadCases

LEMMA CadsRest ==
  ASSUME TypeOK, NEW r \in Outcomes, Rests(r.chip, r.mode), NEW ms \in SUBSET Mods
  PROVE  \A s \in Cads(r, ms) : Rests(s.chip, s.mode)
  BY CadRests, CadTypes DEF Cads

LEMMA RssiRests ==
  ASSUME TypeOK, NEW r \in Outcomes, Rests(r.chip, r.mode)
  PROVE  /\ Rests(Listens(r).chip, Listens(r).mode)
         /\ \A s \in SenseRssi(r) : Rests(s.chip, s.mode)
  <1>1. r.chip \in Chips /\ r.mode \in Modes
    BY DEF Outcomes
  <1>2. \A k \in Nat : Rests(ArmUpTo(k, r.chip, r.mode), ArmMode(k, r.mode))
    BY <1>1, RestsThrough
  <1>3. Listens(r).mode = "rx"
    BY DEF Listens
  <1>4. Listens(r) \in Outcomes
    BY RssiTypes
  <1>5. [Listens(r) EXCEPT !.ok = FALSE].mode = "rx"
    BY <1>3, <1>4 DEF Outcomes
  <1>6. Rests(Listens(r).chip, Listens(r).mode)
    BY <1>3 DEF Rests
  <1>7. ASSUME NEW s \in SenseRssi(r) PROVE Rests(s.chip, s.mode)
    <2>1. CASE s = Listens(r)
      BY <1>6, <2>1
    <2>2. CASE s = [Listens(r) EXCEPT !.ok = FALSE]
      BY <1>5, <2>2 DEF Rests
    <2>3. CASE \E k \in Nat :
                 s = [chip |-> ArmUpTo(k, r.chip, r.mode), mode |-> ArmMode(k, r.mode),
                      ok |-> FALSE]
      BY <1>2, <2>3
    <2> QED
      BY <1>7, <2>1, <2>2, <2>3, RssiCases
  <1> QED
    BY <1>6, <1>7

\* A transmission that starts leaves the mirror at Transmit, one that fails a chip
\* that rests as far as the mirror says so.
LEMMA TransmitRests ==
  ASSUME TypeOK, NEW c \in Chips, NEW md \in Modes, NEW j \in Jobs, Rests(c, md),
         Transmit(c, md, j), UNCHANGED lostStandby
  PROVE  /\ Rests(chip, mode)'
         /\ pc' = "top" \/ (pc' = "fire" /\ job' = j)
  <1>1. CASE mode' = "tx" /\ pc' = "fire" /\ job' = j
    BY <1>1 DEF Rests
  <1>2. CASE /\ \/ \E k \in 0..StageSteps - 1 :
                     /\ chip' = StageUpTo(k, c, md, j.id) /\ mode' = StageMode(k, md)
                \/ /\ chip' = StageUpTo(StageSteps, c, md, j.id) /\ mode' = "standby"
             /\ pc' = "top"
    <2>1. \E z \in Nat : \/ chip' = StageUpTo(z, c, md, j.id) /\ mode' = StageMode(z, md)
                         \/ chip' = StageUpTo(StageSteps, c, md, j.id) /\ mode' = "standby"
      BY <1>2 DEF StageSteps
    <2>2. Rests(chip', mode')
      BY <2>1, RestsThrough
    <2> QED
      BY <1>2, <2>2 DEF Rests
  <1> QED
    BY <1>1, <1>2 DEF Transmit

\* After a command nothing owns the radio and reception is to be armed.
LEMMA HandlerRadio ==
  ASSUME TypeOK, RadioOK, HandleCmd
  PROVE  RadioOK'
  <1>0. /\ pc = "select" /\ cmdq # <<>> /\ rxArmed' = FALSE /\ UNCHANGED lostStandby
        /\ chip \in Chips /\ mode \in Modes /\ DemotedMode \in Modes
    BY DemotedTypes
    DEF HandleCmd, HandleTx, HandleTxLbt, HandleFreq, HandleMod, HandleKnob, HandleBeacon,
        HandleStandby, HandleCad, HandleRssi, HandleHop, HandleTxAt, Take, TypeOK, Modes
  <1>1. ~OwnsRadio'
    <2>1. sched' = Demoted \/ sched'.st = "pending"
      BY DEF HandleCmd, HandleTx, HandleTxLbt, HandleFreq, HandleMod, HandleKnob, HandleBeacon,
             HandleStandby, HandleCad, HandleRssi, HandleHop, HandleTxAt
    <2> QED
      BY <2>1, DemotedKeeps DEF OwnsRadio
  <1>2. Rests(chip, DemotedMode)
    BY <1>0 DEF RadioOK, Rests, DemotedMode, StagedIsLoaded
  <1>4. /\ Radio(DemotedMode) \in Outcomes /\ mdltn.mod \in Mods
        /\ Rests(Radio(DemotedMode).chip, Radio(DemotedMode).mode)
    BY <1>0, <1>2, RadioTypes DEF TypeOK, Knobs
  <1>3. Rests(chip, mode)'
    <2>1. CASE HandleTx
      <3>1. [who |-> "cmd", id |-> Id, attempt |-> 0] \in Jobs
        BY <1>0, CommandTypes DEF Jobs
      <3>2. Transmit(chip, DemotedMode, [who |-> "cmd", id |-> Id, attempt |-> 0])
        BY <2>1 DEF HandleTx
      <3> QED
        BY <1>0, <1>2, <3>1, <3>2, TransmitRests
    <2>2. CASE chip' = chip /\ mode' = DemotedMode
      BY <1>0, <1>2, <2>2 DEF Rests
    <2>3. CASE HandleStandby
      <3>1. Rests(ToStandby(chip, DemotedMode), "standby")
        BY <1>0, <1>2, RestsThrough
      <3> QED
        BY <1>0, <1>2, <2>3, <3>1 DEF HandleStandby, Rests
    <2>4. CASE HandleCad
      <3>1. PICK r \in Cad(Radio(DemotedMode), mdltn.mod) \cup Sweep(Radio(DemotedMode)) :
              Becomes(r)
        BY <2>4 DEF HandleCad
      <3>2. r \in Outcomes /\ Rests(r.chip, r.mode)
        BY <1>4, CadTypes, CadsTypes, CadRests, CadsRest DEF Sweep
      <3> QED
        BY <1>0, <3>1, <3>2, BecomesTypes DEF Rests
    <2>5. CASE HandleRssi
      <3>1. PICK q \in {Radio(DemotedMode)} \cup Cads(Radio(DemotedMode), {mdltn.mod}) :
              \E r \in SenseRssi(q) : Becomes(r)
        BY <2>5 DEF HandleRssi
      <3>2. PICK r \in SenseRssi(q) : Becomes(r)
        BY <3>1
      <3>3. q \in Outcomes /\ Rests(q.chip, q.mode)
        BY <1>4, <3>1, CadsTypes, CadsRest
      <3>4. r \in Outcomes /\ Rests(r.chip, r.mode)
        BY <3>2, <3>3, RssiTypes, RssiRests
      <3> QED
        BY <1>0, <3>2, <3>4, BecomesTypes DEF Rests
    <2>6. CASE HandleHop
      <3>1. Cmd.on \in BOOLEAN
        BY <2>6, TakeTypes, CommandTypes DEF HandleHop
      <3>2. PICK c \in {chip, ToStandby(chip, DemotedMode)} :
              /\ HopSet(c) \/ HopSetFails(c)
              /\ \/ c = chip /\ mode' = DemotedMode
                 \/ c = ToStandby(chip, DemotedMode) /\ mode' = "standby"
        BY <2>6 DEF HandleHop
      <3>3. c \in Chips /\ Rests(c, mode')
        <4>1. /\ chip \in Chips /\ Rests(chip, DemotedMode)
              /\ ToStandby(chip, DemotedMode) \in Chips
              /\ Rests(ToStandby(chip, DemotedMode), "standby")
          BY <1>0, <1>2, ChipTypes, RestsThrough
        <4> QED
          BY <3>2, <4>1
      <3>4. \A k \in Nat, on \in BOOLEAN, d \in Chips : HopRegs(k, d, on).mode = d.mode
        BY DEF HopRegs, Chips
      <3>5. CASE HopSet(c)
        <4>1. chip' = HopRegs(3, c, Cmd.on)
          BY <3>5 DEF HopSet
        <4>2. chip'.mode = c.mode
          BY <3>1, <3>3, <3>4, <4>1
        <4> QED
          BY <1>0, <3>3, <4>2 DEF Rests
      <3>6. CASE HopSetFails(c)
        <4>1. PICK k \in 0 .. 2, l \in 0 .. 3 :
                chip' = HopRegs(l, HopRegs(k, c, Cmd.on), FALSE)
          BY <3>6 DEF HopSetFails
        <4>2. HopRegs(k, c, Cmd.on) \in Chips
          BY <3>1, <3>3, HopRegsTypes
        <4>3. HopRegs(k, c, Cmd.on).mode = c.mode
          BY <3>1, <3>3, <3>4
        <4>4. chip'.mode = HopRegs(k, c, Cmd.on).mode
          <5>1. l \in Nat /\ FALSE \in BOOLEAN
            OBVIOUS
          <5>2. HopRegs(l, HopRegs(k, c, Cmd.on), FALSE).mode = HopRegs(k, c, Cmd.on).mode
            BY ONLY <3>4, <4>2, <5>1, Zenon
          <5> QED
            BY <4>1, <5>2, Zenon
        <4> QED
          BY <1>0, <3>3, <4>3, <4>4 DEF Rests
      <3> QED
        BY <3>2, <3>5, <3>6
    <2> QED
      BY <2>1, <2>2, <2>3, <2>4, <2>5, <2>6
      DEF HandleCmd, HandleTxLbt, HandleFreq, HandleMod, HandleKnob, HandleBeacon, HandleTxAt
  <1> QED
    BY <1>0, <1>1, <1>3 DEF RadioOK, StagedIsLoaded

\* Arming and staging, when every write gets through.
LEMMA ArmedAndStaged ==
  ASSUME TypeOK, NEW c \in Chips, NEW md \in Modes, NEW id, Rests(c, md)
  PROVE  /\ LET a == ArmUpTo(ArmSteps, c, md) IN
              a.mode = "rx" /\ a.mod = mdltn.mod /\ a.frf = p.freq /\ a.hopIrq = hop.on
         /\ ArmMode(ArmSteps, md) = "rx" /\ StageMode(StageSteps, md) = "tx"
         /\ LET t == StageUpTo(StageSteps, c, md, id) IN
              /\ t.fifo = id /\ t.mod = mdltn.mod /\ t.frf = p.freq /\ t.hopIrq = hop.on
              /\ hop.on => ~t.hopFlag
              /\ t.mode = "standby" \/ lostStandby
  <1>1. hop.on \in BOOLEAN
    BY DEF TypeOK
  <1>2. LET a == ArmUpTo(ArmSteps, c, md) IN
          a.mode = "rx" /\ a.mod = mdltn.mod /\ a.frf = p.freq /\ a.hopIrq = hop.on
    BY <1>1 DEF ArmUpTo, ArmSteps, Chips
  <1>3. ArmMode(ArmSteps, md) = "rx" /\ StageMode(StageSteps, md) = "tx"
    BY DEF ArmMode, StageMode, ArmSteps, StageSteps
  <1> DEFINE t == StageUpTo(StageSteps, c, md, id)
  <1>4. /\ t.fifo = id /\ t.mod = mdltn.mod /\ t.frf = p.freq /\ t.hopIrq = hop.on
        /\ hop.on => ~t.hopFlag
        /\ t.mode = ToStandby(c, md).mode
    <2>1. t.fifo = id /\ t.mod = mdltn.mod /\ t.frf = p.freq
      BY DEF StageUpTo, StageSteps, Chips
    <2>2. t.hopIrq = hop.on /\ (hop.on => ~t.hopFlag)
      <3>1. t.hopIrq = (IF 6 >= 6 THEN hop.on ELSE 6 < 5 /\ c.hopIrq)
        BY Zenon DEF StageUpTo, StageSteps, Chips
      <3>2. t.hopFlag = ((6 < 6 \/ ~hop.on) /\ c.hopFlag)
        BY Zenon DEF StageUpTo, StageSteps, Chips
      <3>3. c.hopFlag \in BOOLEAN /\ c.hopIrq \in BOOLEAN
        BY DEF Chips
      <3> HIDE DEF t
      <3>4. t.hopIrq = hop.on
        BY <3>1
      <3>5. CASE hop.on = TRUE
        <4>1. t.hopFlag = (FALSE /\ c.hopFlag)
          BY <3>2, <3>5
        <4> QED
          BY <3>4, <4>1
      <3>6. CASE hop.on = FALSE
        BY <3>4, <3>6
      <3> QED
        BY <1>1, <3>5, <3>6
    <2>3. t.mode = ToStandby(c, md).mode
      BY DEF StageUpTo, StageSteps, Chips
    <2> QED
      BY <2>1, <2>2, <2>3
  <1>5. ToStandby(c, md).mode = "standby" \/ lostStandby
    BY DEF Rests, ToStandby, Chips
  <1> QED
    BY <1>2, <1>3, <1>4, <1>5

LEMMA LoopRadio ==
  ASSUME TypeOK, RadioOK, Top \/ TakeRx \/ WakeHop \/ WakeTick \/ Beacon
  PROVE  RadioOK'
  <1>0. /\ chip \in Chips /\ mode \in Modes /\ Rests(chip, mode) /\ UNCHANGED lostStandby
    BY DEF TypeOK, RadioOK, Modes, Top, TakeRx, WakeHop, WakeTick, Beacon
  <1>1. CASE WakeTick \/ (Top /\ (rxArmed \/ OwnsRadio))
    <2>1. /\ UNCHANGED <<p, mdltn, hop, sched, rxArmed, mode, chip, job>>
          /\ Between /\ Between' /\ pc' # "lbt" /\ pc' # "fire"
      BY <1>1 DEF WakeTick, TimerWakes, Top, Between
    <2> QED
      BY <1>0, <2>1
      DEF Sensing, RadioOK, Rests, StagedIsLoaded, Listening, HopGaveUp, OwnsRadio, Between
  <1>2. CASE Top /\ ~rxArmed /\ ~OwnsRadio
    <2>1. pc' = "select" /\ ~OwnsRadio' /\ UNCHANGED <<p, mdltn, hop, sched>>
      BY <1>2 DEF Top, OwnsRadio
    <2>2. \/ /\ chip' = ArmUpTo(ArmSteps, chip, mode) /\ mode' = ArmMode(ArmSteps, mode)
             /\ rxArmed' = TRUE
          \/ /\ \E k \in 0..ArmSteps : /\ chip' = ArmUpTo(k, chip, mode)
                                       /\ mode' = ArmMode(k, mode)
             /\ rxArmed' = FALSE
      BY <1>2 DEF Top
    <2>3. Rests(chip', mode')
      BY <1>0, <2>2, RestsThrough DEF ArmSteps
    <2>4. rxArmed' => Listening'
      <3>1. SUFFICES ASSUME rxArmed' = TRUE PROVE Listening'
        BY <2>2
      <3>2. chip' = ArmUpTo(ArmSteps, chip, mode) /\ mode' = ArmMode(ArmSteps, mode)
        BY <2>2, <3>1
      <3>3. /\ chip'.mode = "rx" /\ chip'.mod = mdltn.mod /\ chip'.frf = p.freq
            /\ chip'.hopIrq = hop.on /\ mode' = "rx"
        BY <1>0, <3>2, ArmedAndStaged
      <3> QED
        BY <2>1, <3>3 DEF Listening
    <2> QED
      BY <1>0, <2>1, <2>3, <2>4 DEF Sensing, RadioOK, Rests, StagedIsLoaded, Between
  <1>3. CASE TakeRx
    <2>1. /\ pc = "select" /\ ~OwnsRadio' /\ UNCHANGED <<p, mdltn, hop, mode, sched>>
          /\ RxRead \/ UNCHANGED chip
          /\ (pc' = "top" /\ rxArmed' = rxArmed) \/ (pc' \in {"top", "lbt"} /\ rxArmed' = FALSE)
      BY <1>3 DEF TakeRx, IrqReady, OwnsRadio
    <2>2. /\ chip'.mode = chip.mode /\ chip'.mod = chip.mod /\ chip'.frf = chip.frf
          /\ chip'.hopIrq = chip.hopIrq
      BY <1>0, <2>1 DEF RxRead, Chips
    <2> QED
      BY <1>0, <2>1, <2>2
      DEF Sensing, RadioOK, Rests, StagedIsLoaded, Listening, HopGaveUp, Between
  <1>4. CASE WakeHop
    <2>1. /\ pc = "select" /\ pc' = "top" /\ ~OwnsRadio' /\ hop.on /\ ServiceHop
          /\ UNCHANGED <<p, mdltn, mode, sched, rxArmed>>
      BY <1>4 DEF WakeHop, HopReady, OwnsRadio
    <2>2. /\ chip'.mode = chip.mode /\ chip'.mod = chip.mod /\ chip'.hopIrq = chip.hopIrq
          /\ \/ UNCHANGED hop /\ chip'.frf = chip.frf
             \/ UNCHANGED hop /\ \E i \in 1..Len(hop.list) : chip'.frf = hop.list[i]
             \/ hop'.on = FALSE
      BY <1>0, <2>1 DEF ServiceHop, Chips, TypeOK
    <2>3. rxArmed' => Listening'
      BY <2>1, <2>2 DEF RadioOK, Listening, HopGaveUp, Between
    <2> QED
      BY <1>0, <2>1, <2>2, <2>3 DEF Sensing, RadioOK, Rests, StagedIsLoaded
  <1>5. CASE Beacon
    <2>1. pc = "beacon" /\ UNCHANGED <<p, mdltn, hop, sched>>
      BY <1>5 DEF Beacon
    <2>2. CASE BeaconDue /\ ~IsArmed
      <3>1. [who |-> "beacon", id |-> 0, attempt |-> 0] \in Jobs
        BY Parameters DEF Jobs
      <3>2. Transmit(chip, mode, [who |-> "beacon", id |-> 0, attempt |-> 0])
            /\ rxArmed' = FALSE
        BY <1>5, <2>2 DEF Beacon
      <3>3. Rests(chip, mode)' /\ pc' \in {"top", "fire"}
        BY <1>0, <3>1, <3>2, TransmitRests
      <3>4. ~OwnsRadio'
        BY <2>1, <2>2 DEF OwnsRadio, IsArmed
      <3> QED
        BY <3>2, <3>3, <3>4 DEF RadioOK, StagedIsLoaded
    <2>3. CASE ~(BeaconDue /\ ~IsArmed)
      <3>1. pc' = "top" /\ UNCHANGED <<rxArmed, mode, chip>>
        BY <1>5, <2>3 DEF Beacon
      <3> QED
        BY <1>0, <2>1, <3>1
        DEF Sensing, RadioOK, Rests, StagedIsLoaded, Listening, HopGaveUp, OwnsRadio, Between
    <2> QED
      BY <2>2, <2>3
  <1> QED
    BY <1>1, <1>2, <1>3, <1>4, <1>5

LEMMA ScheduleRadio ==
  ASSUME TypeOK, RadioOK, WakeStage \/ WakeFire
  PROVE  RadioOK'
  <1>0. /\ chip \in Chips /\ mode \in Modes /\ Rests(chip, mode) /\ UNCHANGED lostStandby
        /\ pc = "select" /\ UNCHANGED <<p, mdltn, hop>>
    BY DEF TypeOK, RadioOK, Modes, WakeStage, WakeFire, TimerWakes
  <1>1. CASE WakeStage
    <2>1. pc' = "beacon" /\ rxArmed' = FALSE
      BY <1>1 DEF WakeStage
    <2>2. CASE /\ chip' = StageUpTo(StageSteps, chip, mode, sched.id)
               /\ mode' = StageMode(StageSteps, mode)
               /\ sched' = [sched EXCEPT !.st = "staged"]
      <3>1. /\ chip'.fifo = sched.id /\ chip'.mod = mdltn.mod /\ chip'.frf = p.freq
            /\ chip'.hopIrq = hop.on /\ (hop.on => ~chip'.hopFlag)
            /\ chip'.mode = "standby" \/ lostStandby
            /\ mode' = "tx"
        BY <1>0, <2>2, ArmedAndStaged
      <3>2. sched'.id = sched.id
        BY <2>2 DEF TypeOK, Slots
      <3> QED
        BY <1>0, <2>1, <3>1, <3>2 DEF Sensing, RadioOK, Rests, StagedIsLoaded
    <2>3. CASE /\ \E k \in 0..StageSteps - 1 :
                    /\ chip' = StageUpTo(k, chip, mode, sched.id)
                    /\ mode' = StageMode(k, mode)
               /\ sched' = Idle
      <3>1. Rests(chip', mode')
        BY <1>0, <2>3, RestsThrough DEF StageSteps
      <3>2. ~OwnsRadio'
        BY <2>3 DEF OwnsRadio, Idle
      <3> QED
        BY <1>0, <2>1, <3>1, <3>2 DEF RadioOK, Rests, StagedIsLoaded
    <2> QED
      BY <1>1, <2>2, <2>3 DEF WakeStage
  <1>2. CASE WakeFire
    <2>1. OwnsRadio /\ mode = "tx" /\ (chip.mode = "standby" \/ lostStandby)
      BY <1>0, <1>2 DEF WakeFire, FireDue, RadioOK, StagedIsLoaded, Between
    <2>2. CASE pc' = "fire" /\ job'.who = "sched" /\ UNCHANGED <<sched, mode, rxArmed>>
      BY <1>0, <2>1, <2>2 DEF Sensing, RadioOK, Rests, StagedIsLoaded, Between
    <2>3. CASE /\ pc' = "beacon" /\ sched' = Idle /\ rxArmed' = FALSE /\ mode' = "standby"
               /\ UNCHANGED chip
      BY <1>0, <2>1, <2>3 DEF RadioOK, Rests, StagedIsLoaded, OwnsRadio, Idle
    <2> QED
      <3>1. \/ /\ pc' = "fire" /\ job'.who = "sched"
               /\ UNCHANGED <<sched, mode, rxArmed>>
            \/ /\ pc' = "beacon" /\ sched' = Idle /\ rxArmed' = FALSE /\ mode' = "standby"
               /\ UNCHANGED chip
        BY <1>2 DEF WakeFire
      <3> QED
        BY <2>2, <2>3, <3>1
  <1> QED
    BY <1>1, <1>2

LEMMA TransmissionRadio ==
  ASSUME TypeOK, RadioOK, LbtStep \/ FireStep
  PROVE  RadioOK'
  <1>0. /\ chip \in Chips /\ mode \in Modes /\ Rests(chip, mode) /\ job \in Jobs
        /\ mdltn.mod \in Mods /\ "standby" \in Modes
    BY DEF TypeOK, RadioOK, Modes, Knobs
  <1>1. CASE LbtStep
    <2>1. Sensing /\ LbtFrame
      BY <1>1 DEF LbtStep, LbtBusy, LbtClear, LbtRssi, LbtSend, Sensing
    <2>2. ~OwnsRadio' /\ ~rxArmed' /\ UNCHANGED lostStandby
      BY <2>1 DEF LbtFrame, RadioOK, OwnsRadio
    <2>3. Rests(chip, mode)'
      <3>1. /\ Radio(mode) \in Outcomes
            /\ Rests(Radio(mode).chip, Radio(mode).mode)
        BY <1>0, RadioTypes
      <3>2. CASE LbtBusy \/ LbtClear \/ LbtRssi
        <4>1. PICK r \in {CadEnds(Radio(mode), mdltn.mod), Listens(Radio(mode))}
                         \cup Cads(Radio(mode), {mdltn.mod}) \cup SenseRssi(Radio(mode)) :
                Becomes(r)
          BY <3>2 DEF LbtBusy, LbtClear, LbtRssi
        <4>2. r \in Outcomes
          BY <1>0, <3>1, CadTypes, CadsTypes, RssiTypes
        <4>3. Rests(r.chip, r.mode)
          BY <1>0, <3>1, CadRests, CadsRest, RssiRests
        <4> QED
          BY <2>2, <4>1, <4>2, <4>3, BecomesTypes DEF Rests
      <3>3. CASE LbtSend
        <4>1. [job EXCEPT !.attempt = 0] \in Jobs
          BY <1>0 DEF Jobs
        <4>2. Transmit(chip, mode, [job EXCEPT !.attempt = 0])
          BY <3>3 DEF LbtSend
        <4> QED
          BY <1>0, <2>2, <4>1, <4>2, TransmitRests
      <3> QED
        BY <1>1, <3>2, <3>3 DEF LbtStep
    <2> QED
      BY <2>2, <2>3 DEF RadioOK, StagedIsLoaded
  <1>2. CASE FireDone \/ FireFails
    <2>1. /\ pc = "fire" /\ FireReturns
          /\ chip'.mode = "standby" \/ lostStandby'
      BY <1>0, <1>2 DEF FireDone, FireFails, Chips
    <2>2. rxArmed' = FALSE /\ mode' = "standby" /\ pc' \in {"top", "beacon"}
      BY <2>1 DEF FireReturns
    <2>3. ~OwnsRadio'
      BY <2>1 DEF FireReturns, RadioOK, OwnsRadio, Idle
    <2> QED
      BY <2>1, <2>2, <2>3 DEF RadioOK, Rests, StagedIsLoaded
  <1>3. CASE FireHop
    <2>1. /\ pc = "fire" /\ ServiceHop
          /\ UNCHANGED <<pc, job, sched, mode, lostStandby>>
      BY <1>3 DEF FireHop
    <2>2. chip'.mode = chip.mode
      BY <1>0, <2>1 DEF ServiceHop, Chips
    <2> QED
      BY <1>0, <2>1, <2>2 DEF Sensing, RadioOK, Rests, StagedIsLoaded, OwnsRadio, Between
  <1> QED
    BY <1>1, <1>2, <1>3 DEF FireStep

LEMMA EnvironmentRadio ==
  ASSUME TypeOK, RadioOK, Environment \/ UNCHANGED vars
  PROVE  RadioOK'
  <1>0. /\ chip \in Chips
        /\ UNCHANGED <<pc, job, p, mdltn, hop, sched, rxArmed, mode, lostStandby>>
    BY DEF TypeOK, Environment, Tick, UartReader, FrameArrives, HopDue, CadExpires,
           BeaconPeriod, vars
  <1>1. CASE CadExpires
    <2>1. /\ chip.mode = "cad" /\ chip'.mode = "standby" /\ chip'.mod = chip.mod
          /\ chip'.frf = chip.frf /\ chip'.fifo = chip.fifo /\ chip'.hopIrq = chip.hopIrq
          /\ chip'.hopFlag = chip.hopFlag
      BY <1>0, <1>1 DEF CadExpires, Chips
    <2> QED
      BY <1>0, <2>1
      DEF RadioOK, Rests, StagedIsLoaded, Listening, HopGaveUp, OwnsRadio, Between, Sensing
  <1>2. CASE ~CadExpires
    <2>1. \/ UNCHANGED chip
          \/ chip' = [chip EXCEPT !.rxDone = TRUE]
          \/ chip' = [chip EXCEPT !.hopFlag = TRUE] /\ chip.mode # "standby"
      BY <1>2 DEF Environment, Tick, UartReader, FrameArrives, HopDue, BeaconPeriod, vars
    <2>2. /\ chip'.mode = chip.mode /\ chip'.mod = chip.mod /\ chip'.frf = chip.frf
          /\ chip'.fifo = chip.fifo /\ chip'.hopIrq = chip.hopIrq
          /\ chip'.hopFlag = chip.hopFlag \/ chip.mode # "standby"
      BY <1>0, <2>1 DEF Chips
    <2> QED
      BY <1>0, <2>2
      DEF RadioOK, Rests, StagedIsLoaded, Listening, HopGaveUp, OwnsRadio, Between, Sensing
  <1> QED
    BY <1>1, <1>2

LEMMA RadioKept == TypeOK /\ RadioOK /\ [Next]_vars => RadioOK'
  BY HandlerRadio, LoopRadio, ScheduleRadio, TransmissionRadio, EnvironmentRadio
  DEF Next, RadioTask, WakeTimer

LEMMA RadioInit == Init => RadioOK
  BY DEF Init, RadioOK, Rests, StagedIsLoaded, OwnsRadio, Idle, Between

\* A staged frame is what the chip holds, whatever came between, up to a lost set_standby.
THEOREM StagedIsLoadedAlways == Spec => []StagedIsLoaded
  <1>1. RadioOK => StagedIsLoaded
    BY DEF RadioOK
  <1> QED
    BY <1>1, RadioInit, RadioKept, TypeCorrect, PTL DEF Spec

\* The loop that waits with rxArmed set does listen: the chip receives at the knobs'
\* modulation, on their carrier or one of the hop list, with the hop interrupt open if
\* it hops.  Only after a hop service that failed may the carrier be another one.
THEOREM ArmedIsListeningAlways == Spec => []ArmedIsListening
  <1>1. RadioOK => ArmedIsListening
    BY DEF RadioOK, ArmedIsListening, Listening, Between
  <1> QED
    BY <1>1, RadioInit, RadioKept, TypeCorrect, PTL DEF Spec

=============================================================================
