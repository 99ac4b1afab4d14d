--------------------------- MODULE Ath9kHtc_proofs ---------------------------
(* Theorems about Ath9kHtc, for every value of its constants. *)
EXTENDS Ath9kHtc, TLAPS

LEMMA Parameters ==
  /\ HomeChannel \in Nat /\ \A c \in Channels : c \in Nat
  /\ TopLevel \in Nat /\ SeqMod \in Nat /\ RecvTries \in Nat /\ ClockWord \in Nat
  /\ MaxFaults \in Nat /\ MaxEvents \in Nat /\ MaxTime \in Nat
  /\ SeqMod >= 1 /\ RecvTries >= 1 /\ ClockWord >= 1
  /\ CalApplied \in {0, 1} /\ HomeWidth \in {20, 40}
  /\ "nobody" \notin Threads
BY ParametersAssumption

\* What a step needs to know of the sequences it takes from and adds to.
LEMMA HeadTail ==
  ASSUME NEW S, NEW s \in Seq(S), s # <<>>
  PROVE  /\ Head(s) \in S /\ Tail(s) \in Seq(S)
         /\ Len(s) \in Nat /\ Len(s) >= 1 /\ Head(s) = s[1]
         /\ Len(Tail(s)) = Len(s) - 1
         /\ \A i \in DOMAIN Tail(s) : i + 1 \in DOMAIN s /\ Tail(s)[i] = s[i + 1]
OBVIOUS

LEMMA Extended ==
  ASSUME NEW S, NEW s \in Seq(S), NEW x \in S
  PROVE  /\ Append(s, x) \in Seq(S) /\ Len(Append(s, x)) = Len(s) + 1
         /\ Len(s) \in Nat /\ DOMAIN s = 1 .. Len(s)
         /\ Append(s, x)[Len(s) + 1] = x
         /\ \A i \in DOMAIN s : Append(s, x)[i] = s[i]
OBVIOUS

LEMMA Concatenated ==
  ASSUME NEW S, NEW a \in Seq(S), NEW b \in Seq(S)
  PROVE  a \o b \in Seq(S)
OBVIOUS

LEMMA Single == ASSUME NEW S, NEW x \in S PROVE <<x>> \in Seq(S)
OBVIOUS

LEMMA Empty == ASSUME NEW S PROVE <<>> \in Seq(S)
OBVIOUS

LEMMA Suffix ==
  ASSUME NEW S, NEW s \in Seq(S), s # <<>>, NEW n \in Nat
  PROVE  SubSeq(s, n + 1, Len(s)) \in Seq(S)
OBVIOUS

\* The steps there are: only a call of set_bandwidth depends on its argument's range.
GoodSteps == {s \in Steps : s.at = "set_bandwidth" => s.arg \in Widths}

LEMMA StepTypes ==
  /\ \A reg \in Registers, v \in Nat : Write(reg, v) \in GoodSteps
  /\ \A reg \in {"hi", "lo"} : Read(reg) \in GoodSteps
  /\ \A r \in Routines \ {"set_bandwidth"}, v \in Nat : Call(r, v) \in GoodSteps
  /\ \A w \in Widths : Call("set_bandwidth", w) \in GoodSteps
  /\ PassedOver(Step("wait", "agc", 0), 3) \in GoodSteps
  /\ PassedOver(Step("wait", "agc", 0), 1) \in GoodSteps
  /\ PassedOver(Write("board", 1), 1) \in GoodSteps
BY DEF GoodSteps, Steps, Step, Write, Read, Call, PassedOver, Places, Registers, Routines, Widths

\* The programs are sequences of steps.
LEMMA ProgramTypes ==
  ASSUME TypeOK
  PROVE  /\ \A w \in Widths : SetBandwidth(w) \in Seq(GoodSteps)
         /\ \A mhz \in Nat : SetChannelAndCal(mhz) \in Seq(GoodSteps)
                             /\ RfSetFreq(mhz) \in Seq(GoodSteps)
         /\ ApplyInitvals \in Seq(GoodSteps) /\ ReapplyPowerState \in Seq(GoodSteps)
         /\ ReadClock \in Seq(GoodSteps)
<1>1. /\ "synth" \in Registers /\ "turbo" \in Registers /\ "gain" \in Registers
      /\ 0 \in Nat /\ 1 \in Nat
  BY DEF Registers
<1>2. \A b \in {0, 1} : SetBit("turbo", b) \in Seq(GoodSteps)
  BY <1>1, StepTypes, Single DEF SetBit
<1>3. ClCal \in Seq(GoodSteps)
  BY <1>2, StepTypes, Single, Concatenated DEF ClCal
<1>4. \A mhz \in Nat : SetChannelAndCal(mhz) \in Seq(GoodSteps)
  BY <1>3, StepTypes, Single, Concatenated DEF SetChannelAndCal, Routines
<1>5. \A mhz \in Nat : RfSetFreq(mhz) \in Seq(GoodSteps)
  <2> TAKE mhz \in Nat
  <2>1. (IF width = 40 THEN mhz + 10 ELSE mhz) \in Nat
    OBVIOUS
  <2> QED BY <1>1, <2>1, StepTypes, Single DEF RfSetFreq
<1>6. ApplyInitvals \in Seq(GoodSteps)
  <2>1. width \in Nat
    BY DEF TypeOK, Widths
  <2>2. Step("write", "tables", width) \in GoodSteps
    BY <2>1 DEF GoodSteps, Steps, Step, Places
  <2>3. (IF width = 40 THEN 1 ELSE 0) \in {0, 1}
    OBVIOUS
  <2> QED BY <1>2, <2>2, <2>3, Single, Concatenated DEF ApplyInitvals, Write
<1>7. ReapplyPowerState \in Seq(GoodSteps)
  <2>1. power \in Nat /\ "set_tx_gain_level" \in Routines \ {"set_bandwidth"}
    BY ParametersAssumption DEF TypeOK, Levels, Routines
  <2>2. <<Call("set_tx_gain_level", power)>> \in Seq(GoodSteps)
    BY <2>1, StepTypes, Single
  <2> QED BY <2>2, StepTypes, Single, Empty, Concatenated DEF ReapplyPowerState
<1>8. \A w \in Widths : SetBandwidth(w) \in Seq(GoodSteps)
  <2>1. /\ Call("apply_initvals", 0) \in GoodSteps /\ Call("retune", 0) \in GoodSteps
        /\ Call("reapply_power_state", 0) \in GoodSteps
    BY <1>1, StepTypes DEF Routines
  <2>2. <<Call("apply_initvals", 0), Call("retune", 0)>> \in Seq(GoodSteps)
    BY <2>1
  <2>3. SetBit("turbo", 1) \in Seq(GoodSteps)
    BY <1>2
  <2> QED BY <2>1, <2>2, <2>3, Single, Empty, Concatenated DEF SetBandwidth
<1>9. ReadClock \in Seq(GoodSteps)
  <2>1. Read("hi") \in GoodSteps /\ Read("lo") \in GoodSteps /\ Call("clock_words", 0) \in GoodSteps
    BY <1>1, StepTypes DEF Routines
  <2> QED BY <2>1 DEF ReadClock
<1> QED BY <1>4, <1>5, <1>6, <1>7, <1>8, <1>9

----------------------------------------------------------------------------
(* Types, and whose turn it is.                                             *)

Turns ==
  /\ todo \in [Threads -> Seq(GoodSteps)]
  /\ \A t \in Threads :
       /\ pc[t] = "idle" => todo[t] = <<>> /\ op[t] = "none" /\ got[t] = <<>>
       /\ pc[t] = "wait" => todo[t] # <<>> /\ Head(todo[t]).do # "call"
       /\ pc[t] # "idle" => op[t] \in Ops[t]
  /\ lock = "nobody" <=> tries = 0
  /\ faults <= MaxFaults /\ events <= MaxEvents

ThreadTypes ==
  /\ todo \in [Threads -> Seq(Steps)]
  /\ op \in [Threads -> {"none", "tune", "power", "clock"}]
  /\ pc \in [Threads -> {"idle", "run", "wait"}]
  /\ \A t \in Threads : pc[t] = "wait" <=> lock = t
  /\ got \in [Threads -> Seq(Nat)] /\ since \in [Threads -> Nat]
  /\ failed \subseteq Threads /\ calls \in [Threads -> Nat]

Messages == Pipe({"reply", "event", "runt", "bad"})
Commands == [seq: Nat, by: Threads \cup {"nobody"}, step: Steps]

PipeTypes ==
  /\ seq \in 0..(SeqMod - 1) /\ lock \in Threads \cup {"nobody"}
  /\ out \in Seq(Commands) /\ in \in Seq(Messages)
  /\ tries \in 0..RecvTries
  /\ faults \in Nat /\ events \in Nat

RadioTypes ==
  /\ channel \in Channels \cup {HomeChannel} /\ width \in Widths /\ power \in Levels
  /\ chip \in [Registers -> Nat] /\ tsf \in Nat
  /\ asked \in Int /\ crossed \in BOOLEAN

LEMMA TypeParts == TypeOK <=> ThreadTypes /\ PipeTypes /\ RadioTypes
BY DEF TypeOK, ThreadTypes, PipeTypes, RadioTypes, Messages, Commands

LEMMA TypePartsNext == TypeOK' <=> ThreadTypes' /\ PipeTypes' /\ RadioTypes'
BY DEF TypeOK, ThreadTypes, PipeTypes, RadioTypes, Messages, Commands

LEMMA RadioKept ==
  ASSUME RadioTypes, channel' \in Channels \cup {HomeChannel}, width' \in Widths,
         power' \in Levels, asked' \in Int, chip' = chip, tsf' = tsf, crossed' = crossed
  PROVE  RadioTypes'
BY Zenon DEF RadioTypes

LEMMA GoodAreSteps == GoodSteps \subseteq Steps /\ Seq(GoodSteps) \subseteq Seq(Steps)
<1>1. GoodSteps \subseteq Steps
  BY DEF GoodSteps
<1> QED BY <1>1

LEMMA InitTypes == Init => TypeOK /\ Turns
<1> SUFFICES ASSUME Init PROVE TypeOK /\ Turns
  OBVIOUS
<1>1. \A t \in Threads : todo[t] \in Seq(GoodSteps)
  BY Empty DEF Init
<1>2. chip \in [Registers -> Nat]
  <2>1. PICK a \in Nat, b \in Nat, c \in Nat, d \in Nat, e \in Nat :
          chip = [synth |-> a, turbo |-> b, column |-> c, gain |-> d, board |-> e]
    <3>1. /\ Mhz(channel) + (IF width = 40 THEN 10 ELSE 0) \in Nat
          /\ (IF width = 40 THEN 1 ELSE 0) \in Nat
          /\ width \in Nat /\ TopLevel \in Nat /\ CalApplied \in Nat
      BY Parameters DEF Init, Mhz
    <3> QED BY <3>1 DEF Init
  <2>2. chip = [r \in {"synth", "turbo", "column", "gain", "board"} |-> chip[r]]
    BY <2>1
  <2>3. \A r \in {"synth", "turbo", "column", "gain", "board"} : chip[r] \in Nat
    BY <2>1
  <2> QED BY ONLY <2>2, <2>3 DEF Registers
<1>3. <<>> \in Seq([seq: Nat, by: Threads \cup {"nobody"}, step: Steps])
      /\ <<>> \in Seq(Pipe({"reply", "event", "runt", "bad"})) /\ <<>> \in Seq(Nat)
  BY Empty
<1>4. todo \in [Threads -> Seq(GoodSteps)] /\ todo \in [Threads -> Seq(Steps)]
  <2>1. todo = [t \in Threads |-> <<>>]
    BY DEF Init
  <2>2. <<>> \in Seq(GoodSteps) /\ <<>> \in Seq(Steps)
    BY Empty
  <2> QED BY ONLY <2>1, <2>2
<1>5. ThreadTypes
  BY <1>3, <1>4, Parameters DEF Init, ThreadTypes
<1>6. PipeTypes
  BY <1>3, Parameters DEF Init, PipeTypes, Messages, Commands
<1>7. RadioTypes
  <2>1. /\ channel = HomeChannel /\ width = HomeWidth /\ power = 0 /\ tsf = ClockWord - 1
        /\ asked = -1 /\ crossed = FALSE
    BY DEF Init
  <2>2. width \in Widths /\ channel \in Channels \cup {HomeChannel}
    BY <2>1, Parameters DEF Widths
  <2>3. power \in Levels /\ tsf \in Nat /\ asked \in Int
    BY <2>1, Parameters DEF Levels
  <2> QED BY <1>2, <2>1, <2>2, <2>3 DEF RadioTypes
<1>8. Turns
  BY <1>4, Parameters DEF Init, Turns
<1> QED BY <1>5, <1>6, <1>7, <1>8, TypeParts
\* What holds between two operations and what a step changes of one thread.
LEMMA BeginTypes ==
  ASSUME TypeOK, Turns, NEW t \in Threads, NEW name, NEW steps \in Seq(GoodSteps),
         Begin(t, name, steps)
  PROVE  ThreadTypes' /\ PipeTypes' /\ Turns'
<1>1. /\ pc[t] = "idle" /\ name \in Ops[t] /\ name \in {"tune", "power", "clock"}
      /\ ThreadTypes /\ PipeTypes /\ RadioTypes
  BY ParametersAssumption, TypeParts DEF Begin
<1>2. /\ calls' = [calls EXCEPT ![t] = @ + 1] /\ pc' = [pc EXCEPT ![t] = "run"]
      /\ op' = [op EXCEPT ![t] = name] /\ todo' = [todo EXCEPT ![t] = steps]
      /\ since' = [since EXCEPT ![t] = tsf]
      /\ UNCHANGED <<pipes, got, failed, faults, events>>
  BY DEF Begin
<1>3. todo' \in [Threads -> Seq(GoodSteps)]
  BY <1>2 DEF Turns
<1>4. todo' \in [Threads -> Seq(Steps)]
  BY <1>2, GoodAreSteps DEF TypeOK
<1>5. ThreadTypes'
  BY <1>1, <1>2, <1>4 DEF ThreadTypes, RadioTypes, pipes
<1>6. PipeTypes'
  BY <1>1, <1>2 DEF PipeTypes, pipes
<1>7. Turns'
  BY <1>1, <1>2, <1>3 DEF Turns, ThreadTypes, pipes
<1> QED BY <1>5, <1>6, <1>7

LEMMA CallsTypes ==
  ASSUME TypeOK, Turns, NEW t \in Threads, Calls(t)
  PROVE  TypeOK' /\ Turns'
<1>0. ThreadTypes /\ PipeTypes /\ RadioTypes
  BY TypeParts
<1>1. ASSUME NEW c \in Channels, NEW w \in Widths, SetChannel(t, c, w)
      PROVE  TypeOK' /\ Turns'
  <2> DEFINE steps == IF w # width THEN <<Call("set_bandwidth", w)>>
                      ELSE IF c # channel THEN SetChannelAndCal(Mhz(c))
                      ELSE <<>>
  <2>1. Mhz(c) \in Nat
    BY Parameters DEF Mhz
  <2>2. steps \in Seq(GoodSteps)
    BY <2>1, ProgramTypes, StepTypes, Single, Empty
  <2>3. Begin(t, "tune", steps) /\ channel' = c /\ UNCHANGED <<width, power, asked>>
    BY <1>1 DEF SetChannel
  <2> HIDE DEF steps
  <2>4. ThreadTypes' /\ PipeTypes' /\ Turns'
    BY <2>2, <2>3, BeginTypes
  <2>5. RadioTypes'
    <3>1. chip' = chip /\ tsf' = tsf /\ crossed' = crossed
      BY <2>3 DEF Begin
    <3>2. /\ channel' \in Channels \cup {HomeChannel} /\ width' \in Widths
          /\ power' \in Levels /\ asked' \in Int
      BY <1>0, <2>3 DEF RadioTypes
    <3> QED BY <1>0, <3>1, <3>2, RadioKept, Zenon
  <2> QED BY <2>4, <2>5, TypePartsNext
<1>2. ASSUME NEW level \in Levels, SetTxPower(t, level)
      PROVE  TypeOK' /\ Turns'
  <2>1. level \in Nat /\ level \in Int
    BY Parameters DEF Levels
  <2>2. <<Call("set_tx_gain_level", level)>> \in Seq(GoodSteps)
    BY <2>1, StepTypes, Single DEF Routines
  <2>3. ThreadTypes' /\ PipeTypes' /\ Turns'
    BY <1>2, <2>2, BeginTypes DEF SetTxPower
  <2>4. RadioTypes'
    <3>1. chip' = chip /\ tsf' = tsf /\ crossed' = crossed
      BY <1>2 DEF SetTxPower, Begin
    <3>2. /\ channel' \in Channels \cup {HomeChannel} /\ width' \in Widths
          /\ power' \in Levels /\ asked' \in Int
      BY <1>0, <1>2, <2>1 DEF RadioTypes, SetTxPower
    <3> QED BY <1>0, <3>1, <3>2, RadioKept, Zenon
  <2> QED BY <2>3, <2>4, TypePartsNext
<1>3. ASSUME ReadClockCall(t) PROVE TypeOK' /\ Turns'
  <2>1. ThreadTypes' /\ PipeTypes' /\ Turns'
    BY <1>3, ProgramTypes, BeginTypes DEF ReadClockCall
  <2>2. RadioTypes'
    <3>1. chip' = chip /\ tsf' = tsf /\ crossed' = crossed
      BY <1>3 DEF ReadClockCall, Begin
    <3>2. /\ channel' \in Channels \cup {HomeChannel} /\ width' \in Widths
          /\ power' \in Levels /\ asked' \in Int
      BY <1>0, <1>3 DEF RadioTypes, ReadClockCall, mirrors
    <3> QED BY <1>0, <3>1, <3>2, RadioKept, Zenon
  <2> QED BY <2>1, <2>2, TypePartsNext
<1> QED BY <1>1, <1>2, <1>3 DEF Calls

LEMMA EnterTypes ==
  ASSUME TypeOK, Turns, NEW t \in Threads, NEW steps \in Seq(GoodSteps),
         pc[t] = "run", todo[t] # <<>>, Enter(t, steps), width' \in Widths
  PROVE  TypeOK' /\ Turns'
<1>1. ThreadTypes /\ PipeTypes /\ RadioTypes /\ todo[t] \in Seq(GoodSteps)
  BY TypeParts DEF Turns
<1>2. /\ todo' = [todo EXCEPT ![t] = steps \o Tail(todo[t])]
      /\ UNCHANGED <<op, pc, pipes, channel, power, chip, tsf, got, history, bounds>>
  BY DEF Enter
<1>3. steps \o Tail(todo[t]) \in Seq(GoodSteps)
  BY <1>1, HeadTail, Concatenated
<1>4. todo' \in [Threads -> Seq(GoodSteps)] /\ todo' \in [Threads -> Seq(Steps)]
  BY <1>2, <1>3, GoodAreSteps DEF Turns, TypeOK
<1>5. ThreadTypes'
  BY <1>1, <1>2, <1>4 DEF ThreadTypes, pipes, history, bounds
<1>6. PipeTypes'
  BY <1>1, <1>2 DEF PipeTypes, pipes, bounds
<1>8. RadioTypes'
  <2>1. chip' = chip /\ tsf' = tsf /\ crossed' = crossed /\ asked' = asked
    BY <1>2 DEF history
  <2>2. /\ channel' \in Channels \cup {HomeChannel} /\ power' \in Levels /\ asked' \in Int
    BY <1>1, <1>2, <2>1 DEF RadioTypes
  <2> QED BY <1>1, <2>1, <2>2, RadioKept, Zenon
<1>7. Turns'
  BY <1>1, <1>2, <1>4 DEF Turns, ThreadTypes, pipes, bounds
<1> QED BY <1>5, <1>6, <1>7, <1>8, TypePartsNext

\* What the head of a thread's program is.
LEMMA HeadTypes ==
  ASSUME TypeOK, Turns, NEW t \in Threads, todo[t] # <<>>
  PROVE  /\ Head(todo[t]) \in GoodSteps /\ Head(todo[t]) \in Steps
         /\ Head(todo[t]).arg \in Nat /\ Head(todo[t]).over \in 0..3
         /\ Tail(todo[t]) \in Seq(GoodSteps)
         /\ PassOver(todo[t]) \in Seq(GoodSteps)
<1>1. todo[t] \in Seq(GoodSteps)
  BY DEF Turns
<1>2. Head(todo[t]) \in GoodSteps /\ Tail(todo[t]) \in Seq(GoodSteps)
  BY <1>1, HeadTail
<1>3. Head(todo[t]).arg \in Nat /\ Head(todo[t]).over \in 0..3 /\ Head(todo[t]).over \in Nat
  BY <1>2 DEF GoodSteps, Steps
<1>4. PassOver(todo[t]) \in Seq(GoodSteps)
  BY <1>1, <1>3, Suffix DEF PassOver
<1> QED BY <1>2, <1>3, <1>4, GoodAreSteps

LEMMA EnterRoutinesTypes ==
  ASSUME TypeOK, Turns, NEW t \in Threads, EnterSetBandwidth(t) \/ EnterRoutine(t)
  PROVE  TypeOK' /\ Turns'
<1>0. pc[t] = "run" /\ todo[t] # <<>> /\ RadioTypes /\ width \in Widths /\ channel \in Nat
  BY TypeParts, Parameters DEF EnterSetBandwidth, EnterRoutine, Reached, RadioTypes
<1>1. /\ Head(todo[t]).arg \in Nat
      /\ Head(todo[t]).at = "set_bandwidth" => Head(todo[t]).arg \in Widths
  BY <1>0, HeadTypes DEF GoodSteps
<1>2. CASE EnterSetBandwidth(t)
  <2>1. Head(todo[t]).arg \in Widths
    BY <1>1, <1>2 DEF EnterSetBandwidth, Reached
  <2> QED BY <1>0, <1>2, <2>1, ProgramTypes, EnterTypes DEF EnterSetBandwidth
<1>3. CASE EnterRoutine(t)
  <2>1. width' \in Widths /\ Mhz(channel) \in Nat
    BY <1>0, <1>3 DEF EnterRoutine, Mhz
  <2>2. <<Write("gain", Head(todo[t]).arg)>> \in Seq(GoodSteps)
    BY <1>1, StepTypes, Single DEF Registers
  <2>3. (IF got[t][1] = got[t][3] THEN <<>> ELSE <<Read("lo")>>) \in Seq(GoodSteps)
    BY StepTypes, Single, Empty
  <2>4. PICK steps \in Seq(GoodSteps) : Enter(t, steps)
    BY <1>1, <1>3, <2>1, <2>2, <2>3, ProgramTypes DEF EnterRoutine
  <2> QED BY <1>0, <2>1, <2>4, EnterTypes
<1> QED BY <1>2, <1>3

LEMMA ReturnTypes ==
  ASSUME TypeOK, Turns, NEW t \in Threads, Return(t)
  PROVE  TypeOK' /\ Turns'
<1>1. ThreadTypes /\ PipeTypes /\ RadioTypes
  BY TypeParts
<1>2. /\ op' = [op EXCEPT ![t] = "none"] /\ pc' = [pc EXCEPT ![t] = "idle"]
      /\ todo' = [todo EXCEPT ![t] = <<>>] /\ got' = [got EXCEPT ![t] = <<>>]
      /\ since' = [since EXCEPT ![t] = 0] /\ pc[t] = "run"
      /\ UNCHANGED <<pipes, mirrors, chip, tsf, asked, crossed, failed, bounds>>
  BY DEF Return, Forget
<1>3. todo' \in [Threads -> Seq(GoodSteps)] /\ todo' \in [Threads -> Seq(Steps)]
  BY <1>1, <1>2, Empty DEF Turns, ThreadTypes
<1>4. <<>> \in Seq(Nat)
  BY Empty
<1>5. ThreadTypes'
  BY <1>1, <1>2, <1>3, <1>4 DEF ThreadTypes, pipes, bounds
<1>6. PipeTypes'
  BY <1>1, <1>2 DEF PipeTypes, pipes, bounds
<1>7. RadioTypes'
  <2>1. chip' = chip /\ tsf' = tsf /\ crossed' = crossed
    BY <1>2
  <2>2. /\ channel' \in Channels \cup {HomeChannel} /\ width' \in Widths
        /\ power' \in Levels /\ asked' \in Int
    BY <1>1, <1>2 DEF RadioTypes, mirrors
  <2> QED BY <1>1, <2>1, <2>2, RadioKept
<1>8. Turns'
  BY <1>1, <1>2, <1>3 DEF Turns, ThreadTypes, pipes, bounds
<1> QED BY <1>5, <1>6, <1>7, <1>8, TypePartsNext

LEMMA SendTypes ==
  ASSUME TypeOK, Turns, NEW t \in Threads, Send(t)
  PROVE  TypeOK' /\ Turns'
<1>1. ThreadTypes /\ PipeTypes /\ RadioTypes
  BY TypeParts
<1>2. /\ pc[t] = "run" /\ todo[t] # <<>> /\ Head(todo[t]).do # "call"
      /\ lock = "nobody" /\ lock' = t /\ seq' = (seq + 1) % SeqMod /\ tries' = RecvTries
      /\ out' = Append(out, [seq |-> seq', by |-> t, step |-> Head(todo[t])])
      /\ pc' = [pc EXCEPT ![t] = "wait"]
      /\ UNCHANGED <<todo, op, in, mirrors, chip, tsf, got, history, bounds>>
  BY DEF Send
<1>3. seq' \in 0..(SeqMod - 1)
  BY <1>1, <1>2, Parameters DEF PipeTypes
<1>4. [seq |-> seq', by |-> t, step |-> Head(todo[t])] \in Commands
  BY <1>2, <1>3, HeadTypes, Parameters DEF Commands
<1>5. out' \in Seq(Commands)
  BY <1>1, <1>2, <1>4, Extended DEF PipeTypes
<1>6. ThreadTypes'
  BY <1>1, <1>2, Parameters DEF ThreadTypes, history, bounds
<1>7. PipeTypes'
  BY <1>1, <1>2, <1>3, <1>5, Parameters DEF PipeTypes, bounds
<1>8. RadioTypes'
  <2>1. chip' = chip /\ tsf' = tsf /\ crossed' = crossed
    BY <1>2 DEF history
  <2>2. /\ channel' \in Channels \cup {HomeChannel} /\ width' \in Widths
        /\ power' \in Levels /\ asked' \in Int
    BY <1>1, <1>2 DEF RadioTypes, mirrors, history
  <2> QED BY <1>1, <2>1, <2>2, RadioKept
<1>9. Turns'
  BY <1>1, <1>2, Parameters DEF Turns, ThreadTypes, bounds
<1> QED BY <1>6, <1>7, <1>8, <1>9, TypePartsNext

\* A pipe whose messages are left behind by a command that gave up.
LEMMA OrphanedTypes ==
  ASSUME NEW t \in Threads, NEW p, p \in Seq(Commands) \/ p \in Seq(Messages)
  PROVE  /\ p \in Seq(Commands) => Orphaned(t, p) \in Seq(Commands)
         /\ p \in Seq(Messages) => Orphaned(t, p) \in Seq(Messages)
         /\ Len(Orphaned(t, p)) = Len(p) /\ DOMAIN Orphaned(t, p) = DOMAIN p
         /\ \A i \in DOMAIN p :
              Orphaned(t, p)[i] = IF p[i].by = t THEN [p[i] EXCEPT !.by = "nobody"] ELSE p[i]
<1>1. Len(p) \in Nat /\ DOMAIN p = 1 .. Len(p)
  OBVIOUS
<1>2. /\ DOMAIN Orphaned(t, p) = DOMAIN p
      /\ \A i \in DOMAIN p :
           Orphaned(t, p)[i] = IF p[i].by = t THEN [p[i] EXCEPT !.by = "nobody"] ELSE p[i]
  BY DEF Orphaned
<1>3. ASSUME NEW S, p \in Seq(S), \A m \in S : [m EXCEPT !.by = "nobody"] \in S
      PROVE  Orphaned(t, p) \in Seq(S) /\ Len(Orphaned(t, p)) = Len(p)
  <2>1. \A i \in 1 .. Len(p) : p[i] \in S
    BY <1>3
  <2>2. Orphaned(t, p) \in [1 .. Len(p) -> S]
    BY <1>1, <1>3, <2>1 DEF Orphaned
  <2> QED BY <1>1, <2>2
<1>4. \A m \in Commands : [m EXCEPT !.by = "nobody"] \in Commands
  BY DEF Commands
<1>5. \A m \in Messages : [m EXCEPT !.by = "nobody"] \in Messages
  BY DEF Messages, Pipe
<1> QED BY <1>2, <1>3, <1>4, <1>5

LEMMA CommandFailsTypes ==
  ASSUME TypeOK, Turns, NEW t \in Threads, CommandFails(t),
         pc[t] = "wait" \/ (pc[t] = "run" /\ lock = "nobody"), todo[t] # <<>>,
         seq' \in 0..(SeqMod - 1), out' \in Seq(Commands), in' \in Seq(Messages),
         faults' \in Nat, faults' <= MaxFaults
  PROVE  TypeOK' /\ Turns'
<1>1. ThreadTypes /\ PipeTypes /\ RadioTypes
  BY TypeParts
<1>2. /\ failed' = failed \cup {t} /\ lock' = "nobody" /\ tries' = 0
      /\ UNCHANGED <<mirrors, chip, tsf, asked, crossed, calls, events>>
  BY DEF CommandFails
<1>3. \A u \in Threads \ {t} : pc[u] # "wait"
  BY <1>1, Parameters DEF ThreadTypes
<1>4. ASSUME Head(todo[t]).over > 0 PROVE ThreadTypes' /\ Turns'
  <2>1. /\ todo' = [todo EXCEPT ![t] = PassOver(todo[t])]
        /\ pc' = [pc EXCEPT ![t] = "run"] /\ UNCHANGED <<op, got, since>>
    BY <1>4 DEF CommandFails
  <2>2. todo' \in [Threads -> Seq(GoodSteps)] /\ todo' \in [Threads -> Seq(Steps)]
    BY <1>1, <2>1, HeadTypes, GoodAreSteps DEF Turns, ThreadTypes
  <2>3. ThreadTypes'
    BY <1>1, <1>2, <1>3, <2>1, <2>2, Parameters DEF ThreadTypes
  <2>4. Turns'
    <3>1. \A u \in Threads : pc[u] # "idle" => op[u] \in Ops[u]
      BY DEF Turns
    <3>2. \A u \in Threads : pc[u] = "idle" => todo[u] = <<>> /\ op[u] = "none" /\ got[u] = <<>>
      BY DEF Turns
    <3>3. \A u \in Threads :
            /\ pc'[u] = "idle" => todo'[u] = <<>> /\ op'[u] = "none" /\ got'[u] = <<>>
            /\ pc'[u] # "idle" => op'[u] \in Ops[u]
            /\ pc'[u] # "wait"
      BY <1>1, <1>3, <2>1, <3>1, <3>2 DEF ThreadTypes
    <3>4. lock' = "nobody" /\ tries' = 0 /\ events' <= MaxEvents
      BY <1>2 DEF Turns
    <3> QED BY <2>2, <3>3, <3>4 DEF Turns
  <2> QED BY <2>3, <2>4
<1>5. ASSUME ~(Head(todo[t]).over > 0) PROVE ThreadTypes' /\ Turns'
  <2>1. /\ op' = [op EXCEPT ![t] = "none"] /\ pc' = [pc EXCEPT ![t] = "idle"]
        /\ todo' = [todo EXCEPT ![t] = <<>>] /\ got' = [got EXCEPT ![t] = <<>>]
        /\ since' = [since EXCEPT ![t] = 0]
    BY <1>5 DEF CommandFails, Forget
  <2>2. todo' \in [Threads -> Seq(GoodSteps)] /\ todo' \in [Threads -> Seq(Steps)]
    BY <1>1, <2>1, Empty DEF Turns, ThreadTypes
  <2>3. <<>> \in Seq(Nat)
    BY Empty
  <2>4. ThreadTypes'
    BY <1>1, <1>2, <1>3, <2>1, <2>2, <2>3, Parameters DEF ThreadTypes
  <2>5. Turns'
    <3>1. \A u \in Threads : pc[u] # "idle" => op[u] \in Ops[u]
      BY DEF Turns
    <3>2. \A u \in Threads : pc[u] = "idle" => todo[u] = <<>> /\ op[u] = "none" /\ got[u] = <<>>
      BY DEF Turns
    <3>3. \A u \in Threads :
            /\ pc'[u] = "idle" => todo'[u] = <<>> /\ op'[u] = "none" /\ got'[u] = <<>>
            /\ pc'[u] # "idle" => op'[u] \in Ops[u]
            /\ pc'[u] # "wait"
      BY <1>1, <1>3, <2>1, <3>1, <3>2 DEF ThreadTypes
    <3>4. lock' = "nobody" /\ tries' = 0 /\ events' <= MaxEvents
      BY <1>2 DEF Turns
    <3> QED BY <2>2, <3>3, <3>4 DEF Turns
  <2> QED BY <2>4, <2>5
<1>6. PipeTypes'
  BY <1>1, <1>2, Parameters DEF PipeTypes
<1>7. RadioTypes'
  <2>1. chip' = chip /\ tsf' = tsf /\ crossed' = crossed
    BY <1>2
  <2>2. /\ channel' \in Channels \cup {HomeChannel} /\ width' \in Widths
        /\ power' \in Levels /\ asked' \in Int
    BY <1>1, <1>2 DEF RadioTypes, mirrors
  <2> QED BY <1>1, <2>1, <2>2, RadioKept
<1> QED BY <1>4, <1>5, <1>6, <1>7, TypePartsNext

LEMMA CommandSucceedsTypes ==
  ASSUME TypeOK, Turns, NEW t \in Threads, NEW m \in Messages, CommandSucceeds(t, m),
         pc[t] = "wait", in' \in Seq(Messages)
  PROVE  TypeOK' /\ Turns'
<1>1. ThreadTypes /\ PipeTypes /\ RadioTypes /\ todo[t] # <<>> /\ m.val \in Nat
  BY TypeParts DEF Turns, Messages, Pipe
<1>2. \A u \in Threads \ {t} : pc[u] # "wait"
  BY <1>1, Parameters DEF ThreadTypes
<1>3. PICK rest \in Seq(GoodSteps), lost \in SUBSET Threads, words \in Seq(Nat) :
        /\ todo' = [todo EXCEPT ![t] = rest]
        /\ failed' = lost
        /\ got' = [got EXCEPT ![t] = words]
  <2> DEFINE s == Head(todo[t])
             rest == IF s.do = "wait" /\ m.val = 1 THEN PassOver(todo[t]) ELSE Tail(todo[t])
             lost == IF s.do = "wait" /\ m.val = 1 THEN failed \cup {t} ELSE failed
             words == IF s.at \in {"hi", "lo"} THEN Append(got[t], m.val) ELSE got[t]
  <2>1. rest \in Seq(GoodSteps)
    BY <1>1, HeadTypes
  <2>2. lost \in SUBSET Threads
    BY <1>1 DEF ThreadTypes
  <2>3. words \in Seq(Nat)
    BY <1>1, Extended DEF ThreadTypes
  <2>4. todo' = [todo EXCEPT ![t] = rest] /\ failed' = lost
    BY DEF CommandSucceeds
  <2>5. got' = [got EXCEPT ![t] = words]
    BY <1>1 DEF CommandSucceeds, ThreadTypes
  <2> HIDE DEF rest, lost, words
  <2> QED BY <2>1, <2>2, <2>3, <2>4, <2>5
<1>4. /\ pc' = [pc EXCEPT ![t] = "run"] /\ lock' = "nobody" /\ tries' = 0
      /\ crossed' = (crossed \/ m.by # t)
      /\ UNCHANGED <<op, seq, out, mirrors, chip, tsf, since, asked, bounds>>
  BY DEF CommandSucceeds
<1>5. todo' \in [Threads -> Seq(GoodSteps)] /\ todo' \in [Threads -> Seq(Steps)]
  BY <1>1, <1>3, GoodAreSteps DEF Turns, ThreadTypes
<1>6. ThreadTypes'
  BY <1>1, <1>2, <1>3, <1>4, <1>5, Parameters DEF ThreadTypes, bounds
<1>7. PipeTypes'
  BY <1>1, <1>4, Parameters DEF PipeTypes, bounds
<1>8. RadioTypes'
  <2>1. crossed' \in BOOLEAN
    BY <1>4
  <2>2. /\ channel' \in Channels \cup {HomeChannel} /\ width' \in Widths
        /\ power' \in Levels /\ asked' \in Int /\ chip' \in [Registers -> Nat] /\ tsf' \in Nat
    BY <1>1, <1>4 DEF RadioTypes, mirrors
  <2> QED BY <2>1, <2>2 DEF RadioTypes
<1>9. Turns'
  <2>1. \A u \in Threads : pc[u] # "idle" => op[u] \in Ops[u]
    BY DEF Turns
  <2>2. \A u \in Threads : pc[u] = "idle" => todo[u] = <<>> /\ op[u] = "none" /\ got[u] = <<>>
    BY DEF Turns
  <2>3. \A u \in Threads :
          /\ pc'[u] = "idle" => todo'[u] = <<>> /\ op'[u] = "none" /\ got'[u] = <<>>
          /\ pc'[u] # "idle" => op'[u] \in Ops[u]
          /\ pc'[u] # "wait"
    BY <1>1, <1>2, <1>3, <1>4, <2>1, <2>2 DEF ThreadTypes
  <2>4. lock' = "nobody" /\ tries' = 0 /\ events' <= MaxEvents /\ faults' <= MaxFaults
    BY <1>4 DEF Turns, bounds
  <2> QED BY <1>5, <2>3, <2>4 DEF Turns
<1> QED BY <1>6, <1>7, <1>8, <1>9, TypePartsNext

LEMMA SendFailsTypes ==
  ASSUME TypeOK, Turns, NEW t \in Threads, SendFails(t)
  PROVE  TypeOK' /\ Turns'
<1>1. PipeTypes
  BY TypeParts
<1>2. seq' \in 0..(SeqMod - 1) /\ faults' \in Nat /\ faults' <= MaxFaults
  BY <1>1, Parameters DEF SendFails, PipeTypes
<1>3. out' \in Seq(Commands) /\ in' \in Seq(Messages)
  BY <1>1 DEF SendFails, PipeTypes
<1> QED BY <1>2, <1>3, CommandFailsTypes DEF SendFails

LEMMA TimeoutTypes ==
  ASSUME TypeOK, Turns, NEW t \in Threads, Timeout(t)
  PROVE  TypeOK' /\ Turns'
<1>1. PipeTypes /\ todo[t] # <<>>
  BY TypeParts DEF Turns, Timeout
<1>2. seq' \in 0..(SeqMod - 1) /\ faults' \in Nat /\ faults' <= MaxFaults
  BY <1>1, Parameters DEF Timeout, PipeTypes, Turns
<1>3. out' \in Seq(Commands) /\ in' \in Seq(Messages)
  BY <1>1, OrphanedTypes DEF Timeout, PipeTypes
<1> QED BY <1>1, <1>2, <1>3, CommandFailsTypes DEF Timeout

LEMMA SkippedTypes ==
  ASSUME TypeOK, Turns, NEW t \in Threads, pc[t] = "wait", tries > 1, tries' = tries - 1,
         in' \in Seq(Messages),
         UNCHANGED <<todo, op, pc, seq, lock, out, mirrors, chip, tsf, got, history, bounds>>
  PROVE  TypeOK' /\ Turns'
<1>1. ThreadTypes /\ PipeTypes /\ RadioTypes
  BY TypeParts
<1>2. ThreadTypes'
  BY <1>1 DEF ThreadTypes, history, bounds
<1>3. PipeTypes' /\ Turns'
  BY <1>1, Parameters DEF PipeTypes, Turns, bounds
<1>4. RadioTypes'
  <2>1. chip' = chip /\ tsf' = tsf /\ crossed' = crossed
    BY DEF history
  <2>2. /\ channel' \in Channels \cup {HomeChannel} /\ width' \in Widths
        /\ power' \in Levels /\ asked' \in Int
    BY <1>1 DEF RadioTypes, mirrors, history
  <2> QED BY <1>1, <2>1, <2>2, RadioKept
<1> QED BY <1>2, <1>3, <1>4, TypePartsNext

LEMMA ReceiveTypes ==
  ASSUME TypeOK, Turns, NEW t \in Threads, Receive(t)
  PROVE  TypeOK' /\ Turns'
<1> DEFINE m == Head(in)
<1>1. /\ PipeTypes /\ todo[t] # <<>> /\ pc[t] = "wait" /\ in # <<>>
      /\ m \in Messages /\ Tail(in) \in Seq(Messages)
      /\ Orphaned(t, Tail(in)) \in Seq(Messages) /\ Orphaned(t, out) \in Seq(Commands)
  <2>1. PipeTypes /\ todo[t] # <<>> /\ pc[t] = "wait" /\ in # <<>>
    BY TypeParts DEF Turns, Receive
  <2>2. m \in Messages /\ Tail(in) \in Seq(Messages) /\ out \in Seq(Commands)
    BY <2>1, HeadTail DEF PipeTypes
  <2> QED BY <2>1, <2>2, OrphanedTypes
<1>2. \/ in' = Tail(in) /\ CommandSucceeds(t, m)
      \/ /\ in' = IF tries > 1 THEN Tail(in) ELSE Orphaned(t, Tail(in))
         /\ Skip(t)
      \/ /\ in' = Orphaned(t, Tail(in)) /\ out' = Orphaned(t, out)
         /\ CommandFails(t) /\ UNCHANGED <<seq, faults>>
  BY DEF Receive
<1> HIDE DEF m
<1>3. seq \in 0..(SeqMod - 1) /\ faults \in Nat /\ faults <= MaxFaults
  BY <1>1 DEF PipeTypes, Turns
<1>4. CASE in' = Tail(in) /\ CommandSucceeds(t, m)
  BY <1>1, <1>4, CommandSucceedsTypes
<1>5. CASE /\ in' = IF tries > 1 THEN Tail(in) ELSE Orphaned(t, Tail(in))
           /\ Skip(t)
  <2>1. CASE tries > 1
    BY <1>1, <1>5, <2>1, SkippedTypes DEF Skip
  <2>2. CASE ~(tries > 1)
    BY <1>1, <1>3, <1>5, <2>2, CommandFailsTypes DEF Skip
  <2> QED BY <2>1, <2>2
<1>6. CASE /\ in' = Orphaned(t, Tail(in)) /\ out' = Orphaned(t, out)
           /\ CommandFails(t) /\ UNCHANGED <<seq, faults>>
  BY <1>1, <1>3, <1>6, CommandFailsTypes
<1> QED BY <1>2, <1>4, <1>5, <1>6

\* What the target leaves alone: everything but its registers and the pipes.
LEMMA TargetKeepsTypes ==
  ASSUME TypeOK, Turns,
         UNCHANGED <<todo, op, pc, seq, lock, tries, mirrors, tsf, got, history, calls>>,
         chip' \in [Registers -> Nat], out' \in Seq(Commands), in' \in Seq(Messages),
         faults' \in Nat, faults' <= MaxFaults, events' \in Nat, events' <= MaxEvents
  PROVE  TypeOK' /\ Turns'
<1>1. ThreadTypes /\ PipeTypes /\ RadioTypes
  BY TypeParts
<1>2. ThreadTypes'
  BY <1>1 DEF ThreadTypes, history
<1>3. PipeTypes' /\ Turns'
  BY <1>1 DEF PipeTypes, Turns
<1>4. RadioTypes'
  <2>1. tsf' = tsf /\ crossed' = crossed
    BY DEF history
  <2>2. /\ channel' \in Channels \cup {HomeChannel} /\ width' \in Widths
        /\ power' \in Levels /\ asked' \in Int
    BY <1>1 DEF RadioTypes, mirrors, history
  <2> QED BY Zenon, <1>1, <2>1, <2>2 DEF RadioTypes
<1> QED BY <1>2, <1>3, <1>4, TypePartsNext

LEMMA ServedTypes ==
  ASSUME TypeOK, NEW s \in Steps
  PROVE  Served(s) \in [Registers -> Nat]
<1>1. chip \in [Registers -> Nat] /\ TopLevel \in Nat /\ s.arg \in Nat
  BY Parameters DEF TypeOK, Steps
<1>2. CASE s.do = "write" /\ s.at = "tables"
  <2>1. Served(s) = [chip EXCEPT !.column = s.arg, !.gain = TopLevel, !.board = 0]
    BY <1>2 DEF Served
  <2> DEFINE a == [chip EXCEPT !.column = s.arg]
             b == [a EXCEPT !.gain = TopLevel]
  <2>2. a \in [Registers -> Nat]
    BY <1>1
  <2> HIDE DEF a
  <2>3. b \in [Registers -> Nat]
    BY <1>1, <2>2
  <2>4. Served(s) = [b EXCEPT !.board = 0]
    BY <2>1 DEF a
  <2> HIDE DEF b
  <2> QED BY <2>3, <2>4
<1>3. CASE ~(s.do = "write" /\ s.at = "tables")
  BY <1>1, <1>3 DEF Served
<1> QED BY <1>2, <1>3

LEMMA AnswerTypes ==
  ASSUME TypeOK, NEW s, NEW v \in Answers(s)
  PROVE  v \in Nat
<1>1. tsf \in Nat /\ ClockWord \in Nat /\ ClockWord >= 1
  BY Parameters DEF TypeOK
<1>2. tsf \div ClockWord \in Nat /\ tsf % ClockWord \in Nat
  BY <1>1
<1> QED BY <1>2 DEF Answers

LEMMA TargetTypes ==
  ASSUME TypeOK, Turns, Target
  PROVE  TypeOK' /\ Turns'
<1>1. ThreadTypes /\ PipeTypes /\ RadioTypes /\ faults <= MaxFaults /\ events <= MaxEvents
  BY TypeParts DEF Turns
<1>2. out # <<>> => Head(out) \in Commands /\ Tail(out) \in Seq(Commands)
  BY <1>1, HeadTail DEF PipeTypes
<1>3. out # <<>> => Served(Head(out).step) \in [Registers -> Nat]
  BY <1>2, ServedTypes DEF Commands
<1>4. CASE TargetServes
  <2>1. PICK v \in Answers(Head(out).step) :
          in' = Append(in, [kind |-> "reply", seq |-> Head(out).seq, by |-> Head(out).by,
                            val |-> v])
    BY <1>4 DEF TargetServes
  <2>2. [kind |-> "reply", seq |-> Head(out).seq, by |-> Head(out).by, val |-> v] \in Messages
    BY <1>2, <1>4, AnswerTypes DEF TargetServes, Messages, Pipe, Commands
  <2>3. in' \in Seq(Messages)
    BY <1>1, <2>1, <2>2, Extended DEF PipeTypes
  <2>4. /\ UNCHANGED <<todo, op, pc, seq, lock, tries, mirrors, tsf, got, history, calls>>
        /\ faults' = faults /\ events' = events /\ out' = Tail(out) /\ out # <<>>
        /\ chip' = Served(Head(out).step)
    BY <1>4 DEF TargetServes, bounds
  <2> QED BY <1>1, <1>2, <1>3, <2>3, <2>4, TargetKeepsTypes DEF PipeTypes
<1>5. CASE TargetDrops
  <2>1. /\ UNCHANGED <<todo, op, pc, seq, lock, tries, mirrors, tsf, got, history, calls>>
        /\ faults' = faults + 1 /\ faults < MaxFaults /\ events' = events
        /\ out' = Tail(out) /\ out # <<>>
        /\ chip' \in {chip, Served(Head(out).step)} /\ in' = in
    BY <1>5 DEF TargetDrops
  <2>2. chip' \in [Registers -> Nat]
    BY <1>1, <1>3, <2>1 DEF RadioTypes
  <2>3. faults' \in Nat /\ faults' <= MaxFaults
    BY <1>1, <2>1, Parameters DEF PipeTypes
  <2> QED BY <1>1, <1>2, <2>1, <2>2, <2>3, TargetKeepsTypes DEF PipeTypes
<1>6. CASE TargetEvent
  <2>1. Message("event") \in Messages
    BY DEF Message, Messages, Pipe
  <2>2. /\ UNCHANGED <<todo, op, pc, seq, lock, tries, mirrors, tsf, got, history, calls>>
        /\ events' = events + 1 /\ events < MaxEvents /\ faults' = faults
        /\ out' = out /\ chip' = chip /\ in' = Append(in, Message("event"))
    BY <1>6 DEF TargetEvent
  <2>3. in' \in Seq(Messages)
    BY <1>1, <2>1, <2>2, Extended DEF PipeTypes
  <2>4. events' \in Nat /\ events' <= MaxEvents
    BY <1>1, <2>2, Parameters DEF PipeTypes
  <2> QED BY <1>1, <2>2, <2>3, <2>4, TargetKeepsTypes DEF PipeTypes, RadioTypes
<1>7. CASE Damaged
  <2>1. PICK kind \in {"runt", "bad"} : in' = <<Message(kind)>> \o Tail(in)
    BY <1>7 DEF Damaged
  <2>2. Message(kind) \in Messages
    BY DEF Message, Messages, Pipe
  <2>3. /\ UNCHANGED <<todo, op, pc, seq, lock, tries, mirrors, tsf, got, history, calls>>
        /\ faults' = faults + 1 /\ faults < MaxFaults /\ events' = events
        /\ out' = out /\ chip' = chip /\ in # <<>>
    BY <1>7 DEF Damaged
  <2>4. <<Message(kind)>> \in Seq(Messages) /\ Tail(in) \in Seq(Messages)
    BY <1>1, <2>2, <2>3, Single, HeadTail DEF PipeTypes
  <2>5. in' \in Seq(Messages)
    BY <2>1, <2>4, Concatenated
  <2>6. faults' \in Nat /\ faults' <= MaxFaults
    BY <1>1, <2>3, Parameters DEF PipeTypes
  <2> QED BY <1>1, <2>3, <2>5, <2>6, TargetKeepsTypes DEF PipeTypes, RadioTypes
<1> QED BY <1>4, <1>5, <1>6, <1>7 DEF Target

LEMMA TickTypes ==
  ASSUME TypeOK, Turns, Tick
  PROVE  TypeOK' /\ Turns'
<1>1. ThreadTypes /\ PipeTypes /\ RadioTypes
  BY TypeParts
<1>2. /\ tsf' = tsf + 1
      /\ UNCHANGED <<todo, op, pc, pipes, mirrors, chip, got, history, bounds>>
  BY DEF Tick
<1>3. ThreadTypes' /\ PipeTypes'
  BY <1>1, <1>2 DEF ThreadTypes, PipeTypes, pipes, history, bounds
<1>4. Turns'
  BY <1>2 DEF Turns, pipes, bounds
<1>5. RadioTypes'
  <2>1. crossed' = crossed /\ chip' = chip
    BY <1>2 DEF history
  <2>2. /\ channel' \in Channels \cup {HomeChannel} /\ width' \in Widths
        /\ power' \in Levels /\ asked' \in Int /\ tsf' \in Nat
    BY <1>1, <1>2 DEF RadioTypes, mirrors, history
  <2> QED BY Zenon, <1>1, <2>1, <2>2 DEF RadioTypes
<1> QED BY <1>3, <1>4, <1>5, TypePartsNext

LEMMA StutterTypes ==
  ASSUME TypeOK, Turns, UNCHANGED vars
  PROVE  TypeOK' /\ Turns'
<1>1. ThreadTypes /\ PipeTypes /\ RadioTypes
  BY TypeParts
<1>2. ThreadTypes' /\ PipeTypes' /\ Turns'
  BY <1>1 DEF ThreadTypes, PipeTypes, Turns, vars
<1>3. RadioTypes'
  <2>1. chip' = chip /\ tsf' = tsf /\ crossed' = crossed
    BY DEF vars
  <2>2. /\ channel' \in Channels \cup {HomeChannel} /\ width' \in Widths
        /\ power' \in Levels /\ asked' \in Int
    BY <1>1 DEF RadioTypes, vars
  <2> QED BY <1>1, <2>1, <2>2, RadioKept
<1> QED BY <1>2, <1>3, TypePartsNext

LEMMA NextTypes == TypeOK /\ Turns /\ [Next]_vars => TypeOK' /\ Turns'
<1> SUFFICES ASSUME TypeOK, Turns, [Next]_vars PROVE TypeOK' /\ Turns'
  OBVIOUS
<1>1. ASSUME NEW t \in Threads, Calls(t) \/ Works(t) \/ SendFails(t)
      PROVE  TypeOK' /\ Turns'
  <2>1. CASE Calls(t)
    BY <2>1, CallsTypes
  <2>2. CASE SendFails(t)
    BY <2>2, SendFailsTypes
  <2>3. CASE Works(t)
    BY <2>3, EnterRoutinesTypes, ReturnTypes, SendTypes, ReceiveTypes, TimeoutTypes DEF Works
  <2> QED BY <1>1, <2>1, <2>2, <2>3
<1> QED BY <1>1, TargetTypes, TickTypes, StutterTypes DEF Next

\* Every variable has its type and exactly the holder of the mutex in wmi_cmd waits for a
\* reply, whatever the target loses, delays or damages.
THEOREM TypeCorrect == Spec => []TypeOK
<1>1. Init => TypeOK /\ Turns
  BY InitTypes
<1>2. TypeOK /\ Turns /\ [Next]_vars => TypeOK' /\ Turns'
  BY NextTypes
<1> QED BY <1>1, <1>2, PTL DEF Spec

----------------------------------------------------------------------------
(* wmi_cmd returns its own reply.  The replies and commands under way form  *)
(* one line, the oldest first, and the age of each, the commands sent since *)
(* its own, is paid for by a fault, an event or the command under way: so   *)
(* no age reaches a turn of the sequence number, only the youngest is the   *)
(* command under way, and a success empties the pipes.                      *)

\* Fewer faults and events than sequence numbers, 65536 in the code.
FewStrays == MaxFaults + MaxEvents + 1 < SeqMod

Age(s, n) == (s - n) % SeqMod

IsReply(m) == m.kind = "reply"

\* A message that is no reply is at the front of the pipe.
Front(i) == IF i # <<>> /\ ~IsReply(Head(i)) THEN 1 ELSE 0

Line(i, o, s, k) ==
  /\ \A a \in DOMAIN i : ~IsReply(i[a]) => a = 1
  /\ \A a, b \in DOMAIN i : a < b /\ IsReply(i[a]) => Age(s, i[a].seq) > Age(s, i[b].seq)
  /\ \A a \in DOMAIN i, b \in DOMAIN o :
       IsReply(i[a]) => Age(s, i[a].seq) > Age(s, o[b].seq)
  /\ \A a, b \in DOMAIN o : a < b => Age(s, o[a].seq) > Age(s, o[b].seq)
  /\ \A a \in DOMAIN i :
       i[a].seq < SeqMod /\ (IsReply(i[a]) => Age(s, i[a].seq) <= k - Front(i))
  /\ \A b \in DOMAIN o : o[b].seq < SeqMod /\ Age(s, o[b].seq) <= k - Front(i)

\* What the holder h of the mutex owns in the pipes is what has age 0.
Owners(i, o, s, h) ==
  /\ \A a \in DOMAIN i :
       /\ i[a].by \in {"nobody", h}
       /\ IsReply(i[a]) /\ h # "nobody" => (i[a].by = h <=> Age(s, i[a].seq) = 0)
       /\ ~IsReply(i[a]) => i[a].by = "nobody"
  /\ \A b \in DOMAIN o :
       /\ o[b].by \in {"nobody", h}
       /\ h # "nobody" => (o[b].by = h <=> Age(s, o[b].seq) = 0)

Held == IF lock = "nobody" THEN 0 ELSE 1
Strays == faults + events + Held

LineInv ==
  /\ Line(in, out, seq, Strays)
  /\ Owners(in, out, seq, lock)
  /\ ~crossed

Numbers == 0..(SeqMod - 1)

LEMMA Ages ==
  ASSUME NEW s \in Numbers, NEW n \in Numbers
  PROVE  /\ Age(s, n) = IF s >= n THEN s - n ELSE s - n + SeqMod
         /\ (s + 1) % SeqMod = IF s + 1 = SeqMod THEN 0 ELSE s + 1
         /\ Age(s, n) \in Numbers /\ (s + 1) % SeqMod \in Numbers
         /\ Age(s, n) = 0 <=> s = n
         /\ Age(s, n) + 1 < SeqMod => Age((s + 1) % SeqMod, n) = Age(s, n) + 1
<1>0. SeqMod \in Nat /\ SeqMod >= 1 /\ s \in Int /\ n \in Int
  BY Parameters DEF Numbers
<1>1. ASSUME NEW a \in Int, NEW b \in Int, a >= b, a - b < SeqMod
      PROVE  (a - b) % SeqMod = a - b
  BY <1>0, <1>1
<1>2. ASSUME NEW a \in Int, NEW b \in Int, a < b, b - a < SeqMod
      PROVE  (a - b) % SeqMod = a - b + SeqMod
  BY <1>0, <1>2
<1>3. \A a, b \in Numbers : Age(a, b) = IF a >= b THEN a - b ELSE a - b + SeqMod
  BY <1>0, <1>1, <1>2 DEF Age, Numbers
<1>4. (s + 1) % SeqMod = IF s + 1 = SeqMod THEN 0 ELSE s + 1
  BY <1>0 DEF Numbers
<1>5. (s + 1) % SeqMod \in Numbers
  BY <1>0, <1>4 DEF Numbers
<1>6. Age(s, n) = IF s >= n THEN s - n ELSE s - n + SeqMod
  BY <1>3
<1>7. ASSUME NEW u \in Numbers, u = IF s + 1 = SeqMod THEN 0 ELSE s + 1,
             Age(s, n) + 1 < SeqMod
      PROVE  Age(u, n) = Age(s, n) + 1
  <2>1. Age(u, n) = IF u >= n THEN u - n ELSE u - n + SeqMod
    BY <1>3, <1>7
  <2> QED BY <1>0, <1>6, <1>7, <2>1 DEF Numbers
<1>8. Age(s, n) \in Numbers /\ (Age(s, n) = 0 <=> s = n)
  BY <1>0, <1>6 DEF Numbers
<1> QED BY <1>4, <1>5, <1>6, <1>7, <1>8

LEMMA LineTypes ==
  ASSUME NEW i \in Seq(Messages), NEW o \in Seq(Commands), NEW s \in Numbers, NEW k \in Int,
         Line(i, o, s, k)
  PROVE  /\ \A a \in DOMAIN i : i[a].seq \in Numbers /\ Age(s, i[a].seq) \in Numbers
         /\ \A b \in DOMAIN o : o[b].seq \in Numbers /\ Age(s, o[b].seq) \in Numbers
         /\ Front(i) \in {0, 1}
<1>0. (\A a \in DOMAIN i : i[a] \in Messages) /\ (\A b \in DOMAIN o : o[b] \in Commands)
  OBVIOUS
<1>1. \A a \in DOMAIN i : i[a].seq \in Nat /\ i[a].seq < SeqMod
  BY <1>0 DEF Line, Messages, Pipe
<1>2. \A b \in DOMAIN o : o[b].seq \in Nat /\ o[b].seq < SeqMod
  BY <1>0 DEF Line, Commands
<1>3. \A n \in Nat : n < SeqMod => n \in Numbers
  BY Parameters DEF Numbers
<1> QED BY <1>1, <1>2, <1>3, Ages DEF Front

\* The front message is taken: what is left is younger by one.
LEMMA LineTaken ==
  ASSUME NEW i \in Seq(Messages), NEW o \in Seq(Commands), NEW s \in Numbers, NEW k \in Int,
         Line(i, o, s, k), i # <<>>
  PROVE  /\ Line(Tail(i), o, s, k - 1)
         /\ \A a \in DOMAIN Tail(i) : IsReply(Tail(i)[a])
         /\ Front(Tail(i)) = 0
<1> DEFINE j == Tail(i)
<1>1. /\ j \in Seq(Messages) /\ Head(i) = i[1] /\ Len(i) \in Nat /\ Len(i) >= 1
      /\ DOMAIN i = 1 .. Len(i) /\ DOMAIN j = 1 .. (Len(i) - 1)
      /\ \A a \in DOMAIN j : a + 1 \in DOMAIN i /\ j[a] = i[a + 1]
      /\ DOMAIN o = 1 .. Len(o) /\ Len(o) \in Nat
      /\ 1 \in DOMAIN i /\ (j # <<>> => Head(j) = j[1] /\ 1 \in DOMAIN j)
  BY HeadTail
<1>2. /\ \A a \in DOMAIN i : Age(s, i[a].seq) \in Int
      /\ \A b \in DOMAIN o : Age(s, o[b].seq) \in Int
  BY LineTypes DEF Numbers
<1> HIDE DEF j
<1>3. \A a \in DOMAIN j : IsReply(j[a])
  BY <1>1 DEF Line
<1>4. Front(j) = 0
  BY <1>1, <1>3 DEF Front
<1>5. /\ \A a \in DOMAIN j : j[a].seq < SeqMod /\ Age(s, j[a].seq) <= k - 1
      /\ \A b \in DOMAIN o : o[b].seq < SeqMod /\ Age(s, o[b].seq) <= k - 1
  <2>1. CASE IsReply(i[1])
    <3>1. Age(s, i[1].seq) <= k
      BY <1>1, <1>2, <2>1 DEF Line, Front
    <3>2. \A a \in DOMAIN j : Age(s, i[1].seq) > Age(s, j[a].seq) /\ j[a].seq < SeqMod
                             /\ Age(s, j[a].seq) \in Int
      <4> TAKE a \in DOMAIN j
      <4>1. a + 1 \in DOMAIN i /\ 1 < a + 1 /\ j[a] = i[a + 1]
        BY <1>1
      <4> QED BY <1>1, <1>2, <2>1, <4>1 DEF Line
    <3>3. \A b \in DOMAIN o : Age(s, i[1].seq) > Age(s, o[b].seq) /\ o[b].seq < SeqMod
                             /\ Age(s, o[b].seq) \in Int
      BY <1>1, <1>2, <2>1 DEF Line
    <3>4. Age(s, i[1].seq) \in Int
      BY <1>1, <1>2
    <3> QED BY <3>1, <3>2, <3>3, <3>4
  <2>2. CASE ~IsReply(i[1])
    <3>1. Front(i) = 1
      BY <1>1, <2>2 DEF Front
    <3> QED BY <1>1, <1>2, <1>3, <3>1 DEF Line
  <2> QED BY <2>1, <2>2
<1>6. /\ \A a, b \in DOMAIN j : a < b /\ IsReply(j[a]) => Age(s, j[a].seq) > Age(s, j[b].seq)
      /\ \A a \in DOMAIN j, b \in DOMAIN o :
           IsReply(j[a]) => Age(s, j[a].seq) > Age(s, o[b].seq)
      /\ \A a, b \in DOMAIN o : a < b => Age(s, o[a].seq) > Age(s, o[b].seq)
  <2>1. ASSUME NEW a \in DOMAIN j, NEW b \in DOMAIN j, a < b, IsReply(j[a])
        PROVE  Age(s, j[a].seq) > Age(s, j[b].seq)
    <3>1. a + 1 \in DOMAIN i /\ b + 1 \in DOMAIN i /\ a + 1 < b + 1
          /\ j[a] = i[a + 1] /\ j[b] = i[b + 1]
      BY <1>1, <2>1
    <3> QED BY <2>1, <3>1 DEF Line
  <2>2. ASSUME NEW a \in DOMAIN j, NEW b \in DOMAIN o, IsReply(j[a])
        PROVE  Age(s, j[a].seq) > Age(s, o[b].seq)
    BY <1>1, <2>2 DEF Line
  <2> QED BY <2>1, <2>2 DEF Line
<1>7. Line(j, o, s, k - 1)
  BY <1>3, <1>4, <1>5, <1>6 DEF Line
<1> QED BY <1>3, <1>4, <1>7 DEF j

LEMMA LineWeaker ==
  ASSUME NEW i \in Seq(Messages), NEW o \in Seq(Commands), NEW s \in Numbers,
         NEW k \in Int, NEW n \in Int, Line(i, o, s, k), k <= n
  PROVE  Line(i, o, s, n)
<1>1. /\ \A a \in DOMAIN i : Age(s, i[a].seq) \in Int
      /\ \A b \in DOMAIN o : Age(s, o[b].seq) \in Int
      /\ Front(i) \in Int
  BY LineTypes DEF Numbers
<1> QED BY <1>1 DEF Line

\* Who a message belongs to does not matter to its place.
LEMMA LineOrphaned ==
  ASSUME NEW t \in Threads, NEW i \in Seq(Messages), NEW o \in Seq(Commands), NEW s, NEW k,
         Line(i, o, s, k), Owners(i, o, s, t)
  PROVE  /\ Line(Orphaned(t, i), Orphaned(t, o), s, k)
         /\ Owners(Orphaned(t, i), Orphaned(t, o), s, "nobody")
<1> DEFINE j == Orphaned(t, i)  p == Orphaned(t, o)
<1>1. /\ DOMAIN j = DOMAIN i /\ DOMAIN p = DOMAIN o
      /\ \A a \in DOMAIN i :
           j[a] = IF i[a].by = t THEN [i[a] EXCEPT !.by = "nobody"] ELSE i[a]
      /\ \A b \in DOMAIN o :
           p[b] = IF o[b].by = t THEN [o[b] EXCEPT !.by = "nobody"] ELSE o[b]
      /\ Len(j) = Len(i) /\ j \in Seq(Messages)
  BY OrphanedTypes
<1>2. /\ \A a \in DOMAIN i : i[a] \in Messages
      /\ \A b \in DOMAIN o : o[b] \in Commands
      /\ (i # <<>> => 1 \in DOMAIN i /\ Head(i) = i[1])
      /\ (j # <<>> => Head(j) = j[1]) /\ (j = <<>> <=> i = <<>>)
  BY <1>1
<1> HIDE DEF j, p
<1>3. \A a \in DOMAIN i : j[a].seq = i[a].seq /\ j[a].kind = i[a].kind
                          /\ (i[a].by \in {"nobody", t} => j[a].by = "nobody")
  BY <1>1, <1>2 DEF Messages, Pipe
<1>4. \A b \in DOMAIN o : p[b].seq = o[b].seq
                          /\ (o[b].by \in {"nobody", t} => p[b].by = "nobody")
  BY <1>1, <1>2 DEF Commands
<1>5. Front(j) = Front(i)
  BY <1>2, <1>3 DEF Front, IsReply
<1>6. Line(j, p, s, k)
  BY <1>1, <1>3, <1>4, <1>5 DEF Line, IsReply
<1>7. Owners(j, p, s, "nobody")
  BY <1>1, <1>3, <1>4 DEF Owners, IsReply
<1> QED BY <1>6, <1>7 DEF j, p

\* Another command is numbered: everything under way is older by one.
LEMMA LineAged ==
  ASSUME NEW i \in Seq(Messages), NEW o \in Seq(Commands), NEW s \in Numbers, NEW k \in Nat,
         Line(i, o, s, k), k + 1 < SeqMod
  PROVE  /\ Line(i, o, (s + 1) % SeqMod, k + 1)
         /\ \A a \in DOMAIN i :
              IsReply(i[a]) => Age((s + 1) % SeqMod, i[a].seq) >= 1
         /\ \A b \in DOMAIN o : Age((s + 1) % SeqMod, o[b].seq) >= 1
<1> DEFINE u == (s + 1) % SeqMod
<1>1. /\ \A a \in DOMAIN i : i[a].seq \in Numbers /\ Age(s, i[a].seq) \in Nat
      /\ \A b \in DOMAIN o : o[b].seq \in Numbers /\ Age(s, o[b].seq) \in Nat
      /\ Front(i) \in {0, 1} /\ SeqMod \in Nat
  BY LineTypes, Parameters DEF Numbers
<1>2. /\ \A a \in DOMAIN i : IsReply(i[a]) => Age(s, i[a].seq) + 1 < SeqMod
      /\ \A b \in DOMAIN o : Age(s, o[b].seq) + 1 < SeqMod
  BY <1>1 DEF Line
<1>3. /\ \A a \in DOMAIN i : IsReply(i[a]) => Age(u, i[a].seq) = Age(s, i[a].seq) + 1
      /\ \A b \in DOMAIN o : Age(u, o[b].seq) = Age(s, o[b].seq) + 1
  BY <1>1, <1>2, Ages
<1> HIDE DEF u
<1>4. \A a, b \in DOMAIN i : a < b => IsReply(i[b])
  <2>1. DOMAIN i \subseteq Int /\ \A a \in DOMAIN i : a >= 1
    OBVIOUS
  <2> QED BY <2>1 DEF Line
<1>5. Line(i, o, u, k + 1)
  BY <1>1, <1>3, <1>4 DEF Line
<1> QED BY <1>1, <1>3, <1>5 DEF u

\* A command with the current number is written behind everything.
LEMMA LineSent ==
  ASSUME NEW i \in Seq(Messages), NEW o \in Seq(Commands), NEW s \in Numbers, NEW k \in Nat,
         Line(i, o, s, k), k >= 1, NEW c \in Commands, c.seq = s,
         \A a \in DOMAIN i : IsReply(i[a]) => Age(s, i[a].seq) >= 1,
         \A b \in DOMAIN o : Age(s, o[b].seq) >= 1,
         NEW t, c.by = t, t # "nobody", Owners(i, o, s, "nobody")
  PROVE  Line(i, Append(o, c), s, k) /\ Owners(i, Append(o, c), s, t)
<1> DEFINE p == Append(o, c)
<1>1. /\ DOMAIN p = 1 .. (Len(o) + 1) /\ DOMAIN o = 1 .. Len(o) /\ Len(o) \in Nat
      /\ p[Len(o) + 1] = c /\ \A b \in DOMAIN o : p[b] = o[b]
  OBVIOUS
<1>2. /\ \A a \in DOMAIN i : Age(s, i[a].seq) \in Nat
      /\ \A b \in DOMAIN o : Age(s, o[b].seq) \in Nat
      /\ Front(i) \in {0, 1} /\ Age(s, c.seq) = 0 /\ c.seq < SeqMod /\ SeqMod \in Nat
  <2>1. /\ \A a \in DOMAIN i : Age(s, i[a].seq) \in Numbers
        /\ \A b \in DOMAIN o : Age(s, o[b].seq) \in Numbers
        /\ Front(i) \in {0, 1}
    BY LineTypes
  <2>3. Age(s, s) = 0 /\ Age(s, c.seq) = 0
    BY Ages
  <2>2. SeqMod \in Nat /\ Numbers \subseteq Nat /\ \A n \in Numbers : n < SeqMod
    BY Parameters DEF Numbers
  <2> QED BY <2>1, <2>2, <2>3
<1> HIDE DEF p
<1>3. \A b \in DOMAIN p : b = Len(o) + 1 \/ b \in DOMAIN o
  BY <1>1
<1>4. \A a \in DOMAIN i, b \in DOMAIN p :
        IsReply(i[a]) => Age(s, i[a].seq) > Age(s, p[b].seq)
  BY <1>1, <1>2, <1>3 DEF Line
<1>5. ASSUME NEW a \in DOMAIN p, NEW b \in DOMAIN p, a < b
      PROVE  Age(s, p[a].seq) > Age(s, p[b].seq)
  <2>1. a \in DOMAIN o
    BY <1>1, <1>5
  <2>2. CASE b = Len(o) + 1
    BY <1>1, <1>2, <2>1, <2>2
  <2>3. CASE b \in DOMAIN o
    BY <1>1, <1>5, <2>1, <2>3 DEF Line
  <2> QED BY <1>3, <2>2, <2>3
<1>6. \A b \in DOMAIN p : p[b].seq < SeqMod /\ Age(s, p[b].seq) <= k - Front(i)
  BY <1>1, <1>2, <1>3 DEF Line
<1>7. Line(i, p, s, k)
  BY <1>4, <1>5, <1>6 DEF Line
<1>8. Owners(i, p, s, t)
  BY <1>1, <1>2, <1>3 DEF Owners
<1> QED BY <1>7, <1>8 DEF p

\* What the head and the rest of the commands are.
LEMMA OutParts ==
  ASSUME NEW o \in Seq(Commands), o # <<>>
  PROVE  /\ Tail(o) \in Seq(Commands) /\ Head(o) \in Commands
         /\ Head(o) = o[1] /\ 1 \in DOMAIN o
         /\ \A b \in DOMAIN Tail(o) : b \in Nat /\ b + 1 \in DOMAIN o /\ 1 < b + 1
                                      /\ Tail(o)[b] = o[b + 1]
OBVIOUS

LEMMA LineDropped ==
  ASSUME NEW i \in Seq(Messages), NEW o \in Seq(Commands), o # <<>>, NEW s, NEW k,
         Line(i, o, s, k), NEW h, Owners(i, o, s, h)
  PROVE  Line(i, Tail(o), s, k) /\ Owners(i, Tail(o), s, h)
<1> DEFINE p == Tail(o)
<1>1. \A b \in DOMAIN p : b \in Nat /\ b + 1 \in DOMAIN o /\ p[b] = o[b + 1]
  BY OutParts
<1> HIDE DEF p
<1>2. \A a, b \in DOMAIN p : a < b => Age(s, p[a].seq) > Age(s, p[b].seq)
  <2> TAKE a, b \in DOMAIN p
  <2>1. a < b => a + 1 < b + 1
    BY <1>1
  <2> QED BY <1>1, <2>1 DEF Line
<1>3. \A a \in DOMAIN i, b \in DOMAIN p :
        IsReply(i[a]) => Age(s, i[a].seq) > Age(s, p[b].seq)
  BY <1>1 DEF Line
<1>4. \A b \in DOMAIN p : p[b].seq < SeqMod /\ Age(s, p[b].seq) <= k - Front(i)
  BY <1>1 DEF Line
<1>5. Line(i, p, s, k)
  BY <1>2, <1>3, <1>4 DEF Line
<1>6. Owners(i, p, s, h)
  BY <1>1 DEF Owners
<1> QED BY <1>5, <1>6 DEF p

\* The oldest command becomes the youngest reply.
LEMMA LineServed ==
  ASSUME NEW i \in Seq(Messages), NEW o \in Seq(Commands), o # <<>>, NEW s, NEW k,
         Line(i, o, s, k), NEW h, Owners(i, o, s, h), NEW m \in Messages,
         IsReply(m), m.seq = Head(o).seq, m.by = Head(o).by
  PROVE  Line(Append(i, m), Tail(o), s, k) /\ Owners(Append(i, m), Tail(o), s, h)
<1> DEFINE p == Tail(o)  j == Append(i, m)
<1>1. /\ DOMAIN j = 1 .. (Len(i) + 1) /\ DOMAIN i = 1 .. Len(i) /\ Len(i) \in Nat
      /\ j[Len(i) + 1] = m /\ (\A a \in DOMAIN i : j[a] = i[a])
      /\ j # <<>> /\ Head(j) = j[1]
      /\ (i # <<>> => Head(i) = i[1] /\ 1 \in DOMAIN i) /\ (i = <<>> => Len(i) = 0)
  OBVIOUS
<1>2. /\ \A b \in DOMAIN p : b \in Nat /\ b + 1 \in DOMAIN o /\ 1 < b + 1 /\ p[b] = o[b + 1]
      /\ Head(o) = o[1] /\ 1 \in DOMAIN o
  BY OutParts
<1>3. Line(i, p, s, k) /\ Owners(i, p, s, h)
  BY LineDropped
<1> HIDE DEF p, j
<1>4. \A a \in DOMAIN j : a = Len(i) + 1 \/ a \in DOMAIN i
  BY <1>1
<1>5. Front(j) = Front(i)
  <2>1. CASE i = <<>>
    BY <1>1, <2>1 DEF Front
  <2>2. CASE i # <<>>
    BY <1>1, <2>2 DEF Front
  <2> QED BY <2>1, <2>2
<1>6. \A a \in DOMAIN j : ~IsReply(j[a]) => a = 1
  BY <1>1, <1>4 DEF Line
<1>7. ASSUME NEW a \in DOMAIN j, NEW b \in DOMAIN j, a < b, IsReply(j[a])
      PROVE  Age(s, j[a].seq) > Age(s, j[b].seq)
  <2>1. a \in DOMAIN i
    BY <1>1, <1>7
  <2>2. CASE b = Len(i) + 1
    BY <1>1, <1>2, <1>7, <2>1, <2>2 DEF Line
  <2>3. CASE b \in DOMAIN i
    BY <1>1, <1>7, <2>1, <2>3 DEF Line
  <2> QED BY <1>4, <2>2, <2>3
<1>8. ASSUME NEW a \in DOMAIN j, NEW b \in DOMAIN p, IsReply(j[a])
      PROVE  Age(s, j[a].seq) > Age(s, p[b].seq)
  <2>1. CASE a = Len(i) + 1
    <3>1. Age(s, o[1].seq) > Age(s, o[b + 1].seq)
      BY <1>2 DEF Line
    <3> QED BY <1>1, <1>2, <2>1, <3>1
  <2>2. CASE a \in DOMAIN i
    BY <1>1, <1>3, <1>8, <2>2 DEF Line
  <2> QED BY <1>4, <2>1, <2>2
<1>9. ASSUME NEW a \in DOMAIN j
      PROVE  j[a].seq < SeqMod /\ (IsReply(j[a]) => Age(s, j[a].seq) <= k - Front(j))
  BY <1>1, <1>2, <1>4, <1>5 DEF Line
<1>10. Line(j, p, s, k)
  BY <1>3, <1>5, <1>6, <1>7, <1>8, <1>9 DEF Line
<1>11. Owners(j, p, s, h)
  <2>1. ASSUME NEW a \in DOMAIN j
        PROVE  /\ j[a].by \in {"nobody", h}
               /\ IsReply(j[a]) /\ h # "nobody" => (j[a].by = h <=> Age(s, j[a].seq) = 0)
               /\ ~IsReply(j[a]) => j[a].by = "nobody"
    BY <1>1, <1>2, <1>4 DEF Owners
  <2> QED BY <1>3, <2>1 DEF Owners
<1> QED BY <1>10, <1>11 DEF p, j

\* A message that is no reply comes first, and costs one.
LEMMA LineStray ==
  ASSUME NEW j \in Seq(Messages), NEW o \in Seq(Commands), NEW s \in Numbers, NEW k \in Int,
         Line(j, o, s, k), \A a \in DOMAIN j : IsReply(j[a]),
         NEW h, Owners(j, o, s, h), NEW kind \in {"event", "runt", "bad"}
  PROVE  /\ Line(<<Message(kind)>> \o j, o, s, k + 1)
         /\ Owners(<<Message(kind)>> \o j, o, s, h)
<1> DEFINE m == Message(kind)  i == <<m>> \o j
<1>1. m \in Messages /\ ~IsReply(m) /\ m.seq = 0 /\ m.by = "nobody"
  BY DEF Message, Messages, Pipe, IsReply
<1>2. /\ DOMAIN i = 1 .. (Len(j) + 1) /\ DOMAIN j = 1 .. Len(j) /\ Len(j) \in Nat
      /\ i[1] = m /\ (\A a \in DOMAIN j : i[a + 1] = j[a])
      /\ (\A a \in DOMAIN i : a = 1 \/ (a > 1 /\ a - 1 \in DOMAIN j /\ i[a] = j[a - 1]))
      /\ i # <<>> /\ Head(i) = i[1]
      /\ (j # <<>> => Head(j) = j[1] /\ 1 \in DOMAIN j)
  OBVIOUS
<1>3. /\ \A a \in DOMAIN j : Age(s, j[a].seq) \in Int
      /\ \A b \in DOMAIN o : Age(s, o[b].seq) \in Int
      /\ 0 < SeqMod
  BY LineTypes, Parameters DEF Numbers
<1> HIDE DEF m, i
<1>4. Front(i) = 1 /\ Front(j) = 0
  BY <1>1, <1>2 DEF Front
<1>5. \A a \in DOMAIN i : ~IsReply(i[a]) => a = 1
  BY <1>2
<1>6. ASSUME NEW a \in DOMAIN i, NEW b \in DOMAIN i, a < b, IsReply(i[a])
      PROVE  Age(s, i[a].seq) > Age(s, i[b].seq)
  <2>1. /\ a - 1 \in DOMAIN j /\ i[a] = j[a - 1] /\ b - 1 \in DOMAIN j /\ i[b] = j[b - 1]
        /\ a - 1 < b - 1
    BY <1>1, <1>2, <1>6
  <2> QED BY <1>6, <2>1 DEF Line
<1>7. ASSUME NEW a \in DOMAIN i, NEW b \in DOMAIN o, IsReply(i[a])
      PROVE  Age(s, i[a].seq) > Age(s, o[b].seq)
  BY <1>1, <1>2, <1>7 DEF Line
<1>8. ASSUME NEW a \in DOMAIN i
      PROVE  i[a].seq < SeqMod /\ (IsReply(i[a]) => Age(s, i[a].seq) <= (k + 1) - Front(i))
  <2>1. CASE a = 1
    BY <1>1, <1>2, <1>3, <2>1
  <2>2. CASE a > 1
    <3>1. a - 1 \in DOMAIN j /\ i[a] = j[a - 1] /\ IsReply(i[a])
      BY <1>2, <2>2
    <3>2. j[a - 1].seq < SeqMod /\ Age(s, j[a - 1].seq) <= k - Front(j)
      BY <3>1 DEF Line
    <3> QED BY <1>3, <1>4, <3>1, <3>2
  <2> QED BY <1>2, <2>1, <2>2
<1>9. ASSUME NEW b \in DOMAIN o
      PROVE  o[b].seq < SeqMod /\ Age(s, o[b].seq) <= (k + 1) - Front(i)
  BY <1>3, <1>4 DEF Line
<1>10. Line(i, o, s, k + 1)
  <2>1. \A a, b \in DOMAIN o : a < b => Age(s, o[a].seq) > Age(s, o[b].seq)
    BY DEF Line
  <2> QED BY <1>5, <1>6, <1>7, <1>8, <1>9, <2>1 DEF Line
<1>11. Owners(i, o, s, h)
  <2>1. ASSUME NEW a \in DOMAIN i
        PROVE  /\ i[a].by \in {"nobody", h}
               /\ IsReply(i[a]) /\ h # "nobody" => (i[a].by = h <=> Age(s, i[a].seq) = 0)
               /\ ~IsReply(i[a]) => i[a].by = "nobody"
    BY <1>1, <1>2 DEF Owners
  <2> QED BY <2>1 DEF Owners
<1> QED BY <1>10, <1>11 DEF m, i

\* Taking the front message leaves the owners of the rest.
LEMMA OwnersTaken ==
  ASSUME NEW i \in Seq(Messages), i # <<>>, NEW o, NEW s, NEW h, Owners(i, o, s, h)
  PROVE  Owners(Tail(i), o, s, h)
<1> DEFINE j == Tail(i)
<1>1. \A a \in DOMAIN j : a + 1 \in DOMAIN i /\ j[a] = i[a + 1]
  BY HeadTail
<1> HIDE DEF j
<1>2. Owners(j, o, s, h)
  BY <1>1 DEF Owners
<1> QED BY <1>2 DEF j

\* The command under way is the head of its thread's program.
OwnSteps ==
  \A b \in DOMAIN out : out[b].by # "nobody" => out[b].step = Head(todo[out[b].by])

LEMMA StrayTypes ==
  ASSUME TypeOK, Turns
  PROVE  /\ Strays \in Nat /\ seq \in Numbers
         /\ in \in Seq(Messages) /\ out \in Seq(Commands)
         /\ faults \in Nat /\ events \in Nat /\ faults <= MaxFaults /\ events <= MaxEvents
         /\ lock = "nobody" => Strays = faults + events
         /\ lock # "nobody" => Strays = faults + events + 1
<1>1. PipeTypes
  BY TypeParts
<1> QED BY <1>1 DEF PipeTypes, Turns, Strays, Held, Numbers

\* Nobody owns anything: the mutex is free.
LEMMA FreeLine ==
  ASSUME Line(in', out', seq', Strays'), Owners(in', out', seq', "nobody"),
         lock' = "nobody", ~crossed'
  PROVE  LineInv' /\ OwnSteps'
<1>1. Owners(in', out', seq', lock')
  OBVIOUS
<1>2. \A b \in DOMAIN out' : out'[b].by = "nobody"
  BY DEF Owners
<1>3. LineInv'
  BY <1>1 DEF LineInv
<1>4. OwnSteps'
  BY <1>2 DEF OwnSteps
<1> QED BY <1>3, <1>4

LEMMA InitLine == Init => LineInv /\ OwnSteps
<1> SUFFICES ASSUME Init PROVE LineInv /\ OwnSteps
  OBVIOUS
<1>1. in = <<>> /\ out = <<>> /\ ~crossed
  BY DEF Init
<1>2. DOMAIN in = {} /\ DOMAIN out = {}
  BY <1>1
<1> QED BY <1>1, <1>2 DEF LineInv, OwnSteps, Line, Owners

LEMMA NobodyOwns ==
  ASSUME NEW i, NEW o, NEW s, NEW u, Owners(i, o, s, "nobody")
  PROVE  Owners(i, o, u, "nobody")
BY DEF Owners

LEMMA SendLine ==
  ASSUME TypeOK, Turns, LineInv, FewStrays, NEW t \in Threads, Send(t)
  PROVE  LineInv' /\ OwnSteps'
<1> DEFINE c == [seq |-> seq', by |-> t, step |-> Head(todo[t])]
<1>1. /\ lock = "nobody" /\ lock' = t /\ t # "nobody" /\ todo' = todo /\ in' = in
      /\ seq' = (seq + 1) % SeqMod /\ out' = Append(out, c) /\ todo[t] # <<>>
      /\ faults' = faults /\ events' = events
  BY Parameters DEF Send, bounds
<1>2. crossed' = crossed
  BY DEF Send, history
<1>3. /\ Strays \in Nat /\ Strays' = Strays + 1 /\ Strays + 1 < SeqMod /\ Strays + 1 \in Nat
      /\ Strays + 1 >= 1
  BY <1>1, StrayTypes, Parameters DEF FewStrays, Strays, Held
<1>4. seq \in Numbers /\ seq' \in Numbers /\ in \in Seq(Messages) /\ out \in Seq(Commands)
  BY <1>1, StrayTypes, Ages
<1>5. c \in Commands
  BY <1>1, <1>4, HeadTypes, Parameters DEF Commands, Numbers
<1>6. c.seq = seq' /\ c.by = t /\ c.step = Head(todo[t])
  OBVIOUS
<1> HIDE DEF c
<1>7. /\ Line(in, out, seq', Strays + 1)
      /\ \A a \in DOMAIN in : IsReply(in[a]) => Age(seq', in[a].seq) >= 1
      /\ \A b \in DOMAIN out : Age(seq', out[b].seq) >= 1
  BY <1>1, <1>3, <1>4, LineAged DEF LineInv
<1>8. Owners(in, out, seq, "nobody") /\ Owners(in, out, seq', "nobody")
  BY <1>1, NobodyOwns DEF LineInv
<1>9. Line(in, Append(out, c), seq', Strays + 1) /\ Owners(in, Append(out, c), seq', t)
  BY <1>1, <1>3, <1>4, <1>5, <1>6, <1>7, <1>8, LineSent
<1>10. LineInv'
  <2>1. ~crossed'
    BY <1>2 DEF LineInv
  <2> QED BY <1>1, <1>3, <1>9, <2>1 DEF LineInv
<1>11. OwnSteps'
  <2>1. /\ DOMAIN out' = 1 .. (Len(out) + 1) /\ DOMAIN out = 1 .. Len(out) /\ Len(out) \in Nat
        /\ out'[Len(out) + 1] = c /\ \A b \in DOMAIN out : out'[b] = out[b]
    BY <1>1, <1>4
  <2>2. \A b \in DOMAIN out : out[b].by = "nobody"
    BY <1>8 DEF Owners
  <2>3. \A b \in DOMAIN out' : b \in DOMAIN out \/ b = Len(out) + 1
    BY <2>1
  <2> QED BY <1>1, <1>6, <2>1, <2>2, <2>3 DEF OwnSteps
<1> QED BY <1>10, <1>11

LEMMA SendFailsLine ==
  ASSUME TypeOK, Turns, LineInv, FewStrays, NEW t \in Threads, SendFails(t)
  PROVE  LineInv' /\ OwnSteps'
<1>1. /\ lock = "nobody" /\ lock' = "nobody" /\ in' = in /\ out' = out
      /\ seq' = (seq + 1) % SeqMod /\ faults' = faults + 1 /\ events' = events
      /\ faults < MaxFaults
  BY DEF SendFails, CommandFails
<1>2. crossed' = crossed
  BY DEF SendFails, CommandFails
<1>3. Strays \in Nat /\ Strays' = Strays + 1 /\ Strays + 1 < SeqMod
  <2>1. /\ faults \in Nat /\ events \in Nat /\ Strays = faults + events
        /\ faults <= MaxFaults /\ events <= MaxEvents /\ Strays \in Nat
    BY <1>1, StrayTypes
  <2>2. Strays' = faults + 1 + events + 0
    BY <1>1 DEF Strays, Held
  <2> QED BY <2>1, <2>2, Parameters DEF FewStrays
<1>4. seq \in Numbers /\ in \in Seq(Messages) /\ out \in Seq(Commands)
  BY StrayTypes
<1>5. Line(in, out, seq', Strays + 1)
  BY <1>1, <1>3, <1>4, LineAged DEF LineInv
<1>6. Owners(in, out, seq', "nobody")
  BY <1>1, NobodyOwns DEF LineInv
<1>7. ~crossed'
  BY <1>2 DEF LineInv
<1> QED BY <1>1, <1>3, <1>5, <1>6, <1>7, FreeLine

\* A message taken from the pipe while a command is under way.
LEMMA TakenLine ==
  ASSUME TypeOK, Turns, LineInv, NEW t \in Threads, pc[t] = "wait", in # <<>>
  PROVE  /\ lock = t /\ t # "nobody" /\ Strays = faults + events + 1 /\ Strays - 1 \in Nat
         /\ Tail(in) \in Seq(Messages) /\ Head(in) \in Messages /\ Head(in) = in[1]
         /\ 1 \in DOMAIN in
         /\ Line(Tail(in), out, seq, Strays - 1) /\ Owners(Tail(in), out, seq, t)
         /\ Line(Orphaned(t, Tail(in)), Orphaned(t, out), seq, Strays - 1)
         /\ Owners(Orphaned(t, Tail(in)), Orphaned(t, out), seq, "nobody")
<1>1. lock = t /\ t # "nobody"
  BY Parameters DEF TypeOK
<1>2. /\ Strays \in Nat /\ seq \in Numbers /\ in \in Seq(Messages) /\ out \in Seq(Commands)
      /\ Strays = faults + events + 1 /\ Strays - 1 \in Nat
  BY <1>1, StrayTypes
<1>3. /\ Tail(in) \in Seq(Messages) /\ Head(in) \in Messages /\ Head(in) = in[1]
      /\ 1 \in DOMAIN in
  BY <1>2, HeadTail
<1>4. Line(Tail(in), out, seq, Strays - 1) /\ Owners(Tail(in), out, seq, t)
  BY <1>1, <1>2, LineTaken, OwnersTaken DEF LineInv
<1>5. /\ Line(Orphaned(t, Tail(in)), Orphaned(t, out), seq, Strays - 1)
      /\ Owners(Orphaned(t, Tail(in)), Orphaned(t, out), seq, "nobody")
  BY <1>2, <1>3, <1>4, LineOrphaned
<1> QED BY <1>1, <1>2, <1>3, <1>4, <1>5

\* A success leaves the pipes empty: everything else would be younger.
LEMMA OwnReplyIsLast ==
  ASSUME TypeOK, Turns, LineInv, NEW t \in Threads, pc[t] = "wait", in # <<>>,
         IsOwnReply(Head(in))
  PROVE  Tail(in) = <<>> /\ out = <<>> /\ Head(in).by = t
<1>1. /\ lock = t /\ t # "nobody" /\ Head(in) = in[1] /\ 1 \in DOMAIN in
      /\ Strays \in Nat /\ seq \in Numbers /\ in \in Seq(Messages) /\ out \in Seq(Commands)
  BY TakenLine, StrayTypes
<1>2. IsReply(in[1]) /\ in[1].seq = seq
  BY <1>1 DEF IsOwnReply, IsReply
<1>3. Age(seq, in[1].seq) = 0
  BY <1>1, <1>2, Ages
<1>4. /\ \A a \in DOMAIN in : Age(seq, in[a].seq) \in Numbers
      /\ \A b \in DOMAIN out : Age(seq, out[b].seq) \in Numbers
      /\ \A n \in Numbers : ~(0 > n)
  BY <1>1, LineTypes DEF LineInv, Numbers
<1>5. ~(2 \in DOMAIN in)
  BY <1>1, <1>2, <1>3, <1>4 DEF LineInv, Line
<1>6. ~(1 \in DOMAIN out)
  BY <1>1, <1>2, <1>3, <1>4 DEF LineInv, Line
<1>7. Tail(in) = <<>>
  <2>1. Len(in) \in Nat /\ DOMAIN in = 1 .. Len(in) /\ Len(in) >= 1
    BY <1>1
  <2>2. Len(in) = 1
    BY <1>5, <2>1
  <2>3. Tail(in) \in Seq(Messages) /\ Len(Tail(in)) = Len(in) - 1
    BY <1>1, HeadTail
  <2>4. \A q \in Seq(Messages) : Len(q) = 0 => q = <<>>
    OBVIOUS
  <2>5. Len(Tail(in)) = 0
    BY <2>2, <2>3
  <2> QED BY ONLY <2>3, <2>4, <2>5
<1>8. out = <<>>
  BY <1>1, <1>6
<1>9. in[1].by = t
  BY <1>1, <1>2, <1>3 DEF LineInv, Owners
<1> QED BY <1>1, <1>7, <1>8, <1>9

LEMMA ReceiveLine ==
  ASSUME TypeOK, Turns, LineInv, OwnSteps, NEW t \in Threads, Receive(t)
  PROVE  LineInv' /\ OwnSteps'
<1>0. pc[t] = "wait" /\ in # <<>>
  BY DEF Receive
<1>1. /\ lock = t /\ t # "nobody" /\ Strays = faults + events + 1 /\ Strays - 1 \in Nat
      /\ Tail(in) \in Seq(Messages)
      /\ Line(Tail(in), out, seq, Strays - 1) /\ Owners(Tail(in), out, seq, t)
      /\ Line(Orphaned(t, Tail(in)), Orphaned(t, out), seq, Strays - 1)
      /\ Owners(Orphaned(t, Tail(in)), Orphaned(t, out), seq, "nobody")
      /\ faults \in Nat /\ events \in Nat /\ seq \in Numbers /\ out \in Seq(Commands)
  BY <1>0, TakenLine, StrayTypes
<1>2. CASE IsOwnReply(Head(in)) /\ in' = Tail(in) /\ CommandSucceeds(t, Head(in))
  <2>1. in' = <<>> /\ out' = <<>> /\ lock' = "nobody" /\ Head(in).by = t
    BY <1>0, <1>2, OwnReplyIsLast DEF CommandSucceeds
  <2>2. ~crossed'
    BY <1>2, <2>1 DEF CommandSucceeds, LineInv
  <2>3. DOMAIN in' = {} /\ DOMAIN out' = {}
    BY <2>1
  <2>4. Line(in', out', seq', Strays') /\ Owners(in', out', seq', "nobody")
    BY <2>3 DEF Line, Owners
  <2> QED BY <2>1, <2>2, <2>4, FreeLine
<1>3. CASE tries > 1 /\ in' = Tail(in) /\ Skip(t)
  <2>1. UNCHANGED <<todo, pc, seq, lock, out, history, bounds>>
    BY <1>3 DEF Skip
  <2>2. Strays' = Strays /\ ~crossed'
    BY <2>1 DEF Strays, Held, bounds, history, LineInv
  <2>3. Line(Tail(in), out, seq, Strays)
    <3>1. Strays - 1 \in Int /\ Strays \in Int /\ Strays - 1 <= Strays
      BY <1>1
    <3> QED BY <1>1, <3>1, LineWeaker
  <2> QED BY <1>1, <1>3, <2>1, <2>2, <2>3 DEF LineInv, OwnSteps
<1>4. ASSUME in' = Orphaned(t, Tail(in)), out' = Orphaned(t, out), CommandFails(t),
             UNCHANGED <<seq, faults>>
      PROVE  LineInv' /\ OwnSteps'
  <2>1. lock' = "nobody" /\ events' = events /\ crossed' = crossed
    BY <1>4 DEF CommandFails
  <2>2. Strays' = Strays - 1
    BY <1>1, <1>4, <2>1 DEF Strays, Held
  <2>3. ~crossed'
    BY <2>1 DEF LineInv
  <2> QED BY <1>1, <1>4, <2>1, <2>2, <2>3, FreeLine
<1>5. CASE ~(tries > 1) /\ in' = Orphaned(t, Tail(in)) /\ Skip(t)
  BY <1>4, <1>5 DEF Skip
<1> QED BY <1>2, <1>3, <1>4, <1>5 DEF Receive

LEMMA TimeoutLine ==
  ASSUME TypeOK, Turns, LineInv, NEW t \in Threads, Timeout(t)
  PROVE  LineInv' /\ OwnSteps'
<1>1. /\ pc[t] = "wait" /\ in = <<>> /\ in' = in /\ out' = Orphaned(t, out) /\ seq' = seq
      /\ lock' = "nobody" /\ events' = events
      /\ IF out = <<>> THEN faults' = faults ELSE faults' = faults + 1
  BY DEF Timeout, CommandFails
<1>2. crossed' = crossed
  BY DEF Timeout, CommandFails
<1>3. lock = t /\ t # "nobody"
  BY <1>1, Parameters DEF TypeOK
<1>4. /\ Strays = faults + events + 1 /\ seq \in Numbers /\ in \in Seq(Messages)
      /\ out \in Seq(Commands) /\ faults \in Nat /\ events \in Nat
  BY <1>3, StrayTypes
<1>5. Orphaned(t, in) = <<>>
  <2>1. Len(Orphaned(t, in)) = 0 /\ Orphaned(t, in) \in Seq(Messages)
    BY <1>1, <1>4, OrphanedTypes
  <2> QED BY <2>1
<1>6. Line(in', out', seq, Strays) /\ Owners(in', out', seq, "nobody")
  BY <1>1, <1>3, <1>4, <1>5, LineOrphaned DEF LineInv
<1>7. Line(in', out', seq', Strays')
  <2>1. CASE out = <<>>
    <3>1. DOMAIN Orphaned(t, out) = DOMAIN out
      BY <1>4, OrphanedTypes
    <3>2. DOMAIN out = {} /\ DOMAIN in = {}
      BY <1>1, <2>1
    <3>3. DOMAIN in' = {} /\ DOMAIN out' = {}
      BY <1>1, <3>1, <3>2
    <3> QED BY <3>3 DEF Line
  <2>2. CASE out # <<>>
    <3>1. Strays' = Strays
      BY <1>1, <1>4, <2>2 DEF Strays, Held
    <3> QED BY <1>1, <1>6, <3>1
  <2> QED BY <2>1, <2>2
<1>8. ~crossed'
  BY <1>2 DEF LineInv
<1> QED BY <1>1, <1>6, <1>7, <1>8, FreeLine

LEMMA TargetLine ==
  ASSUME TypeOK, Turns, LineInv, OwnSteps, Target
  PROVE  LineInv' /\ OwnSteps'
<1>1. /\ Strays \in Nat /\ seq \in Numbers /\ in \in Seq(Messages) /\ out \in Seq(Commands)
      /\ faults \in Nat /\ events \in Nat
      /\ Line(in, out, seq, Strays) /\ Owners(in, out, seq, lock) /\ ~crossed
  BY StrayTypes DEF LineInv
<1>2. seq' = seq /\ lock' = lock /\ todo' = todo
  BY DEF Target, TargetServes, TargetDrops, TargetEvent, Damaged
<1>3. ~crossed'
  <2>1. crossed' = crossed
    BY DEF Target, TargetServes, TargetDrops, TargetEvent, Damaged, history
  <2> QED BY <1>1, <2>1
<1>4. ASSUME Line(in', out', seq, Strays'), Owners(in', out', seq, lock)
      PROVE  LineInv'
  BY <1>2, <1>3, <1>4 DEF LineInv
<1>5. ASSUME out' = Tail(out), out # <<>>
      PROVE  OwnSteps'
  <2>1. \A b \in DOMAIN out' : b + 1 \in DOMAIN out /\ out'[b] = out[b + 1]
    BY <1>1, <1>5, OutParts
  <2> QED BY <1>2, <2>1 DEF OwnSteps
<1>6. CASE TargetServes
  <2>1. PICK v \in Answers(Head(out).step) :
          in' = Append(in, [kind |-> "reply", seq |-> Head(out).seq, by |-> Head(out).by,
                            val |-> v])
    BY <1>6 DEF TargetServes
  <2> DEFINE m == [kind |-> "reply", seq |-> Head(out).seq, by |-> Head(out).by, val |-> v]
  <2>2. out # <<>> /\ out' = Tail(out) /\ faults' = faults /\ events' = events
    BY <1>6 DEF TargetServes, bounds
  <2>3. Head(out) \in Commands
    BY <1>1, <2>2, OutParts
  <2>4. m \in Messages /\ IsReply(m) /\ m.seq = Head(out).seq /\ m.by = Head(out).by
    BY <2>3, AnswerTypes DEF Messages, Pipe, Commands, IsReply
  <2>5. in' = Append(in, m)
    BY <2>1
  <2> HIDE DEF m
  <2>6. Line(in', out', seq, Strays) /\ Owners(in', out', seq, lock)
    BY <1>1, <2>2, <2>4, <2>5, LineServed
  <2>7. Strays' = Strays
    BY <1>2, <2>2 DEF Strays, Held
  <2> QED BY <1>4, <1>5, <2>2, <2>6, <2>7
<1>7. CASE TargetDrops
  <2>1. /\ out # <<>> /\ out' = Tail(out) /\ in' = in
        /\ faults' = faults + 1 /\ events' = events
    BY <1>7 DEF TargetDrops
  <2>2. Line(in', out', seq, Strays) /\ Owners(in', out', seq, lock)
    BY <1>1, <2>1, LineDropped
  <2>3. Strays' = Strays + 1
    BY <1>1, <1>2, <2>1 DEF Strays, Held
  <2>4. Tail(out) \in Seq(Commands)
    BY <1>1, <2>1, OutParts
  <2>5. Line(in', out', seq, Strays')
    <3>1. Strays \in Int /\ Strays' \in Int /\ Strays <= Strays'
      BY <1>1, <2>3
    <3> QED BY <1>1, <2>1, <2>2, <2>4, <3>1, LineWeaker
  <2> QED BY <1>4, <1>5, <2>1, <2>2, <2>5
<1>8. CASE TargetEvent
  <2>1. /\ in = <<>> /\ out' = out /\ in' = Append(in, Message("event"))
        /\ faults' = faults /\ events' = events + 1
    BY <1>8 DEF TargetEvent
  <2>2. in' = <<Message("event")>> \o in
    BY <2>1
  <2>3. \A a \in DOMAIN in : IsReply(in[a])
    BY <2>1
  <2>4. Line(in', out, seq, Strays + 1) /\ Owners(in', out, seq, lock)
    <3>1. Strays \in Int
      BY <1>1
    <3> QED BY <1>1, <2>2, <2>3, <3>1, LineStray
  <2>5. Strays' = Strays + 1
    BY <1>1, <1>2, <2>1 DEF Strays, Held
  <2>6. OwnSteps'
    BY <1>2, <2>1 DEF OwnSteps
  <2> QED BY <1>4, <2>1, <2>4, <2>5, <2>6
<1>9. CASE Damaged
  <2>1. PICK kind \in {"runt", "bad"} : in' = <<Message(kind)>> \o Tail(in)
    BY <1>9 DEF Damaged
  <2>2. in # <<>> /\ out' = out /\ faults' = faults + 1 /\ events' = events
    BY <1>9 DEF Damaged
  <2>3. /\ Tail(in) \in Seq(Messages) /\ Line(Tail(in), out, seq, Strays - 1)
        /\ Owners(Tail(in), out, seq, lock)
        /\ \A a \in DOMAIN Tail(in) : IsReply(Tail(in)[a])
    <3>1. Strays \in Int
      BY <1>1
    <3>2. Tail(in) \in Seq(Messages)
      BY <1>1, <2>2, HeadTail
    <3> QED BY <1>1, <2>2, <3>1, <3>2, LineTaken, OwnersTaken
  <2>4. Line(Tail(in), out, seq, Strays)
    <3>1. Strays - 1 \in Int /\ Strays \in Int /\ Strays - 1 <= Strays
      BY <1>1
    <3> QED BY <1>1, <2>3, <3>1, LineWeaker
  <2>5. Line(in', out, seq, Strays + 1) /\ Owners(in', out, seq, lock)
    <3>1. Strays \in Int /\ kind \in {"event", "runt", "bad"}
      BY <1>1
    <3> QED BY <1>1, <2>1, <2>3, <2>4, <3>1, LineStray
  <2>6. Strays' = Strays + 1
    BY <1>1, <1>2, <2>2 DEF Strays, Held
  <2>7. OwnSteps'
    BY <1>2, <2>2 DEF OwnSteps
  <2> QED BY <1>4, <2>2, <2>5, <2>6, <2>7
<1> QED BY <1>6, <1>7, <1>8, <1>9 DEF Target

\* Steps that leave the pipes alone.
LEMMA LineKept ==
  ASSUME TypeOK, LineInv, OwnSteps, UNCHANGED <<pipes, faults, events>>, crossed' = crossed,
         \A u \in Threads : pc[u] = "wait" => todo'[u] = todo[u]
  PROVE  LineInv' /\ OwnSteps'
<1>1. in' = in /\ out' = out /\ seq' = seq /\ lock' = lock
  BY DEF pipes
<1>2. ~crossed'
  BY DEF LineInv
<1>3. Strays' = Strays
  BY <1>1 DEF Strays, Held
<1>4. LineInv'
  BY <1>1, <1>2, <1>3 DEF LineInv
<1>5. ASSUME NEW b \in DOMAIN out, out[b].by # "nobody"
      PROVE  out[b].step = Head(todo'[out[b].by])
  <2>1. out[b].by = lock /\ lock \in Threads
    BY <1>5 DEF LineInv, Owners, TypeOK
  <2>2. pc[lock] = "wait"
    BY <2>1 DEF TypeOK
  <2> QED BY <1>5, <2>1, <2>2 DEF OwnSteps
<1>6. OwnSteps'
  BY <1>1, <1>5 DEF OwnSteps
<1> QED BY <1>4, <1>6

LEMMA CallsLine ==
  ASSUME TypeOK, LineInv, OwnSteps, NEW t \in Threads, Calls(t)
  PROVE  LineInv' /\ OwnSteps'
<1>1. PICK name, steps : Begin(t, name, steps)
  BY DEF Calls, SetChannel, SetTxPower, ReadClockCall
<1>2. /\ UNCHANGED <<pipes, faults, events>> /\ pc[t] = "idle"
      /\ todo' = [todo EXCEPT ![t] = steps]
  BY <1>1 DEF Begin
<1>3. crossed' = crossed
  BY <1>1 DEF Begin
<1>4. \A u \in Threads : pc[u] = "wait" => todo'[u] = todo[u]
  BY <1>2 DEF TypeOK
<1> QED BY <1>2, <1>3, <1>4, LineKept

LEMMA EnterLine ==
  ASSUME TypeOK, LineInv, OwnSteps, NEW t \in Threads, EnterSetBandwidth(t) \/ EnterRoutine(t)
  PROVE  LineInv' /\ OwnSteps'
<1>1. PICK steps : Enter(t, steps)
  BY DEF EnterSetBandwidth, EnterRoutine
<1>2. UNCHANGED <<pipes, faults, events>> /\ pc[t] = "run"
  BY <1>1 DEF Enter, bounds, EnterSetBandwidth, EnterRoutine, Reached
<1>3. crossed' = crossed
  BY <1>1 DEF Enter, history
<1>4. \A u \in Threads : pc[u] = "wait" => todo'[u] = todo[u]
  BY <1>1, <1>2 DEF TypeOK, Enter
<1> QED BY <1>2, <1>3, <1>4, LineKept

LEMMA ReturnLine ==
  ASSUME TypeOK, LineInv, OwnSteps, NEW t \in Threads, Return(t)
  PROVE  LineInv' /\ OwnSteps'
<1>1. UNCHANGED <<pipes, faults, events>> /\ pc[t] = "run" /\ todo' = [todo EXCEPT ![t] = <<>>]
  BY DEF Return, Forget, bounds
<1>2. crossed' = crossed
  BY DEF Return
<1>3. \A u \in Threads : pc[u] = "wait" => todo'[u] = todo[u]
  BY <1>1 DEF TypeOK
<1> QED BY <1>1, <1>2, <1>3, LineKept

LEMMA NextLine == TypeOK /\ Turns /\ LineInv /\ OwnSteps /\ FewStrays /\ [Next]_vars
                  => LineInv' /\ OwnSteps'
<1> SUFFICES ASSUME TypeOK, Turns, LineInv, OwnSteps, FewStrays, [Next]_vars
             PROVE  LineInv' /\ OwnSteps'
  OBVIOUS
<1>1. ASSUME NEW t \in Threads, Calls(t) \/ Works(t) \/ SendFails(t)
      PROVE  LineInv' /\ OwnSteps'
  <2>1. CASE Calls(t)
    BY <2>1, CallsLine
  <2>2. CASE SendFails(t)
    BY <2>2, SendFailsLine
  <2>3. CASE Works(t)
    BY <2>3, EnterLine, ReturnLine, SendLine, ReceiveLine, TimeoutLine DEF Works
  <2> QED BY <1>1, <2>1, <2>2, <2>3
<1>2. ASSUME Tick PROVE LineInv' /\ OwnSteps'
  <2>1. UNCHANGED <<pipes, faults, events>> /\ todo' = todo
    BY <1>2 DEF Tick, bounds
  <2>2. crossed' = crossed
    BY <1>2 DEF Tick, history
  <2> QED BY <2>1, <2>2, LineKept
<1>3. ASSUME UNCHANGED vars PROVE LineInv' /\ OwnSteps'
  <2>1. UNCHANGED <<pipes, faults, events>> /\ todo' = todo
    BY <1>3 DEF vars, pipes
  <2>2. crossed' = crossed
    BY <1>3 DEF vars
  <2> QED BY <2>1, <2>2, LineKept
<1> QED BY <1>1, <1>2, <1>3, TargetLine DEF Next

\* A command of any thread that returns Ok returns the answer to itself and not to a
\* command that gave up before, while the faults and events are fewer than the numbers.
THEOREM OwnReplyAlways == ASSUME FewStrays PROVE Spec => []OwnReply
<1>1. Init => TypeOK /\ Turns /\ LineInv /\ OwnSteps
  BY InitTypes, InitLine
<1>2. (TypeOK /\ Turns /\ LineInv /\ OwnSteps) /\ [Next]_vars
      => (TypeOK /\ Turns /\ LineInv /\ OwnSteps)'
  BY NextTypes, NextLine
<1>3. LineInv => OwnReply
  BY DEF LineInv, OwnReply
<1> QED BY <1>1, <1>2, <1>3, PTL DEF Spec

----------------------------------------------------------------------------
(* The knobs.  While no command of the tuning thread has failed, each       *)
(* register that matters has the value of the mirrors or a step that will   *)
(* give it that value is still in the program, with the right argument; and *)
(* the tables are never rewritten without reapply_power_state at the end.   *)

\* One thread tunes: RadioKnobs' owner.
Tunes(t) == Ops[t] \cap {"tune", "power"} # {}
OneTuner == \A t, u \in Threads : Tunes(t) /\ Tunes(u) => t = u

AllWell == \A t \in Threads : Tunes(t) => t \notin failed

\* Where the synthesiser belongs.
Centre(c, w) == Mhz(c) + (IF w = 40 THEN 10 ELSE 0)

\* The steps of read_clock.
ClockSteps == {s \in GoodSteps : s.do = "read" \/ (s.do = "call" /\ s.at = "clock_words")}

\* The steps that are right for channel c, width w and power p.
RightSteps(c, w, p) ==
  {s \in GoodSteps :
     /\ s.do = "write" =>
          /\ s.at = "synth" => s.arg = Centre(c, w)
          /\ s.at = "tables" => s.arg = w
          /\ s.at = "gain" => s.arg = p
          /\ s.at = "board" => s.arg = 1 /\ CalApplied = 1
          /\ s.at # "column"
     /\ s.do = "call" =>
          /\ s.at = "rf_set_freq" => s.arg = Mhz(c)
          /\ s.at = "set_tx_gain_level" => s.arg = p}

\* The steps that end in a write of the synthesiser, the column, the gain, the board.
Writes(places, routines) ==
  {s \in Steps : (s.do = "write" /\ s.at \in places) \/ (s.do = "call" /\ s.at \in routines)}

Widening == Writes({}, {"set_bandwidth"})
TableSteps == Writes({"tables"}, {"apply_initvals"})
ReapplySteps == Writes({}, {"reapply_power_state"})
SynthBy == Writes({"synth"}, {"set_bandwidth", "retune", "rf_set_freq"})
ColumnBy == Writes({"tables"}, {"set_bandwidth", "apply_initvals"})
GainBy == Writes({"gain"}, {"set_bandwidth", "reapply_power_state", "set_tx_gain_level"})
BoardBy == Writes({"board"}, {"set_bandwidth", "reapply_power_state"})
DueSets == {SynthBy, ColumnBy, GainBy, BoardBy}

In(p, S) == \E i \in DOMAIN p : p[i] \in S
Due(S) == \E t \in Threads : In(todo[t], S)

LastReapplies(p) == In(p, TableSteps) => p[Len(p)] \in ReapplySteps
Alone(p) == In(p, Widening) => Len(p) = 1

OnlyReads == \A t \in Threads : op[t] \notin {"tune", "power"} => todo[t] \in Seq(ClockSteps)

Programs ==
  \A t \in Threads : /\ todo[t] \in Seq(RightSteps(channel, width, power))
                     /\ LastReapplies(todo[t]) /\ Alone(todo[t])

\* No write of a command that gave up is still under way.
NoStaleWrite == \A b \in DOMAIN out : out[b].step.do = "write" => out[b].by # "nobody"

InEffect(c, s) ==
  /\ s.at = "synth" => c.synth = s.arg
  /\ s.at = "tables" => c.column = s.arg
  /\ s.at = "gain" => c.gain = s.arg
  /\ s.at = "board" => c.board = s.arg

\* What has been answered is in effect.
Effects ==
  \A a \in DOMAIN in :
    in[a].by # "nobody" /\ Head(todo[in[a].by]).do = "write" => InEffect(chip, Head(todo[in[a].by]))

Settled ==
  /\ chip.synth = Centre(channel, width) \/ Due(SynthBy)
  /\ chip.column = width \/ Due(ColumnBy)
  /\ (asked # -1 => chip.gain = asked) \/ Due(GainBy)
  /\ chip.board = CalApplied \/ Due(BoardBy)
  /\ CalApplied = 0 => chip.board = 0
  /\ asked # -1 => power = asked

KnobsInv == AllWell => Programs /\ NoStaleWrite /\ Effects /\ Settled

LEMMA InOne == ASSUME NEW x, NEW S PROVE In(<<x>>, S) <=> x \in S
<1>1. DOMAIN <<x>> = {1} /\ <<x>>[1] = x
  OBVIOUS
<1> QED BY <1>1 DEF In

LEMMA InNone == ASSUME NEW S PROVE ~In(<<>>, S)
BY DEF In

LEMMA InConcat ==
  ASSUME NEW T, NEW a \in Seq(T), NEW b \in Seq(T), NEW S
  PROVE  In(a \o b, S) <=> In(a, S) \/ In(b, S)
<1> DEFINE c == a \o b
<1>1. /\ Len(a) \in Nat /\ Len(b) \in Nat /\ DOMAIN a = 1 .. Len(a) /\ DOMAIN b = 1 .. Len(b)
      /\ DOMAIN c = 1 .. (Len(a) + Len(b))
      /\ \A i \in DOMAIN a : c[i] = a[i]
      /\ \A i \in DOMAIN b : c[i + Len(a)] = b[i]
      /\ \A i \in DOMAIN c : i \in DOMAIN a \/ (i - Len(a) \in DOMAIN b /\ c[i] = b[i - Len(a)])
  OBVIOUS
<1> HIDE DEF c
<1>2. ASSUME In(c, S) PROVE In(a, S) \/ In(b, S)
  <2>1. PICK i \in DOMAIN c : c[i] \in S
    BY <1>2 DEF In
  <2> QED BY <1>1, <2>1 DEF In
<1>3. ASSUME In(a, S) PROVE In(c, S)
  <2>1. PICK i \in DOMAIN a : a[i] \in S
    BY <1>3 DEF In
  <2>2. i \in DOMAIN c /\ c[i] \in S
    BY <1>1, <2>1
  <2> QED BY <2>2 DEF In
<1>4. ASSUME In(b, S) PROVE In(c, S)
  <2>1. PICK i \in DOMAIN b : b[i] \in S
    BY <1>4 DEF In
  <2>2. i + Len(a) \in DOMAIN c /\ c[i + Len(a)] \in S
    BY <1>1, <2>1
  <2> QED BY <2>2 DEF In
<1> QED BY <1>2, <1>3, <1>4 DEF c

LEMMA InHead ==
  ASSUME NEW T, NEW p \in Seq(T), p # <<>>, NEW S
  PROVE  In(p, S) <=> Head(p) \in S \/ In(Tail(p), S)
<1> DEFINE q == Tail(p)
<1>1. /\ q \in Seq(T) /\ Head(p) = p[1] /\ 1 \in DOMAIN p
      /\ \A i \in DOMAIN q : i + 1 \in DOMAIN p /\ q[i] = p[i + 1]
      /\ \A i \in DOMAIN p : i = 1 \/ (i - 1 \in DOMAIN q /\ p[i] = q[i - 1])
  OBVIOUS
<1> HIDE DEF q
<1>2. ASSUME In(p, S) PROVE Head(p) \in S \/ In(q, S)
  <2>1. PICK i \in DOMAIN p : p[i] \in S
    BY <1>2 DEF In
  <2> QED BY <1>1, <2>1 DEF In
<1>3. ASSUME Head(p) \in S \/ In(q, S) PROVE In(p, S)
  <2>1. CASE Head(p) \in S
    BY <1>1, <2>1 DEF In
  <2>2. CASE In(q, S)
    <3>1. PICK i \in DOMAIN q : q[i] \in S
      BY <2>2 DEF In
    <3>2. i + 1 \in DOMAIN p /\ p[i + 1] \in S
      BY <1>1, <3>1
    <3> QED BY <3>2 DEF In
  <2> QED BY <1>3, <2>1, <2>2
<1> QED BY <1>2, <1>3 DEF q

LEMMA Lasts ==
  ASSUME NEW T, NEW a \in Seq(T), NEW p \in Seq(T), p # <<>>
  PROVE  /\ (a \o p)[Len(a \o p)] = p[Len(p)]
         /\ Tail(p) # <<>> => Tail(p)[Len(Tail(p))] = p[Len(p)]
         /\ Tail(p) = <<>> <=> Len(p) = 1
         /\ Len(p) = 1 => p[Len(p)] = Head(p)
<1>1. /\ Len(a) \in Nat /\ Len(p) \in Nat /\ Len(p) >= 1 /\ Len(p) \in DOMAIN p
      /\ Len(a \o p) = Len(a) + Len(p) /\ (a \o p)[Len(a) + Len(p)] = p[Len(p)]
  OBVIOUS
<1>2. /\ Tail(p) \in Seq(T) /\ Len(Tail(p)) = Len(p) - 1 /\ Head(p) = p[1]
      /\ \A i \in DOMAIN Tail(p) : Tail(p)[i] = p[i + 1]
  BY HeadTail
<1>3. \A q \in Seq(T) : (q = <<>> <=> Len(q) = 0) /\ (q # <<>> => Len(q) \in DOMAIN q)
  OBVIOUS
<1>4. Tail(p) = <<>> <=> Len(p) = 1
  <2> DEFINE q == Tail(p)
  <2>1. q \in Seq(T) /\ Len(q) = Len(p) - 1
    BY <1>2
  <2> HIDE DEF q
  <2>2. q = <<>> <=> Len(q) = 0
    BY <1>3, <2>1
  <2>3. q = <<>> <=> Len(p) = 1
    BY <1>1, <2>1, <2>2
  <2> QED BY <2>3 DEF q
<1>5. ASSUME Tail(p) # <<>> PROVE Tail(p)[Len(Tail(p))] = p[Len(p)]
  BY <1>1, <1>2, <1>3, <1>5
<1> QED BY <1>1, <1>2, <1>4, <1>5

LEMMA Pair == \A x, y : <<x>> \o <<y>> = <<x, y>>
<1> TAKE x, y
<1> DEFINE a == <<x>>
           b == <<y>>
           c == <<x, y>>
           d == a \o b
<1>1. a \in Seq({x, y}) /\ b \in Seq({x, y}) /\ c \in Seq({x, y})
  OBVIOUS
<1>2. Len(a) = 1 /\ Len(b) = 1 /\ Len(c) = 2 /\ a[1] = x /\ b[1] = y /\ c[1] = x /\ c[2] = y
  OBVIOUS
<1> HIDE DEF a, b, c
<1>3. /\ d \in Seq({x, y}) /\ Len(d) = 2
      /\ d[1] = x /\ d[2] = y
  <2> DEFINE T == {x, y}
  <2>1. \A p, q \in Seq(T) : /\ p \o q \in Seq(T) /\ Len(p \o q) = Len(p) + Len(q)
                             /\ \A i \in 1 .. Len(p) : (p \o q)[i] = p[i]
                             /\ \A i \in 1 .. Len(q) : (p \o q)[Len(p) + i] = q[i]
    OBVIOUS
  <2> HIDE DEF T
  <2>2. a \in Seq(T) /\ b \in Seq(T)
    BY <1>1 DEF T
  <2>3. d \in Seq(T) /\ Len(d) = Len(a) + Len(b)
    BY ONLY <2>1, <2>2
  <2>4. d[1] = a[1]
    BY ONLY <2>1, <2>2, <1>2
  <2>5. d[2] = b[1]
    <3>0. 1 \in 1 .. Len(b) /\ \A i \in 1 .. Len(b) : (a \o b)[Len(a) + i] = b[i]
      BY <2>1, <2>2, <1>2
    <3>1. d[Len(a) + 1] = b[1]
      BY ONLY <3>0
    <3>2. Len(a) + 1 = 2
      BY <1>2
    <3> QED BY <3>1, <3>2
  <2> QED BY <1>2, <2>3, <2>4, <2>5 DEF T
<1> HIDE DEF d
<1>4. \A i \in 1 .. 2 : c[i] = d[i]
  BY <1>2, <1>3
<1>5. c = d
  BY <1>1, <1>2, <1>3, <1>4
<1> QED BY <1>5 DEF a, b, c, d

LEMMA InMembers ==
  ASSUME NEW T, NEW p \in Seq(T), NEW S, T \cap S = {}
  PROVE  ~In(p, S)
<1>1. \A i \in DOMAIN p : p[i] \in T
  OBVIOUS
<1> QED BY <1>1 DEF In

\* What the single steps are.
LEMMA Singles ==
  /\ \A reg \in Registers, v \in Nat : Write(reg, v).do = "write" /\ Write(reg, v).at = reg
  /\ \A r \in Routines, v \in Nat :
       /\ Call(r, v).do = "call" /\ Call(r, v).at = r /\ Call(r, v).arg = v
  /\ \A n \in 0..3 : /\ PassedOver(Step("wait", "agc", 0), n).do = "wait"
                     /\ PassedOver(Step("wait", "agc", 0), n).at = "agc"
  /\ PassedOver(Write("board", 1), 1).do = "write"
  /\ PassedOver(Write("board", 1), 1).at = "board"
  /\ PassedOver(Write("board", 1), 1).arg = 1
BY DEF Write, Call, Step, PassedOver

\* The steps of the calibration write nothing the knobs depend on.
Bare(s) == s.do = "wait" \/ (s.do = "write" /\ s.at = "turbo")

LEMMA BareSteps ==
  /\ ClCal \in Seq({s \in GoodSteps : Bare(s)})
  /\ \A b \in {0, 1} : SetBit("turbo", b) \in Seq({s \in GoodSteps : Bare(s)})
<1> DEFINE T == {s \in GoodSteps : Bare(s)}
<1>1. \A b \in {0, 1} : Write("turbo", b) \in T
  <2>1. "turbo" \in Registers /\ 0 \in Nat /\ 1 \in Nat
    BY DEF Registers
  <2> QED BY <2>1, StepTypes, Singles DEF Bare
<1>2. \A n \in {1, 3} : PassedOver(Step("wait", "agc", 0), n) \in T
  BY StepTypes, Singles DEF Bare
<1>3. \A b \in {0, 1} : SetBit("turbo", b) \in Seq(T)
  BY <1>1, Single DEF SetBit
<1>4. ClCal \in Seq(T)
  <2>1. \A n \in {1, 3} : <<PassedOver(Step("wait", "agc", 0), n)>> \in Seq(T)
    BY <1>2, Single
  <2> HIDE DEF T
  <2> QED BY <1>3, <2>1, Concatenated DEF ClCal
<1> QED BY <1>3, <1>4

\* A step of the calibration ends in no write of the knobs.
LEMMA BareNowhere ==
  ASSUME NEW p \in Seq({s \in GoodSteps : Bare(s)}), NEW S \in DueSets \cup {Widening, TableSteps}
  PROVE  ~In(p, S)
<1>1. {s \in GoodSteps : Bare(s)} \cap S = {}
  BY DEF Bare, DueSets, Widening, TableSteps, SynthBy, ColumnBy, GainBy, BoardBy, Writes
<1> QED BY <1>1, InMembers

\* Which programs end in which writes.
LEMMA ProgramContents ==
  ASSUME TypeOK
  PROVE  /\ \A w \in Widths :
              LET p == SetBandwidth(w) IN
              /\ \A S \in DueSets : In(p, S)
              /\ p[Len(p)] \in ReapplySteps /\ ~In(p, Widening)
         /\ In(ApplyInitvals, ColumnBy) /\ ~In(ApplyInitvals, Widening)
         /\ \A mhz \in Nat :
              LET p == SetChannelAndCal(mhz) IN
              In(p, SynthBy) /\ ~In(p, Widening) /\ ~In(p, TableSteps)
         /\ \A mhz \in Nat :
              LET p == RfSetFreq(mhz) IN
              In(p, SynthBy) /\ ~In(p, Widening) /\ ~In(p, TableSteps)
         /\ In(ReapplyPowerState, GainBy) /\ (CalApplied = 1 => In(ReapplyPowerState, BoardBy))
         /\ ~In(ReapplyPowerState, Widening) /\ ~In(ReapplyPowerState, TableSteps)
         /\ \A v \in Nat :
              LET p == <<Write("gain", v)>> IN
              In(p, GainBy) /\ ~In(p, Widening) /\ ~In(p, TableSteps)
<1> USE DEF Widening, TableSteps, ReapplySteps, SynthBy, ColumnBy, GainBy, BoardBy, Writes
<1>0. /\ {"synth", "turbo", "gain", "board"} \subseteq Registers
      /\ width \in Nat /\ power \in Nat
      /\ Widths \subseteq Nat /\ GoodSteps \subseteq Steps
  BY Parameters DEF Registers, TypeOK, Widths, Levels, GoodSteps
<1>1. \A v \in Nat : In(<<Write("gain", v)>>, GainBy)
                     /\ ~In(<<Write("gain", v)>>, Widening)
                     /\ ~In(<<Write("gain", v)>>, TableSteps)
  BY <1>0, StepTypes, Singles, InOne
<1>2. \A mhz \in Nat : In(RfSetFreq(mhz), SynthBy) /\ ~In(RfSetFreq(mhz), Widening)
                       /\ ~In(RfSetFreq(mhz), TableSteps)
  <2> TAKE mhz \in Nat
  <2> DEFINE v == IF width = 40 THEN mhz + 10 ELSE mhz
  <2>1. v \in Nat /\ RfSetFreq(mhz) = <<Write("synth", v)>>
    BY DEF RfSetFreq
  <2> HIDE DEF v
  <2> QED BY <1>0, <2>1, StepTypes, Singles, InOne
<1>3. \A mhz \in Nat : In(SetChannelAndCal(mhz), SynthBy)
                       /\ ~In(SetChannelAndCal(mhz), Widening)
                       /\ ~In(SetChannelAndCal(mhz), TableSteps)
  <2> TAKE mhz \in Nat
  <2>1. Call("rf_set_freq", mhz) \in GoodSteps /\ "rf_set_freq" \in Routines
    BY StepTypes DEF Routines
  <2>2. ClCal \in Seq(GoodSteps) /\ <<Call("rf_set_freq", mhz)>> \in Seq(GoodSteps)
    <3>1. Seq({s \in GoodSteps : Bare(s)}) \subseteq Seq(GoodSteps)
      OBVIOUS
    <3> QED BY <2>1, <3>1, BareSteps, Single
  <2>3. ~In(ClCal, Widening) /\ ~In(ClCal, TableSteps)
    BY BareSteps, BareNowhere
  <2>4. LET q == <<Call("rf_set_freq", mhz)>> IN
        In(q, SynthBy) /\ ~In(q, Widening) /\ ~In(q, TableSteps)
    BY <1>0, <2>1, Singles, InOne
  <2> QED BY ONLY <2>2, <2>3, <2>4, InConcat DEF SetChannelAndCal
<1>4. In(ApplyInitvals, ColumnBy) /\ ~In(ApplyInitvals, Widening)
  <2> DEFINE q == <<Write("tables", width)>>
             r == SetBit("turbo", IF width = 40 THEN 1 ELSE 0)
  <2>1. Write("tables", width) \in GoodSteps /\ Write("tables", width).do = "write"
        /\ Write("tables", width).at = "tables"
    BY <1>0 DEF GoodSteps, Steps, Step, Places, Write
  <2>2. q \in Seq(GoodSteps) /\ In(q, ColumnBy) /\ ~In(q, Widening)
    BY <1>0, <2>1, InOne, Single
  <2>3. r \in Seq({s \in GoodSteps : Bare(s)})
    BY BareSteps
  <2>4. r \in Seq(GoodSteps)
    BY <2>3
  <2>5. ~In(r, Widening)
    BY <2>3, BareNowhere
  <2>6. ApplyInitvals = q \o r
    BY DEF ApplyInitvals
  <2> HIDE DEF q, r
  <2> QED BY ONLY <2>2, <2>4, <2>5, <2>6, InConcat
<1>5. /\ In(ReapplyPowerState, GainBy) /\ (CalApplied = 1 => In(ReapplyPowerState, BoardBy))
      /\ ~In(ReapplyPowerState, Widening) /\ ~In(ReapplyPowerState, TableSteps)
  <2> DEFINE q == IF CalApplied = 1 THEN <<PassedOver(Write("board", 1), 1)>> ELSE <<>>
             r == <<Call("set_tx_gain_level", power)>>
  <2>1. Call("set_tx_gain_level", power) \in GoodSteps /\ "set_tx_gain_level" \in Routines
    BY <1>0, StepTypes DEF Routines
  <2>2. r \in Seq(GoodSteps) /\ In(r, GainBy) /\ ~In(r, Widening) /\ ~In(r, TableSteps)
    BY <1>0, <2>1, Singles, InOne, Single
  <2>3. q \in Seq(GoodSteps)
    BY StepTypes, Single, Empty
  <2>4. (CalApplied = 1 => In(q, BoardBy)) /\ ~In(q, Widening) /\ ~In(q, TableSteps)
    <3>1. CASE CalApplied = 1
      BY <1>0, <3>1, StepTypes, Singles, InOne
    <3>2. CASE CalApplied # 1
      BY <3>2, InNone
    <3> QED BY <3>1, <3>2
  <2>5. ReapplyPowerState = q \o r
    BY DEF ReapplyPowerState
  <2> HIDE DEF q, r
  <2> QED BY ONLY <2>2, <2>3, <2>4, <2>5, InConcat
<1>6. ASSUME NEW w \in Widths
      PROVE  LET p == SetBandwidth(w) IN
             /\ \A S \in DueSets : In(p, S)
             /\ p[Len(p)] \in ReapplySteps /\ ~In(p, Widening)
  <2> DEFINE a == <<Call("apply_initvals", 0)>>
             b == <<Call("retune", 0)>>
             c == IF w = 40 THEN SetBit("turbo", 1) ELSE <<>>
             d == <<Call("reapply_power_state", 0)>>
  <2>1. /\ {"apply_initvals", "retune", "reapply_power_state"} \subseteq Routines \ {"set_bandwidth"}
        /\ 0 \in Nat
    BY DEF Routines
  <2>2. /\ Call("apply_initvals", 0) \in GoodSteps /\ Call("retune", 0) \in GoodSteps
        /\ Call("reapply_power_state", 0) \in GoodSteps
    BY <2>1, StepTypes
  <2>3. a \in Seq(GoodSteps) /\ b \in Seq(GoodSteps) /\ d \in Seq(GoodSteps)
    BY <2>2, Single
  <2>4. In(a, ColumnBy) /\ ~In(a, Widening)
    BY <1>0, <2>1, <2>2, Singles, InOne
  <2>5. In(b, SynthBy) /\ ~In(b, Widening)
    BY <1>0, <2>1, <2>2, Singles, InOne
  <2>6. In(d, GainBy) /\ In(d, BoardBy) /\ ~In(d, Widening) /\ d[Len(d)] \in ReapplySteps
    <3>1. Call("reapply_power_state", 0) \in ReapplySteps
      BY <1>0, <2>1, <2>2, Singles
    <3>2. d[Len(d)] = Call("reapply_power_state", 0)
      OBVIOUS
    <3> QED BY <1>0, <2>1, <2>2, <3>1, <3>2, Singles, InOne
  <2>7. c \in Seq(GoodSteps) /\ ~In(c, Widening)
    <3>1. CASE w = 40
      <4>1. c \in Seq({s \in GoodSteps : Bare(s)})
        BY <3>1, BareSteps
      <4>2. c \in Seq(GoodSteps)
        BY <4>1
      <4> QED BY <4>1, <4>2, BareNowhere
    <3>2. CASE w # 40
      BY <3>2, InNone, Empty
    <3> QED BY <3>1, <3>2
  <2>8. SetBandwidth(w) = ((a \o b) \o c) \o d
    <3>1. a \o b = <<Call("apply_initvals", 0), Call("retune", 0)>>
      BY ONLY Pair
    <3> QED BY <3>1 DEF SetBandwidth
  <2>9. d # <<>>
    OBVIOUS
  <2> HIDE DEF a, b, c, d
  <2>10. a \o b \in Seq(GoodSteps) /\ (a \o b) \o c \in Seq(GoodSteps)
    BY <2>3, <2>7, Concatenated
  <2>11. \A S : In(SetBandwidth(w), S) <=> In(a, S) \/ In(b, S) \/ In(c, S) \/ In(d, S)
    <3> TAKE S
    <3>1. In(a \o b, S) <=> In(a, S) \/ In(b, S)
      BY ONLY <2>3, InConcat
    <3>2. In((a \o b) \o c, S) <=> In(a \o b, S) \/ In(c, S)
      BY ONLY <2>7, <2>10, InConcat
    <3>3. In(((a \o b) \o c) \o d, S) <=> In((a \o b) \o c, S) \/ In(d, S)
      BY ONLY <2>3, <2>10, InConcat
    <3> QED BY ONLY <2>8, <3>1, <3>2, <3>3
  <2>12. \A S \in DueSets : In(SetBandwidth(w), S)
    BY ONLY <2>4, <2>5, <2>6, <2>11 DEF DueSets
  <2>13. ~In(SetBandwidth(w), Widening)
    BY ONLY <2>4, <2>5, <2>6, <2>7, <2>11
  <2>14. SetBandwidth(w)[Len(SetBandwidth(w))] = d[Len(d)]
    BY ONLY <2>3, <2>8, <2>9, <2>10, Lasts
  <2> QED BY <2>6, <2>12, <2>13, <2>14
<1> QED BY <1>1, <1>2, <1>3, <1>4, <1>5, <1>6
\* A program whose head has been replaced by the steps of a routine, or by none.
LEMMA Expanded ==
  ASSUME NEW p \in Seq(Steps), p # <<>>, NEW steps \in Seq(Steps),
         LastReapplies(p), Alone(p), ~In(steps, Widening),
         In(steps, TableSteps) => Head(p) \in TableSteps
  PROVE  /\ LastReapplies(steps \o Tail(p)) /\ Alone(steps \o Tail(p))
         /\ \A S : In(p, S) /\ (Head(p) \in S => In(steps, S)) => In(steps \o Tail(p), S)
<1> DEFINE q == Tail(p)
           r == steps \o q
<1>1. q \in Seq(Steps) /\ r \in Seq(Steps)
  BY HeadTail, Concatenated
<1>2. \A S : In(p, S) <=> Head(p) \in S \/ In(q, S)
  BY InHead
<1>3. \A S : In(r, S) <=> In(steps, S) \/ In(q, S)
  <2> HIDE DEF q
  <2> QED BY ONLY <1>1, InConcat, steps \in Seq(Steps) DEF r
<1>4. ASSUME q # <<>> PROVE r[Len(r)] = p[Len(p)]
  <2>1. q[Len(q)] = p[Len(p)]
    BY <1>4, Lasts, Empty
  <2>2. r[Len(r)] = q[Len(q)]
    <3> HIDE DEF q
    <3> QED BY ONLY <1>1, <1>4, Lasts, steps \in Seq(Steps) DEF r
  <2> QED BY <2>1, <2>2
<1>5. (q = <<>> <=> Len(p) = 1) /\ (Len(p) = 1 => p[Len(p)] = Head(p))
  BY Lasts, Empty
<1>6. TableSteps \cap ReapplySteps = {}
  BY DEF TableSteps, ReapplySteps, Writes
<1> HIDE DEF q, r
<1>7. LastReapplies(r)
  <2> SUFFICES ASSUME In(r, TableSteps) PROVE r[Len(r)] \in ReapplySteps
    BY DEF LastReapplies
  <2>1. In(p, TableSteps)
    BY <1>2, <1>3
  <2>2. p[Len(p)] \in ReapplySteps
    BY <2>1 DEF LastReapplies
  <2>3. q # <<>>
    <3> SUFFICES ASSUME q = <<>> PROVE FALSE
      OBVIOUS
    <3>1. ~In(q, TableSteps)
      BY InNone
    <3>2. Head(p) \in TableSteps
      BY <1>3, <3>1
    <3> QED BY <1>5, <1>6, <2>2, <3>2
  <2> QED BY <1>4, <2>2, <2>3
<1>8. ~In(r, Widening)
  <2> SUFFICES ASSUME In(r, Widening) PROVE FALSE
    OBVIOUS
  <2>1. In(q, Widening)
    BY <1>3
  <2>2. Len(p) = 1
    BY <1>2, <2>1 DEF Alone
  <2>3. q = <<>>
    BY <1>5, <2>2
  <2> QED BY <2>1, <2>3, InNone
<1>9. \A S : In(p, S) /\ (Head(p) \in S => In(steps, S)) => In(r, S)
  BY <1>2, <1>3
<1> QED BY <1>7, <1>8, <1>9 DEF Alone, q, r

\* What the clock reads is none of the knobs.
LEMMA ClockStepsApart ==
  /\ \A S \in DueSets \cup {Widening, TableSteps} : ClockSteps \cap S = {}
  /\ \A p \in Seq(ClockSteps) :
       LastReapplies(p) /\ Alone(p) /\ \A S \in DueSets : ~In(p, S)
  /\ \A c, w, v : ClockSteps \subseteq RightSteps(c, w, v)
<1>1. \A S \in DueSets \cup {Widening, TableSteps} : ClockSteps \cap S = {}
  BY DEF ClockSteps, DueSets, Widening, TableSteps, SynthBy, ColumnBy, GainBy, BoardBy, Writes
<1>2. \A p \in Seq(ClockSteps), S \in DueSets \cup {Widening, TableSteps} : ~In(p, S)
  BY <1>1, InMembers
<1>3. \A c, w, v : ClockSteps \subseteq RightSteps(c, w, v)
  BY DEF ClockSteps, RightSteps
<1> QED BY <1>1, <1>2, <1>3 DEF LastReapplies, Alone

\* A single step that is right.
LEMMA RightSingles ==
  ASSUME NEW c \in Nat, NEW w \in Widths, NEW p \in Nat
  PROVE  /\ Mhz(c) \in Nat /\ Centre(c, w) \in Nat
         /\ {s \in GoodSteps : Bare(s)} \subseteq RightSteps(c, w, p)
         /\ Write("synth", Centre(c, w)) \in RightSteps(c, w, p)
         /\ Write("tables", w) \in RightSteps(c, w, p)
         /\ Write("gain", p) \in RightSteps(c, w, p)
         /\ CalApplied = 1 => PassedOver(Write("board", 1), 1) \in RightSteps(c, w, p)
         /\ Call("rf_set_freq", Mhz(c)) \in RightSteps(c, w, p)
         /\ Call("set_tx_gain_level", p) \in RightSteps(c, w, p)
         /\ \A v \in Widths : Call("set_bandwidth", v) \in RightSteps(c, w, p)
         /\ \A r \in {"apply_initvals", "retune", "reapply_power_state"}, v \in Nat :
              Call(r, v) \in RightSteps(c, w, p)
<1>0. w \in Nat /\ {"synth", "gain", "board"} \subseteq Registers
      /\ {"rf_set_freq", "set_tx_gain_level", "apply_initvals", "retune",
          "reapply_power_state", "set_bandwidth"} \subseteq Routines
  BY DEF Widths, Registers, Routines
<1>1. Mhz(c) \in Nat /\ Centre(c, w) \in Nat
  BY DEF Mhz, Centre
<1>2. {s \in GoodSteps : Bare(s)} \subseteq RightSteps(c, w, p)
  BY DEF Bare, RightSteps
<1>3. Write("synth", Centre(c, w)) \in RightSteps(c, w, p)
  BY <1>0, <1>1, StepTypes DEF RightSteps, Write, Step
<1>4. Write("tables", w) \in RightSteps(c, w, p)
  <2>1. Write("tables", w) \in GoodSteps
    BY <1>0 DEF GoodSteps, Steps, Step, Places, Write
  <2> QED BY <2>1 DEF RightSteps, Write, Step
<1>5. Write("gain", p) \in RightSteps(c, w, p)
  BY <1>0, StepTypes DEF RightSteps, Write, Step
<1>6. CalApplied = 1 => PassedOver(Write("board", 1), 1) \in RightSteps(c, w, p)
  BY <1>0, StepTypes, Singles DEF RightSteps
<1>7. Call("rf_set_freq", Mhz(c)) \in RightSteps(c, w, p)
  BY <1>0, <1>1, StepTypes DEF RightSteps, Call, Step
<1>8. Call("set_tx_gain_level", p) \in RightSteps(c, w, p)
  BY <1>0, StepTypes DEF RightSteps, Call, Step
<1>9. \A v \in Widths : Call("set_bandwidth", v) \in RightSteps(c, w, p)
  BY <1>0, StepTypes DEF RightSteps, Call, Step
<1>10. \A r \in {"apply_initvals", "retune", "reapply_power_state"}, v \in Nat :
         Call(r, v) \in RightSteps(c, w, p)
  BY <1>0, StepTypes DEF RightSteps, Call, Step
<1> QED BY <1>1, <1>2, <1>3, <1>4, <1>5, <1>6, <1>7, <1>8, <1>9, <1>10

\* The routines of the moment are right for the mirrors of the moment.
LEMMA RightRoutines ==
  ASSUME TypeOK
  PROVE  LET R == RightSteps(channel, width, power) IN
         /\ ApplyInitvals \in Seq(R) /\ ReapplyPowerState \in Seq(R)
         /\ SetChannelAndCal(Mhz(channel)) \in Seq(R) /\ RfSetFreq(Mhz(channel)) \in Seq(R)
         /\ <<Write("gain", power)>> \in Seq(R)
<1> DEFINE R == RightSteps(channel, width, power)
<1>0. channel \in Nat /\ width \in Widths /\ power \in Nat
  BY Parameters DEF TypeOK, Levels
<1>1. ClCal \in Seq(R) /\ \A b \in {0, 1} : SetBit("turbo", b) \in Seq(R)
  <2> DEFINE T == {s \in GoodSteps : Bare(s)}
  <2>1. T \subseteq R
    BY <1>0, RightSingles
  <2>2. Seq(T) \subseteq Seq(R)
    <3> HIDE DEF T, R
    <3> QED BY <2>1
  <2> QED BY <2>2, BareSteps
<1>2. /\ Write("tables", width) \in R /\ Call("set_tx_gain_level", power) \in R
      /\ Call("rf_set_freq", Mhz(channel)) \in R /\ Write("gain", power) \in R
      /\ Write("synth", Centre(channel, width)) \in R
      /\ CalApplied = 1 => PassedOver(Write("board", 1), 1) \in R
  BY <1>0, RightSingles
<1> HIDE DEF R
<1>3. ApplyInitvals \in Seq(R)
  BY <1>1, <1>2, Single, Concatenated DEF ApplyInitvals
<1>4. ReapplyPowerState \in Seq(R)
  <2>1. (IF CalApplied = 1 THEN <<PassedOver(Write("board", 1), 1)>> ELSE <<>>) \in Seq(R)
    BY <1>2, Single, Empty
  <2> QED BY <1>2, <2>1, Single, Concatenated DEF ReapplyPowerState
<1>5. SetChannelAndCal(Mhz(channel)) \in Seq(R)
  BY <1>1, <1>2, Single, Concatenated DEF SetChannelAndCal
<1>6. RfSetFreq(Mhz(channel)) \in Seq(R)
  <2>1. RfSetFreq(Mhz(channel)) = <<Write("synth", Centre(channel, width))>>
    BY <1>0 DEF RfSetFreq, Centre, Mhz
  <2> QED BY <1>2, <2>1, Single
<1>7. <<Write("gain", power)>> \in Seq(R)
  BY <1>2, Single
<1> QED BY <1>3, <1>4, <1>5, <1>6, <1>7 DEF R

\* set_bandwidth's steps are right whatever the mirrors.
LEMMA RightBandwidth ==
  ASSUME NEW c \in Nat, NEW w \in Widths, NEW p \in Nat, NEW v \in Widths
  PROVE  SetBandwidth(v) \in Seq(RightSteps(c, w, p))
<1> DEFINE R == RightSteps(c, w, p)
<1>1. \A r \in {"apply_initvals", "retune", "reapply_power_state"} : Call(r, 0) \in R
  BY RightSingles
<1>2. (IF v = 40 THEN SetBit("turbo", 1) ELSE <<>>) \in Seq(R)
  <2> DEFINE T == {s \in GoodSteps : Bare(s)}
  <2>1. T \subseteq R
    BY RightSingles
  <2>2. Seq(T) \subseteq Seq(R)
    <3> HIDE DEF T, R
    <3> QED BY <2>1
  <2>3. SetBit("turbo", 1) \in Seq(T)
    BY BareSteps
  <2>4. SetBit("turbo", 1) \in Seq(R)
    BY <2>2, <2>3
  <2> QED BY <2>4, Empty
<1> HIDE DEF R
<1>3. <<Call("apply_initvals", 0), Call("retune", 0)>> \in Seq(R)
  BY <1>1
<1> QED BY <1>1, <1>2, <1>3, Single, Concatenated DEF SetBandwidth, R

LEMMA ClockPrograms ==
  /\ ReadClock \in Seq(ClockSteps) /\ <<Read("lo")>> \in Seq(ClockSteps)
  /\ \A p \in Seq(ClockSteps) : p # <<>> =>
       /\ Tail(p) \in Seq(ClockSteps) /\ PassOver(p) \in Seq(ClockSteps)
       /\ Head(p).do # "write"
       /\ Head(p).do = "call" => Head(p).at = "clock_words"
<1>1. Read("hi") \in ClockSteps /\ Read("lo") \in ClockSteps /\ Call("clock_words", 0) \in ClockSteps
  <2>1. Read("hi") \in GoodSteps /\ Read("lo") \in GoodSteps /\ Call("clock_words", 0) \in GoodSteps
    BY StepTypes DEF Routines
  <2> QED BY <2>1 DEF ClockSteps, Read, Call, Step
<1>2. ReadClock \in Seq(ClockSteps)
  <2> DEFINE T == ClockSteps
  <2>1. Read("hi") \in T /\ Read("lo") \in T /\ Call("clock_words", 0) \in T
    BY <1>1
  <2> HIDE DEF T
  <2>2. ReadClock \in Seq(T)
    BY <2>1 DEF ReadClock
  <2> QED BY <2>2 DEF T
<1>3. ASSUME NEW p \in Seq(ClockSteps), p # <<>>
      PROVE  /\ Tail(p) \in Seq(ClockSteps) /\ PassOver(p) \in Seq(ClockSteps)
             /\ Head(p).do # "write"
             /\ Head(p).do = "call" => Head(p).at = "clock_words"
  <2>1. Head(p) \in ClockSteps /\ Tail(p) \in Seq(ClockSteps)
    BY <1>3, HeadTail
  <2>2. Head(p).over \in Nat
    BY <2>1 DEF ClockSteps, GoodSteps, Steps
  <2>3. PassOver(p) \in Seq(ClockSteps)
    BY <1>3, <2>2, Suffix DEF PassOver
  <2>4. Head(p).do # "write" /\ (Head(p).do = "call" => Head(p).at = "clock_words")
    BY <2>1 DEF ClockSteps
  <2> QED BY <2>1, <2>3, <2>4
<1> QED BY <1>1, <1>2, <1>3, Single

\* What a command that fails leaves of its thread.
LEMMA FailedProgram ==
  ASSUME TypeOK, NEW t \in Threads, CommandFails(t)
  PROVE  /\ \/ todo' = [todo EXCEPT ![t] = PassOver(todo[t])] /\ op' = op
            \/ todo' = [todo EXCEPT ![t] = <<>>] /\ op' = [op EXCEPT ![t] = "none"]
         /\ failed' = failed \cup {t} /\ lock' = "nobody"
         /\ UNCHANGED <<mirrors, chip, asked>>
BY DEF CommandFails, Forget

\* What a command that succeeds leaves of its thread.
LEMMA DoneProgram ==
  ASSUME TypeOK, NEW t \in Threads, NEW m, CommandSucceeds(t, m)
  PROVE  /\ \/ /\ todo' = [todo EXCEPT ![t] = PassOver(todo[t])]
               /\ failed' = failed \cup {t}
            \/ /\ todo' = [todo EXCEPT ![t] = Tail(todo[t])]
               /\ failed' = failed
         /\ op' = op /\ lock' = "nobody"
         /\ UNCHANGED <<mirrors, chip, asked>>
BY DEF CommandSucceeds, history

LEMMA ReadsKept ==
  ASSUME TypeOK, OnlyReads, NEW t \in Threads,
         \A u \in Threads \ {t} : todo'[u] = todo[u] /\ op'[u] = op[u],
         op'[t] \notin {"tune", "power"} => todo'[t] \in Seq(ClockSteps)
  PROVE  OnlyReads'
BY DEF OnlyReads

LEMMA CallsReads ==
  ASSUME TypeOK, OnlyReads, NEW t \in Threads, Calls(t)
  PROVE  OnlyReads'
<1>1. ASSUME NEW name, NEW steps, Begin(t, name, steps),
             name \in {"tune", "power"} \/ steps \in Seq(ClockSteps)
      PROVE  OnlyReads'
  <2>1. op' = [op EXCEPT ![t] = name] /\ todo' = [todo EXCEPT ![t] = steps]
    BY <1>1 DEF Begin
  <2>2. /\ \A u \in Threads \ {t} : todo'[u] = todo[u] /\ op'[u] = op[u]
        /\ op'[t] = name /\ todo'[t] = steps
    BY <2>1 DEF TypeOK
  <2> QED BY <1>1, <2>2, ReadsKept
<1>2. ASSUME NEW c \in Channels, NEW w \in Widths, SetChannel(t, c, w)
      PROVE  OnlyReads'
  BY <1>1, <1>2 DEF SetChannel
<1>3. ASSUME NEW level \in Levels, SetTxPower(t, level)
      PROVE  OnlyReads'
  BY <1>1, <1>3 DEF SetTxPower
<1>4. CASE ReadClockCall(t)
  BY <1>1, <1>4, ClockPrograms DEF ReadClockCall
<1> QED BY <1>2, <1>3, <1>4 DEF Calls

LEMMA EnterReads ==
  ASSUME TypeOK, OnlyReads, NEW t \in Threads, EnterSetBandwidth(t) \/ EnterRoutine(t)
  PROVE  OnlyReads'
<1>1. PICK steps : Enter(t, steps)
  BY DEF EnterSetBandwidth, EnterRoutine
<1>2. op' = op /\ todo' = [todo EXCEPT ![t] = steps \o Tail(todo[t])]
  BY <1>1 DEF Enter
<1>3. ASSUME op[t] \notin {"tune", "power"} PROVE todo'[t] \in Seq(ClockSteps)
  <2>1. todo[t] \in Seq(ClockSteps)
    BY <1>3 DEF OnlyReads
  <2>2. todo[t] # <<>> /\ Head(todo[t]).do = "call"
    BY DEF EnterSetBandwidth, EnterRoutine, Reached
  <2>3. Head(todo[t]).at = "clock_words" /\ Tail(todo[t]) \in Seq(ClockSteps)
    BY <2>1, <2>2, ClockPrograms
  <2>4. Enter(t, IF got[t][1] = got[t][3] THEN <<>> ELSE <<Read("lo")>>)
    BY <2>3 DEF EnterSetBandwidth, EnterRoutine, Reached
  <2>5. (IF got[t][1] = got[t][3] THEN <<>> ELSE <<Read("lo")>>) \in Seq(ClockSteps)
    BY ClockPrograms, Empty
  <2>6. todo'[t] = (IF got[t][1] = got[t][3] THEN <<>> ELSE <<Read("lo")>>) \o Tail(todo[t])
    BY <2>4 DEF Enter, TypeOK
  <2> QED BY <2>3, <2>5, <2>6, Concatenated
<1>4. \A u \in Threads \ {t} : todo'[u] = todo[u] /\ op'[u] = op[u]
  BY <1>2 DEF TypeOK
<1>5. op'[t] = op[t]
  BY <1>2
<1> QED BY <1>3, <1>4, <1>5, ReadsKept

\* A command that ends leaves a rest of its program, or nothing.
LEMMA CommandReads ==
  ASSUME TypeOK, OnlyReads, NEW t \in Threads, todo[t] # <<>>,
         CommandFails(t) \/ \E m : CommandSucceeds(t, m)
  PROVE  OnlyReads'
<1>1. \/ todo' = [todo EXCEPT ![t] = PassOver(todo[t])] /\ op' = op
      \/ todo' = [todo EXCEPT ![t] = Tail(todo[t])] /\ op' = op
      \/ todo' = [todo EXCEPT ![t] = <<>>] /\ op' = [op EXCEPT ![t] = "none"]
  BY FailedProgram, DoneProgram
<1>2. \A u \in Threads \ {t} : todo'[u] = todo[u] /\ op'[u] = op[u]
  BY <1>1 DEF TypeOK
<1>3. ASSUME op'[t] \notin {"tune", "power"} PROVE todo'[t] \in Seq(ClockSteps)
  <2>1. CASE todo' = [todo EXCEPT ![t] = <<>>]
    BY <2>1, Empty DEF TypeOK
  <2>2. CASE op' = op /\ todo' = [todo EXCEPT ![t] = PassOver(todo[t])]
    <3>1. todo[t] \in Seq(ClockSteps) /\ todo'[t] = PassOver(todo[t])
      BY <1>3, <2>2 DEF OnlyReads, TypeOK
    <3> QED BY <3>1, ClockPrograms
  <2>3. CASE op' = op /\ todo' = [todo EXCEPT ![t] = Tail(todo[t])]
    <3>1. todo[t] \in Seq(ClockSteps) /\ todo'[t] = Tail(todo[t])
      BY <1>3, <2>3 DEF OnlyReads, TypeOK
    <3> QED BY <3>1, ClockPrograms
  <2> QED BY <1>1, <2>1, <2>2, <2>3
<1> QED BY <1>2, <1>3, ReadsKept

LEMMA NextReads == TypeOK /\ Turns /\ OnlyReads /\ [Next]_vars => OnlyReads'
<1> SUFFICES ASSUME TypeOK, Turns, OnlyReads, [Next]_vars PROVE OnlyReads'
  OBVIOUS
<1>0. ASSUME todo' = todo, op' = op PROVE OnlyReads'
  BY <1>0 DEF OnlyReads
<1>1. ASSUME NEW t \in Threads, Calls(t) \/ Works(t) \/ SendFails(t)
      PROVE  OnlyReads'
  <2>1. CASE Calls(t)
    BY <2>1, CallsReads
  <2>2. CASE SendFails(t)
    BY <2>2, CommandReads DEF SendFails
  <2>3. CASE EnterSetBandwidth(t) \/ EnterRoutine(t)
    BY <2>3, EnterReads
  <2>4. CASE Return(t)
    <3>1. op' = [op EXCEPT ![t] = "none"] /\ todo' = [todo EXCEPT ![t] = <<>>]
      BY <2>4 DEF Return, Forget
    <3>2. /\ \A u \in Threads \ {t} : todo'[u] = todo[u] /\ op'[u] = op[u]
          /\ todo'[t] = <<>>
      BY <3>1 DEF TypeOK
    <3> QED BY <3>2, ReadsKept, Empty
  <2>5. CASE Send(t)
    BY <1>0, <2>5 DEF Send
  <2>6. CASE Receive(t)
    <3>1. todo[t] # <<>>
      BY <2>6 DEF Receive, Turns
    <3>2. (todo' = todo /\ op' = op) \/ CommandFails(t) \/ \E m : CommandSucceeds(t, m)
      BY <2>6 DEF Receive, Skip
    <3> QED BY <1>0, <3>1, <3>2, CommandReads
  <2>7. CASE Timeout(t)
    <3>1. todo[t] # <<>> /\ CommandFails(t)
      BY <2>7 DEF Timeout, Turns
    <3> QED BY <3>1, CommandReads
  <2> QED BY <1>1, <2>1, <2>2, <2>3, <2>4, <2>5, <2>6, <2>7 DEF Works
<1>2. CASE Target
  BY <1>0, <1>2 DEF Target, TargetServes, TargetDrops, TargetEvent, Damaged
<1>3. CASE Tick
  BY <1>0, <1>3 DEF Tick
<1>4. CASE UNCHANGED vars
  BY <1>0, <1>4 DEF vars
<1> QED BY <1>1, <1>2, <1>3, <1>4 DEF Next

\* A thread that does not tune only reads.
LEMMA Reader ==
  ASSUME TypeOK, Turns, OnlyReads, NEW u \in Threads, ~Tunes(u)
  PROVE  todo[u] \in Seq(ClockSteps)
<1>1. op[u] \notin {"tune", "power"}
  BY DEF Turns, TypeOK, Tunes
<1> QED BY <1>1 DEF OnlyReads

LEMMA Tuner ==
  ASSUME TypeOK, Turns, OnlyReads, NEW u \in Threads, op[u] \in {"tune", "power"}
  PROVE  Tunes(u)
BY DEF Turns, TypeOK, Tunes

\* What is due when one thread's program changes.
LEMMA DueMoved ==
  ASSUME TypeOK, NEW t \in Threads, NEW p, todo' = [todo EXCEPT ![t] = p], NEW S
  PROVE  /\ Due(S) => In(todo[t], S) \/ Due(S)'
         /\ In(p, S) => Due(S)'
<1>1. todo'[t] = p /\ \A u \in Threads \ {t} : todo'[u] = todo[u]
  BY DEF TypeOK
<1>2. ASSUME NEW u \in Threads, In(todo[u], S), u # t PROVE \E v \in Threads : In(todo'[v], S)
  BY <1>1, <1>2
<1> QED BY <1>1, <1>2 DEF Due

LEMMA ProgramsMoved ==
  ASSUME TypeOK, Programs, UNCHANGED mirrors, NEW t \in Threads, NEW p,
         todo' = [todo EXCEPT ![t] = p],
         p \in Seq(RightSteps(channel, width, power)), LastReapplies(p), Alone(p)
  PROVE  Programs'
<1>1. todo'[t] = p /\ \A u \in Threads \ {t} : todo'[u] = todo[u]
  BY DEF TypeOK
<1>2. channel' = channel /\ width' = width /\ power' = power
  BY DEF mirrors
<1>3. \A u \in Threads : /\ todo'[u] \in Seq(RightSteps(channel, width, power))
                         /\ LastReapplies(todo'[u]) /\ Alone(todo'[u])
  BY <1>1 DEF Programs
<1>4. \A u \in Threads : /\ todo'[u] \in Seq(RightSteps(channel', width', power'))
                         /\ LastReapplies(todo'[u]) /\ Alone(todo'[u])
  BY <1>2, <1>3
<1> QED BY ONLY <1>4 DEF Programs, LastReapplies, Alone

\* What stays due keeps the registers settled.
LEMMA SettledMoved ==
  ASSUME TypeOK, Settled, UNCHANGED <<mirrors, chip, asked>>, NEW t \in Threads, NEW p,
         todo' = [todo EXCEPT ![t] = p],
         In(todo[t], SynthBy) => In(p, SynthBy) \/ chip.synth = Centre(channel, width),
         In(todo[t], ColumnBy) => In(p, ColumnBy) \/ chip.column = width,
         In(todo[t], GainBy) => In(p, GainBy) \/ (asked # -1 => chip.gain = asked),
         In(todo[t], BoardBy) => In(p, BoardBy) \/ chip.board = CalApplied
  PROVE  Settled'
<1>1. \A S : (Due(S) => In(todo[t], S) \/ Due(S)') /\ (In(p, S) => Due(S)')
  BY DueMoved
<1>2. channel' = channel /\ width' = width /\ power' = power /\ chip' = chip /\ asked' = asked
  BY DEF mirrors
<1>3. /\ chip.synth = Centre(channel, width) \/ Due(SynthBy)'
      /\ chip.column = width \/ Due(ColumnBy)'
      /\ (asked # -1 => chip.gain = asked) \/ Due(GainBy)'
      /\ chip.board = CalApplied \/ Due(BoardBy)'
      /\ CalApplied = 0 => chip.board = 0
      /\ asked # -1 => power = asked
  BY <1>1 DEF Settled
<1>4. Centre(channel', width') = Centre(channel, width)
  BY <1>2
<1> QED BY <1>2, <1>3, <1>4 DEF Settled

\* With the mutex free nothing that has been answered is of interest.
LEMMA EffectsFree ==
  ASSUME LineInv', lock' = "nobody"
  PROVE  Effects'
BY DEF LineInv, Owners, Effects

\* Only a thread that waits has been answered.
LEMMA EffectsKept ==
  ASSUME TypeOK, LineInv, Effects, in' = in, chip' = chip,
         \A u \in Threads : pc[u] = "wait" => todo'[u] = todo[u]
  PROVE  Effects'
<1>1. ASSUME NEW a \in DOMAIN in', in'[a].by # "nobody",
             Head(todo'[in'[a].by]).do = "write"
      PROVE  InEffect(chip', Head(todo'[in'[a].by]))
  <2>1. in'[a] = in[a] /\ a \in DOMAIN in
    OBVIOUS
  <2>2. in[a].by = lock /\ in[a].by \in Threads
    BY <1>1, <2>1 DEF LineInv, Owners, TypeOK
  <2>3. todo'[in[a].by] = todo[in[a].by]
    BY <2>2 DEF TypeOK
  <2>4. InEffect(chip, Head(todo[in[a].by]))
    BY <1>1, <2>1, <2>3 DEF Effects
  <2> QED BY <2>1, <2>3, <2>4 DEF InEffect
<1> QED BY <1>1 DEF Effects

\* A thread that runs changes its program.
LEMMA RunningMoves ==
  ASSUME TypeOK, LineInv, Programs, NoStaleWrite, Effects, UNCHANGED <<mirrors, chip, in, out>>,
         NEW t \in Threads, pc[t] # "wait", NEW p, todo' = [todo EXCEPT ![t] = p],
         p \in Seq(RightSteps(channel, width, power)), LastReapplies(p), Alone(p)
  PROVE  Programs' /\ NoStaleWrite' /\ Effects'
<1>1. Programs'
  BY ProgramsMoved
<1>2. NoStaleWrite'
  BY DEF NoStaleWrite
<1>3. \A u \in Threads : pc[u] = "wait" => todo'[u] = todo[u]
  BY DEF TypeOK
<1>4. Effects'
  BY <1>3, EffectsKept
<1> QED BY <1>1, <1>2, <1>4

\* The tuning thread moves, the mirrors with it: the others only read.
LEMMA TunerMoves ==
  ASSUME OneTuner, TypeOK, Turns, LineInv, OnlyReads, NoStaleWrite, Effects,
         UNCHANGED <<chip, in, out>>, NEW t \in Threads, Tunes(t), pc[t] # "wait",
         NEW p, todo' = [todo EXCEPT ![t] = p],
         p \in Seq(RightSteps(channel', width', power')), LastReapplies(p), Alone(p)
  PROVE  Programs' /\ NoStaleWrite' /\ Effects'
<1>1. todo'[t] = p /\ \A u \in Threads \ {t} : todo'[u] = todo[u]
  BY DEF TypeOK
<1>2. ASSUME NEW u \in Threads
      PROVE  /\ todo'[u] \in Seq(RightSteps(channel', width', power'))
             /\ LastReapplies(todo'[u]) /\ Alone(todo'[u])
  <2>1. CASE u = t
    BY <1>1, <2>1
  <2>2. CASE u # t
    <3>1. todo'[u] \in Seq(ClockSteps)
      BY <1>1, <2>2, Reader DEF OneTuner
    <3>2. ClockSteps \subseteq RightSteps(channel', width', power')
      BY ClockStepsApart
    <3>3. Seq(ClockSteps) \subseteq Seq(RightSteps(channel', width', power'))
      BY <3>2
    <3> QED BY <3>1, <3>3, ClockStepsApart
  <2> QED BY <2>1, <2>2
<1>3. Programs'
  BY ONLY <1>2 DEF Programs, LastReapplies, Alone
<1>4. NoStaleWrite'
  BY DEF NoStaleWrite
<1>5. \A u \in Threads : pc[u] = "wait" => todo'[u] = todo[u]
  BY <1>1
<1>6. Effects'
  BY <1>5, EffectsKept
<1> QED BY <1>3, <1>4, <1>6

\* While the tuning thread is idle every register is as it should be.
LEMMA IdleIsSettled ==
  ASSUME OneTuner, TypeOK, Turns, OnlyReads, Settled, NEW t \in Threads, Tunes(t),
         pc[t] = "idle"
  PROVE  /\ chip.synth = Centre(channel, width) /\ chip.column = width
         /\ asked # -1 => chip.gain = asked
         /\ chip.board = CalApplied
<1>1. ASSUME NEW u \in Threads, NEW S \in DueSets PROVE ~In(todo[u], S)
  <2>1. CASE u = t
    BY <2>1, InNone DEF Turns
  <2>2. CASE u # t
    BY <2>2, Reader, ClockStepsApart DEF OneTuner
  <2> QED BY <2>1, <2>2
<1>2. \A S \in DueSets : ~Due(S)
  BY <1>1 DEF Due
<1>3. ~Due(SynthBy) /\ ~Due(ColumnBy) /\ ~Due(GainBy) /\ ~Due(BoardBy)
  BY <1>2 DEF DueSets
<1> QED BY <1>3 DEF Settled

LEMMA SetChannelKnobs ==
  ASSUME OneTuner, TypeOK, Turns, LineInv, OnlyReads, KnobsInv, AllWell,
         NEW t \in Threads, NEW c \in Channels, NEW w \in Widths, SetChannel(t, c, w)
  PROVE  Programs' /\ NoStaleWrite' /\ Effects' /\ Settled'
<1>1. Programs /\ NoStaleWrite /\ Effects /\ Settled
  BY DEF KnobsInv
<1>2. /\ pc[t] = "idle" /\ "tune" \in Ops[t] /\ Tunes(t)
      /\ UNCHANGED <<chip, in, out, width, power, asked>> /\ channel' = c
  BY DEF SetChannel, Begin, pipes, Tunes
<1>3. /\ c \in Nat /\ width \in Widths /\ power \in Nat
  BY Parameters DEF TypeOK, Levels
<1>4. /\ chip.synth = Centre(channel, width) /\ chip.column = width
      /\ asked # -1 => chip.gain = asked
      /\ chip.board = CalApplied
  BY <1>1, <1>2, IdleIsSettled
<1>5. (asked # -1 => power = asked) /\ (CalApplied = 0 => chip.board = 0)
  BY <1>1 DEF Settled
<1>6. ASSUME NEW p, todo' = [todo EXCEPT ![t] = p], p \in Seq(RightSteps(c, width, power)),
             LastReapplies(p), Alone(p),
             \/ In(p, SynthBy) \/ c = channel
      PROVE  Programs' /\ NoStaleWrite' /\ Effects' /\ Settled'
  <2>1. p \in Seq(RightSteps(channel', width', power'))
    BY <1>2, <1>6
  <2>2. Programs' /\ NoStaleWrite' /\ Effects'
    BY <1>1, <1>2, <1>6, <2>1, TunerMoves
  <2>3. In(p, SynthBy) => Due(SynthBy)'
    BY <1>6, DueMoved
  <2>4. chip'.synth = Centre(channel', width') \/ Due(SynthBy)'
    <3>1. c = channel => Centre(channel', width') = Centre(channel, width)
      BY <1>2
    <3> QED BY <1>2, <1>4, <1>6, <2>3, <3>1
  <2>5. Settled'
    BY <1>2, <1>4, <1>5, <2>4 DEF Settled
  <2> QED BY <2>2, <2>5
<1>7. CASE w # width
  <2> DEFINE p == <<Call("set_bandwidth", w)>>
  <2>1. todo' = [todo EXCEPT ![t] = p]
    BY <1>7 DEF SetChannel, Begin
  <2>2. p \in Seq(RightSteps(c, width, power))
    BY <1>3, RightSingles, Single
  <2>3. Call("set_bandwidth", w) \in GoodSteps /\ Call("set_bandwidth", w).do = "call"
        /\ Call("set_bandwidth", w).at = "set_bandwidth"
    BY StepTypes DEF Call, Step
  <2>4. Call("set_bandwidth", w) \in SynthBy /\ Call("set_bandwidth", w) \notin TableSteps
    BY <2>3 DEF SynthBy, TableSteps, Writes, GoodSteps
  <2>5. In(p, SynthBy) /\ ~In(p, TableSteps) /\ Len(p) = 1
    BY <2>4, InOne
  <2> HIDE DEF p
  <2> QED BY <1>6, <2>1, <2>2, <2>5 DEF LastReapplies, Alone
<1>8. CASE w = width /\ c # channel
  <2> DEFINE p == SetChannelAndCal(Mhz(c))
  <2>1. todo' = [todo EXCEPT ![t] = p]
    BY <1>8 DEF SetChannel, Begin
  <2>2. In(p, SynthBy) /\ ~In(p, Widening) /\ ~In(p, TableSteps)
    BY <1>3, RightSingles, ProgramContents
  <2>3. p \in Seq(RightSteps(c, width, power))
    <3> DEFINE R == RightSteps(c, width, power)
    <3>1. Call("rf_set_freq", Mhz(c)) \in R /\ {s \in GoodSteps : Bare(s)} \subseteq R
      BY <1>3, RightSingles
    <3>2. Seq({s \in GoodSteps : Bare(s)}) \subseteq Seq(R)
      <4> HIDE DEF R
      <4> QED BY <3>1
    <3>3. ClCal \in Seq(R)
      BY <3>2, BareSteps
    <3> HIDE DEF R
    <3>4. p \in Seq(R)
      BY <3>1, <3>3, Single, Concatenated DEF SetChannelAndCal
    <3> QED BY <3>4 DEF R
  <2> HIDE DEF p
  <2> QED BY <1>6, <2>1, <2>2, <2>3 DEF LastReapplies, Alone
<1>9. CASE w = width /\ c = channel
  <2>1. todo' = [todo EXCEPT ![t] = <<>>]
    BY <1>9 DEF SetChannel, Begin
  <2>2. LastReapplies(<<>>) /\ Alone(<<>>)
    BY InNone DEF LastReapplies, Alone
  <2> QED BY <1>6, <1>9, <2>1, <2>2, Empty
<1> QED BY <1>7, <1>8, <1>9

LEMMA SetTxPowerKnobs ==
  ASSUME OneTuner, TypeOK, Turns, LineInv, OnlyReads, KnobsInv, AllWell,
         NEW t \in Threads, NEW level \in Levels, SetTxPower(t, level)
  PROVE  Programs' /\ NoStaleWrite' /\ Effects' /\ Settled'
<1> DEFINE p == <<Call("set_tx_gain_level", level)>>
<1>1. Programs /\ NoStaleWrite /\ Effects /\ Settled
  BY DEF KnobsInv
<1>2. /\ pc[t] = "idle" /\ "power" \in Ops[t] /\ Tunes(t)
      /\ UNCHANGED <<chip, in, out, channel, width>> /\ power' = level /\ asked' = level
      /\ todo' = [todo EXCEPT ![t] = p]
  BY DEF SetTxPower, Begin, pipes, Tunes
<1>3. /\ channel \in Nat /\ width \in Widths /\ level \in Nat
  BY Parameters DEF TypeOK, Levels
<1>4. /\ chip.synth = Centre(channel, width) /\ chip.column = width
      /\ chip.board = CalApplied
  BY <1>1, <1>2, IdleIsSettled
<1>5. p \in Seq(RightSteps(channel', width', power'))
  BY <1>2, <1>3, RightSingles, Single
<1>6. Call("set_tx_gain_level", level) \in Steps /\ Call("set_tx_gain_level", level).do = "call"
      /\ Call("set_tx_gain_level", level).at = "set_tx_gain_level"
  BY <1>3, StepTypes DEF Call, Step, Routines, GoodSteps
<1>7. /\ Call("set_tx_gain_level", level) \in GainBy
      /\ Call("set_tx_gain_level", level) \notin TableSteps \cup Widening
  BY <1>6 DEF GainBy, TableSteps, Widening, Writes
<1>8. In(p, GainBy) /\ ~In(p, TableSteps) /\ ~In(p, Widening)
  BY <1>7, InOne
<1> HIDE DEF p
<1>9. Programs' /\ NoStaleWrite' /\ Effects'
  BY <1>1, <1>2, <1>5, <1>8, TunerMoves DEF LastReapplies, Alone
<1>10. Due(GainBy)'
  BY <1>2, <1>8, DueMoved
<1>11. Centre(channel', width') = Centre(channel, width)
  BY <1>2
<1>12. CalApplied = 0 => chip.board = 0
  BY <1>1 DEF Settled
<1>13. Settled'
  BY <1>2, <1>4, <1>10, <1>11, <1>12 DEF Settled
<1> QED BY <1>9, <1>13

LEMMA ReadClockKnobs ==
  ASSUME TypeOK, Turns, LineInv, KnobsInv, AllWell, NEW t \in Threads, ReadClockCall(t)
  PROVE  Programs' /\ NoStaleWrite' /\ Effects' /\ Settled'
<1>1. Programs /\ NoStaleWrite /\ Effects /\ Settled
  BY DEF KnobsInv
<1>2. /\ pc[t] # "wait" /\ todo[t] = <<>> /\ UNCHANGED <<mirrors, chip, in, out, asked>>
      /\ todo' = [todo EXCEPT ![t] = ReadClock]
  BY DEF ReadClockCall, Begin, pipes, Turns
<1>3. LastReapplies(ReadClock) /\ Alone(ReadClock)
  BY ClockPrograms, ClockStepsApart
<1>4. ReadClock \in Seq(RightSteps(channel, width, power))
  <2>1. ClockSteps \subseteq RightSteps(channel, width, power)
    BY ClockStepsApart
  <2>2. Seq(ClockSteps) \subseteq Seq(RightSteps(channel, width, power))
    BY <2>1
  <2> QED BY <2>2, ClockPrograms
<1>5. Programs' /\ NoStaleWrite' /\ Effects'
  BY <1>1, <1>2, <1>3, <1>4, RunningMoves
<1>6. \A S : ~In(todo[t], S)
  BY <1>2, InNone
<1>7. Settled'
  BY <1>1, <1>2, <1>6, SettledMoved
<1> QED BY <1>5, <1>7

\* A routine is entered: its steps take the place of its call.
LEMMA EnterMoves ==
  ASSUME TypeOK, Turns, LineInv, KnobsInv, AllWell, NEW t \in Threads, NEW steps,
         Enter(t, steps), pc[t] = "run", todo[t] # <<>>, width' = width,
         steps \in Seq(RightSteps(channel, width, power)), ~In(steps, Widening),
         In(steps, TableSteps) => Head(todo[t]) \in TableSteps,
         \A S \in {SynthBy, ColumnBy, GainBy} : Head(todo[t]) \in S => In(steps, S),
         Head(todo[t]) \in BoardBy => In(steps, BoardBy) \/ chip.board = CalApplied
  PROVE  Programs' /\ NoStaleWrite' /\ Effects' /\ Settled'
<1> DEFINE p == steps \o Tail(todo[t])
           R == RightSteps(channel, width, power)
<1>1. Programs /\ NoStaleWrite /\ Effects /\ Settled
  BY DEF KnobsInv
<1>2. /\ UNCHANGED <<mirrors, chip, in, out, asked>> /\ todo' = [todo EXCEPT ![t] = p]
  BY DEF Enter, pipes, mirrors, history
<1>3. todo[t] \in Seq(R) /\ LastReapplies(todo[t]) /\ Alone(todo[t])
  BY <1>1 DEF Programs
<1>4. Seq(R) \subseteq Seq(Steps)
  <2>1. R \subseteq Steps
    BY DEF RightSteps, GoodSteps
  <2> HIDE DEF R
  <2> QED BY <2>1
<1>5. todo[t] \in Seq(Steps) /\ steps \in Seq(Steps)
  BY <1>3, <1>4
<1>6. p \in Seq(R)
  <2> HIDE DEF R
  <2>1. Tail(todo[t]) \in Seq(R)
    BY <1>3, HeadTail
  <2> QED BY <2>1, Concatenated DEF R
<1>7. /\ LastReapplies(p) /\ Alone(p)
      /\ \A S : In(todo[t], S) /\ (Head(todo[t]) \in S => In(steps, S)) => In(p, S)
  BY <1>3, <1>5, Expanded
<1> HIDE DEF p, R
<1>8. Programs' /\ NoStaleWrite' /\ Effects'
  BY <1>1, <1>2, <1>6, <1>7, RunningMoves DEF R
<1>9. Settled'
  BY <1>1, <1>2, <1>7, SettledMoved
<1> QED BY <1>8, <1>9

LEMMA EnterRoutineKnobs ==
  ASSUME TypeOK, Turns, LineInv, KnobsInv, AllWell, NEW t \in Threads, EnterRoutine(t)
  PROVE  Programs' /\ NoStaleWrite' /\ Effects' /\ Settled'
<1> DEFINE s == Head(todo[t])
           R == RightSteps(channel, width, power)
<1>1. /\ pc[t] = "run" /\ todo[t] # <<>> /\ s.do = "call" /\ width' = width
  BY DEF EnterRoutine, Reached
<1>2. s \in R /\ s \in GoodSteps /\ s \in Steps
  <2>1. todo[t] \in Seq(R)
    BY DEF KnobsInv, Programs
  <2>2. s \in R
    <3> HIDE DEF R
    <3> QED BY <1>1, <2>1, HeadTail
  <2> QED BY <2>2 DEF RightSteps, GoodSteps
<1>3. /\ s \in SynthBy <=> s.at \in {"set_bandwidth", "retune", "rf_set_freq"}
      /\ s \in ColumnBy <=> s.at \in {"set_bandwidth", "apply_initvals"}
      /\ s \in GainBy <=> s.at \in {"set_bandwidth", "reapply_power_state", "set_tx_gain_level"}
      /\ s \in BoardBy <=> s.at \in {"set_bandwidth", "reapply_power_state"}
      /\ s \in TableSteps <=> s.at = "apply_initvals"
  BY <1>1, <1>2 DEF SynthBy, ColumnBy, GainBy, BoardBy, TableSteps, Writes
<1>4. /\ s.at = "rf_set_freq" => s.arg = Mhz(channel)
      /\ s.at = "set_tx_gain_level" => s.arg = power
      /\ Mhz(channel) \in Nat /\ power \in Nat
  <2>1. channel \in Nat /\ power \in Nat
    BY Parameters DEF TypeOK, Levels
  <2> QED BY <1>1, <1>2, <2>1 DEF RightSteps, Mhz
<1> HIDE DEF s, R
<1>5. ASSUME NEW steps, Enter(t, steps), steps \in Seq(R), ~In(steps, Widening),
             In(steps, TableSteps) => s \in TableSteps,
             \A S \in {SynthBy, ColumnBy, GainBy} : s \in S => In(steps, S),
             s \in BoardBy => In(steps, BoardBy) \/ chip.board = CalApplied
      PROVE  Programs' /\ NoStaleWrite' /\ Effects' /\ Settled'
  BY <1>1, <1>5, EnterMoves DEF s, R
<1>6. CASE Reached(t, "apply_initvals") /\ Enter(t, ApplyInitvals)
  <2>1. s.at = "apply_initvals"
    BY <1>6 DEF Reached, s
  <2>2. ApplyInitvals \in Seq(R)
    BY RightRoutines DEF R
  <2>3. In(ApplyInitvals, ColumnBy) /\ ~In(ApplyInitvals, Widening)
    BY ProgramContents
  <2> QED BY <1>3, <1>5, <1>6, <2>1, <2>2, <2>3
<1>7. CASE Reached(t, "retune") /\ Enter(t, SetChannelAndCal(Mhz(channel)))
  <2>1. s.at = "retune"
    BY <1>7 DEF Reached, s
  <2>2. SetChannelAndCal(Mhz(channel)) \in Seq(R)
    BY RightRoutines DEF R
  <2>3. LET p == SetChannelAndCal(Mhz(channel)) IN
        In(p, SynthBy) /\ ~In(p, Widening) /\ ~In(p, TableSteps)
    BY <1>4, ProgramContents
  <2> QED BY <1>3, <1>5, <1>7, <2>1, <2>2, <2>3
<1>8. CASE Reached(t, "rf_set_freq") /\ Enter(t, RfSetFreq(Head(todo[t]).arg))
  <2>1. s.at = "rf_set_freq" /\ Enter(t, RfSetFreq(Mhz(channel)))
    BY <1>4, <1>8 DEF Reached, s
  <2>2. RfSetFreq(Mhz(channel)) \in Seq(R)
    BY RightRoutines DEF R
  <2>3. LET p == RfSetFreq(Mhz(channel)) IN
        In(p, SynthBy) /\ ~In(p, Widening) /\ ~In(p, TableSteps)
    BY <1>4, ProgramContents
  <2> QED BY <1>3, <1>5, <2>1, <2>2, <2>3
<1>9. CASE Reached(t, "reapply_power_state") /\ Enter(t, ReapplyPowerState)
  <2>1. s.at = "reapply_power_state"
    BY <1>9 DEF Reached, s
  <2>2. ReapplyPowerState \in Seq(R)
    BY RightRoutines DEF R
  <2>3. /\ In(ReapplyPowerState, GainBy) /\ (CalApplied = 1 => In(ReapplyPowerState, BoardBy))
        /\ ~In(ReapplyPowerState, Widening) /\ ~In(ReapplyPowerState, TableSteps)
    BY ProgramContents
  <2>4. CalApplied # 1 => chip.board = CalApplied
    BY Parameters DEF KnobsInv, Settled
  <2> QED BY <1>3, <1>5, <1>9, <2>1, <2>2, <2>3, <2>4
<1>10. CASE Reached(t, "set_tx_gain_level") /\ Enter(t, <<Write("gain", Head(todo[t]).arg)>>)
  <2>1. s.at = "set_tx_gain_level" /\ Enter(t, <<Write("gain", power)>>)
    BY <1>4, <1>10 DEF Reached, s
  <2>2. <<Write("gain", power)>> \in Seq(R)
    BY RightRoutines DEF R
  <2>3. LET p == <<Write("gain", power)>> IN
        In(p, GainBy) /\ ~In(p, Widening) /\ ~In(p, TableSteps)
    BY <1>4, ProgramContents
  <2> QED BY <1>3, <1>5, <2>1, <2>2, <2>3
<1>11. CASE /\ Reached(t, "clock_words")
            /\ Enter(t, IF got[t][1] = got[t][3] THEN <<>> ELSE <<Read("lo")>>)
  <2> DEFINE p == IF got[t][1] = got[t][3] THEN <<>> ELSE <<Read("lo")>>
  <2>1. s.at = "clock_words" /\ Enter(t, p)
    BY <1>11 DEF Reached, s
  <2>2. p \in Seq(ClockSteps)
    BY ClockPrograms, Empty
  <2> HIDE DEF p
  <2>3. p \in Seq(R)
    <3>1. ClockSteps \subseteq R
      BY ClockStepsApart DEF R
    <3> QED BY <2>2, <3>1
  <2>4. ~In(p, Widening) /\ ~In(p, TableSteps)
    BY <2>2, ClockStepsApart, InMembers
  <2> QED BY <1>3, <1>5, <2>1, <2>3, <2>4
<1> QED BY <1>6, <1>7, <1>8, <1>9, <1>10, <1>11 DEF EnterRoutine

LEMMA EnterSetBandwidthKnobs ==
  ASSUME OneTuner, TypeOK, Turns, LineInv, OnlyReads, KnobsInv, AllWell,
         NEW t \in Threads, EnterSetBandwidth(t)
  PROVE  Programs' /\ NoStaleWrite' /\ Effects' /\ Settled'
<1> DEFINE s == Head(todo[t])
           w == s.arg
           p == SetBandwidth(w)
<1>1. Programs /\ NoStaleWrite /\ Effects /\ Settled
  BY DEF KnobsInv
<1>2. /\ pc[t] = "run" /\ todo[t] # <<>> /\ s.do = "call" /\ s.at = "set_bandwidth"
      /\ UNCHANGED <<channel, power, chip, in, out, asked>> /\ width' = w
      /\ todo' = [todo EXCEPT ![t] = p \o Tail(todo[t])]
  BY DEF EnterSetBandwidth, Reached, Enter, pipes, history
<1>3. s \in GoodSteps /\ s \in Steps /\ w \in Widths
  <2>1. s \in GoodSteps
    BY <1>2, HeadTypes
  <2> QED BY <1>2, <2>1 DEF GoodSteps
<1>4. Tunes(t)
  <2>1. s \notin ClockSteps
    BY <1>2 DEF ClockSteps
  <2>2. todo[t] \notin Seq(ClockSteps)
    BY <1>2, <2>1, HeadTail
  <2> QED BY <2>2, Reader
<1>5. Tail(todo[t]) = <<>>
  <2>1. s \in Widening /\ todo[t] \in Seq(Steps)
    BY <1>2, <1>3 DEF Widening, Writes, TypeOK
  <2>2. In(todo[t], Widening)
    BY <1>2, <2>1, InHead
  <2>3. Len(todo[t]) = 1
    BY <1>1, <2>2 DEF Programs, Alone
  <2> QED BY <1>2, <2>1, <2>3, Lasts, Empty
<1>6. channel \in Nat /\ power \in Nat
  BY Parameters DEF TypeOK, Levels
<1> HIDE DEF s, w
<1>7. p \in Seq(RightSteps(channel, w, power))
  BY <1>3, <1>6, RightBandwidth
<1>8. (\A S \in DueSets : In(p, S)) /\ p[Len(p)] \in ReapplySteps /\ ~In(p, Widening)
  BY <1>3, ProgramContents
<1> HIDE DEF p
<1>9. todo' = [todo EXCEPT ![t] = p]
  <2>1. p \o <<>> = p
    BY ONLY <1>7
  <2> QED BY <1>2, <1>5, <2>1
<1>10. Programs' /\ NoStaleWrite' /\ Effects'
  <2>1. p \in Seq(RightSteps(channel', width', power'))
    BY <1>2, <1>7
  <2>2. LastReapplies(p) /\ Alone(p)
    BY <1>8 DEF LastReapplies, Alone
  <2> QED BY <1>1, <1>2, <1>4, <1>9, <2>1, <2>2, TunerMoves
<1>11. Due(SynthBy)' /\ Due(ColumnBy)' /\ Due(GainBy)' /\ Due(BoardBy)'
  BY <1>8, <1>9, DueMoved DEF DueSets
<1>12. (CalApplied = 0 => chip.board = 0) /\ (asked # -1 => power = asked)
  BY <1>1 DEF Settled
<1>13. Settled'
  BY <1>2, <1>11, <1>12 DEF Settled
<1> QED BY <1>10, <1>13

\* A reading thread gives up, or takes another reading.
LEMMA ReaderMoves ==
  ASSUME OneTuner, TypeOK, Turns, OnlyReads, KnobsInv, AllWell, NEW t \in Threads, ~Tunes(t),
         todo[t] # <<>>, UNCHANGED <<mirrors, chip, asked>>, NEW p,
         p \in {PassOver(todo[t]), Tail(todo[t]), <<>>}, todo' = [todo EXCEPT ![t] = p]
  PROVE  Programs' /\ Settled'
<1>1. Programs /\ Settled
  BY DEF KnobsInv
<1>2. todo[t] \in Seq(ClockSteps)
  BY Reader
<1>3. p \in Seq(ClockSteps)
  BY <1>2, ClockPrograms, Empty
<1>4. p \in Seq(RightSteps(channel, width, power))
  <2>1. ClockSteps \subseteq RightSteps(channel, width, power)
    BY ClockStepsApart
  <2> QED BY <1>3, <2>1
<1>5. Programs'
  BY <1>1, <1>3, <1>4, ProgramsMoved, ClockStepsApart
<1>6. ~In(todo[t], SynthBy) /\ ~In(todo[t], ColumnBy) /\ ~In(todo[t], GainBy) /\ ~In(todo[t], BoardBy)
  BY <1>2, ClockStepsApart DEF DueSets
<1>7. Settled'
  BY <1>1, <1>6, SettledMoved
<1> QED BY <1>5, <1>7

LEMMA FailsKnobs ==
  ASSUME OneTuner, TypeOK, Turns, LineInv', OwnSteps, OnlyReads, KnobsInv, AllWell, AllWell',
         NEW t \in Threads, todo[t] # <<>>, CommandFails(t),
         out' = out \/ out' = Orphaned(t, out)
  PROVE  Programs' /\ NoStaleWrite' /\ Effects' /\ Settled'
<1>1. /\ failed' = failed \cup {t} /\ lock' = "nobody" /\ UNCHANGED <<mirrors, chip, asked>>
      /\ \/ todo' = [todo EXCEPT ![t] = PassOver(todo[t])]
         \/ todo' = [todo EXCEPT ![t] = <<>>]
  BY FailedProgram
<1>2. ~Tunes(t)
  <2>1. \A u \in Threads : Tunes(u) => u \notin failed'
    BY DEF AllWell, Tunes
  <2> QED BY <1>1, <2>1
<1>3. Programs' /\ Settled'
  BY <1>1, <1>2, ReaderMoves
<1>4. Effects'
  BY <1>1, EffectsFree
<1>5. todo[t] \in Seq(ClockSteps) /\ Head(todo[t]).do # "write"
  <2>1. todo[t] \in Seq(ClockSteps)
    BY <1>2, Reader
  <2> QED BY <2>1, ClockPrograms
<1>6. ASSUME NEW b \in DOMAIN out, out' = Orphaned(t, out), out'[b].step.do = "write"
      PROVE  out'[b].by # "nobody"
  <2>1. out[b] \in Commands
    <3>1. out \in Seq(Commands)
      BY DEF TypeOK, Commands
    <3> QED BY <3>1
  <2>2. out'[b] = IF out[b].by = t THEN [out[b] EXCEPT !.by = "nobody"] ELSE out[b]
    BY <1>6 DEF Orphaned
  <2>3. out'[b].step = out[b].step
    BY <2>1, <2>2 DEF Commands
  <2>4. out[b].by # "nobody"
    BY <1>6, <2>3 DEF KnobsInv, NoStaleWrite
  <2>5. out[b].by # t
    <3> SUFFICES ASSUME out[b].by = t PROVE FALSE
      OBVIOUS
    <3>1. out[b].step = Head(todo[t])
      BY <2>4 DEF OwnSteps
    <3> QED BY <1>5, <1>6, <2>3, <3>1
  <2> QED BY <2>2, <2>4, <2>5
<1>7. NoStaleWrite'
  <2>1. CASE out' = out
    BY <2>1 DEF KnobsInv, NoStaleWrite
  <2>2. CASE out' = Orphaned(t, out)
    <3>1. DOMAIN out' = DOMAIN out
      BY <2>2 DEF Orphaned
    <3> QED BY <1>6, <2>2, <3>1 DEF NoStaleWrite
  <2> QED BY <2>1, <2>2
<1> QED BY <1>3, <1>4, <1>7

\* The command at the head of the tuning thread is done: what it writes is in effect.
LEMMA DoneMoves ==
  ASSUME TypeOK, Turns, KnobsInv, AllWell, NEW t \in Threads, todo[t] # <<>>,
         Head(todo[t]).do # "call",
         Head(todo[t]).do = "write" => InEffect(chip, Head(todo[t])),
         UNCHANGED <<mirrors, chip, asked>>, todo' = [todo EXCEPT ![t] = Tail(todo[t])]
  PROVE  Programs' /\ Settled'
<1> DEFINE p == Tail(todo[t])
           s == Head(todo[t])
           R == RightSteps(channel, width, power)
<1>1. Programs /\ Settled
  BY DEF KnobsInv
<1>2. todo[t] \in Seq(R) /\ LastReapplies(todo[t]) /\ Alone(todo[t])
  BY <1>1 DEF Programs
<1>3. Seq(R) \subseteq Seq(Steps)
  <2>1. R \subseteq Steps
    BY DEF RightSteps, GoodSteps
  <2> HIDE DEF R
  <2> QED BY <2>1
<1>4. p \in Seq(R) /\ s \in R /\ todo[t] \in Seq(Steps) /\ p \in Seq(Steps)
  <2> HIDE DEF R
  <2> QED BY <1>2, <1>3, HeadTail
<1>5. LastReapplies(p) /\ Alone(p)
  <2>1. <<>> \in Seq(Steps) /\ ~In(<<>>, Widening) /\ ~In(<<>>, TableSteps)
    BY Empty, InNone
  <2>2. LastReapplies(<<>> \o p) /\ Alone(<<>> \o p)
    BY <1>2, <1>4, <2>1, Expanded
  <2>3. <<>> \o p = p
    <3> HIDE DEF p
    <3> QED BY <1>4
  <2> QED BY <2>2, <2>3
<1>6. \A S : In(todo[t], S) => s \in S \/ In(p, S)
  BY <1>4, InHead
<1>7. /\ s \in SynthBy => chip.synth = Centre(channel, width)
      /\ s \in ColumnBy => chip.column = width
      /\ s \in GainBy => (asked # -1 => chip.gain = asked)
      /\ s \in BoardBy => chip.board = CalApplied
  <2>1. asked # -1 => power = asked
    BY <1>1 DEF Settled
  <2>2. s.do # "call" /\ (s.do = "write" => InEffect(chip, s))
    OBVIOUS
  <2> HIDE DEF s
  <2>3. /\ s \in SynthBy => s.do = "write" /\ s.at = "synth"
        /\ s \in ColumnBy => s.do = "write" /\ s.at = "tables"
        /\ s \in GainBy => s.do = "write" /\ s.at = "gain"
        /\ s \in BoardBy => s.do = "write" /\ s.at = "board"
    BY <2>2 DEF SynthBy, ColumnBy, GainBy, BoardBy, Writes
  <2>4. s.do = "write" =>
          /\ s.at = "synth" => s.arg = Centre(channel, width)
          /\ s.at = "tables" => s.arg = width
          /\ s.at = "gain" => s.arg = power
          /\ s.at = "board" => s.arg = 1 /\ CalApplied = 1
    BY <1>4 DEF RightSteps
  <2> QED BY <2>1, <2>2, <2>3, <2>4 DEF InEffect
<1> HIDE DEF p, R
<1>8. Programs'
  BY <1>1, <1>4, <1>5, ProgramsMoved DEF p, R
<1>9. Settled'
  BY <1>1, <1>6, <1>7, SettledMoved DEF p
<1> QED BY <1>8, <1>9

LEMMA ReceiveKnobs ==
  ASSUME OneTuner, TypeOK, Turns, LineInv, LineInv', OwnSteps, OnlyReads, KnobsInv, AllWell,
         AllWell', NEW t \in Threads, Receive(t)
  PROVE  Programs' /\ NoStaleWrite' /\ Effects' /\ Settled'
<1>0. pc[t] = "wait" /\ in # <<>> /\ todo[t] # <<>> /\ Head(todo[t]).do # "call"
  BY DEF Receive, Turns
<1>1. Programs /\ NoStaleWrite /\ Effects /\ Settled
  BY DEF KnobsInv
<1> DEFINE m == Head(in)
<1>2. ASSUME IsOwnReply(m), in' = Tail(in), CommandSucceeds(t, m)
      PROVE  Programs' /\ NoStaleWrite' /\ Effects' /\ Settled'
  <2>1. /\ \/ /\ todo' = [todo EXCEPT ![t] = PassOver(todo[t])]
              /\ failed' = failed \cup {t}
           \/ /\ todo' = [todo EXCEPT ![t] = Tail(todo[t])]
              /\ failed' = failed
        /\ lock' = "nobody" /\ UNCHANGED <<mirrors, chip, asked>>
    BY <1>2, DoneProgram
  <2>2. out = <<>> /\ m.by = t
    BY <1>0, <1>2, OwnReplyIsLast
  <2>3. out' = out
    BY <1>2 DEF CommandSucceeds
  <2>4. NoStaleWrite'
    BY <2>2, <2>3 DEF NoStaleWrite
  <2>5. Effects'
    BY <2>1, EffectsFree
  <2>6. CASE ~Tunes(t)
    <3>1. Programs' /\ Settled'
      BY <1>0, <2>1, <2>6, ReaderMoves
    <3> QED BY <2>4, <2>5, <3>1
  <2>7. CASE Tunes(t)
    <3>1. t \notin failed'
      BY <2>7 DEF AllWell, Tunes
    <3>2. todo' = [todo EXCEPT ![t] = Tail(todo[t])]
      BY <2>1, <3>1
    <3>3. 1 \in DOMAIN in /\ in[1] = m
      BY <1>0, TakenLine
    <3>4. Head(todo[t]).do = "write" => InEffect(chip, Head(todo[t]))
      <4>1. t # "nobody"
        BY Parameters
      <4> QED BY <1>1, <2>2, <3>3, <4>1 DEF Effects
    <3>5. Programs' /\ Settled'
      BY <1>0, <2>1, <3>2, <3>4, DoneMoves
    <3> QED BY <2>4, <2>5, <3>5
  <2> QED BY <2>6, <2>7
<1>3. ASSUME CommandFails(t), out' = Orphaned(t, out)
      PROVE  Programs' /\ NoStaleWrite' /\ Effects' /\ Settled'
  BY <1>0, <1>3, FailsKnobs
<1>4. ASSUME m.kind # "bad", ~IsOwnReply(m), tries > 1, in' = Tail(in), Skip(t)
      PROVE  Programs' /\ NoStaleWrite' /\ Effects' /\ Settled'
  <2>1. /\ todo' = todo /\ out' = out /\ channel' = channel /\ width' = width
        /\ power' = power /\ chip' = chip /\ asked' = asked
    BY <1>4 DEF Skip, mirrors, history
  <2>2. Programs'
    BY <1>1, <2>1 DEF Programs
  <2>3. NoStaleWrite'
    BY <1>1, <2>1 DEF NoStaleWrite
  <2>4. Settled'
    BY <1>1, <2>1 DEF Settled, Due
  <2>5. \A a \in DOMAIN in' : a + 1 \in DOMAIN in /\ in'[a] = in[a + 1]
    <3>1. in \in Seq(Pipe({"reply", "event", "runt", "bad"}))
      BY DEF TypeOK
    <3>2. \A a \in DOMAIN Tail(in) : a + 1 \in DOMAIN in /\ Tail(in)[a] = in[a + 1]
      BY <1>0, <3>1, HeadTail
    <3> QED BY <1>4, <3>2
  <2>6. Effects'
    BY <1>1, <2>1, <2>5 DEF Effects
  <2> QED BY <2>2, <2>3, <2>4, <2>6
<1>5. \/ IsOwnReply(m) /\ in' = Tail(in) /\ CommandSucceeds(t, m)
      \/ CommandFails(t) /\ out' = Orphaned(t, out)
      \/ m.kind # "bad" /\ ~IsOwnReply(m) /\ tries > 1 /\ in' = Tail(in) /\ Skip(t)
  <2> HIDE DEF m
  <2> QED BY DEF Receive, Skip, m
<1> QED BY <1>2, <1>3, <1>4, <1>5

\* A command that is executed: it is the head of the tuning thread's program, so that
\* the register gets the value of the mirrors, and tables leave the reapplication due.
LEMMA ServedWrite ==
  ASSUME TypeOK, Turns, LineInv, OwnSteps, KnobsInv, AllWell, out # <<>>,
         Head(out).step.do = "write"
  PROVE  /\ lock \in Threads /\ pc[lock] = "wait" /\ todo[lock] # <<>>
         /\ Head(out).step = Head(todo[lock])
         /\ Head(out).step \in RightSteps(channel, width, power)
         /\ Head(out).step \in TableSteps => Due(GainBy) /\ Due(BoardBy)
<1> DEFINE s == Head(out).step
           R == RightSteps(channel, width, power)
<1>1. out \in Seq(Commands)
  BY DEF TypeOK, Commands
<1>2. Head(out) = out[1] /\ 1 \in DOMAIN out
  BY <1>1
<1>3. Head(out).by # "nobody"
  BY <1>2 DEF KnobsInv, NoStaleWrite
<1>4. Head(out).by = lock /\ lock \in Threads
  BY <1>2, <1>3 DEF LineInv, Owners, TypeOK
<1>5. s = Head(todo[lock]) /\ pc[lock] = "wait"
  BY <1>2, <1>3, <1>4 DEF OwnSteps, TypeOK
<1>6. todo[lock] # <<>>
  BY <1>4, <1>5 DEF Turns
<1>7. todo[lock] \in Seq(R) /\ LastReapplies(todo[lock])
  BY <1>4 DEF KnobsInv, Programs
<1>8. s \in R
  <2> HIDE DEF R
  <2> QED BY <1>5, <1>6, <1>7, HeadTail
<1>9. ASSUME s \in TableSteps PROVE Due(GainBy) /\ Due(BoardBy)
  <2>1. todo[lock] \in Seq(Steps)
    BY <1>4 DEF TypeOK
  <2>2. In(todo[lock], TableSteps)
    BY <1>5, <1>6, <1>9, <2>1, InHead
  <2>3. todo[lock][Len(todo[lock])] \in ReapplySteps /\ Len(todo[lock]) \in DOMAIN todo[lock]
    BY <1>6, <1>7, <2>1, <2>2 DEF LastReapplies
  <2>4. ReapplySteps \subseteq GainBy /\ ReapplySteps \subseteq BoardBy
    BY DEF ReapplySteps, GainBy, BoardBy, Writes
  <2>5. In(todo[lock], GainBy) /\ In(todo[lock], BoardBy)
    BY <2>3, <2>4 DEF In
  <2> QED BY <1>4, <2>5 DEF Due
<1> QED BY <1>4, <1>5, <1>6, <1>8, <1>9

LEMMA ServedKnobs ==
  ASSUME TypeOK, Turns, LineInv, OwnSteps, KnobsInv, AllWell, out # <<>>,
         chip' \in {chip, Served(Head(out).step)}, UNCHANGED <<mirrors, asked, todo>>
  PROVE  /\ Programs' /\ Settled'
         /\ lock \in Threads /\ Head(todo[lock]).do = "write"
              => \/ InEffect(chip', Head(todo[lock])) \/ chip' = chip
         /\ Head(out).step.do = "write" /\ chip' = Served(Head(out).step)
              => Head(out).step = Head(todo[lock]) /\ InEffect(chip', Head(out).step)
<1> DEFINE s == Head(out).step
<1>1. Programs /\ Settled
  BY DEF KnobsInv
<1>2. channel' = channel /\ width' = width /\ power' = power /\ asked' = asked /\ todo' = todo
  BY DEF mirrors
<1>3. Programs'
  BY <1>1, <1>2 DEF Programs
<1>4. CASE chip' = chip /\ ~(s.do = "write" /\ chip' = Served(s))
  <2>1. Settled'
    BY <1>1, <1>2, <1>4 DEF Settled, Due
  <2> QED BY <1>3, <1>4, <2>1
<1>5. CASE s.do = "write" /\ chip' = Served(s)
  <2>1. /\ s = Head(todo[lock]) /\ s \in RightSteps(channel, width, power)
        /\ s \in TableSteps => Due(GainBy) /\ Due(BoardBy)
    BY <1>5, ServedWrite
  <2>2. s \in Steps /\ chip \in [Registers -> Nat]
    BY <2>1 DEF RightSteps, GoodSteps, TypeOK
  <2>3. /\ s.at = "synth" => s.arg = Centre(channel, width)
        /\ s.at = "tables" => s.arg = width
        /\ s.at = "gain" => s.arg = power
        /\ s.at = "board" => s.arg = 1 /\ CalApplied = 1
        /\ s.at # "column"
    BY <1>5, <2>1 DEF RightSteps
  <2>4. s.at = "tables" => s \in TableSteps
    BY <1>5, <2>2 DEF TableSteps, Writes
  <2> HIDE DEF s
  <2>5. CASE s.at = "tables"
    <3>1. /\ chip'.column = s.arg /\ chip'.board = 0 /\ chip'.synth = chip.synth
      BY <1>5, <2>2, <2>5 DEF Served, Registers
    <3>2. InEffect(chip', s)
      BY <2>5, <3>1 DEF InEffect
    <3>3. Due(GainBy)' /\ Due(BoardBy)'
      BY <1>2, <2>1, <2>4, <2>5 DEF Due
    <3>4. Due(SynthBy)' <=> Due(SynthBy)
      BY <1>2 DEF Due
    <3>5. Settled'
      BY <1>1, <1>2, <2>3, <2>5, <3>1, <3>3, <3>4 DEF Settled
    <3> QED BY <1>3, <2>1, <3>2, <3>5 DEF s
  <2>6. CASE s.at # "tables"
    <3>1. \A r \in Registers : chip'[r] = IF r = s.at THEN s.arg ELSE chip[r]
      BY <1>5, <2>2, <2>6 DEF Served
    <3>2. /\ chip'.synth = IF "synth" = s.at THEN s.arg ELSE chip.synth
          /\ chip'.gain = IF "gain" = s.at THEN s.arg ELSE chip.gain
          /\ chip'.board = IF "board" = s.at THEN s.arg ELSE chip.board
          /\ chip'.column = chip.column
      BY <2>3, <3>1 DEF Registers
    <3>3. InEffect(chip', s)
      BY <2>6, <3>2 DEF InEffect
    <3>4. \A S : Due(S)' <=> Due(S)
      BY <1>2 DEF Due
    <3>5. Settled'
      BY <1>1, <1>2, <2>3, <3>2, <3>4 DEF Settled
    <3> QED BY <1>3, <2>1, <3>3, <3>5 DEF s
  <2> QED BY <2>5, <2>6
<1>6. s.do # "write" => Served(s) = chip
  BY DEF Served
<1> QED BY <1>4, <1>5, <1>6

\* An event, or a message that is damaged, is nobody's.
LEMMA StrayOwners ==
  ASSUME TypeOK, TargetEvent \/ Damaged
  PROVE  \A a \in DOMAIN in' : in'[a].by = "nobody" \/ (a \in DOMAIN in /\ in'[a] = in[a])
<1>0. in \in Seq(Messages)
  BY DEF TypeOK, Messages
<1>1. \A kind : Message(kind).by = "nobody"
  BY DEF Message
<1>2. CASE TargetEvent
  <2>1. in = <<>> /\ in' = Append(in, Message("event"))
    BY <1>2 DEF TargetEvent
  <2>2. in' = <<Message("event")>>
    BY <2>1
  <2> QED BY <1>1, <2>2
<1>3. CASE Damaged
  <2>1. PICK kind : in' = <<Message(kind)>> \o Tail(in)
    BY <1>3 DEF Damaged
  <2> DEFINE m == Message(kind)
  <2>2. in # <<>>
    BY <1>3 DEF Damaged
  <2>3. Tail(in) \in Seq(Messages) /\ \A a \in DOMAIN Tail(in) : a + 1 \in DOMAIN in /\ Tail(in)[a] = in[a + 1]
    BY <1>0, <2>2, HeadTail
  <2> HIDE DEF m
  <2>4. /\ \A a \in DOMAIN in' : a = 1 \/ (a - 1 \in DOMAIN Tail(in) /\ in'[a] = Tail(in)[a - 1])
        /\ in'[1] = m /\ DOMAIN in' \subseteq Nat
    <3> DEFINE q == Tail(in)
               T == Messages \cup {m}
               f == <<m>>
    <3>1. \A x \in Seq(T), y \in Seq(T) :
             /\ x \o y \in Seq(T) /\ Len(x \o y) = Len(x) + Len(y)
             /\ \A i \in 1 .. Len(x) : (x \o y)[i] = x[i]
             /\ \A i \in DOMAIN (x \o y) : i > Len(x) => i - Len(x) \in DOMAIN y /\ (x \o y)[i] = y[i - Len(x)]
      OBVIOUS
    <3>2. f \in Seq(T) /\ q \in Seq(T) /\ Len(f) = 1 /\ f[1] = m
      BY <2>3
    <3>3. in' = f \o q
      BY <2>1 DEF m
    <3> HIDE DEF q, f, T
    <3>4. in' \in Seq(T) /\ in'[1] = m /\ DOMAIN in' = 1 .. Len(in')
      BY <3>1, <3>2, <3>3
    <3>6. DOMAIN in' \subseteq Nat
      BY <3>4
    <3>5. \A i \in DOMAIN in' : i > 1 => i - 1 \in DOMAIN q /\ in'[i] = q[i - 1]
      <4>1. \A i \in DOMAIN (f \o q) :
              i > Len(f) => i - Len(f) \in DOMAIN q /\ (f \o q)[i] = q[i - Len(f)]
        BY ONLY <3>1, <3>2
      <4> QED BY ONLY <3>2, <3>3, <4>1
    <3> QED BY <3>4, <3>5, <3>6 DEF q
  <2>5. \A a \in DOMAIN in' : a = 1 \/ (a \in DOMAIN in /\ in'[a] = in[a])
    BY <1>0, <2>3, <2>4
  <2> QED BY <1>1, <2>4, <2>5 DEF m
<1> QED BY <1>2, <1>3

LEMMA TargetKnobs ==
  ASSUME TypeOK, Turns, LineInv, OwnSteps, KnobsInv, AllWell, Target
  PROVE  Programs' /\ NoStaleWrite' /\ Effects' /\ Settled'
<1>1. Programs /\ NoStaleWrite /\ Effects /\ Settled
  BY DEF KnobsInv
<1>2. in \in Seq(Messages) /\ out \in Seq(Commands)
  BY StrayTypes
<1>3. \A a \in DOMAIN in : in[a].by # "nobody" => in[a].by = lock /\ lock \in Threads
  BY DEF LineInv, Owners, TypeOK
<1>4. ASSUME out # <<>>, chip' \in {chip, Served(Head(out).step)}, out' = Tail(out),
             UNCHANGED <<mirrors, asked, todo>>,
             \/ in' = in
             \/ /\ chip' = Served(Head(out).step)
                /\ \E v : in' = Append(in, [kind |-> "reply", seq |-> Head(out).seq,
                                            by |-> Head(out).by, val |-> v])
      PROVE  Programs' /\ NoStaleWrite' /\ Effects' /\ Settled'
  <2>1. /\ Programs' /\ Settled'
        /\ lock \in Threads /\ Head(todo[lock]).do = "write"
             => \/ InEffect(chip', Head(todo[lock])) \/ chip' = chip
        /\ Head(out).step.do = "write" /\ chip' = Served(Head(out).step)
             => Head(out).step = Head(todo[lock]) /\ InEffect(chip', Head(out).step)
    BY <1>4, ServedKnobs
  <2>2. NoStaleWrite'
    <3>1. \A b \in DOMAIN Tail(out) : b + 1 \in DOMAIN out /\ Tail(out)[b] = out[b + 1]
      BY <1>2, <1>4, HeadTail
    <3> QED BY <1>1, <1>4, <3>1 DEF NoStaleWrite
  <2>3. ASSUME NEW a \in DOMAIN in, in[a].by # "nobody", Head(todo[in[a].by]).do = "write"
        PROVE  InEffect(chip', Head(todo[in[a].by]))
    <3>1. InEffect(chip, Head(todo[in[a].by]))
      BY <1>1, <2>3 DEF Effects
    <3> QED BY <1>3, <2>1, <2>3, <3>1
  <2>4. ASSUME Head(out).by # "nobody", Head(todo[Head(out).by]).do = "write",
               chip' = Served(Head(out).step)
        PROVE  InEffect(chip', Head(todo[Head(out).by]))
    <3>1. 1 \in DOMAIN out /\ Head(out) = out[1]
      BY <1>2, <1>4
    <3>2. Head(out).step = Head(todo[Head(out).by])
      BY <2>4, <3>1 DEF OwnSteps
    <3> QED BY <2>1, <2>4, <3>2
  <2>5. todo' = todo
    BY <1>4
  <2>6. CASE in' = in
    <3>1. \A a \in DOMAIN in' :
            in'[a].by # "nobody" /\ Head(todo'[in'[a].by]).do = "write"
              => InEffect(chip', Head(todo'[in'[a].by]))
      BY ONLY <2>3, <2>5, <2>6
    <3>2. Effects'
      BY ONLY <3>1 DEF Effects, InEffect
    <3> QED BY <2>1, <2>2, <3>2
  <2>7. CASE in' # in
    <3>1. PICK v : in' = Append(in, [kind |-> "reply", seq |-> Head(out).seq,
                                     by |-> Head(out).by, val |-> v])
      BY <1>4, <2>7
    <3> DEFINE m == [kind |-> "reply", seq |-> Head(out).seq, by |-> Head(out).by, val |-> v]
    <3>2. m.by = Head(out).by /\ in' = Append(in, m)
      BY <3>1
    <3> HIDE DEF m
    <3>3. /\ DOMAIN in' = 1 .. (Len(in) + 1) /\ DOMAIN in = 1 .. Len(in) /\ Len(in) \in Nat
          /\ in'[Len(in) + 1] = m /\ \A a \in DOMAIN in : in'[a] = in[a]
      BY <1>2, <3>2
    <3>4. \A a \in DOMAIN in' : (a \in DOMAIN in /\ in'[a] = in[a]) \/ in'[a] = m
      BY <3>3
    <3>5. chip' = Served(Head(out).step)
      BY <1>4, <2>7
    <3>6. Effects'
      BY <2>3, <2>4, <2>5, <3>2, <3>4, <3>5 DEF Effects
    <3> QED BY <2>1, <2>2, <3>6
  <2> QED BY <2>6, <2>7
<1>5. CASE TargetServes
  <2>1. /\ out # <<>> /\ chip' = Served(Head(out).step) /\ out' = Tail(out)
        /\ UNCHANGED <<mirrors, asked, todo>>
        /\ \E v : in' = Append(in, [kind |-> "reply", seq |-> Head(out).seq,
                                    by |-> Head(out).by, val |-> v])
    BY <1>5 DEF TargetServes, history
  <2> QED BY <1>4, <2>1
<1>6. CASE TargetDrops
  <2>1. /\ out # <<>> /\ chip' \in {chip, Served(Head(out).step)} /\ out' = Tail(out)
        /\ UNCHANGED <<mirrors, asked, todo>> /\ in' = in
    BY <1>6 DEF TargetDrops, history
  <2> QED BY <1>4, <2>1
<1>7. CASE TargetEvent \/ Damaged
  <2>1. /\ todo' = todo /\ out' = out /\ channel' = channel /\ width' = width
        /\ power' = power /\ chip' = chip /\ asked' = asked
    BY <1>7 DEF TargetEvent, Damaged, mirrors, history
  <2>2. Programs' /\ NoStaleWrite' /\ Settled'
    BY <1>1, <2>1 DEF Programs, NoStaleWrite, Settled, Due
  <2>3. \A a \in DOMAIN in' : in'[a].by = "nobody" \/ (a \in DOMAIN in /\ in'[a] = in[a])
    BY <1>7, StrayOwners
  <2>4. Effects'
    BY <1>1, <2>1, <2>3 DEF Effects
  <2> QED BY <2>2, <2>4
<1> QED BY <1>5, <1>6, <1>7 DEF Target

LEMMA SendKnobs ==
  ASSUME KnobsInv, AllWell, NEW t \in Threads, Send(t), TypeOK
  PROVE  Programs' /\ NoStaleWrite' /\ Effects' /\ Settled'
<1>1. Programs /\ NoStaleWrite /\ Effects /\ Settled
  BY DEF KnobsInv
<1>2. /\ todo' = todo /\ in' = in /\ channel' = channel /\ width' = width
      /\ power' = power /\ chip' = chip /\ asked' = asked
  BY DEF Send, mirrors, history
<1>3. Programs' /\ Settled'
  BY <1>1, <1>2 DEF Programs, Settled, Due
<1>4. Effects'
  <2>1. \A a \in DOMAIN in' :
          in'[a].by # "nobody" /\ Head(todo'[in'[a].by]).do = "write"
            => InEffect(chip', Head(todo'[in'[a].by]))
    BY <1>1, <1>2 DEF Effects
  <2> QED BY ONLY <2>1 DEF Effects, InEffect
<1>5. NoStaleWrite'
  <2> DEFINE m == [seq |-> seq', by |-> t, step |-> Head(todo[t])]
  <2>1. out' = Append(out, m) /\ m.by = t /\ t # "nobody"
    BY Parameters DEF Send
  <2>2. out \in Seq(Commands)
    BY DEF TypeOK, Commands
  <2> HIDE DEF m
  <2>3. \A b \in DOMAIN out' : (b \in DOMAIN out /\ out'[b] = out[b]) \/ out'[b] = m
    BY <2>1, <2>2
  <2> QED BY <1>1, <2>1, <2>3 DEF NoStaleWrite
<1> QED BY <1>3, <1>4, <1>5

\* Nothing that matters to the knobs changes.
LEMMA KnobsKept ==
  ASSUME KnobsInv, AllWell, UNCHANGED <<mirrors, chip, asked, todo, in, out>>
  PROVE  Programs' /\ NoStaleWrite' /\ Effects' /\ Settled'
<1>1. Programs /\ NoStaleWrite /\ Effects /\ Settled
  BY DEF KnobsInv
<1>2. /\ todo' = todo /\ in' = in /\ out' = out /\ channel' = channel /\ width' = width
      /\ power' = power /\ chip' = chip /\ asked' = asked
  BY DEF mirrors
<1>3. Programs' /\ Settled' /\ NoStaleWrite'
  BY <1>1, <1>2 DEF Programs, Settled, Due, NoStaleWrite
<1>4. Effects'
  <2>1. \A a \in DOMAIN in' :
          in'[a].by # "nobody" /\ Head(todo'[in'[a].by]).do = "write"
            => InEffect(chip', Head(todo'[in'[a].by]))
    BY <1>1, <1>2 DEF Effects
  <2> QED BY ONLY <2>1 DEF Effects, InEffect
<1> QED BY <1>3, <1>4

LEMMA ReturnKnobs ==
  ASSUME TypeOK, LineInv, KnobsInv, AllWell, NEW t \in Threads, Return(t)
  PROVE  Programs' /\ NoStaleWrite' /\ Effects' /\ Settled'
<1>1. /\ pc[t] # "wait" /\ todo[t] = <<>> /\ UNCHANGED <<mirrors, chip, in, out, asked>>
      /\ todo' = [todo EXCEPT ![t] = <<>>]
  BY DEF Return, Forget, pipes
<1>2. todo' = todo
  BY <1>1 DEF TypeOK
<1> QED BY <1>1, <1>2, KnobsKept

\* The threads that have failed stay failed.
LEMMA FailedGrows == TypeOK /\ [Next]_vars => failed \subseteq failed'
<1> SUFFICES ASSUME TypeOK, [Next]_vars PROVE failed \subseteq failed'
  OBVIOUS
<1>1. ASSUME NEW t \in Threads, Calls(t) PROVE failed' = failed
  BY <1>1 DEF Calls, SetChannel, SetTxPower, ReadClockCall, Begin
<1>2. ASSUME NEW t \in Threads, CommandFails(t) PROVE failed \subseteq failed'
  BY <1>2 DEF CommandFails
<1>3. ASSUME NEW t \in Threads, Works(t) PROVE failed \subseteq failed'
  <2>1. CASE EnterSetBandwidth(t) \/ EnterRoutine(t) \/ Return(t) \/ Send(t)
    BY <2>1 DEF EnterSetBandwidth, EnterRoutine, Enter, Return, Send, history
  <2>2. CASE Receive(t)
    <3>1. failed' = failed \/ CommandFails(t) \/ \E m : CommandSucceeds(t, m)
      BY <2>2 DEF Receive, Skip, history
    <3>2. ASSUME NEW m, CommandSucceeds(t, m) PROVE failed \subseteq failed'
      BY <3>2, DoneProgram
    <3> QED BY <1>2, <3>1, <3>2
  <2>3. CASE Timeout(t)
    BY <1>2, <2>3 DEF Timeout
  <2> QED BY <1>3, <2>1, <2>2, <2>3 DEF Works
<1>4. ASSUME NEW t \in Threads, SendFails(t) PROVE failed \subseteq failed'
  BY <1>2, <1>4 DEF SendFails
<1>5. CASE Target
  BY <1>5 DEF Target, TargetServes, TargetDrops, TargetEvent, Damaged, history
<1>6. CASE Tick
  BY <1>6 DEF Tick, history
<1>7. CASE UNCHANGED vars
  BY <1>7 DEF vars
<1> QED BY <1>1, <1>3, <1>4, <1>5, <1>6, <1>7 DEF Next

LEMMA NextKnobs ==
  ASSUME OneTuner, FewStrays, TypeOK, Turns, LineInv, OwnSteps, OnlyReads, KnobsInv, [Next]_vars
  PROVE  KnobsInv'
<1>0. AllWell' => AllWell
  <2>1. failed \subseteq failed'
    BY FailedGrows
  <2> QED BY <2>1 DEF AllWell, Tunes
<1> SUFFICES ASSUME AllWell', AllWell PROVE Programs' /\ NoStaleWrite' /\ Effects' /\ Settled'
  BY <1>0 DEF KnobsInv
<1>1. LineInv'
  BY NextLine
<1>2. ASSUME NEW t \in Threads, Calls(t)
      PROVE  Programs' /\ NoStaleWrite' /\ Effects' /\ Settled'
  BY <1>2, SetChannelKnobs, SetTxPowerKnobs, ReadClockKnobs DEF Calls
<1>3. ASSUME NEW t \in Threads, SendFails(t)
      PROVE  Programs' /\ NoStaleWrite' /\ Effects' /\ Settled'
  <2>1. todo[t] # <<>> /\ CommandFails(t) /\ out' = out
    BY <1>3 DEF SendFails
  <2> QED BY <1>1, <2>1, FailsKnobs
<1>4. ASSUME NEW t \in Threads, Works(t)
      PROVE  Programs' /\ NoStaleWrite' /\ Effects' /\ Settled'
  <2>1. CASE EnterSetBandwidth(t)
    BY <2>1, EnterSetBandwidthKnobs
  <2>2. CASE EnterRoutine(t)
    BY <2>2, EnterRoutineKnobs
  <2>3. CASE Return(t)
    BY <2>3, ReturnKnobs
  <2>4. CASE Send(t)
    BY <2>4, SendKnobs
  <2>5. CASE Receive(t)
    BY <1>1, <2>5, ReceiveKnobs
  <2>6. CASE Timeout(t)
    <3>1. todo[t] # <<>> /\ CommandFails(t) /\ out' = Orphaned(t, out)
      BY <2>6 DEF Timeout, Turns
    <3> QED BY <1>1, <3>1, FailsKnobs
  <2> QED BY <1>4, <2>1, <2>2, <2>3, <2>4, <2>5, <2>6 DEF Works
<1>5. CASE Target
  BY <1>5, TargetKnobs
<1>6. CASE Tick
  <2>1. UNCHANGED <<mirrors, chip, asked, todo, in, out>>
    BY <1>6 DEF Tick, pipes, history
  <2> QED BY <2>1, KnobsKept
<1>7. CASE UNCHANGED vars
  <2>1. UNCHANGED <<mirrors, chip, asked, todo, in, out>>
    BY <1>7 DEF vars, mirrors
  <2> QED BY <2>1, KnobsKept
<1> QED BY <1>2, <1>3, <1>4, <1>5, <1>6, <1>7 DEF Next

LEMMA InitKnobs == Init => OnlyReads /\ KnobsInv
<1> SUFFICES ASSUME Init PROVE OnlyReads /\ KnobsInv
  OBVIOUS
<1>1. /\ todo = [t \in Threads |-> <<>>] /\ op = [t \in Threads |-> "none"]
      /\ in = <<>> /\ out = <<>> /\ asked = -1
      /\ channel = HomeChannel /\ width = HomeWidth
  BY DEF Init
<1>2. chip = [synth |-> Mhz(channel) + (IF width = 40 THEN 10 ELSE 0),
              turbo |-> IF width = 40 THEN 1 ELSE 0,
              column |-> width, gain |-> TopLevel, board |-> CalApplied]
  BY DEF Init
<1>3. chip.synth = Centre(channel, width) /\ chip.column = width /\ chip.board = CalApplied
  BY <1>2 DEF Centre
<1>4. Settled
  BY <1>1, <1>3 DEF Settled
<1>5. Effects /\ NoStaleWrite
  BY <1>1 DEF Effects, NoStaleWrite
<1>6. \A t \in Threads : todo[t] = <<>>
  BY <1>1
<1>7. Programs
  BY <1>6, Empty, InNone DEF Programs, LastReapplies, Alone
<1>8. OnlyReads
  BY <1>6, Empty DEF OnlyReads
<1> QED BY <1>4, <1>5, <1>7, <1>8 DEF KnobsInv

\* With no operation under way nothing is due.
LEMMA QuietIsProgrammed ==
  ASSUME TypeOK, Turns, KnobsInv
  PROVE  KnobsAreProgrammed
<1> SUFFICES ASSUME Quiet, NoFailure("tune"), NoFailure("power")
             PROVE  /\ chip.synth = Mhz(channel) + (IF width = 40 THEN 10 ELSE 0)
                    /\ chip.column = width
                    /\ chip.board = CalApplied
                    /\ asked # -1 => chip.gain = asked
  BY DEF KnobsAreProgrammed
<1>1. AllWell
  BY DEF AllWell, Tunes, NoFailure
<1>2. \A t \in Threads : todo[t] = <<>>
  BY DEF Quiet, Turns
<1>3. \A S : ~Due(S)
  BY <1>2, InNone DEF Due
<1>4. Settled
  BY <1>1 DEF KnobsInv
<1> QED BY <1>3, <1>4 DEF Settled, Centre

\* set_channel and set_tx_power: when no operation is under way and no command of the
\* tuning thread has failed, the chip has the centre and the column of the mirrors, the
\* board calibration and the gain last asked for, whatever other threads read meanwhile
\* and whatever of theirs failed.
THEOREM KnobsAlwaysProgrammed ==
  ASSUME OneTuner, FewStrays PROVE Spec => []KnobsAreProgrammed
<1> DEFINE I == TypeOK /\ Turns /\ LineInv /\ OwnSteps /\ OnlyReads /\ KnobsInv
<1>1. Init => I
  BY InitTypes, InitLine, InitKnobs
<1>2. I /\ [Next]_vars => I'
  BY NextTypes, NextLine, NextReads, NextKnobs
<1>3. I => KnobsAreProgrammed
  BY QuietIsProgrammed
<1> QED BY <1>1, <1>2, <1>3, PTL DEF Spec

----------------------------------------------------------------------------
(* The clock.  The words read so far are those of instants in order between *)
(* the call and now, and so are they with the word of a reply that waits;   *)
(* and less than one turn of the low word has passed.                       *)

Readings(ws, from, to) ==
  \E a, b, c, d \in from .. to :
    /\ a <= b /\ b <= c /\ c <= d
    /\ Len(ws) >= 1 => ws[1] = a \div ClockWord
    /\ Len(ws) >= 2 => ws[2] = b % ClockWord
    /\ Len(ws) >= 3 => ws[3] = c \div ClockWord
    /\ Len(ws) >= 4 => ws[4] = d % ClockWord

\* What is left of read_clock after the words ws.
Rest(ws, p) ==
  \/ Len(ws) = 0 /\ p = ReadClock
  \/ Len(ws) = 1 /\ p = <<Read("lo"), Read("hi"), Call("clock_words", 0)>>
  \/ Len(ws) = 2 /\ p = <<Read("hi"), Call("clock_words", 0)>>
  \/ Len(ws) = 3 /\ p = <<Call("clock_words", 0)>>
  \/ Len(ws) = 3 /\ p = <<>> /\ ws[1] = ws[3]
  \/ Len(ws) = 3 /\ p = <<Read("lo")>> /\ ws[1] # ws[3]
  \/ Len(ws) = 4 /\ p = <<>> /\ ws[1] # ws[3]

ClockOf(t) ==
  /\ since[t] <= tsf /\ tsf < since[t] + ClockWord
  /\ Rest(got[t], todo[t])
  /\ Readings(got[t], since[t], tsf)
  /\ \A i \in DOMAIN in :
       in[i].by = t => Readings(Append(got[t], in[i].val), since[t], tsf)

ClockInv == \A t \in Threads : op[t] = "clock" => ClockOf(t)

LEMMA Turn ==
  ASSUME NEW n \in Nat, NEW w \in Nat, w >= 1
  PROVE  /\ n \div w \in Nat /\ n % w \in 0 .. w - 1
         /\ n = w * (n \div w) + (n % w)
OBVIOUS

\* The words of instants in order within one turn give back one of the instants.
LEMMA WordsAgree ==
  ASSUME NEW w \in Nat, w >= 1, NEW a \in Nat, NEW b \in Nat, NEW c \in Nat,
         a <= b, b <= c, c < a + w
  PROVE  /\ a \div w = c \div w => (c \div w) * w + (b % w) = b
         /\ a \div w # c \div w => \A d \in Nat : c <= d /\ d < a + w => (c \div w) * w + (d % w) = d
<1> DEFINE p == a \div w
           q == b \div w
           r == c \div w
<1>1. /\ p \in Nat /\ q \in Nat /\ r \in Nat
      /\ a % w \in 0 .. w - 1 /\ b % w \in 0 .. w - 1 /\ c % w \in 0 .. w - 1
      /\ a = w * p + (a % w) /\ b = w * q + (b % w) /\ c = w * r + (c % w)
  BY Turn
<1>2. \A x, y \in Nat : x < y => w * x + w <= w * y
  <2> TAKE x \in Nat, y \in Nat
  <2> HAVE x < y
  <2>1. PICK k \in Nat : y = (x + 1) + k
    <3>1. y - (x + 1) \in Nat /\ y = (x + 1) + (y - (x + 1))
      OBVIOUS
    <3> QED BY <3>1
  <2>2. w * y = (w * x + w) + (w * k) /\ w * k \in Nat /\ w * x \in Nat
    BY <2>1
  <2> QED BY <2>2
<1> HIDE DEF p, q, r
<1>3. /\ \A x \in Nat : w * x \in Nat
      /\ \A x \in Nat : x * w = w * x
  OBVIOUS
<1>4. ASSUME p = r PROVE r * w + (b % w) = b
  <2>1. ~(p < q)
    <3> SUFFICES ASSUME r < q PROVE FALSE
      BY <1>4
    <3>1. w * r + w <= w * q
      BY <1>1, <1>2
    <3> QED BY <1>1, <1>3, <3>1
  <2>2. ~(q < p)
    <3> SUFFICES ASSUME q < p PROVE FALSE
      OBVIOUS
    <3>1. w * q + w <= w * p
      BY <1>1, <1>2
    <3> QED BY <1>1, <1>3, <3>1
  <2>3. q = r
    BY <1>1, <1>4, <2>1, <2>2
  <2> QED BY <1>1, <1>3, <2>3
<1>5. ASSUME p # r, NEW d \in Nat, c <= d, d < a + w PROVE r * w + (d % w) = d
  <2> DEFINE s == d \div w
  <2>1. s \in Nat /\ d % w \in 0 .. w - 1 /\ d = w * s + (d % w)
    BY Turn
  <2> HIDE DEF s
  <2>2. ~(r < p)
    <3> SUFFICES ASSUME r < p PROVE FALSE
      OBVIOUS
    <3>1. w * r + w <= w * p
      BY <1>1, <1>2
    <3> QED BY <1>1, <1>3, <3>1
  <2>3. w * p + w <= w * r
    BY <1>1, <1>2, <1>5, <2>2
  <2>4. ~(s < r)
    <3> SUFFICES ASSUME s < r PROVE FALSE
      OBVIOUS
    <3>1. w * s + w <= w * r
      BY <1>1, <1>2, <2>1
    <3> QED BY <1>1, <1>3, <1>5, <2>1, <3>1
  <2>5. ~(r < s)
    <3> SUFFICES ASSUME r < s PROVE FALSE
      OBVIOUS
    <3>1. w * r + w <= w * s
      BY <1>1, <1>2, <2>1
    <3> QED BY <1>1, <1>3, <1>5, <2>1, <2>3, <3>1
  <2>6. s = r
    BY <1>1, <2>1, <2>4, <2>5
  <2> QED BY <1>1, <1>3, <2>1, <2>6
<1> QED BY <1>4, <1>5 DEF p, r

\* What read_clock makes of a full set of words.
LEMMA ReadingIsCurrent ==
  ASSUME NEW ws \in Seq(Nat), NEW from \in Nat, NEW to \in Nat, to < from + ClockWord,
         Rest(ws, <<>>), Readings(ws, from, to)
  PROVE  ClockRead(ws) \in from .. to
<1>1. \/ Len(ws) = 3 /\ ws[1] = ws[3]
      \/ Len(ws) = 4 /\ ws[1] # ws[3]
  <2>1. ReadClock # <<>>
    BY DEF ReadClock
  <2> QED BY <2>1 DEF Rest
<1>2. PICK a, b, c, d \in from .. to :
        /\ a <= b /\ b <= c /\ c <= d
        /\ Len(ws) >= 1 => ws[1] = a \div ClockWord
        /\ Len(ws) >= 2 => ws[2] = b % ClockWord
        /\ Len(ws) >= 3 => ws[3] = c \div ClockWord
        /\ Len(ws) >= 4 => ws[4] = d % ClockWord
  BY DEF Readings
<1>3. /\ a \in Nat /\ b \in Nat /\ c \in Nat /\ d \in Nat
      /\ c < a + ClockWord /\ d < a + ClockWord /\ ClockWord \in Nat /\ ClockWord >= 1
  BY <1>2, Parameters
<1>4. CASE Len(ws) = 3 /\ ws[1] = ws[3]
  <2>1. ClockRead(ws) = (c \div ClockWord) * ClockWord + (b % ClockWord)
    BY <1>2, <1>4 DEF ClockRead
  <2>2. a \div ClockWord = c \div ClockWord
    BY <1>2, <1>4
  <2>3. ClockRead(ws) = b
    BY <1>2, <1>3, <2>1, <2>2, WordsAgree
  <2> QED BY <1>2, <2>3
<1>5. CASE Len(ws) = 4 /\ ws[1] # ws[3]
  <2>1. ClockRead(ws) = (c \div ClockWord) * ClockWord + (d % ClockWord)
    BY <1>2, <1>5 DEF ClockRead
  <2>2. a \div ClockWord # c \div ClockWord
    BY <1>2, <1>5
  <2>3. \A e \in Nat : c <= e /\ e < a + ClockWord
                       => (c \div ClockWord) * ClockWord + (e % ClockWord) = e
    BY <1>2, <1>3, <2>2, WordsAgree
  <2>4. ClockRead(ws) = d
    BY <1>2, <1>3, <2>1, <2>3
  <2> QED BY <1>2, <2>4
<1> QED BY <1>1, <1>4, <1>5

LEMMA ReadingsLater ==
  ASSUME NEW ws, NEW from \in Nat, NEW to \in Nat, Readings(ws, from, to)
  PROVE  Readings(ws, from, to + 1)
<1>1. from .. to \subseteq from .. (to + 1)
  OBVIOUS
<1> QED BY <1>1 DEF Readings

LEMMA ReadingsNone ==
  ASSUME NEW ws, Len(ws) = 0, NEW from \in Nat
  PROVE  Readings(ws, from, from)
<1>1. from \in from .. from /\ from <= from /\ ~(Len(ws) >= 1) /\ ~(Len(ws) >= 2)
      /\ ~(Len(ws) >= 3) /\ ~(Len(ws) >= 4)
  OBVIOUS
<1> QED BY <1>1 DEF Readings

\* The next word is read.
LEMMA ReadingsAppended ==
  ASSUME NEW ws \in Seq(Nat), NEW from \in Nat, NEW to \in Nat, from <= to,
         Readings(ws, from, to), Len(ws) <= 3, NEW v \in Nat,
         v = IF Len(ws) \in {0, 2} THEN to \div ClockWord ELSE to % ClockWord
  PROVE  Readings(Append(ws, v), from, to)
<1> DEFINE us == Append(ws, v)
<1>1. /\ Len(us) = Len(ws) + 1 /\ Len(ws) \in 0 .. 3 /\ us[Len(ws) + 1] = v
      /\ \A i \in 1 .. Len(ws) : us[i] = ws[i]
  <2>1. /\ Len(us) = Len(ws) + 1 /\ Len(ws) \in Nat /\ us[Len(ws) + 1] = v
        /\ DOMAIN ws = 1 .. Len(ws) /\ \A i \in DOMAIN ws : us[i] = ws[i]
    BY Extended
  <2> HIDE DEF us
  <2>2. Len(ws) \in 0 .. 3
    BY ONLY <2>1, Len(ws) <= 3
  <2> QED BY ONLY <2>1, <2>2
<1>2. PICK a, b, c, d \in from .. to :
        /\ a <= b /\ b <= c /\ c <= d
        /\ Len(ws) >= 1 => ws[1] = a \div ClockWord
        /\ Len(ws) >= 2 => ws[2] = b % ClockWord
        /\ Len(ws) >= 3 => ws[3] = c \div ClockWord
        /\ Len(ws) >= 4 => ws[4] = d % ClockWord
  BY DEF Readings
<1>3. to \in from .. to
  OBVIOUS
<1> HIDE DEF us
<1>4. CASE Len(ws) = 0
  <2>1. Len(us) = 1 /\ us[1] = to \div ClockWord
    BY <1>1, <1>4
  <2>2. \E x, y, z, u \in from .. to :
          /\ x <= y /\ y <= z /\ z <= u
          /\ Len(us) >= 1 => us[1] = x \div ClockWord
          /\ Len(us) >= 2 => us[2] = y % ClockWord
          /\ Len(us) >= 3 => us[3] = z \div ClockWord
          /\ Len(us) >= 4 => us[4] = u % ClockWord
    <3> WITNESS to \in from .. to, to \in from .. to, to \in from .. to, to \in from .. to
    <3> QED BY <2>1
  <2> QED BY <2>2 DEF Readings, us
<1>5. CASE Len(ws) = 1
  <2>1. Len(us) = 2 /\ us[1] = a \div ClockWord /\ us[2] = to % ClockWord
    BY <1>1, <1>2, <1>5
  <2>2. \E x, y, z, u \in from .. to :
          /\ x <= y /\ y <= z /\ z <= u
          /\ Len(us) >= 1 => us[1] = x \div ClockWord
          /\ Len(us) >= 2 => us[2] = y % ClockWord
          /\ Len(us) >= 3 => us[3] = z \div ClockWord
          /\ Len(us) >= 4 => us[4] = u % ClockWord
    <3> WITNESS a \in from .. to, to \in from .. to, to \in from .. to, to \in from .. to
    <3> QED BY <1>2, <2>1
  <2> QED BY <2>2 DEF Readings, us
<1>6. CASE Len(ws) = 2
  <2>1. /\ Len(us) = 3 /\ us[1] = a \div ClockWord /\ us[2] = b % ClockWord
        /\ us[3] = to \div ClockWord
    BY <1>1, <1>2, <1>6
  <2>2. \E x, y, z, u \in from .. to :
          /\ x <= y /\ y <= z /\ z <= u
          /\ Len(us) >= 1 => us[1] = x \div ClockWord
          /\ Len(us) >= 2 => us[2] = y % ClockWord
          /\ Len(us) >= 3 => us[3] = z \div ClockWord
          /\ Len(us) >= 4 => us[4] = u % ClockWord
    <3> WITNESS a \in from .. to, b \in from .. to, to \in from .. to, to \in from .. to
    <3> QED BY <1>2, <2>1
  <2> QED BY <2>2 DEF Readings, us
<1>7. CASE Len(ws) = 3
  <2>1. /\ Len(us) = 4 /\ us[1] = a \div ClockWord /\ us[2] = b % ClockWord
        /\ us[3] = c \div ClockWord /\ us[4] = to % ClockWord
    BY <1>1, <1>2, <1>7
  <2>2. \E x, y, z, u \in from .. to :
          /\ x <= y /\ y <= z /\ z <= u
          /\ Len(us) >= 1 => us[1] = x \div ClockWord
          /\ Len(us) >= 2 => us[2] = y % ClockWord
          /\ Len(us) >= 3 => us[3] = z \div ClockWord
          /\ Len(us) >= 4 => us[4] = u % ClockWord
    <3> WITNESS a \in from .. to, b \in from .. to, c \in from .. to, to \in from .. to
    <3> QED BY <1>2, <2>1
  <2> QED BY <2>2 DEF Readings, us
<1> QED BY <1>1, <1>4, <1>5, <1>6, <1>7

LEMMA Listed ==
  /\ \A x, y, z, u : /\ Head(<<x, y, z, u>>) = x /\ Tail(<<x, y, z, u>>) = <<y, z, u>>
                     /\ <<x, y, z, u>> # <<>>
  /\ \A x, y, z : Head(<<x, y, z>>) = x /\ Tail(<<x, y, z>>) = <<y, z>> /\ <<x, y, z>> # <<>>
  /\ \A x, y : Head(<<x, y>>) = x /\ Tail(<<x, y>>) = <<y>> /\ <<x, y>> # <<>>
  /\ \A x : Head(<<x>>) = x /\ Tail(<<x>>) = <<>> /\ <<x>> # <<>>
OBVIOUS

\* The next step of read_clock, and what is left after it.
LEMMA RestHead ==
  ASSUME NEW ws \in Seq(Nat), NEW p, Rest(ws, p), p # <<>>
  PROVE  /\ Head(p).do \in {"read", "call"} /\ Head(p).over = 0
         /\ Head(p).do = "read" =>
              /\ Len(ws) <= 3
              /\ Head(p).at = IF Len(ws) \in {0, 2} THEN "hi" ELSE "lo"
              /\ \A v \in Nat : Rest(Append(ws, v), Tail(p))
         /\ Head(p).do = "call" =>
              /\ Len(ws) = 3 /\ Head(p).at = "clock_words"
              /\ Tail(p) = <<>>
<1>1. /\ \A reg : Read(reg).do = "read" /\ Read(reg).over = 0 /\ Read(reg).at = reg
      /\ Call("clock_words", 0).do = "call" /\ Call("clock_words", 0).over = 0
      /\ Call("clock_words", 0).at = "clock_words"
  BY DEF Read, Call, Step
<1>2. \A v \in Nat : /\ Len(Append(ws, v)) = Len(ws) + 1 /\ Len(ws) \in Nat
                     /\ \A i \in 1 .. Len(ws) : Append(ws, v)[i] = ws[i]
  OBVIOUS
<1>3. CASE Len(ws) = 0 /\ p = ReadClock
  <2>1. Head(p) = Read("hi") /\ Tail(p) = <<Read("lo"), Read("hi"), Call("clock_words", 0)>>
    BY <1>3, Listed DEF ReadClock
  <2>2. \A v \in Nat : Len(Append(ws, v)) = 1
    BY <1>2, <1>3
  <2> QED BY <1>1, <1>3, <2>1, <2>2 DEF Rest
<1>4. CASE Len(ws) = 1 /\ p = <<Read("lo"), Read("hi"), Call("clock_words", 0)>>
  <2>1. Head(p) = Read("lo") /\ Tail(p) = <<Read("hi"), Call("clock_words", 0)>>
    BY <1>4, Listed
  <2>2. \A v \in Nat : Len(Append(ws, v)) = 2
    BY <1>2, <1>4
  <2> QED BY <1>1, <1>4, <2>1, <2>2 DEF Rest
<1>5. CASE Len(ws) = 2 /\ p = <<Read("hi"), Call("clock_words", 0)>>
  <2>1. Head(p) = Read("hi") /\ Tail(p) = <<Call("clock_words", 0)>>
    BY <1>5, Listed
  <2>2. \A v \in Nat : Len(Append(ws, v)) = 3
    BY <1>2, <1>5
  <2> QED BY <1>1, <1>5, <2>1, <2>2 DEF Rest
<1>6. CASE Len(ws) = 3 /\ p = <<Call("clock_words", 0)>>
  <2>1. Head(p) = Call("clock_words", 0) /\ Tail(p) = <<>>
    BY <1>6, Listed
  <2> QED BY <1>1, <1>6, <2>1
<1>7. CASE Len(ws) = 3 /\ p = <<Read("lo")>> /\ ws[1] # ws[3]
  <2>1. Head(p) = Read("lo") /\ Tail(p) = <<>>
    BY <1>7, Listed
  <2>2. \A v \in Nat : /\ Len(Append(ws, v)) = 4
                       /\ Append(ws, v)[1] = ws[1] /\ Append(ws, v)[3] = ws[3]
    BY <1>2, <1>7
  <2> QED BY <1>1, <1>7, <2>1, <2>2 DEF Rest
<1> QED BY <1>3, <1>4, <1>5, <1>6, <1>7 DEF Rest

\* A thread that does not wait owns no message.
LEMMA NotOwner ==
  ASSUME TypeOK, LineInv, NEW t \in Threads, pc[t] # "wait"
  PROVE  \A i \in DOMAIN in : in[i].by # t
<1>1. lock # t /\ t # "nobody"
  BY Parameters DEF TypeOK
<1> QED BY <1>1 DEF LineInv, Owners

\* The clock of a thread that does nothing, while no reply to it is added.
LEMMA ClockStays ==
  ASSUME TypeOK, NEW u \in Threads, ClockOf(u), tsf' = tsf,
         since'[u] = since[u], got'[u] = got[u], todo'[u] = todo[u],
         \A i \in DOMAIN in' : in'[i].by = u =>
           \E j \in DOMAIN in : in[j].by = u /\ in[j].val = in'[i].val
  PROVE  ClockOf(u)'
<1>1. /\ since'[u] <= tsf' /\ tsf' < since'[u] + ClockWord
      /\ Rest(got'[u], todo'[u]) /\ Readings(got'[u], since'[u], tsf')
  BY DEF ClockOf
<1>2. ASSUME NEW i \in DOMAIN in', in'[i].by = u
      PROVE  Readings(Append(got'[u], in'[i].val), since'[u], tsf')
  <2>1. PICK j \in DOMAIN in : in[j].by = u /\ in[j].val = in'[i].val
    BY <1>2
  <2>2. Readings(Append(got[u], in[j].val), since[u], tsf)
    BY <2>1 DEF ClockOf
  <2> QED BY <2>1, <2>2
<1> QED BY <1>1, <1>2 DEF ClockOf

LEMMA ClockOthers ==
  ASSUME TypeOK, ClockInv, NEW t \in Threads, tsf' = tsf,
         \A u \in Threads \ {t} : /\ op'[u] = op[u] /\ since'[u] = since[u]
                                  /\ got'[u] = got[u] /\ todo'[u] = todo[u],
         \A i \in DOMAIN in' : in'[i].by \in Threads \ {t} =>
           \E j \in DOMAIN in : in[j].by = in'[i].by /\ in[j].val = in'[i].val,
         op'[t] = "clock" => ClockOf(t)'
  PROVE  ClockInv'
<1>1. ASSUME NEW u \in Threads, u # t, op'[u] = "clock" PROVE ClockOf(u)'
  <2>1. ClockOf(u)
    BY <1>1 DEF ClockInv
  <2> QED BY <1>1, <2>1, ClockStays
<1> QED BY <1>1 DEF ClockInv

LEMMA ClockSame ==
  ASSUME TypeOK, ClockInv, UNCHANGED <<tsf, op, since, got, todo>>,
         \A i \in DOMAIN in' : in'[i].by # "nobody" =>
           \E j \in DOMAIN in : in[j].by = in'[i].by /\ in[j].val = in'[i].val
  PROVE  ClockInv'
<1>1. ASSUME NEW u \in Threads, op'[u] = "clock" PROVE ClockOf(u)'
  <2>1. ClockOf(u) /\ u # "nobody"
    BY <1>1, Parameters DEF ClockInv
  <2> QED BY <1>1, <2>1, ClockStays
<1> QED BY <1>1 DEF ClockInv

LEMMA CallsClock ==
  ASSUME TypeOK, Turns, LineInv, ClockInv, NEW t \in Threads, Calls(t)
  PROVE  ClockInv'
<1>1. PICK name, steps : /\ Begin(t, name, steps)
                         /\ name = "clock" => steps = ReadClock
  <2>1. ASSUME NEW c \in Channels, NEW w \in Widths, SetChannel(t, c, w)
        PROVE  \E steps : Begin(t, "tune", steps)
    BY <2>1 DEF SetChannel
  <2>2. ASSUME NEW level \in Levels, SetTxPower(t, level)
        PROVE  \E steps : Begin(t, "power", steps)
    BY <2>2 DEF SetTxPower
  <2>3. CASE ReadClockCall(t)
    <3>1. Begin(t, "clock", ReadClock)
      BY <2>3 DEF ReadClockCall
    <3> QED BY <3>1
  <2> QED BY <2>1, <2>2, <2>3 DEF Calls
<1>2. /\ pc[t] = "idle" /\ tsf' = tsf /\ in' = in /\ got' = got
      /\ op' = [op EXCEPT ![t] = name] /\ todo' = [todo EXCEPT ![t] = steps]
      /\ since' = [since EXCEPT ![t] = tsf]
  BY <1>1 DEF Begin, pipes
<1>3. /\ \A u \in Threads \ {t} : /\ op'[u] = op[u] /\ since'[u] = since[u]
                                  /\ got'[u] = got[u] /\ todo'[u] = todo[u]
      /\ op'[t] = name /\ since'[t] = tsf /\ todo'[t] = steps
  BY <1>2 DEF TypeOK
<1>4. ASSUME op'[t] = "clock" PROVE ClockOf(t)'
  <2>1. got'[t] = <<>> /\ Len(<<>>) = 0
    BY <1>2 DEF Turns
  <2>2. todo'[t] = ReadClock
    BY <1>1, <1>3, <1>4
  <2>3. \A i \in DOMAIN in' : in'[i].by # t
    BY <1>2, NotOwner
  <2>4. tsf \in Nat /\ ClockWord \in Nat /\ ClockWord >= 1
    BY Parameters DEF TypeOK
  <2>5. since'[t] <= tsf' /\ tsf' < since'[t] + ClockWord
    BY <1>2, <1>3, <2>4
  <2>6. Readings(got'[t], since'[t], tsf')
    BY <1>2, <1>3, <2>1, <2>4, ReadingsNone
  <2>7. Rest(got'[t], todo'[t])
    BY <2>1, <2>2 DEF Rest
  <2> QED BY <2>3, <2>5, <2>6, <2>7 DEF ClockOf
<1> QED BY <1>2, <1>3, <1>4, ClockOthers

LEMMA EnterClock ==
  ASSUME TypeOK, Turns, LineInv, ClockInv, NEW t \in Threads, EnterSetBandwidth(t) \/ EnterRoutine(t)
  PROVE  ClockInv'
<1>1. PICK steps : /\ Enter(t, steps)
                   /\ Head(todo[t]).at = "clock_words"
                        => steps = IF got[t][1] = got[t][3] THEN <<>> ELSE <<Read("lo")>>
  BY DEF EnterSetBandwidth, EnterRoutine, Reached
<1>2. /\ op' = op /\ since' = since /\ got' = got /\ tsf' = tsf /\ in' = in
      /\ todo' = [todo EXCEPT ![t] = steps \o Tail(todo[t])]
  BY <1>1 DEF Enter, pipes, history
<1>3. /\ \A u \in Threads \ {t} : /\ op'[u] = op[u] /\ since'[u] = since[u]
                                  /\ got'[u] = got[u] /\ todo'[u] = todo[u]
      /\ todo'[t] = steps \o Tail(todo[t])
  BY <1>2 DEF TypeOK
<1>4. ASSUME op'[t] = "clock" PROVE ClockOf(t)'
  <2>1. ClockOf(t) /\ got[t] \in Seq(Nat)
    BY <1>2, <1>4 DEF ClockInv, TypeOK
  <2>2. todo[t] # <<>> /\ Head(todo[t]).do = "call"
    BY DEF EnterSetBandwidth, EnterRoutine, Reached
  <2>3. Len(got[t]) = 3 /\ Head(todo[t]).at = "clock_words" /\ Tail(todo[t]) = <<>>
    BY <2>1, <2>2, RestHead DEF ClockOf
  <2>4. todo'[t] = IF got[t][1] = got[t][3] THEN <<>> ELSE <<Read("lo")>>
    <3>1. \A p \in Seq(ClockSteps) : p \o <<>> = p
      OBVIOUS
    <3>2. steps \in Seq(ClockSteps)
      BY <1>1, <2>3, ClockPrograms, Empty
    <3> QED BY <1>1, <1>3, <2>3, <3>1, <3>2
  <2>5. Rest(got'[t], todo'[t])
    BY <1>2, <2>3, <2>4 DEF Rest
  <2>6. since[t] <= tsf /\ tsf < since[t] + ClockWord /\ Readings(got[t], since[t], tsf)
        /\ \A i \in DOMAIN in : in[i].by # t
    <3>1. pc[t] # "wait"
      BY DEF EnterSetBandwidth, EnterRoutine, Reached
    <3> QED BY <2>1, <3>1, NotOwner DEF ClockOf
  <2> QED BY <1>2, <2>5, <2>6 DEF ClockOf
<1> QED BY <1>2, <1>3, <1>4, ClockOthers

\* A read_clock whose command fails is over.
LEMMA FailsClock ==
  ASSUME TypeOK, Turns, LineInv', ClockInv, NEW t \in Threads, todo[t] # <<>>, CommandFails(t)
  PROVE  ClockInv'
<1>1. /\ lock' = "nobody" /\ tsf' = tsf
      /\ IF Head(todo[t]).over > 0
         THEN /\ todo' = [todo EXCEPT ![t] = PassOver(todo[t])]
              /\ op' = op /\ got' = got /\ since' = since
         ELSE /\ op' = [op EXCEPT ![t] = "none"]
              /\ todo' = [todo EXCEPT ![t] = <<>>]
              /\ got' = [got EXCEPT ![t] = <<>>]
              /\ since' = [since EXCEPT ![t] = 0]
  BY DEF CommandFails, Forget
<1>2. \A i \in DOMAIN in' : in'[i].by = "nobody"
  BY <1>1 DEF LineInv, Owners
<1>3. op'[t] # "clock"
  <2>1. CASE op[t] = "clock"
    <3>1. Rest(got[t], todo[t]) /\ got[t] \in Seq(Nat)
      BY <2>1 DEF ClockInv, ClockOf, TypeOK
    <3>2. Head(todo[t]).over = 0
      BY <3>1, RestHead
    <3>3. op' = [op EXCEPT ![t] = "none"]
      BY <1>1, <3>2
    <3> QED BY <3>3 DEF TypeOK
  <2>2. CASE op[t] # "clock"
    BY <1>1, <2>2 DEF TypeOK
  <2> QED BY <2>1, <2>2
<1>4. \A u \in Threads \ {t} : /\ op'[u] = op[u] /\ since'[u] = since[u]
                               /\ got'[u] = got[u] /\ todo'[u] = todo[u]
  BY <1>1 DEF TypeOK
<1>5. \A i \in DOMAIN in' : in'[i].by \notin Threads
  BY <1>2, Parameters
<1> QED BY <1>1, <1>3, <1>4, <1>5, ClockOthers

LEMMA ReceiveClock ==
  ASSUME TypeOK, Turns, LineInv, LineInv', ClockInv, NEW t \in Threads, Receive(t)
  PROVE  ClockInv'
<1>0. /\ pc[t] = "wait" /\ in # <<>> /\ todo[t] # <<>> /\ Head(todo[t]).do # "call"
      /\ in \in Seq(Messages)
  BY StrayTypes DEF Receive, Turns
<1> DEFINE m == Head(in)
<1>1. ASSUME IsOwnReply(m), in' = Tail(in), CommandSucceeds(t, m)
      PROVE  ClockInv'
  <2>1. Tail(in) = <<>> /\ m.by = t /\ in[1] = m /\ 1 \in DOMAIN in
    BY <1>0, <1>1, OwnReplyIsLast, TakenLine
  <2>2. m.val \in Nat
    <3>1. m \in Messages
      BY <1>0, HeadTail
    <3> QED BY <3>1 DEF Messages, Pipe
  <2> DEFINE s == Head(todo[t])
  <2>3. /\ op' = op /\ since' = since /\ tsf' = tsf
        /\ todo' = [todo EXCEPT ![t] =
             IF s.do = "wait" /\ m.val = 1 THEN PassOver(todo[t]) ELSE Tail(todo[t])]
        /\ got' = IF s.at \in {"hi", "lo"} THEN [got EXCEPT ![t] = Append(got[t], m.val)] ELSE got
    BY <1>1 DEF CommandSucceeds
  <2>4. \A u \in Threads \ {t} : /\ op'[u] = op[u] /\ since'[u] = since[u]
                                 /\ got'[u] = got[u] /\ todo'[u] = todo[u]
    BY <2>3 DEF TypeOK
  <2>5. DOMAIN in' = {}
    BY <1>1, <2>1
  <2>6. ASSUME op'[t] = "clock" PROVE ClockOf(t)'
    <3>1. ClockOf(t) /\ got[t] \in Seq(Nat)
      BY <2>3, <2>6 DEF ClockInv, TypeOK
    <3>2. /\ s.do = "read" /\ s.at \in {"hi", "lo"}
          /\ \A v \in Nat : Rest(Append(got[t], v), Tail(todo[t]))
      BY <1>0, <3>1, RestHead DEF ClockOf
    <3>3. got'[t] = Append(got[t], m.val) /\ todo'[t] = Tail(todo[t])
      BY <2>3, <3>2 DEF TypeOK
    <3>4. Rest(got'[t], todo'[t])
      BY <2>2, <3>2, <3>3
    <3>5. Readings(got'[t], since[t], tsf) /\ since[t] <= tsf /\ tsf < since[t] + ClockWord
      BY <2>1, <3>1, <3>3 DEF ClockOf
    <3> QED BY <2>3, <2>5, <3>4, <3>5 DEF ClockOf
  <2> QED BY <2>3, <2>4, <2>5, <2>6, ClockOthers
<1>2. ASSUME CommandFails(t) PROVE ClockInv'
  BY <1>0, <1>2, FailsClock
<1>3. ASSUME in' = Tail(in), tries > 1, Skip(t) PROVE ClockInv'
  <2>1. UNCHANGED <<tsf, op, since, got, todo>>
    BY <1>3 DEF Skip, history
  <2>2. \A i \in DOMAIN Tail(in) : i + 1 \in DOMAIN in /\ Tail(in)[i] = in[i + 1]
    BY <1>0, HeadTail
  <2> QED BY <1>3, <2>1, <2>2, ClockSame
<1>4. \/ IsOwnReply(m) /\ in' = Tail(in) /\ CommandSucceeds(t, m)
      \/ CommandFails(t)
      \/ tries > 1 /\ in' = Tail(in) /\ Skip(t)
  <2> HIDE DEF m
  <2> QED BY DEF Receive, Skip, m
<1> QED BY <1>1, <1>2, <1>3, <1>4

\* The target answers: the reply to a read of the clock is the word of now.
LEMMA ServesClock ==
  ASSUME TypeOK, Turns, LineInv, OwnSteps, ClockInv, TargetServes
  PROVE  ClockInv'
<1> DEFINE c == Head(out)
<1>0. in \in Seq(Messages) /\ out \in Seq(Commands) /\ out # <<>> /\ tsf \in Nat
  BY StrayTypes DEF TargetServes, TypeOK
<1>1. c = out[1] /\ 1 \in DOMAIN out
  BY <1>0
<1>2. /\ UNCHANGED <<tsf, op, since, got, todo>>
  BY DEF TargetServes, history
<1>3. PICK v \in Answers(c.step) :
        in' = Append(in, [kind |-> "reply", seq |-> c.seq, by |-> c.by, val |-> v])
  BY DEF TargetServes
<1> DEFINE m == [kind |-> "reply", seq |-> c.seq, by |-> c.by, val |-> v]
<1>4. m.by = c.by /\ m.val = v /\ in' = Append(in, m)
  BY <1>3
<1> HIDE DEF m, c
<1>5. \A i \in DOMAIN in' : (i \in DOMAIN in /\ in'[i] = in[i]) \/ in'[i] = m
  BY <1>0, <1>4
<1>6. ASSUME NEW u \in Threads, op[u] = "clock", c.by = u
      PROVE  Readings(Append(got[u], v), since[u], tsf)
  <2>1. u # "nobody" /\ lock = u /\ pc[u] = "wait"
    BY <1>1, <1>6, Parameters DEF LineInv, Owners, TypeOK
  <2>2. c.step = Head(todo[u]) /\ todo[u] # <<>> /\ c.step.do # "call"
    BY <1>1, <1>6, <2>1 DEF OwnSteps, Turns
  <2>3. ClockOf(u) /\ got[u] \in Seq(Nat) /\ since[u] \in Nat
    BY <1>6 DEF ClockInv, TypeOK
  <2>4. /\ Len(got[u]) <= 3 /\ c.step.do = "read"
        /\ c.step.at = IF Len(got[u]) \in {0, 2} THEN "hi" ELSE "lo"
    BY <2>2, <2>3, RestHead DEF ClockOf
  <2>5. v = IF Len(got[u]) \in {0, 2} THEN tsf \div ClockWord ELSE tsf % ClockWord
    <3>1. v \in Answers(c.step)
      BY <1>3
    <3>2. CASE Len(got[u]) \in {0, 2}
      BY <2>4, <3>1, <3>2 DEF Answers
    <3>3. CASE Len(got[u]) \notin {0, 2}
      BY <2>4, <3>1, <3>3 DEF Answers
    <3> QED BY <3>2, <3>3
  <2>6. v \in Nat
    <3>1. tsf \div ClockWord \in Nat /\ tsf % ClockWord \in 0 .. ClockWord - 1
      BY <1>0, Parameters, Turn
    <3> QED BY <2>5, <3>1, Parameters
  <2>7. since[u] <= tsf /\ Readings(got[u], since[u], tsf)
    BY <2>3 DEF ClockOf
  <2> QED BY <1>0, <2>3, <2>4, <2>5, <2>6, <2>7, ReadingsAppended
<1>7. ASSUME NEW u \in Threads, op'[u] = "clock" PROVE ClockOf(u)'
  <2>1. ClockOf(u) /\ op[u] = "clock"
    BY <1>2, <1>7 DEF ClockInv
  <2>2. \A i \in DOMAIN in' : in'[i].by = u => Readings(Append(got[u], in'[i].val), since[u], tsf)
    <3> TAKE i \in DOMAIN in'
    <3> HAVE in'[i].by = u
    <3>1. CASE i \in DOMAIN in /\ in'[i] = in[i]
      BY <2>1, <3>1 DEF ClockOf
    <3>2. CASE in'[i] = m
      <4>1. in'[i].val = v /\ c.by = u
        BY <1>4, <3>2
      <4> QED BY <1>6, <2>1, <4>1
    <3> QED BY <1>5, <3>1, <3>2
  <2> QED BY <1>2, <2>1, <2>2 DEF ClockOf
<1> QED BY <1>7 DEF ClockInv

LEMMA TickClock ==
  ASSUME TypeOK, ClockInv, Tick
  PROVE  ClockInv'
<1>1. ASSUME NEW u \in Threads, op'[u] = "clock" PROVE ClockOf(u)'
  <2>1. op[u] = "clock" /\ UNCHANGED <<op, since, got, todo, in>> /\ tsf' = tsf + 1
    BY <1>1 DEF Tick, pipes, history
  <2>2. ClockOf(u) /\ since[u] \in Nat /\ tsf \in Nat /\ ClockWord \in Nat
    BY <2>1, Parameters DEF ClockInv, TypeOK
  <2>3. tsf + 1 - since[u] < ClockWord
    BY <2>1 DEF Tick
  <2>4. since[u] <= tsf + 1 /\ tsf + 1 < since[u] + ClockWord
    BY <2>2, <2>3 DEF ClockOf
  <2>5. /\ Rest(got[u], todo[u]) /\ Readings(got[u], since[u], tsf + 1)
        /\ \A i \in DOMAIN in :
             in[i].by = u => Readings(Append(got[u], in[i].val), since[u], tsf + 1)
    BY <2>2, ReadingsLater DEF ClockOf
  <2> QED BY <2>1, <2>4, <2>5 DEF ClockOf
<1> QED BY <1>1 DEF ClockInv

LEMMA NextClock ==
  ASSUME FewStrays, TypeOK, Turns, LineInv, OwnSteps, ClockInv, [Next]_vars
  PROVE  ClockInv'
<1>1. LineInv'
  BY NextLine
<1>2. ASSUME NEW t \in Threads, Calls(t) \/ Works(t) \/ SendFails(t)
      PROVE  ClockInv'
  <2>1. CASE Calls(t)
    BY <2>1, CallsClock
  <2>2. CASE SendFails(t)
    <3>1. todo[t] # <<>> /\ CommandFails(t)
      BY <2>2 DEF SendFails
    <3> QED BY <1>1, <3>1, FailsClock
  <2>3. CASE EnterSetBandwidth(t) \/ EnterRoutine(t)
    BY <2>3, EnterClock
  <2>4. CASE Return(t)
    <3>1. /\ op' = [op EXCEPT ![t] = "none"] /\ todo' = [todo EXCEPT ![t] = <<>>]
          /\ got' = [got EXCEPT ![t] = <<>>] /\ since' = [since EXCEPT ![t] = 0]
          /\ tsf' = tsf /\ in' = in
      BY <2>4 DEF Return, Forget, pipes
    <3>2. /\ \A u \in Threads \ {t} : /\ op'[u] = op[u] /\ since'[u] = since[u]
                                      /\ got'[u] = got[u] /\ todo'[u] = todo[u]
          /\ op'[t] # "clock"
      BY <3>1 DEF TypeOK
    <3> QED BY <3>1, <3>2, ClockOthers
  <2>5. CASE Send(t)
    <3>1. UNCHANGED <<tsf, op, since, got, todo, in>>
      BY <2>5 DEF Send, history
    <3> QED BY <3>1, ClockSame
  <2>6. CASE Receive(t)
    BY <1>1, <2>6, ReceiveClock
  <2>7. CASE Timeout(t)
    <3>1. todo[t] # <<>> /\ CommandFails(t)
      BY <2>7 DEF Timeout, Turns
    <3> QED BY <1>1, <3>1, FailsClock
  <2> QED BY <1>2, <2>1, <2>2, <2>3, <2>4, <2>5, <2>6, <2>7 DEF Works
<1>3. CASE TargetServes
  BY <1>3, ServesClock
<1>4. CASE TargetDrops
  <2>1. UNCHANGED <<tsf, op, since, got, todo, in>>
    BY <1>4 DEF TargetDrops, history
  <2> QED BY <2>1, ClockSame
<1>5. CASE TargetEvent \/ Damaged
  <2>1. UNCHANGED <<tsf, op, since, got, todo>>
    BY <1>5 DEF TargetEvent, Damaged, history
  <2>2. \A i \in DOMAIN in' : in'[i].by = "nobody" \/ (i \in DOMAIN in /\ in'[i] = in[i])
    BY <1>5, StrayOwners
  <2> QED BY <2>1, <2>2, ClockSame
<1>6. CASE Tick
  BY <1>6, TickClock
<1>7. CASE UNCHANGED vars
  <2>1. UNCHANGED <<tsf, op, since, got, todo, in>>
    BY <1>7 DEF vars
  <2> QED BY <2>1, ClockSame
<1> QED BY <1>2, <1>3, <1>4, <1>5, <1>6, <1>7 DEF Next, Target

\* read_clock: the time it returns is one between its call and its return, also when the
\* low word wraps between two of its reads.
THEOREM ClockAlwaysCurrent == ASSUME FewStrays PROVE Spec => ClockIsCurrent
<1> DEFINE I == TypeOK /\ Turns /\ LineInv /\ OwnSteps /\ ClockInv
           Current == \A t \in Threads :
                        op[t] = "clock" /\ Return(t) => ClockRead(got[t]) \in since[t] .. tsf
<1>1. Init => I
  <2>1. Init => ClockInv
    <3>1. Init => \A t \in Threads : op[t] = "none"
      BY DEF Init
    <3> QED BY <3>1 DEF ClockInv
  <2> QED BY <2>1, InitTypes, InitLine
<1>2. I /\ [Next]_vars => I'
  BY NextTypes, NextLine, NextClock
<1>3. I /\ [Next]_vars => [Current]_vars
  <2> SUFFICES ASSUME I, NEW t \in Threads, op[t] = "clock", Return(t)
               PROVE  ClockRead(got[t]) \in since[t] .. tsf
    OBVIOUS
  <2>1. todo[t] = <<>> /\ ClockOf(t) /\ got[t] \in Seq(Nat) /\ since[t] \in Nat /\ tsf \in Nat
    BY DEF Return, ClockInv, TypeOK
  <2> QED BY <2>1, ReadingIsCurrent DEF ClockOf
<1> QED BY <1>1, <1>2, <1>3, PTL DEF Spec, ClockIsCurrent

----------------------------------------------------------------------------
(* The register file.  The command under way is the last in its pipe and    *)
(* alone in being owned, so that what happens to it is told from what       *)
(* happens to those that were given up.                                     *)

\* The commands of a pipe that were given up: `left` is Given(out).
Given(o) == [i \in 1 .. Len(o) - (IF OnItsWay(o) THEN 1 ELSE 0) |-> o[i].step]

\* What is owned in a pipe of commands is its last one, of thread t.
OwnsLast(o, t) == \A b \in DOMAIN o : o[b].by # "nobody" => b = Len(o) /\ o[b].by = t

LEMMA GivenType ==
  ASSUME NEW o \in Seq(Commands)
  PROVE  /\ Given(o) \in Seq(Steps) /\ Len(o) \in Nat /\ DOMAIN o = 1 .. Len(o)
         /\ OnItsWay(o) => Len(o) >= 1 /\ Len(Given(o)) = Len(o) - 1
         /\ ~OnItsWay(o) => Len(Given(o)) = Len(o)
         /\ Len(Given(o)) \in Nat
         /\ \A i \in 1 .. Len(Given(o)) : Given(o)[i] = o[i].step
<1> DEFINE n == Len(o) - (IF OnItsWay(o) THEN 1 ELSE 0)
<1>1. /\ Len(o) \in Nat /\ DOMAIN o = 1 .. Len(o) /\ (OnItsWay(o) => Len(o) >= 1)
      /\ \A i \in DOMAIN o : o[i] \in Commands
  BY DEF OnItsWay
<1>2. \A i \in DOMAIN o : o[i].step \in Steps
  BY <1>1 DEF Commands
<1>3. n \in Nat /\ n <= Len(o)
  BY <1>1
<1>4. Given(o) = [i \in 1 .. n |-> o[i].step]
  BY DEF Given
<1> HIDE DEF n
<1>5. \A i \in 1 .. n : o[i].step \in Steps
  BY <1>1, <1>2, <1>3
<1>6. Given(o) \in [1 .. n -> Steps]
  BY <1>4, <1>5
<1>7. Given(o) \in Seq(Steps) /\ Len(Given(o)) = n
  BY <1>3, <1>6
<1>8. \A i \in 1 .. n : Given(o)[i] = o[i].step
  BY <1>4
<1>9. (OnItsWay(o) => n = Len(o) - 1) /\ (~OnItsWay(o) => n = Len(o))
  <2>1. Len(o) \in Nat
    BY <1>1
  <2>2. ASSUME OnItsWay(o) PROVE n = Len(o) - 1
    BY <2>1, <2>2 DEF n
  <2>3. ASSUME ~OnItsWay(o) PROVE n = Len(o)
    BY <2>1, <2>3 DEF n
  <2> QED BY <2>2, <2>3
<1> QED BY <1>1, <1>3, <1>7, <1>8, <1>9

\* Sequences of steps are equal when their elements are.
LEMMA StepsEqual ==
  ASSUME NEW p \in Seq(Steps), NEW q \in Seq(Steps), Len(p) = Len(q),
         \A i \in 1 .. Len(p) : p[i] = q[i]
  PROVE  p = q
OBVIOUS

\* A command that is sent is not given up.
LEMMA GivenSent ==
  ASSUME NEW o \in Seq(Commands), ~OnItsWay(o), NEW c \in Commands, c.by # "nobody"
  PROVE  OnItsWay(Append(o, c)) /\ Given(Append(o, c)) = Given(o)
<1> DEFINE p == Append(o, c)
<1>1. /\ p \in Seq(Commands) /\ Len(p) = Len(o) + 1 /\ Len(o) \in Nat /\ p # <<>>
      /\ p[Len(o) + 1] = c /\ \A b \in 1 .. Len(o) : p[b] = o[b]
  OBVIOUS
<1> HIDE DEF p
<1>2. OnItsWay(p)
  BY <1>1 DEF OnItsWay
<1>3. Len(Given(p)) = Len(o) /\ Len(Given(o)) = Len(o)
  BY <1>1, <1>2, GivenType
<1>4. \A i \in 1 .. Len(o) : Given(p)[i] = Given(o)[i]
  BY <1>1, <1>3, GivenType
<1>5. Given(p) = Given(o)
  BY <1>1, <1>3, <1>4, GivenType, StepsEqual
<1> QED BY <1>2, <1>5 DEF p

\* One that is given up follows those before it.
LEMMA GivenUp ==
  ASSUME NEW o \in Seq(Commands), NEW t \in Threads, OwnsLast(o, t)
  PROVE  /\ ~OnItsWay(Orphaned(t, o))
         /\ OnItsWay(o) => Given(Orphaned(t, o)) = Append(Given(o), o[Len(o)].step)
         /\ ~OnItsWay(o) => Given(Orphaned(t, o)) = Given(o)
<1> DEFINE p == Orphaned(t, o)
<1>1. /\ p \in Seq(Commands) /\ Len(p) = Len(o) /\ DOMAIN p = DOMAIN o
      /\ \A i \in DOMAIN o : p[i] = IF o[i].by = t THEN [o[i] EXCEPT !.by = "nobody"] ELSE o[i]
  BY OrphanedTypes
<1>2. /\ DOMAIN o = 1 .. Len(o) /\ Len(o) \in Nat /\ (o # <<>> => Len(o) \in DOMAIN o)
      /\ (p = <<>> <=> o = <<>>) /\ \A i \in DOMAIN o : o[i] \in Commands
  BY <1>1
<1> HIDE DEF p
<1>3. \A i \in DOMAIN o : p[i].step = o[i].step /\ p[i].by = "nobody"
  BY <1>1, <1>2 DEF OwnsLast, Commands
<1>4. ~OnItsWay(p)
  BY <1>1, <1>2, <1>3 DEF OnItsWay
<1>5. /\ Given(p) \in Seq(Steps) /\ Len(Given(p)) = Len(o)
      /\ \A i \in 1 .. Len(o) : Given(p)[i] = o[i].step
  BY <1>1, <1>2, <1>3, <1>4, GivenType
<1>6. ASSUME OnItsWay(o) PROVE Given(p) = Append(Given(o), o[Len(o)].step)
  <2>1. /\ Given(o) \in Seq(Steps) /\ Len(Given(o)) = Len(o) - 1 /\ Len(o) >= 1
        /\ \A i \in 1 .. Len(o) - 1 : Given(o)[i] = o[i].step
    BY <1>6, GivenType
  <2>2. o[Len(o)].step \in Steps
    BY <1>2, <2>1 DEF Commands
  <2> DEFINE q == Append(Given(o), o[Len(o)].step)
  <2>3. /\ q \in Seq(Steps) /\ Len(q) = Len(o) /\ q[Len(o)] = o[Len(o)].step
        /\ \A i \in 1 .. Len(o) - 1 : q[i] = Given(o)[i]
    <3>1. DOMAIN Given(o) = 1 .. Len(Given(o)) /\ Len(Given(o)) + 1 = Len(o)
      BY <1>2, <2>1
    <3> QED BY <2>1, <2>2, <3>1, Extended
  <2> HIDE DEF q
  <2>4. \A i \in 1 .. Len(o) : q[i] = o[i].step
    <3> TAKE i \in 1 .. Len(o)
    <3>1. Len(o) \in Nat
      BY <1>2
    <3>2. i = Len(o) \/ i \in 1 .. Len(o) - 1
      BY <3>1
    <3> QED BY <2>1, <2>3, <3>2
  <2>5. Given(p) = q
    BY <1>5, <2>3, <2>4, StepsEqual
  <2> QED BY <2>5 DEF q
<1>7. ASSUME ~OnItsWay(o) PROVE Given(p) = Given(o)
  BY <1>5, <1>7, GivenType, StepsEqual
<1> QED BY <1>4, <1>6, <1>7 DEF p

\* The oldest command of a pipe was given up, or is the one under way, alone.
LEMMA GivenTaken ==
  ASSUME NEW o \in Seq(Commands), o # <<>>, NEW t, OwnsLast(o, t)
  PROVE  /\ Head(o).by = "nobody" =>
              /\ OnItsWay(Tail(o)) = OnItsWay(o)
              /\ Given(o) # <<>> /\ Head(Given(o)) = Head(o).step
              /\ Given(Tail(o)) = Tail(Given(o))
         /\ Head(o).by # "nobody" =>
              OnItsWay(o) /\ Given(o) = <<>> /\ Tail(o) = <<>> /\ o[Len(o)] = Head(o)
<1> DEFINE p == Tail(o)
<1>1. /\ Head(o) = o[1] /\ 1 \in DOMAIN o /\ Len(o) \in Nat /\ Len(o) >= 1
      /\ p \in Seq(Commands) /\ Len(p) = Len(o) - 1
      /\ \A i \in 1 .. Len(o) - 1 : p[i] = o[i + 1]
      /\ DOMAIN o = 1 .. Len(o) /\ (p = <<>> <=> Len(o) = 1)
  <2>1. /\ p \in Seq(Commands) /\ Len(p) = Len(o) - 1 /\ DOMAIN p = 1 .. Len(p)
        /\ Head(o) = o[1] /\ Len(o) \in Nat /\ Len(o) >= 1
        /\ \A i \in DOMAIN p : p[i] = o[i + 1]
    BY HeadTail
  <2> HIDE DEF p
  <2>2. p = <<>> <=> Len(p) = 0
    BY <2>1
  <2> QED BY <2>1, <2>2
<1> HIDE DEF p
<1>2. ASSUME o[1].by # "nobody"
      PROVE  OnItsWay(o) /\ Given(o) = <<>> /\ p = <<>> /\ o[Len(o)] = o[1]
  <2>1. Len(o) = 1
    BY <1>1, <1>2 DEF OwnsLast
  <2>2. OnItsWay(o)
    BY <1>2, <2>1 DEF OnItsWay
  <2>3. Given(o) \in Seq(Steps) /\ Len(Given(o)) = 0
    BY <2>1, <2>2, GivenType
  <2>4. Given(o) = <<>>
    BY <2>3
  <2> QED BY <1>1, <2>1, <2>2, <2>4
<1>3. ASSUME o[1].by = "nobody"
      PROVE  /\ OnItsWay(p) = OnItsWay(o)
             /\ Given(o) # <<>> /\ Head(Given(o)) = o[1].step /\ Given(p) = Tail(Given(o))
  <2>1. Len(o) = 1 => ~OnItsWay(o) /\ ~OnItsWay(p)
    BY <1>1, <1>3 DEF OnItsWay
  <2>2. Len(o) # 1 => p[Len(p)] = o[Len(o)] /\ p # <<>>
    <3> SUFFICES ASSUME Len(o) # 1 PROVE p[Len(p)] = o[Len(o)] /\ p # <<>>
      OBVIOUS
    <3>1. Len(p) \in 1 .. Len(o) - 1 /\ Len(p) + 1 = Len(o)
      BY <1>1
    <3> QED BY <1>1, <3>1
  <2>3. OnItsWay(p) <=> OnItsWay(o)
    BY <2>1, <2>2 DEF OnItsWay
  <2>4. OnItsWay(p) \in BOOLEAN /\ OnItsWay(o) \in BOOLEAN
    BY DEF OnItsWay
  <2>5. /\ Given(o) \in Seq(Steps) /\ Given(p) \in Seq(Steps)
        /\ Len(Given(o)) \in Nat /\ Len(Given(o)) >= 1
        /\ Len(Given(p)) = Len(Given(o)) - 1 /\ Len(Given(o)) <= Len(o)
        /\ \A i \in 1 .. Len(Given(o)) : Given(o)[i] = o[i].step
        /\ \A i \in 1 .. Len(Given(p)) : Given(p)[i] = p[i].step
    BY <1>1, <2>1, <2>3, GivenType
  <2>6. /\ Given(o) # <<>> /\ Head(Given(o)) = Given(o)[1]
        /\ Tail(Given(o)) \in Seq(Steps) /\ Len(Tail(Given(o))) = Len(Given(o)) - 1
        /\ \A i \in 1 .. Len(Given(o)) - 1 : Tail(Given(o))[i] = Given(o)[i + 1]
    BY <2>5
  <2>7. \A i \in 1 .. Len(Given(p)) : Given(p)[i] = Tail(Given(o))[i]
    <3> TAKE i \in 1 .. Len(Given(p))
    <3>1. i \in 1 .. Len(Given(o)) - 1 /\ i + 1 \in 1 .. Len(Given(o)) /\ i \in 1 .. Len(o) - 1
      BY <1>1, <2>5
    <3> QED BY <1>1, <2>5, <2>6, <3>1
  <2>8. Given(p) = Tail(Given(o))
    BY <2>5, <2>6, <2>7, StepsEqual
  <2>9. Head(Given(o)) = o[1].step
    BY <2>5, <2>6
  <2> QED BY <2>3, <2>4, <2>6, <2>8, <2>9
<1> QED BY <1>1, <1>2, <1>3 DEF p

\* What belongs to the command under way is the last of its pipe, and in one of them.
LEMMA OwnLast ==
  ASSUME TypeOK, Turns, LineInv, OwnSteps
  PROVE  /\ in \in Seq(Messages) /\ out \in Seq(Commands)
         /\ OwnsLast(out, lock)
         /\ \A a \in DOMAIN in :
              in[a].by # "nobody" => a = Len(in) /\ in[a].by = lock /\ out = <<>>
         /\ OnItsWay(out) => ~OnItsWay(in) /\ lock \in Threads /\ pc[lock] = "wait"
                             /\ out[Len(out)].step = Head(todo[lock])
         /\ OnItsWay(in) => out = <<>>
         /\ lock = "nobody" => ~OnItsWay(out) /\ ~OnItsWay(in)
<1>1. /\ Line(in, out, seq, Strays) /\ Owners(in, out, seq, lock)
      /\ Strays \in Nat /\ seq \in Numbers /\ in \in Seq(Messages) /\ out \in Seq(Commands)
  BY StrayTypes DEF LineInv
<1>2. /\ \A a \in DOMAIN in : Age(seq, in[a].seq) \in Numbers
      /\ \A b \in DOMAIN out : Age(seq, out[b].seq) \in Numbers
      /\ \A n \in Numbers : ~(0 > n)
  BY <1>1, LineTypes DEF Numbers
<1>3. /\ DOMAIN in = 1 .. Len(in) /\ Len(in) \in Nat
      /\ DOMAIN out = 1 .. Len(out) /\ Len(out) \in Nat
      /\ (out # <<>> => Len(out) \in DOMAIN out /\ 1 \in DOMAIN out)
      /\ (in # <<>> => Len(in) \in DOMAIN in)
  BY <1>1
<1>4. ASSUME NEW b \in DOMAIN out, out[b].by # "nobody"
      PROVE  b = Len(out) /\ out[b].by = lock
  <2>1. out[b].by = lock /\ Age(seq, out[b].seq) = 0
    BY <1>1, <1>4 DEF Owners
  <2>2. ASSUME b # Len(out) PROVE FALSE
    <3>1. b < Len(out) /\ Len(out) \in DOMAIN out
      BY <1>3, <2>2
    <3>2. 0 > Age(seq, out[Len(out)].seq)
      BY <1>1, <2>1, <3>1 DEF Line
    <3> QED BY <1>2, <3>1, <3>2
  <2> QED BY <2>1, <2>2
<1>5. ASSUME NEW a \in DOMAIN in, in[a].by # "nobody"
      PROVE  a = Len(in) /\ in[a].by = lock /\ out = <<>>
  <2>1. in[a].by = lock /\ IsReply(in[a]) /\ Age(seq, in[a].seq) = 0
    BY <1>1, <1>5 DEF Owners
  <2>2. ASSUME a # Len(in) PROVE FALSE
    <3>1. a < Len(in) /\ Len(in) \in DOMAIN in
      BY <1>3, <2>2
    <3>2. 0 > Age(seq, in[Len(in)].seq)
      BY <1>1, <2>1, <3>1 DEF Line
    <3> QED BY <1>2, <3>1, <3>2
  <2>3. ASSUME out # <<>> PROVE FALSE
    <3>1. 0 > Age(seq, out[1].seq) /\ 1 \in DOMAIN out
      BY <1>1, <1>3, <2>1, <2>3 DEF Line
    <3> QED BY <1>2, <3>1
  <2> QED BY <2>1, <2>2, <2>3
<1>6. ASSUME OnItsWay(out)
      PROVE  /\ ~OnItsWay(in) /\ lock \in Threads /\ pc[lock] = "wait"
             /\ out[Len(out)].step = Head(todo[lock])
  <2>1. /\ out # <<>> /\ Len(out) \in DOMAIN out /\ out[Len(out)].by # "nobody"
        /\ out[Len(out)].by = lock
    BY <1>3, <1>4, <1>6 DEF OnItsWay
  <2>2. lock \in Threads
    BY <2>1 DEF TypeOK
  <2>3. pc[lock] = "wait"
    BY <2>2 DEF TypeOK
  <2>4. ~OnItsWay(in)
    BY <1>3, <1>5, <2>1 DEF OnItsWay
  <2> QED BY <2>1, <2>2, <2>3, <2>4 DEF OwnSteps
<1>7. OnItsWay(in) => out = <<>>
  BY <1>3, <1>5 DEF OnItsWay
<1>8. lock = "nobody" => ~OnItsWay(out) /\ ~OnItsWay(in)
  BY <1>3, <1>4, <1>5 DEF OnItsWay
<1> QED BY <1>1, <1>4, <1>5, <1>6, <1>7, <1>8 DEF OwnsLast

\* Steps that leave the pipes and the chip alone.
LEMMA FileSame ==
  ASSUME UNCHANGED <<lock, out, in, chip, tsf, failed>>,
         lock # "nobody" => todo'[lock] = todo[lock]
  PROVE  /\ UNCHANGED <<chip, tsf, lock, command, stage, value, left, failed>>
         /\ got' = got => UNCHANGED File!vars
<1>1. OnItsWay(out)' = OnItsWay(out) /\ OnItsWay(in)' = OnItsWay(in)
  BY DEF OnItsWay
<1>2. command' = command /\ stage' = stage
  BY <1>1 DEF command, stage
<1>3. value' = value /\ left' = left
  BY <1>1, <1>2 DEF value, left
<1> QED BY <1>2, <1>3 DEF File!vars

LEMMA FileInit == Init => File!Init
<1> SUFFICES ASSUME Init PROVE File!Init
  OBVIOUS
<1>1. lock = "nobody" /\ out = <<>> /\ stage = "free" /\ ~OnItsWay(out)
  BY DEF Init, stage, OnItsWay
<1>2. value = 0
  BY <1>1 DEF value
<1>3. left = <<>>
  BY <1>1 DEF left
<1> QED BY <1>1, <1>2, <1>3 DEF Init, File!Init

\* The calls, the routines, the returns and the clock.
LEMMA FileOwn ==
  ASSUME TypeOK, Turns, NEW t \in Threads,
         Calls(t) \/ EnterSetBandwidth(t) \/ EnterRoutine(t) \/ Return(t)
  PROVE  [File!Next]_(File!vars)
<1>0. \A u \in Threads : lock = u => pc[u] = "wait"
  BY DEF TypeOK
<1>1. CASE Calls(t)
  <2>1. PICK name, steps : Begin(t, name, steps)
    BY <1>1 DEF Calls, SetChannel, SetTxPower, ReadClockCall
  <2>2. /\ UNCHANGED <<lock, out, in, chip, tsf, failed, got>> /\ pc[t] = "idle"
        /\ todo' = [todo EXCEPT ![t] = steps]
    BY <2>1 DEF Begin, pipes
  <2>3. lock # "nobody" => todo'[lock] = todo[lock]
    BY <1>0, <2>2 DEF TypeOK
  <2> QED BY <2>2, <2>3, FileSame
<1>2. CASE EnterSetBandwidth(t) \/ EnterRoutine(t)
  <2>1. PICK steps : Enter(t, steps)
    BY <1>2 DEF EnterSetBandwidth, EnterRoutine
  <2>2. /\ UNCHANGED <<lock, out, in, chip, tsf, failed, got>> /\ pc[t] = "run"
        /\ todo' = [todo EXCEPT ![t] = steps \o Tail(@)]
    BY <1>2, <2>1 DEF Enter, EnterSetBandwidth, EnterRoutine, Reached, pipes, history
  <2>3. lock # "nobody" => todo'[lock] = todo[lock]
    BY <1>0, <2>2 DEF TypeOK
  <2> QED BY <2>2, <2>3, FileSame
<1>3. CASE Return(t)
  <2>1. /\ UNCHANGED <<lock, out, in, chip, tsf, failed>> /\ pc[t] = "run"
        /\ todo' = [todo EXCEPT ![t] = <<>>] /\ got' = [got EXCEPT ![t] = <<>>]
    BY <1>3 DEF Return, Forget, pipes
  <2>2. lock # "nobody" => todo'[lock] = todo[lock]
    BY <1>0, <2>1 DEF TypeOK
  <2>3. UNCHANGED <<chip, tsf, lock, command, stage, value, left, failed>>
    BY <2>1, <2>2, FileSame
  <2>4. lock # t
    BY <1>0, <2>1
  <2>5. File!Forget(t)
    BY <2>1, <2>3, <2>4 DEF File!Forget
  <2> QED BY <2>5 DEF File!Next
<1> QED BY <1>1, <1>2, <1>3

LEMMA FileTick ==
  ASSUME Tick
  PROVE  File!Tick
<1>1. /\ UNCHANGED <<lock, out, in, chip, failed, got, todo>> /\ tsf' = tsf + 1
  BY DEF Tick, pipes, history
<1>2. OnItsWay(out)' = OnItsWay(out) /\ OnItsWay(in)' = OnItsWay(in)
  BY <1>1 DEF OnItsWay
<1>3. command' = command /\ stage' = stage
  BY <1>1, <1>2 DEF command, stage
<1>4. value' = value /\ left' = left
  BY <1>1, <1>2, <1>3 DEF value, left
<1> QED BY <1>1, <1>3, <1>4 DEF File!Tick

LEMMA FileSend ==
  ASSUME TypeOK, Turns, LineInv, OwnSteps, NEW t \in Threads, Send(t)
  PROVE  File!Start(t)
<1> DEFINE c == [seq |-> seq', by |-> t, step |-> Head(todo[t])]
<1>1. /\ lock = "nobody" /\ lock' = t /\ t # "nobody" /\ todo' = todo /\ in' = in
      /\ seq' = (seq + 1) % SeqMod /\ out' = Append(out, c)
      /\ UNCHANGED <<chip, tsf, got>>
  BY Parameters DEF Send
<1>2. failed' = failed
  BY DEF Send, history
<1>3. /\ out \in Seq(Commands) /\ ~OnItsWay(out) /\ ~OnItsWay(in)
  BY <1>1, OwnLast
<1>4. Head(todo[t]) \in Steps
  BY HeadTypes DEF Send
<1>5. c \in Commands /\ c.by # "nobody"
  <2>1. seq \in Numbers /\ seq' \in Numbers
    BY <1>1, StrayTypes, Ages
  <2> QED BY <1>1, <1>4, <2>1, Parameters DEF Commands, Numbers
<1> HIDE DEF c
<1>6. OnItsWay(out') /\ Given(out') = Given(out)
  BY <1>1, <1>3, <1>5, GivenSent
<1>7. left' = left
  BY <1>6 DEF left, Given
<1>8. stage = "free" /\ stage' = "sent" /\ command' = Head(todo[t])
  BY <1>1, <1>6 DEF stage, command
<1>9. value' = 0 /\ value = 0
  BY <1>8 DEF value
<1> QED BY <1>1, <1>2, <1>4, <1>7, <1>8, <1>9 DEF File!Start

\* A command gives up before it was sent, or while it is under way.
LEMMA FileFails ==
  ASSUME TypeOK, Turns, LineInv, OwnSteps, NEW t \in Threads, CommandFails(t),
         \/ lock = "nobody" /\ out' = out
         \/ lock = t /\ out' = Orphaned(t, out)
  PROVE  File!Fail(t)
<1>1. /\ lock' = "nobody" /\ failed' = failed \cup {t} /\ UNCHANGED <<chip, tsf>>
      /\ got' \in {got, [got EXCEPT ![t] = <<>>]}
  BY DEF CommandFails, Forget
<1>2. stage' = "free"
  BY <1>1 DEF stage
<1>3. value' = 0
  BY <1>2 DEF value
<1>4. out \in Seq(Commands) /\ t # "nobody"
  BY OwnLast, Parameters
<1>5. CASE lock = "nobody" /\ out' = out
  <2>1. left' = left
    BY <1>5 DEF left, OnItsWay
  <2>2. stage = "free"
    BY <1>5 DEF stage
  <2> QED BY <1>1, <1>2, <1>3, <1>5, <2>1, <2>2 DEF File!Fail, File!Free
<1>6. CASE lock = t /\ out' = Orphaned(t, out)
  <2>1. OwnsLast(out, t)
    BY <1>6, OwnLast
  <2>2. /\ OnItsWay(out) => Given(out') = Append(Given(out), out[Len(out)].step)
        /\ ~OnItsWay(out) => Given(out') = Given(out)
    BY <1>4, <1>6, <2>1, GivenUp
  <2>3. OnItsWay(out) => stage = "sent" /\ out[Len(out)].step = command
    BY <1>4, <1>6, OwnLast DEF stage, command
  <2>4. ~OnItsWay(out) => stage # "sent"
    BY DEF stage
  <2>5. left = Given(out) /\ left' = Given(out')
    BY DEF left, Given
  <2>6. left' = IF stage = "sent" THEN Append(left, command) ELSE left
    BY <2>2, <2>3, <2>4, <2>5
  <2> QED BY <1>1, <1>2, <1>3, <1>6, <2>6 DEF File!Fail, File!Free
<1> QED BY <1>5, <1>6

LEMMA FileReceive ==
  ASSUME TypeOK, Turns, LineInv, OwnSteps, NEW t \in Threads, Receive(t)
  PROVE  [File!Next]_(File!vars)
<1>1. /\ pc[t] = "wait" /\ in # <<>> /\ lock = t /\ t # "nobody"
  BY Parameters DEF Receive, TypeOK
<1>2. ASSUME CommandFails(t), out' = Orphaned(t, out) PROVE File!Fail(t)
  BY <1>1, <1>2, FileFails
<1>3. CASE IsOwnReply(Head(in)) /\ in' = Tail(in) /\ CommandSucceeds(t, Head(in))
  <2>1. Tail(in) = <<>> /\ out = <<>> /\ Head(in).by = t
    BY <1>1, <1>3, OwnReplyIsLast
  <2>2. Len(in) = 1 /\ Head(in) = in[1]
    <3>1. in \in Seq(Messages)
      BY OwnLast
    <3>2. /\ Len(Tail(in)) = Len(in) - 1 /\ Len(in) \in Nat /\ Head(in) = in[1]
      BY <1>1, <3>1, HeadTail
    <3>3. Len(Tail(in)) = 0
      <4>1. Tail(in) = <<>>
        BY <2>1
      <4>2. \A s : s = <<>> => Len(s) = 0
        OBVIOUS
      <4> QED BY ONLY <4>1, <4>2, Zenon
    <3> QED BY <3>2, <3>3
  <2>3. OnItsWay(in) /\ ~OnItsWay(out)
    BY <1>1, <2>1, <2>2 DEF OnItsWay
  <2>4. stage = "done" /\ command = Head(todo[t])
    BY <1>1, <2>3 DEF stage, command
  <2>5. value = Head(in).val
    BY <2>2, <2>4 DEF value
  <2>6. /\ lock' = "nobody" /\ out' = out /\ UNCHANGED <<chip, tsf>>
        /\ got' = IF Head(todo[t]).at \in {"hi", "lo"}
                    THEN [got EXCEPT ![t] = Append(@, Head(in).val)] ELSE got
        /\ failed' = IF Head(todo[t]).do = "wait" /\ Head(in).val = 1
                       THEN failed \cup {t} ELSE failed
    BY <1>3 DEF CommandSucceeds
  <2>7. stage' = "free"
    BY <2>6 DEF stage
  <2>8. value' = 0
    BY <2>7 DEF value
  <2>9. left' = left
    BY <2>6 DEF left, OnItsWay
  <2>10. File!Succeed
    BY <1>1, <2>4, <2>5, <2>6, <2>7, <2>8, <2>9 DEF File!Succeed, File!Free
  <2> QED BY <2>10 DEF File!Next
<1>4. CASE ~IsOwnReply(Head(in)) /\ tries > 1 /\ in' = Tail(in) /\ Skip(t)
  <2>1. UNCHANGED <<lock, out, chip, tsf, got, todo>>
    BY <1>4 DEF Skip
  <2>2. failed' = failed
    BY <1>4 DEF Skip, history
  <2>3. OnItsWay(out)' = OnItsWay(out)
    BY <2>1 DEF OnItsWay
  <2>4. OnItsWay(in') = OnItsWay(in) /\ (OnItsWay(in) => in'[Len(in')] = in[Len(in)])
    <3>1. /\ in \in Seq(Messages) /\ Len(in) \in Nat /\ Len(in) >= 1 /\ Head(in) = in[1]
          /\ in' \in Seq(Messages) /\ Len(in') = Len(in) - 1 /\ DOMAIN in' = 1 .. Len(in')
          /\ \A i \in DOMAIN in' : in'[i] = in[i + 1]
          /\ (in' = <<>> <=> Len(in) = 1)
      <4>1. in \in Seq(Messages)
        BY OwnLast
      <4>2. /\ Len(in) \in Nat /\ Len(in) >= 1 /\ Head(in) = in[1]
            /\ in' \in Seq(Messages) /\ Len(in') = Len(in) - 1
            /\ \A i \in DOMAIN in' : in'[i] = in[i + 1]
        BY <1>1, <1>4, <4>1, HeadTail
      <4>3. DOMAIN in' = 1 .. Len(in') /\ (in' = <<>> <=> Len(in') = 0)
        BY <4>2
      <4> QED BY <4>1, <4>2, <4>3
    <3>2. CASE Len(in) = 1
      <4>1. in[1].by = "nobody"
        <5>1. Owners(in, out, seq, lock) /\ 1 \in DOMAIN in /\ seq \in Numbers
              /\ in[1].seq \in Numbers
          BY <3>1, StrayTypes, LineTypes DEF LineInv
        <5>2. IsReply(in[1]) => Age(seq, in[1].seq) # 0
          <6>1. IsReply(in[1]) => seq # in[1].seq
            BY <1>4, <3>1 DEF IsReply, IsOwnReply
          <6> QED BY <5>1, <6>1, Ages
        <5> QED BY <1>1, <5>1, <5>2 DEF Owners
      <4>2. ~OnItsWay(in) /\ ~OnItsWay(in')
        BY <3>1, <3>2, <4>1 DEF OnItsWay
      <4>3. OnItsWay(in') \in BOOLEAN /\ OnItsWay(in) \in BOOLEAN
        BY DEF OnItsWay
      <4> QED BY <4>2, <4>3
    <3>3. CASE Len(in) # 1
      <4>1. Len(in') \in DOMAIN in' /\ Len(in') + 1 = Len(in)
        BY <3>1, <3>3
      <4>2. in'[Len(in')] = in[Len(in)] /\ in' # <<>>
        BY <3>1, <3>3, <4>1
      <4> QED BY <1>1, <4>2 DEF OnItsWay
    <3> QED BY <3>2, <3>3
  <2>5. stage' = stage /\ command' = command
    BY <2>1, <2>3, <2>4 DEF stage, command
  <2>6. stage = "done" => OnItsWay(in)
    BY DEF stage
  <2>7. value' = value
    BY <2>4, <2>5, <2>6 DEF value
  <2>8. left' = left
    BY <2>1, <2>3 DEF left
  <2> QED BY <2>1, <2>2, <2>5, <2>7, <2>8 DEF File!vars
<1>5. CASE ~(tries > 1) /\ Skip(t)
  <2>1. CommandFails(t) /\ out' = Orphaned(t, out)
    BY <1>5 DEF Skip
  <2> QED BY <1>2, <2>1 DEF File!Next
<1>6. CASE out' = Orphaned(t, out) /\ CommandFails(t)
  BY <1>2, <1>6 DEF File!Next
<1> QED BY <1>3, <1>4, <1>5, <1>6 DEF Receive


LEMMA FileGivesUp ==
  ASSUME TypeOK, Turns, LineInv, OwnSteps, NEW t \in Threads, SendFails(t) \/ Timeout(t)
  PROVE  File!Fail(t)
<1>1. CASE SendFails(t)
  <2>1. lock = "nobody" /\ CommandFails(t) /\ out' = out
    BY <1>1 DEF SendFails
  <2> QED BY <2>1, FileFails
<1>2. CASE Timeout(t)
  <2>1. lock = t /\ CommandFails(t) /\ out' = Orphaned(t, out)
    BY <1>2 DEF Timeout, TypeOK
  <2> QED BY <2>1, FileFails
<1> QED BY <1>1, <1>2

LEMMA AfterServed ==
  ASSUME NEW s
  PROVE  Served(s) = File!After(s) /\ Answers(s) = File!Tells(s)
BY DEF Served, Answers, File!After, File!Tells

\* The target takes a command: what was given up, or the command under way.
LEMMA TargetTakes ==
  ASSUME TypeOK, Turns, LineInv, OwnSteps, out # <<>>, out' = Tail(out),
         UNCHANGED <<lock, todo>>
  PROVE  /\ ~OnItsWay(in) /\ command' = command /\ value = 0
         /\ Head(out).by = "nobody" =>
              /\ left # <<>> /\ Head(left) = Head(out).step /\ left' = Tail(left)
              /\ ~OnItsWay(in') => stage' = stage /\ value' = value
         /\ Head(out).by # "nobody" =>
              /\ stage = "sent" /\ left = <<>> /\ left' = left /\ Head(out).step = command
              /\ stage' = IF OnItsWay(in') THEN "done" ELSE "lost"
<1>1. ~OnItsWay(in) /\ out \in Seq(Commands) /\ OwnsLast(out, lock)
  BY OwnLast
<1>2. command' = command
  BY DEF command
<1>3. stage # "done"
  BY <1>1 DEF stage
<1>4. value = 0
  BY <1>3 DEF value
<1>5. left = Given(out) /\ left' = Given(out')
  BY DEF left, Given
<1>6. ASSUME Head(out).by = "nobody"
      PROVE  /\ left # <<>> /\ Head(left) = Head(out).step /\ left' = Tail(left)
             /\ ~OnItsWay(in') => stage' = stage /\ value' = value
  <2>1. /\ OnItsWay(out') = OnItsWay(out)
        /\ left # <<>> /\ Head(left) = Head(out).step /\ left' = Tail(left)
    BY <1>1, <1>5, <1>6, GivenTaken
  <2>2. ASSUME ~OnItsWay(in') PROVE stage' = stage /\ value' = value
    <3>1. stage' = stage
      BY <1>1, <2>1, <2>2 DEF stage
    <3>2. value' = 0
      BY <1>3, <3>1 DEF value
    <3> QED BY <1>4, <3>1, <3>2
  <2> QED BY <2>1, <2>2
<1>7. ASSUME Head(out).by # "nobody"
      PROVE  /\ stage = "sent" /\ left = <<>> /\ left' = left /\ Head(out).step = command
             /\ stage' = IF OnItsWay(in') THEN "done" ELSE "lost"
  <2>1. /\ OnItsWay(out) /\ Given(out) = <<>> /\ out' = <<>> /\ out[Len(out)] = Head(out)
    BY <1>1, <1>7, GivenTaken
  <2>2. lock \in Threads /\ lock # "nobody" /\ out[Len(out)].step = Head(todo[lock])
    BY <2>1, OwnLast, Parameters
  <2>3. Head(out).step = command /\ stage = "sent"
    BY <2>1, <2>2 DEF command, stage
  <2>4. ~OnItsWay(out')
    BY <2>1 DEF OnItsWay
  <2>5. stage' = IF OnItsWay(in') THEN "done" ELSE "lost"
    BY <2>2, <2>4 DEF stage
  <2>6. Given(<<>>) = <<>>
    BY DEF Given, OnItsWay
  <2> QED BY <1>5, <2>1, <2>3, <2>5, <2>6
<1> QED BY <1>1, <1>2, <1>4, <1>6, <1>7

LEMMA FileServes ==
  ASSUME TypeOK, Turns, LineInv, OwnSteps, TargetServes
  PROVE  File!Effect \/ File!LateEffect
<1> DEFINE c == Head(out)
<1>1. /\ out # <<>> /\ out' = Tail(out) /\ UNCHANGED <<lock, todo, tsf, got>>
      /\ chip' = Served(c.step)
  BY DEF TargetServes
<1>2. failed' = failed
  BY DEF TargetServes, history
<1>3. PICK v \in Answers(c.step) :
        in' = Append(in, [kind |-> "reply", seq |-> c.seq, by |-> c.by, val |-> v])
  BY DEF TargetServes
<1> DEFINE m == [kind |-> "reply", seq |-> c.seq, by |-> c.by, val |-> v]
<1>4. m.by = c.by /\ m.val = v /\ in' = Append(in, m)
  BY <1>3
<1> HIDE DEF m
<1>5. in' # <<>> /\ in'[Len(in')] = m
  <2>1. in \in Seq(Messages)
    BY OwnLast
  <2> QED BY <1>4, <2>1
<1>6. OnItsWay(in') <=> c.by # "nobody"
  BY <1>4, <1>5 DEF OnItsWay
<1>7. CASE c.by = "nobody"
  <2>1. /\ left # <<>> /\ Head(left) = c.step /\ left' = Tail(left)
        /\ stage' = stage /\ value' = value /\ command' = command
    BY <1>1, <1>6, <1>7, TargetTakes
  <2>2. chip' = File!After(Head(left))
    BY <1>1, <2>1, AfterServed
  <2> QED BY <1>1, <1>2, <2>1, <2>2 DEF File!LateEffect
<1>8. CASE c.by # "nobody"
  <2>1. /\ stage = "sent" /\ left = <<>> /\ left' = left /\ c.step = command
        /\ stage' = "done" /\ command' = command
    BY <1>1, <1>6, <1>8, TargetTakes
  <2>2. value' = v
    BY <1>4, <1>5, <2>1 DEF value
  <2>3. chip' = File!After(command) /\ value' \in File!Tells(command)
    BY <1>1, <1>3, <2>1, <2>2, AfterServed
  <2> QED BY <1>1, <1>2, <2>1, <2>3 DEF File!Effect
<1> QED BY <1>7, <1>8

LEMMA FileDrops ==
  ASSUME TypeOK, Turns, LineInv, OwnSteps, TargetDrops
  PROVE  File!Loss \/ File!LateEffect
<1> DEFINE c == Head(out)
<1>1. /\ out # <<>> /\ out' = Tail(out) /\ UNCHANGED <<lock, todo, tsf, got, in>>
      /\ chip' \in {chip, Served(c.step)}
  BY DEF TargetDrops
<1>2. failed' = failed
  BY DEF TargetDrops, history
<1>3. ~OnItsWay(in')
  <2>1. ~OnItsWay(in)
    BY <1>1, TargetTakes
  <2> QED BY <1>1, <2>1 DEF OnItsWay
<1>4. CASE c.by = "nobody"
  <2>1. /\ left # <<>> /\ Head(left) = c.step /\ left' = Tail(left)
        /\ stage' = stage /\ value' = value /\ command' = command
    BY <1>1, <1>3, <1>4, TargetTakes
  <2>2. chip' \in {chip, File!After(Head(left))}
    BY <1>1, <2>1, AfterServed
  <2> QED BY <1>1, <1>2, <2>1, <2>2 DEF File!LateEffect
<1>5. CASE c.by # "nobody"
  <2>1. /\ stage = "sent" /\ left = <<>> /\ left' = left /\ c.step = command
        /\ stage' = "lost" /\ command' = command
    BY <1>1, <1>3, <1>5, TargetTakes
  <2>2. value' = 0
    BY <2>1 DEF value
  <2>3. chip' \in {chip, File!After(command)}
    BY <1>1, <2>1, AfterServed
  <2> QED BY <1>1, <1>2, <2>1, <2>2, <2>3 DEF File!Loss
<1> QED BY <1>4, <1>5

\* A message of the target's own, or one that is damaged: at most the answer to the command
\* under way is lost.
LEMMA FileStray ==
  ASSUME TypeOK, Turns, LineInv, OwnSteps, TargetEvent \/ Damaged
  PROVE  File!Loss \/ UNCHANGED File!vars
<1>1. /\ UNCHANGED <<lock, todo, tsf, got, out, chip>>
  BY DEF TargetEvent, Damaged
<1>2. failed' = failed
  BY DEF TargetEvent, Damaged, history
<1>3. OnItsWay(out') = OnItsWay(out)
  BY <1>1 DEF OnItsWay
<1>4. command' = command /\ left' = left
  BY <1>1, <1>3 DEF command, left
<1>5. \A kind : Message(kind).by = "nobody"
  BY DEF Message
<1>6. in \in Seq(Messages) /\ (OnItsWay(in) => out = <<>>)
  BY OwnLast
<1>7. ASSUME OnItsWay(in') = OnItsWay(in),
             OnItsWay(in) => in'[Len(in')] = in[Len(in)]
      PROVE  UNCHANGED File!vars
  <2>1. stage' = stage
    BY <1>1, <1>3, <1>7 DEF stage
  <2>2. stage = "done" => OnItsWay(in)
    BY DEF stage
  <2>3. value' = value
    BY <1>7, <2>1, <2>2 DEF value
  <2> QED BY <1>1, <1>2, <1>4, <2>1, <2>3 DEF File!vars
<1>8. CASE TargetEvent
  <2>1. in = <<>> /\ in' = Append(in, Message("event"))
    BY <1>8 DEF TargetEvent
  <2>2. in' = <<Message("event")>>
    BY <2>1
  <2>3. ~OnItsWay(in) /\ ~OnItsWay(in')
    BY <1>5, <2>1, <2>2 DEF OnItsWay
  <2>4. OnItsWay(in') = OnItsWay(in)
    BY <2>3 DEF OnItsWay
  <2> QED BY <1>7, <2>3, <2>4
<1>9. CASE Damaged
  <2>1. PICK kind \in {"runt", "bad"} : in' = <<Message(kind)>> \o Tail(in)
    BY <1>9 DEF Damaged
  <2>2. in # <<>> /\ Len(in) \in Nat /\ Len(in) >= 1
        /\ Tail(in) \in Seq(Messages) /\ Len(Tail(in)) = Len(in) - 1
        /\ \A i \in DOMAIN Tail(in) : Tail(in)[i] = in[i + 1]
    BY <1>6, <1>9, HeadTail DEF Damaged
  <2> DEFINE x == Message(kind)
  <2>3. x.by = "nobody"
    BY <1>5
  <2> HIDE DEF x
  <2>4. in' = <<x>> \o Tail(in)
    BY <2>1 DEF x
  <2>5. Len(in') = Len(in) /\ in' # <<>> /\ in'[1] = x
        /\ \A i \in 2 .. Len(in) : in'[i] = Tail(in)[i - 1]
    BY <2>2, <2>4
  <2>6. CASE Len(in) # 1
    <3>1. Len(in) \in 2 .. Len(in) /\ Len(in) - 1 \in DOMAIN Tail(in) /\ (Len(in) - 1) + 1 = Len(in)
      BY <2>2, <2>6
    <3>2. in'[Len(in')] = in[Len(in)]
      BY <2>2, <2>5, <3>1
    <3>3. OnItsWay(in') = OnItsWay(in)
      BY <2>2, <2>5, <3>2 DEF OnItsWay
    <3> QED BY <1>7, <3>2, <3>3
  <2>7. CASE Len(in) = 1
    <3>1. ~OnItsWay(in')
      BY <2>3, <2>5, <2>7 DEF OnItsWay
    <3>2. CASE ~OnItsWay(in)
      <4>1. OnItsWay(in') = OnItsWay(in)
        BY <3>1, <3>2 DEF OnItsWay
      <4> QED BY <1>7, <3>2, <4>1
    <3>3. CASE OnItsWay(in)
      <4>1. ~OnItsWay(out) /\ lock # "nobody"
        BY <1>6, <3>3, OwnLast DEF OnItsWay
      <4>2. stage = "done" /\ stage' = "lost"
        BY <1>1, <1>3, <3>1, <3>3, <4>1 DEF stage
      <4>3. value' = 0
        BY <4>2 DEF value
      <4> QED BY <1>1, <1>2, <1>4, <4>2, <4>3 DEF File!Loss
    <3> QED BY <3>2, <3>3
  <2> QED BY <2>6, <2>7
<1> QED BY <1>8, <1>9

LEMMA FileNext ==
  ASSUME TypeOK, Turns, LineInv, OwnSteps, [Next]_vars
  PROVE  [File!Next]_(File!vars)
<1>1. ASSUME NEW t \in Threads, Calls(t) \/ Works(t) \/ SendFails(t)
      PROVE  [File!Next]_(File!vars)
  <2>1. CASE Calls(t) \/ EnterSetBandwidth(t) \/ EnterRoutine(t) \/ Return(t)
    BY <2>1, FileOwn
  <2>2. CASE Send(t)
    <3>1. File!Start(t)
      BY <2>2, FileSend
    <3> QED BY <3>1 DEF File!Next
  <2>3. CASE Receive(t)
    BY <2>3, FileReceive
  <2>4. CASE SendFails(t) \/ Timeout(t)
    <3>1. File!Fail(t)
      BY <2>4, FileGivesUp
    <3> QED BY <3>1 DEF File!Next
  <2> QED BY <1>1, <2>1, <2>2, <2>3, <2>4 DEF Works
<1>2. CASE TargetServes
  <2>1. File!Effect \/ File!LateEffect
    BY <1>2, FileServes
  <2> QED BY <2>1 DEF File!Next
<1>3. CASE TargetDrops
  <2>1. File!Loss \/ File!LateEffect
    BY <1>3, FileDrops
  <2> QED BY <2>1 DEF File!Next
<1>4. CASE TargetEvent \/ Damaged
  <2>1. File!Loss \/ UNCHANGED File!vars
    BY <1>4, FileStray
  <2> QED BY <2>1 DEF File!Next
<1>5. CASE Tick
  <2>1. File!Tick
    BY <1>5, FileTick
  <2> QED BY <2>1 DEF File!Next
<1>6. CASE UNCHANGED vars
  <2>1. UNCHANGED <<lock, out, in, chip, tsf, failed, todo, got>>
    BY <1>6 DEF vars
  <2> QED BY <2>1, FileSame
<1> QED BY <1>1, <1>2, <1>3, <1>4, <1>5, <1>6 DEF Next, Target

\* wmi_cmd implements the register file: a command that returns Ok took effect once between
\* its call and its return and returns what the chip answered then, and what a failed
\* one left in the pipe takes effect before it or never.
THEOREM PathImplementsRegisterFile == ASSUME FewStrays PROVE Spec => ImplementsRegisterFile
<1> DEFINE I == TypeOK /\ Turns /\ LineInv /\ OwnSteps
<1>1. Init => I
  BY InitTypes, InitLine
<1>2. I /\ [Next]_vars => I'
  BY NextTypes, NextLine
<1>3. I /\ [Next]_vars => [File!Next]_(File!vars)
  BY FileNext
<1> QED BY <1>1, <1>2, <1>3, FileInit, PTL DEF Spec, ImplementsRegisterFile, File!Spec
==============================================================================
