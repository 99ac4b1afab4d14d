---------------------------- MODULE RegisterFile ----------------------------
(***************************************************************************)
(* What the register path of a USB radio promises its threads, whatever    *)
(* carries the commands: one command is under way at a time, it takes      *)
(* effect at one moment between its start and its success, and its success *)
(* returns what the chip told at that moment.  A command that failed may   *)
(* have had its effect, or have it later, but never after that of a        *)
(* command that was started since.                                         *)
(***************************************************************************)
EXTENDS Naturals, Sequences

CONSTANTS
  Threads,
  Commands,   \* [do, at, arg]: read, write or await a register
  TopLevel,   \* the gain the tables put
  ClockWord   \* the clock's low word counts modulo this

VARIABLES
  chip, tsf,  \* the registers, and the clock
  user,       \* whose command is under way, or "nobody"
  command,    \* that command
  stage,      \* "free" | "sent" | "done" | "lost": what became of it
  value,      \* what the chip told when it was done
  left,       \* commands given up that may still reach the chip, in order
  words,      \* clock words read by each thread's operation
  failed      \* the threads that had a command fail, or a calibration not end

vars == <<chip, tsf, user, command, stage, value, left, words, failed>>

Init ==
  /\ user = "nobody" /\ stage = "free" /\ value = 0
  /\ left = <<>>
  /\ words = [t \in Threads |-> <<>>]
  /\ failed = {}

\* The chip after command c, and what it may answer.
After(c) ==
  IF c.do # "write" THEN chip
  ELSE IF c.at = "tables"
       THEN [chip EXCEPT !.column = c.arg, !.gain = TopLevel, !.board = 0]
  ELSE [chip EXCEPT ![c.at] = c.arg]
Tells(c) ==
  CASE c.do = "wait" -> {0, 1}
    [] c.do = "read" /\ c.at = "hi" -> {tsf \div ClockWord}
    [] c.do = "read" /\ c.at = "lo" -> {tsf % ClockWord}
    [] OTHER -> {0}

Start(t) ==
  /\ user = "nobody" /\ user' = t
  /\ command' \in Commands
  /\ stage' = "sent"
  /\ UNCHANGED <<chip, tsf, value, left, words, failed>>

\* The command under way reaches the chip, after everything given up before it; or
\* the chip or the way back loses it, with its effect or without.
Effect ==
  /\ stage = "sent" /\ left = <<>>
  /\ chip' = After(command) /\ value' \in Tells(command) /\ stage' = "done"
  /\ UNCHANGED <<tsf, user, command, left, words, failed>>
Loss ==
  /\ \/ stage = "sent" /\ left = <<>> /\ chip' \in {chip, After(command)}
     \/ stage = "done" /\ UNCHANGED chip
  /\ stage' = "lost" /\ value' = 0
  /\ UNCHANGED <<tsf, user, command, left, words, failed>>

\* One that was given up reaches the chip, or never will.
LateEffect ==
  /\ left # <<>> /\ left' = Tail(left)
  /\ chip' \in {chip, After(Head(left))}
  /\ UNCHANGED <<tsf, user, command, stage, value, words, failed>>

Free == user' = "nobody" /\ stage' = "free" /\ value' = 0

\* The command returns Ok.
Succeed ==
  /\ stage = "done"
  /\ Free
  /\ words' = IF command.at \in {"hi", "lo"} THEN [words EXCEPT ![user] = Append(@, value)]
                                             ELSE words
  /\ failed' = IF command.do = "wait" /\ value = 1 THEN failed \cup {user} ELSE failed
  /\ UNCHANGED <<chip, tsf, left>>

\* The command returns Err, at any stage; before it was sent it has no effect.  The
\* operation may end with it.
Fail(t) ==
  /\ user \in {"nobody", t}
  /\ Free
  /\ left' = IF stage = "sent" THEN Append(left, command) ELSE left
  /\ failed' = failed \cup {t}
  /\ words' \in {words, [words EXCEPT ![t] = <<>>]}
  /\ UNCHANGED <<chip, tsf>>

\* An operation returns.
Forget(t) ==
  /\ user # t
  /\ words' = [words EXCEPT ![t] = <<>>]
  /\ UNCHANGED <<chip, tsf, user, command, stage, value, left, failed>>

Tick ==
  /\ tsf' = tsf + 1
  /\ UNCHANGED <<chip, user, command, stage, value, left, words, failed>>

Next ==
  \/ \E t \in Threads : Start(t) \/ Fail(t) \/ Forget(t)
  \/ Effect \/ Loss \/ LateEffect \/ Succeed \/ Tick

Spec == Init /\ [][Next]_vars
=============================================================================
