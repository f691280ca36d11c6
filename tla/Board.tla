------------------------------- MODULE Board -------------------------------
(***************************************************************************)
(* The settings of the digital test board while commands run (cmd.cpp):    *)
(* the delays of the four ROC signals, the deserializer, the pattern       *)
(* generator, the trigger source, the DAQ channels and the USB time-out,   *)
(* with the program's own record of some of them, tbState.                 *)
(*                                                                         *)
(* Unlike a DAC most of these can not be read back: what the program says  *)
(* about them, and what it restores, is right only if tbState is.          *)
(* Commands are programs (module BoardCommands), as in RocState.  Delays   *)
(* are clock phases: the offset of a signal (SDA 15 ns, TIN 5 ns) is left  *)
(* out.                                                                    *)
(***************************************************************************)
EXTENDS Integers, Sequences

CONSTANTS
  Phases,    \* clock phases and deserializer phases that are scanned
  Channels,  \* DAQ channels
  Code,      \* Code[c]: the steps of command c
  Leaves,    \* Leaves[c]: the settings c sets on purpose, or is known not to put back
  Cleans,    \* the commands that stop triggers and DAQ for their reads
  MaxCommands, \* bound: commands in a row
  MaxErrors  \* bound: RPC errors

None    == "none"
Prompt  == "prompt"
Signals == {"CLK", "CTR", "SDA", "TIN"}
Knobs   == {"pg", "trigger", "timeout", "daq"}
Settings == Signals \cup Knobs \cup {"deser"}
Commands == DOMAIN Code

\* The phase of the deserializer does not matter for the others.
Deser160(n)  == [kind |-> "160", phase |-> n]
Deserializer(kind) == [kind |-> kind, phase |-> 0]
Default == 4   \* TBstate::TBstate

Ops == {"delay", "delaytb", "select", "select160", "select160tb", "turn", "storeclk", "storedeser",
        "open", "close", "start", "stop", "single", "read", "good", "choose",
        "skip", "again", "jump"}
Step == [op : Ops, arg : Signals \cup Knobs \cup Channels \cup {None, "400", "adc", "generator", "off"},
         to : {None, "loop", "stop", "pg", "external", "random", "quiet", "short", "long"}, n : Nat, m : Nat]

ASSUME PhasesAssumption == Phases \subseteq Nat
ASSUME CodeAssumption   == Code \in [Commands -> Seq(Step)]
ASSUME LeavesAssumption == Leaves \in [Commands -> SUBSET Settings]
ASSUME CleansAssumption == Cleans \subseteq Commands
ASSUME NameAssumption   == Prompt \notin Commands
ASSUME BoundAssumption  == MaxErrors \in Nat /\ MaxCommands \in Nat

VARIABLES
  delay,    \* delay[s]: the clock phase of signal s
  deser,    \* the data source of the DAQ
  knob,     \* pattern generator, trigger source and USB time-out
  opened,   \* DAQ channels with memory
  running,  \* DAQ channels started
  tbState,  \* clockPhase, deserPhase, daqOpen as the program has them
  good,     \* goodvalues: the pairs of phases that gave a header
  seen,     \* history: the same pairs, as the DTB sent them
  cmd, pc,  \* the command and its next step
  blamed,   \* history: settings that a command with an error, or known for it, left wrong
  commands, \* history: commands so far
  errors    \* history: RPC errors

board == <<delay, deser, knob, opened, running>>
vars  == <<board, tbState, good, seen, cmd, pc, blamed, commands, errors>>

Init ==
  /\ delay = [s \in Signals |-> Default] /\ deser = Deserializer("off")
  /\ knob = [pg |-> "stop", trigger |-> "pg", timeout |-> "long"]
  /\ opened = {} /\ running = {}
  /\ tbState = [clockPhase |-> Default, deserPhase |-> Default, daqOpen |-> FALSE]
  /\ good = <<>> /\ seen = {}
  /\ cmd = Prompt /\ pc = 1 /\ blamed = {} /\ commands = 0 /\ errors = 0

-----------------------------------------------------------------------------
(* Running a command *)

Returning == cmd \in Commands /\ pc > Len(Code[cmd])
Now       == Code[cmd][pc]
At(op)    == cmd \in Commands /\ pc \in 1 .. Len(Code[cmd]) /\ Now.op = op
Goto(k)   == pc' = pc + 1 + k /\ UNCHANGED <<cmd, blamed, commands, errors>>

Begin(c) ==
  /\ cmd = Prompt /\ commands < MaxCommands
  /\ cmd' = c /\ pc' = 1 /\ good' = <<>> /\ seen' = {} /\ commands' = commands + 1
  /\ UNCHANGED <<board, tbState, blamed, errors>>

\* What is not as tbState says, or as the next command has to find it.
Wrong ==
  {s \in Signals : delay[s] # tbState.clockPhase} \cup
  (IF deser.kind = "adc" \/ (deser.kind = "160" /\ deser.phase # tbState.deserPhase)
     THEN {"deser"} ELSE {}) \cup
  (IF knob["pg"] # "stop" THEN {"pg"} ELSE {}) \cup
  (IF knob["trigger"] # "pg" THEN {"trigger"} ELSE {}) \cup
  (IF knob["timeout"] # "long" THEN {"timeout"} ELSE {}) \cup
  (IF running # {} THEN {"daq"} ELSE {})

Leave(excused) ==
  /\ cmd' = Prompt /\ pc' = 1 /\ good' = <<>> /\ seen' = {}
  /\ blamed' = Wrong \cap (blamed \cup excused)
  /\ UNCHANGED <<board, tbState, commands>>

End == Returning /\ Leave(Leaves[cmd]) /\ UNCHANGED errors

\* An RPC error ends the command: only cmd() catches it.
Touches(c) ==
  LET Set(s) ==
        CASE s.op \in {"delay", "delaytb", "turn"} -> {s.arg}
          [] s.op \in {"select", "select160", "select160tb", "storedeser"} -> {"deser"}
          [] s.op = "storeclk" -> Signals
          [] s.op = "choose" -> Signals \cup {"deser"}
          [] s.op \in {"start", "stop"} -> {"daq"}
          [] OTHER -> {}
  IN  UNION {Set(Code[c][k]) : k \in 1 .. Len(Code[c])}
Abort ==
  /\ cmd \in Commands /\ errors < MaxErrors
  /\ Leave(Touches(cmd)) /\ errors' = errors + 1

-----------------------------------------------------------------------------
(* Calls and assignments *)

\* Sig_SetDelay, with a value of the command or with tbState's.  Mutant: the wrong phase.
Delay ==
  /\ At("delay") /\ Goto(0)
  /\ delay' = [delay EXCEPT ![Now.arg] = Now.n]
  /\ UNCHANGED <<deser, knob, opened, running, tbState, good, seen>>
DelayTbDeser ==
  /\ At("delaytb") /\ Goto(0)
  /\ delay' = [delay EXCEPT ![Now.arg] = tbState.deserPhase]
  /\ UNCHANGED <<deser, knob, opened, running, tbState, good, seen>>
DelayTb ==
  /\ At("delaytb") /\ Goto(0)
  /\ delay' = [delay EXCEPT ![Now.arg] = tbState.clockPhase]
  /\ UNCHANGED <<deser, knob, opened, running, tbState, good, seen>>

\* Daq_Select_Deser400, ADC, Datagenerator, DeselectAll; Daq_Select_Deser160.
Select ==
  /\ At("select") /\ Goto(0)
  /\ deser' = Deserializer(Now.arg)
  /\ UNCHANGED <<delay, knob, opened, running, tbState, good, seen>>
Select160 ==
  /\ At("select160") /\ Goto(0)
  /\ deser' = Deser160(Now.n)
  /\ UNCHANGED <<delay, knob, opened, running, tbState, good, seen>>
Select160Tb ==
  /\ At("select160tb") /\ Goto(0)
  /\ deser' = Deser160(tbState.deserPhase)
  /\ UNCHANGED <<delay, knob, opened, running, tbState, good, seen>>

\* Pg_Loop and Pg_Stop, Trigger_Select, SetTimeout.
Turn ==
  /\ At("turn") /\ Goto(0)
  /\ knob' = [knob EXCEPT ![Now.arg] = Now.to]
  /\ UNCHANGED <<delay, deser, opened, running, tbState, good, seen>>

StoreClk ==
  /\ At("storeclk") /\ Goto(0)
  /\ tbState' = [tbState EXCEPT !.clockPhase = Now.n]
  /\ UNCHANGED <<board, good, seen>>
StoreDeser ==
  /\ At("storedeser") /\ Goto(0)
  /\ tbState' = [tbState EXCEPT !.deserPhase = Now.n]
  /\ UNCHANGED <<board, good, seen>>

\* Daq_Open returns 0 when the DTB has no memory left: tbState is not changed.
Open ==
  /\ At("open") /\ Goto(0)
  /\ \/ opened' = opened \cup {Now.arg} /\ tbState' = [tbState EXCEPT !.daqOpen = TRUE]
     \/ UNCHANGED <<opened, tbState>>
  /\ UNCHANGED <<delay, deser, knob, running, good, seen>>
\* One flag for all channels.
Close ==
  /\ At("close") /\ Goto(0)
  /\ opened' = opened \ {Now.arg} /\ running' = running \ {Now.arg}
  /\ tbState' = [tbState EXCEPT !.daqOpen = FALSE]
  /\ UNCHANGED <<delay, deser, knob, good, seen>>

Start ==
  /\ At("start") /\ Goto(0)
  /\ running' = running \cup {Now.arg}
  /\ UNCHANGED <<delay, deser, knob, opened, tbState, good, seen>>
\* Mutant: only a channel with memory is stopped.
StopOpened ==
  /\ At("stop") /\ Goto(0)
  /\ running' = IF Now.arg \in opened THEN running \ {Now.arg} ELSE running
  /\ UNCHANGED <<delay, deser, knob, opened, tbState, good, seen>>
Stop ==
  /\ At("stop") /\ Goto(0)
  /\ running' = running \ {Now.arg}
  /\ UNCHANGED <<delay, deser, knob, opened, tbState, good, seen>>

\* Pg_Single and Daq_Read change no setting.
Single == At("single") /\ Goto(0) /\ UNCHANGED <<board, tbState, good, seen>>
Read   == At("read") /\ Goto(0) /\ UNCHANGED <<board, tbState, good, seen>>

-----------------------------------------------------------------------------
(* The search for good phases *)

\* The first word read is a ROC header, or not.
Pair == <<Now.n, Now.m>>
Good ==
  /\ At("good") /\ Goto(0)
  /\ \/ good' = Append(good, Pair) /\ seen' = seen \cup {Pair}
     \/ UNCHANGED <<good, seen>>
  /\ UNCHANGED <<board, tbState>>

\* goodvalues[ floor( 0.5 n - 0.5 ) ], counted from 0.
Middle == good[(Len(good) - 1) \div 2 + 1]

\* Without good values tbState stays as it is.  Mutant: the deserializer phase of another pair.
ChooseApart ==
  /\ At("choose") /\ Goto(0)
  /\ tbState' =
       IF good = <<>> THEN tbState
       ELSE [tbState EXCEPT !.clockPhase = Middle[1], !.deserPhase = good[Len(good)][2]]
  /\ UNCHANGED <<board, good, seen>>
Choose ==
  /\ At("choose") /\ Goto(0)
  /\ tbState' =
       IF good = <<>> THEN tbState
       ELSE [tbState EXCEPT !.clockPhase = Middle[1], !.deserPhase = Middle[2]]
  /\ UNCHANGED <<board, good, seen>>

-----------------------------------------------------------------------------
(* Control: as in RocState *)

Quiet == UNCHANGED <<board, tbState, good, seen>>
Skip  == At("skip") /\ \E k \in {0, Now.n} : Goto(k) /\ Quiet
Again == At("again") /\ \E k \in {0, -(Now.n + 1)} : Goto(k) /\ Quiet
Jump  == At("jump") /\ Goto(Now.n) /\ Quiet

Do ==
  \/ Delay \/ DelayTb \/ Select \/ Select160 \/ Select160Tb \/ Turn \/ StoreClk \/ StoreDeser
  \/ Open \/ Close \/ Start \/ Stop \/ Single \/ Read \/ Good \/ Choose
  \/ Skip \/ Again \/ Jump

Next == (\E c \in Commands : Begin(c)) \/ Do \/ End \/ Abort

Spec == Init /\ [][Next]_vars

-----------------------------------------------------------------------------
(* Properties *)

TypeOK ==
  /\ delay \in [Signals -> Nat] /\ deser \in [kind : {"160", "400", "adc", "generator", "off"}, phase : Nat]
  /\ knob["pg"] \in {"loop", "stop"} /\ knob["timeout"] \in {"short", "long"}
  /\ knob["trigger"] \in {"pg", "external", "random", "quiet"}
  /\ opened \subseteq Channels /\ running \subseteq Channels
  /\ tbState \in [clockPhase : Nat, deserPhase : Nat, daqOpen : BOOLEAN]
  /\ cmd \in Commands \cup {Prompt} /\ pc \in Nat /\ blamed \subseteq Settings
  /\ commands \in 0 .. MaxCommands /\ errors \in 0 .. MaxErrors

\* "restore" (cmd.cpp:3507, 3785, 3981), "back to default" (cmd.cpp:1899, 3158), "stop
\* triggers, necessary for clean re-start" (cmd.cpp:3502): at the prompt the delays and the
\* deserializer phase are those tbState shows and restores from, no trigger and no channel
\* runs, and the time-out is the long one, unless a command set that very setting on
\* purpose, is known to leave it, or met an RPC error after it changed it.
LeftoversHaveCause == cmd = Prompt => Wrong \subseteq blamed

\* "stop triggers, necessary for clean data" (cmd.cpp:3322, 3873, 4135): the commands that
\* trigger and read in turn read no channel while it takes data or the pattern generator
\* runs, whatever an earlier command left running.
CleanRead ==
  At("read") /\ cmd \in Cleans => knob["pg"] = "stop" /\ Now.arg \notin running

\* The phases that deser160 and deserext set and note in tbState are a pair at which the
\* DTB found a header; if there was none, the DTB is left at the pair that tbState has.
GoodPhases ==
  Returning /\ cmd \in {"deser160", "deserext"} =>
    /\ \A s \in Signals : delay[s] = tbState.clockPhase
    /\ deser = Deser160(tbState.deserPhase)
    /\ seen # {} => <<tbState.clockPhase, tbState.deserPhase>> \in seen
=============================================================================
