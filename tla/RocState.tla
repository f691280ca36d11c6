----------------------------- MODULE RocState ------------------------------
(***************************************************************************)
(* The state of the ROCs while test commands run (cmd.cpp).                *)
(*                                                                         *)
(* The program keeps each DAC of each ROC in dacval and its trim bits in   *)
(* modtrm; the chips have the registers, the FPGA the trim values it loads *)
(* into them.  A SetDAC goes to the ROC that was addressed last.  A test   *)
(* changes registers, enables pixels, starts the DAQ, and has to put back  *)
(* what it changed, on every path: returns in the middle, ROCs skipped,    *)
(* RPC errors caught inside a function, which then returns early, and      *)
(* errors that end the command.                                            *)
(*                                                                         *)
(* A command is a program, a sequence of steps (module RocCommands); this  *)
(* module runs it.  Of the value of a register only its relation to the    *)
(* program's variables is kept:                                            *)
(*   "kept"   it is dacval's, or still what it was before the command      *)
(*            when dacval has no value                                     *)
(*   "local"  it is that of the variable the function is tuning            *)
(*   "other"  it may be any other value                                    *)
(***************************************************************************)
EXTENDS Integers, Sequences, FiniteSets

CONSTANTS
  Rocs,      \* ROC numbers
  Dacs,      \* registers
  Channels,  \* DAQ channels
  Code,      \* Code[c]: the steps of command c, with its parameters
  Purpose,   \* Purpose[c]: the DACs that c is there to change
  Leaves,    \* Leaves[c]: the DACs, Trims or Pixels that c is known not to put back
  Enabled,   \* the sets of ROCs that may be enabled at first
  Preset,    \* the registers that had a value in dacval at first
  MaxErrors  \* bound: RPC errors

NoRoc  == -1
None   == "none"
Trims  == "trims"  \* stands for the trim bits of a ROC
Pixels == "pixels" \* stands for what is enabled
Prompt == "prompt"
Crash  == "crash"
Parts  == {"col", "pix", "cal"}  \* double columns enabled, pixels not masked, calibrate bits
AllParts == "all"

Ops == {"select", "first", "address", "put", "set", "note", "back", "revert",
        "edit", "clear", "load", "off", "foreign", "last", "arm", "disarm",
        "start", "stop", "loop", "scan", "scanall", "read",
        "skip", "again", "jump", "lower", "unless", "enabled", "needs", "use"}
Step == [op : Ops, roc : Rocs \cup {NoRoc}, arg : Dacs \cup Parts \cup {AllParts} \cup Channels \cup {None}, n : Nat]
Registers == Rocs \X Dacs
Commands  == DOMAIN Code

\* A step has the parameters of its operation.
WellFormed(s) ==
  /\ s.op \in {"put", "set", "note", "back", "revert"} => s.arg \in Dacs
  /\ s.op \in {"note", "scan"} => s.roc \in Rocs
  /\ s.op \in {"scan", "scanall"} => s.arg \in Dacs \cup {None}
  /\ s.op = "arm" => s.arg \in Parts \cup {AllParts}
  /\ s.op = "start" => s.arg \in Channels

ASSUME RocAssumption     == Rocs \subseteq Nat /\ Rocs # {} /\ Preset \subseteq Registers
ASSUME CodeAssumption    == Code \in [Commands -> Seq(Step)]
ASSUME StepAssumption    ==
  \A c \in Commands : \A k \in 1 .. Len(Code[c]) :
    WellFormed(Code[c][k]) /\ (Code[c][k].op = "again" => Code[c][k].n < k)
ASSUME PurposeAssumption == Purpose \in [Commands -> SUBSET Dacs]
ASSUME LeavesAssumption  == Leaves \in [Commands -> SUBSET (Dacs \cup {Trims, Pixels})]
ASSUME NameAssumption    == Prompt \notin Commands /\ Crash \notin Commands
ASSUME EnabledAssumption == Enabled \subseteq SUBSET Rocs
ASSUME BoundAssumption   == MaxErrors \in Nat

VARIABLES
  roclist, \* the ROCs with roclist[roc] = 1
  sel,     \* the ROC addressed, NoRoc for an address nobody has
  chip,    \* chip[r, d]: see above
  kept,    \* registers with dacval # -1
  moved,   \* registers whose dacval the command has changed
  modtrm,  \* modtrm[r]: "off", all 15, or "own"
  fpga,    \* trim values of r in the FPGA: "off", "own" as in modtrm, or "other"
  armed,   \* what is enabled, of which ROC
  daq,     \* channels running
  cmd, pc, \* the command and its next step
  flag,    \* a boolean of the command
  touched, \* history: registers the command has changed
  failed,  \* history: the command met an RPC error
  blamed,  \* history: what commands with an error, or others known for it, left wrong
  left,    \* history: what they left enabled or running
  errors   \* history: RPC errors

registers == <<chip, kept, moved, touched>>
trims     == <<modtrm, fpga>>
history   == <<failed, blamed, left, errors>>
vars == <<roclist, sel, registers, trims, armed, daq, cmd, pc, flag, history>>

Least(S)    == CHOOSE x \in S : \A y \in S : x <= y
Greatest(S) == CHOOSE x \in S : \A y \in S : x >= y

\* What is enabled or running.
Active     == [armed |-> armed, daq |-> daq]
NoneActive == [armed |-> {}, daq |-> {}]

Init ==
  /\ roclist \in Enabled /\ sel = IF roclist = {} THEN NoRoc ELSE Least(roclist)
  /\ chip = [x \in Registers |-> "kept"] /\ kept = Preset /\ moved = {}
  /\ modtrm = [r \in Rocs |-> "off"] /\ fpga = [r \in Rocs |-> "off"]
  /\ armed = {} /\ daq = {}
  /\ cmd = Prompt /\ pc = 1 /\ flag = TRUE
  /\ touched = {} /\ failed = FALSE /\ blamed = {} /\ left = NoneActive /\ errors = 0

-----------------------------------------------------------------------------
(* Running a command *)

Running   == cmd \in Commands
Returning == Running /\ pc > Len(Code[cmd])
Now       == Code[cmd][pc]
At(op)    == Running /\ pc \in 1 .. Len(Code[cmd]) /\ Now.op = op

Begin(c) ==
  /\ cmd = Prompt
  /\ cmd' = c /\ pc' = 1 /\ flag' = TRUE
  /\ moved' = {} /\ touched' = {} /\ failed' = FALSE
  /\ UNCHANGED <<roclist, sel, chip, kept, trims, armed, daq, blamed, left, errors>>

\* The variables of the command are gone; what it touched matters if it failed.
Leave ==
  /\ cmd' = Prompt /\ pc' = 1 /\ flag' = TRUE
  /\ chip' = [x \in Registers |-> IF chip[x] = "local" THEN "other" ELSE chip[x]]
  /\ moved' = {} /\ touched' = {} /\ failed' = FALSE
  /\ UNCHANGED <<roclist, sel, kept, trims, armed, daq>>

\* What the command may have changed, and what is not as dacval and modtrm say.
Changed == touched \cup roclist \X {Trims}
Wrong ==
  {x \in Registers : chip[x] # "kept"} \cup {x \in Rocs \X {Trims} : fpga[x[1]] # modtrm[x[1]]}

End ==
  /\ Returning
  /\ Leave
  /\ blamed' = Wrong \cap (blamed \cup {x \in Changed : failed \/ x[2] \in Leaves[cmd]})
  /\ left' = IF failed \/ Pixels \in Leaves[cmd] THEN Active ELSE left
  /\ UNCHANGED errors

Goto(k) == pc' = pc + 1 + k /\ UNCHANGED <<cmd, history>>

\* What was left on and is switched off is no longer left.
GotoOff ==
  /\ pc' = pc + 1 /\ UNCHANGED <<cmd, failed, blamed, errors>>
  /\ left' = [armed |-> left.armed \cap armed', daq |-> left.daq \cap daq']

\* The register d of the addressed ROC gets a value.
SetDAC(d, value) ==
  IF sel \in Rocs
    THEN /\ chip' = [chip EXCEPT ![<<sel, d>>] = value]
         /\ touched' = touched \cup {<<sel, d>>}
    ELSE UNCHANGED <<chip, touched>>

\* An RPC error the command does not catch: cmd() does.  The call is the next one, or one
\* that no step stands for (a Flush, a delay, a measurement), so it may come anywhere.
Abort ==
  /\ Running /\ errors < MaxErrors
  /\ Leave
  /\ blamed' = Wrong \cap (blamed \cup Changed) /\ left' = Active
  /\ errors' = errors + 1

-----------------------------------------------------------------------------
(* Calls and assignments *)

\* roclist from the bits of the parameter.
Select ==
  /\ At("select") /\ Goto(0)
  /\ roclist' \in SUBSET Rocs
  /\ UNCHANGED <<sel, registers, trims, armed, daq, flag>>

\* roc_I2cAddr( rocmin ), -1 if no ROC is enabled.
First ==
  /\ At("first") /\ Goto(0)
  /\ sel' = IF roclist = {} THEN NoRoc ELSE Least(roclist)
  /\ UNCHANGED <<roclist, registers, trims, armed, daq, flag>>

Address ==
  /\ At("address") /\ Goto(0)
  /\ sel' = Now.roc
  /\ UNCHANGED <<roclist, registers, trims, armed, daq, flag>>

\* SetDAC with a value of the test.
Put ==
  /\ At("put") /\ Goto(0)
  /\ SetDAC(Now.arg, "other")
  /\ UNCHANGED <<roclist, sel, kept, moved, trims, armed, daq, flag>>

\* SetDAC with the variable the function is tuning.  Mutant: SetDAC gets another value than
\* dacval will, such as the last one the search tried.
SetTried ==
  /\ At("set") /\ Goto(0)
  /\ SetDAC(Now.arg, "other")
  /\ UNCHANGED <<roclist, sel, kept, moved, trims, armed, daq, flag>>
Set ==
  /\ At("set") /\ Goto(0)
  /\ SetDAC(Now.arg, "local")
  /\ UNCHANGED <<roclist, sel, kept, moved, trims, armed, daq, flag>>

\* dacval[roc][dac] = that variable.
Note ==
  /\ At("note") /\ Goto(0)
  /\ LET x == <<Now.roc, Now.arg>>
     IN  /\ chip' = [chip EXCEPT ![x] = IF @ = "local" THEN "kept" ELSE "other"]
         /\ kept' = kept \cup {x} /\ moved' = moved \cup {x} /\ touched' = touched \cup {x}
  /\ UNCHANGED <<roclist, sel, trims, armed, daq, flag>>

\* SetDAC with dacval[roc][dac].  A value of -1 arrives as 65535, which SetDAC cuts to 255.
\* Mutants: a value taken before the command assigned a new one; that of the first ROC.
BackOld ==
  /\ At("back") /\ Goto(0)
  /\ SetDAC(Now.arg, IF sel = Now.roc /\ <<sel, Now.arg>> \in kept \ moved THEN "kept" ELSE "other")
  /\ UNCHANGED <<roclist, sel, kept, moved, trims, armed, daq, flag>>
BackOfFirst ==
  /\ At("back") /\ Goto(0)
  /\ SetDAC(Now.arg, IF sel = Least(Rocs) /\ <<sel, Now.arg>> \in kept THEN "kept" ELSE "other")
  /\ UNCHANGED <<roclist, sel, kept, moved, trims, armed, daq, flag>>
Back ==
  /\ At("back") /\ Goto(0)
  /\ SetDAC(Now.arg, IF sel = Now.roc /\ <<sel, Now.arg>> \in kept THEN "kept" ELSE "other")
  /\ UNCHANGED <<roclist, sel, kept, moved, trims, armed, daq, flag>>

\* SetDAC and dacval with the value dacval had when the command began; it had one.
Revert ==
  /\ At("revert") /\ Goto(0)
  /\ SetDAC(Now.arg, IF sel = Now.roc THEN "kept" ELSE "other")
  /\ moved' = moved \ {<<Now.roc, Now.arg>>}
  /\ UNCHANGED <<roclist, sel, kept, trims, armed, daq, flag>>

\* A trim value in modtrm changes; the FPGA's are then old.
Edit ==
  /\ At("edit") /\ Goto(0)
  /\ modtrm' = [modtrm EXCEPT ![Now.roc] = "own"]
  /\ fpga' = [fpga EXCEPT ![Now.roc] = IF @ = "own" THEN "other" ELSE @]
  /\ UNCHANGED <<roclist, sel, registers, armed, daq, flag>>

\* modtrm is set to 15.
Clear ==
  /\ At("clear") /\ Goto(0)
  /\ modtrm' = [modtrm EXCEPT ![Now.roc] = "off"]
  /\ fpga' = [fpga EXCEPT ![Now.roc] = IF @ = "own" THEN "other" ELSE @]
  /\ UNCHANGED <<roclist, sel, registers, armed, daq, flag>>

\* SetTrimValues with modtrm, with 15, with other values, and with those of the last ROC.
\* Mutant: not if the FPGA has values of the ROC already.
LoadOnce ==
  /\ At("load") /\ Goto(0)
  /\ fpga' = [fpga EXCEPT ![Now.roc] = IF @ = "off" THEN modtrm[Now.roc] ELSE @]
  /\ UNCHANGED <<roclist, sel, registers, modtrm, armed, daq, flag>>
Load ==
  /\ At("load") /\ Goto(0)
  /\ fpga' = [fpga EXCEPT ![Now.roc] = modtrm[Now.roc]]
  /\ UNCHANGED <<roclist, sel, registers, modtrm, armed, daq, flag>>
Off ==
  /\ At("off") /\ Goto(0)
  /\ fpga' = [fpga EXCEPT ![Now.roc] = "off"]
  /\ UNCHANGED <<roclist, sel, registers, modtrm, armed, daq, flag>>
Foreign ==
  /\ At("foreign") /\ Goto(0)
  /\ fpga' = [fpga EXCEPT ![Now.roc] = "other"]
  /\ UNCHANGED <<roclist, sel, registers, modtrm, armed, daq, flag>>
Last ==
  /\ At("last") /\ Goto(0)
  /\ LET last == Greatest(roclist)
     IN  fpga' = [fpga EXCEPT ![Now.roc] =
                    IF Now.roc = last \/ modtrm[last] = "off" THEN modtrm[last] ELSE "other"]
  /\ UNCHANGED <<roclist, sel, registers, modtrm, armed, daq, flag>>

\* roc_Col_Enable, roc_Pix_Trim, roc_Pix_Cal and their opposites, or all three in a row.
Switched == {sel} \X (IF Now.arg = AllParts THEN Parts ELSE {Now.arg})
Arm ==
  /\ At("arm") /\ Goto(0)
  /\ armed' = IF sel \in Rocs THEN armed \cup Switched ELSE armed
  /\ UNCHANGED <<roclist, sel, registers, trims, daq, flag>>
\* Mutant: the calibrate bits stay set.
DisarmNotCal ==
  /\ At("disarm")
  /\ armed' = armed \ (Switched \ {<<sel, "cal">>})
  /\ UNCHANGED <<roclist, sel, registers, trims, daq, flag>>
  /\ GotoOff
Disarm ==
  /\ At("disarm")
  /\ armed' = armed \ Switched
  /\ UNCHANGED <<roclist, sel, registers, trims, daq, flag>>
  /\ GotoOff

Start ==
  /\ At("start") /\ Goto(0)
  /\ daq' = daq \cup {Now.arg}
  /\ UNCHANGED <<roclist, sel, registers, trims, armed, flag>>
Stop ==
  /\ At("stop")
  /\ daq' = daq \ {Now.arg}
  /\ UNCHANGED <<roclist, sel, registers, trims, armed, flag>>
  /\ GotoOff

-----------------------------------------------------------------------------
(* Loops on the DTB, and reading their data *)

\* A loop over pixels of one ROC; the DTB may leave that ROC addressed.
Loop ==
  /\ At("loop") /\ Goto(0)
  /\ sel' \in {sel, Now.roc}
  /\ UNCHANGED <<roclist, registers, trims, armed, daq, flag>>

\* What a DAC scan of the ROCs S leaves in their registers; a loop without DAC, nothing.
Scanned(S) ==
  IF Now.arg = None THEN {} ELSE S \X {Now.arg}
Disturb(S) ==
  /\ chip' = [x \in Registers |-> IF x \in Scanned(S) THEN "other" ELSE chip[x]]
  /\ touched' = touched \cup Scanned(S)

\* Mutant: the DTB goes through all ROCs.
ScanLast ==
  /\ At("scan") /\ Goto(0)
  /\ sel' \in {sel, Greatest(Rocs)}
  /\ Disturb({Now.roc})
  /\ UNCHANGED <<roclist, kept, moved, trims, armed, daq, flag>>
Scan ==
  /\ At("scan") /\ Goto(0)
  /\ sel' \in {sel, Now.roc}
  /\ Disturb({Now.roc})
  /\ UNCHANGED <<roclist, kept, moved, trims, armed, daq, flag>>
ScanAll ==
  /\ At("scanall") /\ Goto(0)
  /\ sel' \in {sel} \cup roclist
  /\ Disturb(roclist)
  /\ UNCHANGED <<roclist, kept, moved, trims, armed, daq, flag>>
Read ==
  /\ At("read") /\ Goto(0)
  /\ UNCHANGED <<roclist, sel, registers, trims, armed, daq, flag>>

\* An RPC error that the function catches: it returns at once, the command goes on.
Caught ==
  /\ At("scan") \/ At("scanall") \/ At("read")
  /\ errors < MaxErrors
  /\ pc' = pc + 1 + Now.n /\ failed' = TRUE /\ errors' = errors + 1
  /\ \/ At("read") /\ UNCHANGED <<sel, chip, touched>>
     \/ At("scan") /\ sel' \in {sel, Now.roc} /\ Disturb({Now.roc})
     \/ At("scanall") /\ sel' \in {sel} \cup roclist /\ Disturb(roclist)
  /\ UNCHANGED <<roclist, kept, moved, trims, armed, daq, cmd, flag, blamed, left>>

-----------------------------------------------------------------------------
(* Control *)

Quiet == UNCHANGED <<roclist, sel, registers, trims, armed, daq, flag>>

\* A condition on the data: n steps are left out, or not.
Skip  == At("skip") /\ \E k \in {0, Now.n} : Goto(k) /\ Quiet
\* The end of a loop: n steps back, or on.
Again == At("again") /\ \E k \in {0, -(Now.n + 1)} : Goto(k) /\ Quiet
Jump  == At("jump") /\ Goto(Now.n) /\ Quiet

Lower ==
  /\ At("lower") /\ Goto(0)
  /\ flag' = FALSE
  /\ UNCHANGED <<roclist, sel, registers, trims, armed, daq>>
Unless == At("unless") /\ Goto(IF flag THEN 0 ELSE Now.n) /\ Quiet

\* if( roclist[roc] )
IsEnabled == At("enabled") /\ Goto(IF Now.roc \in roclist THEN 0 ELSE Now.n) /\ Quiet

\* if( dacval[roc][dac] == -1 ) return false;
Needs == At("needs") /\ Goto(IF <<Now.roc, Now.arg>> \in kept THEN 0 ELSE Now.n) /\ Quiet

\* at() of a vector that an RPC error, or one of the decoder, has left too short throws
\* out_of_range, which nothing catches.
Use == At("use") /\ Goto(0) /\ Quiet
UseEmpty ==
  /\ At("use")
  /\ cmd' = Crash /\ pc' = 1
  /\ UNCHANGED <<roclist, sel, registers, trims, armed, daq, flag, history>>

Do ==
  \/ Select \/ First \/ Address
  \/ Put \/ Set \/ Note \/ Back \/ Revert
  \/ Edit \/ Clear \/ Load \/ Off \/ Foreign \/ Last
  \/ Arm \/ Disarm \/ Start \/ Stop
  \/ Loop \/ Scan \/ ScanAll \/ Read \/ Caught
  \/ Skip \/ Again \/ Jump \/ Lower \/ Unless \/ IsEnabled \/ Needs \/ Use \/ UseEmpty

Next == (\E c \in Commands : Begin(c)) \/ Do \/ End \/ Abort

Spec == Init /\ [][Next]_vars

-----------------------------------------------------------------------------
(* Properties *)

TypeOK ==
  /\ roclist \subseteq Rocs /\ sel \in Rocs \cup {NoRoc}
  /\ chip \in [Registers -> {"kept", "local", "other"}]
  /\ kept \subseteq Registers /\ moved \subseteq Registers
  /\ modtrm \in [Rocs -> {"off", "own"}] /\ fpga \in [Rocs -> {"off", "own", "other"}]
  /\ armed \subseteq Rocs \X Parts /\ daq \subseteq Channels
  /\ cmd \in Commands \cup {Prompt, Crash} /\ pc \in Nat /\ flag \in BOOLEAN
  /\ touched \subseteq Registers /\ blamed \subseteq Rocs \X (Dacs \cup {Trims})
  /\ left \in [armed : SUBSET (Rocs \X Parts), daq : SUBSET Channels]
  /\ failed \in BOOLEAN /\ errors \in 0 .. MaxErrors

\* "A test (e.g. a DAC scan) is supposed to restore the original state, unless a DAC is
\* changed on purpose" (man.tex:241): when a command returns that met no RPC error, every
\* register it wrote, of any ROC, holds what dacval says, but for those it is known to
\* leave, and only the DACs it is there to change have a new value in dacval.
RestoresOriginalState ==
  Returning /\ ~failed =>
    /\ \A x \in touched : chip[x] = "kept" \/ x[2] \in Leaves[cmd]
    /\ \A x \in moved : x[2] \in Purpose[cmd] \cup Leaves[cmd]

\* A register that differs from dacval at the prompt has done so since a command that met
\* an RPC error, or that is known to leave it, changed it: the damage of another command
\* never shows later, nor does one with an error damage a register it had not touched.
DirtyHasCause ==
  cmd = Prompt => \A x \in Registers : chip[x] # "kept" => x \in blamed

\* A value taken from, or noted in, dacval[roc] goes to that ROC: while a function moves
\* from ROC to ROC, no loop and no call in between leaves another one addressed, but for
\* the DACs that the command is known to leave in a ROC for this very reason.
OwnRoc ==
  At("back") \/ At("note") \/ At("revert") => sel = Now.roc \/ Now.arg \in Leaves[cmd]

\* A command that returns and met no RPC error leaves no pixel enabled or calibrated, of
\* any ROC, and no channel of the DAQ running, unless an earlier one that met an error, or
\* that is known not to mask its pixels, left it so and nothing has switched it off since.
AllOff ==
  Returning /\ ~failed /\ Pixels \notin Leaves[cmd] =>
    armed \subseteq left.armed /\ daq \subseteq left.daq

\* "The state of the ROC (DACs, trims, thresholds) is represented in software"
\* (man.tex:240): at the prompt the trim values that the next loop loads into a ROC are
\* modtrm's, unless a command met an error, or is known to leave others, while it was active.
TrimsLoaded ==
  cmd = Prompt => \A r \in Rocs : fpga[r] = modtrm[r] \/ <<r, Trims>> \in blamed
=============================================================================
