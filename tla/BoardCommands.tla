--------------------------- MODULE BoardCommands ---------------------------
(***************************************************************************)
(* The commands that set up the DTB and take data with it (cmd.cpp), as    *)
(* programs for Board: every call that changes a setting or reads data,    *)
(* every assignment to tbState, and the branches, loops and early returns  *)
(* among them.  Daq_Open and Daq_Close at the begin and the end of the     *)
(* commands are compiled only with DAQOPENCLOSE, which is not defined.     *)
(***************************************************************************)
EXTENDS Integers, Sequences, SequencesExt

CONSTANT Phases  \* as in Board

None == "none"
Far == 9  \* a delay that is no phase of the scans
Ch0 == "tbm0"
Ch1 == "tbm1"

Call(op, arg, to, n, m) == <<[op |-> op, arg |-> arg, to |-> to, n |-> n, m |-> m]>>

Sig_SetDelay(s, n)    == Call("delay", s, None, n, 0)
Daq_Select(kind)      == Call("select", kind, None, 0, 0)
Daq_Select_Deser160(n) == Call("select160", None, None, n, 0)
SelectStored          == Call("select160tb", None, None, 0, 0)
SetClockPhase(n)      == Call("storeclk", None, None, n, 0)
SetDeserPhase(n)      == Call("storedeser", None, None, n, 0)
Pg_Loop               == Call("turn", "pg", "loop", 0, 0)
Pg_Stop               == Call("turn", "pg", "stop", 0, 0)
Trigger_Select(what)  == Call("turn", "trigger", what, 0, 0)
SetTimeout(t)         == Call("turn", "timeout", t, 0, 0)
Daq_Open(ch)          == Call("open", ch, None, 0, 0)
Daq_Close(ch)         == Call("close", ch, None, 0, 0)
Daq_Start(ch)         == Call("start", ch, None, 0, 0)
Daq_Stop(ch)          == Call("stop", ch, None, 0, 0)
Daq_Read(ch)          == Call("read", ch, None, 0, 0)
Pg_Single             == Call("single", None, None, 0, 0)
IfHeader(y, x)        == Call("good", None, None, y, x)
ChooseMiddle          == Call("choose", None, None, 0, 0)

If(body)     == Call("skip", None, None, Len(body), 0) \o body
Repeat(body) == body \o Call("again", None, None, Len(body), 0)
While(body)  == If(Repeat(body))
Return       == Call("jump", None, None, 1000, 0)

\* Loops over signals and phases, in the order of the code.
All(F(_), S) == FlattenSeq([i \in 1 .. Len(S) |-> F(S[i])])
PhaseSeq  == SetToSortSeq(Phases, <)
SignalSeq == <<"CLK", "CTR", "SDA", "TIN">>

AllDelays(n) == LET F(s) == Sig_SetDelay(s, n) IN All(F, SignalSeq)

StoredDelays == LET F(s) == Call("delaytb", s, None, 0, 0) IN All(F, SignalSeq)

-----------------------------------------------------------------------------
(* Signals, triggers and channels *)

clk(n)      == AllDelays(n) \o SetClockPhase(n)
oneDelay(s, n) == Sig_SetDelay(s, n)   \* sda, ctr, tin
pgstop      == Pg_Stop
pgsingle    == Pg_Single
pgloop      == Pg_Loop
trgsel(what) == Trigger_Select(what)

dopen(ch)   == Daq_Open(ch)
dclose(ch)  == Daq_Close(ch)
dstart(ch)  == Daq_Start(ch)
dstop(ch)   == Daq_Stop(ch)
dread       == Daq_Read(Ch0)
dreadm(ch)  == Daq_Read(ch)

dsel        == If(Daq_Select("400") \o Return) \o SelectStored
dselroca    == Daq_Select("adc")
dselsim     == Daq_Select("generator")
dseloff     == Daq_Select("off")

deser(n) == Daq_Select_Deser160(n) \o SetDeserPhase(n)

-----------------------------------------------------------------------------
(* deser160, deserext: try all phases, set the middle one of the good pairs, or the old *)

Try(y, x, trigger) ==
  Daq_Select_Deser160(x) \o Daq_Start(Ch0) \o trigger \o Daq_Stop(Ch0) \o Daq_Read(Ch0) \o IfHeader(y, x)
TryClk(y, trigger) ==
  LET F(x) == Try(y, x, trigger) IN AllDelays(y) \o All(F, PhaseSeq)
ScanPhases(trigger) ==
  LET F(y) == TryClk(y, trigger)
  IN  All(F, PhaseSeq) \o ChooseMiddle \o SelectStored \o StoredDelays

deser160 == ScanPhases(Pg_Single)
\* The external trigger stays selected.
deserext == Trigger_Select("external") \o ScanPhases(<<>>)

-----------------------------------------------------------------------------
(* Taking data *)

Both(F(_)) == F(Ch0) \o F(Ch1)

\* Period 1 stands for the external trigger: the DAQ runs on while it is read.
takedataExt ==
  SelectStored \o Daq_Start(Ch0) \o Pg_Stop \o SetTimeout("short") \o
  While(Daq_Read(Ch0)) \o
  Daq_Stop(Ch0) \o SetTimeout("long")

\* Triggers and DAQ stop for the read.
Run(ch) ==
  Pg_Stop \o Daq_Stop(ch) \o Daq_Read(ch) \o Daq_Start(ch) \o Pg_Loop
takedata ==
  SelectStored \o Daq_Start(Ch0) \o Pg_Loop \o SetTimeout("short") \o
  While(Run(Ch0)) \o Daq_Stop(Ch0) \o Pg_Stop \o SetTimeout("long")

onevst ==
  SelectStored \o Daq_Start(Ch0) \o Pg_Loop \o SetTimeout("short") \o
  While(Run(Ch0)) \o Daq_Stop(Ch0) \o Pg_Stop \o SetTimeout("long")

tdscan ==
  SelectStored \o Pg_Stop \o SetTimeout("short") \o
  While(Daq_Start(Ch0) \o While(Pg_Single) \o Daq_Stop(Ch0) \o Daq_Read(Ch0)) \o
  Daq_Stop(Ch0) \o SetTimeout("long")

\* At the end only the pattern generator is stopped.
modtd ==
  Daq_Select("400") \o Both(Daq_Start) \o
  While(Pg_Stop \o Both(Daq_Stop) \o Both(Daq_Read) \o Both(Daq_Start) \o Pg_Loop) \o
  Pg_Stop

tbmscan ==
  Pg_Stop \o Daq_Select("400") \o
  Repeat(Pg_Stop \o Both(Daq_Start) \o Pg_Single \o Both(Daq_Stop) \o Both(Daq_Read)) \o
  Both(Daq_Stop)

\* Random triggers; read while they come.
tbmscant ==
  Pg_Stop \o Daq_Select("400") \o Both(Daq_Start) \o
  Repeat(Trigger_Select("quiet") \o Trigger_Select("random") \o While(Both(Daq_Read))) \o
  Trigger_Select("pg") \o Both(Daq_Stop)

-----------------------------------------------------------------------------
(* Looking at signals *)

\* The delay stays at the last value; data of a wrong size end the command.
show(s) ==
  Daq_Select("adc") \o
  Repeat(Sig_SetDelay(s, Far) \o Daq_Start(Ch0) \o Pg_Single \o Daq_Stop(Ch0) \o Daq_Read(Ch0) \o If(Return))
showclk == Pg_Stop \o show("CLK")
showctr == Pg_Stop \o show("CTR")
\* A trim value is sent instead of a trigger.
showsda ==
  Daq_Select("adc") \o
  Repeat(Sig_SetDelay("SDA", Far) \o Daq_Start(Ch0) \o Daq_Stop(Ch0) \o Daq_Read(Ch0) \o If(Return))
decoding ==
  SelectStored \o
  Repeat(Sig_SetDelay("CLK", Far) \o Sig_SetDelay("TIN", Far) \o
         Repeat(Daq_Start(Ch0) \o Pg_Single \o Daq_Stop(Ch0) \o Daq_Read(Ch0)))
=============================================================================
