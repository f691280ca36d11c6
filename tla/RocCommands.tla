---------------------------- MODULE RocCommands ----------------------------
(***************************************************************************)
(* The commands that change the state of the ROCs (cmd.cpp), as programs   *)
(* for RocState.  A program keeps every call that changes a register, a    *)
(* trim value, an enabled pixel or the DAQ, every assignment to dacval and *)
(* modtrm, and every branch, loop, early return and catch among them.  A   *)
(* condition on measured data goes either way.  A loop over pixels, values *)
(* or iterations runs its body any number of times.                        *)
(***************************************************************************)
EXTENDS Integers, Sequences, SequencesExt

CONSTANT Rocs  \* as in RocState

-----------------------------------------------------------------------------
(* Steps *)

NoRoc == -1
None  == "none"
Do1(op, roc, arg, n) == <<[op |-> op, roc |-> roc, arg |-> arg, n |-> n]>>

I2cAddr(r)   == Do1("address", r, None, 0)
Put(d)       == Do1("put", NoRoc, d, 0)
Set(d)       == Do1("set", NoRoc, d, 0)
Note(r, d)   == Do1("note", r, d, 0)
BackTo(r, d) == Do1("back", r, d, 0)
RevertTo(r, d) == Do1("revert", r, d, 0)
EditTrim(r)  == Do1("edit", r, None, 0)
ClearTrim(r) == Do1("clear", r, None, 0)
LoadTrim(r)  == Do1("load", r, None, 0)
NoTrim(r)    == Do1("off", r, None, 0)
OtherTrim(r) == Do1("foreign", r, None, 0)
LastTrim(r)  == Do1("last", r, None, 0)
Enable(p)    == Do1("arm", NoRoc, p, 0)
Disable(p)   == Do1("disarm", NoRoc, p, 0)
DaqStart(ch) == Do1("start", NoRoc, ch, 0)
DaqStop(ch)  == Do1("stop", NoRoc, ch, 0)
LoopOf(r)    == Do1("loop", r, None, 0)
At0          == Do1("use", NoRoc, None, 0)

\* SetDAC and dacval[r][d] with the value found
Keep(r, d) == Set(d) \o Note(r, d)

(* Control.  Return leaves the command; a jump beyond its last step ends it. *)
If(body)     == Do1("skip", NoRoc, None, Len(body)) \o body
Repeat(body) == body \o Do1("again", NoRoc, None, Len(body))
While(body)  == If(Repeat(body))
Either(a, b) == Do1("skip", NoRoc, None, Len(a) + 1) \o a \o Do1("jump", NoRoc, None, Len(b)) \o b
Far          == 1000
Return       == Do1("jump", NoRoc, None, Far)

\* if( dacval[r][d] == -1 ) return false;
Needed(r, d) == Do1("needs", r, d, Far)

\* try { step } catch( CRpcError ) { return 0; }, and the rest of the function
Caught1(op, r, d, rest) == Do1(op, r, d, Len(rest)) \o rest
TryScan(r, d, rest)     == Caught1("scan", r, d, rest)
TryScanAll(d, rest)     == Caught1("scanall", NoRoc, d, rest)
TryRead(rest)           == Caught1("read", NoRoc, None, rest)

RocSeq == SetToSortSeq(Rocs, <)
ForRocs(F(_)) == FlattenSeq([i \in 1 .. Len(RocSeq) |-> F(RocSeq[i])])
If1(r, body)  == Do1("enabled", r, None, Len(body)) \o body
ForActive(F(_)) == LET G(r) == If1(r, F(r)) IN ForRocs(G)

\* tbmch = roc / 8, and the channels of the module.
Tbm == [r \in Rocs |-> IF r \div 8 = 0 THEN "tbm0" ELSE "tbm1"]
Ch0 == "tbm0"
Ch1 == "tbm1"

ArmAll    == Enable("all")
DisarmAll == Disable("all")

-----------------------------------------------------------------------------
(* Setting registers and trim bits *)

\* dac, vdig, vana, vtrim, vthr, subvthr, vcal, ctl, wbc
setter(d) == LET F(r) == I2cAddr(r) \o Keep(r, d) IN ForActive(F)

\* rddac: one value after the other, each for the ROC of its line.
rddac(D) ==
  LET F(r) == I2cAddr(r) \o FlattenSeq([i \in 1 .. Len(D) |-> Keep(r, D[i])])
  IN  ForActive(F)

\* rdtrim; a line out of order is not used, the values of the ROC are loaded all the same.
rdtrim == LET F(r) == If(EditTrim(r)) \o I2cAddr(r) \o LoadTrim(r) IN ForActive(F)

\* pixt
pixt(r) == If1(r, EditTrim(r) \o I2cAddr(r) \o LoadTrim(r))

\* select
select ==
  LET F(r) == I2cAddr(r) \o NoTrim(r)
  IN  Do1("select", NoRoc, None, 0) \o ForActive(F) \o Do1("first", NoRoc, None, 0)

\* setia: the addressed ROC and the value of ROC 0
setia == While(Keep(0, "Vana"))

\* optiamod.  val[iroc] is the old value, then the one being tuned.
optiamod ==
  LET Zero(r) == I2cAddr(r) \o Put("Vana")
      Tune(r) == I2cAddr(r) \o BackTo(r, "Vana") \o While(Keep(r, "Vana")) \o Put("Vana")
      Final(r) == I2cAddr(r) \o BackTo(r, "Vana")
  IN  ForRocs(Zero) \o ForActive(Tune) \o ForActive(Final)

-----------------------------------------------------------------------------
(* One pixel *)

\* The scan leaves its last value in the register; what an error leaves behind stays.
DacScanPix(r, d) ==
  I2cAddr(r) \o ArmAll \o LoadTrim(r) \o DaqStart(Tbm[r]) \o
  TryScan(r, d, DaqStop(Tbm[r]) \o TryRead(BackTo(r, d) \o DisarmAll))

ThrPix(r, d) == DacScanPix(r, d)

GetPixData(r) ==
  I2cAddr(r) \o ArmAll \o LoadTrim(r) \o DaqStart(Tbm[r]) \o LoopOf(r) \o DaqStop(Tbm[r]) \o DisarmAll

\* fire, fire2: the addressed ROC
fire == ArmAll \o DaqStart(Ch0) \o DaqStop(Ch0) \o DisarmAll

setcaldel == DacScanPix(0, "CalDel") \o Either(Keep(0, "CalDel"), BackTo(0, "CalDel"))

modcaldel ==
  LET F(r) == DacScanPix(r, "CalDel") \o If(Keep(r, "CalDel"))
  IN  ForActive(F)

caldelmap ==
  Put("CtrlReg") \o Put("Vcal") \o
  Repeat(Enable("col") \o
         Repeat(Enable("pix") \o ThrPix(0, "Vcal") \o Disable("pix") \o Disable("cal")) \o
         Disable("col")) \o
  BackTo(0, "Vcal") \o BackTo(0, "CalDel") \o BackTo(0, "CtrlReg")

\* daci: the supply currents for each value of a DAC
daci(d) == Needed(0, d) \o I2cAddr(0) \o Repeat(Put(d)) \o BackTo(0, d)

vthrcompi(r) ==
  I2cAddr(r) \o Enable("col") \o Enable("pix") \o Repeat(Put("VthrComp")) \o DisarmAll \o
  Keep(r, "VthrComp")

phdac(r, d) == Needed(r, d) \o DacScanPix(r, d)
effvsdac(r, d) == DacScanPix(r, d)
effdac(r, d) == Needed(r, d) \o effvsdac(r, d)

\* CtrlReg is set before the ROC is addressed.
calsdac(r, d) == Needed(0, d) \o Put("CtrlReg") \o DacScanPix(r, d) \o BackTo(r, "CtrlReg")

thrdac(d) ==
  Needed(0, d) \o Put("CtrlReg") \o Repeat(Put(d) \o ThrPix(0, "Vcal")) \o
  DisarmAll \o BackTo(0, d) \o BackTo(0, "CtrlReg")
modthrdac(r, d) ==
  Needed(r, d) \o I2cAddr(r) \o Put("CtrlReg") \o Repeat(Put(d) \o ThrPix(r, "Vcal")) \o
  BackTo(r, d) \o BackTo(r, "CtrlReg")

-----------------------------------------------------------------------------
(* All pixels of the module *)

\* Start both channels, scan the ROCs in the FPGA's list, read both; Measure does it once,
\* MeasureAll until the FPGA says that it has done all.
Measure(d, rest) ==
  DaqStart(Ch0) \o DaqStart(Ch1) \o
  TryScanAll(d, DaqStop(Ch0) \o TryRead(DaqStop(Ch1) \o TryRead(rest)))
MeasureAll(d, rest) == Measure(d, Do1("again", NoRoc, None, 7) \o rest)

RestoreAll ==
  LET F(r) == I2cAddr(r) \o BackTo(r, "Vcal") \o BackTo(r, "CtrlReg") \o DisarmAll
  IN  ForActive(F)

ModThrMap ==
  LET F(r) == I2cAddr(r) \o Put("CtrlReg") \o Enable("col") \o LoadTrim(r)
  IN  ForActive(F) \o MeasureAll("Vcal", RestoreAll)
modthrmap == If(ModThrMap)

modpixsc ==
  LET F(r) == I2cAddr(r) \o Put("CtrlReg") \o Enable("col") \o Enable("pix")
  IN  ForActive(F) \o Measure("Vcal", RestoreAll)

\* At the end Vcal gets the value of the DAC that was scanned.
dacscanmod(d) ==
  LET Prepare(r) == I2cAddr(r) \o LoadTrim(r)
      ToVcal(r) == IF d = "Vcal" THEN BackTo(r, d) ELSE Put("Vcal")
      F(r) == I2cAddr(r) \o ToVcal(r) \o BackTo(r, "CtrlReg") \o DisarmAll
  IN  Needed(0, d) \o ForActive(Prepare) \o MeasureAll(d, ForActive(F))

ModPixelAlive ==
  LET Prepare(r) == I2cAddr(r) \o LoadTrim(r)
      F(r) == I2cAddr(r) \o DisarmAll
  IN  ForActive(Prepare) \o MeasureAll(None, ForActive(F))
modmap == ModPixelAlive

modvthrcomp ==
  LET F(r) == I2cAddr(r) \o Put("CtrlReg") \o
              While(Put("VthrComp") \o ThrPix(r, "Vcal")) \o
              Keep(r, "VthrComp") \o BackTo(r, "CtrlReg")
  IN  ModThrMap \o ForActive(F)

ModTrimStep ==
  LET Revise(r) == If(EditTrim(r))
  IN  ForActive(EditTrim) \o ModThrMap \o ForActive(Revise)

\* contTrim is flag.  A ROC below the target stays as it is, and no ROC is trimmed.
modtrim ==
  LET Prepare(r) == I2cAddr(r) \o Put("CtrlReg") \o ClearTrim(r) \o LoadTrim(r)
      Vtrim(r) == Put("CtrlReg") \o EditTrim(r) \o Repeat(Put("Vtrim") \o ThrPix(r, "Vcal")) \o
                  Keep(r, "Vtrim") \o DisarmAll
      EachRoc(r) == I2cAddr(r) \o Either(Vtrim(r), Do1("lower", NoRoc, None, 0))
      Final(r) == I2cAddr(r) \o BackTo(r, "CtrlReg") \o BackTo(r, "Vcal") \o LoadTrim(r)
      Trim == ForActive(EditTrim) \o ModThrMap \o
              ModTrimStep \o ModTrimStep \o ModTrimStep \o ModTrimStep \o ForActive(Final)
  IN  ForActive(Prepare) \o ModThrMap \o ForActive(EachRoc) \o
      Do1("unless", NoRoc, None, Len(Trim)) \o Trim

modtrimbits ==
  LET F(r) == While(I2cAddr(r) \o Put("CtrlReg") \o While(EditTrim(r) \o ThrPix(r, "Vcal")) \o
                    BackTo(r, "CtrlReg"))
  IN  If(ForActive(F))

-----------------------------------------------------------------------------
(* All pixels of ROC 0 *)

\* The loop gets ROC 0, the calls before and after it go to the addressed one.
GetRocData ==
  DaqStart(Ch0) \o Enable("col") \o Enable("pix") \o
  TryScan(0, None, DaqStop(Ch0) \o TryRead(DisarmAll))

\* Other trim values for all ROCs; at the end each gets those of the last one.
GetRocDataMasked ==
  DaqStart(Ch0) \o Enable("col") \o Enable("pix") \o ForActive(OtherTrim) \o
  TryScan(0, None, DaqStop(Ch0) \o TryRead(DisarmAll \o ForActive(LastTrim)))

GetEff == TryScan(0, None, DaqStop(Ch0) \o TryRead(<<>>))

geteffmap == GetRocData \o At0
effmap    == geteffmap
effmask   == GetRocDataMasked \o At0
phmap     == GetRocData \o At0
calsmap   == GetRocData
bbtest ==
  Put("CtrlReg") \o Put("Vcal") \o GetRocData \o BackTo(0, "Vcal") \o BackTo(0, "CtrlReg")

gaindac == Repeat(Put("Vcal") \o DaqStart(Ch0) \o GetRocData) \o BackTo(0, "Vcal")

CalDelRoc ==
  Enable("col") \o Enable("pix") \o Repeat(Put("CalDel") \o DaqStart(Ch0) \o GetEff) \o
  DisarmAll \o Either(Keep(0, "CalDel"), BackTo(0, "CalDel"))
caldelroc == CalDelRoc

vanaroc ==
  Enable("col") \o Enable("pix") \o Repeat(Put("Vana") \o DaqStart(Ch0) \o GetEff) \o
  DisarmAll \o BackTo(0, "Vana")

\* dacscanroc: cals changes CtrlReg for the scan.
DacScanRoc(d, cals) ==
  LET End == BackTo(0, d) \o BackTo(0, "CtrlReg") \o DisarmAll
  IN  Enable("col") \o Enable("pix") \o (IF cals THEN Put("CtrlReg") ELSE <<>>) \o
      DaqStart(Ch0) \o
      TryScan(0, d, DaqStop(Ch0) \o TryRead(Do1("again", NoRoc, None, 4) \o End))
dacscanroc(d) == Needed(0, d) \o Either(DacScanRoc(d, FALSE), DacScanRoc(d, TRUE))

\* One call scans both DACs.
DacDac(d1, d2, sets) ==
  DaqStart(Ch0) \o Enable("col") \o Enable("pix") \o
  TryScan(0, d1, TryScan(0, d2,
    DaqStop(Ch0) \o BackTo(0, d1) \o BackTo(0, d2) \o DisarmAll \o
    TryRead(IF sets THEN Set(d1) \o Set(d2) \o Note(0, d1) \o Note(0, d2) ELSE <<>>)))
dacdac(d1, d2) == Needed(0, d1) \o Needed(0, d2) \o DacDac(d1, d2, FALSE)

thrmapsc ==
  LET End == DisarmAll \o BackTo(0, "Vcal") \o BackTo(0, "CtrlReg")
  IN  Put("CtrlReg") \o Enable("col") \o Enable("pix") \o DaqStart(Ch0) \o
      TryScan(0, "Vcal", DaqStop(Ch0) \o TryRead(Do1("again", NoRoc, None, 4) \o End))

-----------------------------------------------------------------------------
(* Thresholds and trimming of one ROC.  ThrPix gets ROC 0, whatever roc is. *)

RocThrMap(r) ==
  I2cAddr(r) \o
  Repeat(Enable("col") \o Repeat(Enable("pix") \o ThrPix(0, "Vcal") \o Disable("pix")) \o
         Disable("col")) \o
  BackTo(r, "Vcal")

thrmap == I2cAddr(0) \o Put("CtrlReg") \o RocThrMap(0) \o BackTo(0, "CtrlReg")

\* VthrComp with the pixel of the smallest threshold, in both commands
SetVthrComp ==
  Enable("col") \o Enable("pix") \o While(Put("VthrComp") \o ThrPix(0, "Vcal")) \o
  Keep(0, "VthrComp") \o DisarmAll \o BackTo(0, "CtrlReg") \o BackTo(0, "Vcal")
vthrcomp5 ==
  I2cAddr(0) \o Put("CtrlReg") \o
  Repeat(Enable("col") \o Enable("pix") \o ThrPix(0, "Vcal") \o Disable("pix") \o Disable("col")) \o
  BackTo(0, "Vcal") \o SetVthrComp
vthrcomp == I2cAddr(0) \o Put("CtrlReg") \o RocThrMap(0) \o SetVthrComp

TrimStep(r) == EditTrim(r) \o RocThrMap(r) \o If(EditTrim(r))

\* At the end the FPGA gets roctrm, the trim bits before the last step.
trim ==
  LET Vtrim(r) ==
        EditTrim(r) \o Enable("col") \o Repeat(Put("Vtrim") \o ThrPix(0, "Vcal")) \o
        Keep(r, "Vtrim") \o DisarmAll
      EachRoc(r) ==
        I2cAddr(r) \o Put("CtrlReg") \o ClearTrim(r) \o RocThrMap(r) \o
        If(Vtrim(r) \o EditTrim(r) \o RocThrMap(r) \o
           TrimStep(r) \o TrimStep(r) \o TrimStep(r) \o TrimStep(r) \o
           OtherTrim(r) \o BackTo(r, "CtrlReg") \o BackTo(r, "Vcal"))
  IN  ForActive(EachRoc)

trimbits ==
  If1(0, I2cAddr(0) \o GetRocData \o While(EditTrim(0) \o LoadTrim(0) \o GetPixData(0)))

scanvthr ==
  I2cAddr(0) \o Put("CtrlReg") \o Repeat(Put("VthrComp") \o CalDelRoc \o RocThrMap(0)) \o
  BackTo(0, "CtrlReg") \o BackTo(0, "VthrComp") \o BackTo(0, "Vcal")

-----------------------------------------------------------------------------
(* Pulse height *)

Gain == "PHScale"
Offs == "PHOffset"

\* The first part of tunePH and tunePHmod: both ends of the range against offset and gain.
TuneRange(r) ==
  Put(Gain) \o Put("Vcal") \o DacScanPix(r, Offs) \o Put("Vcal") \o DacScanPix(r, Offs) \o At0 \o
  Set(Offs) \o Put("Vcal") \o DacScanPix(r, Gain) \o Put("Vcal") \o DacScanPix(r, Gain) \o At0 \o
  Set(Gain)

\* The last part: two pixels, until their mean and their range are right.  With the offset
\* the gain is set again.
TunePixels(r) ==
  Repeat(Repeat(Put("Vcal") \o GetPixData(r)) \o Put("Vcal") \o GetPixData(r) \o
         If(If(Set(Offs)) \o Set(Gain))) \o
  Note(r, Offs) \o Note(r, Gain) \o BackTo(r, "Vcal") \o BackTo(r, "CtrlReg")

tunePH(r) ==
  LET AllPixels == Put("Vcal") \o Repeat(GetRocData \o At0 \o If(Set(Gain)))
  IN  DacScanPix(r, "Vcal") \o If(TuneRange(r) \o AllPixels \o AllPixels \o TunePixels(r))
tune == tunePH(0)

\* The gain found for all pixels is that of an inner variable; if the last part changes
\* nothing, dacval gets the other one.
tunePHmod(r) ==
  LET AllPixels == Put("Vcal") \o
                   Repeat(ModPixelAlive \o If(DacScanPix(r, Gain) \o At0 \o Put(Gain)))
  IN  I2cAddr(r) \o Put("CtrlReg") \o DacScanPix(r, "Vcal") \o
      If(TuneRange(r) \o AllPixels \o AllPixels \o TunePixels(r))
\* modtune of the ROCs S, active or not: all, or the one in the optional parameter.
modtune(S) == LET F(r) == IF r \in S THEN tunePHmod(r) ELSE <<>> IN ForRocs(F)

-----------------------------------------------------------------------------
(* Whole tests of a ROC *)

\* SetDAC( CtrlReg ) and dacval for a part of the test
Ctl == Keep(0, "CtrlReg")

\* oneroc and bare up to the S-curves
RocTest ==
  setia \o If(Return) \o Ctl \o Repeat(setcaldel) \o If(Return) \o geteffmap \o
  Ctl \o effvsdac(0, "Vcal") \o While(Keep(0, "VthrComp") \o setcaldel \o effvsdac(0, "Vcal")) \o
  Ctl \o tunePH(0)

oneroc == RocTest \o Ctl \o DacScanRoc("Vcal", FALSE) \o RevertTo(0, "CtrlReg")
bare ==
  RocTest \o If(Ctl \o DacScanRoc("Vcal", FALSE)) \o Ctl \o
  DacDac("CalDel", "VthrComp", TRUE) \o If(DacScanRoc("Vcal", TRUE)) \o
  DacScanRoc("VthrComp", TRUE) \o RevertTo(0, "CtrlReg")
=============================================================================
