------------------------------ MODULE Upgrade -------------------------------
(***************************************************************************)
(* UpdateDTB of cmd.cpp: the flash file goes to the DTB record by record,  *)
(* then the DTB is told to burn it.  Burning cannot be taken back, so what *)
(* the DTB holds at that moment has to be the file.                        *)
(*                                                                         *)
(* Every RPC call may throw a CRpcError, before or after the DTB has       *)
(* executed it; the command is then given up, and the DTB stays where it   *)
(* was.                                                                    *)
(***************************************************************************)
EXTENDS Integers, Sequences

CONSTANTS
  Devices,  \* serial numbers of the USB devices
  NoDevice, \* none of them
  Files,    \* flash files: lines and whether the last one has its line end
  Width     \* values of the record counter, 2^16

ASSUME DeviceAssumption == NoDevice \notin Devices
ASSUME WidthAssumption  == Width \in Nat \ {0}
ASSUME FileAssumption   ==
  \A f \in Files : /\ f.lines \in Seq({"record", "empty"}) /\ f.ended \in BOOLEAN
                   /\ f.lines = <<>> => f.ended

VARIABLES
  tb,      \* the connection: tb.dev is the device, tb.open whether isUSB_open
  step,    \* what UpdateDTB does next, "no" outside
  file,    \* the open file
  pos,     \* lines read
  recordCount,
  loading, \* external, of each device: between UpgradeStart and UpgradeExec
  loaded,  \* external: records accepted since UpgradeStart, as the lines of a file
  wrong,   \* external: an error that UpgradeError reports
  burnt    \* history: what each device has burnt, <<>> or <<[count, file, loaded, wrong]>>

transfer == <<step, file, pos, recordCount>>
flash    == <<loading, loaded, wrong, burnt>>

NoFile == [lines |-> <<>>, ended |-> TRUE]

UpgradeInit ==
  /\ step = "no" /\ file = NoFile /\ pos = 0 /\ recordCount = 0
  /\ loading = [d \in Devices |-> FALSE] /\ loaded = [d \in Devices |-> <<>>]
  /\ wrong = [d \in Devices |-> FALSE] /\ burnt = [d \in Devices |-> <<>>]

\* A return, or an error that the command loop catches: the locals are gone.
Leave == step' = "no" /\ file' = NoFile /\ pos' = 0 /\ recordCount' = 0

-----------------------------------------------------------------------------
(* External: the DTB's side of the calls; r is the value returned, 0 or 1 *)

DtbStart(d, r) ==
  /\ loading' = [loading EXCEPT ![d] = r = 0]
  /\ loaded' = [loaded EXCEPT ![d] = <<>>] /\ wrong' = [wrong EXCEPT ![d] = FALSE]
  /\ UNCHANGED burnt

\* A record may be found wrong at once or later.
DtbData(d, r) ==
  /\ loading[d] \/ r = 1
  /\ loaded' = IF r = 0 THEN [loaded EXCEPT ![d] = Append(@, [file |-> file, line |-> pos])]
                        ELSE loaded
  /\ \E w \in BOOLEAN : (r = 1 => w) /\ wrong' = [wrong EXCEPT ![d] = @ \/ w]
  /\ UNCHANGED <<loading, burnt>>

\* Nothing is burnt without a transfer.
DtbExec(d) ==
  /\ burnt' = IF loading[d]
                THEN [burnt EXCEPT ![d] = <<[count |-> recordCount, file |-> file,
                                             loaded |-> loaded[d], wrong |-> wrong[d]]>>]
                ELSE burnt
  /\ loading' = [loading EXCEPT ![d] = FALSE]
  /\ UNCHANGED <<loaded, wrong>>

PowerCycle(d) ==
  /\ loading' = [loading EXCEPT ![d] = FALSE] /\ loaded' = [loaded EXCEPT ![d] = <<>>]
  /\ wrong' = [wrong EXCEPT ![d] = FALSE]
  /\ UNCHANGED <<tb, transfer, burnt>>

-----------------------------------------------------------------------------
(* UpdateDTB *)

\* A call that fails, before or after the DTB did effect.
Throws(effect) == (effect \/ UNCHANGED flash) /\ Leave /\ UNCHANGED tb

\* The version is not 0x0100, or the file is not there, or it is.
Version ==
  /\ step = "version" /\ tb.open
  /\ \/ Leave
     \/ \E f \in Files : step' = "start" /\ file' = f /\ UNCHANGED <<pos, recordCount>>
  /\ UNCHANGED <<tb, flash>>

UpgradeStart ==
  /\ step = "start"
  /\ \E r \in {0, 1} :
       /\ DtbStart(tb.dev, r)
       /\ IF r = 0 THEN step' = "line" /\ UNCHANGED <<file, pos, recordCount>>
                   ELSE Leave
  /\ UNCHANGED tb

\* One getline.  A line counts as read only when its line end was found: a last line
\* without one is taken for the end of the file.  Mutant: empty lines are counted.
HasLine == pos < Len(file.lines) /\ (pos + 1 = Len(file.lines) => file.ended)
LineCounted ==
  /\ step = "line"
  /\ IF HasLine
       THEN /\ pos' = pos + 1 /\ recordCount' = (recordCount + 1) % Width
            /\ step' = IF file.lines[pos + 1] = "empty" THEN "line" ELSE "data"
            /\ UNCHANGED file
       ELSE step' = "error" /\ UNCHANGED <<file, pos, recordCount>>
  /\ UNCHANGED <<tb, flash>>
Line ==
  /\ step = "line"
  /\ IF HasLine
       THEN /\ pos' = pos + 1
            /\ IF file.lines[pos + 1] = "empty"
                 THEN UNCHANGED <<step, recordCount>>
                 ELSE step' = "data" /\ recordCount' = (recordCount + 1) % Width
            /\ UNCHANGED file
       ELSE step' = "error" /\ UNCHANGED <<file, pos, recordCount>>
  /\ UNCHANGED <<tb, flash>>

\* The file cannot be read on.
BadLine == step = "line" /\ Leave /\ UNCHANGED <<tb, flash>>

UpgradeData ==
  /\ step = "data"
  /\ \E r \in {0, 1} :
       /\ DtbData(tb.dev, r)
       /\ IF r = 0 THEN step' = "line" /\ UNCHANGED <<file, pos, recordCount>>
                   ELSE Leave
  /\ UNCHANGED tb

\* Mutant: the DTB's verdict is not looked at.
UpgradeErrorIgnored ==
  /\ step = "error"
  /\ step' = "exec" /\ UNCHANGED <<file, pos, recordCount>>
  /\ UNCHANGED <<tb, flash>>
UpgradeError ==
  /\ step = "error"
  /\ IF wrong[tb.dev] THEN Leave
     ELSE step' = "exec" /\ UNCHANGED <<file, pos, recordCount>>
  /\ UNCHANGED <<tb, flash>>

UpgradeExec ==
  /\ step = "exec"
  /\ DtbExec(tb.dev) /\ Leave /\ UNCHANGED tb

UpgradeThrows ==
  \/ step = "version" /\ Throws(FALSE)
  \/ step = "start" /\ Throws(\E r \in {0, 1} : DtbStart(tb.dev, r))
  \/ step = "data" /\ Throws(\E r \in {0, 1} : DtbData(tb.dev, r))
  \/ step = "error" /\ Throws(FALSE)
  \/ step = "exec" /\ Throws(FALSE)

UpdateDTB ==
  \/ Version \/ UpgradeStart \/ Line \/ BadLine \/ UpgradeData \/ UpgradeError \/ UpgradeExec
  \/ UpgradeThrows

-----------------------------------------------------------------------------
(* Property *)

\* The line ends that getline finds: a last line without one is not sent (cmd.cpp 367).
Whole(f) == IF f.ended THEN Len(f.lines) ELSE Len(f.lines) - 1

\* q has the records among the first n lines of f, each once and in order.
HasRecords(q, f, n) ==
  /\ \A i \in 1 .. Len(q) :
       q[i].file = f /\ q[i].line \in 1 .. n /\ f.lines[q[i].line] = "record"
  /\ \A i, j \in 1 .. Len(q) : i < j => q[i].line < q[j].line
  /\ \A m \in 1 .. n : f.lines[m] = "record" => \E i \in 1 .. Len(q) : q[i].line = m

\* What a DTB is told to burn is the file: it has accepted in this transfer all non-empty
\* lines of this file that have a line end, in order and none twice, found none of them
\* wrong, and gets their number, modulo what the uint16_t holds, as the count: whatever
\* went wrong in earlier tries and wherever the DTB was switched off (cmd.cpp 342-409).
BurnsTheFile ==
  \A d \in Devices : \A i \in 1 .. Len(burnt[d]) :
    LET b == burnt[d][i]
    IN  HasRecords(b.loaded, b.file, Whole(b.file)) /\ b.count = Len(b.loaded) % Width /\ ~b.wrong
=============================================================================
