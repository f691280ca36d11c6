-------------------------- MODULE RocStateProofs ---------------------------
(***************************************************************************)
(* Theorems about the machine that runs the test commands, for any ROCs,   *)
(* registers and programs: types for every program, the rest for programs  *)
(* with a sound outline (RocOutline).                                      *)
(***************************************************************************)
EXTENDS RocOutline, TLAPS, WellFoundedInduction

USE DEF registers, trims, Quiet

\* The current step has the parameters of its operation.
LEMMA NowFacts ==
  ASSUME NEW op, At(op)
  PROVE  /\ Now \in Step /\ WellFormed(Now) /\ Now.op = op
         /\ pc \in 1 .. Len(Code[cmd]) /\ pc \in Nat
         /\ Now.op = "again" => Now.n < pc
  <1>1. cmd \in Commands /\ pc \in 1 .. Len(Code[cmd]) /\ Now.op = op
    BY DEF At, Running
  <1>2. Code[cmd] \in Seq(Step)
    BY <1>1, CodeAssumption
  <1>3. Now \in Step
    BY <1>1, <1>2 DEF Now
  <1>4. WellFormed(Now) /\ (Now.op = "again" => Now.n < pc)
    BY <1>1, StepAssumption DEF Now
  <1>5. pc \in Nat
    BY <1>1, <1>2
  <1> QED BY <1>1, <1>3, <1>4, <1>5

\* A nonempty set of ROCs has a smallest one.
LEMMA LeastFacts ==
  ASSUME NEW S \in SUBSET Rocs, S # {}
  PROVE  Least(S) \in S
  <1>1. S \subseteq Nat
    BY RocAssumption
  <1>2. PICK x \in S : \A y \in S : ~(<<y, x>> \in OpToRel(<, Nat))
    BY <1>1, NatLessThanWellFounded, WFMin, Zenon
  <1>3. \A y \in S : x <= y
    <2> SUFFICES ASSUME NEW y \in S PROVE x <= y
      OBVIOUS
    <2>1. OpToRel(<, Nat) = {p \in Nat \X Nat : p[1] < p[2]}
      BY Zenon DEF OpToRel
    <2>2. ~(<<y, x>> \in {p \in Nat \X Nat : p[1] < p[2]})
      BY <1>2, <2>1
    <2>3. x \in Nat /\ y \in Nat
      BY <1>1
    <2> HIDE DEF OpToRel
    <2> QED BY <2>2, <2>3
  <1> QED BY <1>3 DEF Least

-----------------------------------------------------------------------------
(* Type correctness *)

\* Where a step goes next.
LEMMA PcFacts ==
  ASSUME TypeOK, NEW op, At(op)
  PROVE  /\ pc + 1 + 0 \in Nat /\ pc + 1 + Now.n \in Nat
         /\ Now.op = "again" => pc + 1 + (-(Now.n + 1)) \in Nat
         /\ cmd \in Commands
  <1>1. Now \in Step /\ pc \in Nat /\ (Now.op = "again" => Now.n < pc)
    BY NowFacts
  <1>2. Now.n \in Nat
    BY <1>1 DEF Step
  <1>3. cmd \in Commands
    BY DEF At, Running
  <1> QED BY <1>1, <1>2, <1>3

\* What a step does to pc, when it does not end the command.
LEMMA GotoFacts ==
  ASSUME TypeOK, NEW k, Goto(k), pc + 1 + k \in Nat
  PROVE  /\ pc' \in Nat /\ cmd' \in Commands \cup {Prompt, Crash}
         /\ blamed' \subseteq Rocs \X (Dacs \cup {Trims}) /\ failed' \in BOOLEAN /\ errors' \in 0 .. MaxErrors
         /\ left' \in [armed : SUBSET (Rocs \X Parts), daq : SUBSET Channels]
  BY DEF Goto, TypeOK, history

\* The same where something is switched off.
LEMMA GotoOffFacts ==
  ASSUME TypeOK, NEW op, At(op), GotoOff
  PROVE  /\ pc' = pc + 1 /\ pc' \in Nat /\ cmd' = cmd /\ cmd \in Commands
         /\ UNCHANGED <<failed, blamed, errors>>
         /\ left'.armed = left.armed \cap armed' /\ left'.daq = left.daq \cap daq'
         /\ left' \in [armed : SUBSET (Rocs \X Parts), daq : SUBSET Channels]
  BY DEF GotoOff, TypeOK, At, Running

\* A register gets a value.
LEMMA SetDACFacts ==
  ASSUME TypeOK, NEW d \in Dacs, NEW value \in {"kept", "local", "other"}, SetDAC(d, value)
  PROVE  /\ chip' \in [Registers -> {"kept", "local", "other"}]
         /\ touched' \subseteq Registers
  <1>1. CASE sel \in Rocs
    <2>1. <<sel, d>> \in Registers
      BY <1>1 DEF Registers
    <2>2. /\ chip' = [chip EXCEPT ![<<sel, d>>] = value]
          /\ touched' = touched \cup {<<sel, d>>}
      BY <1>1 DEF SetDAC
    <2> QED BY <2>1, <2>2 DEF TypeOK
  <1>2. CASE sel \notin Rocs
    BY <1>2 DEF SetDAC, TypeOK
  <1> QED BY <1>1, <1>2

\* What a scan disturbs.
LEMMA ScannedFacts ==
  ASSUME TypeOK, At("scan") \/ At("scanall"), NEW S \in SUBSET Rocs, Disturb(S)
  PROVE  /\ chip' \in [Registers -> {"kept", "local", "other"}]
         /\ touched' \subseteq Registers
  <1>1. Now.arg \in Dacs \cup {None}
    <2>1. WellFormed(Now) /\ Now.op \in {"scan", "scanall"}
      BY NowFacts
    <2> QED BY <2>1 DEF WellFormed
  <1>2. Scanned(S) \subseteq Registers
    BY <1>1 DEF Scanned, Registers
  <1> QED BY <1>2 DEF Disturb, TypeOK

\* The ROC of a step.
LEMMA RocFacts ==
  ASSUME NEW op, At(op)
  PROVE  /\ Now.roc \in Rocs \cup {NoRoc}
         /\ op \in {"note", "scan"} => Now.roc \in Rocs
         /\ op \in {"put", "set", "note", "back", "revert"} => Now.arg \in Dacs
         /\ op = "arm" => Now.arg \in Parts \cup {AllParts}
         /\ op = "start" => Now.arg \in Channels
  BY NowFacts DEF Step, WellFormed

LEMMA InitType == Init => TypeOK
  <1> SUFFICES ASSUME Init PROVE TypeOK
    OBVIOUS
  <1>1. roclist \subseteq Rocs
    BY EnabledAssumption DEF Init
  <1>2. sel \in Rocs \cup {NoRoc}
    <2>1. CASE roclist = {}
      BY <2>1 DEF Init
    <2>2. CASE roclist # {}
      BY <1>1, <2>2, LeastFacts DEF Init
    <2> QED BY <2>1, <2>2
  <1>3. kept \subseteq Registers /\ errors \in 0 .. MaxErrors
    BY RocAssumption, BoundAssumption DEF Init
  <1>4. /\ chip \in [Registers -> {"kept", "local", "other"}] /\ moved \subseteq Registers
        /\ modtrm \in [Rocs -> {"off", "own"}] /\ fpga \in [Rocs -> {"off", "own", "other"}]
        /\ armed \subseteq Rocs \X Parts /\ daq \subseteq Channels
        /\ cmd \in Commands \cup {Prompt, Crash} /\ pc \in Nat
        /\ touched \subseteq Registers /\ blamed \subseteq Rocs \X (Dacs \cup {Trims})
        /\ left \in [armed : SUBSET (Rocs \X Parts), daq : SUBSET Channels]
    BY DEF Init, NoneActive
  <1>5. flag \in BOOLEAN /\ failed \in BOOLEAN
    BY DEF Init
  <1> QED BY <1>1, <1>2, <1>3, <1>4, <1>5 DEF TypeOK

\* The calls and assignments.
LEMMA CallType ==
  ASSUME TypeOK,
         \/ Select \/ First \/ Address \/ Put \/ Set \/ Note \/ Back \/ Revert
         \/ Edit \/ Clear \/ Load \/ Off \/ Foreign \/ Last \/ Arm \/ Disarm \/ Start \/ Stop
  PROVE  TypeOK'
  <1>1. CASE Select
    BY <1>1, PcFacts, GotoFacts DEF Select, TypeOK
  <1>2. CASE First
    <2>1. sel' \in Rocs \cup {NoRoc}
      <3>1. CASE roclist = {}
        BY <1>2, <3>1 DEF First
      <3>2. CASE roclist # {}
        BY <1>2, <3>2, LeastFacts DEF First, TypeOK
      <3> QED BY <3>1, <3>2
    <2> QED BY <1>2, <2>1, PcFacts, GotoFacts DEF First, TypeOK
  <1>3. CASE Address
    BY <1>3, RocFacts, PcFacts, GotoFacts DEF Address, TypeOK
  <1>4. CASE Put
    <2>1. SetDAC(Now.arg, "other") /\ Now.arg \in Dacs
      BY <1>4, RocFacts DEF Put
    <2> QED BY <1>4, <2>1, SetDACFacts, PcFacts, GotoFacts DEF Put, TypeOK
  <1>5. CASE Set
    <2>1. SetDAC(Now.arg, "local") /\ Now.arg \in Dacs
      BY <1>5, RocFacts DEF Set
    <2> QED BY <1>5, <2>1, SetDACFacts, PcFacts, GotoFacts DEF Set, TypeOK
  <1>6. CASE Note
    <2> DEFINE x == <<Now.roc, Now.arg>>
    <2>1. x \in Registers
      BY <1>6, RocFacts DEF Note, Registers
    <2>2. chip' = [chip EXCEPT ![x] = IF chip[x] = "local" THEN "kept" ELSE "other"]
      BY <1>6 DEF Note
    <2>3. kept' = kept \cup {x} /\ moved' = moved \cup {x} /\ touched' = touched \cup {x}
      BY <1>6 DEF Note
    <2>4. UNCHANGED <<roclist, sel, trims, armed, daq, flag>>
      BY <1>6 DEF Note
    <2>5. Goto(0) /\ At("note")
      BY <1>6 DEF Note
    <2> HIDE DEF x
    <2>6. chip' \in [Registers -> {"kept", "local", "other"}]
      BY <2>1, <2>2 DEF TypeOK
    <2> QED BY <2>1, <2>3, <2>4, <2>5, <2>6, PcFacts, GotoFacts DEF TypeOK
  <1>7. CASE Back
    <2> DEFINE v == IF sel = Now.roc /\ <<sel, Now.arg>> \in kept THEN "kept" ELSE "other"
    <2>1. SetDAC(Now.arg, v) /\ Now.arg \in Dacs
      BY <1>7, RocFacts DEF Back
    <2>2. v \in {"kept", "local", "other"}
      OBVIOUS
    <2>3. Goto(0) /\ At("back") /\ UNCHANGED <<roclist, sel, kept, moved, trims, armed, daq, flag>>
      BY <1>7 DEF Back
    <2> HIDE DEF v
    <2>4. chip' \in [Registers -> {"kept", "local", "other"}] /\ touched' \subseteq Registers
      BY <2>1, <2>2, SetDACFacts
    <2> QED BY <2>3, <2>4, PcFacts, GotoFacts DEF TypeOK
  <1>8. CASE Revert
    <2> DEFINE v == IF sel = Now.roc THEN "kept" ELSE "other"
    <2>1. SetDAC(Now.arg, v) /\ Now.arg \in Dacs
      BY <1>8, RocFacts DEF Revert
    <2>2. v \in {"kept", "local", "other"}
      OBVIOUS
    <2>3. Goto(0) /\ At("revert") /\ UNCHANGED <<roclist, sel, kept, trims, armed, daq, flag>>
          /\ moved' = moved \ {<<Now.roc, Now.arg>>}
      BY <1>8 DEF Revert
    <2> HIDE DEF v
    <2>4. chip' \in [Registers -> {"kept", "local", "other"}] /\ touched' \subseteq Registers
      BY <2>1, <2>2, SetDACFacts
    <2> QED BY <2>3, <2>4, PcFacts, GotoFacts DEF TypeOK
  <1>9. CASE Edit \/ Clear \/ Load \/ Off \/ Foreign
    BY <1>9, PcFacts, GotoFacts DEF Edit, Clear, Load, Off, Foreign, TypeOK
  <1>10. CASE Last
    BY <1>10, PcFacts, GotoFacts DEF Last, TypeOK
  <1>11. CASE Arm \/ Disarm
    <2>1. armed' \subseteq Rocs \X Parts
      <3>1. CASE Arm
        <4>1. Now.arg \in Parts \cup {AllParts}
          BY <3>1, RocFacts DEF Arm
        <4> QED BY <3>1, <4>1 DEF Arm, Switched, TypeOK
      <3>2. CASE Disarm
        BY <3>2 DEF Disarm, TypeOK
      <3> QED BY <1>11, <3>1, <3>2
    <2>2. CASE Arm
      BY <2>1, <2>2, PcFacts, GotoFacts DEF Arm, TypeOK
    <2>3. CASE Disarm
      BY <2>1, <2>3, GotoOffFacts DEF Disarm, TypeOK
    <2> QED BY <1>11, <2>2, <2>3
  <1>12. CASE Start
    BY <1>12, RocFacts, PcFacts, GotoFacts DEF Start, TypeOK
  <1>13. CASE Stop
    BY <1>13, GotoOffFacts DEF Stop, TypeOK
  <1> QED BY <1>1, <1>2, <1>3, <1>4, <1>5, <1>6, <1>7, <1>8, <1>9, <1>10, <1>11, <1>12, <1>13

\* Loops on the DTB and reading.
LEMMA ScanType ==
  ASSUME TypeOK, Loop \/ Scan \/ ScanAll \/ Read \/ Caught
  PROVE  TypeOK'
  <1>1. CASE Loop
    BY <1>1, RocFacts, PcFacts, GotoFacts DEF Loop, TypeOK
  <1>2. CASE Scan
    <2>1. Now.roc \in Rocs
      BY <1>2, RocFacts DEF Scan
    <2>2. chip' \in [Registers -> {"kept", "local", "other"}] /\ touched' \subseteq Registers
      BY <1>2, <2>1, ScannedFacts DEF Scan
    <2> QED BY <1>2, <2>1, <2>2, PcFacts, GotoFacts DEF Scan, TypeOK
  <1>3. CASE ScanAll
    <2>1. chip' \in [Registers -> {"kept", "local", "other"}] /\ touched' \subseteq Registers
      BY <1>3, ScannedFacts DEF ScanAll, TypeOK
    <2> QED BY <1>3, <2>1, PcFacts, GotoFacts DEF ScanAll, TypeOK
  <1>4. CASE Read
    BY <1>4, PcFacts, GotoFacts DEF Read, TypeOK
  <1>5. CASE Caught
    <2>1. PICK op \in {"scan", "scanall", "read"} : At(op)
      BY <1>5 DEF Caught
    <2>2. /\ pc' = pc + 1 + Now.n /\ failed' = TRUE /\ errors' = errors + 1
          /\ errors < MaxErrors
          /\ UNCHANGED <<roclist, kept, moved, trims, armed, daq, cmd, flag, blamed, left>>
      BY <1>5 DEF Caught
    <2>3. pc' \in Nat
      BY <2>1, <2>2, PcFacts
    <2>4. errors' \in 0 .. MaxErrors
      BY <2>2, BoundAssumption DEF TypeOK
    <2>5. /\ sel' \in Rocs \cup {NoRoc} /\ touched' \subseteq Registers
          /\ chip' \in [Registers -> {"kept", "local", "other"}]
      <3>1. CASE At("read") /\ UNCHANGED <<sel, chip, touched>>
        BY <3>1 DEF TypeOK
      <3>2. CASE At("scan") /\ sel' \in {sel, Now.roc} /\ Disturb({Now.roc})
        <4>1. Now.roc \in Rocs
          BY <3>2, RocFacts
        <4> QED BY <3>2, <4>1, ScannedFacts DEF TypeOK
      <3>3. CASE At("scanall") /\ sel' \in {sel} \cup roclist /\ Disturb(roclist)
        BY <3>3, ScannedFacts DEF TypeOK
      <3> QED BY <1>5, <3>1, <3>2, <3>3 DEF Caught
    <2> QED BY <2>2, <2>3, <2>4, <2>5 DEF TypeOK
  <1> QED BY <1>1, <1>2, <1>3, <1>4, <1>5

\* Branches and loops.
LEMMA ControlType ==
  ASSUME TypeOK,
         Skip \/ Again \/ Jump \/ Lower \/ Unless \/ IsEnabled \/ Needs \/ Use \/ UseEmpty
  PROVE  TypeOK'
  <1>1. CASE UseEmpty
    BY <1>1 DEF UseEmpty, TypeOK, history
  <1>2. CASE Lower
    BY <1>2, PcFacts, GotoFacts DEF Lower, TypeOK
  <1>3. CASE Use
    BY <1>3, PcFacts, GotoFacts DEF Use, TypeOK
  <1>4. ASSUME NEW k, NEW op, At(op), Goto(k), Quiet, k \in {0, Now.n, -(Now.n + 1)},
               k = -(Now.n + 1) => op = "again" \/ k = 0
        PROVE  TypeOK'
    <2>1. Now.op = op
      BY <1>4, NowFacts
    <2>2. pc + 1 + k \in Nat
      BY <1>4, <2>1, PcFacts
    <2> QED BY <1>4, <2>2, GotoFacts DEF TypeOK
  <1>5. CASE Skip
    <2>1. PICK k \in {0, Now.n} : Goto(k) /\ Quiet
      BY <1>5 DEF Skip
    <2>2. Now.n \in Nat
      BY <1>5, NowFacts DEF Skip, Step
    <2>3. k \in Nat /\ At("skip")
      BY <1>5, <2>1, <2>2 DEF Skip
    <2>4. k # -(Now.n + 1)
      BY <2>2, <2>3
    <2> QED BY <1>4, <2>1, <2>3, <2>4
  <1>6. CASE Again
    <2>1. PICK k \in {0, -(Now.n + 1)} : Goto(k) /\ Quiet
      BY <1>6 DEF Again
    <2> QED BY <1>4, <1>6, <2>1 DEF Again
  <1>7. ASSUME NEW op, NEW k \in {0, Now.n}, At(op), Goto(k), Quiet
        PROVE  TypeOK'
    <2>1. Now.n \in Nat
      BY <1>7, NowFacts DEF Step
    <2>2. k # -(Now.n + 1)
      BY <2>1
    <2> QED BY <1>4, <1>7, <2>2
  <1>8. CASE Jump
    BY <1>7, <1>8 DEF Jump
  <1>9. CASE Unless
    BY <1>7, <1>9, Zenon DEF Unless
  <1>10. CASE IsEnabled
    BY <1>7, <1>10, Zenon DEF IsEnabled
  <1>11. CASE Needs
    BY <1>7, <1>11, Zenon DEF Needs
  <1> QED BY <1>1, <1>2, <1>3, <1>5, <1>6, <1>8, <1>9, <1>10, <1>11

LEMMA ChangedType ==
  ASSUME TypeOK
  PROVE  Changed \subseteq Rocs \X (Dacs \cup {Trims})
  BY DEF Changed, TypeOK, Registers

\* A command begins or ends.
LEMMA CommandType ==
  ASSUME TypeOK, (\E c \in Commands : Begin(c)) \/ End \/ Abort
  PROVE  TypeOK'
  <1>1. CASE \E c \in Commands : Begin(c)
    <2>1. PICK c \in Commands : Begin(c)
      BY <1>1
    <2>2. /\ cmd' \in Commands /\ pc' = 1 /\ flag' = TRUE /\ moved' = {} /\ touched' = {}
          /\ failed' = FALSE
          /\ UNCHANGED <<roclist, sel, chip, kept, modtrm, fpga, armed, daq, blamed, left, errors>>
      BY <2>1 DEF Begin
    <2> QED BY <2>2 DEF TypeOK
  <1>2. ASSUME Leave
        PROVE  /\ roclist' \subseteq Rocs /\ sel' \in Rocs \cup {NoRoc}
               /\ chip' \in [Registers -> {"kept", "local", "other"}]
               /\ kept' \subseteq Registers /\ moved' \subseteq Registers
               /\ UNCHANGED <<modtrm, fpga, armed, daq>>
               /\ cmd' \in Commands \cup {Prompt, Crash} /\ pc' \in Nat /\ flag' \in BOOLEAN
               /\ touched' \subseteq Registers /\ failed' \in BOOLEAN
    BY <1>2 DEF Leave, TypeOK
  <1>3. CASE End
    <2>1. Leave /\ blamed' \subseteq Rocs \X (Dacs \cup {Trims}) /\ errors' = errors
      BY <1>3, ChangedType DEF End, TypeOK
    <2>2. left' \in [armed : SUBSET (Rocs \X Parts), daq : SUBSET Channels]
      BY <1>3 DEF End, Active, TypeOK
    <2> QED BY <1>2, <2>1, <2>2 DEF TypeOK
  <1>4. CASE Abort
    <2>1. Leave /\ blamed' \subseteq Rocs \X (Dacs \cup {Trims})
      BY <1>4, ChangedType DEF Abort, TypeOK
    <2>2. errors' \in 0 .. MaxErrors
      BY <1>4, BoundAssumption DEF Abort, TypeOK
    <2>3. left' \in [armed : SUBSET (Rocs \X Parts), daq : SUBSET Channels]
      BY <1>4 DEF Abort, Active, TypeOK
    <2> QED BY <1>2, <2>1, <2>2, <2>3 DEF TypeOK
  <1> QED BY <1>1, <1>3, <1>4

\* The types of all variables; no program runs out of its steps, addresses a ROC there is
\* not, or counts more errors than there are.
THEOREM TypeCorrect == Spec => []TypeOK
  <1>1. Init => TypeOK
    BY InitType
  <1>2. TypeOK /\ [Next]_vars => TypeOK'
    <2> SUFFICES ASSUME TypeOK, [Next]_vars PROVE TypeOK'
      OBVIOUS
    <2>1. CASE UNCHANGED vars
      BY <2>1 DEF vars, history, TypeOK
    <2>2. CASE Do
      BY <2>2, CallType, ScanType, ControlType DEF Do
    <2>3. CASE (\E c \in Commands : Begin(c)) \/ End \/ Abort
      BY <2>3, CommandType
    <2> QED BY <2>1, <2>2, <2>3 DEF Next
  <1> QED BY <1>1, <1>2, PTL DEF Spec

-----------------------------------------------------------------------------
(* What differs from dacval has a cause *)

\* Every register that differs from dacval was written by the command, or by one that
\* met an error or is known to leave it; at the prompt there is no command.
Accounted ==
  /\ \A x \in Registers : chip[x] # "kept" => x \in blamed \cup touched
  /\ cmd = Prompt => touched = {}

\* No step of a command forgets what it has written.
Recorded ==
  /\ \A x \in Registers : chip'[x] # "kept" => chip[x] # "kept" \/ x \in touched'
  /\ touched \subseteq touched' /\ blamed' = blamed
  /\ cmd \in Commands /\ cmd' \in Commands \cup {Crash}

LEMMA SetDACRecords ==
  ASSUME TypeOK, NEW d, NEW value, SetDAC(d, value)
  PROVE  /\ \A x \in Registers : chip'[x] # "kept" => chip[x] # "kept" \/ x \in touched'
         /\ touched \subseteq touched'
  BY DEF SetDAC, TypeOK

LEMMA DisturbRecords ==
  ASSUME TypeOK, NEW S, Disturb(S)
  PROVE  /\ \A x \in Registers : chip'[x] # "kept" => chip[x] # "kept" \/ x \in touched'
         /\ touched \subseteq touched'
  BY DEF Disturb, TypeOK

LEMMA AtCommand ==
  ASSUME NEW op, At(op), NEW k, Goto(k)
  PROVE  cmd \in Commands /\ cmd' = cmd /\ blamed' = blamed
  BY DEF At, Running, Goto, history

LEMMA DoRecords ==
  ASSUME TypeOK, Do
  PROVE  Recorded
  <1>1. CASE Put \/ Set
    <2>1. PICK v : SetDAC(Now.arg, v)
      BY <1>1 DEF Put, Set
    <2> QED BY <1>1, <2>1, SetDACRecords, AtCommand DEF Put, Set, Recorded
  <1>2. CASE Back \/ Revert
    <2>1. PICK v : SetDAC(Now.arg, v)
      BY <1>2 DEF Back, Revert
    <2>2. cmd \in Commands /\ cmd' = cmd /\ blamed' = blamed
      BY <1>2, AtCommand DEF Back, Revert
    <2> QED BY <2>1, <2>2, SetDACRecords DEF Recorded
  <1>3. CASE Note
    <2>1. PICK x, v : chip' = [chip EXCEPT ![x] = v] /\ touched' = touched \cup {x}
      BY <1>3 DEF Note
    <2>2. \A y \in Registers : chip'[y] # "kept" => chip[y] # "kept" \/ y \in touched'
      BY <2>1 DEF TypeOK
    <2> QED BY <1>3, <2>1, <2>2, AtCommand DEF Note, Recorded
  <1>4. CASE Scan \/ ScanAll
    <2>1. PICK S : Disturb(S)
      BY <1>4 DEF Scan, ScanAll
    <2> QED BY <1>4, <2>1, DisturbRecords, AtCommand DEF Scan, ScanAll, Recorded
  <1>5. CASE Caught
    <2>1. cmd \in Commands /\ cmd' = cmd /\ blamed' = blamed
      BY <1>5 DEF Caught, At, Running
    <2>2. CASE UNCHANGED <<chip, touched>>
      BY <2>1, <2>2 DEF Recorded
    <2>3. CASE \E S : Disturb(S)
      BY <2>1, <2>3, DisturbRecords DEF Recorded
    <2> QED BY <1>5, <2>2, <2>3 DEF Caught
  <1>6. CASE UseEmpty
    BY <1>6 DEF UseEmpty, At, Running, Recorded, history
  <1>7. CASE \/ Select \/ First \/ Address
             \/ Edit \/ Clear \/ Load \/ Off \/ Foreign \/ Last
             \/ Arm \/ Start \/ Loop \/ Read
             \/ Skip \/ Again \/ Jump \/ Lower \/ Unless \/ IsEnabled \/ Needs \/ Use
    <2>1. UNCHANGED <<chip, touched>>
      BY <1>7 DEF Select, First, Address, Edit, Clear, Load, Off, Foreign, Last, Arm,
                  Start, Loop, Read, Skip, Again, Jump, Lower, Unless, IsEnabled, Needs, Use
    <2>2. \E op, k : At(op) /\ Goto(k)
      BY <1>7, Zenon
         DEF Select, First, Address, Edit, Clear, Load, Off, Foreign, Last, Arm,
             Start, Loop, Read, Skip, Again, Jump, Lower, Unless, IsEnabled, Needs, Use
    <2> QED BY <2>1, <2>2, AtCommand DEF Recorded
  <1>8. CASE Disarm \/ Stop
    <2>1. cmd \in Commands /\ cmd' = cmd /\ blamed' = blamed
      BY <1>8, GotoOffFacts DEF Disarm, Stop
    <2>2. UNCHANGED <<chip, touched>>
      BY <1>8 DEF Disarm, Stop
    <2> QED BY <2>1, <2>2 DEF Recorded
  <1> QED BY <1>1, <1>2, <1>3, <1>4, <1>5, <1>6, <1>7, <1>8 DEF Do

\* When a command ends, or an error ends it, what it wrote is restored or blamed on it.
LEMMA LeaveAccounts ==
  ASSUME TypeOK, Accounted, Leave,
         \A x \in Registers : chip[x] # "kept" /\ x \in blamed \cup touched => x \in blamed'
  PROVE  Accounted'
  <1>1. touched' = {}
    BY DEF Leave
  <1>2. ASSUME NEW x \in Registers, chip'[x] # "kept"
        PROVE  x \in blamed'
    <2>1. chip[x] # "kept"
      BY <1>2 DEF Leave
    <2> QED BY <2>1 DEF Accounted
  <1> QED BY <1>1, <1>2 DEF Accounted

\* If the commands that met no error restore what they wrote, but for what they are known
\* to leave, then a register that differs from dacval at the prompt was written by a command
\* that met one, or is known to leave it: whatever the commands are, how many follow one
\* another, and wherever the errors come.
LEMMA CauseFollows == Spec /\ []RestoresOriginalState => []DirtyHasCause
  <1>1. Init => Accounted
    BY DEF Init, Accounted
  <1>2. TypeOK /\ RestoresOriginalState /\ Accounted /\ [Next]_vars => Accounted'
    <2> SUFFICES ASSUME TypeOK, RestoresOriginalState, Accounted, [Next]_vars
                 PROVE  Accounted'
      OBVIOUS
    <2>1. CASE UNCHANGED vars
      BY <2>1 DEF vars, history, Accounted
    <2>2. CASE \E c \in Commands : Begin(c)
      BY <2>2, NameAssumption DEF Begin, Accounted
    <2>3. CASE Do
      <3>1. Recorded
        BY <2>3, DoRecords
      <3>2. cmd' # Prompt
        BY <3>1, NameAssumption DEF Recorded, Prompt, Crash
      <3> QED BY <3>1, <3>2 DEF Recorded, Accounted
    <2>4. CASE End
      <3>1. /\ Leave
            /\ blamed' = Wrong \cap (blamed \cup {x \in Changed : failed \/ x[2] \in Leaves[cmd]})
        BY <2>4 DEF End
      <3>2. ASSUME NEW x \in Registers, chip[x] # "kept", x \in blamed \cup touched
            PROVE  x \in blamed'
        <4>1. x \in Wrong
          BY <3>2 DEF Wrong
        <4>2. x \in blamed \/ failed \/ x[2] \in Leaves[cmd]
          BY <2>4, <3>2 DEF End, RestoresOriginalState
        <4> QED BY <3>1, <3>2, <4>1, <4>2 DEF Changed
      <3> QED BY <3>1, <3>2, LeaveAccounts
    <2>5. CASE Abort
      <3>1. Leave /\ blamed' = Wrong \cap (blamed \cup Changed)
        BY <2>5 DEF Abort
      <3>2. \A x \in Registers : chip[x] # "kept" /\ x \in blamed \cup touched => x \in blamed'
        BY <3>1 DEF Wrong, Changed
      <3> QED BY <3>1, <3>2, LeaveAccounts
    <2> QED BY <2>1, <2>2, <2>3, <2>4, <2>5 DEF Next
  <1>3. Accounted => DirtyHasCause
    BY DEF Accounted, DirtyHasCause
  <1> QED BY <1>1, <1>2, <1>3, TypeCorrect, PTL DEF Spec

-----------------------------------------------------------------------------
(* What sound outlines guarantee *)

\* What a case says of a state: where the command is, what is in the FPGA, in the
\* registers and in dacval, what is enabled and running.
Where(a)  == roclist = a.roclist /\ sel = a.sel /\ flag = a.flag /\ failed = a.failed
Loaded(a) == \A r \in Rocs : fpga[r] = modtrm[r] \/ r \in a.stale \/ <<r, Trims>> \in blamed
Chips(a)  == /\ \A x \in touched : chip[x] = "kept" \/ x \in a.dirty
             /\ \A x \in a.local : chip[x] = "local"
Moves(a)  == moved \subseteq a.moved
On(a)     == armed \subseteq a.armed \cup left.armed /\ daq \subseteq a.running \cup left.daq
Holds(a)  == Where(a) /\ Loaded(a) /\ (~a.failed => Chips(a) /\ Moves(a) /\ On(a))

\* Between commands there is nothing but what the commands that met an error, or are
\* known for it, left.
Clean ==
  /\ <<roclist, sel>> \in Settled /\ TrimsLoaded
  /\ touched = {} /\ moved = {} /\ failed = FALSE /\ flag = TRUE
  /\ armed \subseteq left.armed /\ daq \subseteq left.daq

RocInv ==
  /\ pc >= 1 /\ Preset \subseteq kept
  /\ cmd = Prompt => Clean
  /\ cmd \in Commands => \E a \in Before(cmd, pc) : Holds(a)

\* The cases of an outline.
LEMMA BeforeFacts ==
  ASSUME NEW c \in Commands, NEW k \in Nat, k >= 1
  PROVE  Before(c, k) \subseteq Case
  <1>1. Code[c] \in Seq(Step)
    BY CodeAssumption
  <1>2. Exit(c) \in Nat /\ Exit(c) >= 1
    BY <1>1 DEF Exit
  <1>3. Outline[c] \in Seq(SUBSET Case) /\ Len(Outline[c]) = Exit(c)
    BY OutlineAssumption DEF Inductive
  <1>4. (IF k > Exit(c) THEN Exit(c) ELSE k) \in 1 .. Len(Outline[c])
    BY <1>2, <1>3
  <1> QED BY <1>3, <1>4 DEF Before

LEMMA FieldFacts ==
  ASSUME NEW a \in Case
  PROVE  /\ a.roclist \subseteq Rocs /\ a.sel \in Rocs \cup {NoRoc} /\ a.flag \in BOOLEAN /\ a.failed \in BOOLEAN
         /\ a.dirty \subseteq Registers /\ a.local \subseteq Registers /\ a.moved \subseteq Registers
         /\ a.stale \subseteq Rocs /\ a.armed \subseteq Rocs \X Parts /\ a.running \subseteq Channels
  BY DEF Case

\* Wherever the command is, or could end.
LEMMA OrderFacts ==
  ASSUME NEW c \in Commands, NEW k \in Nat, k >= 1, NEW a \in Before(c, k)
  PROVE  /\ <<a.roclist, a.sel>> \in Settled /\ a.stale \subseteq a.roclist
         /\ k > Len(Code[c]) =>
              \/ a.failed
              \/ /\ \A x \in a.dirty : x[2] \in Leaves[c]
                 /\ \A x \in a.moved : x[2] \in Purpose[c] \cup Leaves[c]
                 /\ a.stale = {} \/ Trims \in Leaves[c]
                 /\ (a.armed = {} /\ a.running = {}) \/ Pixels \in Leaves[c]
  <1>1. Code[c] \in Seq(Step)
    BY CodeAssumption
  <1>2. Exit(c) \in Nat /\ Exit(c) >= 1 /\ Len(Code[c]) \in Nat /\ Exit(c) = Len(Code[c]) + 1
    BY <1>1 DEF Exit
  <1>3. PICK j \in 1 .. Exit(c) : /\ j = IF k > Exit(c) THEN Exit(c) ELSE k
                                  /\ Before(c, k) = Before(c, j)
    BY <1>2 DEF Before
  <1>4. <<a.roclist, a.sel>> \in Settled /\ a.stale \subseteq a.roclist
    BY <1>3, OutlineAssumption DEF Orderly
  <1>5. j = Exit(c) =>
          \/ a.failed
          \/ /\ \A x \in a.dirty : x[2] \in Leaves[c]
             /\ \A x \in a.moved : x[2] \in Purpose[c] \cup Leaves[c]
             /\ a.stale = {} \/ Trims \in Leaves[c]
             /\ (a.armed = {} /\ a.running = {}) \/ Pixels \in Leaves[c]
    BY <1>3, OutlineAssumption DEF Tidy
  <1>6. k > Len(Code[c]) => j = Exit(c)
    BY <1>2, <1>3
  <1> QED BY <1>4, <1>5, <1>6

\* Where a value of a ROC is written or noted.
LEMMA OwnFacts ==
  ASSUME NEW c \in Commands, NEW k \in Nat, k >= 1, k <= Len(Code[c]), NEW a \in Before(c, k),
         NEW op \in {"back", "note", "revert"}, Code[c][k].op = op
  PROVE  a.sel = Code[c][k].roc \/ Code[c][k].arg \in Leaves[c]
  <1>1. Code[c] \in Seq(Step)
    BY CodeAssumption
  <1>2. k \in 1 .. Exit(c) /\ k < Exit(c) /\ ~(k > Exit(c))
    BY <1>1 DEF Exit
  <1>3. Orderly(c)
    BY OutlineAssumption
  <1> QED BY <1>2, <1>3 DEF Orderly

\* The state after a step is in a case of the next step.
LEMMA Arrive ==
  ASSUME NEW c \in Commands, NEW t, NEW b, Covered(c, t, b), Holds(b)'
  PROVE  t >= 1 /\ \E d \in Before(c, t) : Holds(d)'
  <1>1. PICK d \in Before(c, t) : Implies(b, d)
    BY DEF Covered
  <1>2. Where(d)' /\ Loaded(d)'
    BY <1>1 DEF Implies, Holds, Where, Loaded
  <1>3. ~d.failed => Chips(d)' /\ Moves(d)' /\ On(d)'
    BY <1>1 DEF Implies, Holds, Chips, Moves, On
  <1>4. Holds(d)'
    BY <1>2, <1>3 DEF Holds
  <1> QED BY <1>4 DEF Covered

\* Where a step leads.
LEMMA StepFacts ==
  ASSUME NEW op, At(op), NEW a \in Before(cmd, pc), NEW b \in After(Now, a)
  PROVE  /\ \A t \in Targets(Now, pc, a) : Covered(cmd, t, b)
         /\ op \in Readings => Covered(cmd, pc + 1 + Now.n, [b EXCEPT !.failed = TRUE])
         /\ cmd \in Commands
  <1>1. cmd \in Commands /\ pc \in 1 .. Len(Code[cmd]) /\ Now = Code[cmd][pc] /\ Now.op = op
    BY DEF At, Running, Now
  <1>2. Inductive(cmd)
    BY <1>1, OutlineAssumption
  <1> QED BY <1>1, <1>2 DEF Inductive

-----------------------------------------------------------------------------
(* A case after each step *)

LEMMA WriteFacts ==
  ASSUME NEW a \in Case, NEW X, NEW value, NEW b, b = Write(a, X, value)
  PROVE  /\ value = "kept" => b.dirty = a.dirty \ X
         /\ value # "kept" => b.dirty = a.dirty \cup X
         /\ value = "local" => b.local = a.local \cup X
         /\ value # "local" => b.local = a.local \ X
         /\ b.roclist = a.roclist /\ b.sel = a.sel /\ b.flag = a.flag /\ b.failed = a.failed
         /\ b.moved = a.moved /\ b.stale = a.stale /\ b.armed = a.armed /\ b.running = a.running
  BY DEF Write, Case

\* A register, or none, gets a value.
LEMMA SetDACHolds ==
  ASSUME TypeOK, NEW a \in Case, Where(a), Chips(a), NEW d \in Dacs, NEW value, SetDAC(d, value),
         value \in {"kept", "local", "other"}
  PROVE  Chips(Write(a, Written(a, d), value))'
  <1>0. PICK X : X = Written(a, d)
    OBVIOUS
  <1>1. PICK b : b = Write(a, X, value)
    OBVIOUS
  <1>2. /\ value = "kept" => b.dirty = a.dirty \ X
        /\ value # "kept" => b.dirty = a.dirty \cup X
        /\ value = "local" => b.local = a.local \cup X
        /\ value # "local" => b.local = a.local \ X
    BY <1>1, WriteFacts
  <1>3. a.local \subseteq Registers /\ chip \in [Registers -> {"kept", "local", "other"}] /\ touched \subseteq Registers
    BY FieldFacts DEF TypeOK
  <1>4. CASE sel \in Rocs
    <2>1. PICK x : x = <<sel, d>>
      OBVIOUS
    <2>2. X = {x} /\ x \in Registers
      BY <1>0, <1>4, <2>1 DEF Where, Written, Registers
    <2>3. chip' = [chip EXCEPT ![x] = value] /\ touched' = touched \cup {x}
      BY <1>4, <2>1 DEF SetDAC
    <2>4. \A y \in touched' : chip'[y] = "kept" \/ y \in b.dirty
      BY <1>2, <1>3, <2>2, <2>3 DEF Chips
    <2>5. \A y \in b.local : chip'[y] = "local"
      BY <1>2, <1>3, <2>2, <2>3 DEF Chips
    <2>6. Chips(b)'
      BY <2>4, <2>5 DEF Chips
    <2> QED BY <1>0, <1>1, <2>6
  <1>5. CASE sel \notin Rocs
    <2>1. X = {} /\ UNCHANGED <<chip, touched>>
      BY <1>0, <1>5 DEF Where, Written, SetDAC
    <2>2. b.dirty = a.dirty /\ b.local = a.local
      BY <1>2, <2>1
    <2>3. Chips(b)'
      BY <2>1, <2>2 DEF Chips
    <2> QED BY <1>0, <1>1, <2>3
  <1> QED BY <1>4, <1>5

\* A scan.
LEMMA DisturbHolds ==
  ASSUME TypeOK, NEW a \in Case, Chips(a), NEW S \in SUBSET Rocs, Disturb(S),
         NEW X, X = Scans(Now, S)
  PROVE  Chips(Write(a, X, "other"))'
  <1>1. PICK b : b = Write(a, X, "other")
    OBVIOUS
  <1>2. X = Scanned(S)
    BY DEF Scans, Scanned
  <1>3. /\ b.dirty = a.dirty \cup X /\ b.local = a.local \ X
    <2>1. "other" # "kept" /\ "other" # "local"
      OBVIOUS
    <2> QED BY <1>1, <2>1, WriteFacts
  <1>4. /\ a.local \subseteq Registers /\ touched \subseteq Registers
        /\ chip' = [x \in Registers |-> IF x \in X THEN "other" ELSE chip[x]]
        /\ touched' = touched \cup X
    BY <1>2, FieldFacts DEF TypeOK, Disturb
  <1>5. \A y \in touched' : chip'[y] = "kept" \/ y \in b.dirty
    BY <1>3, <1>4 DEF Chips
  <1>6. \A y \in b.local : chip'[y] = "local"
    BY <1>3, <1>4 DEF Chips
  <1>7. Chips(b)'
    BY <1>5, <1>6 DEF Chips
  <1> QED BY <1>1, <1>7

\* The cases after a step, by the sort of the step.
LEMMA AfterFacts ==
  ASSUME NEW s, NEW a
  PROVE  /\ s.op \in Writes => After(s, a) = WriteCases(s, a)
         /\ s.op \in TrimOps => After(s, a) = TrimCases(s, a)
         /\ s.op \in Switchings => After(s, a) = SwitchCases(s, a)
         /\ s.op \in Loops => After(s, a) = LoopCases(s, a)
         /\ s.op \in Selects => After(s, a) = SelectCases(s, a)
         /\ s.op = "lower" => After(s, a) = {[a EXCEPT !.flag = FALSE]}
         /\ s.op \in Branches \cup {"read", "use"} => After(s, a) = {a}
  <1> USE DEF After, Writes, TrimOps, Switchings, Loops, Selects, Branches
  <1>1. s.op \in Writes => After(s, a) = WriteCases(s, a)
    OBVIOUS
  <1>2. s.op \in TrimOps => After(s, a) = TrimCases(s, a)
    OBVIOUS
  <1>3. s.op \in Switchings => After(s, a) = SwitchCases(s, a)
    OBVIOUS
  <1>4. s.op \in Loops => After(s, a) = LoopCases(s, a)
    OBVIOUS
  <1>5. s.op \in Selects => After(s, a) = SelectCases(s, a)
    OBVIOUS
  <1>6. s.op = "lower" => After(s, a) = {[a EXCEPT !.flag = FALSE]}
    OBVIOUS
  <1>7. s.op \in Branches \cup {"read", "use"} => After(s, a) = {a}
    OBVIOUS
  <1> QED BY <1>1, <1>2, <1>3, <1>4, <1>5, <1>6, <1>7

\* What a step that writes registers leaves alone.
LEMMA WriteRest ==
  ASSUME NEW a \in Case, Holds(a), NEW X, NEW value, NEW b, b = Write(a, X, value),
         UNCHANGED <<roclist, flag, failed, fpga, modtrm, blamed, left, errors, armed, daq>>
  PROVE  /\ sel' = sel => Where(b)'
         /\ Loaded(b)' /\ b.failed = a.failed /\ b.moved = a.moved
         /\ ~b.failed => On(b)'
  <1>1. /\ b.roclist = a.roclist /\ b.sel = a.sel /\ b.flag = a.flag /\ b.failed = a.failed
        /\ b.moved = a.moved /\ b.stale = a.stale /\ b.armed = a.armed /\ b.running = a.running
    BY WriteFacts
  <1>2. sel' = sel => Where(b)'
    BY <1>1 DEF Holds, Where
  <1>3. Loaded(b)'
    BY <1>1 DEF Holds, Loaded
  <1>4. ~b.failed => On(b)'
    BY <1>1 DEF Holds, On
  <1> QED BY <1>1, <1>2, <1>3, <1>4

LEMMA WriteStep ==
  ASSUME TypeOK, Preset \subseteq kept, NEW a \in Case, Holds(a), NEW s, s = Now,
         Put \/ Set \/ Note \/ Back \/ Revert
  PROVE  \E b \in After(s, a) : Holds(b)'
  <1>1. CASE Put
    <2>1. s.op = "put" /\ s.arg \in Dacs
      BY <1>1, NowFacts, RocFacts DEF Put
    <2>2. PICK b : b = Write(a, Written(a, s.arg), "other")
      OBVIOUS
    <2>3. After(s, a) = {b}
      BY <2>1, <2>2, AfterFacts DEF Writes, WriteCases
    <2>4. /\ UNCHANGED <<roclist, sel, flag, failed, fpga, modtrm, blamed, left, errors, armed, daq, moved>>
          /\ SetDAC(s.arg, "other")
      BY <1>1 DEF Put, Goto, history
    <2>5. Where(b)' /\ Loaded(b)' /\ b.failed = a.failed /\ b.moved = a.moved /\ (~b.failed => On(b)')
      BY <2>2, <2>4, WriteRest
    <2>6. ~a.failed => Chips(b)'
      BY <2>1, <2>2, <2>4, SetDACHolds DEF Holds
    <2>7. ~a.failed => Moves(b)'
      BY <2>4, <2>5 DEF Holds, Moves
    <2>8. Holds(b)'
      BY <2>5, <2>6, <2>7 DEF Holds
    <2> QED BY <2>3, <2>8
  <1>2. CASE Set
    <2>1. s.op = "set" /\ s.arg \in Dacs
      BY <1>2, NowFacts, RocFacts DEF Set
    <2>2. PICK b : b = Write(a, Written(a, s.arg), "local")
      OBVIOUS
    <2>3. After(s, a) = {b}
      BY <2>1, <2>2, AfterFacts DEF Writes, WriteCases
    <2>4. /\ UNCHANGED <<roclist, sel, flag, failed, fpga, modtrm, blamed, left, errors, armed, daq, moved>>
          /\ SetDAC(s.arg, "local")
      BY <1>2 DEF Set, Goto, history
    <2>5. Where(b)' /\ Loaded(b)' /\ b.failed = a.failed /\ b.moved = a.moved /\ (~b.failed => On(b)')
      BY <2>2, <2>4, WriteRest
    <2>6. ~a.failed => Chips(b)'
      BY <2>1, <2>2, <2>4, SetDACHolds DEF Holds
    <2>7. ~a.failed => Moves(b)'
      BY <2>4, <2>5 DEF Holds, Moves
    <2>8. Holds(b)'
      BY <2>5, <2>6, <2>7 DEF Holds
    <2> QED BY <2>3, <2>8
  <1>3. CASE Note
    <2>1. s.op = "note" /\ s.arg \in Dacs /\ s.roc \in Rocs
      BY <1>3, NowFacts, RocFacts DEF Note
    <2>2. PICK x : x = <<s.roc, s.arg>>
      OBVIOUS
    <2>3. x \in Registers
      BY <2>1, <2>2 DEF Registers
    <2>4. PICK v \in {"kept", "other"} : v = IF x \in a.local THEN "kept" ELSE "other"
      OBVIOUS
    <2>5. PICK w : w = Write(a, {x}, v)
      OBVIOUS
    <2>6. PICK b : b = [w EXCEPT !.moved = @ \cup {x}]
      OBVIOUS
    <2>7. After(s, a) = {b}
      <3>1. After(s, a) = WriteCases(s, a)
        BY <2>1, AfterFacts DEF Writes
      <3>2. w = Write(a, {<<s.roc, s.arg>>}, IF <<s.roc, s.arg>> \in a.local THEN "kept" ELSE "other")
        BY <2>2, <2>4, <2>5
      <3>3. b = [w EXCEPT !.moved = @ \cup {<<s.roc, s.arg>>}]
        BY <2>2, <2>6
      <3> QED BY <2>1, <3>1, <3>2, <3>3 DEF WriteCases
    <2>8. /\ UNCHANGED <<roclist, sel, flag, failed, fpga, modtrm, blamed, left, errors, armed, daq>>
          /\ chip' = [chip EXCEPT ![x] = IF chip[x] = "local" THEN "kept" ELSE "other"]
          /\ moved' = moved \cup {x} /\ touched' = touched \cup {x}
      BY <1>3, <2>2 DEF Note, Goto, history
    <2>9. w.moved = a.moved /\ w.failed = a.failed /\ Where(w)' /\ Loaded(w)' /\ (~w.failed => On(w)')
      BY <2>5, <2>8, WriteRest
    <2>10. /\ w \in Case
      <3>1. {x} \subseteq Registers
        BY <2>3
      <3> QED BY <2>5, <3>1 DEF Write, Case
    <2>11. /\ b.roclist = w.roclist /\ b.sel = w.sel /\ b.flag = w.flag /\ b.failed = w.failed
           /\ b.dirty = w.dirty /\ b.local = w.local /\ b.moved = w.moved \cup {x}
           /\ b.stale = w.stale /\ b.armed = w.armed /\ b.running = w.running
      BY <2>6, <2>10 DEF Case
    <2>12. Where(b)' /\ Loaded(b)' /\ (~b.failed => On(b)')
      BY <2>9, <2>11 DEF Where, Loaded, On
    <2>13. ASSUME ~a.failed
           PROVE  Chips(b)'
      <3>1. /\ v = "kept" => w.dirty = a.dirty \ {x}
            /\ v # "kept" => w.dirty = a.dirty \cup {x}
            /\ w.local = a.local \ {x}
        BY <2>4, <2>5, WriteFacts
      <3>2. Chips(a) /\ chip \in [Registers -> {"kept", "local", "other"}]
        BY <2>13 DEF Holds, TypeOK
      <3>3. v = "kept" => chip'[x] = "kept"
        BY <2>3, <2>4, <2>8, <3>2 DEF Chips
      <3>4. \A y \in touched' : chip'[y] = "kept" \/ y \in b.dirty
        <4> SUFFICES ASSUME NEW y \in touched' PROVE chip'[y] = "kept" \/ y \in b.dirty
          OBVIOUS
        <4>1. CASE y = x
          BY <2>4, <2>11, <3>1, <3>3, <4>1
        <4>2. CASE y # x
          <5>1. y \in touched /\ chip'[y] = chip[y]
            BY <2>8, <3>2, <4>2 DEF TypeOK
          <5> QED BY <2>4, <2>11, <3>1, <3>2, <4>2, <5>1 DEF Chips
        <4> QED BY <4>1, <4>2
      <3>5. \A y \in b.local : chip'[y] = "local"
        BY <2>8, <2>11, <3>1, <3>2, FieldFacts DEF Chips
      <3> QED BY <3>4, <3>5 DEF Chips
    <2>14. ~a.failed => Moves(b)'
      BY <2>8, <2>9, <2>11 DEF Holds, Moves
    <2>15. Holds(b)'
      BY <2>9, <2>11, <2>12, <2>13, <2>14 DEF Holds
    <2> QED BY <2>7, <2>15
  <1>4. CASE Back
    <2>1. s.op = "back" /\ s.arg \in Dacs
      BY <1>4, NowFacts, RocFacts DEF Back
    <2>2. PICK v \in {"kept", "other"} : v = IF a.sel = s.roc /\ <<s.roc, s.arg>> \in Preset THEN "kept" ELSE "other"
      OBVIOUS
    <2>3. PICK u \in {"kept", "other"} : u = IF sel = Now.roc /\ <<sel, Now.arg>> \in kept THEN "kept" ELSE "other"
      OBVIOUS
    <2>4. PICK b : b = Write(a, Written(a, s.arg), v)
      OBVIOUS
    <2>5. After(s, a) = {b}
      <3>1. After(s, a) = WriteCases(s, a)
        BY <2>1, AfterFacts DEF Writes
      <3>2. b = Write(a, Written(a, s.arg),
                      IF a.sel = s.roc /\ <<s.roc, s.arg>> \in Preset THEN "kept" ELSE "other")
        BY <2>2, <2>4
      <3> QED BY <2>1, <3>1, <3>2 DEF WriteCases
    <2>6. /\ UNCHANGED <<roclist, sel, flag, failed, fpga, modtrm, blamed, left, errors, armed, daq, moved>>
          /\ SetDAC(s.arg, u)
      BY <1>4, <2>3 DEF Back, Goto, history
    <2>7. Where(b)' /\ Loaded(b)' /\ b.failed = a.failed /\ b.moved = a.moved /\ (~b.failed => On(b)')
      BY <2>4, <2>6, WriteRest
    <2>8. ASSUME ~a.failed PROVE Chips(b)'
      <3>1. PICK w : w = Write(a, Written(a, s.arg), u)
        OBVIOUS
      <3>2. Chips(w)'
        BY <2>1, <2>6, <2>8, <3>1, SetDACHolds DEF Holds
      <3>3. v = "kept" => u = "kept"
        BY <2>2, <2>3 DEF Holds, Where
      <3>4. w.dirty \subseteq b.dirty /\ b.local = w.local
        <4>1. /\ v = "kept" => b.dirty = a.dirty \ Written(a, s.arg)
              /\ v # "kept" => b.dirty = a.dirty \cup Written(a, s.arg)
              /\ b.local = a.local \ Written(a, s.arg)
          BY <2>2, <2>4, WriteFacts
        <4>2. /\ u = "kept" => w.dirty = a.dirty \ Written(a, s.arg)
              /\ u # "kept" => w.dirty = a.dirty \cup Written(a, s.arg)
              /\ w.local = a.local \ Written(a, s.arg)
          BY <2>3, <3>1, WriteFacts
        <4> QED BY <2>2, <2>3, <3>3, <4>1, <4>2
      <3> QED BY <3>2, <3>4 DEF Chips
    <2>9. ~a.failed => Moves(b)'
      BY <2>6, <2>7 DEF Holds, Moves
    <2>10. Holds(b)'
      BY <2>7, <2>8, <2>9 DEF Holds
    <2> QED BY <2>5, <2>10
  <1>5. CASE Revert
    <2>1. s.op = "revert" /\ s.arg \in Dacs
      BY <1>5, NowFacts, RocFacts DEF Revert
    <2>2. PICK v \in {"kept", "other"} : v = IF a.sel = s.roc THEN "kept" ELSE "other"
      OBVIOUS
    <2>3. PICK x : x = <<s.roc, s.arg>>
      OBVIOUS
    <2>4. PICK w : w = Write(a, Written(a, s.arg), v)
      OBVIOUS
    <2>5. PICK b : b = [w EXCEPT !.moved = @ \ {x}]
      OBVIOUS
    <2>6. After(s, a) = {b}
      <3>1. After(s, a) = WriteCases(s, a)
        BY <2>1, AfterFacts DEF Writes
      <3>2. w = Write(a, Written(a, s.arg), IF a.sel = s.roc THEN "kept" ELSE "other")
        BY <2>2, <2>4
      <3>3. b = [w EXCEPT !.moved = @ \ {<<s.roc, s.arg>>}]
        BY <2>3, <2>5
      <3> QED BY <2>1, <3>1, <3>2, <3>3 DEF WriteCases
    <2>7. /\ UNCHANGED <<roclist, sel, flag, failed, fpga, modtrm, blamed, left, errors, armed, daq>>
          /\ moved' = moved \ {x}
      BY <1>5, <2>3 DEF Revert, Goto, history
    <2>8. SetDAC(s.arg, v)
      BY <1>5, <2>2 DEF Revert, Holds, Where
    <2>9. w.moved = a.moved /\ w.failed = a.failed /\ Where(w)' /\ Loaded(w)' /\ (~w.failed => On(w)')
      BY <2>4, <2>7, WriteRest
    <2>10. w \in Case
      <3>1. Written(a, s.arg) \subseteq Registers
        BY <2>1 DEF Written, Registers
      <3> QED BY <2>4, <3>1 DEF Write, Case
    <2>11. /\ b.roclist = w.roclist /\ b.sel = w.sel /\ b.flag = w.flag /\ b.failed = w.failed
           /\ b.dirty = w.dirty /\ b.local = w.local /\ b.moved = w.moved \ {x}
           /\ b.stale = w.stale /\ b.armed = w.armed /\ b.running = w.running
      BY <2>5, <2>10 DEF Case
    <2>12. Where(b)' /\ Loaded(b)' /\ (~b.failed => On(b)')
      BY <2>9, <2>11 DEF Where, Loaded, On
    <2>13. ~a.failed => Chips(b)'
      <3>1. ~a.failed => Chips(w)'
        BY <2>1, <2>2, <2>4, <2>8, SetDACHolds DEF Holds
      <3> QED BY <2>11, <3>1 DEF Chips
    <2>14. ~a.failed => Moves(b)'
      BY <2>7, <2>9, <2>11 DEF Holds, Moves
    <2>15. Holds(b)'
      BY <2>9, <2>11, <2>12, <2>13, <2>14 DEF Holds
    <2> QED BY <2>6, <2>15
  <1> QED BY <1>1, <1>2, <1>3, <1>4, <1>5

\* The trim values of one ROC, in modtrm or in the FPGA.
LEMMA TrimStep ==
  ASSUME TypeOK, NEW a \in Case, Holds(a), NEW s, s = Now,
         Edit \/ Clear \/ Load \/ Off \/ Foreign \/ Last
  PROVE  \E b \in After(s, a) : Holds(b)'
  <1>1. s.op \in TrimOps
    BY NowFacts DEF TrimOps, Edit, Clear, Load, Off, Foreign, Last
  <1>2. After(s, a) = TrimCases(s, a)
    BY <1>1, AfterFacts
  <1>3. UNCHANGED <<roclist, sel, flag, failed, chip, touched, moved, blamed, left, errors, armed, daq>>
    BY DEF Edit, Clear, Load, Off, Foreign, Last, Goto, history
  <1>4. \A r \in Rocs : r # s.roc => fpga'[r] = fpga[r] /\ modtrm'[r] = modtrm[r]
    BY DEF Edit, Clear, Load, Off, Foreign, Last, TypeOK
  <1>5. CASE s.op = "load" \/ (s.op = "last" /\ a.roclist # {} /\ s.roc = Greatest(a.roclist))
    <2>1. PICK b : b = [a EXCEPT !.stale = @ \ {s.roc}]
      OBVIOUS
    <2>2. After(s, a) = {b}
      BY <1>2, <1>5, <2>1 DEF TrimCases
    <2>3. s.roc \in Rocs => fpga'[s.roc] = modtrm'[s.roc]
      <3>1. CASE s.op = "load"
        <4>1. Load
          BY <3>1, NowFacts DEF Edit, Clear, Off, Foreign, Last
        <4> QED BY <4>1 DEF Load, TypeOK
      <3>2. CASE s.op = "last" /\ a.roclist # {} /\ s.roc = Greatest(a.roclist)
        <4>1. Last
          BY <3>2, NowFacts DEF Edit, Clear, Off, Foreign, Load
        <4>2. s.roc = Greatest(roclist)
          BY <3>2 DEF Holds, Where
        <4>3. fpga' = [fpga EXCEPT ![s.roc] = modtrm[s.roc]] /\ modtrm' = modtrm
          BY <4>1, <4>2 DEF Last
        <4> QED BY <4>3 DEF TypeOK
      <3> QED BY <1>5, <3>1, <3>2
    <2>4. /\ b.roclist = a.roclist /\ b.sel = a.sel /\ b.flag = a.flag /\ b.failed = a.failed
          /\ b.dirty = a.dirty /\ b.local = a.local /\ b.moved = a.moved
          /\ b.stale = a.stale \ {s.roc} /\ b.armed = a.armed /\ b.running = a.running
      BY <2>1 DEF Case
    <2>5. Loaded(b)'
      BY <1>3, <1>4, <2>3, <2>4 DEF Holds, Loaded
    <2>6. Where(b)' /\ (~b.failed => Chips(b)' /\ Moves(b)' /\ On(b)')
      BY <1>3, <2>4 DEF Holds, Where, Chips, Moves, On
    <2> QED BY <2>2, <2>5, <2>6 DEF Holds
  <1>6. CASE ~(s.op = "load" \/ (s.op = "last" /\ a.roclist # {} /\ s.roc = Greatest(a.roclist)))
    <2>1. PICK b : b = [a EXCEPT !.stale = @ \cup ({s.roc} \cap Rocs)]
      OBVIOUS
    <2>2. After(s, a) = {b}
      BY <1>2, <1>6, <2>1 DEF TrimCases
    <2>3. /\ b.roclist = a.roclist /\ b.sel = a.sel /\ b.flag = a.flag /\ b.failed = a.failed
          /\ b.dirty = a.dirty /\ b.local = a.local /\ b.moved = a.moved
          /\ b.stale = a.stale \cup ({s.roc} \cap Rocs) /\ b.armed = a.armed /\ b.running = a.running
      BY <2>1 DEF Case
    <2>4. Loaded(b)'
      BY <1>3, <1>4, <2>3 DEF Holds, Loaded
    <2>5. Where(b)' /\ (~b.failed => Chips(b)' /\ Moves(b)' /\ On(b)')
      BY <1>3, <2>3 DEF Holds, Where, Chips, Moves, On
    <2> QED BY <2>2, <2>4, <2>5 DEF Holds
  <1> QED BY <1>5, <1>6

\* What is enabled, and the channels.
LEMMA SwitchStep ==
  ASSUME TypeOK, NEW a \in Case, Holds(a), NEW s, s = Now, Arm \/ Disarm \/ Start \/ Stop
  PROVE  \E b \in After(s, a) : Holds(b)'
  <1>1. s.op \in Switchings
    BY NowFacts DEF Switchings, Arm, Disarm, Start, Stop
  <1>2. After(s, a) = SwitchCases(s, a)
    BY <1>1, AfterFacts
  <1>3. UNCHANGED <<roclist, sel, flag, failed, chip, touched, moved, fpga, modtrm, blamed, errors>>
    BY GotoOffFacts DEF Arm, Disarm, Start, Stop, Goto, history
  <1>4. ASSUME NEW b, b.roclist = a.roclist, b.sel = a.sel, b.flag = a.flag, b.failed = a.failed,
               b.dirty = a.dirty, b.local = a.local, b.moved = a.moved, b.stale = a.stale,
               On(a) => On(b)'
        PROVE  Holds(b)'
    <2>1. Where(b)' /\ Loaded(b)'
      BY <1>3, <1>4 DEF Holds, Where, Loaded
    <2>2. ~b.failed => Chips(b)' /\ Moves(b)' /\ On(b)'
      BY <1>3, <1>4 DEF Holds, Chips, Moves
    <2> QED BY <2>1, <2>2 DEF Holds
  <1>5. sel = a.sel
    BY DEF Holds, Where
  <1>6. CASE Arm
    <2>1. s.op = "arm"
      BY <1>6, NowFacts DEF Arm
    <2>2. PICK A : A = IF a.sel \in Rocs THEN a.armed \cup Switches(s, a) ELSE a.armed
      OBVIOUS
    <2>3. PICK b : b = [a EXCEPT !.armed = A]
      OBVIOUS
    <2>4. After(s, a) = {b}
      BY <1>2, <2>1, <2>2, <2>3 DEF SwitchCases
    <2>5. /\ b.roclist = a.roclist /\ b.sel = a.sel /\ b.flag = a.flag /\ b.failed = a.failed
          /\ b.dirty = a.dirty /\ b.local = a.local /\ b.moved = a.moved /\ b.stale = a.stale
          /\ b.armed = A /\ b.running = a.running
      BY <2>3 DEF Case
    <2>6. Switched = Switches(s, a)
      BY <1>5 DEF Switched, Switches
    <2>7. On(a) => On(b)'
      BY <1>3, <1>5, <1>6, <2>2, <2>5, <2>6 DEF Arm, On, Goto, history
    <2>8. Holds(b)'
      BY <1>4, <2>5, <2>7
    <2> QED BY <2>4, <2>8
  <1>7. CASE Disarm
    <2>1. s.op = "disarm"
      BY <1>7, NowFacts DEF Disarm
    <2>2. PICK b : b = [a EXCEPT !.armed = @ \ Switches(s, a)]
      OBVIOUS
    <2>3. After(s, a) = {b}
      BY <1>2, <2>1, <2>2 DEF SwitchCases
    <2>4. /\ b.roclist = a.roclist /\ b.sel = a.sel /\ b.flag = a.flag /\ b.failed = a.failed
          /\ b.dirty = a.dirty /\ b.local = a.local /\ b.moved = a.moved /\ b.stale = a.stale
          /\ b.armed = a.armed \ Switches(s, a) /\ b.running = a.running
      BY <2>2 DEF Case
    <2>5. Switched = Switches(s, a)
      BY <1>5 DEF Switched, Switches
    <2>6. On(a) => On(b)'
      BY <1>3, <1>7, <2>4, <2>5, GotoOffFacts DEF Disarm, On
    <2>7. Holds(b)'
      BY <1>4, <2>4, <2>6
    <2> QED BY <2>3, <2>7
  <1>8. CASE Start
    <2>1. s.op = "start"
      BY <1>8, NowFacts DEF Start
    <2>2. PICK b : b = [a EXCEPT !.running = @ \cup {s.arg}]
      OBVIOUS
    <2>3. After(s, a) = {b}
      BY <1>2, <2>1, <2>2 DEF SwitchCases
    <2>4. /\ b.roclist = a.roclist /\ b.sel = a.sel /\ b.flag = a.flag /\ b.failed = a.failed
          /\ b.dirty = a.dirty /\ b.local = a.local /\ b.moved = a.moved /\ b.stale = a.stale
          /\ b.armed = a.armed /\ b.running = a.running \cup {s.arg}
      BY <2>2 DEF Case
    <2>5. On(a) => On(b)'
      BY <1>3, <1>8, <2>4 DEF Start, On, Goto, history
    <2>6. Holds(b)'
      BY <1>4, <2>4, <2>5
    <2> QED BY <2>3, <2>6
  <1>9. CASE Stop
    <2>1. s.op = "stop"
      BY <1>9, NowFacts DEF Stop
    <2>2. PICK b : b = [a EXCEPT !.running = @ \ {s.arg}]
      OBVIOUS
    <2>3. After(s, a) = {b}
      BY <1>2, <2>1, <2>2 DEF SwitchCases
    <2>4. /\ b.roclist = a.roclist /\ b.sel = a.sel /\ b.flag = a.flag /\ b.failed = a.failed
          /\ b.dirty = a.dirty /\ b.local = a.local /\ b.moved = a.moved /\ b.stale = a.stale
          /\ b.armed = a.armed /\ b.running = a.running \ {s.arg}
      BY <2>2 DEF Case
    <2>5. On(a) => On(b)'
      BY <1>3, <1>9, <2>4, GotoOffFacts DEF Stop, On
    <2>6. Holds(b)'
      BY <1>4, <2>4, <2>5
    <2> QED BY <2>3, <2>6
  <1> QED BY <1>6, <1>7, <1>8, <1>9

\* Registers may get other values, and another ROC may be addressed.
LEMMA ScanHolds ==
  ASSUME NEW a \in Case, Holds(a), NEW X \in SUBSET Registers,
         ~a.failed => Chips(Write(a, X, "other"))',
         NEW r \in Rocs \cup {NoRoc}, sel' = r, NEW b, b = [Write(a, X, "other") EXCEPT !.sel = r],
         UNCHANGED <<roclist, moved, fpga, modtrm, armed, daq, flag, blamed, left>>
  PROVE  /\ UNCHANGED <<failed, errors>> => Holds(b)'
         /\ failed' = TRUE => Holds([b EXCEPT !.failed = TRUE])'
  <1>1. PICK w : w = Write(a, X, "other")
    OBVIOUS
  <1>2. w \in Case
    BY <1>1 DEF Write, Case
  <1>3. /\ w.roclist = a.roclist /\ w.flag = a.flag /\ w.failed = a.failed
        /\ w.moved = a.moved /\ w.stale = a.stale /\ w.armed = a.armed /\ w.running = a.running
    BY <1>1, WriteFacts
  <1>4. /\ b.roclist = w.roclist /\ b.sel = r /\ b.flag = w.flag /\ b.failed = w.failed
        /\ b.dirty = w.dirty /\ b.local = w.local /\ b.moved = w.moved
        /\ b.stale = w.stale /\ b.armed = w.armed /\ b.running = w.running /\ b \in Case
    BY <1>1, <1>2 DEF Case
  <1>5. Loaded(b)'
    BY <1>3, <1>4 DEF Holds, Loaded
  <1>6. ASSUME UNCHANGED <<failed, errors>>
        PROVE  Holds(b)'
    <2>1. Where(b)'
      BY <1>3, <1>4, <1>6 DEF Holds, Where
    <2>2. ~b.failed => Chips(b)'
      BY <1>1, <1>3, <1>4 DEF Chips
    <2>3. ~b.failed => Moves(b)' /\ On(b)'
      BY <1>3, <1>4, <1>6 DEF Holds, Moves, On
    <2> QED BY <1>5, <2>1, <2>2, <2>3 DEF Holds
  <1>7. ASSUME failed' = TRUE
        PROVE  Holds([b EXCEPT !.failed = TRUE])'
    <2>1. PICK d : d = [b EXCEPT !.failed = TRUE]
      OBVIOUS
    <2>2. /\ d.roclist = b.roclist /\ d.sel = b.sel /\ d.flag = b.flag /\ d.failed = TRUE
          /\ d.stale = b.stale
      BY <1>4, <2>1 DEF Case
    <2>3. Where(d)' /\ Loaded(d)'
      BY <1>3, <1>4, <1>5, <1>7, <2>2 DEF Holds, Where, Loaded
    <2>4. Holds(d)'
      BY <2>2, <2>3 DEF Holds
    <2> QED BY <2>1, <2>4
  <1> QED BY <1>6, <1>7

\* The registers a scan writes.
LEMMA ScansType ==
  ASSUME NEW S \in SUBSET Rocs, At("scan") \/ At("scanall")
  PROVE  Scans(Now, S) \subseteq Registers
  <1>1. Now.arg \in Dacs \cup {None}
    <2>1. WellFormed(Now) /\ Now.op \in {"scan", "scanall"}
      BY NowFacts
    <2> QED BY <2>1 DEF WellFormed
  <1> QED BY <1>1 DEF Scans, Registers

LEMMA LoopStep ==
  ASSUME TypeOK, NEW a \in Case, Holds(a), NEW s, s = Now, Loop \/ Scan \/ ScanAll
  PROVE  \E b \in After(s, a) : Holds(b)'
  <1>1. s.op \in Loops
    BY NowFacts DEF Loops, Loop, Scan, ScanAll
  <1>2. After(s, a) = LoopCases(s, a)
    BY <1>1, AfterFacts
  <1>3. UNCHANGED <<roclist, flag, failed, moved, fpga, modtrm, blamed, left, errors, armed, daq>>
    BY DEF Loop, Scan, ScanAll, Goto, history
  <1>4. PICK r : r = sel'
    OBVIOUS
  <1>5. roclist = a.roclist /\ sel = a.sel /\ a.roclist \subseteq Rocs /\ a.sel \in Rocs \cup {NoRoc}
    BY FieldFacts DEF Holds, Where
  <1>6. CASE Loop
    <2>1. PICK b : b = [Write(a, {}, "other") EXCEPT !.sel = r]
      OBVIOUS
    <2>2. s.op = "loop" /\ r \in {a.sel, s.roc} /\ r \in Rocs \cup {NoRoc}
      BY <1>4, <1>5, <1>6, NowFacts, RocFacts DEF Loop
    <2>3. b \in After(s, a)
      BY <1>2, <2>1, <2>2 DEF LoopCases
    <2>4. PICK w : w = Write(a, {}, "other")
      OBVIOUS
    <2>5. w.dirty = a.dirty /\ w.local = a.local
      <3>1. PICK X : X = {}
        OBVIOUS
      <3>2. w = Write(a, X, "other")
        BY <2>4, <3>1
      <3>3. w.dirty = a.dirty \cup X /\ w.local = a.local \ X
        BY <3>2, WriteFacts
      <3> QED BY <3>1, <3>3
    <2>6. UNCHANGED <<chip, touched>>
      BY <1>6 DEF Loop
    <2>7. ~a.failed => Chips(w)'
      BY <2>5, <2>6 DEF Holds, Chips
    <2>8. Holds(b)'
      BY <1>3, <1>4, <2>1, <2>2, <2>4, <2>7, ScanHolds
    <2> QED BY <2>3, <2>8
  <1>7. ASSUME NEW S \in SUBSET Rocs, Disturb(S), At("scan") \/ At("scanall"),
               r \in Rocs \cup {NoRoc}, [Write(a, Scans(s, S), "other") EXCEPT !.sel = r] \in After(s, a)
        PROVE  \E b \in After(s, a) : Holds(b)'
    <2>1. PICK X \in SUBSET Registers : X = Scans(Now, S)
      BY <1>7, ScansType
    <2>2. PICK b : b = [Write(a, X, "other") EXCEPT !.sel = r]
      OBVIOUS
    <2>3. ~a.failed => Chips(Write(a, X, "other"))'
      BY <1>7, <2>1, DisturbHolds DEF Holds
    <2>4. Holds(b)'
      BY <1>3, <1>4, <1>7, <2>2, <2>3, ScanHolds
    <2> QED BY <1>7, <2>1, <2>2, <2>4
  <1>8. CASE Scan
    <2>1. s.op = "scan" /\ r \in {a.sel, s.roc} /\ s.roc \in Rocs
      BY <1>4, <1>5, <1>8, NowFacts, RocFacts DEF Scan
    <2>2. [Write(a, Scans(s, {s.roc}), "other") EXCEPT !.sel = r] \in After(s, a)
      BY <1>2, <2>1 DEF LoopCases
    <2>3. Disturb({s.roc}) /\ At("scan")
      BY <1>8 DEF Scan
    <2> QED BY <1>5, <1>7, <2>1, <2>2, <2>3
  <1>9. CASE ScanAll
    <2>1. s.op = "scanall" /\ r \in {a.sel} \cup a.roclist
      BY <1>4, <1>5, <1>9, NowFacts DEF ScanAll
    <2>2. [Write(a, Scans(s, a.roclist), "other") EXCEPT !.sel = r] \in After(s, a)
      BY <1>2, <2>1 DEF LoopCases
    <2>3. Disturb(a.roclist) /\ At("scanall")
      BY <1>5, <1>9 DEF ScanAll
    <2> QED BY <1>5, <1>7, <2>1, <2>2, <2>3
  <1> QED BY <1>6, <1>8, <1>9

\* An error that the function catches.
LEMMA CaughtStep ==
  ASSUME TypeOK, NEW a \in Case, Holds(a), NEW s, s = Now, Caught
  PROVE  /\ s.op \in Readings /\ At(s.op)
         /\ \E b \in After(s, a) : Holds([b EXCEPT !.failed = TRUE])'
  <1>1. /\ failed' = TRUE
        /\ UNCHANGED <<roclist, flag, moved, fpga, modtrm, blamed, left, armed, daq>>
    BY DEF Caught
  <1>2. PICK r : r = sel'
    OBVIOUS
  <1>3. roclist = a.roclist /\ sel = a.sel /\ a.roclist \subseteq Rocs /\ a.sel \in Rocs \cup {NoRoc}
    BY FieldFacts DEF Holds, Where
  <1>4. s.op \in Readings /\ At(s.op)
    <2>1. PICK op \in {"scan", "scanall", "read"} : At(op)
      BY DEF Caught
    <2> QED BY <2>1, NowFacts DEF Readings
  <1>5. CASE At("read") /\ UNCHANGED <<sel, chip, touched>>
    <2>1. After(s, a) = {a}
      BY <1>5, NowFacts, AfterFacts
    <2>2. PICK d : d = [a EXCEPT !.failed = TRUE]
      OBVIOUS
    <2>3. /\ d.roclist = a.roclist /\ d.sel = a.sel /\ d.flag = a.flag /\ d.failed = TRUE
          /\ d.stale = a.stale
      BY <2>2 DEF Case
    <2>4. Holds(d)'
      BY <1>1, <1>5, <2>3 DEF Holds, Where, Loaded
    <2> QED BY <1>4, <2>1, <2>2, <2>4
  <1>6. ASSUME NEW S \in SUBSET Rocs, Disturb(S), At("scan") \/ At("scanall"),
               r \in Rocs \cup {NoRoc}, [Write(a, Scans(s, S), "other") EXCEPT !.sel = r] \in After(s, a)
        PROVE  \E b \in After(s, a) : Holds([b EXCEPT !.failed = TRUE])'
    <2>1. PICK X \in SUBSET Registers : X = Scans(Now, S)
      BY <1>6, ScansType
    <2>2. PICK b : b = [Write(a, X, "other") EXCEPT !.sel = r]
      OBVIOUS
    <2>3. ~a.failed => Chips(Write(a, X, "other"))'
      BY <1>6, <2>1, DisturbHolds DEF Holds
    <2>4. Holds([b EXCEPT !.failed = TRUE])'
      BY <1>1, <1>2, <1>6, <2>2, <2>3, ScanHolds
    <2> QED BY <1>6, <2>1, <2>2, <2>4
  <1>7. CASE At("scan") /\ sel' \in {sel, Now.roc} /\ Disturb({Now.roc})
    <2>1. s.op = "scan" /\ r \in {a.sel, s.roc} /\ s.roc \in Rocs
      BY <1>2, <1>3, <1>7, NowFacts, RocFacts
    <2>2. [Write(a, Scans(s, {s.roc}), "other") EXCEPT !.sel = r] \in After(s, a)
      <3>1. After(s, a) = LoopCases(s, a)
        BY <2>1, AfterFacts DEF Loops
      <3> QED BY <2>1, <3>1 DEF LoopCases
    <2> QED BY <1>3, <1>4, <1>6, <1>7, <2>1, <2>2
  <1>8. CASE At("scanall") /\ sel' \in {sel} \cup roclist /\ Disturb(roclist)
    <2>1. s.op = "scanall" /\ r \in {a.sel} \cup a.roclist
      BY <1>2, <1>3, <1>8, NowFacts
    <2>2. [Write(a, Scans(s, a.roclist), "other") EXCEPT !.sel = r] \in After(s, a)
      <3>1. After(s, a) = LoopCases(s, a)
        BY <2>1, AfterFacts DEF Loops
      <3> QED BY <2>1, <3>1 DEF LoopCases
    <2> QED BY <1>3, <1>4, <1>6, <1>8, <2>1, <2>2
  <1> QED BY <1>4, <1>5, <1>7, <1>8 DEF Caught

\* The ROCs enabled, the ROC addressed, the flag.
LEMMA SelectStep ==
  ASSUME TypeOK, NEW a \in Case, Holds(a), NEW s, s = Now, Select \/ First \/ Address \/ Lower
  PROVE  \E b \in After(s, a) : Holds(b)'
  <1>1. UNCHANGED <<failed, chip, touched, moved, fpga, modtrm, blamed, left, errors, armed, daq>>
    BY DEF Select, First, Address, Lower, Goto, history
  <1>2. ASSUME NEW b, b.failed = a.failed, Where(b)',
               b.dirty = a.dirty, b.local = a.local, b.moved = a.moved, b.stale = a.stale,
               b.armed = a.armed, b.running = a.running
        PROVE  Holds(b)'
    <2>1. Loaded(b)'
      BY <1>1, <1>2 DEF Holds, Loaded
    <2>2. ~b.failed => Chips(b)' /\ Moves(b)' /\ On(b)'
      BY <1>1, <1>2 DEF Holds, Chips, Moves, On
    <2> QED BY <1>2, <2>1, <2>2 DEF Holds
  <1>3. CASE Select
    <2>1. PICK R \in SUBSET Rocs : R = roclist'
      BY <1>3 DEF Select
    <2>2. PICK b : b = [a EXCEPT !.roclist = R]
      OBVIOUS
    <2>3. b \in After(s, a)
      <3>1. s.op = "select"
        BY <1>3, NowFacts DEF Select
      <3>2. After(s, a) = SelectCases(s, a)
        BY <3>1, AfterFacts DEF Selects
      <3> QED BY <2>2, <3>1, <3>2 DEF SelectCases
    <2>4. /\ b.roclist = R /\ b.sel = a.sel /\ b.flag = a.flag /\ b.failed = a.failed
          /\ b.dirty = a.dirty /\ b.local = a.local /\ b.moved = a.moved
          /\ b.stale = a.stale /\ b.armed = a.armed /\ b.running = a.running
      BY <2>2 DEF Case
    <2>5. Where(b)'
      BY <1>1, <1>3, <2>1, <2>4 DEF Holds, Where, Select
    <2> QED BY <1>2, <2>3, <2>4, <2>5
  <1>4. CASE First
    <2>1. PICK r : r = IF a.roclist = {} THEN NoRoc ELSE Least(a.roclist)
      OBVIOUS
    <2>2. PICK b : b = [a EXCEPT !.sel = r]
      OBVIOUS
    <2>3. b \in After(s, a)
      <3>1. s.op = "first"
        BY <1>4, NowFacts DEF First
      <3>2. After(s, a) = SelectCases(s, a)
        BY <3>1, AfterFacts DEF Selects
      <3> QED BY <2>1, <2>2, <3>1, <3>2 DEF SelectCases
    <2>4. /\ b.roclist = a.roclist /\ b.sel = r /\ b.flag = a.flag /\ b.failed = a.failed
          /\ b.dirty = a.dirty /\ b.local = a.local /\ b.moved = a.moved
          /\ b.stale = a.stale /\ b.armed = a.armed /\ b.running = a.running
      BY <2>2 DEF Case
    <2>5. Where(b)'
      BY <1>1, <1>4, <2>1, <2>4 DEF Holds, Where, First
    <2> QED BY <1>2, <2>3, <2>4, <2>5
  <1>5. CASE Address
    <2>1. PICK b : b = [a EXCEPT !.sel = s.roc]
      OBVIOUS
    <2>2. b \in After(s, a)
      <3>1. s.op = "address"
        BY <1>5, NowFacts DEF Address
      <3>2. After(s, a) = SelectCases(s, a)
        BY <3>1, AfterFacts DEF Selects
      <3> QED BY <2>1, <3>1, <3>2 DEF SelectCases
    <2>3. /\ b.roclist = a.roclist /\ b.sel = s.roc /\ b.flag = a.flag /\ b.failed = a.failed
          /\ b.dirty = a.dirty /\ b.local = a.local /\ b.moved = a.moved
          /\ b.stale = a.stale /\ b.armed = a.armed /\ b.running = a.running
      BY <2>1 DEF Case
    <2>4. Where(b)'
      BY <1>1, <1>5, <2>3 DEF Holds, Where, Address
    <2> QED BY <1>2, <2>2, <2>3, <2>4
  <1>6. CASE Lower
    <2>1. PICK b : b = [a EXCEPT !.flag = FALSE]
      OBVIOUS
    <2>2. b \in After(s, a)
      <3>1. s.op = "lower"
        BY <1>6, NowFacts DEF Lower
      <3> QED BY <2>1, <3>1, AfterFacts
    <2>3. /\ b.roclist = a.roclist /\ b.sel = a.sel /\ b.flag = FALSE /\ b.failed = a.failed
          /\ b.dirty = a.dirty /\ b.local = a.local /\ b.moved = a.moved
          /\ b.stale = a.stale /\ b.armed = a.armed /\ b.running = a.running
      BY <2>1 DEF Case
    <2>4. Where(b)'
      BY <1>1, <1>6, <2>3 DEF Holds, Where, Lower
    <2> QED BY <1>2, <2>2, <2>3, <2>4
  <1> QED BY <1>3, <1>4, <1>5, <1>6

\* Nothing but the program counter changes.
LEMMA QuietStep ==
  ASSUME NEW a \in Case, Holds(a), NEW s, s = Now, Quiet, UNCHANGED history,
         s.op \in Branches \cup {"read", "use"}
  PROVE  \E b \in After(s, a) : Holds(b)'
  <1>1. After(s, a) = {a}
    BY AfterFacts
  <1>2. Holds(a)'
    BY DEF Holds, Where, Loaded, Chips, Moves, On, history
  <1> QED BY <1>1, <1>2

-----------------------------------------------------------------------------
(* The invariant *)

\* The next step.
LEMMA TargetFacts ==
  ASSUME TypeOK, NEW a \in Case, Where(a), NEW s, s = Now, Preset \subseteq kept,
         Do, ~Caught, ~UseEmpty
  PROVE  pc' \in Targets(s, pc, a) /\ UNCHANGED cmd /\ At(s.op) /\ (s.op \notin {"disarm", "stop"} => UNCHANGED history)
  <1>1. pc \in Nat
    BY DEF TypeOK
  <1>2. ASSUME NEW op \in Ops \ Branches, At(op), Goto(0)
        PROVE  pc' \in Targets(s, pc, a) /\ UNCHANGED cmd /\ At(s.op) /\ (s.op \notin {"disarm", "stop"} => UNCHANGED history)
    <2>1. s.op = op
      BY <1>2, NowFacts
    <2>2. Targets(s, pc, a) = {pc + 1}
      BY <2>1 DEF Targets, Branches
    <2>3. pc' = pc + 1
      BY <1>1, <1>2 DEF Goto
    <2> QED BY <1>2, <2>1, <2>2, <2>3 DEF Goto
  <1>3. CASE \/ Select \/ First \/ Address \/ Put \/ Set \/ Note \/ Back \/ Revert
             \/ Edit \/ Clear \/ Load \/ Off \/ Foreign \/ Last
    <2>1. \E op \in Ops \ Branches : At(op) /\ Goto(0)
      BY <1>3 DEF Ops, Branches, Select, First, Address, Put, Set, Note, Back, Revert,
                  Edit, Clear, Load, Off, Foreign, Last
    <2> QED BY <1>2, <2>1
  <1>4. CASE \/ Arm \/ Start \/ Loop \/ Scan \/ ScanAll \/ Read \/ Lower \/ Use
    <2>1. \E op \in Ops \ Branches : At(op) /\ Goto(0)
      BY <1>4 DEF Ops, Branches, Arm, Start, Loop, Scan, ScanAll, Read, Lower, Use
    <2> QED BY <1>2, <2>1
  <1>5. ASSUME NEW op, At(op)
        PROVE  s.op = op /\ s.n \in Nat
    BY <1>5, NowFacts DEF Step
  <1>6. ASSUME NEW op, NEW k, At(op), Goto(k), pc + 1 + k \in Targets(s, pc, a)
        PROVE  pc' \in Targets(s, pc, a) /\ UNCHANGED cmd /\ At(s.op) /\ (s.op \notin {"disarm", "stop"} => UNCHANGED history)
    BY <1>5, <1>6 DEF Goto
  <1>7. CASE Skip
    <2>1. At("skip") /\ s.op = "skip" /\ s.n \in Nat
      BY <1>5, <1>7 DEF Skip
    <2>2. PICK k \in {0, s.n} : Goto(k)
      BY <1>7 DEF Skip
    <2>3. Targets(s, pc, a) = {pc + 1, pc + 1 + s.n}
      BY <2>1 DEF Targets, Branches
    <2>4. pc + 1 + k \in {pc + 1, pc + 1 + s.n}
      BY <1>1, <2>1, <2>2
    <2> QED BY <1>6, <2>1, <2>2, <2>3, <2>4
  <1>8. CASE Again
    <2>1. At("again") /\ s.op = "again" /\ s.n \in Nat
      BY <1>5, <1>8 DEF Again
    <2>2. PICK k \in {0, -(s.n + 1)} : Goto(k)
      BY <1>8 DEF Again
    <2>3. Targets(s, pc, a) = {pc + 1, pc - s.n}
      BY <2>1 DEF Targets, Branches
    <2>4. pc + 1 + k \in {pc + 1, pc - s.n}
      BY <1>1, <2>1, <2>2
    <2> QED BY <1>6, <2>1, <2>2, <2>3, <2>4
  <1>9. CASE Jump
    <2>1. At("jump") /\ s.op = "jump" /\ Goto(s.n)
      BY <1>5, <1>9 DEF Jump
    <2>2. Targets(s, pc, a) = {pc + 1 + s.n}
      BY <2>1 DEF Targets, Branches
    <2> QED BY <1>6, <2>1, <2>2
  <1>10. CASE Unless
    <2>1. At("unless") /\ s.op = "unless" /\ s.n \in Nat
      BY <1>5, <1>10 DEF Unless
    <2>2. PICK k : k = (IF flag THEN 0 ELSE s.n) /\ Goto(k)
      BY <1>10 DEF Unless
    <2>3. Targets(s, pc, a) = {IF a.flag THEN pc + 1 ELSE pc + 1 + s.n}
      BY <2>1 DEF Targets, Branches
    <2>4. pc + 1 + k \in Targets(s, pc, a)
      BY <1>1, <2>1, <2>2, <2>3 DEF Where
    <2> QED BY <1>6, <2>1, <2>2, <2>4
  <1>11. CASE IsEnabled
    <2>1. At("enabled") /\ s.op = "enabled" /\ s.n \in Nat
      BY <1>5, <1>11 DEF IsEnabled
    <2>2. PICK k : k = (IF s.roc \in roclist THEN 0 ELSE s.n) /\ Goto(k)
      BY <1>11 DEF IsEnabled
    <2>3. Targets(s, pc, a) = {IF s.roc \in a.roclist THEN pc + 1 ELSE pc + 1 + s.n}
      BY <2>1 DEF Targets, Branches
    <2>4. pc + 1 + k \in Targets(s, pc, a)
      BY <1>1, <2>1, <2>2, <2>3 DEF Where
    <2> QED BY <1>6, <2>1, <2>2, <2>4
  <1>12. CASE Needs
    <2>1. At("needs") /\ s.op = "needs" /\ s.n \in Nat
      BY <1>5, <1>12 DEF Needs
    <2>2. PICK k : k = (IF <<s.roc, s.arg>> \in kept THEN 0 ELSE s.n) /\ Goto(k)
      BY <1>12 DEF Needs
    <2>3. Targets(s, pc, a) = IF <<s.roc, s.arg>> \in Preset THEN {pc + 1} ELSE {pc + 1, pc + 1 + s.n}
      BY <2>1 DEF Targets, Branches
    <2>4. pc + 1 + k \in Targets(s, pc, a)
      BY <1>1, <2>1, <2>2, <2>3
    <2> QED BY <1>6, <2>1, <2>2, <2>4
  <1>13. ASSUME NEW op \in {"disarm", "stop"}, At(op), GotoOff
         PROVE  pc' \in Targets(s, pc, a) /\ UNCHANGED cmd /\ At(s.op) /\ s.op = op
    <2>1. s.op = op
      BY <1>13, NowFacts
    <2>2. Targets(s, pc, a) = {pc + 1}
      BY <2>1 DEF Targets, Branches, Ops
    <2> QED BY <1>13, <2>1, <2>2, GotoOffFacts
  <1>14. CASE Disarm \/ Stop
    BY <1>13, <1>14 DEF Disarm, Stop
  <1> QED BY <1>3, <1>4, <1>14, <1>7, <1>8, <1>9, <1>10, <1>11, <1>12 DEF Do

\* Every step of a command leads from the cases before it to those before the next step.
LEMMA DoKeeps ==
  ASSUME TypeOK, RocInv, Do
  PROVE  RocInv'
  <1>1. cmd \in Commands /\ pc \in Nat /\ pc >= 1 /\ (cmd' = cmd \/ cmd' = Crash)
    <2>1. Recorded
      BY DoRecords
    <2>2. CASE UseEmpty
      BY <2>1, <2>2 DEF Recorded, UseEmpty, RocInv, TypeOK
    <2>3. CASE Caught
      BY <2>1, <2>3 DEF Recorded, Caught, RocInv, TypeOK
    <2>4. CASE ~Caught /\ ~UseEmpty
      <3>1. PICK a \in Before(cmd, pc) : Holds(a)
        BY <2>1 DEF Recorded, RocInv
      <3>2. a \in Case
        BY <2>1, <3>1, BeforeFacts DEF Recorded, RocInv, TypeOK
      <3>3. UNCHANGED cmd
        BY <2>4, <3>1, <3>2, TargetFacts DEF RocInv, Holds
      <3> QED BY <2>1, <3>3 DEF Recorded, RocInv, TypeOK
    <2> QED BY <2>2, <2>3, <2>4
  <1>2. cmd # Prompt /\ cmd' # Prompt
    BY <1>1, NameAssumption DEF Prompt, Crash
  <1>3. PICK a \in Before(cmd, pc) : Holds(a)
    BY <1>1 DEF RocInv
  <1>4. a \in Case
    BY <1>1, <1>3, BeforeFacts
  <1>5. PICK s : s = Now
    OBVIOUS
  <1>6. PICK c \in Commands : c = cmd
    BY <1>1
  <1>7. Preset \subseteq kept'
    BY DEF RocInv, Do, Select, First, Address, Put, Set, Note, Back, Revert, Edit, Clear, Load,
           Off, Foreign, Last, Arm, Disarm, Start, Stop, Loop, Scan, ScanAll, Read, Caught,
           Skip, Again, Jump, Lower, Unless, IsEnabled, Needs, Use, UseEmpty
  <1>8. CASE UseEmpty
    <2>1. cmd' = Crash /\ pc' = 1
      BY <1>8 DEF UseEmpty
    <2>2. cmd' \notin Commands
      BY <2>1, NameAssumption
    <2> QED BY <1>2, <1>7, <2>1, <2>2 DEF RocInv
  <1>9. CASE Caught
    <2>1. s.op \in Readings /\ At(s.op)
      BY <1>3, <1>4, <1>5, <1>9, CaughtStep
    <2>2. PICK b \in After(s, a) : Holds([b EXCEPT !.failed = TRUE])'
      BY <1>3, <1>4, <1>5, <1>9, CaughtStep
    <2>3. PICK t : t = pc'
      OBVIOUS
    <2>4. t = pc + 1 + s.n /\ cmd' = c
      BY <1>5, <1>6, <1>9, <2>3 DEF Caught
    <2>5. PICK d : d = [b EXCEPT !.failed = TRUE]
      OBVIOUS
    <2>6. Covered(c, t, d)
      BY <1>3, <1>5, <1>6, <2>1, <2>4, <2>5, StepFacts
    <2>7. Holds(d)'
      BY <2>2, <2>5
    <2>8. t >= 1 /\ \E e \in Before(c, t) : Holds(e)'
      BY <2>6, <2>7, Arrive
    <2>9. (cmd \in Commands => \E e \in Before(cmd, pc) : Holds(e))'
      BY <2>3, <2>4, <2>8
    <2>10. pc' >= 1
      BY <2>3, <2>8
    <2> QED BY <1>2, <1>7, <2>9, <2>10 DEF RocInv
  <1>10. CASE ~Caught /\ ~UseEmpty
    <2>1. /\ pc' \in Targets(s, pc, a) /\ UNCHANGED cmd /\ At(s.op)
          /\ s.op \notin {"disarm", "stop"} => UNCHANGED history
      BY <1>3, <1>4, <1>5, <1>10, TargetFacts DEF RocInv, Holds
    <2>2. PICK b \in After(s, a) : Holds(b)'
      <3>1. CASE \/ Put \/ Set \/ Note \/ Back \/ Revert
        BY <1>3, <1>4, <1>5, <3>1, WriteStep DEF RocInv
      <3>2. CASE \/ Edit \/ Clear \/ Load \/ Off \/ Foreign \/ Last
        BY <1>3, <1>4, <1>5, <3>2, TrimStep
      <3>3. CASE \/ Arm \/ Disarm \/ Start \/ Stop
        BY <1>3, <1>4, <1>5, <3>3, SwitchStep
      <3>4. CASE \/ Loop \/ Scan \/ ScanAll
        BY <1>3, <1>4, <1>5, <3>4, LoopStep
      <3>5. CASE \/ Select \/ First \/ Address \/ Lower
        BY <1>3, <1>4, <1>5, <3>5, SelectStep
      <3>6. CASE Read \/ Skip \/ Again \/ Jump \/ Unless \/ IsEnabled \/ Needs \/ Use
        <4>1. s.op \in Branches \cup {"read", "use"}
          BY <1>5, <3>6, NowFacts
             DEF Branches, Read, Skip, Again, Jump, Unless, IsEnabled, Needs, Use
        <4>2. UNCHANGED <<roclist, sel, chip, kept, moved, touched, modtrm, fpga, armed, daq, flag>>
          BY <3>6 DEF Read, Skip, Again, Jump, Unless, IsEnabled, Needs, Use
        <4>3. UNCHANGED history
          BY <2>1, <4>1 DEF Branches
        <4> QED BY <1>3, <1>4, <1>5, <4>1, <4>2, <4>3, QuietStep
      <3> QED BY <1>10, <3>1, <3>2, <3>3, <3>4, <3>5, <3>6 DEF Do
    <2>3. PICK t : t = pc'
      OBVIOUS
    <2>4. Covered(c, t, b)
      BY <1>3, <1>5, <1>6, <2>1, <2>2, <2>3, StepFacts
    <2>5. t >= 1 /\ \E e \in Before(c, t) : Holds(e)'
      BY <2>2, <2>4, Arrive
    <2>6. (cmd \in Commands => \E e \in Before(cmd, pc) : Holds(e))'
      BY <1>6, <2>1, <2>3, <2>5
    <2>7. (pc >= 1)'
      BY <2>3, <2>5
    <2> QED BY <1>2, <1>7, <2>6, <2>7 DEF RocInv
  <1> QED BY <1>8, <1>9, <1>10

\* A command begins with the outline's first cases.
LEMMA BeginKeeps ==
  ASSUME TypeOK, RocInv, NEW c \in Commands, Begin(c)
  PROVE  RocInv'
  <1>1. /\ cmd = Prompt /\ cmd' = c /\ pc' = 1 /\ flag' = TRUE
        /\ moved' = {} /\ touched' = {} /\ failed' = FALSE
        /\ UNCHANGED <<roclist, sel, chip, kept, modtrm, fpga, armed, daq, blamed, left, errors>>
    BY DEF Begin
  <1>2. Clean
    BY <1>1 DEF RocInv
  <1>3. PICK p \in Settled : p = <<roclist, sel>>
    BY <1>2 DEF Clean
  <1>4. PICK b : b = Entry(p)
    OBVIOUS
  <1>5. /\ b.roclist = roclist /\ b.sel = sel /\ b.flag = TRUE /\ b.failed = FALSE /\ b.dirty = {}
        /\ b.local = {} /\ b.moved = {} /\ b.stale = {} /\ b.armed = {} /\ b.running = {}
    BY <1>3, <1>4 DEF Entry
  <1>6. Where(b)'
    BY <1>1, <1>5 DEF Where
  <1>7. Loaded(b)'
    BY <1>1, <1>2 DEF Loaded, Clean, TrimsLoaded
  <1>8. Chips(b)' /\ Moves(b)' /\ On(b)'
    BY <1>1, <1>2, <1>5 DEF Chips, Moves, On, Clean
  <1>9. Holds(b)'
    BY <1>6, <1>7, <1>8 DEF Holds
  <1>10. Covered(c, 1, b)
    BY <1>4, OutlineAssumption DEF Inductive
  <1>11. \E e \in Before(c, 1) : Holds(e)'
    BY <1>9, <1>10, Arrive
  <1>12. (cmd \in Commands => \E e \in Before(cmd, pc) : Holds(e))'
    BY <1>1, <1>11
  <1>13. cmd' # Prompt
    BY <1>1, NameAssumption
  <1> QED BY <1>1, <1>12, <1>13 DEF RocInv

\* A command that ends, or is ended by an error, leaves trim values only to those ROCs
\* that it is blamed for.
LEMMA LeaveKeeps ==
  ASSUME TypeOK, RocInv, cmd \in Commands, Leave, NEW a \in Before(cmd, pc), Holds(a),
         \A r \in a.stale \cap roclist : fpga[r] # modtrm[r] => <<r, Trims>> \in blamed',
         blamed \cap Wrong \subseteq blamed',
         armed \subseteq left'.armed, daq \subseteq left'.daq
  PROVE  RocInv'
  <1>1. /\ cmd' = Prompt /\ pc' = 1 /\ flag' = TRUE /\ moved' = {} /\ touched' = {} /\ failed' = FALSE
        /\ UNCHANGED <<roclist, sel, kept, modtrm, fpga, armed, daq>>
    BY DEF Leave
  <1>2. <<a.roclist, a.sel>> \in Settled /\ a.stale \subseteq a.roclist
    BY OrderFacts DEF RocInv, TypeOK
  <1>3. a.roclist = roclist /\ a.sel = sel
    BY DEF Holds, Where
  <1>4. ASSUME NEW r \in Rocs, fpga'[r] # modtrm'[r]
        PROVE  <<r, Trims>> \in blamed'
    <2>1. fpga[r] # modtrm[r]
      BY <1>1, <1>4
    <2>2. CASE r \in a.stale
      BY <1>2, <1>3, <2>1, <2>2
    <2>3. CASE <<r, Trims>> \in blamed
      BY <2>1, <2>3 DEF Wrong
    <2> QED BY <2>1, <2>2, <2>3 DEF Holds, Loaded
  <1>5. Clean'
    BY <1>1, <1>2, <1>3, <1>4 DEF Clean, TrimsLoaded
  <1>6. cmd' \notin Commands
    BY <1>1, NameAssumption
  <1> QED BY <1>1, <1>5, <1>6 DEF RocInv

LEMMA EndKeeps ==
  ASSUME TypeOK, RocInv, End \/ Abort
  PROVE  RocInv'
  <1>1. cmd \in Commands /\ Leave
    BY DEF End, Abort, Returning, Running
  <1>2. PICK a \in Before(cmd, pc) : Holds(a)
    BY <1>1 DEF RocInv
  <1>3. ASSUME NEW r \in a.stale \cap roclist, fpga[r] # modtrm[r]
        PROVE  r \in Rocs /\ <<r, Trims>> \in Wrong /\ <<r, Trims>> \in Changed
    BY <1>3 DEF TypeOK, Wrong, Changed
  <1>4. Active.armed = armed /\ Active.daq = daq
    BY DEF Active
  <1>5. CASE End
    <2>1. pc > Len(Code[cmd])
      BY <1>5 DEF End, Returning
    <2>2. blamed' = Wrong \cap (blamed \cup {x \in Changed : failed \/ x[2] \in Leaves[cmd]})
      BY <1>5 DEF End
    <2>3. \/ a.failed
          \/ /\ a.stale = {} \/ Trims \in Leaves[cmd]
             /\ (a.armed = {} /\ a.running = {}) \/ Pixels \in Leaves[cmd]
      BY <1>1, <1>2, <2>1, OrderFacts DEF RocInv, TypeOK
    <2>4. a.failed = failed
      BY <1>2 DEF Holds, Where
    <2>5. \A r \in a.stale \cap roclist : fpga[r] # modtrm[r] => <<r, Trims>> \in blamed'
      BY <1>3, <2>2, <2>3, <2>4
    <2>6. armed \subseteq left'.armed /\ daq \subseteq left'.daq
      <3>1. CASE failed \/ Pixels \in Leaves[cmd]
        BY <1>4, <1>5, <3>1 DEF End
      <3>2. CASE ~(failed \/ Pixels \in Leaves[cmd])
        <4>1. a.armed = {} /\ a.running = {} /\ ~a.failed /\ left' = left
          BY <1>5, <2>3, <2>4, <3>2 DEF End
        <4> QED BY <1>2, <4>1 DEF Holds, On
      <3> QED BY <3>1, <3>2
    <2>7. blamed \cap Wrong \subseteq blamed'
      BY <2>2
    <2> QED BY <1>1, <1>2, <2>5, <2>6, <2>7, LeaveKeeps
  <1>6. CASE Abort
    <2>1. blamed' = Wrong \cap (blamed \cup Changed)
      BY <1>6 DEF Abort
    <2>2. armed \subseteq left'.armed /\ daq \subseteq left'.daq
      BY <1>4, <1>6 DEF Abort
    <2>3. \A r \in a.stale \cap roclist : fpga[r] # modtrm[r] => <<r, Trims>> \in blamed'
      BY <1>3, <2>1
    <2>4. blamed \cap Wrong \subseteq blamed'
      BY <2>1
    <2> QED BY <1>1, <1>2, <2>2, <2>3, <2>4, LeaveKeeps
  <1> QED BY <1>5, <1>6

\* Wherever a command is, the ROCs are in one of the cases of its outline; between commands
\* the trim values, the pixels and the channels are as a command may leave them.
THEOREM OutlinesHold == Spec => []RocInv
  <1>1. Init => RocInv
    <2> SUFFICES ASSUME Init PROVE RocInv
      OBVIOUS
    <2>1. cmd = Prompt /\ cmd \notin Commands
      BY NameAssumption DEF Init
    <2>2. <<roclist, sel>> \in Settled
      BY SettledAssumption DEF Init
    <2>3. TrimsLoaded
      BY DEF Init, TrimsLoaded
    <2>4. armed \subseteq left.armed /\ daq \subseteq left.daq
      BY DEF Init
    <2> QED BY <2>1, <2>2, <2>3, <2>4 DEF Init, RocInv, Clean
  <1>2. TypeOK /\ RocInv /\ [Next]_vars => RocInv'
    <2> SUFFICES ASSUME TypeOK, RocInv, [Next]_vars PROVE RocInv'
      OBVIOUS
    <2>1. CASE UNCHANGED vars
      BY <2>1 DEF vars, history, RocInv, Clean, TrimsLoaded, Holds, Where, Loaded, Chips, Moves, On
    <2>2. CASE Do
      BY <2>2, DoKeeps
    <2>3. CASE \E c \in Commands : Begin(c)
      BY <2>3, BeginKeeps
    <2>4. CASE End \/ Abort
      BY <2>4, EndKeeps
    <2> QED BY <2>1, <2>2, <2>3, <2>4 DEF Next
  <1> QED BY <1>1, <1>2, TypeCorrect, PTL DEF Spec

\* A command that returns and met no RPC error has put back every register it wrote, but
\* for those it is known to leave, and changed only the DACs it is there to change.
THEOREM RestoresCorrect == Spec => []RestoresOriginalState
  <1>1. TypeOK /\ RocInv => RestoresOriginalState
    <2> SUFFICES ASSUME TypeOK, RocInv, Returning, ~failed
                 PROVE  /\ \A x \in touched : chip[x] = "kept" \/ x[2] \in Leaves[cmd]
                        /\ \A x \in moved : x[2] \in Purpose[cmd] \cup Leaves[cmd]
      BY DEF RestoresOriginalState
    <2>1. cmd \in Commands /\ pc > Len(Code[cmd]) /\ pc \in Nat /\ pc >= 1
      BY DEF Returning, Running, RocInv, TypeOK
    <2>2. PICK a \in Before(cmd, pc) : Holds(a)
      BY <2>1 DEF RocInv
    <2>3. ~a.failed
      BY <2>2 DEF Holds, Where
    <2>4. /\ \A x \in a.dirty : x[2] \in Leaves[cmd]
          /\ \A x \in a.moved : x[2] \in Purpose[cmd] \cup Leaves[cmd]
      BY <2>1, <2>2, <2>3, OrderFacts
    <2> QED BY <2>2, <2>3, <2>4 DEF Holds, Chips, Moves
  <1> QED BY <1>1, TypeCorrect, OutlinesHold, PTL

\* Hence a register that differs from dacval at the prompt was written
\* by a command that met an error, or is known to leave it.
THEOREM CauseCorrect == Spec => []DirtyHasCause
  BY RestoresCorrect, CauseFollows, PTL

\* A value taken from, or noted in, dacval[roc] goes to that ROC, however the function got
\* to that line.
THEOREM OwnRocCorrect == Spec => []OwnRoc
  <1>1. TypeOK /\ RocInv => OwnRoc
    <2> SUFFICES ASSUME TypeOK, RocInv, NEW op \in {"back", "note", "revert"}, At(op)
                 PROVE  sel = Now.roc \/ Now.arg \in Leaves[cmd]
      BY DEF OwnRoc
    <2>1. cmd \in Commands /\ pc \in 1 .. Len(Code[cmd]) /\ Code[cmd][pc].op = op /\ pc \in Nat
      BY DEF At, Running, Now, TypeOK
    <2>2. PICK a \in Before(cmd, pc) : Holds(a)
      BY <2>1 DEF RocInv
    <2>3. Code[cmd] \in Seq(Step)
      BY <2>1, CodeAssumption
    <2>4. pc <= Len(Code[cmd]) /\ pc >= 1
      BY <2>1, <2>3
    <2>5. PICK c \in Commands, k \in Nat : c = cmd /\ k = pc
      BY <2>1
    <2>6. Now = Code[c][k]
      BY <2>5 DEF Now
    <2>7. k >= 1 /\ k <= Len(Code[c]) /\ Code[c][k].op = op /\ a \in Before(c, k)
      BY <2>1, <2>2, <2>4, <2>5
    <2>8. a.sel = Code[c][k].roc \/ Code[c][k].arg \in Leaves[c]
      BY <2>7, OwnFacts
    <2> QED BY <2>2, <2>5, <2>6, <2>8 DEF Holds, Where
  <1> QED BY <1>1, TypeCorrect, OutlinesHold, PTL

\* A command that returns and met no RPC error leaves no pixel enabled or calibrated, of any
\* ROC, and no channel of the DAQ running, that an error had not left so before.
THEOREM AllOffCorrect == Spec => []AllOff
  <1>1. TypeOK /\ RocInv => AllOff
    <2> SUFFICES ASSUME TypeOK, RocInv, Returning, ~failed, Pixels \notin Leaves[cmd]
                 PROVE  armed \subseteq left.armed /\ daq \subseteq left.daq
      BY DEF AllOff
    <2>1. cmd \in Commands /\ pc > Len(Code[cmd]) /\ pc \in Nat /\ pc >= 1
      BY DEF Returning, Running, RocInv, TypeOK
    <2>2. PICK a \in Before(cmd, pc) : Holds(a)
      BY <2>1 DEF RocInv
    <2>3. ~a.failed
      BY <2>2 DEF Holds, Where
    <2>4. a.armed = {} /\ a.running = {}
      BY <2>1, <2>2, <2>3, OrderFacts
    <2> QED BY <2>2, <2>3, <2>4 DEF Holds, On
  <1> QED BY <1>1, TypeCorrect, OutlinesHold, PTL

\* At the prompt the trim values that the next loop loads into a ROC are modtrm's, unless
\* a command that was active there met an error, or is known to leave others.
THEOREM TrimsCorrect == Spec => []TrimsLoaded
  <1>1. RocInv => TrimsLoaded
    BY DEF RocInv, Clean, TrimsLoaded
  <1> QED BY <1>1, OutlinesHold, PTL
=============================================================================
