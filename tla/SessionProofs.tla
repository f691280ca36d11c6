--------------------------- MODULE SessionProofs ----------------------------
(***************************************************************************)
(* Theorems about Session, for any devices, flash files, width of the      *)
(* record counter and bounds: the connections, and what is burnt.          *)
(***************************************************************************)
EXTENDS Session, TLAPS, SequenceTheorems

Connection == [open : BOOLEAN, dev : Devices \cup {NoDevice}]

\* Types of what the connections depend on.  The upgrade runs at the prompt.
TypeInv ==
  /\ tb \in Connection /\ (tb.open => tb.dev \in Devices)
  /\ probe \in Connection /\ (probe.open => probe.dev \in Devices)
  /\ bus \in Seq(Devices) /\ holder \in [Devices -> {"free", "us", "other"}]
  /\ caller \in {"main", "open", "scan"}
  /\ identified \in BOOLEAN /\ byMain \in BOOLEAN
  /\ halfOpen \subseteq Devices
  /\ pc # "prompt" => step = "no"

Own(c) == IF c.open THEN {c.dev} ELSE {}

\* What the driver holds for the program is shared out among the two connections and the
\* devices it has lost; scan's object is closed outside of its loop.
HeldInv ==
  /\ {d \in Devices : holder[d] = "us"} = halfOpen \cup Own(tb) \cup Own(probe)
  /\ Own(tb) \cap Own(probe) = {}
  /\ Own(tb) \cap halfOpen = {} /\ Own(probe) \cap halfOpen = {}
  /\ probe.open => pc = "GetBoardId" /\ caller = "scan"

\* Where tb can be open without an answer: while FindDTB looks, and between Open and
\* GetInfo.  An error of GetInfo closes it for main, and only there byMain is set.
AnswerInv ==
  /\ pc \in {"EnumFirst", "EnumNext", "probe", "choose", "Open"} /\ caller # "scan" => ~tb.open
  /\ pc \in {"choose", "Open", "Init", "GetInfo"} => caller # "scan"
  /\ pc \in {"Init", "GetInfo"} /\ caller # "main" => ~byMain
  /\ pc = "prompt" \/ caller = "scan" => (tb.open /\ byMain => identified)

-----------------------------------------------------------------------------
(* Type correctness *)

LEMMA BusFacts ==
  ASSUME TypeInv, NEW d, Contains(bus, d)
  PROVE  d \in Devices
  BY DEF TypeInv, Contains

LEMMA OpensFacts ==
  ASSUME TypeInv, NEW c, NEW d, Opens(c, d)
  PROVE  /\ d \in Devices /\ holder[d] = "free" /\ ~c.open
         /\ holder' = [holder EXCEPT ![d] = "us"]
         /\ holder' \in [Devices -> {"free", "us", "other"}]
         /\ [open |-> TRUE, dev |-> d] \in Connection
  <1>1. d \in Devices
    BY BusFacts DEF Opens
  <1> QED BY <1>1 DEF Opens, TypeInv, Connection

LEMMA ClosesFacts ==
  ASSUME TypeInv, NEW c \in Connection, Closes(c)
  PROVE  holder' \in [Devices -> {"free", "us", "other"}]
  BY DEF Closes, TypeInv, Connection

LEMMA ClosedFacts == Closed \in Connection /\ ~Closed.open
  BY DEF Closed, Connection

\* Of the actions of UpdateDTB, none touches the connections.
LEMMA UpdateFacts ==
  ASSUME UpdateDTB
  PROVE  UNCHANGED tb /\ step # "no"
  BY DEF UpdateDTB, Version, UpgradeStart, Line, BadLine, UpgradeData, UpgradeError, UpgradeExec,
         UpgradeThrows, Throws

LEMMA InitTypes == Init => TypeInv
  <1> SUFFICES ASSUME Init PROVE TypeInv
    OBVIOUS
  <1>1. bus \in Seq(Devices)
    <2>1. PICK n \in 0 .. Cardinality(Devices) : bus \in [1 .. n -> Devices]
      BY DEF Init
    <2>2. n \in Nat
      BY <2>1
    <2> QED BY <2>1, <2>2
  <1> QED BY <1>1, ClosedFacts DEF Init, Begin, UpgradeInit, TypeInv

LEMMA StepTypes ==
  ASSUME TypeInv, [Next]_vars
  PROVE  TypeInv'
  <1> USE ClosedFacts
  <1>1. CASE UNCHANGED vars
    BY <1>1 DEF TypeInv, vars, transfer, usb, enum, marks
  <1>2. CASE Kill \/ StartAgain
    <2>1. Restart /\ UNCHANGED bus
      BY <1>2 DEF Kill, StartAgain, Restart
    <2>2. holder' \in [Devices -> {"free", "us", "other"}]
      BY <2>1 DEF Restart, TypeInv
    <2> QED BY <2>1, <2>2 DEF Restart, TypeInv, Leave
  <1>3. ASSUME NEW d \in Devices, Plug(d) PROVE TypeInv'
    <2>1. CASE bus' = Append(bus, d)
      BY <1>3, <2>1 DEF Plug, TypeInv, transfer, enum, marks
    <2>2. CASE \E i \in 1 .. Len(bus) : bus' = RemoveAt(bus, i)
      <3>1. PICK i \in 1 .. Len(bus) : bus' = RemoveAt(bus, i)
        BY <2>2
      <3>2. bus \in Seq(Devices) /\ Len(bus) \in Nat /\ i \in Nat
        BY DEF TypeInv
      <3>3. SubSeq(bus, 1, i - 1) \in Seq(Devices) /\ SubSeq(bus, i + 1, Len(bus)) \in Seq(Devices)
        BY <3>2, <3>1, SubSeqProperties
      <3>4. bus' \in Seq(Devices)
        BY <3>1, <3>3, ConcatProperties DEF RemoveAt
      <3> QED BY <1>3, <3>4 DEF Plug, TypeInv, transfer, enum, marks
    <2> QED BY <1>3, <2>1, <2>2 DEF Plug
  <1>4. ASSUME NEW d \in Devices, TakenByOthers(d) PROVE TypeInv'
    BY <1>4 DEF TakenByOthers, TypeInv, transfer, enum, marks
  <1>5. ASSUME NEW d \in Devices, SwitchedOff(d) PROVE TypeInv'
    BY <1>5 DEF SwitchedOff, PowerCycle, TypeInv, transfer, usb, enum, marks
  <1>6. CASE EnumFirst
    BY <1>6 DEF EnumFirst, TypeInv, transfer, usb, marks
  <1>7. CASE EnumNext
    BY <1>7 DEF EnumNext, TypeInv, transfer, usb, marks
  <1>8. CASE EnumNextFails
    BY <1>8 DEF EnumNextFails, TypeInv, transfer, usb, marks
  <1>9. CASE EnumDone
    BY <1>9 DEF EnumDone, TypeInv, transfer, usb, marks
  <1>10. CASE ProbeOpen
    <2> DEFINE d == devList[nr + 1]
    <2>0. pc = "probe" /\ UNCHANGED <<bus, caller, identified, byMain, step>>
      BY <1>10 DEF ProbeOpen, transfer
    <2>1. CASE Opens(Looker, d) /\ LookerIs([open |-> TRUE, dev |-> d]) /\ UNCHANGED halfOpen
      <3> HIDE DEF d
      <3>1. d \in Devices /\ [open |-> TRUE, dev |-> d] \in Connection
            /\ holder' \in [Devices -> {"free", "us", "other"}]
        BY <2>1, OpensFacts
      <3>2. (tb' = [open |-> TRUE, dev |-> d] /\ UNCHANGED probe)
            \/ (probe' = [open |-> TRUE, dev |-> d] /\ UNCHANGED tb)
        BY <2>1 DEF LookerIs
      <3>3. [open |-> TRUE, dev |-> d].dev = d
        OBVIOUS
      <3>4. tb' \in Connection /\ (tb'.open => tb'.dev \in Devices)
        BY <3>1, <3>2, <3>3 DEF TypeInv
      <3>5. probe' \in Connection /\ (probe'.open => probe'.dev \in Devices)
        BY <3>1, <3>2, <3>3 DEF TypeInv
      <3> QED BY <2>0, <2>1, <3>1, <3>4, <3>5 DEF TypeInv
    <2>2. CASE OpenFails(Looker, d) /\ UNCHANGED <<tb, probe, pc>>
      <3>1. CASE UNCHANGED <<holder, halfOpen>>
        BY <2>0, <2>2, <3>1 DEF TypeInv
      <3>2. CASE Opens(Looker, d) /\ halfOpen' = halfOpen \cup {d}
        <4> HIDE DEF d
        <4>1. d \in Devices /\ holder' \in [Devices -> {"free", "us", "other"}]
          BY <3>2, OpensFacts
        <4> QED BY <2>0, <2>2, <3>2, <4>1 DEF TypeInv
      <3> QED BY <2>2, <3>1, <3>2 DEF OpenFails
    <2> QED BY <1>10, <2>1, <2>2 DEF ProbeOpen
  <1>11. CASE GetBoardId \/ NotIdentifiable
    <2>1. Looker \in Connection
      BY DEF Looker, TypeInv
    <2>2. Closes(Looker) /\ LookerIs(Closed)
      BY <1>11 DEF GetBoardId, NotIdentifiable
    <2>3. holder' \in [Devices -> {"free", "us", "other"}]
      BY <2>1, <2>2, ClosesFacts
    <2> QED BY <1>11, <2>2, <2>3 DEF GetBoardId, NotIdentifiable, LookerIs, TypeInv, transfer, marks
  <1>12. CASE ProbeDone
    BY <1>12 DEF ProbeDone, TypeInv, transfer, usb, enum, marks
  <1>13. CASE Choose
    BY <1>13 DEF Choose, TypeInv, transfer, usb, marks
  <1>14. CASE Open
    <2>1. CASE Opens(tb, usbId) /\ tb' = [open |-> TRUE, dev |-> usbId]
               /\ byMain' = (caller = "main") /\ identified' = FALSE /\ UNCHANGED halfOpen
      BY <1>14, <2>1, OpensFacts DEF Open, TypeInv, transfer
    <2>2. CASE OpenFails(tb, usbId) /\ UNCHANGED <<tb, identified, byMain>>
      <3>1. CASE UNCHANGED <<holder, halfOpen>>
        BY <1>14, <2>2, <3>1 DEF Open, TypeInv, transfer
      <3>2. CASE Opens(tb, usbId) /\ halfOpen' = halfOpen \cup {usbId}
        BY <1>14, <2>2, <3>2, OpensFacts DEF Open, TypeInv, transfer
      <3> QED BY <2>2, <3>1, <3>2 DEF OpenFails
    <2> QED BY <1>14, <2>1, <2>2 DEF Open
  <1>15. CASE InitDtb
    BY <1>15 DEF InitDtb, TypeInv, transfer, usb, marks
  <1>16. CASE GetInfo
    BY <1>16 DEF GetInfo, TypeInv, transfer, usb, enum
  <1>17. CASE GetInfoThrows
    <2>1. holder' \in [Devices -> {"free", "us", "other"}]
      BY <1>17, ClosesFacts DEF GetInfoThrows, TypeInv
    <2> QED BY <1>17, <2>1 DEF GetInfoThrows, TypeInv, transfer, enum, marks
  <1>18. CASE OpenCommand
    BY <1>18 DEF OpenCommand, Command, TypeInv, transfer, usb, marks
  <1>19. CASE CloseCommand
    <2>1. holder' \in [Devices -> {"free", "us", "other"}]
      BY <1>19, ClosesFacts DEF CloseCommand, TypeInv
    <2> QED BY <1>19, <2>1 DEF CloseCommand, Command, TypeInv, transfer, enum, marks
  <1>20. CASE ScanCommand
    BY <1>20 DEF ScanCommand, Command, TypeInv, transfer, usb, enum, marks
  <1>21. CASE UpgradeCommand
    BY <1>21 DEF UpgradeCommand, Command, TypeInv, usb, enum, marks
  <1>22. CASE ExitCommand
    <2>1. holder' \in [Devices -> {"free", "us", "other"}]
      BY <1>22, ClosesFacts DEF ExitCommand, TypeInv
    <2> QED BY <1>22, <2>1 DEF ExitCommand, Command, TypeInv, transfer, enum, marks
  <1>23. CASE UpdateDTB /\ UNCHANGED <<usb, probe, pc, caller, enum, marks, count>>
    BY <1>23, UpdateFacts DEF TypeInv, usb, enum, marks
  <1> QED
    BY <1>1, <1>2, <1>3, <1>4, <1>5, <1>6, <1>7, <1>8, <1>9, <1>10, <1>11, <1>12, <1>13, <1>14, <1>15,
       <1>16, <1>17, <1>18, <1>19, <1>20, <1>21, <1>22, <1>23 DEF Next, World, List, Commands

-----------------------------------------------------------------------------
(* The devices held *)

Held == {d \in Devices : holder[d] = "us"}

\* A device that is opened was held by nobody.
LEMMA HeldOpens ==
  ASSUME TypeInv, NEW c, NEW d, Opens(c, d)
  PROVE  Held' = Held \cup {d} /\ d \notin Held
  <1>1. d \in Devices /\ holder[d] = "free" /\ holder' = [holder EXCEPT ![d] = "us"]
    BY OpensFacts
  <1> QED BY <1>1 DEF Held, TypeInv

LEMMA HeldCloses ==
  ASSUME TypeInv, NEW c \in Connection, Closes(c)
  PROVE  Held' = Held \ Own(c)
  <1>1. CASE c.open
    BY <1>1 DEF Closes, Held, TypeInv, Own
  <1>2. CASE ~c.open
    BY <1>2 DEF Closes, Held, TypeInv, Own
  <1> QED BY <1>1, <1>2

LEMMA OwnFacts ==
  /\ Own(Closed) = {} /\ \A d : Own([open |-> TRUE, dev |-> d]) = {d}
  /\ \A c \in Connection : ~c.open => Own(c) = {}
  BY DEF Own, Closed

\* HeldInv in terms of the sets.
LEMMA HeldMeans ==
  /\ HeldInv <=> /\ Held = halfOpen \cup Own(tb) \cup Own(probe)
                 /\ Own(tb) \cap Own(probe) = {}
                 /\ Own(tb) \cap halfOpen = {} /\ Own(probe) \cap halfOpen = {}
                 /\ probe.open => pc = "GetBoardId" /\ caller = "scan"
  /\ HeldInv' <=> /\ Held' = halfOpen' \cup Own(tb)' \cup Own(probe)'
                  /\ Own(tb)' \cap Own(probe)' = {}
                  /\ Own(tb)' \cap halfOpen' = {} /\ Own(probe)' \cap halfOpen' = {}
                  /\ probe'.open => pc' = "GetBoardId" /\ caller' = "scan"
  BY DEF HeldInv, Held

\* An action that opens and closes nothing, and leaves scan's object closed.
LEMMA HeldFrame ==
  ASSUME HeldInv, UNCHANGED <<tb, probe, holder, halfOpen>>,
         probe.open => pc' = "GetBoardId" /\ caller' = "scan"
  PROVE  HeldInv'
  BY DEF HeldInv, Own

\* Outside of the loop over the list scan's object is closed, and own(probe) is empty.
LEMMA ProbeClosed ==
  ASSUME TypeInv, HeldInv, pc # "GetBoardId" \/ caller # "scan"
  PROVE  ~probe.open /\ Own(probe) = {}
  BY DEF HeldInv, Own

\* One of the two connections opens.
LEMMA HeldTbOpens ==
  ASSUME TypeInv, HeldInv, NEW d, Opens(tb, d), tb' = [open |-> TRUE, dev |-> d],
         UNCHANGED <<probe, halfOpen>>, ~probe.open
  PROVE  HeldInv'
  <1>1. Held' = Held \cup {d} /\ d \notin Held /\ ~tb.open
    BY HeldOpens DEF Opens
  <1>2. Own(tb) = {} /\ Own(tb)' = {d} /\ Own(probe)' = Own(probe)
    BY <1>1 DEF Own
  <1> QED BY <1>1, <1>2, HeldMeans

LEMMA HeldProbeOpens ==
  ASSUME TypeInv, HeldInv, NEW d, Opens(probe, d), probe' = [open |-> TRUE, dev |-> d],
         UNCHANGED <<tb, halfOpen>>, pc' = "GetBoardId" /\ caller' = "scan"
  PROVE  HeldInv'
  <1>1. Held' = Held \cup {d} /\ d \notin Held /\ ~probe.open
    BY HeldOpens DEF Opens
  <1>2. Own(probe) = {} /\ Own(probe)' = {d} /\ Own(tb)' = Own(tb)
    BY <1>1 DEF Own
  <1> QED BY <1>1, <1>2, HeldMeans

\* An Open fails; the device may be lost.
LEMMA HeldFails ==
  ASSUME TypeInv, HeldInv, NEW c, NEW d, OpenFails(c, d), UNCHANGED <<tb, probe>>,
         probe.open => pc' = "GetBoardId" /\ caller' = "scan"
  PROVE  HeldInv'
  <1>1. CASE UNCHANGED <<holder, halfOpen>>
    BY <1>1, HeldFrame
  <1>2. CASE Opens(c, d) /\ halfOpen' = halfOpen \cup {d}
    <2>1. Held' = Held \cup {d} /\ d \notin Held
      BY <1>2, HeldOpens
    <2>2. Own(tb)' = Own(tb) /\ Own(probe)' = Own(probe)
      OBVIOUS
    <2> QED BY <1>2, <2>1, <2>2, HeldMeans
  <1> QED BY <1>1, <1>2 DEF OpenFails

LEMMA HeldTbCloses ==
  ASSUME TypeInv, HeldInv, Closes(tb), tb' = Closed, UNCHANGED <<probe, halfOpen>>,
         probe.open => pc' = "GetBoardId" /\ caller' = "scan"
  PROVE  HeldInv'
  <1>1. Held' = Held \ Own(tb)
    BY HeldCloses DEF TypeInv
  <1>2. Own(tb)' = {} /\ Own(probe)' = Own(probe)
    BY OwnFacts
  <1> QED BY <1>1, <1>2, HeldMeans

LEMMA HeldProbeCloses ==
  ASSUME TypeInv, HeldInv, Closes(probe), probe' = Closed, UNCHANGED <<tb, halfOpen>>
  PROVE  HeldInv'
  <1>1. Held' = Held \ Own(probe)
    BY HeldCloses DEF TypeInv
  <1>2. Own(probe)' = {} /\ Own(tb)' = Own(tb) /\ ~probe'.open
    BY OwnFacts, ClosedFacts
  <1> QED BY <1>1, <1>2, HeldMeans

LEMMA StepHeld ==
  ASSUME TypeInv, HeldInv, [Next]_vars
  PROVE  HeldInv'
  <1>1. CASE UNCHANGED vars
    BY <1>1, HeldFrame DEF HeldInv, vars, usb, marks
  <1>2. CASE Kill \/ StartAgain
    <2>1. Restart
      BY <1>2 DEF Kill, StartAgain
    <2>2. Held' = {} /\ Own(tb)' = {} /\ Own(probe)' = {} /\ ~probe'.open
      BY <2>1, OwnFacts, ClosedFacts DEF Restart, Held
    <2>3. halfOpen' = {}
      BY <2>1 DEF Restart
    <2> QED BY <2>2, <2>3, HeldMeans
  <1>3. ASSUME NEW d \in Devices, Plug(d) PROVE HeldInv'
    BY <1>3, HeldFrame DEF HeldInv, Plug, marks
  <1>4. ASSUME NEW d \in Devices, TakenByOthers(d) PROVE HeldInv'
    <2>1. UNCHANGED <<tb, probe, pc, caller, halfOpen>> /\ holder[d] # "us"
          /\ holder' = [holder EXCEPT ![d] = IF @ = "free" THEN "other" ELSE "free"]
      BY <1>4 DEF TakenByOthers, marks
    <2>2. Held' = Held
      BY <2>1 DEF Held, TypeInv
    <2>3. Own(tb)' = Own(tb) /\ Own(probe)' = Own(probe)
      BY <2>1 DEF Own
    <2> QED BY <2>1, <2>2, <2>3, HeldMeans
  <1>5. ASSUME NEW d \in Devices, SwitchedOff(d) PROVE HeldInv'
    BY <1>5, HeldFrame DEF HeldInv, SwitchedOff, PowerCycle, usb, marks
  <1>6. CASE EnumFirst
    BY <1>6, ProbeClosed, HeldFrame DEF EnumFirst, usb, marks
  <1>7. CASE EnumNext
    BY <1>7, ProbeClosed, HeldFrame DEF EnumNext, usb, marks
  <1>8. CASE EnumNextFails
    BY <1>8, ProbeClosed, HeldFrame DEF EnumNextFails, usb, marks
  <1>9. CASE EnumDone
    BY <1>9, ProbeClosed, HeldFrame DEF EnumDone, usb, marks
  <1>10. CASE ProbeOpen
    <2> DEFINE d == devList[nr + 1]
    <2>0. pc = "probe" /\ UNCHANGED caller /\ ~probe.open
      BY <1>10, ProbeClosed DEF ProbeOpen
    <2>1. \/ Opens(Looker, d) /\ LookerIs([open |-> TRUE, dev |-> d])
              /\ pc' = "GetBoardId" /\ UNCHANGED halfOpen
          \/ OpenFails(Looker, d) /\ UNCHANGED <<tb, probe>>
      BY <1>10 DEF ProbeOpen
    <2> HIDE DEF d
    <2>2. CASE OpenFails(Looker, d) /\ UNCHANGED <<tb, probe>>
      BY <2>0, <2>2, HeldFails
    <2>3. CASE Opens(Looker, d) /\ LookerIs([open |-> TRUE, dev |-> d])
               /\ pc' = "GetBoardId" /\ UNCHANGED halfOpen
      <3>1. CASE caller = "scan"
        BY <2>0, <2>3, <3>1, HeldProbeOpens DEF Looker, LookerIs
      <3>2. CASE caller # "scan"
        BY <2>0, <2>3, <3>2, HeldTbOpens DEF Looker, LookerIs
      <3> QED BY <3>1, <3>2
    <2> QED BY <2>1, <2>2, <2>3
  <1>11. CASE GetBoardId \/ NotIdentifiable
    <2>1. pc = "GetBoardId" /\ Closes(Looker) /\ LookerIs(Closed) /\ UNCHANGED <<caller, halfOpen>>
      BY <1>11 DEF GetBoardId, NotIdentifiable, marks
    <2>2. CASE caller = "scan"
      BY <2>1, <2>2, HeldProbeCloses DEF Looker, LookerIs
    <2>3. CASE caller # "scan"
      BY <2>1, <2>3, HeldTbCloses, ProbeClosed DEF Looker, LookerIs
    <2> QED BY <2>2, <2>3
  <1>12. CASE ProbeDone
    BY <1>12, ProbeClosed, HeldFrame DEF ProbeDone, usb, marks
  <1>13. CASE Choose
    BY <1>13, ProbeClosed, HeldFrame DEF Choose, usb, marks
  <1>14. CASE Open
    <2>1. pc = "Open" /\ UNCHANGED <<probe, caller>> /\ ~probe.open
      BY <1>14, ProbeClosed DEF Open
    <2>2. \/ Opens(tb, usbId) /\ tb' = [open |-> TRUE, dev |-> usbId] /\ UNCHANGED halfOpen
          \/ OpenFails(tb, usbId) /\ UNCHANGED tb
      BY <1>14 DEF Open
    <2> QED BY <2>1, <2>2, HeldTbOpens, HeldFails
  <1>15. CASE InitDtb
    BY <1>15, ProbeClosed, HeldFrame DEF InitDtb, usb, marks
  <1>16. CASE GetInfo
    BY <1>16, ProbeClosed, HeldFrame DEF GetInfo, usb
  <1>17. CASE GetInfoThrows
    <2>1. ~probe.open /\ UNCHANGED <<probe, halfOpen>>
      BY <1>17, ProbeClosed DEF GetInfoThrows, marks
    <2>2. (Closes(tb) /\ tb' = Closed) \/ UNCHANGED <<tb, holder>>
      BY <1>17 DEF GetInfoThrows
    <2> QED BY <2>1, <2>2, HeldTbCloses, HeldFrame
  <1>18. CASE OpenCommand
    BY <1>18, ProbeClosed, HeldFrame DEF OpenCommand, Command, usb, marks
  <1>19. CASE CloseCommand
    BY <1>19, ProbeClosed, HeldTbCloses DEF CloseCommand, Command, marks
  <1>20. CASE ScanCommand
    <2>1. ~probe.open /\ Own(probe) = {}
      BY <1>20, ProbeClosed DEF ScanCommand, Command
    <2>2. Held' = Held /\ Own(tb)' = Own(tb) /\ Own(probe)' = {} /\ ~probe'.open
          /\ halfOpen' = halfOpen
      BY <1>20, OwnFacts, ClosedFacts DEF ScanCommand, Held, usb, marks
    <2> QED BY <2>1, <2>2, HeldMeans
  <1>21. CASE UpgradeCommand
    BY <1>21, ProbeClosed, HeldFrame DEF UpgradeCommand, Command, usb, marks
  <1>22. CASE ExitCommand
    <2>1. ~probe.open /\ UNCHANGED <<probe, halfOpen>>
      BY <1>22, ProbeClosed DEF ExitCommand, Command, marks
    <2>2. (Closes(tb) /\ tb' = Closed) \/ UNCHANGED <<tb, holder>>
      BY <1>22 DEF ExitCommand
    <2> QED BY <2>1, <2>2, HeldTbCloses, HeldFrame
  <1>23. CASE UpdateDTB /\ UNCHANGED <<usb, probe, pc, caller, enum, marks, count>>
    BY <1>23, UpdateFacts, HeldFrame DEF HeldInv, usb, marks
  <1> QED
    BY <1>1, <1>2, <1>3, <1>4, <1>5, <1>6, <1>7, <1>8, <1>9, <1>10, <1>11, <1>12, <1>13, <1>14, <1>15,
       <1>16, <1>17, <1>18, <1>19, <1>20, <1>21, <1>22, <1>23 DEF Next, World, List, Commands

\* At every prompt, for any devices, events and errors: the driver holds for the program
\* the device of tb and those whose configuration failed, and nothing else.
THEOREM HandlesCorrect == Spec => []HandlesAccounted
  <1>1. Init => TypeInv /\ HeldInv
    <2> SUFFICES ASSUME Init PROVE HeldInv
      BY InitTypes
    <2>1. Held = {} /\ Own(tb) = {} /\ Own(probe) = {} /\ ~probe.open /\ halfOpen = {}
      BY OwnFacts, ClosedFacts DEF Init, Begin, Held
    <2> QED BY <2>1, HeldMeans
  <1>2. TypeInv /\ HeldInv /\ [Next]_vars => (TypeInv /\ HeldInv)'
    BY StepTypes, StepHeld
  <1>3. TypeInv /\ HeldInv => HandlesAccounted
    <2> SUFFICES ASSUME TypeInv, HeldInv, pc = "prompt"
                 PROVE {d \in Devices : holder[d] = "us"} = halfOpen \cup Own(tb)
      BY DEF HandlesAccounted, Own
    <2> QED BY ProbeClosed DEF HeldInv
  <1> QED BY <1>1, <1>2, <1>3, PTL DEF Spec

-----------------------------------------------------------------------------
(* Answers *)

LEMMA StepAnswer ==
  ASSUME TypeInv, HeldInv, AnswerInv, [Next]_vars
  PROVE  AnswerInv'
  <1> USE ClosedFacts DEF AnswerInv
  <1>1. CASE UNCHANGED vars
    BY <1>1 DEF vars, enum, marks
  <1>2. CASE Kill \/ StartAgain
    BY <1>2 DEF Kill, StartAgain, Restart
  <1>3. ASSUME NEW d \in Devices, Plug(d) \/ TakenByOthers(d) \/ SwitchedOff(d) PROVE AnswerInv'
    BY <1>3 DEF Plug, TakenByOthers, SwitchedOff, PowerCycle, marks
  <1>4. CASE EnumFirst \/ EnumNext \/ EnumNextFails \/ EnumDone
    BY <1>4 DEF EnumFirst, EnumNext, EnumNextFails, EnumDone, marks
  <1>5. CASE ProbeOpen
    BY <1>5 DEF ProbeOpen, LookerIs, TypeInv
  <1>6. CASE GetBoardId \/ NotIdentifiable
    BY <1>6 DEF GetBoardId, NotIdentifiable, LookerIs, marks
  <1>7. CASE ProbeDone \/ Choose
    BY <1>7 DEF ProbeDone, Choose, marks
  <1>8. CASE Open
    BY <1>8 DEF Open, TypeInv
  <1>9. CASE InitDtb
    BY <1>9 DEF InitDtb, marks
  <1>10. CASE GetInfo
    BY <1>10 DEF GetInfo
  <1>11. CASE GetInfoThrows
    BY <1>11 DEF GetInfoThrows, marks
  <1>12. CASE Commands
    BY <1>12 DEF Commands, OpenCommand, CloseCommand, ScanCommand, UpgradeCommand, ExitCommand,
                 Command, marks
  <1>13. CASE UpdateDTB /\ UNCHANGED <<usb, probe, pc, caller, enum, marks, count>>
    BY <1>13, UpdateFacts DEF marks
  <1> QED
    BY <1>1, <1>2, <1>3, <1>4, <1>5, <1>6, <1>7, <1>8, <1>9, <1>10, <1>11, <1>12, <1>13
       DEF Next, World, List

\* Whatever fails on the way, main hands over no connection to a DTB that has not answered.
THEOREM AnswersCorrect == Spec => []AnsweredOrClosed
  <1>1. Init => TypeInv /\ HeldInv /\ AnswerInv
    <2> SUFFICES ASSUME Init PROVE HeldInv /\ AnswerInv
      BY InitTypes
    <2>1. Held = {} /\ Own(tb) = {} /\ Own(probe) = {} /\ ~probe.open /\ halfOpen = {}
      BY OwnFacts, ClosedFacts DEF Init, Begin, Held
    <2>2. AnswerInv
      BY ClosedFacts DEF Init, Begin, AnswerInv
    <2> QED BY <2>1, <2>2, HeldMeans
  <1>2. TypeInv /\ HeldInv /\ AnswerInv /\ [Next]_vars => (TypeInv /\ HeldInv /\ AnswerInv)'
    BY StepTypes, StepHeld, StepAnswer
  <1>3. AnswerInv => AnsweredOrClosed
    BY DEF AnswerInv, AnsweredOrClosed
  <1> QED BY <1>1, <1>2, <1>3, PTL DEF Spec

-----------------------------------------------------------------------------
(* What is burnt is the file: a theorem about UpdateDTB inside of Session,  *)
(* for any flash files, width of the counter, errors and power cuts.        *)
Accepted == Seq([file : Files, line : Nat])
Burn == [count : Nat, file : Files, loaded : Accepted, wrong : BOOLEAN]

\* The file and the DTB are there from the first record on; the counters start at 0.
UpgradeTypes ==
  /\ step \in {"no", "version", "start", "line", "data", "error", "exec"}
  /\ pos \in Nat /\ recordCount \in Nat
  /\ loading \in [Devices -> BOOLEAN] /\ loaded \in [Devices -> Accepted]
  /\ wrong \in [Devices -> BOOLEAN]
  /\ burnt \in [Devices -> {<<>>} \cup {<<b>> : b \in Burn}]
  /\ step \in {"start", "line", "data", "error", "exec"} => tb.open /\ file \in Files
  /\ step \in {"no", "version", "start"} => pos = 0 /\ recordCount = 0

\* As long as the DTB is still in this transfer, it has the records read so far, but for
\* the one in hand, and the counter has them all.
Progress ==
  step \in {"line", "data", "error", "exec"} /\ loading[tb.dev] =>
    /\ pos <= Whole(file)
    /\ IF step = "data"
         THEN /\ pos >= 1 /\ file.lines[pos] = "record"
              /\ HasRecords(loaded[tb.dev], file, pos - 1)
              /\ recordCount = (Len(loaded[tb.dev]) + 1) % Width
         ELSE /\ HasRecords(loaded[tb.dev], file, pos)
              /\ recordCount = Len(loaded[tb.dev]) % Width
    /\ step \in {"error", "exec"} => pos = Whole(file)
    /\ step = "exec" => ~wrong[tb.dev]

UpgradeInv == UpgradeTypes /\ Progress /\ BurnsTheFile

-----------------------------------------------------------------------------
(* Remainders and records *)

LEMMA RemainderIs ==
  ASSUME NEW W \in Nat \ {0}, NEW q \in Int, NEW r \in 0 .. W - 1, NEW a \in Int, a = W * q + r
  PROVE  a % W = r
  BY SMTT(30)

\* A counter that wraps is the number counted, wrapped.
LEMMA NextRemainder ==
  ASSUME NEW W \in Nat \ {0}, NEW a \in Nat
  PROVE  (a + 1) % W = ((a % W) + 1) % W /\ a % W \in Nat
  <1> DEFINE q == a \div W   r == a % W
  <1>1. q \in Int /\ r \in 0 .. W - 1 /\ a = W * q + r
    BY SMTT(30)
  <1> HIDE DEF q, r
  <1>2. CASE r < W - 1
    <2>1. r + 1 \in 0 .. W - 1 /\ a + 1 = W * q + (r + 1) /\ r + 1 = W * 0 + (r + 1)
      BY <1>1, <1>2
    <2>2. (a + 1) % W = r + 1 /\ (r + 1) % W = r + 1
      BY <1>1, <2>1, RemainderIs
    <2> QED BY <2>2, <1>1 DEF r
  <1>3. CASE r = W - 1
    <2>1. a + 1 = W * (q + 1) + 0 /\ r + 1 = W * 1 + 0 /\ 0 \in 0 .. W - 1 /\ q + 1 \in Int
      BY <1>1, <1>3
    <2>2. (a + 1) % W = 0
      BY <1>1, <2>1, RemainderIs
    <2>3. (r + 1) % W = 0
      BY <1>1, <2>1, RemainderIs
    <2> QED BY <2>2, <2>3, <1>1 DEF r
  <1> QED BY <1>1, <1>2, <1>3

LEMMA ZeroRemainder == 0 % Width = 0
  <1>1. 0 \in 0 .. Width - 1 /\ 0 = Width * 0 + 0 /\ Width \in Nat \ {0}
    BY WidthAssumption
  <1> QED BY <1>1, RemainderIs

LEMMA NothingAccepted == <<>> \in Accepted
  BY EmptySeq DEF Accepted

LEMMA NoRecords == \A f : HasRecords(<<>>, f, 0)
  <1>1. Len(<<>>) = 0 /\ 1 .. 0 = {}
    BY EmptySeq
  <1> QED BY <1>1 DEF HasRecords

LEMMA SkipLine ==
  ASSUME NEW q, NEW f, NEW n \in Nat, HasRecords(q, f, n), f.lines[n + 1] # "record"
  PROVE  HasRecords(q, f, n + 1)
  <1>1. 1 .. n + 1 = (1 .. n) \cup {n + 1}
    OBVIOUS
  <1> QED BY <1>1 DEF HasRecords

LEMMA TakeLine ==
  ASSUME NEW f \in Files, NEW q \in Accepted, NEW n \in Nat, HasRecords(q, f, n),
         f.lines[n + 1] = "record"
  PROVE  /\ Append(q, [file |-> f, line |-> n + 1]) \in Accepted
         /\ Len(Append(q, [file |-> f, line |-> n + 1])) = Len(q) + 1
         /\ HasRecords(Append(q, [file |-> f, line |-> n + 1]), f, n + 1)
  <1> DEFINE x == [file |-> f, line |-> n + 1]
             p == Append(q, x)
  <1>1. x \in [file : Files, line : Nat] /\ x.file = f /\ x.line = n + 1
    OBVIOUS
  <1> HIDE DEF x
  <1>2. /\ p \in Accepted /\ Len(q) \in Nat /\ Len(p) = Len(q) + 1
        /\ p[Len(q) + 1] = x /\ \A i \in 1 .. Len(q) : p[i] = q[i]
    BY <1>1, AppendProperties DEF Accepted
  <1> HIDE DEF p
  <1>3. \A i \in 1 .. Len(q) : q[i].line \in 1 .. n
    BY DEF HasRecords
  <1>4. ASSUME NEW i \in 1 .. Len(p)
        PROVE  p[i].file = f /\ p[i].line \in 1 .. n + 1 /\ f.lines[p[i].line] = "record"
    <2>1. CASE i = Len(q) + 1
      BY <1>1, <1>2, <2>1
    <2>2. CASE i # Len(q) + 1
      <3>1. i \in 1 .. Len(q) /\ p[i] = q[i]
        BY <1>2, <2>2
      <3> QED BY <1>3, <3>1 DEF HasRecords
    <2> QED BY <2>1, <2>2
  <1>5. ASSUME NEW i \in 1 .. Len(p), NEW j \in 1 .. Len(p), i < j
        PROVE  p[i].line < p[j].line
    <2>1. i \in 1 .. Len(q) /\ p[i] = q[i] /\ q[i].line \in 1 .. n
      BY <1>2, <1>3, <1>5
    <2>2. CASE j = Len(q) + 1
      BY <1>1, <1>2, <2>1, <2>2
    <2>3. CASE j # Len(q) + 1
      <3>1. j \in 1 .. Len(q) /\ p[j] = q[j]
        BY <1>2, <2>3
      <3> QED BY <1>5, <2>1, <3>1 DEF HasRecords
    <2> QED BY <2>2, <2>3
  <1>6. ASSUME NEW m \in 1 .. n + 1, f.lines[m] = "record"
        PROVE  \E i \in 1 .. Len(p) : p[i].line = m
    <2>1. CASE m = n + 1
      <3>1. Len(q) + 1 \in 1 .. Len(p) /\ p[Len(q) + 1].line = m
        BY <1>1, <1>2, <2>1
      <3> QED BY <3>1
    <2>2. CASE m # n + 1
      <3>1. PICK i \in 1 .. Len(q) : q[i].line = m
        BY <1>6, <2>2 DEF HasRecords
      <3>2. i \in 1 .. Len(p) /\ p[i].line = m
        BY <1>2, <3>1
      <3> QED BY <3>2
    <2> QED BY <2>1, <2>2
  <1>7. HasRecords(p, f, n + 1)
    BY <1>4, <1>5, <1>6 DEF HasRecords
  <1> QED BY <1>2, <1>7 DEF p, x

\* The lines of a file and how many of them count.
LEMMA FileFacts ==
  ASSUME NEW f \in Files
  PROVE  /\ Len(f.lines) \in Nat /\ Whole(f) \in Nat
         /\ \A n \in Nat : n <= Whole(f) =>
              IF n < Len(f.lines) /\ (n + 1 = Len(f.lines) => f.ended)
                THEN n + 1 <= Whole(f) ELSE n = Whole(f)
  <1>1. f.lines \in Seq({"record", "empty"}) /\ f.ended \in BOOLEAN /\ (f.lines = <<>> => f.ended)
    BY FileAssumption
  <1>2. Len(f.lines) \in Nat /\ (Len(f.lines) = 0 => f.lines = <<>>)
    BY <1>1
  <1>3. CASE f.ended
    BY <1>2, <1>3 DEF Whole
  <1>4. CASE ~f.ended
    BY <1>1, <1>2, <1>4 DEF Whole
  <1> QED BY <1>1, <1>3, <1>4

-----------------------------------------------------------------------------
(* The steps *)

\* BurnsTheFile only looks at burnt.
LEMMA BurntFrame ==
  ASSUME BurnsTheFile, UNCHANGED burnt
  PROVE  BurnsTheFile'
  <1> DEFINE Good(x) ==
        \A d \in Devices : \A i \in 1 .. Len(x[d]) :
          /\ HasRecords(x[d][i].loaded, x[d][i].file, Whole(x[d][i].file))
          /\ x[d][i].count = Len(x[d][i].loaded) % Width /\ ~x[d][i].wrong
  <1>1. BurnsTheFile <=> Good(burnt)
    BY Zenon DEF BurnsTheFile
  <1>2. BurnsTheFile' <=> Good(burnt')
    BY Zenon DEF BurnsTheFile
  <1> HIDE DEF Good
  <1> QED BY <1>1, <1>2

\* Steps in which the upgrade stands still, and tb only changes outside of it.
LEMMA UpgradeFrame ==
  ASSUME UpgradeInv, UNCHANGED <<transfer, flash>>, step = "no" \/ UNCHANGED tb
  PROVE  UpgradeInv'
  <1>1. UpgradeTypes'
    BY DEF UpgradeInv, UpgradeTypes, transfer, flash
  <1>2. Progress'
    <2>1. CASE step = "no"
      BY <2>1 DEF Progress, transfer
    <2>2. CASE UNCHANGED tb
      <3>1. /\ step' = step /\ file' = file /\ pos' = pos /\ recordCount' = recordCount
            /\ loading' = loading /\ loaded' = loaded /\ wrong' = wrong /\ tb' = tb
        BY <2>2 DEF transfer, flash
      <3>2. Progress
        BY DEF UpgradeInv
      <3> QED BY <3>1, <3>2, Zenon DEF Progress
    <2> QED BY <2>1, <2>2
  <1>3. BurnsTheFile'
    BY BurntFrame DEF UpgradeInv, flash
  <1> QED BY <1>1, <1>2, <1>3 DEF UpgradeInv

\* A command that is given up leaves the DTB in any state, but burns nothing.
LEMMA UpgradeLeaves ==
  ASSUME UpgradeInv, Leave, UNCHANGED burnt,
         loading' \in [Devices -> BOOLEAN], loaded' \in [Devices -> Accepted],
         wrong' \in [Devices -> BOOLEAN]
  PROVE  UpgradeInv'
  <1>1. UpgradeTypes'
    BY DEF UpgradeInv, UpgradeTypes, Leave
  <1>2. Progress'
    BY DEF Progress, Leave
  <1>3. BurnsTheFile'
    BY BurntFrame DEF UpgradeInv
  <1> QED BY <1>1, <1>2, <1>3 DEF UpgradeInv

\* A step of the transfer that burns nothing: the types and Progress are left to show.
LEMMA UpgradeGoesOn ==
  ASSUME UpgradeInv, UpgradeTypes', Progress', UNCHANGED burnt
  PROVE  UpgradeInv'
  BY BurntFrame DEF UpgradeInv

\* While an upgrade runs, tb is one of the devices.
LEMMA DeviceFacts ==
  ASSUME TypeInv, UpgradeInv, step \in {"start", "line", "data", "error", "exec"}
  PROVE  tb.dev \in Devices /\ file \in Files
  BY DEF TypeInv, UpgradeInv, UpgradeTypes

LEMMA StartFacts ==
  ASSUME UpgradeInv, NEW d \in Devices, NEW r \in {0, 1}, DtbStart(d, r)
  PROVE  /\ loading' \in [Devices -> BOOLEAN] /\ loaded' \in [Devices -> Accepted]
         /\ wrong' \in [Devices -> BOOLEAN] /\ UNCHANGED burnt
         /\ loaded'[d] = <<>>
  BY NothingAccepted DEF DtbStart, UpgradeInv, UpgradeTypes

LEMMA DataFacts ==
  ASSUME UpgradeInv, step = "data", NEW d \in Devices, NEW r \in {0, 1}, DtbData(d, r)
  PROVE  /\ loading' \in [Devices -> BOOLEAN] /\ loaded' \in [Devices -> Accepted]
         /\ wrong' \in [Devices -> BOOLEAN] /\ UNCHANGED <<burnt, loading>>
         /\ r = 0 => loaded'[d] = Append(loaded[d], [file |-> file, line |-> pos])
  <1> DEFINE x == [file |-> file, line |-> pos]
  <1>1. x \in [file : Files, line : Nat] /\ loaded[d] \in Accepted
    BY DEF UpgradeInv, UpgradeTypes
  <1> HIDE DEF x
  <1>2. Append(loaded[d], x) \in Accepted
    BY <1>1, AppendProperties DEF Accepted
  <1>3. loaded' = IF r = 0 THEN [loaded EXCEPT ![d] = Append(@, x)] ELSE loaded
    BY DEF DtbData, x
  <1>4. loaded' \in [Devices -> Accepted] /\ (r = 0 => loaded'[d] = Append(loaded[d], x))
    BY <1>2, <1>3 DEF UpgradeInv, UpgradeTypes
  <1>5. UNCHANGED <<burnt, loading>>
    BY DEF DtbData
  <1>6. PICK w \in BOOLEAN : wrong' = [wrong EXCEPT ![d] = @ \/ w]
    BY DEF DtbData
  <1>7. wrong' \in [Devices -> BOOLEAN]
    BY <1>6, Zenon DEF UpgradeInv, UpgradeTypes
  <1> QED BY <1>4, <1>5, <1>7 DEF UpgradeInv, UpgradeTypes, x

LEMMA VersionKeeps ==
  ASSUME TypeInv, UpgradeInv, Version
  PROVE  UpgradeInv'
  <1>1. UNCHANGED <<tb, flash>> /\ tb.open /\ step = "version"
    BY DEF Version
  <1>2. CASE Leave
    BY <1>1, <1>2, UpgradeLeaves DEF UpgradeInv, UpgradeTypes, flash
  <1>3. CASE \E f \in Files : step' = "start" /\ file' = f /\ UNCHANGED <<pos, recordCount>>
    <2>1. UpgradeTypes' /\ Progress'
      BY <1>1, <1>3 DEF UpgradeInv, UpgradeTypes, Progress, flash
    <2> QED BY <1>1, <2>1, UpgradeGoesOn DEF flash
  <1> QED BY <1>2, <1>3 DEF Version

LEMMA UpgradeStartKeeps ==
  ASSUME TypeInv, UpgradeInv, UpgradeStart
  PROVE  UpgradeInv'
  <1>1. step = "start" /\ tb.dev \in Devices /\ file \in Files /\ UNCHANGED tb
    BY DeviceFacts DEF UpgradeStart
  <1>2. PICK r \in {0, 1} : /\ DtbStart(tb.dev, r)
                            /\ IF r = 0 THEN step' = "line" /\ UNCHANGED <<file, pos, recordCount>>
                                        ELSE Leave
    BY DEF UpgradeStart
  <1>3. CASE r = 0
    <2>1. pos = 0 /\ recordCount = 0 /\ tb.open /\ pos' = 0 /\ recordCount' = 0
          /\ step' = "line" /\ file' = file
      BY <1>1, <1>2, <1>3 DEF UpgradeInv, UpgradeTypes
    <2>2. UpgradeTypes'
      BY <1>1, <1>2, <2>1, StartFacts DEF UpgradeInv, UpgradeTypes
    <2>3. /\ Whole(file) \in Nat /\ HasRecords(loaded'[tb.dev], file, 0)
          /\ Len(loaded'[tb.dev]) = 0
      BY <1>1, <1>2, FileFacts, NoRecords, StartFacts, EmptySeq
    <2>4. Progress'
      BY <1>1, <2>1, <2>3, ZeroRemainder DEF Progress, HasRecords, Whole
    <2> QED BY <1>1, <1>2, <2>2, <2>4, StartFacts, UpgradeGoesOn
  <1>4. CASE r = 1
    BY <1>1, <1>2, <1>4, StartFacts, UpgradeLeaves
  <1> QED BY <1>3, <1>4

LEMMA LineKeeps ==
  ASSUME TypeInv, UpgradeInv, Line
  PROVE  UpgradeInv'
  <1>1. step = "line" /\ tb.dev \in Devices /\ file \in Files /\ UNCHANGED <<tb, flash, file>>
    BY DeviceFacts DEF Line
  <1>2. /\ tb.open /\ pos \in Nat /\ recordCount \in Nat /\ loaded[tb.dev] \in Accepted
        /\ Len(loaded[tb.dev]) \in Nat
    <2>1. tb.open /\ pos \in Nat /\ recordCount \in Nat /\ loaded[tb.dev] \in Accepted
      BY <1>1 DEF UpgradeInv, UpgradeTypes
    <2>2. \A q \in Accepted : Len(q) \in Nat
      BY DEF Accepted
    <2> QED BY <2>1, <2>2
  <1>3. HasRecords(loaded[tb.dev], file, pos) /\ file.lines[pos + 1] # "record"
          => HasRecords(loaded[tb.dev], file, pos + 1)
    BY <1>2, SkipLine
  <1>4. (Len(loaded[tb.dev]) + 1) % Width = ((Len(loaded[tb.dev]) % Width) + 1) % Width
        /\ Len(loaded[tb.dev]) % Width \in Nat
    BY <1>2, WidthAssumption, NextRemainder
  <1>5. file.lines[pos + 1] \in {"record", "empty"} \/ ~HasLine
    <2>1. file.lines \in Seq({"record", "empty"})
      BY <1>1, FileAssumption
    <2> QED BY <1>2, <2>1 DEF HasLine
  <1>6. loading[tb.dev] => pos <= Whole(file) /\ HasRecords(loaded[tb.dev], file, pos)
                           /\ recordCount = Len(loaded[tb.dev]) % Width
    BY <1>1, <1>2 DEF UpgradeInv, Progress
  <1>7. pos <= Whole(file) => IF HasLine THEN pos + 1 <= Whole(file) ELSE pos = Whole(file)
    BY <1>1, <1>2, FileFacts DEF HasLine
  <1>8. CASE HasLine /\ file.lines[pos + 1] = "empty"
    <2>1. step' = "line" /\ pos' = pos + 1 /\ recordCount' = recordCount
      BY <1>1, <1>8 DEF Line
    <2>2. UpgradeTypes'
      BY <1>1, <1>2, <2>1 DEF UpgradeInv, UpgradeTypes, flash
    <2>3. Progress'
      BY <1>1, <1>2, <1>3, <1>6, <1>7, <1>8, <2>1 DEF Progress, flash, HasRecords, Whole
    <2> QED BY <1>1, <2>2, <2>3, UpgradeGoesOn DEF flash
  <1>9. CASE HasLine /\ file.lines[pos + 1] # "empty"
    <2>1. step' = "data" /\ pos' = pos + 1 /\ recordCount' = (recordCount + 1) % Width
      BY <1>1, <1>9 DEF Line
    <2>2. recordCount' \in Nat
      BY <1>2, <2>1, WidthAssumption, NextRemainder
    <2>3. UpgradeTypes'
      BY <1>1, <1>2, <2>1, <2>2 DEF UpgradeInv, UpgradeTypes, flash
    <2>4. loading[tb.dev] => /\ recordCount' = (Len(loaded[tb.dev]) + 1) % Width
                             /\ pos' <= Whole(file) /\ pos' >= 1 /\ file.lines[pos'] = "record"
                             /\ pos' - 1 = pos
      BY <1>2, <1>4, <1>5, <1>6, <1>7, <1>9, <2>1
    <2>5. Progress'
      BY <1>1, <1>6, <2>1, <2>4 DEF Progress, flash, HasRecords, Whole
    <2> QED BY <1>1, <2>3, <2>5, UpgradeGoesOn DEF flash
  <1>10. CASE ~HasLine
    <2>1. step' = "error" /\ pos' = pos /\ recordCount' = recordCount
      BY <1>1, <1>10 DEF Line
    <2>2. UpgradeTypes'
      BY <1>1, <1>2, <2>1 DEF UpgradeInv, UpgradeTypes, flash
    <2>3. Progress'
      BY <1>1, <1>2, <1>6, <1>7, <1>10, <2>1 DEF Progress, flash, HasRecords, Whole
    <2> QED BY <1>1, <2>2, <2>3, UpgradeGoesOn DEF flash
  <1> QED BY <1>8, <1>9, <1>10

LEMMA UpgradeDataKeeps ==
  ASSUME TypeInv, UpgradeInv, UpgradeData
  PROVE  UpgradeInv'
  <1>1. step = "data" /\ tb.dev \in Devices /\ file \in Files /\ UNCHANGED tb
    BY DeviceFacts DEF UpgradeData
  <1>2. PICK r \in {0, 1} : /\ DtbData(tb.dev, r)
                            /\ IF r = 0 THEN step' = "line" /\ UNCHANGED <<file, pos, recordCount>>
                                        ELSE Leave
    BY DEF UpgradeData
  <1>3. CASE r = 0
    <2>1. /\ tb.open /\ step' = "line" /\ UNCHANGED <<file, pos, recordCount>>
          /\ loaded[tb.dev] \in Accepted /\ pos \in Nat
      BY <1>1, <1>2, <1>3 DEF UpgradeInv, UpgradeTypes
    <2>2. UpgradeTypes'
      BY <1>1, <1>2, <2>1, DataFacts DEF UpgradeInv, UpgradeTypes
    <2>3. /\ loaded'[tb.dev] = Append(loaded[tb.dev], [file |-> file, line |-> pos])
          /\ loading' = loading
      BY <1>1, <1>2, <1>3, DataFacts
    <2>4. ASSUME loading[tb.dev]
          PROVE  /\ pos <= Whole(file) /\ HasRecords(loaded'[tb.dev], file, pos)
                 /\ recordCount = Len(loaded'[tb.dev]) % Width
      <3>1. /\ pos <= Whole(file) /\ pos >= 1 /\ file.lines[pos] = "record"
            /\ HasRecords(loaded[tb.dev], file, pos - 1)
            /\ recordCount = (Len(loaded[tb.dev]) + 1) % Width
        BY <1>1, <2>4 DEF UpgradeInv, Progress
      <3>2. pos - 1 \in Nat /\ (pos - 1) + 1 = pos
        BY <2>1, <3>1
      <3>3. /\ Len(Append(loaded[tb.dev], [file |-> file, line |-> pos])) = Len(loaded[tb.dev]) + 1
            /\ HasRecords(Append(loaded[tb.dev], [file |-> file, line |-> pos]), file, pos)
        <4>1. file.lines[(pos - 1) + 1] = "record"
          BY <3>1, <3>2
        <4> QED BY <1>1, <2>1, <3>1, <3>2, <4>1, TakeLine
      <3> QED BY <2>3, <3>1, <3>3
    <2>5. Progress'
      BY <1>1, <2>1, <2>3, <2>4 DEF Progress, HasRecords, Whole
    <2> QED BY <1>1, <1>2, <2>2, <2>5, DataFacts, UpgradeGoesOn
  <1>4. CASE r = 1
    BY <1>1, <1>2, <1>4, DataFacts, UpgradeLeaves
  <1> QED BY <1>3, <1>4

LEMMA UpgradeErrorKeeps ==
  ASSUME TypeInv, UpgradeInv, UpgradeError
  PROVE  UpgradeInv'
  <1>1. step = "error" /\ tb.dev \in Devices /\ UNCHANGED <<tb, flash>>
    BY DeviceFacts DEF UpgradeError
  <1>2. CASE wrong[tb.dev]
    BY <1>1, <1>2, UpgradeLeaves DEF UpgradeError, UpgradeInv, UpgradeTypes, flash
  <1>3. CASE ~wrong[tb.dev]
    <2>1. step' = "exec" /\ UNCHANGED <<file, pos, recordCount>>
      BY <1>1, <1>3 DEF UpgradeError
    <2>2. UpgradeTypes'
      BY <1>1, <2>1 DEF UpgradeInv, UpgradeTypes, flash
    <2>3. Progress'
      BY <1>1, <1>3, <2>1 DEF UpgradeInv, Progress, flash, HasRecords, Whole
    <2> QED BY <1>1, <2>2, <2>3, UpgradeGoesOn DEF flash
  <1> QED BY <1>2, <1>3

\* Burning: Progress is what BurnsTheFile asks of the new record.
LEMMA UpgradeExecKeeps ==
  ASSUME TypeInv, UpgradeInv, UpgradeExec
  PROVE  UpgradeInv'
  <1> DEFINE b == [count |-> recordCount, file |-> file, loaded |-> loaded[tb.dev],
                   wrong |-> wrong[tb.dev]]
  <1>1. step = "exec" /\ tb.dev \in Devices /\ file \in Files /\ Leave /\ DtbExec(tb.dev)
    BY DeviceFacts DEF UpgradeExec
  <1>2. loading' = [loading EXCEPT ![tb.dev] = FALSE] /\ UNCHANGED <<loaded, wrong>>
    BY <1>1 DEF DtbExec
  <1>3. loading' \in [Devices -> BOOLEAN] /\ loaded' \in [Devices -> Accepted] /\ wrong' \in [Devices -> BOOLEAN]
    BY <1>2 DEF UpgradeInv, UpgradeTypes
  <1>4. CASE ~loading[tb.dev]
    <2>1. UNCHANGED burnt
      BY <1>1, <1>4 DEF DtbExec
    <2> QED BY <1>1, <1>3, <2>1, UpgradeLeaves
  <1>5. CASE loading[tb.dev]
    <2>1. burnt' = [burnt EXCEPT ![tb.dev] = <<b>>]
      BY <1>1, <1>5 DEF DtbExec
    <2>2. /\ HasRecords(loaded[tb.dev], file, Whole(file)) /\ ~wrong[tb.dev]
          /\ recordCount = Len(loaded[tb.dev]) % Width
      BY <1>1, <1>5 DEF UpgradeInv, Progress
    <2>3. recordCount \in Nat /\ loaded[tb.dev] \in Accepted /\ wrong[tb.dev] \in BOOLEAN
      BY <1>1 DEF UpgradeInv, UpgradeTypes
    <2>4. b \in Burn
      BY <1>1, <2>3 DEF Burn
    <2>5. /\ HasRecords(b.loaded, b.file, Whole(b.file))
          /\ b.count = Len(b.loaded) % Width /\ ~b.wrong
      BY <2>2, <2>3
    <2> HIDE DEF b
    <2>6. burnt' \in [Devices -> {<<>>} \cup {<<c>> : c \in Burn}]
      BY <2>1, <2>4 DEF UpgradeInv, UpgradeTypes
    <2>7. UpgradeTypes'
      BY <1>1, <1>3, <2>6 DEF UpgradeTypes, Leave
    <2>8. Progress'
      BY <1>1 DEF Progress, Leave
    <2>9. ASSUME NEW d \in Devices, NEW i \in 1 .. Len(burnt'[d])
          PROVE  /\ HasRecords(burnt'[d][i].loaded, burnt'[d][i].file, Whole(burnt'[d][i].file))
                 /\ burnt'[d][i].count = Len(burnt'[d][i].loaded) % Width /\ ~burnt'[d][i].wrong
      <3>1. CASE d = tb.dev
        <4>1. burnt'[d] = <<b>>
          BY <1>1, <2>1, <3>1 DEF UpgradeInv, UpgradeTypes
        <4>2. burnt'[d][i] = b
          BY <2>9, <4>1
        <4> QED BY <2>5, <4>2
      <3>2. CASE d # tb.dev
        <4>1. burnt'[d] = burnt[d]
          BY <1>1, <2>1, <3>2 DEF UpgradeInv, UpgradeTypes
        <4> QED BY <2>9, <4>1 DEF UpgradeInv, BurnsTheFile
      <3> QED BY <3>1, <3>2
    <2>10. BurnsTheFile'
      BY <2>9, Zenon DEF BurnsTheFile
    <2> QED BY <2>7, <2>8, <2>10 DEF UpgradeInv
  <1> QED BY <1>4, <1>5

\* An error, before or after the DTB has done what it was told.
LEMMA UpgradeThrowsKeeps ==
  ASSUME TypeInv, UpgradeInv, UpgradeThrows
  PROVE  UpgradeInv'
  <1>1. CASE UNCHANGED flash /\ Leave
    BY <1>1, UpgradeLeaves DEF UpgradeInv, UpgradeTypes, flash
  <1>2. CASE step = "start" /\ (\E r \in {0, 1} : DtbStart(tb.dev, r)) /\ Leave
    BY <1>2, DeviceFacts, StartFacts, UpgradeLeaves
  <1>3. CASE step = "data" /\ (\E r \in {0, 1} : DtbData(tb.dev, r)) /\ Leave
    BY <1>3, DeviceFacts, DataFacts, UpgradeLeaves
  <1> QED BY <1>1, <1>2, <1>3 DEF UpgradeThrows, Throws

LEMMA UpdateKeeps ==
  ASSUME TypeInv, UpgradeInv, UpdateDTB
  PROVE  UpgradeInv'
  <1>1. CASE BadLine
    BY <1>1, UpgradeLeaves DEF BadLine, UpgradeInv, UpgradeTypes, flash
  <1> QED
    BY <1>1, VersionKeeps, UpgradeStartKeeps, LineKeeps, UpgradeDataKeeps, UpgradeErrorKeeps,
       UpgradeExecKeeps, UpgradeThrowsKeeps DEF UpdateDTB

\* A DTB that is switched off forgets the transfer.
LEMMA PowerKeeps ==
  ASSUME TypeInv, UpgradeInv, NEW d \in Devices, PowerCycle(d)
  PROVE  UpgradeInv'
  <1>1. UNCHANGED <<tb, step, file, pos, recordCount, burnt>>
    BY DEF PowerCycle, transfer
  <1>2. /\ loading' = [loading EXCEPT ![d] = FALSE] /\ loaded' = [loaded EXCEPT ![d] = <<>>]
        /\ wrong' = [wrong EXCEPT ![d] = FALSE]
    BY DEF PowerCycle
  <1>3. UpgradeTypes'
    BY <1>1, <1>2, NothingAccepted DEF UpgradeInv, UpgradeTypes
  <1>4. CASE step \in {"line", "data", "error", "exec"} /\ loading'[tb.dev]
    <2>1. tb.dev \in Devices
      BY <1>4, DeviceFacts
    <2>2. tb.dev # d
      BY <1>2, <1>4 DEF UpgradeInv, UpgradeTypes
    <2>3. loading'[tb.dev] = loading[tb.dev] /\ loaded'[tb.dev] = loaded[tb.dev]
          /\ wrong'[tb.dev] = wrong[tb.dev]
      BY <1>2, <2>1, <2>2 DEF UpgradeInv, UpgradeTypes
    <2>4. Progress'
      BY <1>1, <1>4, <2>3 DEF UpgradeInv, Progress, HasRecords, Whole
    <2> QED BY <1>1, <1>3, <2>4, UpgradeGoesOn
  <1>5. CASE ~(step \in {"line", "data", "error", "exec"} /\ loading'[tb.dev])
    <2>1. Progress'
      BY <1>1, <1>5 DEF Progress
    <2> QED BY <1>1, <1>3, <2>1, UpgradeGoesOn
  <1> QED BY <1>4, <1>5

LEMMA StepUpgrade ==
  ASSUME TypeInv, UpgradeInv, [Next]_vars
  PROVE  UpgradeInv'
  <1>1. CASE UNCHANGED vars
    BY <1>1, UpgradeFrame DEF vars
  <1>2. CASE Kill \/ StartAgain
    <2>1. Leave /\ UNCHANGED flash
      BY <1>2 DEF Kill, StartAgain, Restart
    <2> QED BY <2>1, UpgradeLeaves DEF UpgradeInv, UpgradeTypes, flash
  <1>3. ASSUME NEW d \in Devices, Plug(d) \/ TakenByOthers(d) PROVE UpgradeInv'
    BY <1>3, UpgradeFrame DEF Plug, TakenByOthers
  <1>4. ASSUME NEW d \in Devices, SwitchedOff(d) PROVE UpgradeInv'
    BY <1>4, PowerKeeps DEF SwitchedOff
  <1>5. CASE List
    <2>1. pc # "prompt"
      BY <1>5 DEF List, EnumFirst, EnumNext, EnumNextFails, EnumDone, ProbeOpen, GetBoardId,
                  NotIdentifiable, ProbeDone, Choose
    <2>2. UNCHANGED <<transfer, flash>>
      BY <1>5 DEF List, EnumFirst, EnumNext, EnumNextFails, EnumDone, ProbeOpen, GetBoardId,
                  NotIdentifiable, ProbeDone, Choose
    <2> QED BY <2>1, <2>2, UpgradeFrame DEF TypeInv
  <1>6. CASE Open \/ InitDtb \/ GetInfo \/ GetInfoThrows
    <2>1. pc # "prompt" /\ UNCHANGED <<transfer, flash>>
      BY <1>6 DEF Open, InitDtb, GetInfo, GetInfoThrows
    <2> QED BY <2>1, UpgradeFrame DEF TypeInv
  <1>7. CASE OpenCommand \/ CloseCommand \/ ScanCommand \/ ExitCommand
    <2>1. step = "no" /\ UNCHANGED <<transfer, flash>>
      BY <1>7 DEF OpenCommand, CloseCommand, ScanCommand, ExitCommand, Command
    <2> QED BY <2>1, UpgradeFrame
  <1>8. CASE UpgradeCommand
    <2>1. step = "no" /\ step' = "version" /\ UNCHANGED <<tb, file, pos, recordCount, flash>>
      BY <1>8 DEF UpgradeCommand, Command
    <2>2. UpgradeTypes' /\ Progress'
      BY <2>1 DEF UpgradeInv, UpgradeTypes, Progress, flash
    <2> QED BY <2>1, <2>2, UpgradeGoesOn DEF flash
  <1>9. CASE UpdateDTB
    BY <1>9, UpdateKeeps
  <1> QED
    BY <1>1, <1>2, <1>3, <1>4, <1>5, <1>6, <1>7, <1>8, <1>9 DEF Next, World, Commands

\* Whatever was given up, thrown or switched off before: a DTB only burns a whole file, each
\* record of which it has accepted in this transfer without an error.
THEOREM BurnCorrect == Spec => []BurnsTheFile
  <1>1. Init => TypeInv /\ UpgradeInv
    <2> SUFFICES ASSUME Init PROVE UpgradeInv
      BY InitTypes
    <2>1. UpgradeTypes /\ Progress /\ BurnsTheFile
      BY NothingAccepted, EmptySeq DEF Init, UpgradeInit, UpgradeTypes, Progress, BurnsTheFile
    <2> QED BY <2>1 DEF UpgradeInv
  <1>2. TypeInv /\ UpgradeInv /\ [Next]_vars => (TypeInv /\ UpgradeInv)'
    BY StepTypes, StepUpgrade
  <1>3. UpgradeInv => BurnsTheFile
    BY DEF UpgradeInv
  <1> QED BY <1>1, <1>2, <1>3, PTL DEF Spec
=============================================================================
