------------------------------ MODULE Session -------------------------------
(***************************************************************************)
(* A run of psi46test as far as the connection to the DTB goes: main       *)
(* (psi46test.cpp), FindDTB, Open and Close (pixel_dtb.cpp), and the       *)
(* commands scan, open, close, upgrade and exit (cmd.cpp).                 *)
(*                                                                         *)
(* Devices come and go, and other programs may hold them.  An Open can     *)
(* fail after FT_OpenEx has succeeded: then the driver holds the device    *)
(* for this program, which does not know it.                               *)
(***************************************************************************)
EXTENDS Upgrade, SequencesExt, FiniteSets, Functions

CONSTANTS
  DTBs,         \* the devices whose name begins with DTB_
  MaxCommands,  \* bound: commands
  MaxEvents     \* bound: plugs pulled, devices taken by others, DTBs switched off, kills

ASSUME DtbAssumption   == DTBs \subseteq Devices
ASSUME LimitAssumption == MaxCommands \in Nat /\ MaxEvents \in Nat

VARIABLES
  bus,      \* external: the devices in the order of FT_ListDevices
  holder,   \* external: who has opened each device: "free", "us" or "other"
  probe,    \* the connection of scan's own CTestboard
  pc,       \* where main or the command stands
  caller,   \* who makes a list of devices: "main", "open" or "scan"
  enumCount, enumPos,  \* of CUSB
  nDev, nr, devList, usbId, \* locals of FindDTB, scan and their callers
  identified, \* history: the DTB has answered since tb was opened
  byMain,     \* history: tb was opened by main
  halfOpen,   \* history: devices whose Open failed after FT_OpenEx
  commands, events

usb   == <<bus, holder>>
enum  == <<enumCount, enumPos, nDev, nr, devList, usbId>>
marks == <<identified, byMain, halfOpen>>
count == <<commands, events>>
vars  == <<tb, transfer, flash, usb, probe, pc, caller, enum, marks, count>>

Closed == [open |-> FALSE, dev |-> NoDevice]

Begin ==
  /\ tb = Closed /\ probe = Closed /\ pc = "EnumFirst" /\ caller = "main"
  /\ enumCount = 0 /\ enumPos = 0 /\ nDev = 0 /\ nr = 0 /\ devList = <<>> /\ usbId = NoDevice
  /\ identified = FALSE /\ byMain = FALSE /\ halfOpen = {}

Init ==
  /\ UpgradeInit /\ Begin
  /\ bus \in {b \in UNION {[1 .. n -> Devices] : n \in 0 .. Cardinality(Devices)} : IsInjective(b)}
  /\ holder \in [Devices -> {"free", "other"}]
  /\ commands = 0 /\ events = 0

-----------------------------------------------------------------------------
(* The world *)

Happens == events < MaxEvents /\ events' = events + 1 /\ UNCHANGED commands

Plug(d) ==
  /\ Happens
  /\ \/ ~Contains(bus, d) /\ bus' = Append(bus, d)
     \/ \E i \in 1 .. Len(bus) : bus[i] = d /\ bus' = RemoveAt(bus, i)
  /\ UNCHANGED <<tb, transfer, flash, holder, probe, pc, caller, enum, marks>>

TakenByOthers(d) ==
  /\ Happens
  /\ holder[d] # "us" /\ holder' = [holder EXCEPT ![d] = IF @ = "free" THEN "other" ELSE "free"]
  /\ UNCHANGED <<tb, transfer, flash, bus, probe, pc, caller, enum, marks>>

SwitchedOff(d) ==
  /\ Happens /\ PowerCycle(d)
  /\ UNCHANGED <<usb, probe, pc, caller, enum, marks>>

\* The program ends, on its own or killed; the system closes what it had open, and it is
\* started again.
Restart ==
  /\ Leave
  /\ holder' = [d \in Devices |-> IF holder[d] = "us" THEN "free" ELSE holder[d]]
  /\ tb' = Closed /\ probe' = Closed /\ pc' = "EnumFirst" /\ caller' = "main"
  /\ enumCount' = 0 /\ enumPos' = 0 /\ nDev' = 0 /\ nr' = 0 /\ devList' = <<>> /\ usbId' = NoDevice
  /\ identified' = FALSE /\ byMain' = FALSE /\ halfOpen' = {}
  /\ UNCHANGED <<flash, bus>>

Kill == Happens /\ Restart

-----------------------------------------------------------------------------
(* CUSB::Open and Close of a connection c *)

Opens(c, d) ==
  /\ ~c.open /\ holder[d] = "free" /\ Contains(bus, d)
  /\ holder' = [holder EXCEPT ![d] = "us"]

\* It is open already, or FT_OpenEx fails, or the device refuses to be configured.
OpenFails(c, d) ==
  \/ UNCHANGED <<holder, halfOpen>>
  \/ Opens(c, d) /\ halfOpen' = halfOpen \cup {d}

Closes(c) == holder' = IF c.open THEN [holder EXCEPT ![c.dev] = "free"] ELSE holder

-----------------------------------------------------------------------------
(* The list of devices: FindDTB on tb, scan on its own object *)

EnumFirst ==
  /\ pc = "EnumFirst"
  /\ \/ pc' = "prompt" /\ enumCount' = 0 /\ UNCHANGED <<nDev, nr, devList>>
     \/ pc' = "EnumNext" /\ enumCount' = Len(bus) /\ nDev' = Len(bus) /\ nr' = 0 /\ devList' = <<>>
  /\ enumPos' = 0
  /\ UNCHANGED <<tb, transfer, flash, usb, probe, caller, usbId, marks, count>>

EnumNext ==
  /\ pc = "EnumNext" /\ nr < nDev /\ enumPos < enumCount /\ enumPos < Len(bus)
  /\ LET name == bus[enumPos + 1]
     IN  devList' = IF name \in DTBs THEN Append(devList, name) ELSE devList
  /\ enumPos' = enumPos + 1 /\ nr' = nr + 1
  /\ UNCHANGED <<tb, transfer, flash, usb, probe, pc, caller, enumCount, nDev, usbId, marks, count>>

\* A name that cannot be read ends CUSB's list: scan gives up, FindDTB goes on with the
\* names it has.
EnumNextFails ==
  /\ pc = "EnumNext" /\ nr < nDev
  /\ enumCount' = 0 /\ enumPos' = 0
  /\ IF caller = "scan" THEN pc' = "prompt" /\ UNCHANGED nr ELSE nr' = nr + 1 /\ UNCHANGED pc
  /\ UNCHANGED <<tb, transfer, flash, usb, probe, caller, nDev, devList, usbId, marks, count>>

EnumDone ==
  /\ pc = "EnumNext" /\ nr = nDev
  /\ CASE devList = <<>> -> pc' = "prompt" /\ UNCHANGED <<nr, usbId>>
       [] Len(devList) = 1 /\ caller # "scan" -> pc' = "Open" /\ usbId' = devList[1] /\ UNCHANGED nr
       [] OTHER -> pc' = "probe" /\ nr' = 0 /\ UNCHANGED usbId
  /\ UNCHANGED <<tb, transfer, flash, usb, probe, caller, enumCount, enumPos, nDev, devList, marks, count>>

\* The object that looks at the devices of the list.
Looker == IF caller = "scan" THEN probe ELSE tb
LookerIs(c) == IF caller = "scan" THEN probe' = c /\ UNCHANGED tb ELSE tb' = c /\ UNCHANGED probe

ProbeOpen ==
  /\ pc = "probe" /\ nr < Len(devList)
  /\ LET d == devList[nr + 1]
     IN  \/ /\ Opens(Looker, d) /\ LookerIs([open |-> TRUE, dev |-> d])
            /\ pc' = "GetBoardId" /\ UNCHANGED <<nr, halfOpen>>
         \/ /\ OpenFails(Looker, d) /\ nr' = nr + 1
            /\ UNCHANGED <<tb, probe, pc>>
  /\ UNCHANGED <<transfer, flash, bus, caller, enumCount, enumPos, nDev, devList, usbId,
                 identified, byMain, count>>

GetBoardId ==
  /\ pc = "GetBoardId"
  /\ Closes(Looker) /\ LookerIs(Closed)
  /\ pc' = "probe" /\ nr' = nr + 1
  /\ UNCHANGED <<transfer, flash, bus, caller, enumCount, enumPos, nDev, devList, usbId, marks, count>>

\* The DTB does not answer.  Mutant: the handler does not close.
NotIdentifiableOpen ==
  /\ pc = "GetBoardId"
  /\ pc' = "probe" /\ nr' = nr + 1
  /\ UNCHANGED <<tb, probe, holder, transfer, flash, bus, caller, enumCount, enumPos, nDev,
                 devList, usbId, marks, count>>
NotIdentifiable ==
  /\ pc = "GetBoardId"
  /\ Closes(Looker) /\ LookerIs(Closed)
  /\ pc' = "probe" /\ nr' = nr + 1
  /\ UNCHANGED <<transfer, flash, bus, caller, enumCount, enumPos, nDev, devList, usbId, marks, count>>

ProbeDone ==
  /\ pc = "probe" /\ nr = Len(devList)
  /\ pc' = IF caller = "scan" THEN "prompt" ELSE "choose"
  /\ UNCHANGED <<tb, transfer, flash, usb, probe, caller, enum, marks, count>>

\* The user's number, or something else: then FindDTB's nr is that of the loop before.
Choose ==
  /\ pc = "choose"
  /\ \/ \E k \in 1 .. Len(devList) : pc' = "Open" /\ usbId' = devList[k]
     \/ pc' = "prompt" /\ UNCHANGED usbId
  /\ UNCHANGED <<tb, transfer, flash, usb, probe, caller, enumCount, enumPos, nDev, nr, devList,
                 marks, count>>

-----------------------------------------------------------------------------
(* Open and the first calls, by main and by the command open *)

Open ==
  /\ pc = "Open"
  /\ \/ /\ Opens(tb, usbId) /\ tb' = [open |-> TRUE, dev |-> usbId]
        /\ pc' = IF caller = "main" THEN "Init" ELSE "GetInfo"
        /\ identified' = FALSE /\ byMain' = (caller = "main")
        /\ UNCHANGED halfOpen
     \/ /\ OpenFails(tb, usbId) /\ pc' = "prompt"
        /\ UNCHANGED <<tb, identified, byMain>>
  /\ UNCHANGED <<transfer, flash, bus, probe, caller, enum, count>>

\* Open(init = TRUE): an error of Init is outside main's inner handler and ends the
\* program.
InitDtb ==
  /\ pc = "Init"
  /\ pc' \in {"GetInfo", "ended"}
  /\ UNCHANGED <<tb, transfer, flash, usb, probe, caller, enum, marks, count>>

GetInfo ==
  /\ pc = "GetInfo" /\ pc' = "prompt" /\ identified' = TRUE
  /\ UNCHANGED <<tb, transfer, flash, usb, probe, caller, enum, byMain, halfOpen, count>>

\* An error of GetInfo or, in main, of the calls that compare the lists of functions.
\* Mutant: main does not close.
GetInfoThrowsOpen ==
  /\ pc = "GetInfo" /\ pc' = "prompt"
  /\ UNCHANGED <<tb, holder, transfer, flash, bus, probe, caller, enum, marks, count>>
GetInfoThrows ==
  /\ pc = "GetInfo" /\ pc' = "prompt"
  /\ IF caller = "main" THEN Closes(tb) /\ tb' = Closed ELSE UNCHANGED <<tb, holder>>
  /\ UNCHANGED <<transfer, flash, bus, probe, caller, enum, marks, count>>

-----------------------------------------------------------------------------
(* Commands *)

Command ==
  /\ pc = "prompt" /\ step = "no" /\ commands < MaxCommands
  /\ commands' = commands + 1 /\ UNCHANGED events

\* open, with a name or without.
OpenCommand ==
  /\ Command
  /\ \/ tb.open /\ UNCHANGED <<pc, caller, usbId>>
     \/ ~tb.open /\ caller' = "open" /\ pc' = "EnumFirst" /\ UNCHANGED usbId
     \/ ~tb.open /\ caller' = "open" /\ pc' = "Open" /\ usbId' \in Devices
  /\ UNCHANGED <<tb, transfer, flash, usb, probe, enumCount, enumPos, nDev, nr, devList, marks>>

CloseCommand ==
  /\ Command
  /\ Closes(tb) /\ tb' = Closed
  /\ UNCHANGED <<transfer, flash, bus, probe, pc, caller, enum, marks>>

ScanCommand ==
  /\ Command
  /\ caller' = "scan" /\ pc' = "EnumFirst" /\ probe' = Closed
  /\ UNCHANGED <<tb, transfer, flash, usb, enum, marks>>

UpgradeCommand ==
  /\ Command
  /\ step' = "version" /\ UNCHANGED <<file, pos, recordCount>>
  /\ UNCHANGED <<tb, flash, usb, probe, pc, caller, enum, marks>>

\* Daq_Close and Flush throw if there is no connection: main's outer handler ends the
\* program without closing the rest.
ExitCommand ==
  /\ Command
  /\ pc' = "ended"
  /\ \/ tb.open /\ Closes(tb) /\ tb' = Closed
     \/ UNCHANGED <<tb, holder>>
  /\ UNCHANGED <<transfer, flash, bus, probe, caller, enum, marks>>

StartAgain == pc = "ended" /\ Restart /\ UNCHANGED count

-----------------------------------------------------------------------------
List == EnumFirst \/ EnumNext \/ EnumNextFails \/ EnumDone \/ ProbeOpen \/ GetBoardId
        \/ NotIdentifiable \/ ProbeDone \/ Choose
Commands == OpenCommand \/ CloseCommand \/ ScanCommand \/ UpgradeCommand \/ ExitCommand
World == Kill \/ \E d \in Devices : Plug(d) \/ TakenByOthers(d) \/ (d \in DTBs /\ SwitchedOff(d))

Next ==
  \/ World \/ List \/ Open \/ InitDtb \/ GetInfo \/ GetInfoThrows \/ Commands \/ StartAgain
  \/ UpdateDTB /\ UNCHANGED <<usb, probe, pc, caller, enum, marks, count>>

Spec == Init /\ [][Next]_vars

-----------------------------------------------------------------------------
(* Properties *)

\* Whatever was found, probed, opened or closed, and however it failed: between commands
\* the driver holds for this program the device that tb has open, and besides it only
\* those whose configuration failed (cmd.cpp 249-263, pixel_dtb.cpp 72-86, usb.cpp
\* 185-203).
HandlesAccounted ==
  pc = "prompt" => {d \in Devices : holder[d] = "us"} = halfOpen \cup (IF tb.open THEN {tb.dev} ELSE {})

\* main hands over to the command loop either no connection or one whose DTB has
\* answered (psi46test.cpp 141-212).
AnsweredOrClosed == (pc = "prompt" /\ tb.open /\ byMain) => identified

\* "Please choose DTB (0-%u)" (pixel_dtb.cpp 88): the numbers offered are those of the
\* list.
PromptIsTrue == pc = "choose" => nDev = Len(devList)
=============================================================================
