# TLA+ models of psi46test

`psi46test` is the DESY test program for CMS pixel readout chips (ROCs) and
modules. It talks to a digital test board (DTB) over USB: commands typed by an
operator or read from scripts call generated RPC stubs, the stubs exchange
messages with the DTB through a buffered byte transport, and the DTB drives the
chips. This directory holds TLA+ models of the program, the TLC configurations
that check them and theorems checked by TLAPS. All line numbers are those of the
repository.

## 1. The system

| part | source | state | operations |
|---|---|---|---|
| USB transport | `usb.cpp`, `usb.h` | open flag, driver handle, write buffer and its fill, read buffer with read position and size | Open, Close, Clear, Write, Flush, Read, FillBuffer, SetTimeout, enumeration |
| RPC protocol | `rpc.cpp`, `rpc.h`, `rpc_calls.cpp`, `pixel_dtb.h` | call id cache, the message being built or read | 149 generated stubs, call id look-up, RpcLink, data sinks |
| RPC errors | `rpc_error.*` | error code, function id | thrown everywhere below the commands, caught in RpcLink, main and `cmd()` |
| connection | `psi46test.cpp`, `pixel_dtb.cpp`, `cmd.cpp` 211-310 | which DTB is open | FindDTB, Open, Close, Init, handshake of main, scan/open/close |
| upgrade | `cmd.cpp` 342-409 | position in the flash file, record count | UpdateDTB |
| interpreter | `command.*` | command table, one command line, interactive flag, nesting depth | run, read, getInt, getIntRange, getSymbol |
| command table | `htable.h` | hash chains | Add, Find, Delete, iteration |
| data stream | `datastream.*`, `datapipe.h` | block of samples, last sample, record flags | FillBuffer, scanner Read, decoder Read |
| event decoding | `analyzer.cpp`, `cmd.cpp` 2094-2317, 6445-6712, 10305-10350 | position in the data | GetEvent, DecodePixel, TBM decoder |
| data taking, DTB settings | `cmd.cpp` 115-165, 623-682, 1471-1925, 3196-4383 | `tbState`; in the DTB: signal delays, deserialiser, DAQ channels, pattern generator, trigger source; USB time-out | clk, sda, tin, deser160, dopen, dclose, takedata, tdscan, onevst, modtd, ... |
| ROC and module state | `cmd.cpp`, `pixel_dtb.cpp` 135-205 | `dacval`, `modtrm`, `roclist`; in the chips and the FPGA: registers, trim bits, enabled pixels, the addressed ROC | dac, select, chip, module, rddac, wdac, ... |
| calibration searches | `cmd.cpp` | current DAC, step, iteration | setia, setcaldel, ThrPix, TrimStep, tunePH, GetEff, ... |
| test and scan commands | `cmd.cpp` | histograms | maps, DAC scans, bump bond tests |
| high voltage | `iseg.*`, `rs232.*` | connected, on, tripped, bytes on the serial line | setVoltage, status, tripped, echo protocol |
| settings, log, profiler | `settings.*`, `protocol.*`, `profiler.*` | text files | read, printf |

The program has one thread. Concurrency comes from the DTB and the driver: bytes
arrive while the program is anywhere, a driver call returns late or short, a
time-out ends a wait that the DTB still wants to answer. The program can be
killed and started again while the DTB goes on.

Layers and calls: command -> stub -> `rpc_GetCallId` (may call the stub
GetRpcCallId) -> `rpcMessage::Send` / `Receive` -> `CUSB::Write` / `Flush` /
`Read` -> FTDI driver -> DTB. Errors go the other way as `CRpcError`, which no
layer between CUSB and the command loop handles, except RpcLink and main.

### Behaviours that are hard to test, and what makes each part correct

* Transport: bytes of each direction keep their order, nothing is repeated, what
  an error throws away is thrown away completely; a short Read is short only
  because time ran out; a call never blocks for good.
* RPC: a stub gets the reply to its own request, complete, and leaves nothing
  behind; the DTB runs the function the program meant also after the firmware
  changed; calls without reply keep their place in the order; RpcLink's verdict
  is right and its refused look-ups leave no byte on the line.
* Connection: a second DTB, a failed open, or an error in the handshake leaves
  the program closed, not half open, and no device opened and forgotten.
* Upgrade: the DTB burns the flash only after all records of the file were
  accepted, with the right count.
* Interpreter: every command takes effect in the order typed; an error ends the
  scripts but not the program; nesting is bounded.
* Data stream and decoding: records and events do not depend on how the samples
  were cut into blocks; a broken record does not damage its neighbours.
* Data taking: DAQ, trigger and time-out return to rest whichever way a run ends;
  the delays of the DTB, which cannot be read back, are those of `tbState`.
* ROC state and tests: after a test, whichever way it ended, `dacval` is what the
  chip holds, `modtrm` what the FPGA loads, and no pixel or DAQ channel is on.
* Searches: they end, inside the range of the DAC, with the best value seen.
* High voltage: the program never believes a voltage that the supply does not
  have; a trip is noticed.

`PROJECT.json` lists every hazard at its line, with the properties that watch it.

## 2. Modules

```
Usb       --implements-->  ByteLink     UsbProofs
Rpc       --implements-->  RpcService   RpcProofs
Interpreter                             InterpreterProofs
RocState  --runs-->  RocCommands        RocOutline, RocStateProofs
Board     --runs-->  BoardCommands      BoardOutline, BoardProofs
Stream    --implements-->  Framing      StreamProofs
Readout
Iseg      --extends-->  Rs232     IsegProofs
Session   --extends-->  Upgrade         SessionProofs
MC...     the instances for TLC
```

The modules are slices of one program with one thread. `Rpc` does not run on top
of a copy of `Usb`; it uses what `ByteLink` says of it: requests leave in order
and are lost only from the youngest end, reply bytes come in order, and an error
loses the oldest unread ones. That `Usb` is a `ByteLink` is checked by TLC and
proved. In the same way Interpreter, RocState, Board, Upgrade and Session take of
the layers below that a call takes effect or throws, and `Readout` gets the words
that `Stream`'s side of the DTB delivers. `Session` and `Upgrade` are composed:
an upgrade runs while other programs, plugs and power switches act on the device.

### Usb (usb.cpp, usb.h)

| model | code |
|---|---|
| `isUSB_open`, `handle` | `isUSB_open`; whether the driver holds the device |
| `wbuf` | `m_bufferW[0 .. m_posW-1]` |
| `rbuf` | `m_bufferR[m_posR .. m_sizeR-1]` |
| `pc`, `todo`, `ask`, `done` | position in Write, Read or FillBuffer and its locals |
| `rxq` | the driver's receive queue (external) |
| `toDev`, `got`, `wrote`, `sent`, `lost`, `taken`, `gaveUp` | history |

A byte is its serial number. Write and Read are several steps, because the DTB
sends between any two of them: the start, each byte, each flush, the sample of the
queue length (`FillStart`), the blocking FT_Read (`FillFull`, `FillTimeout`,
`FillError`), the return. Open, Close, Clear and Flush make one driver call that
matters and are one step. Clear ignores the status of FT_Purge (`usb.cpp:444`), so the
driver's receive queue may be emptied or stay. `toDev` is what the driver took; FT_Purge's
effect on bytes the driver has not put on the wire yet is not modelled.

Open may fail after FT_OpenEx has succeeded; then the driver keeps the handle and
`isUSB_open` stays false. The model shows that no later Open of this program can
succeed (`handle` stays true), which the code accepts.

### Rpc (rpc.cpp, rpc.h, rpc_calls.cpp, pixel_dtb.h 139-206)

| model | code |
|---|---|
| `cache` | `rpc_cmdId` |
| `stage`, `fn`, `outer`, `rest` | position in the stub, in Receive, RecvHeader or a data sink |
| `mcmd`, `par`, `data` | `m_cmd`, `m_par`, the result vector or string |
| `link`, `linking`, `missing`, `verdict` | RpcLink's loop, its local `error`, its result |
| `outQ` | requests in `m_bufferW` |
| `inq` | bytes within reach of Read; `pend`, `devQ`, `devId`, `exec` belong to the DTB |
| `dirty`, `suspect`, `atStart`, `own`, `k`, `calls`, `opens` | history |

The stubs are generated from four forms: no reply, a reply with a value, with a
string, with a vector. `Kind[f]` is the form of f; every stub of `rpc_calls.cpp`
is one of them (some send a vector after their parameters, which changes the
request only). A request is one value, a reply is a sequence of bytes. A byte
carries, beside its value, the request it answers and whether a message starts
with it, so that properties can speak of replies; the code's decisions use only
the value. Uninitialised bytes (`m_par`, the old data header) are both extreme
values.

The DTB (`Execute`, `Arrive`) runs requests in order and answers as the stubs
expect; it may be changed for one with another call id table when the connection
is opened again. `WidthAssumption` says that ids and lengths fit in the bytes the
protocol has for them: two for `m_cmd`, three for the length of data.

### Interpreter (command.cpp 70-106, 413-471, cmd.cpp 15867-15888)

| model | code |
|---|---|
| `pc` | in the loop of run(): about to read a line, or holding one; the program ended or crashed |
| `stack` | the nested calls of run() with the FILE each was called with and the position in it; its length is the local static `iter` |
| `interactive` | `CCmdLine::interactive`, one for all levels |
| `line` | the name `read` leaves in `CCmdLine::cmd` |
| `files` | FILEs of scripts not closed |
| `buffered`, `device` | calls in the write buffer of CUSB, calls the DTB got |
| `issued`, `typed`, `trace`, `errors` | history |

A command is its name and the way it sends its calls (`Effect`): it ends with
DO_FLUSH, without it, or waits for a reply. A script is the sequence of pieces
that fgets makes of its lines, so that a line too long for the command line is two
pieces. RPC errors may strike at any command; they reach `cmd()`, which calls
run(stdin) again. The write buffer is empty then: on an open connection an error comes
from Flush, which empties it first, or from a reply, which is read after a Flush. (Without a
connection a call throws with the buffer as it is; Open throws that away.) The buffer may
also be written out because it is full, at any call (`Send`).

At the end of the terminal's input readline returns no line and `read` copies from
it (`EndOfInput`); the model stops there.

### RocState and RocCommands (cmd.cpp 1191-1246, 4755-5656, 5823-15505)

| model | code |
|---|---|
| `roclist`, `modtrm` | `roclist`, `modtrm` |
| `kept`, `moved` | registers with `dacval` not -1; those whose `dacval` the command has changed |
| `chip` | the registers of the ROCs, relative to `dacval`: `kept`, `local` (the variable being tuned) or `other` |
| `sel` | the ROC that the last `roc_I2cAddr`, or a loop on the DTB, has addressed |
| `fpga` | the trim values of SetTrimValues, relative to `modtrm` |
| `armed`, `daq` | enabled columns, unmasked pixels, calibrate bits; channels of Daq_Start |
| `cmd`, `pc`, `flag` | the command, its next step, `contTrim` of modtrim |
| `touched`, `failed`, `blamed`, `left`, `errors` | history; `blamed` and `left` are what commands with an error, or in `Leaves`, left wrong, and left enabled or running |

The commands of `cmd.cpp` are long, of one kind, and mostly arithmetic on the data
they read. What can go wrong with the state is the order of some 25 sorts of calls
and assignments and the paths among them. So `RocCommands` gives each command as a
program: a sequence of steps made with a few constructors (`If`, `Repeat`,
`ForActive`, `TryScan`, `Return`, ...), one operator per function of the source,
and `RocState` has one action per sort of step. A call that no property depends on
(histograms; delays, pattern generator and deserialiser, which are in Board) is no step, and the calls
that enable or disable a column, pixel and calibrate bit in a row are one step.

* A condition on data goes either way, a loop over pixels, values or iterations
  runs any number of times. Conditions on the program's own state are kept:
  `roclist[roc]` (`IsEnabled`), `dacval == -1` (`Needs`), `contTrim` (`Unless`).
* `TryScan` and `TryRead` are the calls in a `try` block: on an RPC error the
  function returns at once and its caller goes on with what follows (`Caught`).
  `Abort` is an error in any other call: `cmd()` catches it and prompts.
* A SetDAC changes the register of the ROC addressed, whatever ROC the value is
  for; an address that no ROC has (-1, or after `select 0`) changes none.
* The DTB (external): a DAC scan leaves the last value of the scan in the register
  (the functions restore it), and a loop may leave its ROC addressed, or not. Both
  are how the code treats it: it sets the address again before it goes on.
* `at()` of a vector that a caught RPC error or an error of the decoder
  (`cmd.cpp:6580-6586`) left too short ends the program (`UseEmpty`), as nothing catches
  out_of_range.

Calls take effect at once here. What an error loses of buffered calls is in `Usb`
and `Interpreter`. Commands that switch pixels on on purpose (cole, pixe, arm,
mask) are in no menu.

### Board and BoardCommands (cmd.cpp 115-165, 623-682, 1471-1525, 1763-1925, 3196-4383)

| model | code |
|---|---|
| `delay`, `deser`, `knob`, `opened`, `running` | settings of the DTB: Sig_SetDelay of the four signals, the source of the DAQ, pattern generator, trigger source, USB time-out, channels with memory and started |
| `tbState` | `TBstate`: clock phase, deserialiser phase, DAQ open |
| `good` | `goodvalues` of deser160 and deserext |
| `cmd`, `pc` | as in RocState |
| `seen`, `blamed`, `commands`, `errors` | history; `seen` are the pairs of phases at which the DTB sent a header |

Commands are programs here too, in `BoardCommands`, with one action of `Board` per
sort of step. A delay is a clock phase: the 15 ns that SDA and the 5 ns that TIN
is later are left out, so "all four signals at `tbState.clockPhase`" is the rest
state that the commands say they restore. An RPC error ends the command (`Abort`).
`Daq_Open` may return 0, which the code takes for "nothing opened".

### Stream and Framing (datastream.cpp, datastream.h, datapipe.h)

| model | code |
|---|---|
| `memory`, `full` | the DTB's buffer and its overflow status (external) |
| `stop` | `stopAtEmptyData` |
| `buffer`, `pos`, `lastSample` | `CDtbSource` |
| `pc`, `record` | position in `CDataRecordScanner::Read`, and its record |
| `sent`, `got`, `upto`, `records` | history |

A sample is its serial number with its two marks. The scanner pulls sample after
sample and a pull may wait in FillBuffer, so the DTB sends between any two pulls.
DS_empty and DS_buffer_overflow end the pipe (`thrown`). `Framing` says what the
pipe promises, without blocks, buffer or state: the next record starts at the next
start mark and ends at the first end mark, the next start mark, or the limit.

### Readout (analyzer.cpp 25-230, cmd.cpp 6445-6712, 10305-10350)

| model | code |
|---|---|
| `use` | which decoder: GetEvent under DacScanPix, DecodePixel under GetRocData, the module decoder in DacScanPix |
| `data`, `pos` | the words read from the DAQ, `pos` of the decoders |
| `k`, `cnt`, `nReadouts` | step or pixel, triggers of it, responses counted |
| `iroc`, `kroc`, `raw` | of the module decoder |
| `truth`, `damaged` | history: what the ROCs really answered, which events the fault touched |

`Init` ranges over all hits of all events; then nothing happens, or one word is lost, or
loses a mark, or is a header no more, or a word without marks comes in between, and the
decoder runs. For modules only losses are considered. Wider statements are false: a pixel
word with other content is a wrong response, and a word that comes in between with an end
mark makes an event of its own. An
address is that of the pixel with the calibrate pulse or of another; pulse heights
are left out. Reading `enabledrocslist` beyond its end gives any ROC.

### Rs232 and Iseg (rs232.cpp, iseg.cpp)

| model | code |
|---|---|
| `at`, `cmd`, `buf`, `answer` | position in writeCommandAndReadAnswer, what is left to send, the byte polled last, the answer so far |
| `wire`, `line` | bytes under way to and from the supply |
| `input`, `reply`, `pending`, `applied` | the supply (external): its command line, what it still sends, the voltage of D1, the voltage set by G1 |
| `iseg_connected`, `hv_on`, `supply_tripped`, `voltage_set` | members of Iseg |
| `call`, `rest`, `open` | the running method, the commands it has still to send, the port |
| `first`, `asked`, `before`, `calls`, `trip`, `x`, `faults` | history |

A byte carries the number of the exchange that caused it, so that an answer can be
told from that of an earlier call; the code compares only letters. Faults are a lost
byte and a polling loop that gives up although the answer is on its way. The
supply may be switched by hand, trip or ramp at any moment.

### Session and Upgrade (psi46test.cpp, pixel_dtb.cpp 60-117, cmd.cpp 211-409, usb.cpp 62-254)

| model | code |
|---|---|
| `bus`, `holder` | the devices in the driver's order, who has opened each (external) |
| `tb`, `probe` | the connections of the global testboard and of scan's own |
| `pc`, `caller` | position in main, FindDTB, open or scan; who called the enumeration |
| `enumCount`, `enumPos`, `nDev`, `nr`, `devList`, `usbId` | of CUSB, and locals |
| `step`, `file`, `pos`, `recordCount` | UpdateDTB |
| `loading`, `loaded`, `wrong` | the DTB's side of the upgrade calls (external) |
| `halfOpen`, `identified`, `byMain`, `burnt`, `commands`, `events` | history |

Devices are plugged and unplugged, opened by other programs and switched off at
any step (`World`); the program may be killed and started again. Every RPC call of
UpdateDTB may throw before or after the DTB has executed it. `loaded` is the sequence of the
lines, each with its file, that the DTB has accepted. The record counter is a uint16_t,
counted modulo `Width`.

## 3. Runs

| run | instance | what it shows |
|---|---|---|
| `MCUsb.cfg` | buffers of 2, calls of up to 3 bytes, 3 bytes written, 4 sent | order and contiguity in both directions, where each written byte is, calls return, refinement of ByteLink |
| `MCRpc.cfg` | one function of each form, two firmwares (one lacks a function and permutes ids), 3 calls, 2 connections, no failed read | quiet line between calls, right function, RpcLink's verdict, refinement of RpcService |
| `MCRpcFaults.cfg` | two functions, two firmwares with swapped ids, data that look like messages, 2 calls; reads fail or fall short at any byte, the program is killed anywhere | a call in step gets only its own bytes, the cache is right unless an id was looked up out of step, every call ends even if the DTB is silent |
| `MCInterpreter.cfg` | four scripts: one that runs others, one that runs itself, one left by `quit`, one hidden by a command; 3 typed lines, 2 errors | the shared flag is right after every return, calls arrive in order, typed commands are sent at once, files are closed, a script does what its lines mean, scripts end |
| `MCRocState.cfg` | one ROC, 40 commands in any sequence, one RPC error anywhere | registers are put back, pixels and DAQ off, trim bits loaded; what is wrong later was changed by the command with the error, or is known to be left |
| `MCRocModule.cfg` | ROCs 0 and 8, any of them active, `select` and 16 other commands, one RPC error anywhere; runs on as long as at most one register, or the trim bits of one ROC, are wrong (`FewWrong`) | registers of a module are put back, and values of a ROC go to that ROC |
| `MCBoard.cfg` | 33 commands, any three in a row, two phases, two channels, one RPC error anywhere | what is left set has a cause, data are not read while they are taken, a phase scan sets what it found |
| `MCStream.cfg` | 5 samples with any marks, blocks of 2, records of up to 2 | clean records are whole events, refinement of Framing, Read ends |
| `MCReadout.cfg` | 2 steps (or pixels) of 2 triggers, a module of 2 ROCs, all hits, one damaged word or none | a scan with that damage is not taken for a good one, no false responses, the damage of a lost word stays in its step |
| `MCIseg.cfg` | voltages 0 and 100, 3 calls between constructor and destructor, one fault | own answers in the first eight exchanges, no voltage nobody asked for, believed voltage is real, calls return |
| `MCIsegEnd.cfg` | 1 call, no fault | expected violation: the comment "Will turn off the HV" (`iseg.cpp:102`) does not hold after a constructor that read RAMP or a trip |
| `MCSession.cfg` | two DTBs (symmetric), another device, 3 flash files, a counter of 2 values, 2 commands, one event of the world | every open handle is accounted for, main hands over only a DTB that answered, only the whole file is burnt, in order |

`RestoresOriginalState` and `TrimsLoaded` are the manual's "a test is supposed to
restore the original state, unless a DAC is changed on purpose" (`man.tex:241`) and
"the state of the ROC is represented in software" (240). Some commands do not keep
to that. The constant `Leaves` names them and what they leave, so that the passing
runs show that on the ROCs and paths modelled they leave nothing else, and that no other
command of the menus leaves anything:

| command | leaves |
|---|---|
| trim (12582, 12763) | CtrlReg of a ROC that is skipped; the trim bits from before the last step in the FPGA |
| trim on a module (11678, 11701) | Vcal and Vtrim of another ROC, and a column enabled: ThrPix(0, ...) measures ROC 0 and leaves it addressed |
| modtrim (9279) | CtrlReg of all ROCs when one ROC is below the target |
| modtune (11130, 11284) | CtrlReg of a ROC it gives up on; a gain that is not the one stored: the inner variable goes to the chip, the outer one to `dacval` |
| modtune on a module, also of one ROC (11493-11504) | Vcal of the ROC that ModPixelAlive has addressed last (11061-11070): SetDAC(Vcal) follows at 11312 and 11398 |
| optiamod (5013) | Vana of the ROCs that are not active, at 0 |
| calsdac of another ROC than the one addressed (9818) | CtrlReg of the one addressed |
| effmask on a module (10408) | the trim bits of the last ROC in all; pixels enabled |
| dacscanmod of CalDel (8232; "dacscanother") | CalDel at the last value of the scan, and CalDel's value in Vcal: the line that says "restore" restores another register |
| oneroc (15345), bare (15431) | CtrlReg, also in `dacval`, when CalDel is not found |
| select (1237) | 15 as trim bits of the ROCs it activates, whatever `modtrm` says |

Board's `Leaves` has in the same way the settings that a command is there to
change, or is known not to put back:

| command | leaves |
|---|---|
| sda, ctr, tin | the delay it sets |
| showsda, showctr, showclk | their signal at the last delay shown and the DAQ on the ADC |
| decoding | CLK and TIN at the last phase |
| pgloop; trgsel, deserext | the pattern generator; the trigger source |
| dstart, modtd | channels that run |
| dselroca | the DAQ on the ADC |

Each entry is needed: without it TLC finds one of these properties or the assumption about
the outlines of the commands (section 4) violated. The entries for one ROC and for a module
are apart: `MCRocState.cfg` has trim, modtune, optiamod, calsdac and effmask with one ROC
and holds them to the shorter list. modtune with its parameter tunes one ROC, which need not
be active; without it, it does the same for one ROC after the other. For modules, `AllOff` and
`TrimsLoaded` are not invariants of a run: they follow from the theorems of section 4,
whose assumption about the commands `MCRocModule.cfg` evaluates.

Four more statements of comments and prompts are written down in the modules that
the code does not keep, and no run checks them: `GivenUpNeverCome` in Usb ("these
bytes will never come...", `usb.cpp:428`: the rest of a short Read is delivered to
the next Read), `RemovesUnexpected` in Rpc (`rpc.cpp:34-35`: a 3-byte length read
into 16 bits), `CommentsDoNothing` in Interpreter (`command.cpp:81`: the second
piece of a long comment, as in `script/s300.roc:41`, is executed), `PromptIsTrue` in
Session (`pixel_dtb.cpp:88`: the prompt offers numbers up to the count of all
devices).

Bounds. A buffer of 2 is full, empty and in between, and calls of 3 bytes cross
its end, so a Read takes two refills; 4 bytes sent let a second Read meet what a
short first one left. Two connections are enough for a stale buffer or a stale id
to meet the next connection, three calls for a void call, a look-up and a call
with reply; with faults two calls, one that falls out of step and one after it.
`Base` is 256, as byte values matter. `IdSize` is 1 instead of 4 to keep replies
short.

For the interpreter, `MaxIter` is 3 instead of 20: the limit is met by the script
that runs itself, from the prompt and from inside another script. `MaxFiles` is 4,
one more than the scripts need, so that files left open by errors make the next
fopen fail. Three lines typed are a script, what follows it, and one more after an
error.

For RocState, one ROC of each TBM channel is enough for everything that depends on
which ROC is addressed and which channel runs; more ROCs repeat the same loop
bodies. One RPC error at any point of any of several commands meets the state that
each of them leaves. `FewWrong` bounds what stays wrong on a module at the prompt; a step
looks at a register, or at trim bits, only to change them, so that several wrong ones would
not act on each other. Registers are the eight DACs the tests use. `Purpose` is the
DACs that a command is there to change. `Preset` is all registers, as after the
start script.

For Board, two phases are a good one and the default, and three commands are one
that leaves something, one with an error, and one that meets both. For Stream,
five samples are two records and a sample of a third in three blocks, and a limit
of 2 is exceeded by three of them. That the samples end is part of what ReadEnds says: in
an endless stream without a start mark the scanner would look for one for good. Two steps and two triggers let a lost word
shift an event within a step and into the next one; two ROCs let a lost header give
one ROC's pixel to the other. For Iseg, 100 has a digit that is repeated, which one
lost echo can hide, and three calls let a late answer meet the next ones: with the
constructor's two they make eight exchanges. `OwnAnswer` names these bounds itself,
since it does not hold beyond them: nothing empties the line, and an exchange that fails
moves the echoes on. If the time-out of the constructor's first S1 fires before the echo of
its last byte, the queries that follow fail or match partly, and in exchange 9 the echoes
are those of exchange 8, whose answer is read (TLC finds that trace with `x <= 8`
left out and `MaxCalls = 4`; up to eight exchanges it holds for any number of calls). A single `status`
sends twelve queries. `NoWrongVoltage` names one fault: two bytes lost of `111` set 1 V. For
Session, two DTBs make FindDTB ask, the third device is in the list but not a DTB;
the three files have an empty line, one record more than the counter holds, and a
last line without its end (`cmd.cpp:367`), which UpdateDTB takes for the end of the file:
that line is not among the records `BurnsTheFile` speaks of, and the count it speaks of is
the counter's.

Deadlock is checked in the runs of Usb and Rpc. Elsewhere the system really stops:
the interpreter when the program ends or nobody types, RocState in the state
`Crash`, Stream when the DTB sends no more or an exception is thrown, Iseg when the
object is gone, Readout when all is decoded. Board and Session stop at their bounds
on commands.

Fairness. `WF(WriteStep)`, `WF(ReadStep)`, `WF(ClientStep)` and `WF(RunStep)`: the one thread
inside a call runs on, and FT_Read ends at the latest with the driver's time-out
(`usb.cpp:213`). In `MCRpc.cfg` also `WF(DeviceStep)`: with no failed read, the
DTB answers. `MCRpcFaults.cfg` assumes nothing of the DTB. In Stream `WF(Get)` and
`WF(Scan)`: the pipe runs on, while the DTB need not send anything; Read's
termination is claimed only once the source is told to stop or the DTB reports a full memory.
In Iseg `WF(Ends)` and the serial steps: the polling loops count down
(`rs232.cpp:392`, `460`), and the supply handles what it has got. Callers, commands,
operators and events are never assumed to do anything. RocState, Board, Readout and
Session state no liveness.

Each property has a mutant in its module, a small wrong version of one definition
(named after it, with the bug in the name and a comment that starts with
"Mutant"); under it the property fails. The specifications never use the mutants.

## 4. Theorems

For every value of `WBUF`, `RBUF` (positive) and of the bounds, about `Usb`'s
`Spec`, without fairness:

* `UsbProofs!TypeCorrect`: `[]TypeOK`. The inductive invariant is `TypeInv`: types
  and limits, and two facts they rest on: `done` is set only with a byte in hand
  (`DoneHasByte`; ReadBreak looks at the last byte read), and a call runs only
  while CUSB is open (`CallNeedsOpen`).
* `WriteBufferCorrect`, `InputCorrect`, `ReadOrderCorrect`: the three order
  invariants, from `OrderInv`, their conjunction with `TypeInv`. ReadsInOrder
  alone is not inductive: that a copied byte is newer than all earlier ones needs
  InputIsContiguous. The proofs work with blocks of consecutive serial numbers
  (`EndsAt`) and one lemma each for what happens to a block: appended to, cut, its
  head taken.
* `WritesCorrect`: `[]WritesAccounted`, from `AccountInv`, which adds to
  OrderInv that no byte in `m_bufferW` has been thrown away before: needed when it
  goes to the DTB.
* `ReadsCorrect`: `[]ReadIsContiguous`, from `ReadInv`: the
  next byte of the block in reach follows the last one read, and a refill is under
  way only with an empty read buffer.
* `UsbImplementsLink`: `Spec => ImplementsLink`. Each action maps to
  one action of ByteLink or to a stutter (table before the lemmas). Needed
  on top of `OrderInv`: FillBuffer runs only with an empty read buffer.

For all commands, scripts and limits, about `Interpreter`'s `Spec`
(`InterpreterProofs`): `TypeCorrect`, `FlagCorrect`, `OrderCorrect`,
`TypedCorrect`, `FilesCorrect` and `ThroughCorrect`, one for each invariant, all
from `InvHolds`. The inductive invariant `Inv` is the conjunction of the first five
with `files >= Len(stack) - 1`, which holds after errors too and keeps `files` a natural
number when a script returns, and with `Through`. The parts need each other:
`TypedIsSent` needs the flag to be that of the terminal when a typed command is
executed. Order is proved of `device \o buffered` as one sequence, so that a flush, a
full buffer and an error, which cuts it, are one lemma each.

* `ThroughCorrect`: `[]ScriptRunsThrough`, which only speaks of the prompt. `Through`
  says what holds in between: the commands executed, followed by what each running
  script has left, from the top level down, are the meaning of the script that was typed
  (`Completes`), and the line that is being executed is the one before the position of
  its script (`LineIs`). What is left is a function on the levels of the stack that
  satisfies an equation (`Plan`); reading a line leaves it alone, acting on one takes
  its meaning from the front, and a push or a pop adds or removes a level (`PlanRead`,
  `PlanAct`, `PlanPush`, `PlanPop`).
* `Meaning` is a recursive function, so that it first has to be shown to satisfy its own
  equation (`MeaningUnfolds`), for scripts of any length, any number of them, and scripts
  that run themselves. The recursion goes deeper, up to MaxIter, or forward in the
  script: among any places there is one whose recursive uses are not among them
  (`Minimal`, from the well-foundedness of < on the numbers), and the least relation
  that is closed under the equation is a function (`MeaningExists`).
* `ScriptAssumption` says that an empty line is not the name of a command
  (`command.cpp:427-433` looks at the line before it looks for a command).

For all ROCs, registers and programs, about `RocState`'s `Spec` (`RocStateProofs`):
`TypeCorrect`, from the assumptions that each step has the parameters of its operation
and loops go back inside their program. For all programs that have sound outlines, and
any number of commands and RPC errors: `RestoresCorrect`, `OwnRocCorrect`,
`AllOffCorrect`, `TrimsCorrect` and `CauseCorrect`, one for each property of the runs,
and `OutlinesHold`, the invariant they follow from.

* `RocOutline` has proof outlines, as in Hoare logic: before each step of a command, the
  cases in which the ROCs may be. A case says which ROCs are enabled and which one is
  addressed, the flag, which registers the command has written and not put back, which
  are the variable being tuned, which have a new `dacval`, which ROCs have other trim
  values in the FPGA, what is enabled and which channels run. `After` is the effect of a
  step on a case, `Targets` where the step goes on.
* `OutlineAssumption` says of the text of each command: each step leads from every case
  before it to a case before the next step, an RPC error that the function catches to
  one where the function returns (`Inductive`); only enabled ROCs have other trim values
  and a value of a ROC goes to the ROC addressed (`Orderly`); what the last cases leave
  in doubt is in `Purpose` or `Leaves` (`Tidy`). TLC finds the outlines of all commands in
  `MCRocState` (`MCOutline`, the cases that the entry leads to, until none is new) and
  evaluates the assumption in both runs.
* The inductive invariant is `RocInv`: the ROCs are in one of the cases before the next
  step (`Holds`), and between commands only trim values that a command is blamed for are
  others (`Clean`). RestoresOriginalState is not inductive for three reasons, and each is a part
  of a case: a value noted in `dacval` is that of the register only if the
  variable was set before; it reaches the ROC only if that one is addressed; and a
  step after a branch depends on the ROCs enabled. One lemma per sort of step shows that `After`
  is right about it. `Preset \subseteq kept` is needed where a function returns if
  `dacval` has no value.
* `AllOffCorrect` is relative to `left`: after an error, what stays on is known to stay, and
  a case need only say what the command itself has enabled or started since.
* `CauseCorrect` needs a second invariant, `Accounted`: what differs from `dacval` is in
  `touched` or `blamed`, which every step keeps because it records what it writes
  (`DoRecords`), and the end of a command because of RestoresOriginalState.

For all devices, flash files, counter widths and bounds, about `Session`'s `Spec`:

* `SessionProofs!HandlesCorrect`: `[]HandlesAccounted`. `HeldInv` says it of every
  step, not only of the prompt: what the driver holds for the program is the
  disjoint union of `halfOpen` and the devices of the two connections, and
  scan's object is open only between its Open and GetBoardId. Disjointness is needed
  when one of them is closed.
* `SessionProofs!AnswersCorrect`: `[]AnsweredOrClosed`, from `AnswerInv`, which says
  where `tb` can be open without an answer: nowhere but between Open and GetInfo.
* `SessionProofs!BurnCorrect`: `[]BurnsTheFile`. `UpgradeInv` adds the types and
  `Progress`: as long as the DTB is still in this transfer, it has accepted exactly the
  records among the lines read so far, each once and in order, but for the one in hand,
  and `recordCount` is their number modulo `Width`. A power cut or a second UpgradeStart
  ends the transfer, so Progress has it as a hypothesis. `SkipLine` and `TakeLine` say what
  becomes of it when a line is read or accepted, `NextRemainder` what `%` does when one is added.

For all block sizes, record limits and samples, about `Stream`'s `Spec` (`StreamProofs`):

* `StreamImplementsFraming`: `Spec => ImplementsFraming`. `StreamInv` is TypeOK with
  `QueueInv` (what the source has not delivered is its buffer followed by the DTB's
  memory) and `ScanInv` (for each position of the scanner, which samples the record
  begun stands for and that no mark among them was missed). Step `Finish` maps to Framing's one action,
  all others to stutters or the DTB's step.
* `CleanCorrect`: `[]CleanIsWhole`, from what Finish delivers under StreamInv.
* `TypeCorrect`: `[]TypeOK`.

For all functions, call id tables, payloads, bounds and faults, about `Rpc`'s `Spec`
(`RpcProofs`): `RpcTypes`, `CacheIsSound`, `QuietBetweenCalls`, `ReplyIsOwn`,
`ErrorsAreCaused`, `RunsTheMeant` and `VerdictIsTrue`, one for each safety property,
and `StubsImplementService`, the refinement.

* The inductive invariant is `RpcInv`. Its core is `StepInv`: while replies are in
  step, the requests under way carry no reply but that of the running call, and
  what the program has still to read (`inq`, then `pend`) is exactly the rest of that
  reply from the byte on where the stub stands (`At`, `Answered`), or nothing yet while
  the request is on its way (`Asked`). OwnReply says only how a call ends; that it
  ends so depends on each byte before.
* `QueueInv` says of the requests under way that only the last one can have a
  reply, and that an id sent is the DTB's id of the function meant, unless it is
  suspect; `ControlInv` which function each position of the stub belongs to;
  `LinkInv` which functions RpcLink has asked for so far, which is its verdict half way.
* A reply is a concatenation of messages read with little-endian numbers:
  lemmas give its length, each of its bytes and `Decode(Encode(x, n)) = x` for the
  widths that occur (1 to 4 bytes), from `WidthAssumption`.
* The refinement has the hypothesis `~Faults` (no failed read, no kill), as the run has: RpcService
  is the service as the commands see it when nothing is lost. What faults do is
  in the other theorems, which hold with them.

For all programs that have sound outlines, and for any phases, channels, commands in a
row and RPC errors, about `Board`'s `Spec` (`BoardProofs`): `BoardTypes`,
`LeftoversAreOwned`, `ReadsAreClean`, `SearchesAgree`.

* `BoardOutline` has proof outlines for programs, as in Hoare logic: an assertion
  between any two steps says which settings are as `tbState` or the next command has
  them, which signals have which phase, which channels surely do not run. `After`
  is the effect of a step on an assertion. `OutlineAssumption` says that the
  outlines are sound step by step, that what they leave in doubt at the end is in
  `Leaves`, that they are quiet before each read of a clean command, and that the
  scans end with a stored pair. It speaks only of the texts of the commands; TLC finds the strongest outline of each
  command of `BoardCommands` (`MCOutline`) and evaluates the assumption.
* The inductive invariant is `BoardInv`: the assertion before the next step holds
  (`Holds`), and at the prompt what is wrong is blamed. One lemma per sort of step
  shows that `After` is right about it. So the bounds on commands and errors of the run
  are no longer part of the result, nor is the number of phases scanned as far as
  the outlines are sound.

For all voltages and any number of calls, about `Iseg`'s `Spec` (`IsegProofs`):
`VoltageIsApplied` (`[]AppliedIsAsked`), `AnswersAreOwn`, `OnlyAskedVoltages` and
`VoltageIsHarmless`.

* The inductive invariant is `IsegInv`: where the program is within a call (`Control`,
  with faults too), and, as long as no fault has occurred, what is on the line (`Tidy`).
  A command is cut in two, what the supply has and what is still to send
  (`Sending`); an answer in three, read, on the line and to come (`Answering`).
  `Role` ties the command to the running call, `Effect` to what the supply does with it.
* `AnswersAreOwn` and `OnlyAskedVoltages` have the hypothesis `faults = 0`: they are OwnAnswer
  and NoWrongVoltage where nothing is lost, and there stronger than those (in every
  exchange the answer is that of the last command, and no digit is missing).
* `VoltageIsHarmless` (`[]NoWrongVoltage`) goes on where a byte has been lost or a time-out
  has fired too early. After that echoes and answers may be out of step for good, so the
  invariant (`OneFaultInv`) is about what goes to the supply only: the bytes it has taken and
  those on their way (`Stream`). Wherever a D and digits are followed by the end of a line,
  the digits are a voltage asked for, or one that lacks a digit beside its like
  (`Harmless`). While a command is sent, the stream ends in its letter and the digits
  that count as sent, and these and the digits left make such a voltage (`Underway`);
  the byte echoed last is the last of them. So a lost byte is passed over only if it
  equals the one before (`Skips`), and none of a command's bytes but digits does.
  A command given up leaves a stream in which only the next command's
  letter follows, and no voltage is made of two commands. That the lost byte was the only one
  on its way is `Tidy`, the invariant without faults.
* `VoltageAssumption`: voltages are numbers of one digit or more, as `vb`, `scanvb` and
  the destructor set them (`cmd.cpp:971`, `1028`, `iseg.cpp:107`).

Only model-checked: all liveness, which is out of the provers' reach; OwnAnswer after a
fault, a statement about how far the echoes can shift within eight exchanges;
everything about Readout, whose words and whose true counts are folds over events and
pixels.

## 5. What is not modelled, and the plan

Left for later: a composition of RocState with the write buffer, where restoring
calls are lost by a failed flush; the readout decoders with two faults.

Parts of modelled components that are left out:

* transport: the libusb detour of Open as separate steps, the length of the
  time-out, `WaitForFilledQueue` (never called);
* RPC: requests torn by a failed flush; that CalibrateMap's reply has several
  vectors;
* interpreter: getInt, getIntRange and getSymbol, which read one line and keep no
  state (an unknown symbol leaves its value unset, `command.cpp:180`);
* data stream: CRocDecoder and the file variants of source and sink, which copy or
  print; no command sets up the pipe, only `Analyzer()`, which nothing calls;
* decoding: the decoders that print events (dread, dreadm, Decoder);
* DTB: levels, modes, voltages and currents, the size of a channel's memory;
* ROC state: TBM settings, and commands that switch pixels on on purpose;
* searches: the decisions on measured data, which are nondeterministic;
* high voltage: the lengths of the waits, number conversion, the relay on the DTB;
  setCurrentLimit, getCurrentLimit and tripped are never called.

Not modelled: the command table (filled once at the start and only searched; Delete,
which is wrong, is never called), call name translation, settings, log and profiler
(texts), the plot windows, vendored headers and platform copies (among them the
46179 lines of `win32/CImg.h`), ROOT macros, scripts and flash images.
