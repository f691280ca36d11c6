------------------------------- MODULE Stream -------------------------------
(***************************************************************************)
(* The data pipe of datastream.cpp: CDtbSource reads the DTB's memory in   *)
(* blocks, CDataRecordScanner cuts the samples into records.               *)
(*                                                                         *)
(* A block may end anywhere; the scanner pulls sample after sample, and a  *)
(* pull at the end of a block waits in FillBuffer.  The scanner keeps no   *)
(* sample of its own: the one it has looked at last stays the source's     *)
(* last sample until the next call of Read.                                *)
(***************************************************************************)
EXTENDS Integers, Sequences

CONSTANTS
  Block,      \* DTB_SOURCE_BLOCK_SIZE
  Limit,      \* samples in a record, 40000
  MaxSamples  \* bound: samples the DTB sends

ASSUME SizeAssumption  == Block \in Nat \ {0} /\ Limit \in Nat \ {0}
ASSUME BoundAssumption == MaxSamples \in Nat

VARIABLES
  memory,     \* samples in the DTB that have not been read
  full,       \* the DTB reports that its memory was full
  stop,       \* stopAtEmptyData
  buffer, pos, lastSample,  \* CDtbSource
  pc,         \* where Read stands: see below
  record,     \* CDataRecordScanner::record
  sent,       \* history: all samples of the DTB
  got,        \* history: how many of them the source has delivered
  upto,       \* history: the last one used in a record
  records     \* history: the records delivered

dtb     == <<memory, full, stop>>
source  == <<buffer, pos, lastSample>>
scanner == <<pc, record>>
vars == <<dtb, source, scanner, sent, got, upto, records>>

(* idle    between two calls of Read                                        *)
(* skip    Get the sample after an end mark                                 *)
(* begin   look at the first sample                                         *)
(* align   Get samples up to a start mark                                   *)
(* collect add the last sample, if the record is not full                   *)
(* more    Get the next one                                                 *)
(* finish  after the loop                                                   *)
(* thrown  DS_empty or DS_buffer_overflow, which nothing catches            *)
Gets  == {"skip", "align", "more"}
Steps == Gets \cup {"begin", "collect", "finish"}

Sample == [id : Nat, start : BOOLEAN, end : BOOLEAN]
NewRecord == [data |-> <<>>, startError |-> FALSE, endError |-> FALSE, overflow |-> FALSE]

Init ==
  /\ memory = <<>> /\ full = FALSE /\ stop \in BOOLEAN
  /\ buffer = <<>> /\ pos = 0 /\ lastSample = [id |-> 0, start |-> FALSE, end |-> TRUE]
  /\ pc = "idle" /\ record = NewRecord
  /\ sent = <<>> /\ got = 0 /\ upto = 0 /\ records = <<>>

-----------------------------------------------------------------------------
(* The DTB, and the user *)

Send(start, end) ==
  /\ Len(sent) < MaxSamples
  /\ LET s == [id |-> Len(sent) + 1, start |-> start, end |-> end]
     IN  memory' = Append(memory, s) /\ sent' = Append(sent, s)
  /\ UNCHANGED <<full, stop, source, scanner, got, upto, records>>

\* What does not fit is never sent.
Fill ==
  /\ ~full /\ full' = TRUE
  /\ UNCHANGED <<memory, stop, source, scanner, sent, got, upto, records>>

Stop ==
  /\ ~stop /\ stop' = TRUE
  /\ UNCHANGED <<memory, full, source, scanner, sent, got, upto, records>>

-----------------------------------------------------------------------------
(* CDtbSource::Read, called by the scanner at pc *)

\* Where the scanner goes on with sample s.
Then(s) ==
  CASE pc = "skip"  -> "begin"
    [] pc = "align" -> IF s.start THEN "collect" ELSE "align"
    [] pc = "more"  -> IF s.start \/ s.end THEN "finish" ELSE "collect"

Take(s) == lastSample' = s /\ got' = got + 1 /\ pc' = Then(s)

GetBuffered ==
  /\ pc \in Gets /\ pos < Len(buffer)
  /\ Take(buffer[pos + 1]) /\ pos' = pos + 1
  /\ UNCHANGED <<dtb, buffer, record, sent, upto, records>>

\* One Daq_Read: any part of what is in the memory, up to a block.  Mutant: the first
\* sample of a block is taken twice.
FillBufferTwice ==
  /\ pc \in Gets /\ pos = Len(buffer)
  /\ \E n \in 1 .. Len(memory) :
       /\ n <= Block
       /\ buffer' = SubSeq(memory, 1, n) /\ memory' = SubSeq(memory, n + 1, Len(memory))
  /\ Take(memory[1]) /\ pos' = 0
  /\ UNCHANGED <<full, stop, record, sent, upto, records>>
FillBuffer ==
  /\ pc \in Gets /\ pos = Len(buffer)
  /\ \E n \in 1 .. Len(memory) :
       /\ n <= Block
       /\ buffer' = SubSeq(memory, 1, n) /\ memory' = SubSeq(memory, n + 1, Len(memory))
  /\ Take(memory[1]) /\ pos' = 1
  /\ UNCHANGED <<full, stop, record, sent, upto, records>>

\* The memory is empty: ask again.
FillNothing ==
  /\ pc \in Gets /\ pos = Len(buffer) /\ memory = <<>> /\ ~stop /\ ~full
  /\ buffer' = <<>> /\ pos' = 0
  /\ UNCHANGED <<dtb, lastSample, scanner, sent, got, upto, records>>

\* Mutant: an empty memory is asked again, whatever the user wants.
ThrowNever == FALSE /\ UNCHANGED vars
Throw ==
  /\ pc \in Gets /\ pos = Len(buffer) /\ memory = <<>> /\ (stop \/ full)
  /\ buffer' = <<>> /\ pos' = 0 /\ pc' = "thrown"
  /\ UNCHANGED <<dtb, lastSample, record, sent, got, upto, records>>

-----------------------------------------------------------------------------
(* CDataRecordScanner::Read *)

Read ==
  /\ pc = "idle"
  /\ record' = NewRecord
  /\ pc' = IF lastSample.end THEN "skip" ELSE "begin"
  /\ UNCHANGED <<dtb, source, sent, got, upto, records>>

Begin ==
  /\ pc = "begin"
  /\ IF lastSample.start
       THEN pc' = "collect" /\ UNCHANGED record
       ELSE pc' = "align" /\ record' = [record EXCEPT !.startError = TRUE]
  /\ UNCHANGED <<dtb, source, sent, got, upto, records>>

Collect ==
  /\ pc = "collect"
  /\ IF Len(record.data) >= Limit
       THEN pc' = "finish" /\ record' = [record EXCEPT !.overflow = TRUE]
       ELSE pc' = "more" /\ record' = [record EXCEPT !.data = Append(@, lastSample)]
  /\ UNCHANGED <<dtb, source, sent, got, upto, records>>

\* The next start mark belongs to the next record.  Mutant: it is used up.
FinishEatsStart ==
  /\ pc = "finish"
  /\ record' = IF lastSample.end THEN [record EXCEPT !.data = Append(@, lastSample)]
               ELSE [record EXCEPT !.endError = TRUE]
  /\ lastSample' = [lastSample EXCEPT !.end = TRUE]
  /\ pc' = "idle" /\ records' = Append(records, record')
  /\ upto' = IF lastSample.end THEN got ELSE got - 1
  /\ UNCHANGED <<dtb, buffer, pos, sent, got>>
Finish ==
  /\ pc = "finish"
  /\ record' = IF lastSample.end THEN [record EXCEPT !.data = Append(@, lastSample)]
               ELSE [record EXCEPT !.endError = TRUE]
  /\ pc' = "idle" /\ records' = Append(records, record')
  /\ upto' = IF lastSample.end THEN got ELSE got - 1
  /\ UNCHANGED <<dtb, source, sent, got>>

Get  == GetBuffered \/ FillBuffer \/ FillNothing \/ Throw
Scan == Begin \/ Collect \/ Finish
Next == (\E start, end \in BOOLEAN : Send(start, end)) \/ Fill \/ Stop \/ Read \/ Get \/ Scan

\* A call of Read goes on by itself; neither the DTB nor the user has to do anything.
Spec == Init /\ [][Next]_vars /\ WF_vars(Get) /\ WF_vars(Scan)

-----------------------------------------------------------------------------
(* Properties *)

TypeOK ==
  /\ memory \in Seq(Sample) /\ full \in BOOLEAN /\ stop \in BOOLEAN
  /\ buffer \in Seq(Sample) /\ pos \in 0 .. Len(buffer) /\ lastSample \in Sample
  /\ Len(buffer) <= Block
  /\ pc \in Steps \cup {"idle", "thrown"}
  /\ record \in [data : Seq(Sample), startError : BOOLEAN, endError : BOOLEAN, overflow : BOOLEAN]
  /\ Len(record.data) <= Limit + 1
  /\ sent \in Seq(Sample) /\ got \in 0 .. Len(sent) /\ upto \in 0 .. got

\* "misaligned start", "no end detected", "overflow" (datastream.h:27-29): the records are
\* the DTB's samples cut at their marks, wherever the blocks end: each begins at the first
\* start mark after the one before, ends at its end mark and holds all between, its flags
\* say exactly what is wrong with it, and no event that begins with a start mark of its own
\* is lost.

F == INSTANCE Framing
ImplementsFraming == F!Spec

\* A record without flags is a whole event: a start mark, then bare samples that follow
\* each other on the DTB, then the end mark.
CleanIsWhole ==
  \A k \in 1 .. Len(records) :
    LET r == records[k]
        n == Len(r.data)
    IN  ~r.startError /\ ~r.endError /\ ~r.overflow =>
          /\ n > 1 /\ r.data[1].start /\ r.data[n].end
          /\ \A x \in 1 .. n - 1 : r.data[x + 1].id = r.data[x].id + 1
          /\ \A x \in 2 .. n - 1 : ~r.data[x].start /\ ~r.data[x].end

\* Once the source has been told to stop, or the DTB's memory was full, a call of Read
\* ends: with a record or, when the data are used up, with an exception.  (The DTB sends
\* finitely many samples: as long as it goes on to send some without a start mark, the loop
\* that looks for one goes on as well.)
ReadEnds == (pc \in Steps /\ (stop \/ full)) ~> (pc \in {"idle", "thrown"})
=============================================================================
