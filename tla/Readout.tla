------------------------------ MODULE Readout -------------------------------
(***************************************************************************)
(* How the responses of pixels are counted from the words of the DAQ, in   *)
(* the three ways of the code: GetEvent under DacScanPix (one ROC, one     *)
(* pixel), DecodePixel under GetRocData (one ROC, one pixel after the      *)
(* other), and the decoder of modules in DacScanPix.  The words carry no   *)
(* event number: which pixel or DAC step a word belongs to follows from    *)
(* the number of events before it, so a lost word may shift all the rest.  *)
(*                                                                         *)
(* Here one word is lost on the way, loses a mark, is no header any more,  *)
(* or a word without marks is added.                                       *)
(***************************************************************************)
EXTENDS Integers, Sequences, SequencesExt, FiniteSetsExt, Functions

CONSTANTS
  Steps,     \* DAC steps of a scan, or pixels of a map
  Triggers,  \* mTrig
  Rocs       \* enabledrocslist, a sequence

ASSUME StepAssumption == Steps \in Nat \ {0} /\ Triggers \in Nat \ {0}
ASSUME RocAssumption  == Rocs # <<>> /\ IsInjective(Rocs)

VARIABLES
  use,       \* the decoder: "scan", "map" or "module"
  data, pos, \* the words, and the next one
  pc,        \* "daq" before decoding, "event", "pixel", "done", or "error"
  k, cnt, nReadouts,
  iroc, kroc, raw, \* of the module's decoder
  truth,     \* history: the responses of each step or pixel
  damaged    \* history: the events that the fault touched; 0 stands for all that follow

counts == <<k, cnt, nReadouts>>
module == <<iroc, kroc, raw>>
marks  == <<use, truth>>
vars   == <<data, pos, pc, counts, module, marks, damaged>>

Events   == 1 .. Steps * Triggers
Group(e) == (e - 1) \div Triggers + 1

-----------------------------------------------------------------------------
(* External: the words of an event.  A pixel is two words; "own" is the     *)
(* pixel that gets the calibrate pulse, "noise" any other.                  *)

Halves(p, g)  == IF p = "own" THEN <<<<"own", g, 1>>, <<"own", g, 2>>>>
                 ELSE <<<<"noise", 0, 1>>, <<"noise", 0, 2>>>>
HeaderValue == <<"header", 0, 0>>

\* In event e a ROC saw the pixels h, the pulse being at pixel p.
RocWords(e, h, p) ==
  LET vals == <<HeaderValue>> \o FlattenSeq([i \in 1 .. Len(h) |-> Halves(h[i], p)])
  IN  [i \in 1 .. Len(vals) |->
         [start |-> i = 1, end |-> i = Len(vals), v |-> vals[i], event |-> e]]

\* In event e the ROCs of h saw the pixel.  Flags 10 and 8 mark the TBM header, 4 a ROC
\* header, 0 and 2 a pixel, 14 and 12 the trailer.
TbmWords(e, h) ==
  LET word(f, v) == <<[flag |-> f, v |-> v, event |-> e]>>
      header(f)  == word(f, HeaderValue)
      pixel      == word(0, <<"own", 1, 1>>) \o word(2, <<"own", 1, 2>>)
  IN  header(10) \o header(8)
      \o FlattenSeq([i \in 1 .. Len(Rocs) |->
                       header(4) \o (IF Rocs[i] \in h THEN pixel ELSE <<>>)])
      \o header(14) \o header(12)

\* The module's pixel that is measured sits in this ROC.
roc == Rocs[Len(Rocs)]

\* What is to be counted in an event with the hits h.
Response(u, h) ==
  CASE u = "scan"   -> Len(SelectSeq(h, LAMBDA p : p = "own"))
    [] u = "map"    -> IF h # <<>> /\ Head(h) = "own" THEN 1 ELSE 0
    [] u = "module" -> IF roc \in h THEN 1 ELSE 0

RocHits == {<<>>, <<"own">>, <<"noise">>, <<"own", "noise">>, <<"noise", "own">>}
Init ==
  /\ use \in {"scan", "map", "module"}
  /\ \E hits \in [Events -> IF use = "module" THEN SUBSET Range(Rocs) ELSE RocHits] :
       /\ data = FlattenSeq([e \in Events |->
                   CASE use = "scan"   -> RocWords(e, hits[e], 1)
                     [] use = "map"    -> RocWords(e, hits[e], Group(e))
                     [] use = "module" -> TbmWords(e, hits[e])])
       /\ truth = [g \in 1 .. Steps |->
                    SumFunctionOnSet([e \in Events |-> Response(use, hits[e])],
                                     {e \in Events : Group(e) = g})]
  /\ pos = 1 /\ pc = "daq" /\ damaged = {}
  /\ k = 0 /\ cnt = 0 /\ nReadouts = <<>>
  /\ iroc = 0 /\ kroc = "none" /\ raw = HeaderValue

\* The words arrive, all but one of them as they were sent.
Arrive(d, x) ==
  /\ pc = "daq" /\ data' = d /\ damaged' = x /\ pc' = "event"
  /\ UNCHANGED <<pos, counts, module, marks>>

Whole == Arrive(data, {})

\* Without the end of a trailer all the events after it are counted one too low.
Lost ==
  \E i \in 1 .. Len(data) :
    Arrive(RemoveAt(data, i),
           {data[i].event} \cup (IF use = "module" /\ data[i].flag = 12 THEN {0} ELSE {}))

\* Of the module's words only losses are considered.
Noise(e) == [start |-> FALSE, end |-> FALSE, v |-> <<"noise", 0, 1>>, event |-> e]

\* A word loses a mark, or a start mark is left but the header is something else.
Bent ==
  /\ use # "module"
  /\ \E i \in 1 .. Len(data) : \E w \in {[data[i] EXCEPT !.start = FALSE],
                                         [data[i] EXCEPT !.end = FALSE],
                                         [data[i] EXCEPT !.v = <<"noise", 0, 1>>]} :
       /\ w # data[i] /\ (w.v # data[i].v => data[i].start)
       /\ Arrive([data EXCEPT ![i] = w], {data[i].event})

\* A word without marks gets in between.
Added ==
  /\ use # "module"
  /\ \E i \in 1 .. Len(data) : Arrive(InsertAt(data, i, Noise(data[i].event)), {data[i].event})

-----------------------------------------------------------------------------
(* One ROC *)

Has(p) == p <= Len(data)
\* From p on, the first word with property P, or the end of the data.
FirstFrom(p, S) == Min({i \in S : i >= p} \cup {Len(data) + 1})
Starts  == {i \in 1 .. Len(data) : data[i].start}
Headers == {i \in Starts : data[i].v = HeaderValue}

\* The address in two words, if it is that of pixel p.
IsPixel(a, b, p) == a.v = <<"own", p, 1>> /\ b.v = <<"own", p, 2>>

\* An event is complete, with n responses: the next trigger, or the next step.
Count(n) ==
  IF k + 1 < Triggers
    THEN k' = k + 1 /\ cnt' = cnt + n /\ pc' = "event" /\ UNCHANGED nReadouts
    ELSE /\ k' = 0 /\ cnt' = 0 /\ nReadouts' = Append(nReadouts, cnt + n)
         /\ pc' = IF Len(nReadouts) + 1 < Steps THEN "event" ELSE "done"

Error == pc' = "error" /\ UNCHANGED counts

\* GetEvent up to the header, in DacScanPix.
GetEvent ==
  /\ pc = "event" /\ use = "scan"
  /\ LET h == FirstFrom(pos, Headers)
     IN  IF ~Has(h) THEN pos' = h /\ Error
         ELSE /\ pos' = h + 1
              /\ IF ~Has(h + 1) \/ data[h + 1].start THEN Count(0)
                 ELSE pc' = "pixel" /\ UNCHANGED counts
  /\ UNCHANGED <<data, module, marks, damaged>>

\* A pixel of the event: the loop tests the end mark, not the length of the data, before
\* it looks at the next word.  Mutant: it ends before the next start mark, as the line
\* that is commented out has it.
GetPixelToStart ==
  /\ pc = "pixel"
  /\ IF ~Has(pos + 1) \/ data[pos].start THEN Count(0) /\ UNCHANGED pos
     ELSE /\ pos' = pos + 2
          /\ cnt' = cnt + (IF IsPixel(data[pos], data[pos + 1], 1) THEN 1 ELSE 0)
          /\ UNCHANGED <<pc, k, nReadouts>>
  /\ UNCHANGED <<data, module, marks, damaged>>
GetPixel ==
  /\ pc = "pixel"
  /\ IF ~Has(pos + 1) \/ data[pos].end THEN Error /\ UNCHANGED pos
     ELSE LET n == IF IsPixel(data[pos], data[pos + 1], 1) THEN 1 ELSE 0
          IN  /\ pos' = pos + 2
              /\ IF data[pos + 1].end THEN Count(n)
                 ELSE cnt' = cnt + n /\ UNCHANGED <<pc, k, nReadouts>>
  /\ UNCHANGED <<data, module, marks, damaged>>

\* DecodePixel, in GetRocData: the first pixel of the event, the others are skipped.
\* Mutant: the address is not compared.
DecodePixelAnyAddress ==
  /\ pc = "event" /\ use = "map"
  /\ LET h == FirstFrom(pos, Starts)
         next == FirstFrom(h + 1, Starts)
     IN  CASE ~Has(h) -> pos' = h /\ Error
           [] Has(h) /\ next = h + 1 -> pos' = h + 1 /\ Count(0)
           [] Has(h) /\ next = h + 2 -> pos' = h + 2 /\ Error
           [] OTHER -> pos' = next /\ Count(1)
  /\ UNCHANGED <<data, module, marks, damaged>>
DecodePixel ==
  /\ pc = "event" /\ use = "map"
  /\ LET h == FirstFrom(pos, Starts)
         next == FirstFrom(h + 1, Starts)
     IN  CASE ~Has(h) -> pos' = h /\ Error
           [] Has(h) /\ next = h + 1 -> pos' = h + 1 /\ Count(0)
           [] Has(h) /\ next = h + 2 -> pos' = h + 2 /\ Error
           [] OTHER -> /\ pos' = next
                       /\ Count(IF IsPixel(data[h + 1], data[h + 2], Len(nReadouts) + 1)
                                THEN 1 ELSE 0)
  /\ UNCHANGED <<data, module, marks, damaged>>

-----------------------------------------------------------------------------
(* A module: one word at a time *)

Advance(p) == pos' = p + 1 /\ pc' = IF Has(p + 1) THEN "event" ELSE "done"

\* TBM header.  Mutant: the count of ROCs goes on from the last event.
TbmHeaderNoReset ==
  /\ data[pos].flag = 8 /\ UNCHANGED <<iroc, kroc, raw, counts>>
TbmHeader ==
  /\ data[pos].flag = 8 /\ iroc' = 0
  /\ UNCHANGED <<kroc, raw, counts>>

\* Reads beyond enabledrocslist if a header was lost: any number may be there.
RocHeader ==
  /\ data[pos].flag = 4 /\ iroc' = iroc + 1
  /\ IF iroc' <= Len(Rocs) THEN kroc' = Rocs[iroc'] ELSE kroc' \in Range(Rocs) \cup {"none"}
  /\ UNCHANGED <<raw, counts>>

PixelHigh ==
  /\ data[pos].flag = 0 /\ raw' = data[pos].v
  /\ UNCHANGED <<iroc, kroc, counts>>

PixelLow ==
  /\ data[pos].flag = 2
  /\ cnt' = cnt + (IF kroc = roc /\ IsPixel([v |-> raw], data[pos], 1) THEN 1 ELSE 0)
  /\ raw' = HeaderValue
  /\ UNCHANGED <<iroc, kroc, k, nReadouts>>

\* k counts the events of the step.
TbmTrailer ==
  /\ data[pos].flag = 12
  /\ IF k + 1 = Triggers THEN k' = 0 /\ cnt' = 0 /\ nReadouts' = Append(nReadouts, cnt)
     ELSE k' = k + 1 /\ UNCHANGED <<cnt, nReadouts>>
  /\ UNCHANGED module

OtherWord == data[pos].flag \in {10, 14} /\ UNCHANGED <<module, counts>>

DecodeModule ==
  /\ pc = "event" /\ use = "module"
  /\ TbmHeader \/ RocHeader \/ PixelHigh \/ PixelLow \/ TbmTrailer \/ OtherWord
  /\ Advance(pos)
  /\ UNCHANGED <<data, marks, damaged>>

Next == Whole \/ Lost \/ Bent \/ Added \/ GetEvent \/ GetPixel \/ DecodePixel \/ DecodeModule
Spec == Init /\ [][Next]_vars

-----------------------------------------------------------------------------
(* Properties *)

\* A scan that ends without an error has counted right: one word that was lost, lost a mark,
\* is no header any more, or came in between without a mark always ends in an error, if not
\* in its event then at the end of the data (analyzer.cpp 118-230, cmd.cpp 6496-6600).  A
\* word added with a mark makes an event of its own, and nothing tells it from a true one.
DamageIsTold == (use = "scan" /\ pc = "done") => nReadouts = truth

\* In a map the address tells which pixel an event belongs to: after the same damage no pixel
\* is credited with a response that it did not give (analyzer.cpp 25-113, cmd.cpp
\* 10305-10350).
NoFalseResponse == use = "map" => \A g \in 1 .. Len(nReadouts) : nReadouts[g] <= truth[g]

\* In a module a lost word damages its own DAC step only, unless it is the one that ends
\* the trailer: all the other steps are there and right (cmd.cpp 6604-6712).
DamageIsConfined ==
  (use = "module" /\ pc = "done" /\ 0 \notin damaged)
    => /\ Len(nReadouts) = Steps
       /\ \A g \in 1 .. Steps : nReadouts[g] # truth[g] => g \in {Group(e) : e \in damaged}
=============================================================================
