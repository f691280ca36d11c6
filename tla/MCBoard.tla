------------------------------ MODULE MCBoard ------------------------------
(* Board with all commands that set up the DTB or take data, and the      *)
(* strongest outline of each.                                              *)
EXTENDS BoardOutline
C == INSTANCE BoardCommands

TwoPhases   == {4, 5}
TwoChannels == {C!Ch0, C!Ch1}

Menu ==
  [clk |-> C!clk(5), sda |-> C!oneDelay("SDA", 9), ctr |-> C!oneDelay("CTR", 9), tin |-> C!oneDelay("TIN", 9),
   pgstop |-> C!pgstop, pgsingle |-> C!pgsingle, pgloop |-> C!pgloop,
   trgsel |-> C!trgsel("external"), trgselpg |-> C!trgsel("pg"),
   dopen |-> C!dopen(C!Ch0), dclose |-> C!dclose(C!Ch0),
   dstart |-> C!dstart(C!Ch0), dstop |-> C!dstop(C!Ch0), dread |-> C!dread, dreadm |-> C!dreadm(C!Ch1),
   dsel |-> C!dsel, dselroca |-> C!dselroca, dselsim |-> C!dselsim, dseloff |-> C!dseloff,
   deser |-> C!deser(5), deser160 |-> C!deser160, deserext |-> C!deserext,
   takedata |-> C!takedata, takedataExt |-> C!takedataExt, onevst |-> C!onevst, tdscan |-> C!tdscan,
   modtd |-> C!modtd, tbmscan |-> C!tbmscan, tbmscant |-> C!tbmscant,
   showclk |-> C!showclk, showctr |-> C!showctr, showsda |-> C!showsda, decoding |-> C!decoding]
MCCode == LET menu == Menu IN menu

MCLeaves ==
  [c \in Commands |->
    CASE c = "sda" -> {"SDA"}
      [] c = "ctr" -> {"CTR"}
      [] c = "tin" -> {"TIN"}
      [] c = "showsda" -> {"SDA", "deser"}
      [] c = "showctr" -> {"CTR", "deser"}
      [] c = "showclk" -> {"CLK", "deser"}
      [] c = "decoding" -> {"CLK", "TIN"}
      [] c = "pgloop" -> {"pg"}
      [] c \in {"trgsel", "deserext"} -> {"trigger"}
      [] c \in {"dstart", "modtd"} -> {"daq"}
      [] c = "dselroca" -> {"deser"}
      [] OTHER -> {}]
MCCleans == {"takedata", "onevst", "tdscan", "modtd", "tbmscan", "showclk", "showctr"}

-----------------------------------------------------------------------------
(* The outlines: at first everything is claimed but at the entry, then each step takes *)
(* from those after it what it does not give, until no claim falls.                    *)

Everything(c) ==
  [right |-> Kept, calm |-> Channels, stored |-> Phased, quiet |-> Channels \cup {"pg"}, chosen |-> TRUE,
   is |-> Phased \X {Code[c][k].n : k \in 1 .. Len(Code[c])}]
Both(p, q) ==
  [right |-> p.right \cap q.right, calm |-> p.calm \cap q.calm, is |-> p.is \cap q.is,
   stored |-> p.stored \cap q.stored, quiet |-> p.quiet \cap q.quiet, chosen |-> p.chosen /\ q.chosen]

Least(S) == CHOOSE x \in S : \A y \in S : x <= y
Most(S)  == CHOOSE x \in S : \A y \in S : x >= y

RECURSIVE Pass(_, _, _), Flow(_, _)
Pass(c, line, k) ==
  IF k > Len(Code[c]) THEN line
  ELSE LET S == {IF t > Last(c) THEN Last(c) ELSE t : t \in Targets(c, k)}
           a == After(Code[c][k], line[k])
           i == Least(S) j == Most(S)
       IN  Pass(c, [[line EXCEPT ![i] = Both(@, a)] EXCEPT ![j] = Both(@, a)], k + 1)
Flow(c, line) == LET next == Pass(c, line, 1) IN IF next = line THEN line ELSE Flow(c, next)

MCOutline ==
  LET outline == [c \in Commands |-> Flow(c, [k \in 1 .. Last(c) |-> IF k = 1 THEN Entry ELSE Everything(c)])]
  IN  outline
=============================================================================
