----------------------------- MODULE RocOutline -----------------------------
(***************************************************************************)
(* Proof outlines for the commands of RocState: before each step of a      *)
(* command, the cases in which the ROCs may be, whatever earlier commands  *)
(* and the data did.  That an outline is sound is a fact about the text of *)
(* the command, step by step; TLC finds the outlines (MCRocState) and      *)
(* evaluates it.  RocStateProofs shows what sound outlines guarantee.      *)
(***************************************************************************)
EXTENDS RocState

CONSTANTS
  Outline,  \* Outline[c][k]: the cases before step k of c, the end included
  Settled   \* the lists of enabled ROCs, and the ROCs addressed with them, at the prompt

\* roclist, sel, flag, failed: as the variables
\* dirty:   the registers the command has written, but for those that are "kept"
\* local:   registers that are "local"
\* moved:   the registers whose dacval it has changed
\* stale:   the ROCs whose trim values in the FPGA are not modtrm's, but for those blamed
\* armed, running: what is enabled, and the channels that run, but for those left so before
\* Of a command that met an error only roclist, sel, flag and stale are known.
Case == [roclist : SUBSET Rocs, sel : Rocs \cup {NoRoc}, flag : BOOLEAN, failed : BOOLEAN,
         dirty : SUBSET Registers, local : SUBSET Registers, moved : SUBSET Registers,
         stale : SUBSET Rocs, armed : SUBSET (Rocs \X Parts), running : SUBSET Channels]

Entry(p) ==
  [roclist |-> p[1], sel |-> p[2], flag |-> TRUE, failed |-> FALSE, dirty |-> {}, local |-> {},
   moved |-> {}, stale |-> {}, armed |-> {}, running |-> {}]

\* b claims nothing that a does not.
Implies(a, b) ==
  /\ a.roclist = b.roclist /\ a.sel = b.sel /\ a.flag = b.flag /\ a.failed = b.failed
  /\ a.dirty \subseteq b.dirty /\ b.local \subseteq a.local /\ a.moved \subseteq b.moved
  /\ a.stale \subseteq b.stale /\ a.armed \subseteq b.armed /\ a.running \subseteq b.running

-----------------------------------------------------------------------------
(* The cases after a step *)

\* The registers X get the value that dacval has, that of the variable, or any other.
Write(a, X, value) ==
  [a EXCEPT !.dirty = IF value = "kept" THEN @ \ X ELSE @ \cup X,
            !.local = IF value = "local" THEN @ \cup X ELSE @ \ X]

\* The register d of the ROC addressed; what a scan of the ROCs S writes.
Written(a, d)  == IF a.sel \in Rocs THEN {<<a.sel, d>>} ELSE {}
Scans(s, S)    == IF s.arg = None THEN {} ELSE {<<r, s.arg>> : r \in S}
Switches(s, a) == {<<a.sel, p>> : p \in IF s.arg = AllParts THEN Parts ELSE {s.arg}}

WriteCases(s, a) ==
  LET x == <<s.roc, s.arg>> W == Written(a, s.arg)
  IN  CASE s.op = "put"  -> {Write(a, W, "other")}
        [] s.op = "set"  -> {Write(a, W, "local")}
        [] s.op = "note" -> LET b == Write(a, {x}, IF x \in a.local THEN "kept" ELSE "other")
                            IN  {[b EXCEPT !.moved = @ \cup {x}]}
        [] s.op = "back" -> {Write(a, W, IF a.sel = s.roc /\ x \in Preset THEN "kept" ELSE "other")}
        [] s.op = "revert" -> LET b == Write(a, W, IF a.sel = s.roc THEN "kept" ELSE "other")
                              IN  {[b EXCEPT !.moved = @ \ {x}]}

TrimCases(s, a) ==
  IF s.op = "load" \/ (s.op = "last" /\ a.roclist # {} /\ s.roc = Greatest(a.roclist))
    THEN {[a EXCEPT !.stale = @ \ {s.roc}]}
    ELSE {[a EXCEPT !.stale = @ \cup ({s.roc} \cap Rocs)]}

SwitchCases(s, a) ==
  CASE s.op = "arm"    -> {[a EXCEPT !.armed = IF a.sel \in Rocs THEN @ \cup Switches(s, a) ELSE @]}
    [] s.op = "disarm" -> {[a EXCEPT !.armed = @ \ Switches(s, a)]}
    [] s.op = "start"  -> {[a EXCEPT !.running = @ \cup {s.arg}]}
    [] s.op = "stop"   -> {[a EXCEPT !.running = @ \ {s.arg}]}

LoopCases(s, a) ==
  LET S == IF s.op = "scanall" THEN a.roclist ELSE {s.roc}
      X == IF s.op = "loop" THEN {} ELSE Scans(s, S)
      b == Write(a, X, "other")
  IN  {[b EXCEPT !.sel = r] : r \in {a.sel} \cup S}

SelectCases(s, a) ==
  CASE s.op = "select"  -> {[a EXCEPT !.roclist = R] : R \in SUBSET Rocs}
    [] s.op = "first"   -> {[a EXCEPT !.sel = IF a.roclist = {} THEN NoRoc ELSE Least(a.roclist)]}
    [] s.op = "address" -> {[a EXCEPT !.sel = s.roc]}

Writes   == {"put", "set", "note", "back", "revert"}
TrimOps  == {"edit", "clear", "load", "off", "foreign", "last"}
Switchings == {"arm", "disarm", "start", "stop"}
Loops    == {"loop", "scan", "scanall"}
Selects  == {"select", "first", "address"}
Readings == {"scan", "scanall", "read"}
Branches == {"skip", "again", "jump", "unless", "enabled", "needs"}

After(s, a) ==
  CASE s.op \in Writes     -> WriteCases(s, a)
    [] s.op \in TrimOps    -> TrimCases(s, a)
    [] s.op \in Switchings -> SwitchCases(s, a)
    [] s.op \in Loops      -> LoopCases(s, a)
    [] s.op \in Selects    -> SelectCases(s, a)
    [] s.op = "lower"      -> {[a EXCEPT !.flag = FALSE]}
    [] s.op \in Branches \cup {"read", "use"} -> {a}

Targets(s, k, a) ==
  CASE s.op = "skip"    -> {k + 1, k + 1 + s.n}
    [] s.op = "again"   -> {k + 1, k - s.n}
    [] s.op = "jump"    -> {k + 1 + s.n}
    [] s.op = "unless"  -> {IF a.flag THEN k + 1 ELSE k + 1 + s.n}
    [] s.op = "enabled" -> {IF s.roc \in a.roclist THEN k + 1 ELSE k + 1 + s.n}
    [] s.op = "needs"   -> IF <<s.roc, s.arg>> \in Preset THEN {k + 1} ELSE {k + 1, k + 1 + s.n}
    [] s.op \in Ops \ Branches -> {k + 1}

-----------------------------------------------------------------------------
(* Soundness *)

Exit(c)      == Len(Code[c]) + 1
Before(c, k) == Outline[c][IF k > Exit(c) THEN Exit(c) ELSE k]
Covered(c, t, b) == t >= 1 /\ \E d \in Before(c, t) : Implies(b, d)

\* Each step leads from every case before it to one before the next step, an RPC error
\* that the function catches to one where the function returns.
Inductive(c) ==
  /\ Outline[c] \in Seq(SUBSET Case) /\ Len(Outline[c]) = Exit(c)
  /\ \A p \in Settled : Covered(c, 1, Entry(p))
  /\ \A k \in 1 .. Len(Code[c]) : LET s == Code[c][k] IN \A a \in Before(c, k) : \A b \in After(s, a) :
       /\ \A t \in Targets(s, k, a) : Covered(c, t, b)
       /\ s.op \in Readings => Covered(c, k + 1 + s.n, [b EXCEPT !.failed = TRUE])

\* Only a ROC that is enabled has other trim values, wherever an error may end the command,
\* and a value of a ROC goes to that ROC, but for the DACs the command leaves.
Orderly(c) ==
  \A k \in 1 .. Exit(c) : \A a \in Before(c, k) :
    /\ <<a.roclist, a.sel>> \in Settled /\ a.stale \subseteq a.roclist
    /\ k < Exit(c) => LET s == Code[c][k] IN s.op \in {"back", "note", "revert"} =>
                     a.sel = s.roc \/ s.arg \in Leaves[c]

\* What the command leaves behind at its end.
Tidy(c) ==
  \A a \in Before(c, Exit(c)) :
    \/ a.failed
    \/ /\ \A x \in a.dirty : x[2] \in Leaves[c]
       /\ \A x \in a.moved : x[2] \in Purpose[c] \cup Leaves[c]
       /\ a.stale = {} \/ Trims \in Leaves[c]
       /\ (a.armed = {} /\ a.running = {}) \/ Pixels \in Leaves[c]

ASSUME OutlineAssumption == \A c \in Commands : Inductive(c) /\ Orderly(c) /\ Tidy(c)
ASSUME SettledAssumption ==
  \A R \in Enabled : <<R, IF R = {} THEN NoRoc ELSE Least(R)>> \in Settled
=============================================================================
