---------------------------- MODULE BoardOutline ----------------------------
(***************************************************************************)
(* Proof outlines for the commands of Board: before each step of a command *)
(* what is known of the DTB and of tbState, whatever earlier commands and  *)
(* the data did.  That an outline is sound is a fact about the text of the *)
(* command, step by step; TLC finds the outlines (MCBoard) and evaluates   *)
(* it.  BoardProofs shows what sound outlines guarantee.                   *)
(***************************************************************************)
EXTENDS Board

CONSTANT Outline  \* Outline[c][k]: what is known before step k of c, the end included

Phased == Signals \cup {"deser"}     \* what tbState has a phase for
Kept   == Settings \ {"daq"}

\* right:  these settings are as tbState or the next command has them, or are blamed
\* calm:   these channels do not run, or "daq" is blamed
\* is:     <<s, n>>: signal s has the clock phase n; the deserializer is the 160 MHz one at n
\* stored: these have the phase of tbState, whatever is blamed
\* quiet:  these channels do not run, the pattern generator is stopped, whatever is blamed
\* chosen: the phases of tbState are a good pair, if the DTB found one
Assertion == [right : SUBSET Kept, calm : SUBSET Channels, is : SUBSET (Phased \X Nat),
              stored : SUBSET Phased, quiet : SUBSET (Channels \cup {"pg"}), chosen : BOOLEAN]

Entry == [right |-> Kept, calm |-> Channels, is |-> {}, stored |-> {}, quiet |-> {}, chosen |-> TRUE]

\* q claims nothing that p does not.
Implies(p, q) ==
  /\ q.right \subseteq p.right /\ q.calm \subseteq p.calm /\ q.is \subseteq p.is
  /\ q.stored \subseteq p.stored /\ q.quiet \subseteq p.quiet
  /\ q.chosen => p.chosen

\* The settings that may be wrong and not blamed.
Doubted(a) == (Kept \ a.right) \cup (IF Channels \subseteq a.calm THEN {} ELSE {"daq"})

-----------------------------------------------------------------------------
(* What is known after a step *)

Home(x) == CASE x = "pg" -> "stop" [] x = "trigger" -> "pg" [] OTHER -> "long"

Forget(a, x) ==
  [a EXCEPT !.right = @ \ {x}, !.stored = @ \ {x}, !.is = {p \in @ : p[1] # x}]
Assign(a, x, n) == LET b == Forget(a, x) IN [b EXCEPT !.is = @ \cup {<<x, n>>}]
Restore(a, x)   == LET b == Forget(a, x) IN [b EXCEPT !.right = @ \cup {x}, !.stored = @ \cup {x}]
Record(a, S, n) ==
  LET X == {x \in S : <<x, n>> \in a.is}
  IN  [a EXCEPT !.right = (@ \ S) \cup X, !.stored = (@ \ S) \cup X, !.chosen = FALSE]

Switch(a, x, to) ==
  [a EXCEPT !.right = IF to = Home(x) THEN @ \cup {x} ELSE @ \ {x},
            !.quiet = IF x # "pg" THEN @ ELSE IF to = "stop" THEN @ \cup {x} ELSE @ \ {x}]

After(s, a) ==
  CASE s.op = "delay"       -> Assign(a, s.arg, s.n)
    [] s.op = "delaytb"     -> Restore(a, s.arg)
    [] s.op = "select"      -> LET b == Forget(a, "deser")
                               IN  IF s.arg = "adc" THEN b ELSE [b EXCEPT !.right = @ \cup {"deser"}]
    [] s.op = "select160"   -> Assign(a, "deser", s.n)
    [] s.op = "select160tb" -> Restore(a, "deser")
    [] s.op = "turn"        -> Switch(a, s.arg, s.to)
    [] s.op = "storeclk"    -> Record(a, Signals, s.n)
    [] s.op = "storedeser"  -> Record(a, {"deser"}, s.n)
    [] s.op = "start"       -> [a EXCEPT !.calm = @ \ {s.arg}, !.quiet = @ \ {s.arg}]
    [] s.op \in {"stop", "close"} -> [a EXCEPT !.calm = @ \cup {s.arg}, !.quiet = @ \cup {s.arg}]
    [] s.op = "good"        -> [a EXCEPT !.chosen = FALSE]
    [] s.op = "choose"      -> [a EXCEPT !.right = @ \ Phased, !.stored = @ \ Phased, !.chosen = TRUE]
    [] OTHER                -> a

Targets(c, k) ==
  LET s == Code[c][k]
  IN  CASE s.op = "skip"  -> {k + 1, k + 1 + s.n}
        [] s.op = "again" -> {k + 1, k - s.n}
        [] s.op = "jump"  -> {k + 1 + s.n}
        [] OTHER          -> {k + 1}

Last(c)      == Len(Code[c]) + 1
Before(c, k) == Outline[c][IF k > Last(c) THEN Last(c) ELSE k]

-----------------------------------------------------------------------------
(* Soundness *)

WellFormed(s) ==
  /\ s.op \in {"delay", "delaytb"} => s.arg \in Signals
  /\ s.op = "select" => s.arg \in {"400", "adc", "generator", "off"}
  /\ s.op \in {"start", "stop", "open", "close", "read"} => s.arg \in Channels
  /\ s.op = "turn" => \/ s.arg = "pg" /\ s.to \in {"loop", "stop"}
                      \/ s.arg = "trigger" /\ s.to \in {"pg", "external", "random", "quiet"}
                      \/ s.arg = "timeout" /\ s.to \in {"short", "long"}

\* Each step leads from what is known before it to what is known before the next one.
Inductive(c) ==
  /\ Outline[c] \in Seq(Assertion) /\ Len(Outline[c]) = Last(c)
  /\ Implies(Entry, Before(c, 1))
  /\ \A k \in 1 .. Len(Code[c]) : \A t \in Targets(c, k) :
       t >= 1 /\ Implies(After(Code[c][k], Before(c, k)), Before(c, t))

\* What is in doubt where the command ends, or meets an RPC error, is what it may leave.
Accounted(c) ==
  /\ Doubted(Before(c, Last(c))) \subseteq Leaves[c]
  /\ \A k \in 1 .. Last(c) : Doubted(Before(c, k)) \subseteq Touches(c)

Searches == {"deser160", "deserext"}

ASSUME ChannelAssumption == "pg" \notin Channels

ASSUME OutlineAssumption ==
  \A c \in Commands :
    /\ \A k \in 1 .. Len(Code[c]) : WellFormed(Code[c][k])
    /\ Inductive(c) /\ Accounted(c)
    /\ c \in Cleans => \A k \in 1 .. Len(Code[c]) :
                         Code[c][k].op = "read" => {"pg", Code[c][k].arg} \subseteq Before(c, k).quiet
    /\ c \in Searches => LET a == Before(c, Last(c)) IN Phased \subseteq a.stored /\ a.chosen
=============================================================================
