---------------------------- MODULE BoardProofs ----------------------------
(***************************************************************************)
(* What sound outlines guarantee: for any programs that have them, any     *)
(* phases and channels, and commands and RPC errors without bound.         *)
(***************************************************************************)
EXTENDS BoardOutline, TLAPS

USE DEF None, Prompt, Signals, Knobs, Settings, Kept, Phased, Deser160, Deserializer, Quiet, board

\* What an assertion says of a state.
Right(X)  == \A x \in X : x \notin Wrong \/ x \in blamed
Calm(X)   == \A ch \in X : ch \notin running \/ "daq" \in blamed
Phase(p)  == IF p[1] = "deser" THEN deser = Deser160(p[2]) ELSE delay[p[1]] = p[2]
Are(P)    == \A p \in P : Phase(p)
AsStored(x) == IF x = "deser" THEN deser = Deser160(tbState.deserPhase) ELSE delay[x] = tbState.clockPhase
Stored(X) == \A x \in X : AsStored(x)
Quiets(X) == \A x \in X : IF x = "pg" THEN knob["pg"] = "stop" ELSE x \notin running
Chosen    == seen # {} => <<tbState.clockPhase, tbState.deserPhase>> \in seen
Holds(a) ==
  /\ Right(a.right) /\ Calm(a.calm) /\ Are(a.is) /\ Stored(a.stored) /\ Quiets(a.quiet)
  /\ a.chosen => Chosen

\* The good pairs are those the DTB sent.
Pairs == /\ good \in Seq(Nat \X Nat)
         /\ \A i \in 1 .. Len(good) : good[i] \in seen
         /\ seen # {} => good # <<>>

Knob == [pg : {"loop", "stop"}, trigger : {"pg", "external", "random", "quiet"},
         timeout : {"short", "long"}]
Values ==
  /\ delay \in [Signals -> Nat] /\ deser \in [kind : {"160", "400", "adc", "generator", "off"}, phase : Nat]
  /\ knob \in Knob /\ opened \subseteq Channels /\ running \subseteq Channels
  /\ tbState \in [clockPhase : Nat, deserPhase : Nat, daqOpen : BOOLEAN]

BoardInv ==
  /\ TypeOK /\ Values /\ Pairs /\ pc >= 1
  /\ cmd = Prompt => Wrong \subseteq blamed
  /\ cmd # Prompt => Holds(Before(cmd, pc))

-----------------------------------------------------------------------------
(* Programs and outlines *)

LEMMA NowFacts ==
  ASSUME NEW op, At(op)
  PROVE  /\ cmd \in Commands /\ pc \in 1 .. Len(Code[cmd]) /\ pc \in Nat /\ Len(Code[cmd]) \in Nat
         /\ Now \in Step /\ Now.op = op /\ WellFormed(Now) /\ cmd # Prompt
  <1>1. cmd \in Commands /\ pc \in 1 .. Len(Code[cmd]) /\ Now.op = op
    BY DEF At
  <1>2. Code[cmd] \in Seq(Step)
    BY <1>1, CodeAssumption
  <1>3. Now \in Step /\ pc \in Nat /\ Len(Code[cmd]) \in Nat
    BY <1>1, <1>2 DEF Now
  <1>4. WellFormed(Now)
    BY <1>1, OutlineAssumption DEF Now
  <1> QED BY <1>1, <1>3, <1>4, NameAssumption

LEMMA BeforeFacts ==
  ASSUME NEW c \in Commands, NEW k \in Nat, k >= 1
  PROVE  Before(c, k) \in Assertion
  <1>1. Code[c] \in Seq(Step)
    BY CodeAssumption
  <1>2. Last(c) \in Nat /\ Last(c) >= 1
    BY <1>1 DEF Last
  <1>3. Outline[c] \in Seq(Assertion) /\ Len(Outline[c]) = Last(c)
    BY OutlineAssumption DEF Inductive
  <1>4. (IF k > Last(c) THEN Last(c) ELSE k) \in 1 .. Len(Outline[c])
    BY <1>2, <1>3
  <1> QED BY <1>3, <1>4 DEF Before

\* What is in doubt is what the command may leave, or touches.
LEMMA DoubtFacts ==
  ASSUME NEW c \in Commands, NEW k \in Nat, k >= 1
  PROVE  /\ Doubted(Before(c, k)) \subseteq Touches(c)
         /\ k > Len(Code[c]) => Doubted(Before(c, k)) \subseteq Leaves[c]
  <1>1. Code[c] \in Seq(Step)
    BY CodeAssumption
  <1>2. Last(c) \in Nat /\ Last(c) >= 1 /\ Len(Code[c]) \in Nat /\ Last(c) = Len(Code[c]) + 1
    BY <1>1 DEF Last
  <1>3. /\ Doubted(Before(c, Last(c))) \subseteq Leaves[c]
        /\ \A j \in 1 .. Last(c) : Doubted(Before(c, j)) \subseteq Touches(c)
    BY OutlineAssumption DEF Accounted
  <1>4. CASE k >= Last(c)
    <2>1. Before(c, k) = Before(c, Last(c))
      BY <1>2, <1>4 DEF Before
    <2>2. Last(c) \in 1 .. Last(c)
      BY <1>2
    <2> QED BY <1>3, <2>1, <2>2
  <1>5. CASE k < Last(c)
    <2>1. k \in 1 .. Last(c) /\ ~(k > Len(Code[c]))
      BY <1>2, <1>5
    <2> QED BY <1>3, <2>1
  <1> QED BY <1>2, <1>4, <1>5

LEMMA StepFacts ==
  ASSUME NEW c \in Commands, NEW k \in 1 .. Len(Code[c]), NEW t \in Targets(c, k)
  PROVE  t >= 1 /\ Implies(After(Code[c][k], Before(c, k)), Before(c, t))
  BY OutlineAssumption DEF Inductive

\* What a weaker assertion claims.
LEMMA Weaken ==
  ASSUME NEW p, NEW q, Implies(p, q), Holds(p)
  PROVE  Holds(q)
  BY DEF Implies, Holds, Right, Calm, Are, Stored, Quiets

LEMMA WeakenNext ==
  ASSUME NEW p, NEW q, Implies(p, q), Holds(p)'
  PROVE  Holds(q)'
  BY DEF Implies, Holds, Right, Calm, Are, Stored, Quiets

-----------------------------------------------------------------------------
(* What is wrong *)

Amiss(x) ==
  \/ x \in Signals   /\ delay[x] # tbState.clockPhase
  \/ x = "deser"     /\ (deser.kind = "adc" \/ (deser.kind = "160" /\ deser.phase # tbState.deserPhase))
  \/ x = "pg"        /\ knob["pg"] # "stop"
  \/ x = "trigger"   /\ knob["trigger"] # "pg"
  \/ x = "timeout"   /\ knob["timeout"] # "long"
  \/ x = "daq"       /\ running # {}

LEMMA WrongFacts == \A x \in Settings : x \in Wrong <=> Amiss(x)
  BY DEF Wrong, Amiss

LEMMA WrongNext == \A x \in Settings : x \in Wrong' <=> Amiss(x)'
  BY DEF Wrong, Amiss

LEMMA WrongSettings == Wrong \subseteq Settings
  BY DEF Wrong

-----------------------------------------------------------------------------
(* Each call keeps the types and gives what the outline says *)

LEMMA FieldFacts ==
  ASSUME NEW a \in Assertion
  PROVE  /\ a.right \subseteq Kept /\ a.calm \subseteq Channels /\ a.is \subseteq Phased \X Nat
         /\ a.stored \subseteq Phased /\ a.quiet \subseteq Channels \cup {"pg"} /\ a.chosen \in BOOLEAN
  BY DEF Assertion

LEMMA ForgetFacts ==
  ASSUME NEW a \in Assertion, NEW x
  PROVE  LET b == Forget(a, x) IN
         /\ b.right = a.right \ {x} /\ b.stored = a.stored \ {x} /\ b.is = {p \in a.is : p[1] # x}
         /\ b.calm = a.calm /\ b.quiet = a.quiet /\ b.chosen = a.chosen
         /\ b \in [right : SUBSET Kept, calm : SUBSET Channels, is : SUBSET (Phased \X Nat),
              stored : SUBSET Phased, quiet : SUBSET (Channels \cup {"pg"}), chosen : BOOLEAN]
  BY DEF Assertion, Forget

LEMMA AssignFacts ==
  ASSUME NEW a \in Assertion, NEW x, NEW n
  PROVE  LET b == Assign(a, x, n) IN
         /\ b.right = a.right \ {x} /\ b.stored = a.stored \ {x}
         /\ b.is = {p \in a.is : p[1] # x} \cup {<<x, n>>}
         /\ b.calm = a.calm /\ b.quiet = a.quiet /\ b.chosen = a.chosen
  BY ForgetFacts DEF Assign

LEMMA RestoreFacts ==
  ASSUME NEW a \in Assertion, NEW x
  PROVE  LET b == Restore(a, x) IN
         /\ b.right = (a.right \ {x}) \cup {x} /\ b.stored = (a.stored \ {x}) \cup {x}
         /\ b.is = {p \in a.is : p[1] # x}
         /\ b.calm = a.calm /\ b.quiet = a.quiet /\ b.chosen = a.chosen
  BY ForgetFacts DEF Restore

\* The phase of x changes, that of no other.
LEMMA ForgetHolds ==
  ASSUME Values, NEW a \in Assertion, Holds(a), NEW x \in Phased,
         UNCHANGED <<knob, running, tbState, seen, blamed>>,
         x # "deser" => deser' = deser, \A y \in Signals \ {x} : delay'[y] = delay[y]
  PROVE  Holds(Forget(a, x))'
  <1>1. PICK b : b = Forget(a, x)
    OBVIOUS
  <1>2. /\ b.right = a.right \ {x} /\ b.stored = a.stored \ {x} /\ b.is = {p \in a.is : p[1] # x}
        /\ b.calm = a.calm /\ b.quiet = a.quiet /\ b.chosen = a.chosen
    BY <1>1, ForgetFacts
  <1>3. Right(b.right)'
    <2> SUFFICES ASSUME NEW y \in b.right PROVE y \notin Wrong' \/ y \in blamed'
      BY DEF Right
    <2>1. y \in Settings /\ y \in a.right /\ y # x
      BY <1>2, FieldFacts
    <2>2. Amiss(y)' <=> Amiss(y)
      BY <2>1 DEF Amiss
    <2> QED BY <2>1, <2>2, WrongFacts, WrongNext DEF Holds, Right
  <1>4. Are(b.is)'
    <2> SUFFICES ASSUME NEW p \in b.is PROVE Phase(p)'
      BY DEF Are
    <2>1. Phase(p) /\ p \in Phased \X Nat /\ p[1] # x
      BY <1>2, FieldFacts DEF Holds, Are
    <2> QED BY <2>1 DEF Phase
  <1>5. Stored(b.stored)'
    <2> SUFFICES ASSUME NEW y \in b.stored PROVE AsStored(y)'
      BY DEF Stored
    <2>1. y \in Phased /\ y \in a.stored /\ y # x
      BY <1>2, FieldFacts
    <2>2. AsStored(y)
      BY <2>1 DEF Holds, Stored
    <2> QED BY <2>1, <2>2 DEF AsStored
  <1>6. Calm(b.calm)' /\ Quiets(b.quiet)' /\ (b.chosen => Chosen')
    BY <1>2 DEF Holds, Calm, Quiets, Chosen
  <1> QED BY <1>1, <1>3, <1>4, <1>5, <1>6 DEF Holds

LEMMA AssignHolds ==
  ASSUME NEW a \in Assertion, NEW x, NEW n, Holds(Forget(a, x))', Phase(<<x, n>>)'
  PROVE  Holds(Assign(a, x, n))'
  <1>1. PICK b : b = Forget(a, x)
    OBVIOUS
  <1>2. PICK c : c = Assign(a, x, n)
    OBVIOUS
  <1>3. /\ c.right = b.right /\ c.stored = b.stored /\ c.calm = b.calm /\ c.quiet = b.quiet
        /\ c.chosen = b.chosen /\ c.is = b.is \cup {<<x, n>>}
    <2>1. /\ b.right = a.right \ {x} /\ b.stored = a.stored \ {x} /\ b.is = {p \in a.is : p[1] # x}
          /\ b.calm = a.calm /\ b.quiet = a.quiet /\ b.chosen = a.chosen
      BY <1>1, ForgetFacts
    <2>2. /\ c.right = a.right \ {x} /\ c.stored = a.stored \ {x}
          /\ c.is = {p \in a.is : p[1] # x} \cup {<<x, n>>}
          /\ c.calm = a.calm /\ c.quiet = a.quiet /\ c.chosen = a.chosen
      BY <1>2, AssignFacts
    <2> QED BY <2>1, <2>2
  <1>4. Holds(b)'
    BY <1>1
  <1>5. Are(c.is)'
    BY <1>3, <1>4 DEF Holds, Are
  <1>6. Holds(c)'
    BY <1>3, <1>4, <1>5 DEF Holds
  <1> QED BY <1>2, <1>6

LEMMA RestoreHolds ==
  ASSUME NEW a \in Assertion, NEW x \in Phased, Holds(Forget(a, x))', AsStored(x)'
  PROVE  Holds(Restore(a, x))'
  <1>1. PICK b : b = Forget(a, x)
    OBVIOUS
  <1>2. PICK c : c = Restore(a, x)
    OBVIOUS
  <1>3. /\ c.right = b.right \cup {x} /\ c.stored = b.stored \cup {x} /\ c.calm = b.calm
        /\ c.quiet = b.quiet /\ c.chosen = b.chosen /\ c.is = b.is
    <2>1. /\ b.right = a.right \ {x} /\ b.stored = a.stored \ {x} /\ b.is = {p \in a.is : p[1] # x}
          /\ b.calm = a.calm /\ b.quiet = a.quiet /\ b.chosen = a.chosen
      BY <1>1, ForgetFacts
    <2>2. /\ c.right = (a.right \ {x}) \cup {x} /\ c.stored = (a.stored \ {x}) \cup {x}
          /\ c.is = {p \in a.is : p[1] # x}
          /\ c.calm = a.calm /\ c.quiet = a.quiet /\ c.chosen = a.chosen
      BY <1>2, RestoreFacts
    <2> QED BY <2>1, <2>2
  <1>4. Holds(b)'
    BY <1>1
  <1>5. x \notin Wrong'
    <2>1. ~Amiss(x)'
      <3>1. CASE x = "deser"
        BY <3>1 DEF AsStored, Amiss
      <3>2. CASE x \in Signals
        BY <3>2 DEF AsStored, Amiss
      <3> QED BY <3>1, <3>2
    <2> QED BY <2>1, WrongNext
  <1>6. Right(c.right)' /\ Stored(c.stored)'
    BY <1>3, <1>4, <1>5 DEF Holds, Right, Stored
  <1>7. Holds(c)'
    BY <1>3, <1>4, <1>6 DEF Holds
  <1> QED BY <1>2, <1>7

LEMMA DelayStep ==
  ASSUME BoardInv, Delay, NEW a \in Assertion, NEW s \in Step, s = Now, Holds(a)
  PROVE  Values' /\ Pairs' /\ Holds(After(s, a))'
  <1>1. s.op = "delay" /\ s.arg \in Signals /\ Values /\ Pairs /\ s.n \in Nat
    BY NowFacts DEF Delay, BoardInv, Step, WellFormed
  <1>2. /\ delay' = [delay EXCEPT ![s.arg] = s.n]
        /\ UNCHANGED <<deser, knob, opened, running, tbState, good, seen, blamed>>
    BY DEF Delay, Goto
  <1>3. Values' /\ Pairs' /\ delay'[s.arg] = s.n /\ \A y \in Signals \ {s.arg} : delay'[y] = delay[y]
    BY <1>1, <1>2 DEF Values, Pairs
  <1>4. Holds(Forget(a, s.arg))'
    BY <1>1, <1>2, <1>3, ForgetHolds
  <1>5. Phase(<<s.arg, s.n>>)'
    BY <1>1, <1>3 DEF Phase
  <1>6. Holds(Assign(a, s.arg, s.n))'
    BY <1>4, <1>5, AssignHolds
  <1>7. After(s, a) = Assign(a, s.arg, s.n)
    BY <1>1 DEF After
  <1> QED BY <1>3, <1>6, <1>7

LEMMA DelayTbStep ==
  ASSUME BoardInv, DelayTb, NEW a \in Assertion, NEW s \in Step, s = Now, Holds(a)
  PROVE  Values' /\ Pairs' /\ Holds(After(s, a))'
  <1>1. s.op = "delaytb" /\ s.arg \in Signals /\ Values /\ Pairs
    BY NowFacts DEF DelayTb, BoardInv, WellFormed
  <1>2. /\ delay' = [delay EXCEPT ![s.arg] = tbState.clockPhase]
        /\ UNCHANGED <<deser, knob, opened, running, tbState, good, seen, blamed>>
    BY DEF DelayTb, Goto
  <1>3. /\ Values' /\ Pairs' /\ delay'[s.arg] = tbState.clockPhase
        /\ \A y \in Signals \ {s.arg} : delay'[y] = delay[y]
    BY <1>1, <1>2 DEF Values, Pairs
  <1>4. Holds(Forget(a, s.arg))'
    BY <1>1, <1>2, <1>3, ForgetHolds
  <1>5. AsStored(s.arg)'
    BY <1>1, <1>2, <1>3 DEF AsStored
  <1>6. Holds(Restore(a, s.arg))'
    BY <1>1, <1>4, <1>5, RestoreHolds
  <1>7. After(s, a) = Restore(a, s.arg)
    BY <1>1 DEF After
  <1> QED BY <1>3, <1>6, <1>7

LEMMA SelectStep ==
  ASSUME BoardInv, Select, NEW a \in Assertion, NEW s \in Step, s = Now, Holds(a)
  PROVE  Values' /\ Pairs' /\ Holds(After(s, a))'
  <1>1. /\ s.op = "select" /\ s.arg \in {"400", "adc", "generator", "off"} /\ Values /\ Pairs
    BY NowFacts DEF Select, BoardInv, WellFormed
  <1>2. /\ deser' = [kind |-> s.arg, phase |-> 0]
        /\ UNCHANGED <<delay, knob, opened, running, tbState, good, seen, blamed>>
    BY DEF Select, Goto
  <1>3. Values' /\ Pairs'
    BY <1>1, <1>2 DEF Values, Pairs
  <1>4. Holds(Forget(a, "deser"))'
    BY <1>1, <1>2, ForgetHolds
  <1>5. PICK b : b = Forget(a, "deser")
    OBVIOUS
  <1>6. After(s, a) = IF s.arg = "adc" THEN b ELSE [b EXCEPT !.right = @ \cup {"deser"}]
    BY <1>1, <1>5 DEF After
  <1>7. CASE s.arg = "adc"
    BY <1>3, <1>4, <1>5, <1>6, <1>7
  <1>8. CASE s.arg # "adc"
    <2>1. PICK c : c = [b EXCEPT !.right = @ \cup {"deser"}]
      OBVIOUS
    <2>2. /\ c.right = b.right \cup {"deser"} /\ c.calm = b.calm /\ c.is = b.is
          /\ c.stored = b.stored /\ c.quiet = b.quiet /\ c.chosen = b.chosen
      BY <1>5, <2>1, ForgetFacts
    <2>3. "deser" \notin Wrong'
      <3>1. ~Amiss("deser")'
        BY <1>1, <1>2, <1>8 DEF Amiss
      <3> QED BY <3>1, WrongNext
    <2>4. Holds(b)'
      BY <1>4, <1>5
    <2>5. Right(c.right)'
      BY <2>2, <2>3, <2>4 DEF Holds, Right
    <2>6. Holds(c)'
      BY <2>2, <2>4, <2>5 DEF Holds
    <2> QED BY <1>3, <1>6, <1>8, <2>1, <2>6
  <1> QED BY <1>7, <1>8

LEMMA Select160Step ==
  ASSUME BoardInv, Select160, NEW a \in Assertion, NEW s \in Step, s = Now, Holds(a)
  PROVE  Values' /\ Pairs' /\ Holds(After(s, a))'
  <1>1. s.op = "select160" /\ s.n \in Nat /\ Values /\ Pairs
    BY NowFacts DEF Select160, BoardInv, Step
  <1>2. /\ deser' = [kind |-> "160", phase |-> s.n]
        /\ UNCHANGED <<delay, knob, opened, running, tbState, good, seen, blamed>>
    BY DEF Select160, Goto
  <1>3. Values' /\ Pairs'
    BY <1>1, <1>2 DEF Values, Pairs
  <1>4. Holds(Forget(a, "deser"))'
    BY <1>1, <1>2, ForgetHolds
  <1>5. Phase(<<"deser", s.n>>)'
    BY <1>2 DEF Phase
  <1>6. After(s, a) = Assign(a, "deser", s.n)
    BY <1>1 DEF After
  <1> QED BY <1>3, <1>4, <1>5, <1>6, AssignHolds

LEMMA Select160TbStep ==
  ASSUME BoardInv, Select160Tb, NEW a \in Assertion, NEW s \in Step, s = Now, Holds(a)
  PROVE  Values' /\ Pairs' /\ Holds(After(s, a))'
  <1>1. s.op = "select160tb" /\ Values /\ Pairs
    BY NowFacts DEF Select160Tb, BoardInv
  <1>2. /\ deser' = [kind |-> "160", phase |-> tbState.deserPhase]
        /\ UNCHANGED <<delay, knob, opened, running, tbState, good, seen, blamed>>
    BY DEF Select160Tb, Goto
  <1>3. Values' /\ Pairs'
    BY <1>1, <1>2 DEF Values, Pairs
  <1>4. Holds(Forget(a, "deser"))'
    BY <1>1, <1>2, ForgetHolds
  <1>5. AsStored("deser")'
    BY <1>2 DEF AsStored
  <1>6. After(s, a) = Restore(a, "deser")
    BY <1>1 DEF After
  <1> QED BY <1>3, <1>4, <1>5, <1>6, RestoreHolds

\* Both phases of tbState, or one of them, are set.
LEMMA RecordHolds ==
  ASSUME Values, NEW a \in Assertion, Holds(a), NEW S \in SUBSET Phased, NEW n,
         UNCHANGED <<delay, deser, knob, running, seen, blamed>>,
         \A x \in Kept \ S : Amiss(x)' <=> Amiss(x),
         \A x \in Phased \ S : AsStored(x)' <=> AsStored(x),
         \A x \in S : Phase(<<x, n>>) => AsStored(x)'
  PROVE  Holds(Record(a, S, n))'
  <1>1. PICK c : c = Record(a, S, n)
    OBVIOUS
  <1>2. PICK X : X = {x \in S : <<x, n>> \in a.is}
    OBVIOUS
  <1>3. /\ c.right = (a.right \ S) \cup X /\ c.stored = (a.stored \ S) \cup X
        /\ c.calm = a.calm /\ c.quiet = a.quiet /\ c.is = a.is /\ ~c.chosen
    BY <1>1, <1>2 DEF Record, Assertion
  <1>4. \A x \in X : AsStored(x)' /\ x \in Phased
    BY <1>2 DEF Holds, Are
  <1>5. Right(c.right)'
    <2> SUFFICES ASSUME NEW x \in c.right PROVE x \notin Wrong' \/ x \in blamed'
      BY DEF Right
    <2>1. CASE x \in X
      <3>1. ~Amiss(x)'
        <4>1. AsStored(x)' /\ x \in Phased
          BY <1>4, <2>1
        <4>2. CASE x = "deser"
          BY <4>1, <4>2 DEF AsStored, Amiss
        <4>3. CASE x \in Signals
          BY <4>1, <4>3 DEF AsStored, Amiss
        <4> QED BY <4>1, <4>2, <4>3
      <3> QED BY <1>4, <2>1, <3>1, WrongNext
    <2>2. CASE x \in a.right \ S
      <3>1. x \in Kept \ S
        BY <2>2, FieldFacts
      <3> QED BY <2>2, <3>1, WrongFacts, WrongNext DEF Holds, Right
    <2> QED BY <1>3, <2>1, <2>2
  <1>6. Stored(c.stored)'
    <2> SUFFICES ASSUME NEW x \in c.stored PROVE AsStored(x)'
      BY DEF Stored
    <2>1. CASE x \in X
      BY <1>4, <2>1
    <2>2. CASE x \in a.stored \ S
      <3>1. x \in Phased \ S /\ AsStored(x)
        BY <2>2, FieldFacts DEF Holds, Stored
      <3> QED BY <3>1
    <2> QED BY <1>3, <2>1, <2>2
  <1>7. Are(c.is)' /\ Calm(c.calm)' /\ Quiets(c.quiet)'
    BY <1>3 DEF Holds, Are, Phase, Calm, Quiets
  <1>8. Holds(c)'
    BY <1>3, <1>5, <1>6, <1>7 DEF Holds
  <1> QED BY <1>1, <1>8

LEMMA StoreClkStep ==
  ASSUME BoardInv, StoreClk, NEW a \in Assertion, NEW s \in Step, s = Now, Holds(a)
  PROVE  Values' /\ Pairs' /\ Holds(After(s, a))'
  <1>1. s.op = "storeclk" /\ s.n \in Nat /\ Values /\ Pairs
    BY NowFacts DEF StoreClk, BoardInv, Step
  <1>2. /\ tbState' = [tbState EXCEPT !.clockPhase = s.n]
        /\ UNCHANGED <<delay, deser, knob, opened, running, good, seen, blamed>>
    BY DEF StoreClk, Goto
  <1>3. Values' /\ Pairs' /\ tbState'.clockPhase = s.n /\ tbState'.deserPhase = tbState.deserPhase
    BY <1>1, <1>2 DEF Values, Pairs
  <1>4. \A x \in Kept \ Signals : Amiss(x)' <=> Amiss(x)
    BY <1>2, <1>3 DEF Amiss
  <1>5. \A x \in Phased \ Signals : AsStored(x)' <=> AsStored(x)
    BY <1>2, <1>3 DEF AsStored
  <1>6. \A x \in Signals : Phase(<<x, s.n>>) => AsStored(x)'
    BY <1>2, <1>3 DEF AsStored, Phase
  <1>7. Holds(Record(a, Signals, s.n))'
    BY <1>1, <1>2, <1>4, <1>5, <1>6, RecordHolds
  <1>8. After(s, a) = Record(a, Signals, s.n)
    BY <1>1 DEF After
  <1> QED BY <1>3, <1>7, <1>8

LEMMA StoreDeserStep ==
  ASSUME BoardInv, StoreDeser, NEW a \in Assertion, NEW s \in Step, s = Now, Holds(a)
  PROVE  Values' /\ Pairs' /\ Holds(After(s, a))'
  <1>1. s.op = "storedeser" /\ s.n \in Nat /\ Values /\ Pairs
    BY NowFacts DEF StoreDeser, BoardInv, Step
  <1>2. /\ tbState' = [tbState EXCEPT !.deserPhase = s.n]
        /\ UNCHANGED <<delay, deser, knob, opened, running, good, seen, blamed>>
    BY DEF StoreDeser, Goto
  <1>3. Values' /\ Pairs' /\ tbState'.deserPhase = s.n /\ tbState'.clockPhase = tbState.clockPhase
    BY <1>1, <1>2 DEF Values, Pairs
  <1>4. \A x \in Kept \ {"deser"} : Amiss(x)' <=> Amiss(x)
    BY <1>2, <1>3 DEF Amiss
  <1>5. \A x \in Phased \ {"deser"} : AsStored(x)' <=> AsStored(x)
    BY <1>2, <1>3 DEF AsStored
  <1>6. \A x \in {"deser"} : Phase(<<x, s.n>>) => AsStored(x)'
    BY <1>2, <1>3 DEF AsStored, Phase
  <1>7. Holds(Record(a, {"deser"}, s.n))'
    BY <1>1, <1>2, <1>4, <1>5, <1>6, RecordHolds
  <1>8. After(s, a) = Record(a, {"deser"}, s.n)
    BY <1>1 DEF After
  <1> QED BY <1>3, <1>7, <1>8

\* Only channels start or stop, or nothing changes that an assertion is about.
LEMMA RunningHolds ==
  ASSUME NEW a \in Assertion, Holds(a), NEW c,
         c.right = a.right, c.is = a.is, c.stored = a.stored, c.chosen = a.chosen,
         UNCHANGED <<delay, deser, knob, seen, blamed>>,
         tbState'.clockPhase = tbState.clockPhase, tbState'.deserPhase = tbState.deserPhase,
         \A y \in c.calm : y \in running' => y \in running /\ y \in a.calm,
         \A y \in c.quiet : y # "pg" /\ y \in running' => y \in running /\ y \in a.quiet,
         "pg" \in c.quiet => "pg" \in a.quiet
  PROVE  Holds(c)'
  <1>1. Right(c.right)'
    <2> SUFFICES ASSUME NEW x \in c.right PROVE x \notin Wrong' \/ x \in blamed'
      BY DEF Right
    <2>1. x \in a.right /\ x \in Kept
      BY FieldFacts
    <2>2. Amiss(x)' <=> Amiss(x)
      BY <2>1 DEF Amiss
    <2> QED BY <2>1, <2>2, WrongFacts, WrongNext DEF Holds, Right
  <1>2. Calm(c.calm)'
    BY DEF Holds, Calm
  <1>3. Quiets(c.quiet)'
    <2> SUFFICES ASSUME NEW x \in c.quiet PROVE IF x = "pg" THEN knob'["pg"] = "stop" ELSE x \notin running'
      BY DEF Quiets
    <2> QED BY DEF Holds, Quiets
  <1>4. Are(c.is)' /\ Stored(c.stored)' /\ (c.chosen => Chosen')
    BY DEF Holds, Are, Phase, Stored, AsStored, Chosen
  <1> QED BY <1>1, <1>2, <1>3, <1>4 DEF Holds

LEMMA SameHolds ==
  ASSUME NEW a \in Assertion, Holds(a), UNCHANGED <<delay, deser, knob, running, seen, blamed>>,
         tbState'.clockPhase = tbState.clockPhase, tbState'.deserPhase = tbState.deserPhase
  PROVE  Holds(a)'
  BY RunningHolds DEF Holds, Quiets, Calm

LEMMA TurnStep ==
  ASSUME BoardInv, Turn, NEW a \in Assertion, NEW s \in Step, s = Now, Holds(a)
  PROVE  Values' /\ Pairs' /\ Holds(After(s, a))'
  <1>1. s.op = "turn" /\ WellFormed(s) /\ Values /\ Pairs
    BY NowFacts DEF Turn, BoardInv
  <1>2. /\ knob' = [knob EXCEPT ![s.arg] = s.to]
        /\ UNCHANGED <<delay, deser, opened, running, tbState, good, seen, blamed>>
    BY DEF Turn, Goto
  <1>3. /\ s.arg \in {"pg", "trigger", "timeout"} /\ Values' /\ Pairs' /\ knob'[s.arg] = s.to
        /\ \A y \in {"pg", "trigger", "timeout"} : y # s.arg => knob'[y] = knob[y]
    BY <1>1, <1>2 DEF Values, Pairs, Knob, WellFormed
  <1>4. PICK c : c = Switch(a, s.arg, s.to)
    OBVIOUS
  <1>5. /\ c.right = IF s.to = Home(s.arg) THEN a.right \cup {s.arg} ELSE a.right \ {s.arg}
        /\ c.quiet = IF s.arg # "pg" THEN a.quiet
                     ELSE IF s.to = "stop" THEN a.quiet \cup {s.arg} ELSE a.quiet \ {s.arg}
        /\ c.calm = a.calm /\ c.is = a.is /\ c.stored = a.stored /\ c.chosen = a.chosen
    BY <1>4 DEF Switch, Assertion
  <1>6. Right(c.right)'
    <2> SUFFICES ASSUME NEW x \in c.right PROVE x \notin Wrong' \/ x \in blamed'
      BY DEF Right
    <2>1. CASE x # s.arg
      <3>1. x \in a.right /\ x \in Kept
        BY <1>5, <2>1, FieldFacts
      <3>2. Amiss(x)' <=> Amiss(x)
        BY <1>2, <1>3, <2>1, <3>1 DEF Amiss
      <3> QED BY <1>2, <3>1, <3>2, WrongFacts, WrongNext DEF Holds, Right
    <2>2. CASE x = s.arg
      <3>1. s.to = Home(s.arg)
        BY <1>5, <2>2
      <3>2. ~Amiss(x)'
        BY <1>3, <2>2, <3>1 DEF Amiss, Home
      <3> QED BY <1>3, <2>2, <3>2, WrongNext
    <2> QED BY <2>1, <2>2
  <1>7. Quiets(c.quiet)'
    <2> SUFFICES ASSUME NEW x \in c.quiet PROVE IF x = "pg" THEN knob'["pg"] = "stop" ELSE x \notin running'
      BY DEF Quiets
    <2>1. CASE s.arg = "pg" /\ x = "pg"
      BY <1>3, <1>5, <2>1
    <2>2. CASE ~(s.arg = "pg" /\ x = "pg")
      <3>1. x \in a.quiet
        BY <1>5, <2>2
      <3>2. x = "pg" => knob'["pg"] = knob["pg"]
        BY <1>3, <2>2
      <3> QED BY <1>2, <3>1, <3>2 DEF Holds, Quiets
    <2> QED BY <2>1, <2>2
  <1>8. Calm(c.calm)' /\ Are(c.is)' /\ Stored(c.stored)' /\ (c.chosen => Chosen')
    BY <1>2, <1>5 DEF Holds, Calm, Are, Phase, Stored, AsStored, Chosen
  <1>9. Holds(c)'
    BY <1>6, <1>7, <1>8 DEF Holds
  <1>10. After(s, a) = c
    BY <1>1, <1>4 DEF After
  <1> QED BY <1>3, <1>9, <1>10

LEMMA StopStep ==
  ASSUME BoardInv, Stop, NEW a \in Assertion, NEW s \in Step, s = Now, Holds(a)
  PROVE  Values' /\ Pairs' /\ Holds(After(s, a))'
  <1>1. s.op = "stop" /\ s.arg \in Channels /\ s.arg # "pg" /\ Values /\ Pairs
    BY NowFacts, ChannelAssumption DEF Stop, BoardInv, WellFormed
  <1>2. /\ running' = running \ {s.arg} /\ opened' \subseteq opened
        /\ UNCHANGED <<delay, deser, knob, good, seen, blamed>>
        /\ tbState' = tbState
    BY DEF Stop, Goto
  <1>3. /\ Values' /\ Pairs'
        /\ tbState'.clockPhase = tbState.clockPhase /\ tbState'.deserPhase = tbState.deserPhase
    BY <1>1, <1>2 DEF Values, Pairs
  <1>4. PICK c : c = After(s, a)
    OBVIOUS
  <1>5. /\ c.right = a.right /\ c.is = a.is /\ c.stored = a.stored /\ c.chosen = a.chosen
        /\ c.calm = a.calm \cup {s.arg} /\ c.quiet = a.quiet \cup {s.arg}
    BY <1>1, <1>4 DEF After, Assertion
  <1>6. Holds(c)'
    <2>1. \A y \in c.calm : y \in running' => y \in running /\ y \in a.calm
      BY <1>2, <1>5
    <2>2. \A y \in c.quiet : y # "pg" /\ y \in running' => y \in running /\ y \in a.quiet
      BY <1>2, <1>5
    <2>3. "pg" \in c.quiet => "pg" \in a.quiet
      BY <1>1, <1>5
    <2> QED BY <1>2, <1>3, <1>5, <2>1, <2>2, <2>3, RunningHolds
  <1> QED BY <1>3, <1>4, <1>6

LEMMA CloseStep ==
  ASSUME BoardInv, Close, NEW a \in Assertion, NEW s \in Step, s = Now, Holds(a)
  PROVE  Values' /\ Pairs' /\ Holds(After(s, a))'
  <1>1. s.op = "close" /\ s.arg \in Channels /\ s.arg # "pg" /\ Values /\ Pairs
    BY NowFacts, ChannelAssumption DEF Close, BoardInv, WellFormed
  <1>2. /\ running' = running \ {s.arg} /\ opened' \subseteq opened
        /\ UNCHANGED <<delay, deser, knob, good, seen, blamed>>
        /\ tbState' = [tbState EXCEPT !.daqOpen = FALSE]
    BY DEF Close, Goto
  <1>3. /\ Values' /\ Pairs'
        /\ tbState'.clockPhase = tbState.clockPhase /\ tbState'.deserPhase = tbState.deserPhase
    BY <1>1, <1>2 DEF Values, Pairs
  <1>4. PICK c : c = After(s, a)
    OBVIOUS
  <1>5. /\ c.right = a.right /\ c.is = a.is /\ c.stored = a.stored /\ c.chosen = a.chosen
        /\ c.calm = a.calm \cup {s.arg} /\ c.quiet = a.quiet \cup {s.arg}
    BY <1>1, <1>4 DEF After, Assertion
  <1>6. Holds(c)'
    <2>1. \A y \in c.calm : y \in running' => y \in running /\ y \in a.calm
      BY <1>2, <1>5
    <2>2. \A y \in c.quiet : y # "pg" /\ y \in running' => y \in running /\ y \in a.quiet
      BY <1>2, <1>5
    <2>3. "pg" \in c.quiet => "pg" \in a.quiet
      BY <1>1, <1>5
    <2> QED BY <1>2, <1>3, <1>5, <2>1, <2>2, <2>3, RunningHolds
  <1> QED BY <1>3, <1>4, <1>6

LEMMA StartStep ==
  ASSUME BoardInv, Start, NEW a \in Assertion, NEW s \in Step, s = Now, Holds(a)
  PROVE  Values' /\ Pairs' /\ Holds(After(s, a))'
  <1>1. s.op = "start" /\ s.arg \in Channels /\ s.arg # "pg" /\ Values /\ Pairs
    BY NowFacts, ChannelAssumption DEF Start, BoardInv, WellFormed
  <1>2. /\ running' = running \cup {s.arg}
        /\ UNCHANGED <<delay, deser, knob, opened, tbState, good, seen, blamed>>
    BY DEF Start, Goto
  <1>3. Values' /\ Pairs'
    BY <1>1, <1>2 DEF Values, Pairs
  <1>4. PICK c : c = After(s, a)
    OBVIOUS
  <1>5. /\ c.right = a.right /\ c.is = a.is /\ c.stored = a.stored /\ c.chosen = a.chosen
        /\ c.calm = a.calm \ {s.arg} /\ c.quiet = a.quiet \ {s.arg}
    BY <1>1, <1>4 DEF After, Assertion
  <1>6. Holds(c)'
    <2>1. \A y \in c.calm : y \in running' => y \in running /\ y \in a.calm
      BY <1>2, <1>5
    <2>2. \A y \in c.quiet : y # "pg" /\ y \in running' => y \in running /\ y \in a.quiet
      BY <1>2, <1>5
    <2>3. "pg" \in c.quiet => "pg" \in a.quiet
      BY <1>1, <1>5
    <2> QED BY <1>2, <1>5, <2>1, <2>2, <2>3, RunningHolds
  <1> QED BY <1>3, <1>4, <1>6

\* Calls and control that change no setting.
Idle == Open \/ Single \/ Read \/ Skip \/ Again \/ Jump
LEMMA IdleStep ==
  ASSUME BoardInv, Idle, NEW a \in Assertion, NEW s \in Step, s = Now, Holds(a)
  PROVE  Values' /\ Pairs' /\ Holds(After(s, a))'
  <1>1. Values /\ Pairs
    BY DEF BoardInv
  <1>2. s.op \in {"open", "single", "read", "skip", "again", "jump"} /\ (Open => s.arg \in Channels)
    BY NowFacts DEF Idle, Open, Single, Read, Skip, Again, Jump, WellFormed
  <1>3. /\ UNCHANGED <<delay, deser, knob, running, good, seen, blamed>>
        /\ \/ UNCHANGED <<opened, tbState>>
           \/ /\ opened' = opened \cup {s.arg} /\ s.arg \in Channels
              /\ tbState' = [tbState EXCEPT !.daqOpen = TRUE]
    BY <1>2 DEF Idle, Open, Single, Read, Skip, Again, Jump, Goto
  <1>4. /\ Values' /\ Pairs'
        /\ tbState'.clockPhase = tbState.clockPhase /\ tbState'.deserPhase = tbState.deserPhase
    BY <1>1, <1>3 DEF Values, Pairs
  <1>5. After(s, a) = a
    BY <1>2 DEF After
  <1> QED BY <1>3, <1>4, <1>5, SameHolds

LEMMA GoodStep ==
  ASSUME BoardInv, Good, NEW a \in Assertion, NEW s \in Step, s = Now, Holds(a)
  PROVE  Values' /\ Pairs' /\ Holds(After(s, a))'
  <1>1. s.op = "good" /\ s.n \in Nat /\ s.m \in Nat /\ Values /\ Pairs
    BY NowFacts DEF Good, BoardInv, Step
  <1>2. /\ UNCHANGED <<delay, deser, knob, opened, running, tbState, blamed>>
        /\ \/ good' = Append(good, <<s.n, s.m>>) /\ seen' = seen \cup {<<s.n, s.m>>}
           \/ UNCHANGED <<good, seen>>
    BY DEF Good, Goto, Pair
  <1>3. Values'
    BY <1>1, <1>2 DEF Values
  <1>4. Pairs'
    <2>1. CASE UNCHANGED <<good, seen>>
      BY <1>1, <2>1 DEF Pairs
    <2>2. CASE good' = Append(good, <<s.n, s.m>>) /\ seen' = seen \cup {<<s.n, s.m>>}
      <3>1. good \in Seq(Nat \X Nat) /\ <<s.n, s.m>> \in Nat \X Nat
        BY <1>1 DEF Pairs
      <3>2. /\ good' \in Seq(Nat \X Nat) /\ Len(good') = Len(good) + 1 /\ Len(good) \in Nat
            /\ good'[Len(good) + 1] = <<s.n, s.m>>
            /\ \A i \in 1 .. Len(good) : good'[i] = good[i]
        BY <2>2, <3>1
      <3>3. \A i \in 1 .. Len(good') : good'[i] \in seen'
        BY <1>1, <2>2, <3>2 DEF Pairs
      <3>4. good' # <<>>
        BY <3>2
      <3> QED BY <3>2, <3>3, <3>4 DEF Pairs
    <2> QED BY <1>2, <2>1, <2>2
  <1>5. PICK c : c = After(s, a)
    OBVIOUS
  <1>6. /\ c.right = a.right /\ c.is = a.is /\ c.stored = a.stored /\ c.calm = a.calm
        /\ c.quiet = a.quiet /\ ~c.chosen
    BY <1>1, <1>5 DEF After, Assertion
  <1>7. Right(c.right)'
    <2> SUFFICES ASSUME NEW x \in c.right PROVE x \notin Wrong' \/ x \in blamed'
      BY DEF Right
    <2>1. x \in a.right /\ x \in Kept
      BY <1>6, FieldFacts
    <2>2. Amiss(x)' <=> Amiss(x)
      BY <1>2, <2>1 DEF Amiss
    <2> QED BY <1>2, <2>1, <2>2, WrongFacts, WrongNext DEF Holds, Right
  <1>8. Calm(c.calm)' /\ Are(c.is)' /\ Stored(c.stored)' /\ Quiets(c.quiet)'
    BY <1>2, <1>6 DEF Holds, Calm, Are, Phase, Stored, AsStored, Quiets
  <1>9. Holds(c)'
    BY <1>6, <1>7, <1>8 DEF Holds
  <1> QED BY <1>3, <1>4, <1>5, <1>9

LEMMA ChooseStep ==
  ASSUME BoardInv, Choose, NEW a \in Assertion, NEW s \in Step, s = Now, Holds(a)
  PROVE  Values' /\ Pairs' /\ Holds(After(s, a))'
  <1>1. s.op = "choose" /\ Values /\ Pairs
    BY NowFacts DEF Choose, BoardInv
  <1>2. /\ UNCHANGED <<delay, deser, knob, opened, running, good, seen, blamed>>
        /\ tbState' = IF good = <<>> THEN tbState
                      ELSE [tbState EXCEPT !.clockPhase = Middle[1], !.deserPhase = Middle[2]]
    BY DEF Choose, Goto
  <1>3. good # <<>> => Middle \in seen /\ Middle \in Nat \X Nat
    <2> SUFFICES ASSUME good # <<>> PROVE Middle \in seen /\ Middle \in Nat \X Nat
      OBVIOUS
    <2>1. Len(good) \in Nat /\ Len(good) # 0
      BY <1>1 DEF Pairs
    <2>2. (Len(good) - 1) \div 2 + 1 \in 1 .. Len(good)
      BY <2>1
    <2> QED BY <1>1, <2>2 DEF Pairs, Middle
  <1>4. Values' /\ Pairs'
    BY <1>1, <1>2, <1>3 DEF Values, Pairs
  <1>5. Chosen'
    <2>1. CASE good = <<>>
      BY <1>1, <1>2, <2>1 DEF Pairs, Chosen
    <2>2. CASE good # <<>>
      <3>1. tbState'.clockPhase = Middle[1] /\ tbState'.deserPhase = Middle[2]
        BY <1>1, <1>2, <2>2 DEF Values
      <3>2. <<Middle[1], Middle[2]>> = Middle
        BY <1>3, <2>2
      <3> QED BY <1>2, <1>3, <2>2, <3>1, <3>2 DEF Chosen
    <2> QED BY <2>1, <2>2
  <1>6. PICK c : c = After(s, a)
    OBVIOUS
  <1>7. /\ c.right = a.right \ Phased /\ c.is = a.is /\ c.stored = a.stored \ Phased
        /\ c.calm = a.calm /\ c.quiet = a.quiet
    BY <1>1, <1>6 DEF After, Assertion
  <1>8. Right(c.right)'
    <2> SUFFICES ASSUME NEW x \in c.right PROVE x \notin Wrong' \/ x \in blamed'
      BY DEF Right
    <2>1. x \in a.right /\ x \in Kept \ Phased
      BY <1>7, FieldFacts
    <2>2. Amiss(x)' <=> Amiss(x)
      BY <1>2, <2>1 DEF Amiss
    <2> QED BY <1>2, <2>1, <2>2, WrongFacts, WrongNext DEF Holds, Right
  <1>9. c.stored = {}
    BY <1>7, FieldFacts
  <1>10. Calm(c.calm)' /\ Are(c.is)' /\ Stored(c.stored)' /\ Quiets(c.quiet)'
    BY <1>2, <1>7, <1>9 DEF Holds, Calm, Are, Phase, Stored, Quiets
  <1>11. Holds(c)'
    BY <1>5, <1>8, <1>10 DEF Holds
  <1> QED BY <1>4, <1>6, <1>11

-----------------------------------------------------------------------------
(* The invariant *)

Calls == \/ Delay \/ DelayTb \/ Select \/ Select160 \/ Select160Tb \/ Turn \/ StoreClk \/ StoreDeser
         \/ Close \/ Start \/ Stop \/ Good \/ Choose

LEMMA EveryStep ==
  ASSUME BoardInv, Do, NEW a \in Assertion, NEW s \in Step, s = Now, Holds(a)
  PROVE  Values' /\ Pairs' /\ Holds(After(s, a))'
  <1>1. Calls \/ Idle
    BY DEF Do, Calls, Idle
  <1>2. CASE Idle
    BY <1>2, IdleStep, Zenon
  <1>3. CASE Calls
    <2>1. Delay => Values' /\ Pairs' /\ Holds(After(s, a))'
      BY DelayStep, Zenon
    <2>2. DelayTb => Values' /\ Pairs' /\ Holds(After(s, a))'
      BY DelayTbStep, Zenon
    <2>3. Select => Values' /\ Pairs' /\ Holds(After(s, a))'
      BY SelectStep, Zenon
    <2>4. Select160 => Values' /\ Pairs' /\ Holds(After(s, a))'
      BY Select160Step, Zenon
    <2>5. Select160Tb => Values' /\ Pairs' /\ Holds(After(s, a))'
      BY Select160TbStep, Zenon
    <2>6. Turn => Values' /\ Pairs' /\ Holds(After(s, a))'
      BY TurnStep, Zenon
    <2>7. StoreClk => Values' /\ Pairs' /\ Holds(After(s, a))'
      BY StoreClkStep, Zenon
    <2>8. StoreDeser => Values' /\ Pairs' /\ Holds(After(s, a))'
      BY StoreDeserStep, Zenon
    <2>9. Close => Values' /\ Pairs' /\ Holds(After(s, a))'
      BY CloseStep, Zenon
    <2>10. Start => Values' /\ Pairs' /\ Holds(After(s, a))'
      BY StartStep, Zenon
    <2>11. Stop => Values' /\ Pairs' /\ Holds(After(s, a))'
      BY StopStep, Zenon
    <2>12. Good => Values' /\ Pairs' /\ Holds(After(s, a))'
      BY GoodStep, Zenon
    <2>13. Choose => Values' /\ Pairs' /\ Holds(After(s, a))'
      BY ChooseStep, Zenon
    <2> QED
      BY <1>3, <2>1, <2>2, <2>3, <2>4, <2>5, <2>6, <2>7, <2>8, <2>9, <2>10, <2>11, <2>12, <2>13, Zenon DEF Calls
  <1> QED BY <1>1, <1>2, <1>3, Zenon

\* Where a command goes on.
LEMMA GotoFacts ==
  ASSUME BoardInv, Do
  PROVE  /\ cmd \in Commands /\ pc \in 1 .. Len(Code[cmd]) /\ Now \in Step
         /\ pc' \in Targets(cmd, pc) /\ UNCHANGED <<cmd, blamed, commands, errors>>
  <1>1. PICK op \in Ops : At(op)
    BY DEF Do, Ops, Delay, DelayTb, Select, Select160, Select160Tb, Turn, StoreClk, StoreDeser,
       Open, Close, Start, Stop, Single, Read, Good, Choose, Skip, Again, Jump
  <1>2. cmd \in Commands /\ pc \in 1 .. Len(Code[cmd]) /\ Now \in Step /\ Now.op = op /\ pc \in Nat
    BY <1>1, NowFacts
  <1>3. Now.n \in Nat
    BY <1>2 DEF Step
  <1>4. /\ \/ pc' = pc + 1 /\ ~At("jump")
           \/ At("skip") /\ (pc' = pc + 1 \/ pc' = pc + 1 + Now.n)
           \/ At("again") /\ (pc' = pc + 1 \/ pc' = pc - Now.n)
           \/ At("jump") /\ pc' = pc + 1 + Now.n
        /\ UNCHANGED <<cmd, blamed, commands, errors>>
    <2>1. PICK k \in {0, Now.n, -(Now.n + 1)} :
             /\ Goto(k)
             /\ \/ k = 0 /\ ~At("jump")
                \/ At("skip") /\ k \in {0, Now.n}
                \/ At("again") /\ k \in {0, -(Now.n + 1)}
                \/ At("jump") /\ k = Now.n
      <3>1. CASE Skip
        BY <3>1 DEF Skip
      <3>2. CASE Again
        BY <3>2 DEF Again
      <3>3. CASE Jump
        BY <3>3 DEF Jump
      <3>4. CASE ~(Skip \/ Again \/ Jump)
        <4>1. Goto(0) /\ ~At("jump")
          BY <3>4 DEF Do, At, Delay, DelayTb, Select, Select160, Select160Tb, Turn, StoreClk, StoreDeser,
             Open, Close, Start, Stop, Single, Read, Good, Choose
        <4> QED BY <4>1
      <3> QED BY <3>1, <3>2, <3>3, <3>4
    <2> QED BY <1>2, <1>3, <2>1 DEF Goto
  <1>5. pc' \in Targets(cmd, pc)
    BY <1>2, <1>3, <1>4 DEF Targets, At, Now
  <1> QED BY <1>2, <1>4, <1>5

LEMMA DoStep ==
  ASSUME BoardInv, Do
  PROVE  BoardInv'
  <1>1. /\ cmd \in Commands /\ pc \in 1 .. Len(Code[cmd]) /\ Now \in Step
        /\ pc' \in Targets(cmd, pc) /\ UNCHANGED <<cmd, blamed, commands, errors>>
    BY GotoFacts
  <1>2. PICK c \in Commands : c = cmd
    BY <1>1
  <1>3. PICK k \in 1 .. Len(Code[c]) : k = pc
    BY <1>1, <1>2
  <1>4. PICK t \in Targets(c, k) : t = pc'
    BY <1>1, <1>2, <1>3
  <1>5. PICK s \in Step : s = Now
    BY <1>1
  <1>6. PICK a \in Assertion : a = Before(c, k)
    <2>1. k \in Nat /\ k >= 1
      BY <1>1, <1>2, <1>3
    <2> QED BY <2>1, BeforeFacts
  <1>7. c # Prompt /\ s = Code[c][k]
    BY <1>2, <1>3, <1>5, NameAssumption DEF Now
  <1>8. Holds(a)
    BY <1>2, <1>3, <1>6, <1>7 DEF BoardInv
  <1>9. Values' /\ Pairs' /\ Holds(After(s, a))'
    BY <1>5, <1>8, EveryStep, Zenon
  <1>10. t >= 1 /\ Implies(After(s, a), Before(c, t))
    BY <1>6, <1>7, StepFacts
  <1>11. PICK b : b = Before(c, t)
    OBVIOUS
  <1>12. PICK d : d = After(s, a)
    OBVIOUS
  <1>13. Implies(d, b) /\ Holds(d)'
    BY <1>9, <1>10, <1>11, <1>12
  <1>14. Holds(b)'
    BY <1>13, WeakenNext
  <1>15. Holds(Before(cmd, pc))'
    BY <1>1, <1>2, <1>4, <1>11, <1>14
  <1>16. pc' \in Nat /\ pc' >= 1
    <2>1. Len(Code[c]) \in Nat /\ s.n \in Nat
      BY <1>7, CodeAssumption DEF Step
    <2>2. t \in Int
      BY <1>3, <1>7, <2>1 DEF Targets
    <2> QED BY <1>4, <1>10, <2>2
  <1>17. TypeOK'
    BY <1>1, <1>9, <1>16 DEF TypeOK, Values, Knob, BoardInv
  <1> QED BY <1>1, <1>2, <1>7, <1>9, <1>15, <1>16, <1>17 DEF BoardInv

\* Nothing is wrong that is not blamed, and no pair was found yet: the entry of every command.
LEMMA BeginStep ==
  ASSUME BoardInv, NEW c \in Commands, Begin(c)
  PROVE  BoardInv'
  <1>1. /\ cmd = Prompt /\ cmd' = c /\ pc' = 1 /\ good' = <<>> /\ seen' = {} /\ commands' = commands + 1
        /\ commands < MaxCommands
        /\ UNCHANGED <<delay, deser, knob, opened, running, tbState, blamed, errors>>
    BY DEF Begin
  <1>2. Values' /\ Pairs'
    BY <1>1 DEF BoardInv, Values, Pairs
  <1>3. Wrong' = Wrong /\ Wrong \subseteq blamed
    BY <1>1 DEF Wrong, BoardInv
  <1>4. PICK e : e = Entry
    OBVIOUS
  <1>5. /\ e.right = Kept /\ e.calm = Channels /\ e.is = {} /\ e.stored = {} /\ e.quiet = {}
        /\ e.chosen = TRUE
    BY <1>4 DEF Entry
  <1>6. Right(e.right)' /\ Are(e.is)' /\ Stored(e.stored)' /\ Quiets(e.quiet)' /\ Chosen'
    BY <1>1, <1>3, <1>5 DEF Right, Are, Stored, Quiets, Chosen
  <1>7. Calm(e.calm)'
    <2>1. running # {} => "daq" \in blamed
      BY <1>3, WrongFacts DEF Amiss
    <2> QED BY <1>1, <2>1 DEF Calm
  <1>8. Holds(e)'
    BY <1>6, <1>7 DEF Holds
  <1>9. PICK b : b = Before(c, 1)
    OBVIOUS
  <1>10. Implies(e, b)
    BY <1>4, <1>9, OutlineAssumption DEF Inductive
  <1>11. Holds(b)'
    BY <1>8, <1>10, WeakenNext
  <1>12. Holds(Before(cmd, pc))'
    BY <1>1, <1>9, <1>11
  <1>13. TypeOK'
    BY <1>1, BoundAssumption DEF BoardInv, TypeOK
  <1> QED BY <1>1, <1>2, <1>12, <1>13, NameAssumption DEF BoardInv

\* What is wrong and not blamed is in doubt.
LEMMA WrongIsDoubted ==
  ASSUME Values, NEW a \in Assertion, Holds(a)
  PROVE  Wrong \subseteq blamed \cup Doubted(a)
  <1> SUFFICES ASSUME NEW x \in Wrong, x \notin blamed PROVE x \in Doubted(a)
    OBVIOUS
  <1>1. x \in Settings /\ Amiss(x)
    BY WrongFacts, WrongSettings
  <1>2. CASE x = "daq"
    <2>1. PICK ch \in running : ch \in Channels
      BY <1>1, <1>2 DEF Amiss, Values
    <2>2. ch \notin a.calm
      BY <1>2, <2>1 DEF Holds, Calm
    <2> QED BY <1>2, <2>1, <2>2 DEF Doubted
  <1>3. CASE x # "daq"
    <2>1. x \in Kept /\ x \notin a.right
      BY <1>1, <1>3 DEF Holds, Right
    <2> QED BY <2>1 DEF Doubted
  <1> QED BY <1>2, <1>3

LEMMA LeaveStep ==
  ASSUME BoardInv, cmd \in Commands, NEW excused, Leave(excused),
         Doubted(Before(cmd, pc)) \subseteq excused, errors' \in 0 .. MaxErrors
  PROVE  BoardInv'
  <1>1. /\ cmd' = Prompt /\ pc' = 1 /\ good' = <<>> /\ seen' = {}
        /\ blamed' = Wrong \cap (blamed \cup excused)
        /\ UNCHANGED <<delay, deser, knob, opened, running, tbState, commands>>
    BY DEF Leave
  <1>2. Values' /\ Pairs'
    BY <1>1 DEF BoardInv, Values, Pairs
  <1>3. Wrong' = Wrong
    BY <1>1 DEF Wrong
  <1>4. PICK a : a = Before(cmd, pc)
    OBVIOUS
  <1>5. a \in Assertion /\ Holds(a) /\ Values
    <2>1. pc \in Nat /\ pc >= 1 /\ cmd # Prompt
      BY NameAssumption DEF BoardInv, TypeOK
    <2> QED BY <1>4, <2>1, BeforeFacts DEF BoardInv
  <1>6. Wrong \subseteq blamed \cup Doubted(a)
    BY <1>5, WrongIsDoubted
  <1>7. Wrong' \subseteq blamed'
    BY <1>1, <1>3, <1>4, <1>6
  <1>8. TypeOK'
    BY <1>1, WrongSettings DEF BoardInv, TypeOK
  <1> QED BY <1>1, <1>2, <1>7, <1>8 DEF BoardInv

LEMMA EndStep ==
  ASSUME BoardInv, End
  PROVE  BoardInv'
  <1>1. cmd \in Commands /\ pc > Len(Code[cmd]) /\ Leave(Leaves[cmd]) /\ errors' = errors
    BY DEF End, Returning
  <1>2. Doubted(Before(cmd, pc)) \subseteq Leaves[cmd] /\ errors' \in 0 .. MaxErrors
    BY <1>1, DoubtFacts DEF BoardInv, TypeOK
  <1> QED BY <1>1, <1>2, LeaveStep

LEMMA AbortStep ==
  ASSUME BoardInv, Abort
  PROVE  BoardInv'
  <1>1. cmd \in Commands /\ errors < MaxErrors /\ Leave(Touches(cmd)) /\ errors' = errors + 1
    BY DEF Abort
  <1>2. Doubted(Before(cmd, pc)) \subseteq Touches(cmd) /\ errors' \in 0 .. MaxErrors
    BY <1>1, DoubtFacts, BoundAssumption DEF BoardInv, TypeOK
  <1> QED BY <1>1, <1>2, LeaveStep

LEMMA BoardInvInit == Init => BoardInv
  <1> SUFFICES ASSUME Init PROVE BoardInv
    OBVIOUS
  <1>1. Values /\ Pairs
    BY DEF Init, Values, Pairs, Knob, Default
  <1>2. TypeOK /\ pc >= 1
    BY <1>1, BoundAssumption DEF Init, TypeOK, Values, Knob
  <1>3. Wrong = {}
    BY DEF Init, Wrong, Default
  <1> QED BY <1>1, <1>2, <1>3 DEF Init, BoardInv

LEMMA BoardInvStep == BoardInv /\ [Next]_vars => BoardInv'
  <1> SUFFICES ASSUME BoardInv, [Next]_vars PROVE BoardInv'
    OBVIOUS
  <1>1. CASE Next
    <2>1. (\E c \in Commands : Begin(c)) => BoardInv'
      BY BeginStep, Zenon
    <2>2. Do => BoardInv'
      BY DoStep, Zenon
    <2>3. End => BoardInv'
      BY EndStep, Zenon
    <2>4. Abort => BoardInv'
      BY AbortStep, Zenon
    <2> QED BY <1>1, <2>1, <2>2, <2>3, <2>4, Zenon DEF Next
  <1>2. CASE UNCHANGED vars
    <2>1. Wrong' = Wrong /\ Values' /\ Pairs' /\ TypeOK'
      <3>1. Wrong' = Wrong
        BY <1>2 DEF vars, Wrong
      <3>2. Values' /\ Pairs'
        BY <1>2 DEF vars, BoardInv, Values, Pairs
      <3>3. TypeOK'
        BY <1>2 DEF vars, BoardInv, TypeOK
      <3> QED BY <3>1, <3>2, <3>3
    <2>2. cmd # Prompt => Holds(Before(cmd, pc))'
      <3>1. PICK a : a = Before(cmd, pc)
        OBVIOUS
      <3>2. Holds(a) => Holds(a)'
        BY <1>2, <2>1 DEF vars, Holds, Right, Calm, Are, Phase, Stored, AsStored, Quiets, Chosen
      <3> QED BY <1>2, <3>1, <3>2 DEF vars, BoardInv
    <2>3. UNCHANGED <<cmd, pc, blamed>>
      BY <1>2 DEF vars
    <2>4. pc' >= 1 /\ (cmd' = Prompt => Wrong' \subseteq blamed')
      BY <2>1, <2>3 DEF BoardInv
    <2>5. cmd' # Prompt => Holds(Before(cmd, pc))'
      BY <2>2, <2>3
    <2> QED BY <2>1, <2>4, <2>5 DEF BoardInv
  <1> QED BY <1>1, <1>2

\* What the outlines say holds throughout.
THEOREM BoardInvariant == Spec => []BoardInv
  BY BoardInvInit, BoardInvStep, PTL DEF Spec

-----------------------------------------------------------------------------
(* What it gives *)

\* The board, the record of it and the command at work are always values of their kinds.
THEOREM BoardTypes == Spec => []TypeOK
  <1>1. BoardInv => TypeOK
    BY DEF BoardInv
  <1> QED BY <1>1, BoardInvariant, PTL

\* "restore", "back to default": whatever commands came before, and whatever RPC errors cut
\* them short, what is wrong at the prompt a command set on purpose, is known to leave, or
\* touched before its error.
THEOREM LeftoversAreOwned == Spec => []LeftoversHaveCause
  <1>1. BoardInv => LeftoversHaveCause
    BY DEF BoardInv, LeftoversHaveCause
  <1> QED BY <1>1, BoardInvariant, PTL

\* "necessary for clean data": the commands that stop triggers and DAQ for their reads do so
\* before each read, on every path through them and from every state they may start in.
THEOREM ReadsAreClean == Spec => []CleanRead
  <1>1. BoardInv => CleanRead
    <2> SUFFICES ASSUME BoardInv, At("read"), cmd \in Cleans
                 PROVE  knob["pg"] = "stop" /\ Now.arg \notin running
      BY DEF CleanRead
    <2>1. /\ cmd \in Commands /\ pc \in 1 .. Len(Code[cmd]) /\ Now.op = "read" /\ Now.arg \in Channels
          /\ cmd # Prompt /\ Len(Code[cmd]) \in Nat
      BY NowFacts DEF WellFormed
    <2>2. {"pg", Now.arg} \subseteq Before(cmd, pc).quiet
      BY <2>1, OutlineAssumption DEF Now
    <2>3. Quiets(Before(cmd, pc).quiet)
      BY <2>1 DEF BoardInv, Holds
    <2> QED BY <2>1, <2>2, <2>3, ChannelAssumption DEF Quiets
  <1> QED BY <1>1, BoardInvariant, PTL

\* The phases deser160 and deserext leave on the board and in tbState are one pair, and one
\* the DTB gave a header for, if it gave any: for any phases that are scanned.
THEOREM SearchesAgree == Spec => []GoodPhases
  <1>1. BoardInv => GoodPhases
    <2> SUFFICES ASSUME BoardInv, Returning, cmd \in Searches
                 PROVE  /\ \A s \in Signals : delay[s] = tbState.clockPhase
                        /\ deser = Deser160(tbState.deserPhase)
                        /\ seen # {} => <<tbState.clockPhase, tbState.deserPhase>> \in seen
      BY DEF GoodPhases, Searches
    <2>1. cmd \in Commands /\ pc > Len(Code[cmd]) /\ cmd # Prompt
      BY NameAssumption DEF Returning
    <2>2. pc \in Nat /\ Len(Code[cmd]) \in Nat /\ Last(cmd) = Len(Code[cmd]) + 1
      BY <2>1, CodeAssumption DEF BoardInv, TypeOK, Last
    <2>3. Before(cmd, pc) = Before(cmd, Last(cmd))
      BY <2>1, <2>2 DEF Before
    <2>4. PICK a : a = Before(cmd, pc)
      OBVIOUS
    <2>5. Phased \subseteq a.stored /\ a.chosen
      BY <2>1, <2>3, <2>4, OutlineAssumption
    <2>6. Stored(a.stored) /\ Chosen
      BY <2>1, <2>4, <2>5 DEF BoardInv, Holds
    <2>7. \A x \in Phased : AsStored(x)
      BY <2>5, <2>6 DEF Stored
    <2>8. \A s \in Signals : delay[s] = tbState.clockPhase
      BY <2>7 DEF AsStored
    <2>9. deser = Deser160(tbState.deserPhase)
      BY <2>7 DEF AsStored
    <2> QED BY <2>6, <2>8, <2>9 DEF Chosen
  <1> QED BY <1>1, BoardInvariant, PTL
=============================================================================
