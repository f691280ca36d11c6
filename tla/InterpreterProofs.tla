------------------------- MODULE InterpreterProofs -------------------------
(***************************************************************************)
(* Theorems about the command interpreter, for any set of commands and     *)
(* scripts and any nesting limit.                                          *)
(*                                                                         *)
(* The invariants hold together (Inv).  That files stays a number when a   *)
(* script returns needs files >= Len(stack) - 1, a part of Control; that   *)
(* the flag is right then needs the shape of the stack, which is a part of *)
(* FlagMatchesFile; TypedIsSent needs the flag; and ScriptRunsThrough      *)
(* needs to know what each running script still has to do (Through), in    *)
(* terms of Meaning, whose recursion is shown to be well founded first.    *)
(***************************************************************************)
EXTENDS Interpreter, TLAPS, SequenceTheorems, WellFoundedInduction

USE DEF Stdin, Piece, Effects, Exits

\* The first n elements of a sequence.
LEMMA PrefixFacts ==
  ASSUME NEW S, NEW q \in Seq(S), NEW n \in 0 .. Len(q)
  PROVE  /\ SubSeq(q, 1, n) \in Seq(S) /\ Len(SubSeq(q, 1, n)) = n
         /\ \A i \in 1 .. n : SubSeq(q, 1, n)[i] = q[i]
  <1>1. n \in Nat /\ \A i \in 1 .. n : q[i] \in S
    OBVIOUS
  <1> DEFINE r == SubSeq(q, 1, n)
  <1>2. /\ r \in Seq(S) /\ Len(r) = IF 1 <= n THEN n - 1 + 1 ELSE 0
        /\ \A i \in 1 .. n - 1 + 1 : r[i] = q[1 + i - 1]
    BY <1>1, SubSeqProperties
  <1> HIDE DEF r
  <1>3. Len(r) = n
    BY <1>1, <1>2
  <1>4. \A i \in 1 .. n : r[i] = q[i]
    BY <1>1, <1>2
  <1> QED BY <1>2, <1>3, <1>4 DEF r

Frames == [src : DOMAIN Script \cup {Stdin}, pos : Nat \ {0}]

\* run() returns to its caller.
LEMMA PopFacts ==
  ASSUME TypeOK, Len(stack) # 1
  PROVE  /\ Pop \in Seq(Frames) /\ Len(Pop) = Len(stack) - 1 /\ Len(Pop) \in 1 .. MaxIter
         /\ \A i \in 1 .. Len(Pop) : Pop[i] = stack[i]
  <1>1. stack \in Seq(Frames) /\ Len(stack) \in 1 .. MaxIter + 1 /\ MaxIter \in Nat
    BY BoundAssumption DEF TypeOK, Frames
  <1>a. ASSUME NEW n \in 1 .. MaxIter + 1, n # 1
        PROVE  n - 1 \in 0 .. n /\ n - 1 \in 1 .. MaxIter
    <2>1. n \in Int /\ MaxIter \in Nat /\ n >= 2 /\ n <= MaxIter + 1
      BY <1>a, <1>1
    <2> QED BY <2>1
  <1>2. Len(stack) - 1 \in 0 .. Len(stack) /\ Len(stack) - 1 \in 1 .. MaxIter
    BY <1>1, <1>a
  <1>3. /\ SubSeq(stack, 1, Len(stack) - 1) \in Seq(Frames)
        /\ Len(SubSeq(stack, 1, Len(stack) - 1)) = Len(stack) - 1
        /\ \A i \in 1 .. Len(stack) - 1 : SubSeq(stack, 1, Len(stack) - 1)[i] = stack[i]
    BY <1>1, <1>2, PrefixFacts
  <1> QED BY <1>2, <1>3 DEF Pop

\* A script is started.
LEMMA PushFacts ==
  ASSUME TypeOK, NEW s \in DOMAIN Script
  PROVE  LET t == Append(stack, Frame(s)) IN
         /\ t \in Seq(Frames) /\ Len(t) = Len(stack) + 1
         /\ \A i \in 1 .. Len(stack) : t[i] = stack[i]
         /\ t[Len(stack) + 1].src = s
  <1>1. stack \in Seq(Frames) /\ Frame(s) \in Frames /\ Frame(s).src = s
    BY DEF TypeOK, Frame, Frames
  <1> HIDE DEF Frame
  <1> QED BY <1>1

\* The top frame has read one more piece.
LEMMA AdvanceFacts ==
  ASSUME TypeOK
  PROVE  LET t == [stack EXCEPT ![Len(stack)].pos = @ + 1] IN
         /\ t \in Seq(Frames) /\ Len(t) = Len(stack)
         /\ \A i \in 1 .. Len(stack) : t[i].src = stack[i].src
  <1>1. stack \in Seq(Frames) /\ Len(stack) \in 1 .. Len(stack)
    BY BoundAssumption DEF TypeOK, Frames
  <1>2. stack[Len(stack)] \in Frames
    BY <1>1
  <1> DEFINE f == [stack[Len(stack)] EXCEPT !.pos = @ + 1]
             t == [stack EXCEPT ![Len(stack)] = f]
  <1>3. f \in Frames /\ f.src = stack[Len(stack)].src
    BY <1>2 DEF Frames
  <1>4. t = [stack EXCEPT ![Len(stack)].pos = @ + 1]
    OBVIOUS
  <1> HIDE DEF f
  <1>5. t \in Seq(Frames) /\ Len(t) = Len(stack)
    BY <1>1, <1>3
  <1>6. \A i \in 1 .. Len(stack) : t[i].src = stack[i].src
    BY <1>1, <1>3
  <1> QED BY <1>4, <1>5, <1>6

-----------------------------------------------------------------------------
(* The stack, the flag and the open files *)

Control == /\ pc \in {"read", "act", "ended", "crashed"}
           /\ stack \in Seq(Frames) /\ Len(stack) \in 1 .. MaxIter + 1
           /\ interactive \in BOOLEAN /\ files \in 0 .. MaxFiles
           /\ FlagMatchesFile /\ files >= Len(stack) - 1

LEMMA ReturnControl ==
  ASSUME TypeOK, Control, Return
  PROVE  Control'
  <1> USE BoundAssumption
  <1>1. CASE Len(stack) = 1
    BY <1>1 DEF Return, Control, FlagMatchesFile, Top
  <1>2. CASE Len(stack) # 1
    <2>1. /\ pc' = "read" /\ stack' = Pop /\ files' = files - 1
          /\ interactive' = (Pop[Len(Pop)].src = Stdin)
      BY <1>2 DEF Return
    <2>2. /\ Pop \in Seq(Frames) /\ Len(Pop) = Len(stack) - 1 /\ Len(Pop) \in 1 .. MaxIter
          /\ \A i \in 1 .. Len(Pop) : Pop[i] = stack[i]
      BY <1>2, PopFacts
    <2>3. \A i \in 1 .. Len(stack) : stack[i].src = Stdin <=> i = 1
      BY DEF Control, FlagMatchesFile
    <2>4. Len(stack) \in Nat
      BY DEF Control
    <2>5. \A i \in 1 .. Len(Pop) : Pop[i].src = Stdin <=> i = 1
      BY <2>2, <2>3, <2>4
    <2>7. FlagMatchesFile'
      <3>1. interactive' <=> Top'.src = Stdin
        BY <2>1 DEF Top
      <3> QED BY <2>1, <2>5, <3>1 DEF FlagMatchesFile
    <2>6. files' \in 0 .. MaxFiles /\ files' >= Len(stack') - 1
      BY <2>1, <2>2, <2>4 DEF Control
    <2> QED BY <2>1, <2>2, <2>6, <2>7 DEF Control
  <1> QED BY <1>1, <1>2

LEMMA ControlStep == TypeOK /\ Control /\ Next => Control'
  <1> SUFFICES ASSUME TypeOK, Control, Next PROVE Control'
    OBVIOUS
  <1> USE BoundAssumption
  <1>1. ASSUME Prompt \/ EndOfInput \/ Skip \/ Unknown PROVE Control'
    <2>1. /\ pc' \in {"read", "act", "ended", "crashed"}
          /\ UNCHANGED <<stack, interactive, files>>
      BY <1>1 DEF Prompt, EndOfInput, Skip, Unknown
    <2> QED BY <2>1 DEF Control, FlagMatchesFile, Top
  <1>2. CASE ReadScript
    <2> DEFINE t == [stack EXCEPT ![Len(stack)].pos = @ + 1]
    <2>1. /\ t \in Seq(Frames) /\ Len(t) = Len(stack)
          /\ \A i \in 1 .. Len(stack) : t[i].src = stack[i].src
      BY AdvanceFacts
    <2>2. pc' = "act" /\ stack' = t /\ UNCHANGED <<interactive, files>>
      BY <1>2 DEF ReadScript
    <2> HIDE DEF t
    <2>3. FlagMatchesFile'
      BY <2>1, <2>2 DEF Control, FlagMatchesFile, Top
    <2> QED BY <2>1, <2>2, <2>3 DEF Control
  <1>3. CASE EndOfScript
    BY <1>3, ReturnControl DEF EndOfScript
  <1>4. CASE Exit
    BY <1>4, ReturnControl DEF Exit
  <1>5. ASSUME NEW c \in Commands, Execute(c) PROVE Control'
    BY <1>5 DEF Execute, Control, FlagMatchesFile, Top
  <1>6. ASSUME NEW c \in Commands, Error(c) PROVE Control'
    <2>1. /\ pc' = "read" /\ stack' = <<Frame(Stdin)>> /\ interactive' = TRUE
          /\ files' = files
      BY <1>6 DEF Error, Restart
    <2>2. <<Frame(Stdin)>> \in Seq(Frames) /\ Len(<<Frame(Stdin)>>) = 1
      BY DEF Frame, Frames
    <2>3. <<Frame(Stdin)>>[1].src = Stdin
      BY DEF Frame
    <2>4. FlagMatchesFile'
      BY <2>1, <2>2, <2>3 DEF FlagMatchesFile, Top
    <2>5. 1 \in 1 .. MaxIter + 1 /\ files >= 0
      BY DEF Control
    <2> QED BY <2>1, <2>2, <2>4, <2>5 DEF Control
  <1>7. ASSUME NEW s \in DOMAIN Script, RunScript(s) PROVE Control'
    <2>1. CASE Len(stack) > MaxIter
      BY <1>7, <2>1 DEF RunScript, Control, FlagMatchesFile, Top
    <2>2. CASE ~(Len(stack) > MaxIter)
      <3> DEFINE t == Append(stack, Frame(s))
      <3>1. /\ t \in Seq(Frames) /\ Len(t) = Len(stack) + 1
            /\ \A i \in 1 .. Len(stack) : t[i] = stack[i]
            /\ t[Len(stack) + 1].src = s
        BY PushFacts
      <3>2. /\ pc' = "read" /\ stack' = t /\ interactive' = FALSE /\ files' = files + 1
            /\ files < MaxFiles
        BY <1>7, <2>2 DEF RunScript, Opens
      <3>3. s # Stdin
        BY ScriptAssumption
      <3> HIDE DEF t
      <3>4. Len(stack) \in Nat \ {0}
        BY DEF Control
      <3>5. \A i \in 1 .. Len(t) : t[i].src = Stdin <=> i = 1
        BY <3>1, <3>3, <3>4 DEF Control, FlagMatchesFile
      <3>6. FlagMatchesFile'
        BY <3>1, <3>2, <3>3, <3>5 DEF FlagMatchesFile, Top
      <3>7. /\ stack' \in Seq(Frames) /\ Len(stack') \in 1 .. MaxIter + 1
            /\ files' >= Len(stack') - 1
        BY <2>2, <3>1, <3>2, <3>4 DEF Control
      <3>8. files' \in 0 .. MaxFiles
        BY <3>2 DEF Control
      <3> QED BY <3>2, <3>6, <3>7, <3>8 DEF Control
    <2> QED BY <2>1, <2>2
  <1> QED BY <1>1, <1>2, <1>3, <1>4, <1>5, <1>6, <1>7 DEF Next, RunStep
-----------------------------------------------------------------------------
(* Calls and the rest of the state *)

LEMMA AppendOrdered ==
  ASSUME NEW q \in Seq(Calls), NEW last \in Nat, Ordered(q, last),
         NEW c \in Calls, c.n = last + 1
  PROVE  Append(q, c) \in Seq(Calls) /\ Ordered(Append(q, c), last + 1)
  <1> DEFINE t == Append(q, c)
  <1>1. /\ t \in Seq(Calls) /\ Len(t) = Len(q) + 1 /\ t[Len(q) + 1] = c
        /\ \A i \in 1 .. Len(q) : t[i] = q[i]
    OBVIOUS
  <1>a. Len(q) \in Nat /\ \A i \in 1 .. Len(q) : q[i] \in Calls
    OBVIOUS
  <1>2. Len(q) \in Nat /\ \A i \in 1 .. Len(q) : q[i].n \in Nat
    BY <1>a DEF Calls
  <1> HIDE DEF t
  <1>3. ASSUME NEW i \in 1 .. Len(t), NEW j \in 1 .. Len(t), i < j
        PROVE  t[i].n < t[j].n
    <2>1. i \in 1 .. Len(q) /\ t[i].n = q[i].n /\ q[i].n <= last /\ q[i].n \in Nat
      BY <1>1, <1>2, <1>3 DEF Ordered
    <2>2. CASE j = Len(q) + 1
      BY <1>1, <2>1, <2>2
    <2>3. CASE j # Len(q) + 1
      <3>1. j \in 1 .. Len(q) /\ t[j] = q[j]
        BY <1>1, <1>2, <2>3
      <3> QED BY <1>3, <2>1, <3>1 DEF Ordered
    <2> QED BY <2>2, <2>3
  <1>4. ASSUME NEW i \in 1 .. Len(t) PROVE t[i].n <= last + 1
    <2>1. CASE i = Len(q) + 1
      BY <1>1, <2>1
    <2>2. CASE i # Len(q) + 1
      <3>1. i \in 1 .. Len(q) /\ t[i] = q[i]
        BY <1>1, <1>2, <2>2
      <3> QED BY <1>2, <3>1 DEF Ordered
    <2> QED BY <2>1, <2>2
  <1> QED BY <1>1, <1>3, <1>4 DEF Ordered, t

LEMMA PrefixOrdered ==
  ASSUME NEW q \in Seq(Calls), NEW last \in Nat, Ordered(q, last),
         NEW t \in Seq(Calls), Len(t) <= Len(q), \A i \in 1 .. Len(t) : t[i] = q[i]
  PROVE  Ordered(t, last + 1)
  <1>1. Len(q) \in Nat /\ Len(t) \in Nat /\ \A i \in 1 .. Len(q) : q[i] \in Calls
    OBVIOUS
  <1>2. \A i \in 1 .. Len(t) : i \in 1 .. Len(q) /\ q[i].n \in Nat
    BY <1>1 DEF Calls
  <1>3. \A i, j \in 1 .. Len(t) : i < j => t[i].n < t[j].n
    BY <1>2 DEF Ordered
  <1>4. \A i \in 1 .. Len(t) : t[i].n <= last + 1
    BY <1>2 DEF Ordered
  <1> QED BY <1>3, <1>4 DEF Ordered

\* The calls made so far: those at the DTB, then those in the buffer.
AllCalls == device \o buffered

Queues == device \in Seq(Calls) /\ buffered \in Seq(Calls) /\ issued \in Nat

LEMMA CallTypes ==
  ASSUME TypeOK, NEW c \in Commands
  PROVE  Call(c) \in Calls /\ Call(c).n = issued + 1
  BY DEF TypeOK, Call, Calls

\* A call joins the others behind them.
LEMMA SendFacts ==
  ASSUME Queues, TypeOK, NEW c \in Commands, Send(c)
  PROVE  /\ device' \in Seq(Calls) /\ buffered' \in Seq(Calls)
         /\ AllCalls' = Append(AllCalls, Call(c))
  <1> DEFINE x == Call(c)
  <1>1. x \in Calls
    BY CallTypes
  <1> HIDE DEF x
  <1>a. /\ device \in Seq(Calls) /\ buffered \in Seq(Calls) /\ device \o buffered \in Seq(Calls)
        /\ <<x>> \in Seq(Calls) /\ <<>> \in Seq(Calls)
    BY <1>1 DEF Queues
  <1>b. \A q \in Seq(Calls) : Append(q, x) = q \o <<x>> /\ q \o <<>> = q
    BY <1>1
  <1>c. (device \o buffered) \o <<x>> = device \o (buffered \o <<x>>)
    BY <1>a, ConcatAssociative
  <1>d. /\ buffered \o <<x>> \in Seq(Calls)
        /\ device \o (buffered \o <<x>>) \in Seq(Calls)
    BY <1>a
  <1> DEFINE Goal == /\ device' \in Seq(Calls) /\ buffered' \in Seq(Calls)
                     /\ device' \o buffered' = Append(device \o buffered, x)
  <1>2. ASSUME device' = device \o Append(buffered, x), buffered' = <<>> PROVE Goal
    <2>1. device' = device \o (buffered \o <<x>>) /\ device' \o buffered' = device'
      BY <1>a, <1>b, <1>d, <1>2
    <2> QED BY <1>a, <1>b, <1>c, <1>d, <1>2, <2>1
  <1>3. ASSUME buffered' = Append(buffered, x), UNCHANGED device PROVE Goal
    BY <1>a, <1>b, <1>c, <1>d, <1>3
  <1>4. ASSUME buffered' = <<x>>, device' = device \o buffered PROVE Goal
    BY <1>a, <1>b, <1>4
  <1>5. Goal
    BY <1>2, <1>3, <1>4 DEF Send, x
  <1> QED BY <1>5 DEF AllCalls, x

LEMMA CallsStep ==
  TypeOK /\ CallsInOrder /\ Next => CallsInOrder' /\ Queues'
  <1> SUFFICES ASSUME TypeOK, CallsInOrder, Next PROVE CallsInOrder' /\ Queues'
    OBVIOUS
  <1>0. Queues
    BY DEF TypeOK, Queues
  <1>1. CASE UNCHANGED rpc
    BY <1>0, <1>1 DEF rpc, CallsInOrder, Queues
  <1>2. ASSUME NEW c \in Commands, Execute(c) PROVE CallsInOrder' /\ Queues'
    <2>1. Send(c) /\ issued' = issued + 1
      BY <1>2 DEF Execute
    <2>2. /\ device' \in Seq(Calls) /\ buffered' \in Seq(Calls)
          /\ AllCalls' = Append(AllCalls, Call(c))
      BY <1>0, <2>1, SendFacts
    <2>3. Call(c) \in Calls /\ Call(c).n = issued + 1
      BY CallTypes
    <2>4. AllCalls \in Seq(Calls) /\ Ordered(AllCalls, issued) /\ issued \in Nat
      BY <1>0 DEF AllCalls, CallsInOrder, Queues
    <2>5. Ordered(AllCalls', issued')
      BY <2>1, <2>2, <2>3, <2>4, AppendOrdered
    <2> QED BY <2>1, <2>2, <2>4, <2>5 DEF CallsInOrder, AllCalls, Queues
  <1>3. ASSUME NEW c \in Commands, Error(c) PROVE CallsInOrder' /\ Queues'
    <2>1. PICK n \in 0 .. Len(buffered) : device' = device \o SubSeq(buffered, 1, n)
      BY <1>3 DEF Error
    <2>2. buffered' = <<>> /\ issued' = issued + 1
      BY <1>3 DEF Error
    <2>3. SubSeq(buffered, 1, n) \in Seq(Calls) /\ Len(SubSeq(buffered, 1, n)) = n
          /\ \A i \in 1 .. n : SubSeq(buffered, 1, n)[i] = buffered[i]
      BY <1>0, PrefixFacts DEF Queues
    <2> DEFINE r == SubSeq(buffered, 1, n)
    <2> HIDE DEF r
    <2>4. /\ device \in Seq(Calls) /\ buffered \in Seq(Calls) /\ Len(buffered) \in Nat
          /\ r \in Seq(Calls) /\ Len(r) = n /\ \A i \in 1 .. n : r[i] = buffered[i]
      BY <1>0, <2>3 DEF Queues, r
    <2>5. /\ device \o r \in Seq(Calls) /\ Len(device \o r) = Len(device) + n
          /\ \A i \in 1 .. Len(device) + n :
               (device \o r)[i] = IF i <= Len(device) THEN device[i] ELSE r[i - Len(device)]
      BY <2>4, ConcatProperties
    <2>6. /\ device \o buffered \in Seq(Calls)
          /\ Len(device \o buffered) = Len(device) + Len(buffered)
          /\ \A i \in 1 .. Len(device) + Len(buffered) :
               (device \o buffered)[i] =
                 IF i <= Len(device) THEN device[i] ELSE buffered[i - Len(device)]
      BY <2>4, ConcatProperties
    <2>7. Len(device) \in Nat /\ n \in Nat /\ n <= Len(buffered)
      BY <2>4
    <2>8. ASSUME NEW i \in 1 .. Len(device \o r)
          PROVE  (device \o r)[i] = (device \o buffered)[i]
      <3>1. i \in 1 .. Len(device) + n /\ i \in 1 .. Len(device) + Len(buffered)
        BY <2>4, <2>5, <2>7
      <3>2. CASE i <= Len(device)
        BY <2>5, <2>6, <3>1, <3>2
      <3>3. CASE ~(i <= Len(device))
        <4>1. i - Len(device) \in 1 .. n
          BY <2>7, <3>1, <3>3
        <4> QED BY <2>4, <2>5, <2>6, <3>1, <3>3, <4>1
      <3> QED BY <3>2, <3>3
    <2>9. Ordered(device \o buffered, issued) /\ issued \in Nat
      BY <1>0 DEF CallsInOrder, Queues
    <2>10. Len(device \o r) <= Len(device \o buffered)
      BY <2>4, <2>5, <2>6, <2>7
    <2>11. Ordered(device \o r, issued + 1)
      BY <2>5, <2>6, <2>8, <2>9, <2>10, PrefixOrdered
    <2>12. device' = device \o r /\ device' \o buffered' = device \o r
      BY <2>1, <2>2, <2>5 DEF r
    <2> QED BY <2>2, <2>5, <2>9, <2>11, <2>12 DEF CallsInOrder, Queues
  <1> QED BY <1>1, <1>2, <1>3 DEF Next, RunStep, Prompt, EndOfInput, ReadScript,
        EndOfScript, Skip, Exit, Unknown, RunScript
-----------------------------------------------------------------------------
(* The other invariants *)

\* What read() leaves, and the histories.
Rest == /\ line \in Piece
        /\ typed \in [n : 0 .. MaxTyped, name : Names]
        /\ trace \in Seq(Commands) /\ errors \in 0 .. MaxErrors

LEMMA RestStep == TypeOK /\ Next => Rest'
  <1> SUFFICES ASSUME TypeOK, Next PROVE Rest'
    OBVIOUS
  <1> USE BoundAssumption
  <1>0. Rest
    BY DEF TypeOK, Rest
  <1>1. CASE Prompt
    <2>1. PICK name \in Names :
            /\ line' = [name |-> name, comment |-> FALSE]
            /\ typed' = [n |-> typed.n + 1, name |-> name]
      BY <1>1 DEF Prompt
    <2>2. typed.n + 1 \in 0 .. MaxTyped /\ name \in Names
      BY <1>0, <1>1 DEF Prompt, Rest
    <2>3. line' \in Piece /\ typed' \in [n : 0 .. MaxTyped, name : Names]
      BY <2>1, <2>2
    <2>4. trace' = <<>> /\ errors' = errors
      BY <1>1 DEF Prompt
    <2> QED BY <1>0, <2>3, <2>4 DEF Rest
  <1>2. CASE ReadScript
    <2>1. stack \in Seq(Frames) /\ Len(stack) \in 1 .. Len(stack)
      BY DEF TypeOK, Frames
    <2>2. Top \in Frames /\ Top.src # Stdin
      BY <1>2, <2>1 DEF ReadScript, Top
    <2>3. Top.src \in DOMAIN Script /\ Top.pos \in Nat \ {0}
      BY <2>2 DEF Frames
    <2>4. Script[Top.src] \in Seq(Piece) /\ Top.pos \in 1 .. Len(Script[Top.src])
      <3>1. Script[Top.src] \in Seq(Piece)
        BY <2>3, ScriptAssumption
      <3>2. Len(Script[Top.src]) \in Nat
        BY <3>1, LenProperties
      <3>3. Top.pos <= Len(Script[Top.src])
        BY <1>2 DEF ReadScript
      <3> QED BY <2>3, <3>1, <3>2, <3>3
    <2>5. Script[Top.src][Top.pos] \in Piece
      BY <2>4, ElementOfSeq
    <2> QED BY <1>0, <1>2, <2>5 DEF ReadScript, Rest, marks
  <1>3. ASSUME NEW c \in Commands, Execute(c) PROVE Rest'
    <2>1. trace' = Append(trace, c) /\ UNCHANGED <<line, typed, errors>>
      BY <1>3 DEF Execute
    <2> QED BY <1>0, <2>1 DEF Rest
  <1>4. ASSUME NEW c \in Commands, Error(c) PROVE Rest'
    <2>1. /\ errors < MaxErrors /\ trace' = <<>> /\ errors' = errors + 1
          /\ UNCHANGED <<line, typed>>
      BY <1>4 DEF Error
    <2>2. errors' \in 0 .. MaxErrors
      BY <1>0, <2>1 DEF Rest
    <2> QED BY <1>0, <2>1, <2>2 DEF Rest
  <1>5. CASE UNCHANGED <<line, marks>>
    BY <1>0, <1>5 DEF Rest, marks
  <1> QED BY <1>1, <1>2, <1>3, <1>4, <1>5 DEF Next, RunStep, EndOfInput, EndOfScript,
        Skip, Exit, Unknown, RunScript

LEMMA FilesStep ==
  ASSUME TypeOK, FilesMatchStack, Next
  PROVE  FilesMatchStack'
  <1>0. stack \in Seq(Frames) /\ Len(stack) \in 1 .. MaxIter + 1 /\ files \in Nat
        /\ errors \in Nat
    BY DEF TypeOK, Frames
  <1>1. CASE UNCHANGED <<stack, files, errors>>
    BY <1>1 DEF FilesMatchStack
  <1>2. CASE ReadScript
    <2> DEFINE t == [stack EXCEPT ![Len(stack)].pos = @ + 1]
    <2>1. Len(t) = Len(stack)
      BY AdvanceFacts
    <2>2. stack' = t /\ UNCHANGED <<files, errors>>
      BY <1>2 DEF ReadScript, marks
    <2> QED BY <2>1, <2>2 DEF FilesMatchStack
  <1>3. ASSUME Return, UNCHANGED errors PROVE FilesMatchStack'
    <2>1. CASE Len(stack) = 1
      BY <1>3, <2>1 DEF Return, FilesMatchStack
    <2>2. CASE Len(stack) # 1
      <3>1. stack' = Pop /\ files' = files - 1
        BY <1>3, <2>2 DEF Return
      <3>2. Len(Pop) = Len(stack) - 1
        BY <2>2, PopFacts
      <3> QED BY <1>0, <1>3, <3>1, <3>2 DEF FilesMatchStack
    <2> QED BY <2>1, <2>2
  <1>4. ASSUME NEW c \in Commands, Error(c) PROVE FilesMatchStack'
    BY <1>0, <1>4 DEF Error, FilesMatchStack
  <1>5. ASSUME NEW s \in DOMAIN Script, RunScript(s) PROVE FilesMatchStack'
    <2>1. CASE Len(stack) > MaxIter
      BY <1>5, <2>1 DEF RunScript, FilesMatchStack, marks
    <2>2. CASE ~(Len(stack) > MaxIter)
      <3>1. stack' = Append(stack, Frame(s)) /\ files' = files + 1 /\ UNCHANGED errors
        BY <1>5, <2>2 DEF RunScript, marks
      <3>2. Len(Append(stack, Frame(s))) = Len(stack) + 1
        BY PushFacts
      <3> QED BY <1>0, <3>1, <3>2 DEF FilesMatchStack
    <2> QED BY <2>1, <2>2
  <1> QED BY <1>1, <1>2, <1>3, <1>4, <1>5 DEF Next, RunStep, Prompt, EndOfInput,
        EndOfScript, Skip, Exit, Unknown, Execute, marks

LEMMA SentStep ==
  ASSUME TypeOK, FlagMatchesFile, TypedIsSent, Next
  PROVE  TypedIsSent'
  <1>0. buffered \in Seq(Calls) /\ Len(stack) \in Nat \ {0}
    BY BoundAssumption DEF TypeOK
  <1>1. CASE UNCHANGED buffered
    BY <1>1 DEF TypedIsSent
  <1>2. CASE buffered' = <<>>
    BY <1>2 DEF TypedIsSent
  <1>3. ASSUME NEW c \in Commands, Execute(c) PROVE TypedIsSent'
    <2>1. Send(c)
      BY <1>3 DEF Execute
    <2>2. CASE SendsNow(c)
      BY <1>2, <2>1, <2>2 DEF Send
    <2>3. CASE ~SendsNow(c)
      <3>1. Effect[c] = "late" \/ ~interactive
        BY <2>3, ScriptAssumption DEF SendsNow
      <3>2. ~interactive => Len(stack) > 1
        BY <1>0 DEF FlagMatchesFile, Top
      <3>3. Call(c).inScript \/ Effect[Call(c).cmd] = "late"
        BY <3>1, <3>2 DEF Call
      <3> DEFINE x == Call(c)
      <3>4. x \in Calls
        BY CallTypes
      <3> HIDE DEF x
      <3>5. x.inScript \/ Effect[x.cmd] = "late"
        BY <3>3 DEF x
      <3>6. CASE buffered' = <<x>>
        BY <3>5, <3>6 DEF TypedIsSent
      <3>7. CASE buffered' = Append(buffered, x)
        <4>1. /\ Len(buffered') = Len(buffered) + 1 /\ Len(buffered) \in Nat
              /\ buffered'[Len(buffered) + 1] = x
              /\ \A i \in 1 .. Len(buffered) : buffered'[i] = buffered[i]
          BY <1>0, <3>4, <3>7, AppendProperties
        <4>2. ASSUME NEW i \in 1 .. Len(buffered')
              PROVE  buffered'[i].inScript \/ Effect[buffered'[i].cmd] = "late"
          <5>1. CASE i = Len(buffered) + 1
            BY <3>5, <4>1, <5>1
          <5>2. CASE i # Len(buffered) + 1
            <6>1. i \in 1 .. Len(buffered) /\ buffered'[i] = buffered[i]
              BY <4>1, <5>2
            <6> QED BY <6>1 DEF TypedIsSent
          <5> QED BY <5>1, <5>2
        <4> QED BY <4>2 DEF TypedIsSent
      <3> QED BY <2>1, <2>3, <3>6, <3>7 DEF Send, x
    <2> QED BY <2>2, <2>3
  <1>4. ASSUME NEW c \in Commands, Error(c) PROVE TypedIsSent'
    BY <1>2, <1>4 DEF Error
  <1> QED BY <1>1, <1>3, <1>4 DEF Next, RunStep, Prompt, EndOfInput, ReadScript,
        EndOfScript, Skip, Exit, Unknown, RunScript, rpc

-----------------------------------------------------------------------------
(* What a script means *)

\* The definition of Meaning, with g for its recursive uses.
Done(p)   == p.depth > MaxIter \/ p.pos > Len(Script[p.src])
NameAt(p) == Script[p.src][p.pos].name
After(p)  == [p EXCEPT !.pos = @ + 1]
Inner(p)  == Entry(p.depth + 1, NameAt(p))
Unfold(g, p) ==
  IF Done(p) THEN <<>>
  ELSE IF NameAt(p) \in Commands THEN <<NameAt(p)>> \o g[After(p)]
  ELSE IF NameAt(p) \in Exits THEN <<>>
  ELSE IF NameAt(p) \in DOMAIN Script \ {"blank", "help"} THEN g[Inner(p)] \o g[After(p)]
  ELSE g[After(p)]

\* A set of numbers has a least one.
LEMMA Smallest ==
  ASSUME NEW S, S \subseteq Nat, S # {}
  PROVE  \E i \in S : \A j \in S : i <= j
  <1> DEFINE R == {ij \in Nat \X Nat : ij[1] < ij[2]}
  <1>1. IsWellFoundedOn(R, Nat)
    BY NatLessThanWellFounded DEF OpToRel
  <1>2. \A i, j \in Nat : <<i, j>> \in R <=> i < j
    OBVIOUS
  <1> HIDE DEF R
  <1>3. \E i \in S : \A j \in S : ~(<<j, i>> \in R)
    BY <1>1, WFMin, Zenon
  <1>4. PICK i \in S : \A j \in S : ~(<<j, i>> \in R)
    BY <1>3
  <1>5. ASSUME NEW j \in S PROVE i <= j
    <2>1. i \in Nat /\ j \in Nat
      OBVIOUS
    <2>2. ~(j < i)
      BY <1>2, <1>4, <2>1
    <2> QED BY <2>1, <2>2
  <1> QED BY <1>5

LEMMA PlaceFacts ==
  ASSUME NEW p \in Places
  PROVE  /\ p.depth \in Nat /\ p.src \in DOMAIN Script /\ p.pos \in Nat \ {0}
         /\ After(p) \in Places /\ After(p).depth = p.depth /\ After(p).src = p.src
         /\ After(p).pos = p.pos + 1
         /\ Len(Script[p.src]) \in Nat
         /\ NameAt(p) \in DOMAIN Script =>
              Inner(p) \in Places /\ Inner(p).depth = p.depth + 1
  <1>1. p.depth \in Nat /\ p.src \in DOMAIN Script /\ p.pos \in Nat \ {0}
    BY DEF Places
  <1>2. After(p) = [depth |-> p.depth, src |-> p.src, pos |-> p.pos + 1]
    BY DEF Places, After
  <1>3. /\ After(p).depth = p.depth /\ After(p).src = p.src /\ After(p).pos = p.pos + 1
        /\ After(p) \in Places
    BY <1>1, <1>2 DEF Places
  <1>4. Len(Script[p.src]) \in Nat
    BY <1>1, ScriptAssumption, LenProperties
  <1>5. ASSUME NameAt(p) \in DOMAIN Script
        PROVE  Inner(p) \in Places /\ Inner(p).depth = p.depth + 1
    BY <1>1, <1>5 DEF Places, Inner, Entry
  <1> QED BY <1>1, <1>3, <1>4, <1>5

\* The recursion is well founded: the depth grows up to MaxIter, and at each depth the
\* position grows up to the end of the script.
LEMMA Minimal ==
  ASSUME NEW T, T \subseteq Places, T # {}
  PROVE  \E p \in T : ~Done(p) => /\ After(p) \notin T
                                  /\ NameAt(p) \in DOMAIN Script => Inner(p) \notin T
  <1>1. CASE \E p \in T : Done(p)
    BY <1>1
  <1>2. ASSUME \A p \in T : ~Done(p) PROVE
          \E p \in T : After(p) \notin T /\ (NameAt(p) \in DOMAIN Script => Inner(p) \notin T)
    <2>1. \A p \in T : /\ p.depth \in Nat /\ p.pos \in Nat /\ Len(Script[p.src]) \in Nat
                       /\ MaxIter - p.depth \in Nat /\ Len(Script[p.src]) - p.pos \in Nat
      <3> TAKE p \in T
      <3>1. p \in Places /\ ~(p.depth > MaxIter) /\ ~(p.pos > Len(Script[p.src]))
        BY <1>2 DEF Done
      <3>2. p.depth \in Nat /\ p.pos \in Nat /\ Len(Script[p.src]) \in Nat /\ MaxIter \in Nat
        BY <3>1, PlaceFacts, BoundAssumption
      <3> QED BY <3>1, <3>2
    <2> DEFINE K == {MaxIter - p.depth : p \in T}
    <2>2. PICK k \in K : \A j \in K : k <= j
      <3>1. K \subseteq Nat /\ K # {}
        BY <2>1
      <3> QED BY <3>1, Smallest
    <2> DEFINE U == {p \in T : MaxIter - p.depth = k}
               J == {Len(Script[p.src]) - p.pos : p \in U}
    <2>3. PICK r \in J : \A j \in J : r <= j
      <3>1. J \subseteq Nat /\ J # {}
        BY <2>1, <2>2
      <3> HIDE DEF J
      <3> QED BY <3>1, Smallest
    <2>4. PICK p \in U : r = Len(Script[p.src]) - p.pos
      BY <2>3
    <2>5. /\ p \in T /\ p \in Places /\ MaxIter - p.depth = k
          /\ p.depth \in Nat /\ p.pos \in Nat /\ Len(Script[p.src]) \in Nat /\ MaxIter \in Nat
      BY <2>1, <2>4, BoundAssumption
    <2>6. ASSUME After(p) \in T PROVE FALSE
      <3>1. /\ After(p).depth = p.depth /\ After(p).src = p.src /\ After(p).pos = p.pos + 1
        BY <2>5, PlaceFacts
      <3>2. After(p) \in U
        BY <2>5, <2>6, <3>1
      <3>3. Len(Script[p.src]) - (p.pos + 1) \in J
        BY <3>1, <3>2
      <3>4. r <= Len(Script[p.src]) - (p.pos + 1)
        BY <2>3, <3>3
      <3> QED BY <2>4, <2>5, <3>4
    <2>7. ASSUME NameAt(p) \in DOMAIN Script, Inner(p) \in T PROVE FALSE
      <3>1. Inner(p).depth = p.depth + 1
        BY <2>5, <2>7, PlaceFacts
      <3>2. MaxIter - (p.depth + 1) \in K
        BY <2>7, <3>1
      <3>3. k <= MaxIter - (p.depth + 1)
        BY <2>2, <3>2
      <3> QED BY <2>5, <3>3
    <2> QED BY <2>5, <2>6, <2>7
  <1> QED BY <1>1, <1>2

Meanings == Seq(Commands)

LEMMA UnfoldType ==
  ASSUME NEW g \in [Places -> Meanings], NEW p \in Places
  PROVE  Unfold(g, p) \in Meanings
  <1>1. g[After(p)] \in Meanings
    BY PlaceFacts
  <1>2. NameAt(p) \in DOMAIN Script => g[Inner(p)] \in Meanings
    BY PlaceFacts
  <1>3. \A s, t \in Meanings : s \o t \in Meanings
    BY DEF Meanings
  <1>4. NameAt(p) \in Commands => <<NameAt(p)>> \in Meanings
    BY DEF Meanings
  <1>5. <<>> \in Meanings
    BY DEF Meanings
  <1> QED BY <1>1, <1>2, <1>3, <1>4, <1>5 DEF Unfold

\* Some function satisfies the equation: the least relation that is closed under it is
\* a function.
LEMMA MeaningExists == \E g \in [Places -> Meanings] : \A p \in Places : g[p] = Unfold(g, p)
  <1> DEFINE
        Known(R, g, p) == ~Done(p) => /\ <<After(p), g[After(p)]>> \in R
                                      /\ NameAt(p) \in DOMAIN Script => <<Inner(p), g[Inner(p)]>> \in R
        Pairs     == Places \X Meanings
        Closed(R) == \A g \in [Places -> Meanings], p \in Places :
                       Known(R, g, p) => <<p, Unfold(g, p)>> \in R
        Least     == {x \in Pairs : \A R \in SUBSET Pairs : Closed(R) => x \in R}
        One(p)    == \E v \in Meanings : /\ <<p, v>> \in Least
                                         /\ \A w \in Meanings : <<p, w>> \in Least => w = v
  <1> HIDE DEF Known
  <1>1. ASSUME NEW R, NEW Q, NEW g, NEW p, R \subseteq Q, Known(R, g, p) PROVE Known(Q, g, p)
    BY <1>1 DEF Known
  <1>2. Closed(Least)
    <2> SUFFICES ASSUME NEW g \in [Places -> Meanings], NEW p \in Places, Known(Least, g, p)
                 PROVE  <<p, Unfold(g, p)>> \in Least
      OBVIOUS
    <2>1. ASSUME NEW R \in SUBSET Pairs, Closed(R) PROVE <<p, Unfold(g, p)>> \in R
      <3>1. Least \subseteq R
        BY <2>1
      <3> HIDE DEF Least
      <3>2. Known(R, g, p)
        BY <1>1, <3>1
      <3> QED BY <2>1, <3>2
    <2>2. <<p, Unfold(g, p)>> \in Pairs
      BY UnfoldType
    <2> QED BY <2>1, <2>2
  <1>3. \A R \in SUBSET Pairs : Closed(R) => Least \subseteq R
    OBVIOUS
  <1>4. Least \subseteq Pairs
    OBVIOUS
  <1> HIDE DEF Least
  <1> DEFINE T == {p \in Places : ~One(p)}
             G == [p \in Places |-> IF p \in T THEN <<>>
                                    ELSE CHOOSE v \in Meanings : <<p, v>> \in Least]
  <1>5. G \in [Places -> Meanings]
    <2>1. ASSUME NEW p \in Places, p \notin T
          PROVE  (CHOOSE v \in Meanings : <<p, v>> \in Least) \in Meanings
      BY <2>1
    <2>2. <<>> \in Meanings
      BY DEF Meanings
    <2> QED BY <2>1, <2>2
  <1>6. ASSUME NEW p \in Places, p \notin T
        PROVE  <<p, G[p]>> \in Least /\ \A w \in Meanings : <<p, w>> \in Least => w = G[p]
    <2>1. G[p] = CHOOSE v \in Meanings : <<p, v>> \in Least
      BY <1>6
    <2>2. One(p)
      BY <1>6
    <2> HIDE DEF T, G
    <2> QED BY <2>1, <2>2
  <1> HIDE DEF G
  <1>7. T = {}
    <2> SUFFICES ASSUME T # {} PROVE FALSE
      OBVIOUS
    <2>1. PICK p \in T : ~Done(p) => /\ After(p) \notin T
                                     /\ NameAt(p) \in DOMAIN Script => Inner(p) \notin T
      <3>1. T \subseteq Places
        OBVIOUS
      <3> HIDE DEF T
      <3> QED BY <3>1, Minimal
    <2>2. p \in Places /\ ~One(p)
      OBVIOUS
    <2>a. /\ After(p) \in Places
          /\ NameAt(p) \in DOMAIN Script => Inner(p) \in Places
      BY <2>2, PlaceFacts
    <2> HIDE DEF T
    <2> DEFINE b == Unfold(G, p)
    <2>3. Known(Least, G, p)
      BY <1>6, <2>1, <2>a DEF Known
    <2>4. b \in Meanings /\ <<p, b>> \in Least
      BY <1>2, <1>5, <2>2, <2>3, UnfoldType
    <2>5. PICK w \in Meanings : <<p, w>> \in Least /\ w # b
      BY <2>2, <2>4
    <2> DEFINE R == Least \ {<<p, w>>}
    <2>6. ASSUME NEW h \in [Places -> Meanings], NEW q \in Places, Known(R, h, q)
          PROVE  <<q, Unfold(h, q)>> \in R
      <3>1. Known(Least, h, q)
        <4>1. R \subseteq Least
          OBVIOUS
        <4> HIDE DEF R
        <4> QED BY <1>1, <2>6, <4>1
      <3>2. <<q, Unfold(h, q)>> \in Least
        BY <1>2, <3>1
      <3>3. ASSUME q = p PROVE Unfold(h, q) = b
        <4>1. /\ h[After(p)] \in Meanings
              /\ NameAt(p) \in DOMAIN Script => h[Inner(p)] \in Meanings
          BY <2>a
        <4>2. ~Done(p) => /\ h[After(p)] = G[After(p)]
                          /\ NameAt(p) \in DOMAIN Script => h[Inner(p)] = G[Inner(p)]
          BY <1>6, <2>1, <2>a, <3>1, <3>3, <4>1 DEF Known
        <4> QED BY <3>3, <4>2 DEF Unfold
      <3>4. <<q, Unfold(h, q)>> # <<p, w>>
        BY <2>5, <3>3
      <3> QED BY <3>2, <3>4
    <2>7. R \in SUBSET Pairs /\ Closed(R)
      BY <1>4, <2>6
    <2>8. <<p, w>> \in R
      <3>1. Least \subseteq R
        BY <1>3, <2>7
      <3> QED BY <2>5, <3>1
    <2> QED BY <2>8
  <1>8. ASSUME NEW p \in Places PROVE G[p] = Unfold(G, p)
    <2>1. \A q \in Places : <<q, G[q]>> \in Least /\ \A w \in Meanings : <<q, w>> \in Least => w = G[q]
      BY <1>6, <1>7
    <2>2. Known(Least, G, p)
      BY <2>1, PlaceFacts DEF Known
    <2>3. <<p, Unfold(G, p)>> \in Least /\ Unfold(G, p) \in Meanings
      BY <1>2, <1>5, <2>2, UnfoldType
    <2> QED BY <2>1, <2>3
  <1> QED BY <1>5, <1>8

\* Meaning is such a function.
LEMMA MeaningUnfolds ==
  Meaning \in [Places -> Meanings] /\ \A p \in Places : Meaning[p] = Unfold(Meaning, p)
  <1>1. PICK g \in [Places -> Meanings] : \A p \in Places : g[p] = Unfold(g, p)
    BY MeaningExists
  <1>2. g = [p \in Places |-> Unfold(g, p)]
    BY <1>1
  <1>3. Meaning = CHOOSE h : h = [p \in Places |-> Unfold(h, p)]
    BY Zenon DEF Meaning, Unfold, Done, NameAt, After, Inner
  <1>4. Meaning = [p \in Places |-> Unfold(Meaning, p)]
    BY <1>2, <1>3, Zenon
  <1>5. \A p \in Places : Meaning[p] = Unfold(Meaning, p)
    BY <1>4
  <1> DEFINE T == {p \in Places : Meaning[p] \notin Meanings}
  <1>6. T = {}
    <2> SUFFICES ASSUME T # {} PROVE FALSE
      OBVIOUS
    <2>1. PICK p \in T : ~Done(p) => /\ After(p) \notin T
                                     /\ NameAt(p) \in DOMAIN Script => Inner(p) \notin T
      <3>1. T \subseteq Places
        OBVIOUS
      <3> HIDE DEF T
      <3> QED BY <3>1, Minimal
    <2>2. p \in Places
      OBVIOUS
    <2>3. ~Done(p) => /\ Meaning[After(p)] \in Meanings
                      /\ NameAt(p) \in DOMAIN Script => Meaning[Inner(p)] \in Meanings
      BY <2>1, <2>2, PlaceFacts
    <2>4. \A s, t \in Meanings : s \o t \in Meanings
      BY DEF Meanings
    <2>5. NameAt(p) \in Commands => <<NameAt(p)>> \in Meanings
      BY DEF Meanings
    <2>6. <<>> \in Meanings
      BY DEF Meanings
    <2>7. Unfold(Meaning, p) \in Meanings
      <3> HIDE DEF T
      <3> QED BY <2>3, <2>4, <2>5, <2>6 DEF Unfold
    <2> QED BY <1>5, <2>2, <2>7
  <1> QED BY <1>4, <1>5, <1>6
-----------------------------------------------------------------------------
(* A script runs through *)

\* Where level k of stack st is: on the line that has been read, if act, or behind it.
Place(st, act, k) ==
  [depth |-> k - 1, src |-> st[k].src,
   pos |-> IF act /\ k = Len(st) THEN st[k].pos - 1 ELSE st[k].pos]

\* a[k]: the commands that levels k to 2 of st still have to execute.
Plan(a, st, act) ==
  /\ a \in [1 .. Len(st) -> Meanings] /\ a[1] = <<>>
  /\ \A k \in 2 .. Len(st) : a[k] = Meaning[Place(st, act, k)] \o a[k - 1]

\* Level 1 is the terminal, the others are scripts.
Levels(st) ==
  st \in Seq(Frames) /\ Len(st) \in Nat \ {0} /\ \A k \in 2 .. Len(st) : st[k].src \in DOMAIN Script

LEMMA PlaceType ==
  ASSUME NEW st, Levels(st), NEW k \in 2 .. Len(st),
         NEW act \in BOOLEAN, act => st[Len(st)].pos > 1
  PROVE  Place(st, act, k) \in Places /\ Meaning[Place(st, act, k)] \in Meanings
  <1>1. st[k] \in Frames /\ st[k].src \in DOMAIN Script
    BY DEF Levels
  <1>2. st[k].pos \in Nat \ {0} /\ k - 1 \in Nat
    BY <1>1 DEF Frames, Levels
  <1>3. act /\ k = Len(st) => st[k].pos - 1 \in Nat \ {0}
    BY <1>2
  <1>4. Place(st, act, k) \in Places
    BY <1>1, <1>2, <1>3 DEF Places, Place
  <1> QED BY <1>4, MeaningUnfolds

LEMMA Joins == \A s, t, u \in Meanings : /\ s \o t \in Meanings /\ <<>> \o s = s /\ s \o <<>> = s
                                         /\ (s \o t) \o u = s \o (t \o u)
  BY ConcatAssociative DEF Meanings

LEMMA Associates ==
  ASSUME NEW s \in Meanings, NEW t \in Meanings, NEW u \in Meanings
  PROVE  (s \o t) \o u = s \o (t \o u)
  BY ConcatAssociative DEF Meanings

\* The next line is read.
LEMMA PlanRead ==
  ASSUME NEW st, Levels(st), NEW a, Plan(a, st, FALSE), NEW t,
         t = [st EXCEPT ![Len(st)].pos = @ + 1]
  PROVE  Levels(t) /\ Len(t) = Len(st) /\ Plan(a, t, TRUE)
  <1>1. st \in Seq(Frames) /\ Len(st) \in 1 .. Len(st) /\ Len(st) \in Nat \ {0}
    BY DEF Levels
  <1>2. st[Len(st)] \in Frames
    BY <1>1
  <1> DEFINE f == [st[Len(st)] EXCEPT !.pos = @ + 1]
  <1>3. f \in Frames /\ f.src = st[Len(st)].src /\ f.pos = st[Len(st)].pos + 1
        /\ st[Len(st)].pos \in Nat
    BY <1>2 DEF Frames
  <1>4. t = [st EXCEPT ![Len(st)] = f]
    OBVIOUS
  <1> HIDE DEF f
  <1>5. /\ t \in Seq(Frames) /\ Len(t) = Len(st) /\ t[Len(st)] = f
        /\ \A k \in 1 .. Len(st) : k # Len(st) => t[k] = st[k]
    <2> DEFINE r == [st EXCEPT ![Len(st)] = f]
    <2>1. /\ r \in Seq(Frames) /\ Len(r) = Len(st)
          /\ \A k \in 1 .. Len(st) : r[k] = IF k = Len(st) THEN f ELSE st[k]
      BY <1>1, <1>3, ExceptSeq
    <2>2. t = r
      BY <1>4
    <2> HIDE DEF r
    <2> QED BY <1>1, <2>1, <2>2
  <1>6. \A k \in 1 .. Len(st) : t[k].src = st[k].src
    BY <1>3, <1>5
  <1>7. Levels(t)
    BY <1>1, <1>5, <1>6 DEF Levels
  <1>8. ASSUME NEW k \in 2 .. Len(st) PROVE Place(t, TRUE, k) = Place(st, FALSE, k)
    <2>1. CASE k = Len(st)
      BY <1>1, <1>3, <1>5, <2>1 DEF Place
    <2>2. CASE k # Len(st)
      BY <1>1, <1>5, <2>2 DEF Place
    <2> QED BY <2>1, <2>2
  <1>9. Plan(a, t, TRUE)
    BY <1>5, <1>8 DEF Plan
  <1> QED BY <1>5, <1>7, <1>9

\* The line read has the meaning m, and the stack stays.
LEMMA PlanAct ==
  ASSUME NEW st, Levels(st), Len(st) > 1, st[Len(st)].pos > 1, NEW a, Plan(a, st, TRUE),
         NEW m \in Meanings,
         Meaning[Place(st, TRUE, Len(st))] = m \o Meaning[Place(st, FALSE, Len(st))]
  PROVE  \E b : Plan(b, st, FALSE) /\ a[Len(st)] = m \o b[Len(st)]
  <1> DEFINE n == Len(st)
             rest == Meaning[Place(st, FALSE, n)]
             b == [a EXCEPT ![n] = rest \o a[n - 1]]
  <1>1. n \in Nat /\ n \in 2 .. n /\ n - 1 \in 1 .. n /\ n \in 1 .. n /\ n # 1 /\ 1 \in 1 .. n
    BY DEF Levels
  <1>2. rest \in Meanings
    BY <1>1, PlaceType
  <1>3. a \in [1 .. n -> Meanings] /\ a[n - 1] \in Meanings
    BY <1>1 DEF Plan
  <1>4. rest \o a[n - 1] \in Meanings
    BY <1>2, <1>3, Joins
  <1>5. ASSUME NEW k \in 2 .. n PROVE b[k] = Meaning[Place(st, FALSE, k)] \o b[k - 1]
    <2>1. k \in 1 .. n /\ k - 1 \in 1 .. n /\ k - 1 # n
      BY <1>1
    <2>2. b[k - 1] = a[k - 1]
      BY <1>3, <2>1
    <2>3. CASE k = n
      BY <1>3, <2>1, <2>2, <2>3
    <2>4. CASE k # n
      <3>1. b[k] = a[k] /\ Place(st, FALSE, k) = Place(st, TRUE, k)
        BY <1>3, <2>1, <2>4 DEF Place
      <3> QED BY <2>2, <3>1 DEF Plan
    <2> QED BY <2>3, <2>4
  <1>6. b \in [1 .. n -> Meanings] /\ b[1] = <<>> /\ b[n] = rest \o a[n - 1]
    <2>1. a[1] = <<>>
      BY DEF Plan
    <2> HIDE DEF rest
    <2> QED BY <1>1, <1>3, <1>4, <2>1
  <1>7. Plan(b, st, FALSE)
    BY <1>5, <1>6 DEF Plan
  <1>8. a[n] = (m \o rest) \o a[n - 1]
    BY <1>1 DEF Plan
  <1>9. a[n] = m \o b[n]
    <2> HIDE DEF rest, b, n
    <2>1. (m \o rest) \o a[n - 1] = m \o (rest \o a[n - 1])
      <3>1. m \in Meanings /\ rest \in Meanings /\ a[n - 1] \in Meanings
        BY <1>2, <1>3
      <3> QED BY <3>1, Associates
    <2> QED BY <1>6, <1>8, <2>1
  <1> QED BY <1>7, <1>9

\* The top level returns when nothing is left of it.
LEMMA PlanPop ==
  ASSUME NEW st, Levels(st), Len(st) > 1, NEW act \in BOOLEAN, NEW a, Plan(a, st, act),
         Meaning[Place(st, act, Len(st))] = <<>>,
         NEW t, t = SubSeq(st, 1, Len(st) - 1)
  PROVE  /\ Levels(t) /\ Len(t) = Len(st) - 1
         /\ \E b : Plan(b, t, FALSE) /\ b[Len(t)] = a[Len(st)]
  <1> DEFINE n == Len(st)
             b == [k \in 1 .. n - 1 |-> a[k]]
  <1>1. n \in Nat /\ n - 1 \in 0 .. n /\ n - 1 \in 1 .. n /\ n \in 2 .. n /\ n - 1 \in Nat \ {0}
    BY DEF Levels
  <1>2. t \in Seq(Frames) /\ Len(t) = n - 1 /\ \A k \in 1 .. n - 1 : t[k] = st[k]
    BY <1>1, PrefixFacts DEF Levels
  <1>3. Levels(t)
    BY <1>1, <1>2 DEF Levels
  <1>4. a \in [1 .. n -> Meanings] /\ a[n - 1] \in Meanings /\ a[n] = <<>> \o a[n - 1] /\ a[1] = <<>>
    BY <1>1 DEF Plan
  <1>5. a[n] = a[n - 1]
    BY <1>4, Joins
  <1>6. ASSUME NEW k \in 2 .. n - 1 PROVE b[k] = Meaning[Place(t, FALSE, k)] \o b[k - 1]
    <2>1. k \in 1 .. n - 1 /\ k - 1 \in 1 .. n - 1 /\ k \in 2 .. n /\ k # n
      BY <1>1
    <2>2. Place(t, FALSE, k) = Place(st, act, k)
      BY <1>2, <2>1 DEF Place
    <2> QED BY <2>1, <2>2 DEF Plan
  <1>7. b \in [1 .. n - 1 -> Meanings] /\ b[1] = <<>> /\ b[n - 1] = a[n - 1]
    BY <1>1, <1>4
  <1>8. Plan(b, t, FALSE)
    BY <1>2, <1>6, <1>7 DEF Plan
  <1> QED BY <1>2, <1>3, <1>5, <1>7, <1>8

\* A script is started one level up.
LEMMA PlanPush ==
  ASSUME NEW st, Levels(st), NEW a, Plan(a, st, FALSE), NEW s \in DOMAIN Script,
         NEW t, t = Append(st, Frame(s))
  PROVE  /\ Levels(t) /\ Len(t) = Len(st) + 1
         /\ \E b : Plan(b, t, FALSE) /\ b[Len(t)] = Meaning[Entry(Len(st), s)] \o a[Len(st)]
  <1> DEFINE n == Len(st)
             m == Meaning[Entry(n, s)]
             b == [k \in 1 .. n + 1 |-> IF k = n + 1 THEN m \o a[n] ELSE a[k]]
  <1>1. n \in Nat \ {0} /\ n \in 1 .. n /\ n + 1 \in 1 .. n + 1 /\ 1 \in 1 .. n /\ 1 \in 1 .. n + 1 /\ 1 # n + 1
    BY DEF Levels
  <1>2. Frame(s) \in Frames /\ Frame(s).src = s /\ Frame(s).pos = 1
    BY DEF Frame, Frames
  <1>3. t \in Seq(Frames) /\ Len(t) = n + 1 /\ t[n + 1] = Frame(s) /\ \A k \in 1 .. n : t[k] = st[k]
    <2> HIDE DEF Frame
    <2> QED BY <1>2 DEF Levels
  <1>4. Levels(t)
    <2>1. ASSUME NEW k \in 2 .. n + 1 PROVE t[k].src \in DOMAIN Script
      <3>1. CASE k = n + 1
        BY <1>2, <1>3, <3>1
      <3>2. CASE k # n + 1
        <4>1. k \in 1 .. n /\ k \in 2 .. n
          BY <1>1, <3>2
        <4> QED BY <1>3, <4>1 DEF Levels
      <3> QED BY <3>1, <3>2
    <2> QED BY <1>1, <1>3, <2>1 DEF Levels
  <1>5. Entry(n, s) \in Places /\ m \in Meanings
    <2>1. Entry(n, s) \in Places
      BY <1>1 DEF Entry, Places
    <2> QED BY <2>1, MeaningUnfolds
  <1>6. a \in [1 .. n -> Meanings] /\ a[n] \in Meanings /\ a[1] = <<>>
    BY <1>1 DEF Plan
  <1>7. m \o a[n] \in Meanings
    BY <1>5, <1>6, Joins
  <1> HIDE DEF m
  <1>8. b \in [1 .. n + 1 -> Meanings]
    <2>1. ASSUME NEW k \in 1 .. n + 1, k # n + 1 PROVE a[k] \in Meanings
      <3>1. k \in 1 .. n
        BY <1>1, <2>1
      <3> QED BY <1>6, <3>1
    <2> QED BY <1>7, <2>1
  <1>9. ASSUME NEW k \in 2 .. n + 1 PROVE b[k] = Meaning[Place(t, FALSE, k)] \o b[k - 1]
    <2>1. k \in 1 .. n + 1 /\ k - 1 \in 1 .. n + 1 /\ k - 1 # n + 1
      BY <1>1
    <2>2. CASE k = n + 1
      <3>1. Place(t, FALSE, k) = Entry(n, s)
        BY <1>1, <1>2, <1>3, <2>2 DEF Place, Entry
      <3>2. b[k] = m \o a[n] /\ b[k - 1] = a[n]
        BY <1>1, <2>1, <2>2
      <3> QED BY <3>1, <3>2 DEF m
    <2>3. CASE k # n + 1
      <3>1. k \in 2 .. n /\ k \in 1 .. n
        BY <1>1, <2>3
      <3>2. Place(t, FALSE, k) = Place(st, FALSE, k)
        BY <1>3, <3>1 DEF Place
      <3>3. b[k] = a[k] /\ b[k - 1] = a[k - 1]
        BY <2>1, <2>3
      <3> QED BY <3>1, <3>2, <3>3 DEF Plan
    <2> QED BY <2>2, <2>3
  <1>10. b[1] = <<>> /\ b[n + 1] = m \o a[n]
    BY <1>1, <1>6
  <1>11. Plan(b, t, FALSE)
    BY <1>3, <1>8, <1>9, <1>10 DEF Plan
  <1> QED BY <1>3, <1>4, <1>10, <1>11 DEF m

\* Commands come first, then exit, then scripts.
Runs(name) == name \in DOMAIN Script \ (Commands \cup Exits \cup {"blank", "help"})

\* What is left of the scripts completes the meaning of the one that was typed.
Completes ==
  \E a : /\ Plan(a, stack, pc = "act")
         /\ trace \o a[Len(stack)] = Meaning[Entry(1, typed.name)]

\* The line read is the one typed, or the one before the position in the script.
LineIs ==
  /\ Len(stack) = 1 => line.name = typed.name /\ trace = <<>>
  /\ Len(stack) > 1 => /\ Top.pos > 1 /\ Top.pos - 1 <= Len(Script[Top.src])
                       /\ line = Script[Top.src][Top.pos - 1]

Through ==
  (errors = 0 /\ MaxFiles > MaxIter /\ pc \in {"read", "act"}) =>
     /\ pc = "act" => LineIs
     /\ Runs(typed.name) /\ (pc = "read" \/ Len(stack) > 1) => Completes

LEMMA LevelsHold ==
  ASSUME TypeOK, FlagMatchesFile
  PROVE  Levels(stack) /\ Len(stack) \in Nat \ {0} /\ (Len(stack) = 1 \/ Len(stack) > 1)
  <1>1. stack \in Seq(Frames) /\ Len(stack) \in Nat \ {0} /\ Len(stack) \in 1 .. MaxIter + 1
    BY BoundAssumption DEF TypeOK, Frames
  <1>2. ASSUME NEW k \in 2 .. Len(stack) PROVE stack[k].src \in DOMAIN Script
    <2>1. k \in 1 .. Len(stack) /\ k # 1
      BY <1>1
    <2>2. stack[k] \in Frames /\ stack[k].src # Stdin
      BY <1>1, <2>1 DEF FlagMatchesFile
    <2> QED BY <2>2 DEF Frames
  <1>3. ASSUME NEW n \in Nat \ {0} PROVE n = 1 \/ n > 1
    OBVIOUS
  <1>4. Len(stack) = 1 \/ Len(stack) > 1
    BY <1>1, <1>3, Zenon
  <1> QED BY <1>1, <1>2, <1>4 DEF Levels

\* What the line read in a script means.
LEMMA LineMeans ==
  ASSUME TypeOK, FlagMatchesFile, Len(stack) > 1, LineIs
  PROVE  LET n     == Len(stack)
             whole == Meaning[Place(stack, TRUE, n)]
             rest  == Meaning[Place(stack, FALSE, n)]
         IN  /\ line.name \in Commands => whole = <<line.name>> \o rest
             /\ line.name \in Exits \ Commands => whole = <<>>
             /\ Runs(line.name) => whole = Meaning[Entry(n, line.name)] \o rest
             /\ line.name \notin Commands \cup Exits /\ ~Runs(line.name) => whole = rest
  <1> DEFINE n == Len(stack)
             p == Place(stack, TRUE, n)
             q == Place(stack, FALSE, n)
  <1>1. Levels(stack) /\ n \in Nat \ {0} /\ n \in 2 .. n /\ n <= MaxIter + 1 /\ MaxIter \in Nat
    BY LevelsHold, BoundAssumption DEF TypeOK
  <1>2. stack[n].pos > 1 /\ stack[n].pos - 1 <= Len(Script[stack[n].src])
        /\ line = Script[stack[n].src][stack[n].pos - 1]
    BY DEF LineIs, Top
  <1>3. p \in Places /\ q \in Places
    BY <1>1, <1>2, PlaceType
  <1>4. /\ p = [depth |-> n - 1, src |-> stack[n].src, pos |-> stack[n].pos - 1]
        /\ q = [depth |-> n - 1, src |-> stack[n].src, pos |-> stack[n].pos]
    BY DEF Place
  <1> HIDE DEF p, q
  <1>5. stack[n].pos \in Nat
    BY <1>3, <1>4 DEF Places
  <1>6. After(p) = q
    <2>1. After(p) = [depth |-> n - 1, src |-> stack[n].src, pos |-> (stack[n].pos - 1) + 1]
      BY <1>4 DEF After
    <2>2. (stack[n].pos - 1) + 1 = stack[n].pos
      BY <1>5
    <2> QED BY <1>4, <2>1, <2>2
  <1>7. NameAt(p) = line.name
    BY <1>2, <1>4 DEF NameAt
  <1>8. ~Done(p)
    <2>1. p.depth = n - 1 /\ p.src = stack[n].src /\ p.pos = stack[n].pos - 1
      BY <1>4
    <2>2. ~(p.depth > MaxIter)
      BY <1>1, <2>1
    <2>3. Len(Script[p.src]) \in Nat
      BY <1>3, PlaceFacts
    <2>4. ~(p.pos > Len(Script[p.src]))
      BY <1>2, <1>5, <2>1, <2>3
    <2> QED BY <2>2, <2>4 DEF Done
  <1>9. Inner(p) = Entry(n, line.name)
    <2>1. p.depth + 1 = n
      BY <1>1, <1>4
    <2> QED BY <1>7, <2>1 DEF Inner
  <1>10. Meaning[p] = Unfold(Meaning, p)
    BY <1>3, MeaningUnfolds
  <1>11. /\ line.name \in Commands => Meaning[p] = <<line.name>> \o Meaning[q]
         /\ line.name \in Exits \ Commands => Meaning[p] = <<>>
         /\ Runs(line.name) => Meaning[p] = Meaning[Entry(n, line.name)] \o Meaning[q]
         /\ line.name \notin Commands \cup Exits /\ ~Runs(line.name) => Meaning[p] = Meaning[q]
    BY <1>6, <1>7, <1>8, <1>9, <1>10 DEF Unfold, Runs
  <1> QED BY <1>11 DEF p, q

\* At the end of a script nothing is left of it.
LEMMA EndMeans ==
  ASSUME TypeOK, FlagMatchesFile, Len(stack) > 1, Top.pos > Len(Script[Top.src])
  PROVE  Meaning[Place(stack, FALSE, Len(stack))] = <<>>
  <1> DEFINE q == Place(stack, FALSE, Len(stack))
  <1>1. q \in Places
    <2>1. Levels(stack) /\ Len(stack) \in 2 .. Len(stack)
      BY LevelsHold
    <2> QED BY <2>1, PlaceType
  <1>2. q.src = Top.src /\ q.pos = Top.pos
    BY DEF Place, Top
  <1>3. Done(q)
    BY <1>2 DEF Done
  <1> HIDE DEF q
  <1>4. Meaning[q] = <<>>
    BY <1>1, <1>3, MeaningUnfolds DEF Unfold
  <1> QED BY <1>4 DEF q

\* Too deep a script means nothing.
LEMMA TooDeep ==
  ASSUME NEW d \in Nat, d > MaxIter, NEW s \in DOMAIN Script
  PROVE  Meaning[Entry(d, s)] = <<>>
  <1>1. Entry(d, s) \in Places /\ Done(Entry(d, s))
    BY DEF Entry, Places, Done
  <1> QED BY <1>1, MeaningUnfolds DEF Unfold

\* A line of a script with the meaning m has been executed, and the stack stays.
LEMMA LineDone ==
  ASSUME TypeOK, FlagMatchesFile, Len(stack) > 1, LineIs, Completes, pc = "act",
         NEW m \in Meanings,
         Meaning[Place(stack, TRUE, Len(stack))] = m \o Meaning[Place(stack, FALSE, Len(stack))]
  PROVE  \E b : /\ Plan(b, stack, FALSE) /\ b[Len(stack)] \in Meanings
                /\ (trace \o m) \o b[Len(stack)] = Meaning[Entry(1, typed.name)]
  <1>1. PICK a : /\ Plan(a, stack, TRUE)
                 /\ trace \o a[Len(stack)] = Meaning[Entry(1, typed.name)]
    BY DEF Completes
  <1>2. Levels(stack) /\ stack[Len(stack)].pos > 1 /\ Len(stack) \in 1 .. Len(stack)
    BY LevelsHold DEF LineIs, Top
  <1>3. PICK b : Plan(b, stack, FALSE) /\ a[Len(stack)] = m \o b[Len(stack)]
    BY <1>1, <1>2, PlanAct
  <1>4. b[Len(stack)] \in Meanings /\ trace \in Meanings
    BY <1>2, <1>3 DEF Plan, TypeOK, Meanings
  <1>5. (trace \o m) \o b[Len(stack)] = trace \o (m \o b[Len(stack)])
    BY <1>4, Associates
  <1> QED BY <1>1, <1>3, <1>4, <1>5

\* A script returns after what it had to do.
LEMMA ReturnThrough ==
  ASSUME TypeOK, FlagMatchesFile, Through, Return, UNCHANGED marks,
         pc \in {"read", "act"},
         Len(stack) > 1 => Meaning[Place(stack, pc = "act", Len(stack))] = <<>>
  PROVE  Through'
  <1> SUFFICES ASSUME errors' = 0, MaxFiles > MaxIter, pc' \in {"read", "act"}
               PROVE  pc' = "read" /\ (Runs(typed'.name) => Completes')
    BY DEF Through
  <1>1. Len(stack) > 1 /\ pc' = "read" /\ stack' = Pop
    BY LevelsHold DEF Return
  <1> SUFFICES ASSUME Runs(typed'.name) PROVE Completes'
    BY <1>1
  <1>2. Completes
    BY <1>1 DEF Through, marks
  <1>3. PICK a : /\ Plan(a, stack, pc = "act")
                 /\ trace \o a[Len(stack)] = Meaning[Entry(1, typed.name)]
    BY <1>2 DEF Completes
  <1>4. Levels(stack) /\ (pc = "act") \in BOOLEAN
    BY LevelsHold
  <1>5. PICK b : Plan(b, Pop, FALSE) /\ b[Len(Pop)] = a[Len(stack)]
    BY <1>1, <1>3, <1>4, PlanPop DEF Pop
  <1>6. Plan(b, stack', pc' = "act")
    BY <1>1, <1>5
  <1> QED BY <1>1, <1>3, <1>5, <1>6 DEF Completes, marks

LEMMA ThroughStep ==
  ASSUME TypeOK, FlagMatchesFile, FilesMatchStack, Through, Next
  PROVE  Through'
  <1>0. /\ Levels(stack) /\ Len(stack) \in Nat \ {0} /\ (Len(stack) = 1 \/ Len(stack) > 1)
        /\ MaxIter \in Nat /\ Len(stack) <= MaxIter + 1 /\ trace \in Meanings /\ errors \in Nat
    BY LevelsHold, BoundAssumption DEF TypeOK, Meanings
  <1>1. CASE Prompt
    <2>1. Len(stack) = 1 /\ pc' = "act" /\ line'.name = typed'.name /\ trace' = <<>> /\ stack' = stack
      BY <1>0, <1>1 DEF Prompt, FlagMatchesFile, Top
    <2>2. ~(pc' = "read" \/ Len(stack') > 1) /\ ~(Len(stack') > 1)
      <3>1. Len(stack') = 1 /\ pc' # "read"
        BY <2>1
      <3>2. ~(1 > 1)
        OBVIOUS
      <3> QED BY <3>1, <3>2, Zenon
    <2>3. LineIs'
      BY <2>1, <2>2 DEF LineIs
    <2> QED BY <2>2, <2>3 DEF Through
  <1>2. CASE EndOfInput
    BY <1>2 DEF EndOfInput, Through
  <1>3. CASE ReadScript
    <2> SUFFICES ASSUME errors' = 0, MaxFiles > MaxIter
                 PROVE  LineIs' /\ (Runs(typed'.name) => Completes')
      BY <1>3 DEF Through
    <2>1. /\ pc = "read" /\ pc' = "act" /\ Top.pos <= Len(Script[Top.src])
          /\ line' = Script[Top.src][Top.pos]
          /\ stack' = [stack EXCEPT ![Len(stack)].pos = @ + 1] /\ UNCHANGED marks
          /\ Len(stack) > 1
      BY <1>0, <1>3 DEF ReadScript, FlagMatchesFile, Top
    <2>2. Len(stack') = Len(stack) /\ Top'.pos = Top.pos + 1 /\ Top'.src = Top.src /\ Top.pos \in Nat \ {0}
      <3>1. stack \in Seq(Frames) /\ Len(stack) \in 1 .. Len(stack)
        BY <1>0 DEF Levels
      <3>2. Top \in Frames
        BY <3>1 DEF Top
      <3> DEFINE f == [Top EXCEPT !.pos = @ + 1]
      <3>3. f \in Frames /\ f.src = Top.src /\ f.pos = Top.pos + 1 /\ Top.pos \in Nat \ {0}
        BY <3>2 DEF Frames
      <3>4. stack' = [stack EXCEPT ![Len(stack)] = f]
        BY <2>1 DEF Top
      <3> HIDE DEF f
      <3>5. Len(stack') = Len(stack) /\ stack'[Len(stack)] = f
        BY <3>1, <3>3, <3>4
      <3> QED BY <3>3, <3>5 DEF Top
    <2>3. LineIs'
      <3>1. Top'.pos - 1 = Top.pos /\ Top'.pos > 1
        BY <2>2
      <3>2. Len(stack') > 1 /\ ~(Len(stack') = 1)
        BY <2>1, <2>2
      <3>3. line' = Script[Top'.src][Top'.pos - 1] /\ Top'.pos - 1 <= Len(Script[Top'.src])
        BY <2>1, <2>2, <3>1
      <3> QED BY <3>1, <3>2, <3>3 DEF LineIs
    <2>4. ASSUME Runs(typed'.name) PROVE Completes'
      <3>1. Completes
        BY <2>1, <2>4 DEF Through, marks
      <3>2. PICK a : /\ Plan(a, stack, FALSE)
                     /\ trace \o a[Len(stack)] = Meaning[Entry(1, typed.name)]
        BY <2>1, <3>1 DEF Completes
      <3>3. Plan(a, stack', TRUE)
        BY <1>0, <2>1, <3>2, PlanRead
      <3>4. Plan(a, stack', pc' = "act")
        BY <2>1, <3>3
      <3> QED BY <2>1, <2>2, <3>2, <3>4 DEF Completes, marks
    <2> QED BY <2>3, <2>4
  <1>4. CASE EndOfScript
    <2>1. /\ pc = "read" /\ Return /\ UNCHANGED marks /\ Top.pos > Len(Script[Top.src])
      BY <1>4 DEF EndOfScript
    <2>2. Len(stack) > 1 => Meaning[Place(stack, pc = "act", Len(stack))] = <<>>
      <3>1. (pc = "act") = FALSE
        BY <2>1
      <3> QED BY <2>1, <3>1, EndMeans
    <2> QED BY <2>1, <2>2, ReturnThrough
  <1>5. CASE Exit
    <2>1. /\ pc = "act" /\ Return /\ UNCHANGED marks /\ line.name \in Exits \ Commands
      BY <1>5 DEF Exit, Is
    <2>2. CASE errors # 0 \/ ~(MaxFiles > MaxIter)
      BY <2>1, <2>2 DEF Through, marks
    <2>3. CASE errors = 0 /\ MaxFiles > MaxIter
      <3>1. LineIs
        BY <2>1, <2>3 DEF Through
      <3>2. Len(stack) > 1 => Meaning[Place(stack, pc = "act", Len(stack))] = <<>>
        <4>1. (pc = "act") = TRUE
          BY <2>1
        <4> QED BY <2>1, <3>1, <4>1, LineMeans
      <3> QED BY <2>1, <3>2, ReturnThrough
    <2> QED BY <2>2, <2>3
  <1>6. ASSUME NEW c \in Commands, Error(c) PROVE Through'
    BY <1>0, <1>6 DEF Error, Through
  \* The other steps act on a line, and the stack stays or grows.
  <1>7. ASSUME pc = "act", pc' = "read", UNCHANGED <<typed, errors>>, errors = 0, MaxFiles > MaxIter,
               Runs(typed.name), Len(stack) > 1, stack' = stack, NEW m \in Meanings,
               Meaning[Place(stack, TRUE, Len(stack))] = m \o Meaning[Place(stack, FALSE, Len(stack))],
               trace' = trace \o m
        PROVE  Completes'
    <2>1. LineIs /\ Completes
      BY <1>7 DEF Through
    <2>2. PICK b : /\ Plan(b, stack, FALSE)
                   /\ (trace \o m) \o b[Len(stack)] = Meaning[Entry(1, typed.name)]
      BY <1>7, <2>1, LineDone
    <2>3. Plan(b, stack', pc' = "act")
      BY <1>7, <2>2
    <2> QED BY <1>7, <2>2, <2>3 DEF Completes
  <1>8. ASSUME NEW c \in Commands, Execute(c) PROVE Through'
    <2>1. /\ pc = "act" /\ line.name = c /\ pc' = "read" /\ trace' = Append(trace, c)
          /\ UNCHANGED <<stack, typed, errors>>
      BY <1>8 DEF Execute, Is
    <2> SUFFICES ASSUME errors = 0, MaxFiles > MaxIter, Runs(typed.name)
                 PROVE  Completes'
      BY <2>1 DEF Through
    <2>2. LineIs
      BY <2>1 DEF Through
    <2>3. Len(stack) > 1
      BY <1>0, <2>1, <2>2 DEF LineIs, Runs
    <2>4. Meaning[Place(stack, TRUE, Len(stack))] = <<c>> \o Meaning[Place(stack, FALSE, Len(stack))]
      BY <2>1, <2>2, <2>3, LineMeans
    <2>5. <<c>> \in Meanings /\ trace' = trace \o <<c>>
      BY <1>0, <2>1 DEF Meanings
    <2> QED BY <1>7, <2>1, <2>3, <2>4, <2>5
  \* A line without a meaning.
  <1>9. ASSUME pc = "act", pc' = "read", UNCHANGED <<stack, marks>>, ~Runs(line.name),
               line.name \notin Commands \cup Exits
        PROVE  Through'
    <2> SUFFICES ASSUME errors = 0, MaxFiles > MaxIter, Runs(typed.name)
                 PROVE  Completes'
      BY <1>9 DEF Through, marks
    <2>2. LineIs
      BY <1>9 DEF Through
    <2>3. Len(stack) > 1
      BY <1>0, <1>9, <2>2 DEF LineIs
    <2> DEFINE rest == Meaning[Place(stack, FALSE, Len(stack))]
    <2>4. Meaning[Place(stack, TRUE, Len(stack))] = rest
      BY <1>9, <2>2, <2>3, LineMeans
    <2>5. rest \in Meanings
      <3>1. Len(stack) \in 2 .. Len(stack)
        BY <1>0, <2>3
      <3> QED BY <1>0, <3>1, PlaceType
    <2> HIDE DEF rest
    <2>6. rest = <<>> \o rest /\ trace \o <<>> = trace /\ <<>> \in Meanings
      BY <1>0, <2>5, Joins DEF Meanings
    <2>7. trace' = trace \o <<>> /\ UNCHANGED <<typed, errors>> /\ stack' = stack
      BY <1>9, <2>6 DEF marks
    <2>8. Meaning[Place(stack, TRUE, Len(stack))] = <<>> \o Meaning[Place(stack, FALSE, Len(stack))]
      BY <2>4, <2>6 DEF rest
    <2> QED BY <1>7, <1>9, <2>3, <2>6, <2>7, <2>8
  <1>10. CASE Skip
    <2>1. /\ pc = "act" /\ pc' = "read" /\ UNCHANGED <<stack, marks>>
          /\ line.name = "blank" \/ (line.name = "help" /\ "help" \notin Commands)
      BY <1>10 DEF Skip, Is
    <2>2. line.name \notin Commands \cup Exits /\ ~Runs(line.name)
      BY <2>1, ScriptAssumption DEF Runs
    <2> QED BY <1>9, <2>1, <2>2
  <1>11. CASE Unknown
    <2>1. /\ pc = "act" /\ pc' = "read" /\ UNCHANGED <<stack, marks>>
          /\ line.name \notin Commands \cup Exits \cup {"blank", "help"}
          /\ line.name \notin DOMAIN Script \/ files >= MaxFiles
      BY <1>11 DEF Unknown
    <2>2. CASE errors # 0 \/ ~(MaxFiles > MaxIter)
      BY <2>1, <2>2 DEF Through, marks
    <2>3. CASE errors = 0 /\ MaxFiles > MaxIter
      <3>1. files < MaxFiles
        BY <1>0, <2>3, BoundAssumption DEF FilesMatchStack, TypeOK
      <3>2. files \in Nat /\ MaxFiles \in Nat
        BY BoundAssumption DEF TypeOK
      <3>3. ~Runs(line.name) /\ line.name \notin Commands \cup Exits
        BY <2>1, <3>1, <3>2 DEF Runs
      <3> QED BY <1>9, <2>1, <3>3
    <2> QED BY <2>2, <2>3
  <1>12. ASSUME NEW s \in DOMAIN Script, RunScript(s) PROVE Through'
    <2>1. /\ pc = "act" /\ line.name = s /\ Runs(s) /\ pc' = "read" /\ UNCHANGED marks
          /\ IF Len(stack) > MaxIter THEN UNCHANGED stack ELSE stack' = Append(stack, Frame(s))
      BY <1>12 DEF RunScript, Opens, Is, Runs
    <2> SUFFICES ASSUME errors = 0, MaxFiles > MaxIter, Runs(typed.name)
                 PROVE  Completes'
      BY <2>1 DEF Through, marks
    <2>2. LineIs
      BY <2>1 DEF Through
    <2> DEFINE m == Meaning[Entry(Len(stack), s)]
    <2>3. m \in Meanings
      <3>1. Entry(Len(stack), s) \in Places
        BY <1>0 DEF Entry, Places
      <3> QED BY <3>1, MeaningUnfolds
    <2>4. Len(stack) > 1 =>
            Meaning[Place(stack, TRUE, Len(stack))] = m \o Meaning[Place(stack, FALSE, Len(stack))]
      BY <2>1, <2>2, LineMeans
    <2>5. CASE Len(stack) > MaxIter /\ Len(stack) > 1
      <3>1. m = <<>>
        BY <1>0, <2>5, TooDeep
      <3>2. trace' = trace \o m /\ UNCHANGED <<typed, errors>> /\ stack' = stack
        <4>1. trace \o <<>> = trace
          BY <1>0, Joins
        <4> QED BY <2>1, <2>5, <3>1, <4>1 DEF marks
      <3> HIDE DEF m
      <3> QED BY <1>7, <2>1, <2>3, <2>4, <2>5, <3>2 DEF m
    <2>6. CASE Len(stack) > MaxIter /\ Len(stack) = 1
      <3>1. typed.name = s /\ trace = <<>> /\ m = <<>>
        BY <1>0, <2>1, <2>2, <2>6, TooDeep DEF LineIs
      <3> DEFINE b == [k \in 1 .. 1 |-> <<>>]
      <3>2. Plan(b, stack, FALSE)
        BY <2>6 DEF Plan, Meanings
      <3>3. Plan(b, stack', pc' = "act") /\ Len(stack') = 1
        BY <2>1, <2>6, <3>2
      <3>4. trace' \o b[Len(stack')] = Meaning[Entry(1, typed'.name)]
        BY <2>1, <2>6, <3>1, <3>3 DEF marks
      <3> HIDE DEF b
      <3> QED BY <3>3, <3>4 DEF Completes
    <2>7. CASE ~(Len(stack) > MaxIter)
      <3>1. PICK b : /\ Plan(b, stack, FALSE) /\ b[Len(stack)] \in Meanings
                     /\ (trace \o m) \o b[Len(stack)] = Meaning[Entry(1, typed.name)]
        <4>1. CASE Len(stack) > 1
          <5>1. Completes
            BY <2>1, <4>1 DEF Through
          <5> HIDE DEF m
          <5> QED BY <2>1, <2>2, <2>3, <2>4, <4>1, <5>1, LineDone DEF m
        <4>2. CASE Len(stack) = 1
          <5>1. typed.name = s /\ trace = <<>>
            BY <2>1, <2>2, <4>2 DEF LineIs
          <5> DEFINE e == [k \in 1 .. 1 |-> <<>>]
          <5>2. Plan(e, stack, FALSE)
            BY <4>2 DEF Plan, Meanings
          <5>3. e[Len(stack)] = <<>> /\ <<>> \in Meanings
            BY <4>2 DEF Meanings
          <5>4. (trace \o m) \o <<>> = m /\ m = Meaning[Entry(1, typed.name)]
            BY <2>3, <4>2, <5>1, Joins
          <5> HIDE DEF e, m
          <5> QED BY <5>2, <5>3, <5>4
        <4> QED BY <1>0, <4>1, <4>2
      <3>2. stack' = Append(stack, Frame(s))
        BY <2>1, <2>7
      <3>a. \E e : Plan(e, stack', FALSE) /\ e[Len(stack')] = Meaning[Entry(Len(stack), s)] \o b[Len(stack)]
        <4>1. Levels(stack) /\ Plan(b, stack, FALSE)
          BY <1>0, <3>1
        <4>2. \A t : t = Append(stack, Frame(s)) =>
                       \E e : Plan(e, t, FALSE) /\ e[Len(t)] = Meaning[Entry(Len(stack), s)] \o b[Len(stack)]
          BY <4>1, PlanPush
        <4> QED BY <3>2, <4>2
      <3>3. PICK e : Plan(e, stack', FALSE) /\ e[Len(stack')] = m \o b[Len(stack)]
        BY <3>a
      <3> HIDE DEF m
      <3>4. trace \o (m \o b[Len(stack)]) = (trace \o m) \o b[Len(stack)]
        BY <1>0, <2>3, <3>1, Associates
      <3>5. Plan(e, stack', pc' = "act")
        BY <2>1, <3>3
      <3>6. trace' \o e[Len(stack')] = Meaning[Entry(1, typed'.name)]
        BY <2>1, <3>1, <3>3, <3>4 DEF marks
      <3> QED BY <3>5, <3>6 DEF Completes
    <2> QED BY <1>0, <2>5, <2>6, <2>7
  <1> QED BY <1>1, <1>2, <1>3, <1>4, <1>5, <1>6, <1>8, <1>10, <1>11, <1>12 DEF Next, RunStep

\* At the prompt nothing is left.
LEMMA NothingLeft ==
  ASSUME TypeOK, FlagMatchesFile, Through
  PROVE  ScriptRunsThrough
  <1> SUFFICES ASSUME pc = "read", Len(stack) = 1, errors = 0, MaxFiles > MaxIter, Runs(typed.name)
               PROVE  trace = Meaning[Entry(1, typed.name)]
    BY DEF ScriptRunsThrough, Runs
  <1>1. PICK a : Plan(a, stack, FALSE) /\ trace \o a[Len(stack)] = Meaning[Entry(1, typed.name)]
    BY DEF Through, Completes
  <1>2. a[Len(stack)] = <<>> /\ trace \in Meanings
    BY <1>1 DEF Plan, TypeOK, Meanings
  <1>3. trace \o <<>> = trace
    BY <1>2, Joins
  <1> QED BY <1>1, <1>2, <1>3

-----------------------------------------------------------------------------
(* The theorems *)

Inv == /\ TypeOK /\ FlagMatchesFile /\ CallsInOrder /\ TypedIsSent
       /\ FilesMatchStack /\ files >= Len(stack) - 1 /\ Through

LEMMA TypeParts == TypeOK <=> /\ pc \in {"read", "act", "ended", "crashed"}
                              /\ stack \in Seq(Frames) /\ Len(stack) \in 1 .. MaxIter + 1
                              /\ interactive \in BOOLEAN /\ files \in 0 .. MaxFiles
                              /\ Queues /\ Rest
  BY DEF TypeOK, Frames, Queues, Rest

LEMMA InvInit == Init => Inv
  <1> SUFFICES ASSUME Init PROVE Inv
    OBVIOUS
  <1>0. /\ pc = "read" /\ stack = <<Frame(Stdin)>> /\ interactive = TRUE /\ files = 0
        /\ buffered = <<>> /\ device = <<>> /\ issued = 0
    BY DEF Init
  <1>a. /\ line = Nothing /\ typed = [n |-> 0, name |-> "blank"] /\ trace = <<>> /\ errors = 0
    BY DEF Init
  <1>b. "blank" \in Names /\ MaxIter \in Nat /\ MaxFiles \in Nat /\ MaxTyped \in Nat /\ MaxErrors \in Nat
    BY BoundAssumption, ScriptAssumption
  <1>1. stack \in Seq(Frames) /\ Len(stack) = 1 /\ stack[1].src = Stdin
    BY <1>0 DEF Frame, Frames
  <1>2. Queues
    BY <1>0 DEF Queues
  <1>3. Rest
    <2>1. "blank" \in Names /\ 0 \in 0 .. MaxTyped /\ 0 \in 0 .. MaxErrors
      BY <1>b
    <2>2. line \in Piece
      BY <1>a, <2>1 DEF Nothing
    <2>3. typed \in [n : 0 .. MaxTyped, name : Names]
      BY <1>a, <2>1
    <2>4. trace \in Seq(Commands) /\ errors \in 0 .. MaxErrors
      BY <1>a, <2>1
    <2> QED BY <2>2, <2>3, <2>4 DEF Rest
  <1>4. TypeOK
    <2>1. 1 \in 1 .. MaxIter + 1 /\ 0 \in 0 .. MaxFiles
      BY <1>b
    <2> QED BY <1>0, <1>1, <1>2, <1>3, <2>1, TypeParts
  <1>5. FlagMatchesFile
    BY <1>0, <1>1 DEF FlagMatchesFile, Top
  <1>6. device \o buffered = <<>>
    BY <1>0
  <1>7. CallsInOrder
    BY <1>6 DEF CallsInOrder, Ordered
  <1>8. TypedIsSent /\ FilesMatchStack /\ files >= Len(stack) - 1
    BY <1>0, <1>1 DEF TypedIsSent, FilesMatchStack
  <1>9. Through
    BY <1>0, <1>1, <1>a DEF Through, Runs
  <1> QED BY <1>4, <1>5, <1>7, <1>8, <1>9 DEF Inv

LEMMA InvStep == Inv /\ [Next]_vars => Inv'
  <1> SUFFICES ASSUME Inv, [Next]_vars PROVE Inv'
    OBVIOUS
  <1>1. CASE Next
    <2>1. Control
      BY TypeParts DEF Inv, Control
    <2>2. Control'
      BY <1>1, <2>1, ControlStep DEF Inv
    <2>3. CallsInOrder' /\ Queues'
      BY <1>1, CallsStep DEF Inv
    <2>4. Rest'
      BY <1>1, RestStep DEF Inv
    <2>5. FilesMatchStack' /\ TypedIsSent'
      BY <1>1, FilesStep, SentStep DEF Inv
    <2>6. TypeOK'
      BY <2>2, <2>3, <2>4 DEF TypeOK, Control, Queues, Rest, Frames
    <2>7. Through'
      BY <1>1, ThroughStep DEF Inv
    <2> QED BY <2>2, <2>3, <2>5, <2>6, <2>7 DEF Inv, Control
  <1>2. CASE UNCHANGED vars
    <2>1. Through'
      BY <1>2 DEF vars, rpc, marks, Inv, Through, LineIs, Completes, Top
    <2> QED BY <1>2, <2>1 DEF vars, rpc, marks, Inv, TypeOK, FlagMatchesFile, Top, CallsInOrder,
              TypedIsSent, FilesMatchStack
  <1> QED BY <1>1, <1>2

THEOREM InvHolds == Spec => []Inv
  BY InvInit, InvStep, PTL DEF Spec

\* The state of the interpreter is well formed; in particular scripts nest to
\* MaxIter levels at most, whatever the scripts are.
THEOREM TypeCorrect == Spec => []TypeOK
  <1>1. Inv => TypeOK
    BY DEF Inv
  <1> QED BY <1>1, InvHolds, PTL

\* Whenever a line is read or a command runs, the shared interactive flag belongs to
\* the file that is read: scripts, exit, refused scripts and errors leave it right.
THEOREM FlagCorrect == Spec => []FlagMatchesFile
  <1>1. Inv => FlagMatchesFile
    BY DEF Inv
  <1> QED BY <1>1, InvHolds, PTL

\* Calls reach the DTB in the order of the lines and none twice, also when an error
\* loses the end of the buffer.
THEOREM OrderCorrect == Spec => []CallsInOrder
  <1>1. Inv => CallsInOrder
    BY DEF Inv
  <1> QED BY <1>1, InvHolds, PTL

\* A typed command with DO_FLUSH never waits in the buffer.
THEOREM TypedCorrect == Spec => []TypedIsSent
  <1>1. Inv => TypedIsSent
    BY DEF Inv
  <1> QED BY <1>1, InvHolds, PTL

\* Without errors the open files are those of the running scripts.
THEOREM FilesCorrect == Spec => []FilesMatchStack
  <1>1. Inv => FilesMatchStack
    BY DEF Inv
  <1> QED BY <1>1, InvHolds, PTL

\* When a typed script is back at the prompt and no error has struck, its commands and
\* those of all nested scripts have been executed, each once and in the order of the
\* lines, whatever the scripts are and however deep they nest.
THEOREM ThroughCorrect == Spec => []ScriptRunsThrough
  <1>1. Inv => ScriptRunsThrough
    BY NothingLeft DEF Inv
  <1> QED BY <1>1, InvHolds, PTL
=============================================================================
