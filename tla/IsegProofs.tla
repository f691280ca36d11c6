----------------------------- MODULE IsegProofs -----------------------------
(***************************************************************************)
(* Theorems about the high voltage supply as the program sees it (module   *)
(* Iseg), for any voltages and any number of calls.  As long as the serial *)
(* line has lost no byte and no time-out has fired too early, each answer  *)
(* is that of the command sent last, and the supply has the voltage the    *)
(* object believes it has.  With one such fault the supply still applies   *)
(* no voltage that nobody asked for, but for a digit beside its like.      *)
(***************************************************************************)
EXTENDS Iseg, SequenceTheorems, TLAPS

\* A command without its line end, and the answers the supply may give to it.
Texts      == {<<"S">>, <<"G">>, <<"U">>} \cup {<<"D">> \o v : v \in Voltages}
CrLf       == <<"cr", "lf">>
Command(t) == t \o CrLf
Says(s)    == <<"S", s, "cr", "lf">>
Replies(t) ==
  IF t \in {<<"S">>, <<"G">>} THEN {Says(s) : s \in Status}
  ELSE IF t = <<"U">> THEN {<<"V", "cr", "lf">>} ELSE {CrLf}

\* Bytes of exchange e.
Symbols   == Digits \cup Status \cup {"S", "G", "U", "D", "V", "cr", "lf"}
Bytes(e)  == [c : Symbols, x : {e}]
Tag(R, e) == [i \in 1 .. Len(R) |-> [c |-> R[i], x |-> e]]

\* What the supply has done when it answers R to t.
Effect(t, R) ==
  /\ t = <<"G">> /\ R[2] \in {"ON", "RAMP"} => applied = pending
  /\ t[1] = "D" => pending = Tail(t)

\* The command t is on its way: the supply has the beginning, and cmd is the rest but
\* for the byte that is being echoed.
Sending(t) ==
  /\ input \in Seq(Symbols) /\ cmd \in Seq(Symbols) /\ cmd # <<>> /\ reply = <<>>
  /\ LET byte == [c |-> Head(cmd), x |-> x]
     IN  \/ at = "send" /\ wire = <<>> /\ line = <<>> /\ input \o cmd = Command(t)
         \/ at = "echo" /\ wire = <<byte>> /\ line = <<>> /\ input \o cmd = Command(t)
         \/ /\ at = "echo" /\ wire = <<>> /\ line = <<byte>>
            /\ Tail(cmd) # <<>> /\ input \o Tail(cmd) = Command(t)

\* The supply answers R: part of it is read, part on the line, the rest to come.
Answering(t, R) ==
  /\ Effect(t, R) /\ input = <<>> /\ wire = <<>>
  /\ line \in Seq(Bytes(x)) /\ reply \in Seq(Bytes(x))
  /\ \/ /\ at = "echo" /\ cmd = <<"lf">> /\ line # <<>>
        /\ line \o reply = <<[c |-> "lf", x |-> x]>> \o Tag(R, x)
     \/ /\ at = "read" /\ answer \in Seq(Bytes(x)) /\ line \o reply # <<>>
        /\ answer \o (line \o reply) = Tag(R, x)
     \/ at = "end" /\ line = <<>> /\ reply = <<>> /\ answer = Tag(R, x)

\* Which command belongs to the running call.
Role(t) ==
  \/ call \in {"ctor", "again"} /\ t = <<"S">> /\ rest = <<>>
  \/ call = "ask" /\ t \in {<<"S">>, <<"U">>} /\ rest \in {<<>>, <<U1>>}
  \/ call \in {"set", "dtor"} /\ t = <<"D">> \o voltage_set /\ rest = <<G1>>
  \/ call \in {"set", "dtor"} /\ t = <<"G">> /\ rest = <<>> /\ pending = voltage_set

Exchanging(t) == Sending(t) \/ \E R \in Replies(t) : Answering(t, R)

Silent == wire = <<>> /\ line = <<>> /\ reply = <<>> /\ input = <<>>

Applied ==
  (call \in {"idle", "ask"} /\ hv_on /\ iseg_connected /\ ~trip /\ asked # {}) => applied = voltage_set

\* As long as there was no fault.
Tidy ==
  /\ at = "out" => Silent
  /\ at # "out" => \E t \in Texts : Role(t) /\ Exchanging(t)
  /\ Applied
  /\ {pending, applied} \subseteq asked \cup {before}

\* Where the program can be, and what it believes, whatever the line does.
Control ==
  /\ at \in {"out", "send", "echo", "read", "end"}
  /\ call \in {"new", "ctor", "again", "set", "ask", "dtor", "idle", "gone"}
  /\ at = "out" <=> call \in {"new", "idle", "gone"}
  /\ x \in Nat /\ first \in Nat /\ faults \in Nat
  /\ at # "out" => first <= x
  /\ voltage_set \in Voltages
  /\ call \in {"new", "ctor", "again"} => asked = {}
  /\ call \in {"set", "dtor"} => voltage_set \in asked

IsegInv == Control /\ (faults = 0 => Tidy)

-----------------------------------------------------------------------------
(* Sequences *)

LEMMA Singleton == ASSUME NEW S, NEW h \in S PROVE <<h>> \in Seq(S) /\ Len(<<h>>) = 1 /\ <<h>>[1] = h
  OBVIOUS

\* The head of the second part moves to the end of the first.
LEMMA Arrives ==
  ASSUME NEW S, NEW q \in Seq(S), NEW p \in Seq(S), p # <<>>
  PROVE  /\ Append(q, Head(p)) \o Tail(p) = q \o p
         /\ Append(q, Head(p)) \in Seq(S) /\ Tail(p) \in Seq(S) /\ Append(q, Head(p)) # <<>>
  <1>0. PICK h, t, u : h = Head(p) /\ t = Tail(p) /\ u = <<h>>
    OBVIOUS
  <1>1. h \in S /\ t \in Seq(S) /\ Len(t) = Len(p) - 1
        /\ \A i \in 1 .. Len(t) : t[i] = p[i + 1]
    BY <1>0, HeadTailProperties
  <1>2. h = p[1] /\ Len(p) \in Nat /\ Len(p) > 0 /\ Len(q) \in Nat
    BY <1>0
  <1>3. Append(q, h) \in Seq(S) /\ Append(q, h) # <<>>
    BY <1>1, AppendProperties
  <1>4. Append(q, h) = q \o u
    BY <1>0, <1>1, AppendIsConcat
  <1>5. u \in Seq(S) /\ Len(u) = 1 /\ u[1] = h
    BY <1>0, <1>1, Singleton
  <1>6. (q \o u) \o t = q \o (u \o t)
    <2>1. u \in Seq(S) /\ t \in Seq(S)
      BY <1>1, <1>5
    <2> QED BY <2>1, ConcatAssociative
  <1>7. u \o t = p
    <2>2. /\ u \o t \in Seq(S) /\ Len(u \o t) = Len(u) + Len(t)
          /\ \A i \in 1 .. Len(u) + Len(t) : (u \o t)[i] = IF i <= Len(u) THEN u[i] ELSE t[i - Len(u)]
      <3>1. u \in Seq(S) /\ t \in Seq(S)
        BY <1>1, <1>5
      <3> QED BY <3>1, ConcatProperties
    <2>3. Len(u \o t) = Len(p)
      BY <1>1, <1>2, <1>5, <2>2
    <2>4. ASSUME NEW i \in 1 .. Len(p) PROVE (u \o t)[i] = p[i]
      <3>1. (u \o t)[i] = IF i <= 1 THEN h ELSE t[i - 1]
        BY <1>1, <1>2, <1>5, <2>2
      <3>2. CASE i = 1
        BY <3>1, <3>2, <1>2
      <3>3. CASE i > 1
        <4>1. i - 1 \in 1 .. Len(t) /\ (i - 1) + 1 = i
          BY <1>1, <1>2, <3>3
        <4>2. t[i - 1] = p[i]
          BY <4>1, <1>1
        <4> QED BY <3>1, <3>3, <4>2
      <3>4. i = 1 \/ i > 1
        BY <1>2
      <3> QED BY <3>2, <3>3, <3>4
    <2> QED BY <2>2, <2>3, <2>4, SeqEqual
  <1> QED BY <1>0, <1>1, <1>3, <1>4, <1>6, <1>7

\* The line q, p without its first byte, that of u, is s.
Led(S, u, q, p, s) == Head(q) = u[1] /\ Tail(q) \in Seq(S) /\ Tail(q) \o p = s

LEMMA Leads ==
  ASSUME NEW S, NEW u \in Seq(S), NEW q \in Seq(S), NEW p \in Seq(S), NEW s \in Seq(S),
         Len(u) = 1, q # <<>>, q \o p = u \o s
  PROVE  Led(S, u, q, p, s)
  <1> DEFINE t == Tail(q)
             w == q \o p
             v == t \o p
  <1>0. Len(q) \in Nat /\ Len(p) \in Nat /\ Len(s) \in Nat /\ Len(q) > 0
    OBVIOUS
  <1>1. u \in Seq(S) /\ Len(u) = 1
    OBVIOUS
  <1>2. t \in Seq(S) /\ Len(t) = Len(q) - 1 /\ Head(q) = q[1]
        /\ \A i \in 1 .. Len(t) : t[i] = q[i + 1]
    BY HeadTailProperties
  <1>3. w = u \o s
    OBVIOUS
  <1> HIDE DEF t
  <1>4. /\ Len(w) = Len(q) + Len(p)
        /\ \A i \in 1 .. Len(q) + Len(p) : w[i] = IF i <= Len(q) THEN q[i] ELSE p[i - Len(q)]
    BY ConcatProperties
  <1>5. /\ Len(u \o s) = 1 + Len(s)
        /\ \A i \in 1 .. 1 + Len(s) : (u \o s)[i] = IF i <= 1 THEN u[i] ELSE s[i - 1]
    <2>1. /\ Len(u \o s) = Len(u) + Len(s)
          /\ \A i \in 1 .. Len(u) + Len(s) : (u \o s)[i] = IF i <= Len(u) THEN u[i] ELSE s[i - Len(u)]
      BY <1>1, ConcatProperties, Zenon
    <2> QED BY <1>1, <2>1
  <1>6. /\ v \in Seq(S) /\ Len(v) = Len(t) + Len(p)
        /\ \A i \in 1 .. Len(t) + Len(p) : v[i] = IF i <= Len(t) THEN t[i] ELSE p[i - Len(t)]
    BY <1>2, ConcatProperties
  <1> HIDE DEF w, v
  <1>7. Len(q) + Len(p) = 1 + Len(s)
    BY <1>3, <1>4, <1>5
  <1>8. Head(q) = u[1]
    <2>1. w[1] = q[1]
      BY <1>0, <1>4
    <2>2. w[1] = u[1]
      BY <1>0, <1>1, <1>3, <1>5
    <2> QED BY <1>2, <2>1, <2>2
  <1>9. Len(v) = Len(s)
    BY <1>0, <1>2, <1>6, <1>7
  <1>10. ASSUME NEW i \in 1 .. Len(v) PROVE v[i] = s[i]
    <2>1. i + 1 \in 1 .. Len(q) + Len(p) /\ i + 1 > 1 /\ (i + 1) - 1 = i
      BY <1>0, <1>7, <1>9
    <2>2. w[i + 1] = s[i]
      BY <1>3, <1>5, <1>7, <2>1
    <2>3. CASE i <= Len(q) - 1
      <3>1. v[i] = q[i + 1]
        <4>1. i \in 1 .. Len(t) + Len(p) /\ i <= Len(t) /\ i \in 1 .. Len(t)
          BY <1>0, <1>2, <1>6, <2>3
        <4>2. v[i] = t[i]
          BY <1>6, <4>1
        <4> QED BY <1>2, <4>1, <4>2
      <3>2. w[i + 1] = q[i + 1]
        BY <1>0, <1>4, <2>1, <2>3
      <3> QED BY <2>2, <3>1, <3>2
    <2>4. CASE ~(i <= Len(q) - 1)
      <3>1. v[i] = p[i - (Len(q) - 1)]
        BY <1>0, <1>2, <1>6, <1>9, <1>7, <2>4
      <3>2. w[i + 1] = p[(i + 1) - Len(q)]
        BY <1>0, <1>4, <2>1, <2>4
      <3>3. (i + 1) - Len(q) = i - (Len(q) - 1)
        BY <1>0
      <3> QED BY <2>2, <3>1, <3>2, <3>3
    <2> QED BY <2>3, <2>4
  <1>11. v = s
    BY <1>6, <1>9, <1>10, SeqEqual
  <1> QED BY <1>2, <1>8, <1>11 DEF t, v, Led

-----------------------------------------------------------------------------
(* Commands *)

LEMMA DText ==
  ASSUME NEW v \in Voltages
  PROVE  (<<"D">> \o v)[1] = "D" /\ Tail(<<"D">> \o v) = v
  <1>1. PICK u, t : u = <<"D">> /\ t = u \o v
    OBVIOUS
  <1>2. v \in Seq(Symbols)
    BY VoltageAssumption, SeqMonotonic DEF Symbols
  <1>3. u \in Seq(Symbols) /\ Len(u) = 1 /\ u[1] = "D"
    BY <1>1, Singleton DEF Symbols
  <1>4. /\ t \in Seq(Symbols) /\ Len(t) = Len(u) + Len(v)
        /\ \A i \in 1 .. Len(u) + Len(v) : t[i] = IF i <= Len(u) THEN u[i] ELSE v[i - Len(u)]
    BY <1>1, <1>2, <1>3, ConcatProperties
  <1>5. Len(v) \in Nat
    BY <1>2
  <1>6. t[1] = "D" /\ t # <<>>
    BY <1>3, <1>4, <1>5
  <1>7. t \o <<>> = u \o v /\ <<>> \in Seq(Symbols)
    BY <1>1, <1>4, ConcatEmptySeq, EmptySeq
  <1>8. Led(Symbols, u, t, <<>>, v)
    BY <1>2, <1>3, <1>4, <1>6, <1>7, Leads
  <1>9. Tail(t) \in Seq(Symbols) /\ Tail(t) \o <<>> = v
    BY <1>8 DEF Led
  <1>10. Tail(t) = v
    BY <1>9, ConcatEmptySeq
  <1> QED BY <1>1, <1>6, <1>10

LEMMA TextFacts ==
  ASSUME NEW t \in Texts
  PROVE  /\ t \in Seq(Symbols) /\ Len(t) \in Nat \ {0}
         /\ \A i \in 1 .. Len(t) : t[i] # "lf"
         /\ \/ t \in {<<"S">>, <<"G">>, <<"U">>}
            \/ \E v \in Voltages :
                 /\ t = <<"D">> \o v /\ Tail(t) = v /\ t[1] = "D" /\ Len(t) > 1
                 /\ \A i \in 2 .. Len(t) : t[i] \in Digits
  <1>1. CASE t \in {<<"S">>, <<"G">>, <<"U">>}
    <2>1. PICK l : l \in {"S", "G", "U"} /\ t = <<l>>
      BY <1>1
    <2>2. l \in Symbols /\ l # "lf"
      BY <2>1 DEF Symbols
    <2>3. t \in Seq(Symbols) /\ Len(t) = 1 /\ t[1] = l
      BY <2>1, <2>2, Singleton
    <2> QED BY <1>1, <2>2, <2>3
  <1>2. CASE t \in {<<"D">> \o v : v \in Voltages}
    <2>1. PICK v \in Voltages : t = <<"D">> \o v
      BY <1>2
    <2>2. PICK u : u = <<"D">>
      OBVIOUS
    <2>3. v \in Seq(Digits) /\ v # <<>>
      BY VoltageAssumption
    <2>4. v \in Seq(Symbols)
      BY <2>3, SeqMonotonic DEF Symbols
    <2>5. u \in Seq(Symbols) /\ Len(u) = 1 /\ u[1] = "D"
      BY <2>2, Singleton DEF Symbols
    <2>6. Len(v) \in Nat /\ Len(v) > 0 /\ \A i \in 1 .. Len(v) : v[i] \in Digits
      BY <2>3, EmptySeq, ElementOfSeq
    <2>7. /\ u \o v \in Seq(Symbols) /\ Len(u \o v) = 1 + Len(v)
          /\ \A i \in 1 .. 1 + Len(v) : (u \o v)[i] = IF i <= 1 THEN u[i] ELSE v[i - 1]
      <3>1. /\ u \o v \in Seq(Symbols) /\ Len(u \o v) = Len(u) + Len(v)
            /\ \A i \in 1 .. Len(u) + Len(v) : (u \o v)[i] = IF i <= Len(u) THEN u[i] ELSE v[i - Len(u)]
        BY <2>4, <2>5, ConcatProperties, Zenon
      <3> QED BY <2>5, <3>1
    <2>8. t = u \o v
      BY <2>1, <2>2
    <2>9. t \in Seq(Symbols) /\ Len(t) = 1 + Len(v) /\ t[1] = "D" /\ t # <<>>
      BY <2>5, <2>6, <2>7, <2>8
    <2>10. \A i \in 2 .. Len(t) : t[i] \in Digits
      <3> SUFFICES ASSUME NEW i \in 2 .. Len(t) PROVE t[i] \in Digits
        OBVIOUS
      <3>1. i \in 1 .. 1 + Len(v) /\ ~(i <= 1) /\ i - 1 \in 1 .. Len(v)
        BY <2>6, <2>9
      <3> QED BY <2>6, <2>7, <2>8, <3>1
    <2>11. "lf" \notin Digits /\ "D" # "lf"
      BY DEF Digits
    <2>12. \A i \in 1 .. Len(t) : t[i] # "lf"
      <3> SUFFICES ASSUME NEW i \in 1 .. Len(t) PROVE t[i] # "lf"
        OBVIOUS
      <3>1. i = 1 \/ i \in 2 .. Len(t)
        BY <2>6, <2>9
      <3> QED BY <2>9, <2>10, <2>11, <3>1
    <2>13. Tail(t) = v
      BY <2>1, DText
    <2>14. Len(t) \in Nat \ {0} /\ Len(t) > 1
      BY <2>6, <2>9
    <2> QED BY <2>1, <2>9, <2>10, <2>12, <2>13, <2>14, Zenon
  <1> QED BY <1>1, <1>2 DEF Texts

LEMMA CommandFacts ==
  ASSUME NEW t \in Texts
  PROVE  /\ Command(t) \in Seq(Symbols) /\ Len(Command(t)) = Len(t) + 2 /\ Command(t) # <<>>
         /\ Command(t)[Len(t) + 1] = "cr" /\ Command(t)[Len(t) + 2] = "lf"
         /\ \A i \in 1 .. Len(t) : Command(t)[i] = t[i]
         /\ \A i \in 1 .. Len(t) + 1 : Command(t)[i] # "lf"
  <1>1. t \in Seq(Symbols) /\ Len(t) \in Nat \ {0} /\ \A i \in 1 .. Len(t) : t[i] # "lf"
    BY TextFacts
  <1>2. PICK e : e = CrLf
    OBVIOUS
  <1>3. e \in Seq(Symbols) /\ Len(e) = 2 /\ e[1] = "cr" /\ e[2] = "lf"
    BY <1>2 DEF CrLf, Symbols
  <1>4. PICK c : c = t \o e
    OBVIOUS
  <1>5. /\ c \in Seq(Symbols) /\ Len(c) = Len(t) + 2
        /\ \A i \in 1 .. Len(t) + 2 : c[i] = IF i <= Len(t) THEN t[i] ELSE e[i - Len(t)]
    <2>1. /\ t \o e \in Seq(Symbols) /\ Len(t \o e) = Len(t) + Len(e)
          /\ \A i \in 1 .. Len(t) + Len(e) : (t \o e)[i] = IF i <= Len(t) THEN t[i] ELSE e[i - Len(t)]
      BY <1>1, <1>3, ConcatProperties, Zenon
    <2> QED BY <1>3, <1>4, <2>1
  <1>6. c[Len(t) + 1] = "cr" /\ c[Len(t) + 2] = "lf"
    <2>1. Len(t) + 1 \in 1 .. Len(t) + 2 /\ ~(Len(t) + 1 <= Len(t)) /\ (Len(t) + 1) - Len(t) = 1
      BY <1>1
    <2>2. Len(t) + 2 \in 1 .. Len(t) + 2 /\ ~(Len(t) + 2 <= Len(t)) /\ (Len(t) + 2) - Len(t) = 2
      BY <1>1
    <2> QED BY <1>3, <1>5, <2>1, <2>2
  <1>7. \A i \in 1 .. Len(t) : c[i] = t[i]
    BY <1>1, <1>5
  <1>8. \A i \in 1 .. Len(t) + 1 : c[i] # "lf"
    <2> SUFFICES ASSUME NEW i \in 1 .. Len(t) + 1 PROVE c[i] # "lf"
      OBVIOUS
    <2>1. i \in 1 .. Len(t) \/ i = Len(t) + 1
      BY <1>1
    <2> QED BY <1>1, <1>6, <1>7, <2>1
  <1>9. c # <<>>
    BY <1>1, <1>5
  <1>10. c = Command(t)
    BY <1>2, <1>4 DEF Command
  <1> QED BY <1>5, <1>6, <1>7, <1>8, <1>9, <1>10

\* The line end is the last byte of a command, and before it all of the text has come.
LEMMA LastByte ==
  ASSUME NEW t \in Texts, NEW a \in Seq(Symbols), NEW b \in Seq(Symbols), b # <<>>,
         a \o b = Command(t)
  PROVE  /\ Head(b) = "lf" => Tail(b) = <<>> /\ a # <<>> /\ Last(a) = "cr" /\ Front(a) = t
         /\ Head(b) # "lf" => Tail(b) # <<>>
  <1> DEFINE c == Command(t)
             n == Len(t)
             m == Len(a)
  <1>1. /\ c \in Seq(Symbols) /\ Len(c) = n + 2
        /\ c[n + 1] = "cr" /\ c[n + 2] = "lf"
        /\ \A i \in 1 .. n : c[i] = t[i]
        /\ \A i \in 1 .. n + 1 : c[i] # "lf"
    BY CommandFacts
  <1>2. t \in Seq(Symbols) /\ n \in Nat \ {0}
    BY TextFacts
  <1>3. Len(b) \in Nat /\ Len(b) > 0 /\ m \in Nat /\ Head(b) = b[1]
        /\ Tail(b) \in Seq(Symbols) /\ Len(Tail(b)) = Len(b) - 1
    BY HeadTailProperties
  <1>4. /\ Len(c) = m + Len(b)
        /\ \A i \in 1 .. m + Len(b) : c[i] = IF i <= m THEN a[i] ELSE b[i - m]
    BY ConcatProperties
  <1> HIDE DEF c, n
  <1>5. c[m + 1] = Head(b)
    <2>1. m + 1 \in 1 .. m + Len(b) /\ ~(m + 1 <= m) /\ (m + 1) - m = 1
      BY <1>3
    <2> QED BY <1>3, <1>4, <2>1
  <1>6. m + 1 \in 1 .. n + 2 /\ Len(b) = n + 2 - m
    BY <1>1, <1>2, <1>3, <1>4
  <1>7. CASE Head(b) = "lf"
    <2>1. m = n + 1 /\ Len(b) = 1
      <3>1. ~(m + 1 \in 1 .. n + 1)
        BY <1>1, <1>5, <1>7
      <3> QED BY <1>2, <1>3, <1>6, <3>1
    <2>2. Tail(b) = <<>>
      <3>1. Len(Tail(b)) = 0
        BY <1>3, <2>1
      <3>2. \A e \in Seq(Symbols) : e # <<>> => Len(e) # 0
        BY EmptySeq
      <3> QED BY <1>3, <3>1, <3>2
    <2>3. a # <<>> /\ Last(a) = "cr"
      <3>1. n + 1 \in 1 .. m + Len(b) /\ n + 1 <= m
        BY <1>2, <2>1
      <3>2. c[n + 1] = a[n + 1]
        BY <1>4, <3>1
      <3> QED BY <1>1, <1>2, <2>1, <3>2 DEF Last
    <2>4. Front(a) = t
      <3>1. PICK f : f = SubSeq(a, 1, n)
        OBVIOUS
      <3>2. \A i \in 1 .. n : a[i] \in Symbols
        <4>1. \A i \in 1 .. n : i \in 1 .. Len(a)
          BY <1>2, <2>1
        <4> QED BY <4>1, ElementOfSeq
      <3>3. /\ f \in Seq(Symbols) /\ Len(f) = IF 1 <= n THEN n - 1 + 1 ELSE 0
            /\ \A i \in 1 .. n - 1 + 1 : f[i] = a[1 + i - 1]
        BY <1>2, <3>1, <3>2, SubSeqProperties
      <3>4. Len(f) = n
        BY <1>2, <3>3
      <3>5. \A i \in 1 .. n : f[i] = t[i]
        <4> SUFFICES ASSUME NEW i \in 1 .. n PROVE f[i] = t[i]
          OBVIOUS
        <4>1. i \in 1 .. n - 1 + 1 /\ 1 + i - 1 = i /\ i \in 1 .. m + Len(b) /\ i <= m
          BY <1>2, <2>1
        <4> QED BY <1>1, <1>4, <3>3, <4>1
      <3>6. f = t
        <4>1. Len(f) = Len(t) /\ \A i \in 1 .. Len(f) : f[i] = t[i]
          BY <3>4, <3>5 DEF n
        <4> QED BY <1>2, <3>3, <4>1, SeqEqual
      <3>7. Front(a) = f
        BY <2>1, <3>1, <1>2 DEF Front
      <3> QED BY <3>6, <3>7
    <2> QED BY <1>7, <2>2, <2>3, <2>4
  <1>8. CASE Head(b) # "lf"
    <2>1. m # n + 1
      <3>1. m = n + 1 => c[m + 1] = "lf"
        <4>1. m = n + 1 => m + 1 = n + 2
          BY <1>2
        <4> QED BY <1>1, <4>1
      <3> QED BY <1>5, <1>8, <3>1
    <2>2. Len(b) # 1
      BY <1>2, <1>3, <1>6, <2>1
    <2>3. Len(Tail(b)) # 0
      BY <1>3, <2>2
    <2> QED BY <1>8, <2>3, EmptySeq
  <1> QED BY <1>7, <1>8

-----------------------------------------------------------------------------
(* Answers *)

LEMMA ReplyFacts ==
  ASSUME NEW t, NEW R \in Replies(t)
  PROVE  /\ R \in Seq(Symbols) /\ Len(R) \in Nat /\ Len(R) >= 2
         /\ R[Len(R) - 1] = "cr" /\ R[Len(R)] = "lf"
         /\ \A i \in 1 .. Len(R) - 1 : R[i] # "lf"
  <1>0. {"S", "V", "cr", "lf"} \cup Status \subseteq Symbols /\ "lf" \notin Status
    BY DEF Symbols, Status
  <1>1. CASE \E s \in Status : R = Says(s)
    <2>1. PICK s \in Status : R = <<"S", s, "cr", "lf">>
      BY <1>1 DEF Says
    <2>2. R \in Seq(Symbols) /\ Len(R) = 4 /\ R[1] = "S" /\ R[2] = s /\ R[3] = "cr" /\ R[4] = "lf"
      BY <1>0, <2>1
    <2>3. \A i \in 1 .. 3 : R[i] # "lf"
      <3>1. \A i \in 1 .. 3 : i = 1 \/ i = 2 \/ i = 3
        OBVIOUS
      <3> QED BY <1>0, <2>2, <3>1
    <2> QED BY <2>2, <2>3
  <1>2. CASE R = <<"V", "cr", "lf">>
    <2>1. R \in Seq(Symbols) /\ Len(R) = 3 /\ R[1] = "V" /\ R[2] = "cr" /\ R[3] = "lf"
      BY <1>0, <1>2
    <2>2. \A i \in 1 .. 2 : R[i] # "lf"
      <3>1. \A i \in 1 .. 2 : i = 1 \/ i = 2
        OBVIOUS
      <3> QED BY <2>1, <3>1
    <2> QED BY <2>1, <2>2
  <1>3. CASE R = <<"cr", "lf">>
    <2>1. R \in Seq(Symbols) /\ Len(R) = 2 /\ R[1] = "cr" /\ R[2] = "lf"
      BY <1>0, <1>3
    <2> QED BY <2>1
  <1> QED BY <1>1, <1>2, <1>3 DEF Replies, CrLf

LEMMA TagFacts ==
  ASSUME NEW t, NEW R \in Replies(t), NEW e
  PROVE  /\ Tag(R, e) \in Seq(Bytes(e)) /\ Len(Tag(R, e)) = Len(R) /\ Tag(R, e) # <<>>
         /\ \A i \in 1 .. Len(R) : Tag(R, e)[i].c = R[i] /\ Tag(R, e)[i].x = e
  <1>1. R \in Seq(Symbols) /\ Len(R) \in Nat /\ Len(R) >= 2
    BY ReplyFacts
  <1>2. \A i \in 1 .. Len(R) : [c |-> R[i], x |-> e] \in Bytes(e)
    BY <1>1 DEF Bytes
  <1> DEFINE s == Tag(R, e)
  <1>3. s = [i \in 1 .. Len(R) |-> [c |-> R[i], x |-> e]]
    BY DEF Tag
  <1> HIDE DEF s
  <1>4. s \in [1 .. Len(R) -> Bytes(e)]
    BY <1>2, <1>3
  <1>5. s \in Seq(Bytes(e)) /\ Len(s) = Len(R)
    BY <1>1, <1>4
  <1>6. s # <<>>
    BY <1>1, <1>5
  <1>7. \A i \in 1 .. Len(R) : s[i].c = R[i] /\ s[i].x = e
    BY <1>3
  <1> QED BY <1>5, <1>6, <1>7 DEF s

\* The line end is seen when all of the answer has come, and not before.
LEMMA ReplyEnded ==
  ASSUME NEW t, NEW R \in Replies(t), NEW e, NEW a \in Seq(Bytes(e)), NEW b \in Seq(Bytes(e)),
         a \o b = Tag(R, e)
  PROVE  Ended(a) <=> b = <<>>
  <1> DEFINE s == Tag(R, e)
             n == Len(R)
             m == Len(a)
  <1>1. /\ n \in Nat /\ n >= 2 /\ R[n - 1] = "cr" /\ R[n] = "lf"
        /\ \A i \in 1 .. n - 1 : R[i] # "lf"
    BY ReplyFacts
  <1>2. Len(s) = n /\ \A i \in 1 .. n : s[i].c = R[i]
    BY TagFacts
  <1>3. m \in Nat /\ Len(b) \in Nat /\ (b = <<>> <=> Len(b) = 0)
    <2>1. \A q \in Seq(Bytes(e)) : Len(q) \in Nat /\ (q # <<>> => Len(q) # 0)
      BY EmptySeq, LenProperties
    <2>2. Len(<<>>) = 0
      OBVIOUS
    <2> QED BY <2>1, <2>2
  <1>4. /\ Len(s) = m + Len(b)
        /\ \A i \in 1 .. m + Len(b) : s[i] = IF i <= m THEN a[i] ELSE b[i - m]
    BY ConcatProperties
  <1> HIDE DEF s, n
  <1>5. n = m + Len(b) /\ \A i \in 1 .. m : a[i].c = R[i]
    BY <1>1, <1>2, <1>3, <1>4
  <1>6. Len(b) = 0 => Ended(a)
    <2> SUFFICES ASSUME Len(b) = 0 PROVE Ended(a)
      OBVIOUS
    <2>1. n - 1 \in 1 .. m - 1 /\ n - 1 \in 1 .. m /\ n \in 1 .. m /\ (n - 1) + 1 = n
      BY <1>1, <1>3, <1>5
    <2>2. a[n - 1].c = "cr" /\ a[(n - 1) + 1].c = "lf"
      BY <1>1, <1>5, <2>1
    <2> QED BY <2>1, <2>2 DEF Ended
  <1>7. Ended(a) => Len(b) = 0
    <2> SUFFICES ASSUME NEW i \in 1 .. m - 1, a[i + 1].c = "lf" PROVE Len(b) = 0
      BY DEF Ended
    <2>1. i + 1 \in 1 .. m /\ R[i + 1] = "lf"
      BY <1>3, <1>5
    <2>2. ~(i + 1 \in 1 .. n - 1)
      BY <1>1, <2>1
    <2> QED BY <1>1, <1>3, <1>5, <2>1, <2>2
  <1> QED BY <1>3, <1>6, <1>7

\* What handleAnswers sees of the answer to S1 or G1.
LEMMA TagText ==
  ASSUME NEW s \in Status, NEW e
  PROVE  Text(Tag(Says(s), e)) = <<"S", s>>
  <1>1. Says(s) \in Replies(<<"S">>) /\ Len(Says(s)) = 4
    BY DEF Replies, Says
  <1>2. PICK a : a = Tag(Says(s), e)
    OBVIOUS
  <1>3. /\ a \in Seq(Bytes(e)) /\ Len(a) = 4
        /\ \A i \in 1 .. 4 : a[i].c = Says(s)[i]
    BY <1>1, <1>2, TagFacts
  <1>4. a[1].c = "S" /\ a[2].c = s
    BY <1>3 DEF Says
  <1>5. ASSUME NEW i \in 1 .. 4 PROVE Ended(SubSeq(a, 1, i)) <=> i = 4
    <2> DEFINE p == SubSeq(a, 1, i)
               q == SubSeq(a, i + 1, 4)
    <2>0. \A j \in 1 .. 4 : a[j] \in Bytes(e)
      BY <1>3, ElementOfSeq
    <2>1. /\ p \in Seq(Bytes(e)) /\ Len(p) = i
          /\ \A j \in 1 .. i : p[j] = a[j]
      <3>1. 1 \in Int /\ i \in Int /\ \A j \in 1 .. i : a[j] \in Bytes(e)
        BY <2>0
      <3>2. /\ p \in Seq(Bytes(e)) /\ Len(p) = IF 1 <= i THEN i - 1 + 1 ELSE 0
            /\ \A j \in 1 .. i - 1 + 1 : p[j] = a[1 + j - 1]
        BY <3>1, SubSeqProperties
      <3> QED BY <3>2
    <2>2. /\ q \in Seq(Bytes(e)) /\ Len(q) = 4 - i
          /\ \A j \in 1 .. 4 - i : q[j] = a[i + j]
      <3>1. i + 1 \in Int /\ 4 \in Int /\ \A j \in i + 1 .. 4 : a[j] \in Bytes(e)
        BY <2>0
      <3>2. /\ q \in Seq(Bytes(e)) /\ Len(q) = IF i + 1 <= 4 THEN 4 - (i + 1) + 1 ELSE 0
            /\ \A j \in 1 .. 4 - (i + 1) + 1 : q[j] = a[(i + 1) + j - 1]
        BY <3>1, SubSeqProperties
      <3> QED BY <3>2
    <2> HIDE DEF p, q
    <2>3. /\ p \o q \in Seq(Bytes(e)) /\ Len(p \o q) = Len(p) + Len(q)
          /\ \A j \in 1 .. Len(p) + Len(q) : (p \o q)[j] = IF j <= Len(p) THEN p[j] ELSE q[j - Len(p)]
      BY <2>1, <2>2, ConcatProperties
    <2>4. ASSUME NEW j \in 1 .. 4 PROVE (p \o q)[j] = a[j]
      <3>1. (p \o q)[j] = IF j <= i THEN p[j] ELSE q[j - i]
        BY <2>1, <2>2, <2>3
      <3>2. CASE j <= i
        BY <2>1, <3>1, <3>2
      <3>3. CASE ~(j <= i)
        <4>1. j - i \in 1 .. 4 - i /\ i + (j - i) = j
          BY <3>3
        <4> QED BY <2>2, <3>1, <3>3, <4>1
      <3> QED BY <3>2, <3>3
    <2>5. p \o q = a
      <3>1. Len(p \o q) = Len(a) /\ \A j \in 1 .. Len(p \o q) : (p \o q)[j] = a[j]
        BY <1>3, <2>1, <2>2, <2>3, <2>4
      <3> QED BY <1>3, <2>3, <3>1, SeqEqual
    <2>6. Ended(p) <=> q = <<>>
      BY <1>1, <1>2, <2>1, <2>2, <2>5, ReplyEnded
    <2>7. q = <<>> <=> i = 4
      <3>1. Len(<<>>) = 0 /\ \A r \in Seq(Bytes(e)) : r # <<>> => Len(r) # 0
        BY EmptySeq
      <3> QED BY <2>2, <3>1
    <2> QED BY <2>6, <2>7 DEF p
  <1>6. {i \in 1 .. Len(a) : Ended(SubSeq(a, 1, i))} = {4}
    <2>1. 1 .. Len(a) = 1 .. 4
      BY <1>3
    <2> QED BY <1>5, <2>1
  <1>7. Min({4}) = 4
    BY DEF Min
  <1>8. PICK l : l = Letters(a)
    OBVIOUS
  <1>9. \A i \in 1 .. 2 : l[i] \in Symbols
    <2>1. \A i \in 1 .. 2 : l[i] = a[i].c
      BY <1>3, <1>8 DEF Letters
    <2>2. \A i \in 1 .. 2 : a[i] \in Bytes(e)
      <3>1. \A i \in 1 .. 2 : i \in 1 .. Len(a)
        BY <1>3
      <3> QED BY <1>3, <3>1, ElementOfSeq
    <2> QED BY <2>1, <2>2 DEF Bytes
  <1>10. l[1] = "S" /\ l[2] = s
    BY <1>3, <1>4, <1>8 DEF Letters
  <1>11. SubSeq(l, 1, 2) = <<"S", s>>
    <2>1. PICK w, z : w = SubSeq(l, 1, 2) /\ z = <<"S", s>>
      OBVIOUS
    <2>2. /\ w \in Seq(Symbols) /\ Len(w) = IF 1 <= 2 THEN 2 - 1 + 1 ELSE 0
          /\ \A i \in 1 .. 2 - 1 + 1 : w[i] = l[1 + i - 1]
      BY <1>9, <2>1, SubSeqProperties
    <2>3. Len(w) = 2 /\ w[1] = "S" /\ w[2] = s
      BY <1>10, <2>2
    <2>4. z \in Seq(Symbols) /\ Len(z) = 2 /\ z[1] = "S" /\ z[2] = s
      BY <2>1 DEF Symbols
    <2>5. \A i \in 1 .. 2 : i = 1 \/ i = 2
      OBVIOUS
    <2>6. Len(w) = Len(z) /\ \A i \in 1 .. Len(w) : w[i] = z[i]
      BY <2>3, <2>4, <2>5
    <2>7. w = z
      BY <2>2, <2>4, <2>6, SeqEqual
    <2> QED BY <2>1, <2>7
  <1>12. Text(a) = SubSeq(l, 1, 4 - 2)
    BY <1>6, <1>7, <1>8 DEF Text
  <1> QED BY <1>2, <1>11, <1>12

\* The supply answers a command of the program with one of its replies.
LEMMA ObeyFacts ==
  ASSUME NEW t \in Texts, NEW s \in Status, Obey(t, s), Head(wire).x = x
  PROVE  /\ \E R \in Replies(t) : reply' = Tag(R, x) /\ Effect(t, R)'
         /\ t # <<"G">> => applied' = applied
         /\ applied' \in {applied, pending}
         /\ pending' = IF t[1] = "D" THEN Tail(t) ELSE pending
  <1>0. <<"S">>[1] = "S" /\ <<"G">>[1] = "G" /\ <<"U">>[1] = "U"
        /\ <<"S">> # <<"G">> /\ <<"S">> # <<"U">> /\ <<"G">> # <<"U">>
    OBVIOUS
  <1> DEFINE say(r) == reply' = Tag(r, x)
             set == Len(t) > 1 /\ t[1] = "D" /\ \A i \in 2 .. Len(t) : t[i] \in Digits
  <1>1. \/ t = <<"S">> /\ say(Says(s)) /\ pending' = pending /\ applied' = applied
        \/ /\ t = <<"G">> /\ say(Says(s)) /\ pending' = pending
           /\ applied' = IF s \in {"ON", "RAMP"} THEN pending ELSE applied
        \/ t = <<"U">> /\ say(<<"V", "cr", "lf">>) /\ pending' = pending /\ applied' = applied
        \/ set /\ say(CrLf) /\ pending' = Tail(t) /\ applied' = applied
        \/ t \notin {<<"S">>, <<"G">>, <<"U">>} /\ ~set
    BY Zenon DEF Obey, Tag, Says, CrLf
  <1>2. CASE t \in {<<"S">>, <<"G">>, <<"U">>}
    <2>1. t[1] # "D"
      BY <1>0, <1>2
    <2>2. CASE t = <<"S">>
      <3>1. say(Says(s)) /\ pending' = pending /\ applied' = applied
        BY <1>0, <1>1, <2>1, <2>2
      <3>2. Says(s) \in Replies(t)
        BY <2>2 DEF Replies
      <3> QED BY <1>0, <2>1, <2>2, <3>1, <3>2 DEF Effect
    <2>3. CASE t = <<"G">>
      <3>1. say(Says(s)) /\ pending' = pending /\ applied' = IF s \in {"ON", "RAMP"} THEN pending ELSE applied
        BY <1>0, <1>1, <2>1, <2>3
      <3>2. Says(s) \in Replies(t) /\ Says(s)[2] = s
        BY <2>3 DEF Replies, Says
      <3> QED BY <1>0, <2>1, <2>3, <3>1, <3>2 DEF Effect
    <2>4. CASE t = <<"U">>
      <3>1. say(<<"V", "cr", "lf">>) /\ pending' = pending /\ applied' = applied
        BY <1>0, <1>1, <2>1, <2>4
      <3>2. <<"V", "cr", "lf">> \in Replies(t)
        BY <1>0, <2>4 DEF Replies
      <3> QED BY <1>0, <2>1, <2>4, <3>1, <3>2 DEF Effect
    <2> QED BY <1>2, <2>2, <2>3, <2>4
  <1>3. CASE t \notin {<<"S">>, <<"G">>, <<"U">>}
    <2>1. set
      BY <1>3, TextFacts
    <2>2. say(CrLf) /\ pending' = Tail(t) /\ applied' = applied
      BY <1>1, <1>3, <2>1
    <2>3. CrLf \in Replies(t)
      BY <1>3 DEF Replies
    <2> QED BY <1>3, <2>1, <2>2, <2>3 DEF Effect
  <1> QED BY <1>2, <1>3

-----------------------------------------------------------------------------
(* The line *)

\* A step of the line on which the running command goes on.
LEMMA LineStep ==
  ASSUME Tidy, at # "out", at' # "out", UNCHANGED <<object, call, rest, open, marks, pending, applied>>,
         \A t \in Texts : Exchanging(t) => Exchanging(t)'
  PROVE  Tidy'
  <1>1. PICK t \in Texts : Role(t) /\ Exchanging(t)
    BY DEF Tidy
  <1>2. Role(t)'
    BY <1>1 DEF Role, object, marks
  <1>3. Applied' /\ {pending', applied'} \subseteq asked' \cup {before'}
    BY DEF Tidy, Applied, object, marks
  <1> QED BY <1>1, <1>2, <1>3 DEF Tidy

LEMMA ByteIs ==
  ASSUME NEW q \in Seq(Symbols), q # <<>>
  PROVE  Head(q) \in Symbols /\ [c |-> Head(q), x |-> x] \in Bytes(x)
  BY HeadTailProperties DEF Bytes

LEMMA SendByteTidy ==
  ASSUME Tidy, Line(SendByte)
  PROVE  Tidy'
  <1>1. at = "send" /\ at' = "echo" /\ wire' = Append(wire, [c |-> Head(cmd), x |-> x])
        /\ UNCHANGED <<cmd, x, line, input, reply, pending, applied>>
        /\ UNCHANGED <<object, call, rest, open, marks>>
    BY DEF Line, SendByte, supply
  <1>2. ASSUME NEW t \in Texts, Exchanging(t) PROVE Exchanging(t)'
    <2>1. Sending(t) /\ wire = <<>> /\ line = <<>> /\ input \o cmd = Command(t)
      BY <1>1, <1>2 DEF Exchanging, Sending, Answering
    <2>2. wire' = <<[c |-> Head(cmd), x |-> x]>>
      BY <1>1, <2>1
    <2>3. Sending(t)'
      BY <1>1, <2>1, <2>2 DEF Sending, Command
    <2> QED BY <2>3 DEF Exchanging
  <1> QED BY <1>1, <1>2, LineStep

LEMMA EchoTidy ==
  ASSUME Tidy, Line(Echo)
  PROVE  Tidy'
  <1>1. at = "echo" /\ line # <<>> /\ Compare(Head(line).c) /\ line' = Tail(line)
        /\ UNCHANGED <<x, wire, input, reply, pending, applied>>
        /\ UNCHANGED <<object, call, rest, open, marks>>
    BY DEF Line, Echo, supply
  <1>2. at' # "out"
    BY <1>1 DEF Compare
  <1>3. ASSUME NEW t \in Texts, Sending(t) PROVE Exchanging(t)'
    <2>1. /\ wire = <<>> /\ line = <<[c |-> Head(cmd), x |-> x]>> /\ reply = <<>>
          /\ Tail(cmd) # <<>> /\ input \o Tail(cmd) = Command(t)
          /\ input \in Seq(Symbols) /\ cmd \in Seq(Symbols) /\ cmd # <<>>
      BY <1>1, <1>3 DEF Sending
    <2>2. Head(line).c = Head(cmd) /\ line' = <<>>
      BY <1>1, <2>1
    <2>3. cmd' = Tail(cmd) /\ at' = "send"
      BY <1>1, <2>1, <2>2 DEF Compare
    <2>4. cmd' \in Seq(Symbols)
      BY <2>1, <2>3, HeadTailProperties
    <2>5. Sending(t)'
      BY <1>1, <2>1, <2>2, <2>3, <2>4 DEF Sending, Command
    <2> QED BY <2>5 DEF Exchanging
  <1>4. ASSUME NEW t \in Texts, NEW R \in Replies(t), Answering(t, R) PROVE Exchanging(t)'
    <2>1. /\ Effect(t, R) /\ input = <<>> /\ wire = <<>> /\ cmd = <<"lf">>
          /\ line \in Seq(Bytes(x)) /\ reply \in Seq(Bytes(x))
          /\ line \o reply = <<[c |-> "lf", x |-> x]>> \o Tag(R, x)
      BY <1>1, <1>4 DEF Answering
    <2>2. [c |-> "lf", x |-> x] \in Bytes(x)
      BY DEF Bytes, Symbols
    <2>3. Tag(R, x) \in Seq(Bytes(x)) /\ Tag(R, x) # <<>>
      BY TagFacts
    <2>4. Head(line) = [c |-> "lf", x |-> x] /\ Tail(line) \in Seq(Bytes(x)) /\ Tail(line) \o reply = Tag(R, x)
      <3>1. PICK S, u, q, p, z :
              S = Bytes(x) /\ u = <<[c |-> "lf", x |-> x]>> /\ q = line /\ p = reply /\ z = Tag(R, x)
        OBVIOUS
      <3>2. u \in Seq(S) /\ Len(u) = 1 /\ u[1] = [c |-> "lf", x |-> x]
        BY <2>2, <3>1, Singleton
      <3>3. q \in Seq(S) /\ p \in Seq(S) /\ z \in Seq(S) /\ q # <<>> /\ q \o p = u \o z
        BY <1>1, <2>1, <2>3, <3>1
      <3>4. Led(S, u, q, p, z)
        BY <3>2, <3>3, Leads
      <3> QED BY <3>1, <3>2, <3>4, Zenon DEF Led
    <2>5. at' = "read" /\ answer' = <<>>
      BY <1>1, <2>1, <2>4 DEF Compare
    <2>6. answer' \in Seq(Bytes(x)) /\ answer' \o (line' \o reply') = Tag(R, x) /\ line' \o reply' # <<>>
      <3>1. line' \o reply' = Tag(R, x)
        BY <1>1, <2>4
      <3> QED BY <2>3, <2>5, <3>1, ConcatEmptySeq
    <2>7. Answering(t, R)'
      BY <1>1, <2>1, <2>4, <2>5, <2>6 DEF Answering, Effect, Tag
    <2> QED BY <2>7 DEF Exchanging, Replies
  <1> QED BY <1>1, <1>2, <1>3, <1>4, LineStep DEF Exchanging

\* Nothing times out without a fault.
LEMMA NoEchoTidy ==
  ASSUME Control, Tidy, Line(NoEcho), faults' = 0
  PROVE  FALSE
  <1>1. at = "echo" /\ OutOfTime
    BY DEF Line, NoEcho
  <1>2. line = <<>> /\ wire = <<>> /\ reply = <<>>
    BY <1>1 DEF OutOfTime, Early, Control
  <1>3. PICK t \in Texts : Exchanging(t)
    BY <1>1 DEF Tidy
  <1> QED BY <1>1, <1>2, <1>3 DEF Exchanging, Sending, Answering

LEMMA NoAnswerTidy ==
  ASSUME Control, Tidy, Line(NoAnswer), faults' = 0
  PROVE  FALSE
  <1>1. at = "read" /\ OutOfTime
    BY DEF Line, NoAnswer
  <1>2. line = <<>> /\ wire = <<>> /\ reply = <<>>
    BY <1>1 DEF OutOfTime, Early, Control
  <1>3. PICK t \in Texts : Exchanging(t)
    BY <1>1 DEF Tidy
  <1>4. line \o reply # <<>>
    BY <1>1, <1>3 DEF Exchanging, Sending, Answering
  <1> QED BY <1>2, <1>4, ConcatEmptySeq

LEMMA ReadAnswerTidy ==
  ASSUME Tidy, Line(ReadAnswer)
  PROVE  Tidy'
  <1>1. at = "read" /\ answer' = answer \o line /\ line' = <<>>
        /\ at' = (IF Ended(answer') THEN "end" ELSE "read")
        /\ UNCHANGED <<x, wire, input, reply, pending, applied>>
        /\ UNCHANGED <<object, call, rest, open, marks>>
    BY DEF Line, ReadAnswer, supply
  <1>2. ASSUME NEW t \in Texts, NEW R \in Replies(t), Answering(t, R) PROVE Exchanging(t)'
    <2>1. /\ Effect(t, R) /\ input = <<>> /\ wire = <<>> /\ answer \in Seq(Bytes(x))
          /\ line \in Seq(Bytes(x)) /\ reply \in Seq(Bytes(x))
          /\ answer \o (line \o reply) = Tag(R, x)
      BY <1>1, <1>2 DEF Answering
    <2>2. answer' \in Seq(Bytes(x)) /\ answer' \o reply = Tag(R, x)
      <3>1. answer \o line \in Seq(Bytes(x))
        BY <2>1, ConcatProperties
      <3>2. (answer \o line) \o reply = answer \o (line \o reply)
        <4>1. PICK S, q, p, u : S = Bytes(x) /\ q = answer /\ p = line /\ u = reply
          OBVIOUS
        <4>2. q \in Seq(S) /\ p \in Seq(S) /\ u \in Seq(S)
          BY <2>1, <4>1
        <4>3. (q \o p) \o u = q \o (p \o u)
          BY <4>2, ConcatAssociative
        <4> QED BY <4>1, <4>3
      <3> QED BY <1>1, <2>1, <3>1, <3>2
    <2>3. line' \o reply' = reply /\ line' \in Seq(Bytes(x)) /\ reply' \in Seq(Bytes(x))
      BY <1>1, <2>1, ConcatEmptySeq
    <2>4. Ended(answer') <=> reply = <<>>
      <3>1. PICK e, a, b : e = x /\ a = answer' /\ b = reply
        OBVIOUS
      <3>2. a \in Seq(Bytes(e)) /\ b \in Seq(Bytes(e)) /\ a \o b = Tag(R, e)
        BY <2>1, <2>2, <3>1, Zenon
      <3>3. Ended(a) <=> b = <<>>
        BY <3>2, ReplyEnded
      <3> QED BY <3>1, <3>3, Zenon
    <2>5. CASE reply = <<>>
      <3>1. at' = "end" /\ answer' = Tag(R, x)
        BY <1>1, <2>2, <2>4, <2>5, ConcatEmptySeq
      <3> QED BY <1>1, <2>1, <2>3, <2>5, <3>1 DEF Exchanging, Answering, Effect, Tag, Replies
    <2>6. CASE reply # <<>>
      <3>1. at' = "read"
        BY <1>1, <2>4, <2>6
      <3>2. answer' \o (line' \o reply') = Tag(R, x) /\ line' \o reply' # <<>>
        BY <2>2, <2>3, <2>6
      <3> QED BY <1>1, <2>1, <2>2, <2>3, <3>1, <3>2 DEF Exchanging, Answering, Effect, Tag, Replies
    <2> QED BY <2>5, <2>6
  <1>3. ASSUME NEW t \in Texts, Exchanging(t) PROVE Exchanging(t)'
    BY <1>1, <1>2, <1>3 DEF Exchanging, Sending
  <1>4. at' # "out"
    BY <1>1
  <1> QED BY <1>1, <1>3, <1>4, LineStep

LEMMA AnswerTidy ==
  ASSUME Tidy, Line(Answer)
  PROVE  Tidy'
  <1>1. reply # <<>> /\ line' = Append(line, Head(reply)) /\ reply' = Tail(reply)
        /\ UNCHANGED <<at, cmd, answer, x, wire, input, pending, applied>>
        /\ UNCHANGED <<object, call, rest, open, marks>>
    BY DEF Line, Answer, exchange
  <1>2. at # "out"
    BY <1>1 DEF Tidy, Silent
  <1>3. ASSUME NEW t \in Texts, NEW R \in Replies(t), Answering(t, R) PROVE Answering(t, R)'
    <2>1. line \in Seq(Bytes(x)) /\ reply \in Seq(Bytes(x))
      BY <1>3 DEF Answering
    <2>2. /\ line' \o reply' = line \o reply /\ line' # <<>>
          /\ line' \in Seq(Bytes(x)) /\ reply' \in Seq(Bytes(x))
      <3>1. PICK S, q, p : S = Bytes(x) /\ q = line /\ p = reply
        OBVIOUS
      <3>2. q \in Seq(S) /\ p \in Seq(S) /\ p # <<>>
        BY <1>1, <2>1, <3>1
      <3>3. /\ Append(q, Head(p)) \o Tail(p) = q \o p
            /\ Append(q, Head(p)) \in Seq(S) /\ Tail(p) \in Seq(S) /\ Append(q, Head(p)) # <<>>
        BY <3>2, Arrives
      <3> QED BY <1>1, <3>1, <3>3, Zenon
    <2> QED BY <1>1, <1>3, <2>2 DEF Answering, Effect, Tag
  <1>4. ASSUME NEW t \in Texts, Exchanging(t) PROVE Exchanging(t)'
    BY <1>1, <1>3, <1>4 DEF Exchanging, Sending, Replies
  <1> QED BY <1>1, <1>2, <1>4, LineStep

LEMMA TakeTidy ==
  ASSUME Control, Tidy, Line(Take)
  PROVE  Tidy'
  <1>1. wire # <<>> /\ reply = <<>> /\ wire' = Tail(wire) /\ line' = Append(line, Head(wire))
        /\ UNCHANGED <<at, cmd, answer, x>>
        /\ UNCHANGED <<object, call, rest, open, marks>>
    BY DEF Line, Take, exchange
  <1>2. at # "out"
    BY <1>1 DEF Tidy, Silent
  <1>3. PICK t \in Texts : Role(t) /\ Exchanging(t)
    BY <1>2 DEF Tidy
  <1> DEFINE byte == [c |-> Head(cmd), x |-> x]
  <1>4. /\ at = "echo" /\ wire = <<byte>> /\ line = <<>> /\ input \o cmd = Command(t)
        /\ input \in Seq(Symbols) /\ cmd \in Seq(Symbols) /\ cmd # <<>>
    BY <1>1, <1>3 DEF Exchanging, Sending, Answering
  <1>5. wire' = <<>> /\ line' = <<byte>> /\ Head(wire) = byte /\ Head(wire).c = Head(cmd) /\ Head(wire).x = x
    BY <1>1, <1>4
  <1>6. /\ Head(cmd) = "lf" => Tail(cmd) = <<>> /\ input # <<>> /\ Last(input) = "cr" /\ Front(input) = t
        /\ Head(cmd) # "lf" => Tail(cmd) # <<>>
    BY <1>4, LastByte
  <1>7. CASE Head(cmd) # "lf"
    <2>1. input' = Append(input, Head(cmd)) /\ UNCHANGED <<reply, pending, applied>>
      BY <1>5, <1>7 DEF Line, Take
    <2>2. input' \in Seq(Symbols) /\ input' \o Tail(cmd) = Command(t)
      <3>1. PICK q, p : q = input /\ p = cmd
        OBVIOUS
      <3>2. q \in Seq(Symbols) /\ p \in Seq(Symbols) /\ p # <<>>
        BY <1>4, <3>1
      <3>3. Append(q, Head(p)) \o Tail(p) = q \o p /\ Append(q, Head(p)) \in Seq(Symbols)
        BY <3>2, Arrives
      <3> QED BY <1>4, <2>1, <3>1, <3>3
    <2>3. Sending(t)'
      BY <1>1, <1>4, <1>5, <1>6, <1>7, <2>1, <2>2 DEF Sending, Command
    <2>4. Role(t)'
      BY <1>1, <1>3, <2>1 DEF Role, object
    <2>5. Applied' /\ {pending', applied'} \subseteq asked' \cup {before'}
      BY <1>1, <2>1 DEF Tidy, Applied, object, marks
    <2> QED BY <1>1, <1>2, <2>3, <2>4, <2>5 DEF Tidy, Exchanging
  <1>8. CASE Head(cmd) = "lf"
    <2>1. input' = <<>> /\ \E s \in Status : Obey(t, s)
      BY <1>5, <1>6, <1>8 DEF Line, Take
    <2>2. /\ \E R \in Replies(t) : reply' = Tag(R, x) /\ Effect(t, R)'
          /\ t # <<"G">> => applied' = applied
          /\ applied' \in {applied, pending}
          /\ pending' = IF t[1] = "D" THEN Tail(t) ELSE pending
      BY <1>5, <2>1, ObeyFacts
    <2>3. PICK R \in Replies(t) : reply' = Tag(R, x) /\ Effect(t, R)'
      BY <2>2
    <2>4. Answering(t, R)'
      <3>1. cmd = <<"lf">>
        <4>1. <<>> \in Seq(Symbols) /\ <<Head(cmd)>> \in Seq(Symbols)
          BY <1>4, HeadTailProperties
        <4>2. Append(<<>>, Head(cmd)) \o Tail(cmd) = <<>> \o cmd
          BY <1>4, <4>1, Arrives
        <4>3. Append(<<>>, Head(cmd)) = <<Head(cmd)>> /\ <<>> \o cmd = cmd
          BY <1>4, ConcatEmptySeq
        <4>4. <<Head(cmd)>> \o <<>> = <<Head(cmd)>>
          BY <4>1, ConcatEmptySeq
        <4> QED BY <1>6, <1>8, <4>2, <4>3, <4>4
      <3>2. byte \in Bytes(x) /\ byte = [c |-> "lf", x |-> x]
        BY <1>8, <1>4, ByteIs
      <3>3. line' \in Seq(Bytes(x)) /\ line' # <<>>
        BY <1>5, <3>2, Singleton
      <3>4. reply' \in Seq(Bytes(x))
        BY <2>3, TagFacts
      <3>5. line' \o reply' = <<[c |-> "lf", x |-> x]>> \o Tag(R, x)
        BY <1>5, <2>3, <3>2
      <3> QED BY <1>1, <1>4, <1>5, <2>1, <2>3, <3>1, <3>3, <3>4, <3>5 DEF Answering, Tag
    <2>5. \/ t \in {<<"S">>, <<"G">>, <<"U">>} /\ t[1] # "D"
          \/ t \notin {<<"S">>, <<"G">>, <<"U">>} /\ t = <<"D">> \o Tail(t) /\ t[1] = "D" /\ Tail(t) \in Voltages
      <3>1. t \in {<<"S">>, <<"G">>, <<"U">>} => t[1] # "D"
        OBVIOUS
      <3> QED BY <3>1, TextFacts
    <2>6. t[1] = "D" => Tail(t) = voltage_set /\ call \in {"set", "dtor"}
      <3>1. ASSUME t[1] = "D" PROVE call \in {"set", "dtor"} /\ t = <<"D">> \o voltage_set
        BY <1>3, <2>5, <3>1 DEF Role
      <3>2. \A v \in Voltages : Tail(<<"D">> \o v) = v
        BY DText
      <3> QED BY <3>1, <3>2 DEF Control
    <2>7. Role(t)'
      <3>1. t[1] # "D" => pending' = pending
        BY <2>2
      <3>2. t = <<"G">> => t[1] # "D"
        BY <2>5
      <3> QED BY <1>1, <1>3, <3>1, <3>2 DEF Role, object
    <2>8. Applied'
      <3>1. t = <<"G">> => call \in {"set", "dtor"}
        BY <1>3 DEF Role
      <3> QED BY <1>1, <2>2, <3>1 DEF Tidy, Applied, object, marks
    <2>9. {pending', applied'} \subseteq asked' \cup {before'}
      <3>1. t[1] = "D" => pending' \in asked
        BY <2>2, <2>6 DEF Control
      <3>2. UNCHANGED <<asked, before>>
        BY <1>1 DEF marks
      <3> QED BY <2>2, <3>1, <3>2 DEF Tidy
    <2> QED BY <1>1, <1>2, <2>4, <2>7, <2>8, <2>9 DEF Tidy, Exchanging, Replies
  <1> QED BY <1>7, <1>8

-----------------------------------------------------------------------------
(* The calls *)

LEMMA LetterCommand ==
  ASSUME NEW l \in {"S", "G", "U"}
  PROVE  <<l>> \in Texts /\ Command(<<l>>) = <<l, "cr", "lf">>
  <1>1. <<l>> \in Texts
    BY DEF Texts
  <1>2. PICK u, e, c : u = <<l>> /\ e = CrLf /\ c = <<l, "cr", "lf">>
    OBVIOUS
  <1>3. u \in Seq(Symbols) /\ Len(u) = 1 /\ u[1] = l
    BY <1>2, Singleton DEF Symbols
  <1>4. e \in Seq(Symbols) /\ Len(e) = 2 /\ e[1] = "cr" /\ e[2] = "lf"
    BY <1>2 DEF CrLf, Symbols
  <1>5. c \in Seq(Symbols) /\ Len(c) = 3 /\ c[1] = l /\ c[2] = "cr" /\ c[3] = "lf"
    BY <1>2 DEF Symbols
  <1>6. /\ u \o e \in Seq(Symbols) /\ Len(u \o e) = Len(u) + Len(e)
        /\ \A i \in 1 .. Len(u) + Len(e) : (u \o e)[i] = IF i <= Len(u) THEN u[i] ELSE e[i - Len(u)]
    BY <1>3, <1>4, ConcatProperties
  <1>7. \A i \in 1 .. 3 : (u \o e)[i] = c[i]
    <2>1. \A i \in 1 .. 3 : i = 1 \/ i = 2 \/ i = 3
      OBVIOUS
    <2>2. (u \o e)[1] = l /\ (u \o e)[2] = "cr" /\ (u \o e)[3] = "lf"
      BY <1>3, <1>4, <1>6
    <2> QED BY <1>5, <2>1, <2>2
  <1>8. u \o e = c
    <2>1. Len(u \o e) = Len(c) /\ \A i \in 1 .. Len(u \o e) : (u \o e)[i] = c[i]
      BY <1>3, <1>4, <1>5, <1>6, <1>7
    <2> QED BY <1>5, <1>6, <2>1, SeqEqual
  <1> QED BY <1>1, <1>2, <1>8 DEF Command

LEMMA Commands ==
  /\ <<"S">> \in Texts /\ <<"G">> \in Texts /\ <<"U">> \in Texts
  /\ S1 = Command(<<"S">>) /\ G1 = Command(<<"G">>) /\ U1 = Command(<<"U">>)
  /\ \A v \in Voltages : <<"D">> \o v \in Texts /\ D1(v) = Command(<<"D">> \o v)
  BY LetterCommand DEF S1, G1, U1, D1, Command, CrLf, Texts

\* A command is sent when nothing is under way.
LEMMA Sent ==
  ASSUME NEW t \in Texts, Silent, WriteCommandAndReadAnswer(Command(t))
  PROVE  Exchanging(t)' /\ at' # "out" /\ UNCHANGED <<pending, applied>>
  <1>1. /\ at' = "send" /\ cmd' = Command(t) /\ wire' = <<>> /\ line' = <<>>
        /\ reply' = <<>> /\ input' = <<>> /\ UNCHANGED <<pending, applied>>
    BY DEF WriteCommandAndReadAnswer, Silent, supply
  <1>2. Command(t) \in Seq(Symbols) /\ Command(t) # <<>>
    BY CommandFacts
  <1>3. input' \o cmd' = Command(t) /\ input' \in Seq(Symbols)
    BY <1>1, <1>2, ConcatEmptySeq, EmptySeq
  <1>4. Sending(t)'
    BY <1>1, <1>2, <1>3 DEF Sending, Command
  <1> QED BY <1>1, <1>4 DEF Exchanging

\* At the end of an exchange all of the answer has been read.
LEMMA AtEnd ==
  ASSUME Tidy, at = "end"
  PROVE  /\ Silent
         /\ \E t \in Texts : Role(t) /\ \E R \in Replies(t) : Effect(t, R) /\ answer = Tag(R, x)
  <1>1. PICK t \in Texts : Role(t) /\ Exchanging(t)
    BY DEF Tidy
  <1>2. PICK R \in Replies(t) : Answering(t, R)
    BY <1>1 DEF Exchanging, Sending
  <1> QED BY <1>1, <1>2 DEF Answering, Silent

LEMMA ConstructTidy ==
  ASSUME Control, Tidy, Construct
  PROVE  Tidy'
  <1>1. call = "new" /\ at = "out" /\ asked = {} /\ Silent /\ UNCHANGED <<hv_on, voltage_set, asked, before, trip>>
    BY DEF Construct, Control, Tidy
  <1>2. CASE Start("ctor", S1, <<>>)
    <2>1. call' = "ctor" /\ rest' = <<>> /\ Exchanging(<<"S">>)' /\ at' # "out" /\ UNCHANGED <<pending, applied>>
      BY <1>1, <1>2, Commands, Sent DEF Start
    <2>2. Role(<<"S">>)'
      BY <2>1 DEF Role
    <2> QED BY <1>1, <2>1, <2>2, Commands DEF Tidy, Applied
  <1>3. CASE call' = "idle" /\ UNCHANGED <<serial, iseg_connected, rest, open, first>>
    BY <1>1, <1>3 DEF Tidy, Applied, Silent, serial, exchange, supply
  <1> QED BY <1>2, <1>3 DEF Construct

LEMMA TryAgainTidy ==
  ASSUME Control, Tidy, TryAgain
  PROVE  Tidy'
  <1>1. at = "end" /\ call = "ctor" /\ call' = "again" /\ UNCHANGED <<asked, before, rest>>
    BY DEF TryAgain, marks
  <1>2. Silent
    BY <1>1, AtEnd
  <1>3. rest = <<>>
    BY <1>1, AtEnd DEF Role
  <1>4. Exchanging(<<"S">>)' /\ at' # "out" /\ UNCHANGED <<pending, applied>>
    BY <1>2, Commands, Sent DEF TryAgain
  <1>5. Role(<<"S">>)'
    BY <1>1, <1>3 DEF Role
  <1> QED BY <1>1, <1>4, <1>5, Commands DEF Tidy, Applied

LEMMA Next1Tidy ==
  ASSUME Control, Tidy, Next1
  PROVE  Tidy'
  <1>1. /\ at = "end" /\ rest # <<>> /\ rest' = Tail(rest) /\ WriteCommandAndReadAnswer(Head(rest))
        /\ UNCHANGED <<hv_on, iseg_connected, voltage_set, call, asked, before, trip>>
    BY DEF Next1, object, marks
  <1>2. Silent
    BY <1>1, AtEnd
  <1>3. PICK t \in Texts : Role(t) /\ \E R \in Replies(t) : Effect(t, R)
    BY <1>1, AtEnd
  <1>4. PICK l : /\ l \in {"U", "G"} /\ rest = <<Command(<<l>>)>>
                 /\ l = "U" => call = "ask"
                 /\ l = "G" => call \in {"set", "dtor"} /\ t = <<"D">> \o voltage_set
    <2>1. \/ call = "ask" /\ rest = <<U1>>
          \/ call \in {"set", "dtor"} /\ t = <<"D">> \o voltage_set /\ rest = <<G1>>
      BY <1>1, <1>3 DEF Role
    <2>2. U1 = Command(<<"U">>) /\ G1 = Command(<<"G">>) /\ "U" # "G"
      BY Commands
    <2>3. CASE call = "ask" /\ rest = <<U1>>
      <3> WITNESS "U"
      <3> QED BY <2>2, <2>3
    <2>4. CASE call \in {"set", "dtor"} /\ t = <<"D">> \o voltage_set /\ rest = <<G1>>
      <3> WITNESS "G"
      <3> QED BY <2>2, <2>4
    <2> QED BY <2>1, <2>3, <2>4
  <1>5. Head(rest) = Command(<<l>>) /\ Tail(rest) = <<>> /\ <<l>> \in Texts
    BY <1>4, Commands
  <1>6. Exchanging(<<l>>)' /\ at' # "out" /\ UNCHANGED <<pending, applied>>
    BY <1>1, <1>2, <1>5, Sent
  <1>7. l = "G" => pending = voltage_set
    <2>1. ASSUME l = "G" PROVE t[1] = "D" /\ Tail(t) = voltage_set
      <3>1. t = <<"D">> \o voltage_set
        BY <1>4, <2>1
      <3> QED BY <3>1, DText DEF Control
    <2> QED BY <1>3, <2>1 DEF Effect
  <1>8. Role(<<l>>)'
    BY <1>1, <1>4, <1>5, <1>6, <1>7 DEF Role
  <1>9. Applied' /\ {pending', applied'} \subseteq asked' \cup {before'}
    BY <1>1, <1>6 DEF Tidy, Applied
  <1> QED BY <1>5, <1>6, <1>8, <1>9 DEF Tidy

LEMMA EndConstructorTidy ==
  ASSUME Control, Tidy, EndConstructor
  PROVE  Tidy'
  <1>1. /\ at = "end" /\ call \in {"ctor", "again"} /\ at' = "out"
        /\ UNCHANGED <<wire, line, supply, asked, before>>
    BY DEF EndConstructor
  <1>2. Silent
    BY <1>1, AtEnd
  <1> QED BY <1>1, <1>2 DEF Tidy, Control, Applied, Silent, supply

\* The answer to G1 tells whether the voltage has been applied.
LEMMA EndSetVoltageTidy ==
  ASSUME Control, Tidy, EndSetVoltage
  PROVE  Tidy'
  <1>1. /\ at = "end" /\ rest = <<>> /\ call \in {"set", "dtor"} /\ at' = "out"
        /\ HandleAnswers(Text(answer)) /\ trip' = (Text(answer) = <<"S", "TRP">>)
        /\ UNCHANGED <<wire, line, supply, voltage_set, asked, before>>
    BY DEF EndSetVoltage
  <1>2. Silent
    BY <1>1, AtEnd
  <1>0. PICK t \in Texts : Role(t) /\ \E R \in Replies(t) : Effect(t, R) /\ answer = Tag(R, x)
    BY <1>1, AtEnd
  <1>3. PICK R \in Replies(t) : Effect(t, R) /\ answer = Tag(R, x)
    BY <1>0
  <1>4. t = <<"G">> /\ pending = voltage_set
    BY <1>0, <1>1 DEF Role
  <1>5. PICK s \in Status : R = Says(s)
    BY <1>4 DEF Replies
  <1>6. Text(answer) = <<"S", s>>
    BY <1>3, <1>5, TagText
  <1>7. iseg_connected' => Text(answer) \notin {<<"S", "OFF">>, <<"S", "MAN">>}
    BY <1>1, Zenon DEF HandleAnswers
  <1>8. iseg_connected' /\ ~trip' => s \in {"ON", "RAMP"}
    BY <1>1, <1>6, <1>7 DEF Status
  <1>9. R[2] = s
    BY <1>5 DEF Says
  <1>10. iseg_connected' /\ ~trip' => applied = voltage_set
    BY <1>3, <1>4, <1>8, <1>9 DEF Effect
  <1> QED BY <1>1, <1>2, <1>10 DEF Tidy, Applied, Silent, supply

LEMMA EndAskTidy ==
  ASSUME Control, Tidy, EndAsk
  PROVE  Tidy'
  <1>1. /\ at = "end" /\ call = "ask" /\ at' = "out"
        /\ UNCHANGED <<wire, line, supply, object, asked, before, trip>>
    BY DEF EndAsk, marks
  <1>2. Silent
    BY <1>1, AtEnd
  <1> QED BY <1>1, <1>2 DEF Tidy, Applied, Silent, supply, object

LEMMA SetTidy ==
  ASSUME Tidy, at = "out", NEW v \in Voltages, NEW n \in {"set", "dtor"}, Set(v, n), before' = before
  PROVE  Tidy'
  <1>1. /\ voltage_set' = v /\ asked' = asked \cup {v} /\ call' = n /\ rest' = <<G1>>
        /\ WriteCommandAndReadAnswer(D1(v))
    BY DEF Set, Start
  <1>2. Silent
    BY DEF Tidy
  <1> DEFINE t == <<"D">> \o v
  <1>3. t \in Texts /\ D1(v) = Command(t)
    BY Commands
  <1> HIDE DEF t
  <1>4. Exchanging(t)' /\ at' # "out" /\ UNCHANGED <<pending, applied>>
    BY <1>1, <1>2, <1>3, Sent
  <1>5. Role(t)'
    BY <1>1 DEF Role, t
  <1>6. Applied' /\ {pending', applied'} \subseteq asked' \cup {before'}
    BY <1>1, <1>4 DEF Tidy, Applied
  <1> QED BY <1>3, <1>4, <1>5, <1>6 DEF Tidy

LEMMA SetVoltageTidy ==
  ASSUME Control, Tidy, NEW v \in Voltages, SetVoltage(v)
  PROVE  Tidy'
  <1>1. call = "idle" /\ at = "out" /\ UNCHANGED <<iseg_connected, hv_on, before, trip>>
    BY DEF SetVoltage, Control
  <1>2. CASE hv_on
    BY <1>1, <1>2, SetTidy DEF SetVoltage
  <1>3. CASE ~hv_on
    <2>1. UNCHANGED <<serial, call, asked>>
      BY <1>3 DEF SetVoltage
    <2> QED BY <1>1, <1>3, <2>1 DEF Tidy, Applied, Silent, serial, exchange, supply
  <1> QED BY <1>2, <1>3

LEMMA DestroyTidy ==
  ASSUME Control, Tidy, Destroy
  PROVE  Tidy'
  <1>1. call = "idle" /\ at = "out" /\ before' = before
    BY DEF Destroy, Control
  <1>2. CASE iseg_connected /\ hv_on
    BY <1>1, <1>2, SetTidy, VoltageAssumption DEF Destroy
  <1>3. CASE ~(iseg_connected /\ hv_on)
    <2>1. call' = "gone" /\ UNCHANGED <<serial, asked>>
      BY <1>3 DEF Destroy
    <2> QED BY <1>1, <2>1 DEF Tidy, Applied, Silent, serial, exchange, supply
  <1> QED BY <1>2, <1>3

LEMMA AskTidy ==
  ASSUME Control, Tidy, Ask(U1, <<>>) \/ Ask(S1, <<U1>>)
  PROVE  Tidy'
  <1>1. call = "idle" /\ at = "out" /\ UNCHANGED <<object, asked, before, trip>>
    BY DEF Ask, Control
  <1>2. Silent
    BY <1>1 DEF Tidy
  <1>3. PICK l : /\ l \in {"U", "S"} /\ call' = "ask" /\ rest' \in {<<>>, <<U1>>}
                 /\ WriteCommandAndReadAnswer(Command(<<l>>))
    BY Commands DEF Ask, Start
  <1>4. <<l>> \in Texts
    BY <1>3, Commands
  <1>5. Exchanging(<<l>>)' /\ at' # "out" /\ UNCHANGED <<pending, applied>>
    BY <1>2, <1>3, <1>4, Sent
  <1>6. Role(<<l>>)'
    BY <1>3 DEF Role, U1
  <1>7. Applied' /\ {pending', applied'} \subseteq asked' \cup {before'}
    BY <1>1, <1>3, <1>5 DEF Tidy, Applied, object
  <1> QED BY <1>4, <1>5, <1>6, <1>7 DEF Tidy

-----------------------------------------------------------------------------
(* The invariant *)

LEMMA InitInv ==
  ASSUME Init
  PROVE  IsegInv
  <1>1. at = "out" /\ call = "new" /\ x = 0 /\ first = 0 /\ faults = 0 /\ asked = {}
        /\ voltage_set \in Voltages /\ pending = before /\ applied = before
    BY VoltageAssumption DEF Init, SerialInit
  <1>2. Silent
    BY DEF Init, SerialInit, Silent
  <1>3. Control
    BY <1>1 DEF Control
  <1>4. Tidy
    BY <1>1, <1>2 DEF Tidy, Applied
  <1> QED BY <1>3, <1>4 DEF IsegInv

\* The line moves the program within its exchange only.
LEMMA LineControl ==
  ASSUME Control, Line(SerialStep) \/ Line(SupplyStep) \/ Line(Lose)
  PROVE  Control' /\ faults' >= faults
  <1>1. /\ UNCHANGED <<voltage_set, call, first, asked, x>> /\ faults' \in {faults, faults + 1}
        /\ (at # "out" /\ at' \in {"send", "echo", "read", "end"}) \/ at' = at
    <2>1. UNCHANGED <<voltage_set, call, first, asked>>
      BY DEF Line, object, marks
    <2>2. CASE SerialStep
      <3>1. x' = x /\ at # "out"
        BY <2>2 DEF SerialStep, SendByte, Echo, NoEcho, ReadAnswer, NoAnswer
      <3>2. at' \in {"send", "echo", "read", "end"}
        BY <2>2 DEF SerialStep, SendByte, Echo, NoEcho, ReadAnswer, NoAnswer, Compare
      <3>3. faults' \in {faults, faults + 1}
        BY <2>2 DEF SerialStep, SendByte, Echo, NoEcho, ReadAnswer, NoAnswer, OutOfTime
      <3> QED BY <2>1, <3>1, <3>2, <3>3
    <2>3. CASE SupplyStep
      BY <2>1, <2>3 DEF SupplyStep, Take, Answer, exchange
    <2>4. CASE Lose
      BY <2>1, <2>4 DEF Lose, exchange
    <2> QED BY <2>2, <2>3, <2>4 DEF Line
  <1>2. faults \in Nat /\ x \in Nat
    BY DEF Control
  <1>3. at' = "out" <=> at = "out"
    BY <1>1
  <1> QED BY <1>1, <1>2, <1>3 DEF Control

LEMMA CallControl ==
  ASSUME Control, Calls
  PROVE  Control' /\ faults' = faults
  <1>1. CASE Construct
    BY <1>1 DEF Construct, Start, WriteCommandAndReadAnswer, Control, serial, exchange
  <1>2. ASSUME NEW v \in Voltages, NEW n \in {"set", "dtor"}, Set(v, n) PROVE Control' /\ faults' = faults
    BY <1>2 DEF Set, Start, WriteCommandAndReadAnswer, Control
  <1>3. CASE Destroy
    <2>1. CASE iseg_connected /\ hv_on
      BY <1>2, <1>3, <2>1, VoltageAssumption DEF Destroy
    <2>2. CASE ~(iseg_connected /\ hv_on)
      BY <1>3, <2>2, VoltageAssumption DEF Destroy, Control, serial, exchange
    <2> QED BY <2>1, <2>2
  <1>4. ASSUME NEW v \in Voltages, SetVoltage(v) PROVE Control' /\ faults' = faults
    <2>1. CASE hv_on
      BY <1>2, <1>4, <2>1 DEF SetVoltage
    <2>2. CASE ~hv_on
      BY <1>4, <2>2 DEF SetVoltage, Control, serial, exchange
    <2> QED BY <2>1, <2>2
  <1>5. CASE Ask(U1, <<>>) \/ Ask(S1, <<U1>>)
    BY <1>5 DEF Ask, Start, WriteCommandAndReadAnswer, Control, object
  <1> QED BY <1>1, <1>3, <1>4, <1>5 DEF Calls

LEMMA EndControl ==
  ASSUME Control, Ends
  PROVE  Control' /\ faults' = faults
  <1>1. CASE TryAgain
    BY <1>1 DEF TryAgain, WriteCommandAndReadAnswer, Control, object, marks
  <1>2. CASE Next1
    BY <1>2 DEF Next1, WriteCommandAndReadAnswer, Control, object, marks
  <1>3. CASE EndConstructor
    BY <1>3 DEF EndConstructor, Control
  <1>4. CASE EndSetVoltage
    BY <1>4 DEF EndSetVoltage, Control
  <1>5. CASE EndAsk
    BY <1>5 DEF EndAsk, Control, object, marks
  <1> QED BY <1>1, <1>2, <1>3, <1>4, <1>5 DEF Ends

LEMMA NextInv ==
  ASSUME IsegInv, [Next]_vars
  PROVE  IsegInv'
  <1>0. Control /\ faults \in Nat
    BY DEF IsegInv, Control
  <1>1. CASE UNCHANGED vars
    <2>1. UNCHANGED <<at, cmd, answer, x, wire, line, input, reply, pending, applied, faults, call, rest,
                      first, asked, before, trip, iseg_connected, hv_on, voltage_set>>
      BY <1>1 DEF vars, serial, exchange, supply, object, marks
    <2>2. Control'
      BY <1>0, <2>1 DEF Control
    <2>3. ASSUME NEW t \in Texts, Role(t) /\ Exchanging(t) PROVE (Role(t) /\ Exchanging(t))'
      <3>1. Role(t)'
        BY <2>1, <2>3 DEF Role
      <3>2. Sending(t) => Sending(t)'
        BY <2>1, Zenon DEF Sending
      <3>3. \A R \in Replies(t) : Answering(t, R) => Answering(t, R)'
        BY <2>1, Zenon DEF Answering, Effect
      <3> QED BY <2>3, <3>1, <3>2, <3>3 DEF Exchanging
    <2>4. Tidy => Tidy'
      <3>1. at # "out" /\ Tidy => \E t \in Texts : (Role(t) /\ Exchanging(t))'
        BY <2>3 DEF Tidy
      <3> QED BY <2>1, <3>1 DEF Tidy, Applied, Silent
    <2> QED BY <2>1, <2>2, <2>4 DEF IsegInv
  <1>2. CASE Calls
    <2>1. Control' /\ faults' = faults
      BY <1>0, <1>2, CallControl
    <2>2. faults = 0 => Tidy'
      BY <1>0, <1>2, ConstructTidy, DestroyTidy, SetVoltageTidy, AskTidy DEF IsegInv, Calls
    <2> QED BY <2>1, <2>2 DEF IsegInv
  <1>3. CASE Ends
    <2>1. Control' /\ faults' = faults
      BY <1>0, <1>3, EndControl
    <2>2. faults = 0 => Tidy'
      BY <1>0, <1>3, TryAgainTidy, Next1Tidy, EndConstructorTidy, EndSetVoltageTidy, EndAskTidy DEF IsegInv, Ends
    <2> QED BY <2>1, <2>2 DEF IsegInv
  <1>4. CASE Line(SerialStep) \/ Line(SupplyStep) \/ Line(Lose)
    <2>1. Control' /\ faults' >= faults
      BY <1>0, <1>4, LineControl
    <2>2. ASSUME faults' = 0 PROVE Tidy'
      <3>1. Tidy
        <4>1. faults = 0
          BY <1>0, <2>1, <2>2
        <4> QED BY <4>1 DEF IsegInv
      <3>2. CASE Line(SerialStep)
        <4>1. Line(SendByte) \/ Line(Echo) \/ Line(NoEcho) \/ Line(ReadAnswer) \/ Line(NoAnswer)
          BY <3>2 DEF Line, SerialStep
        <4> QED BY <1>0, <2>2, <3>1, <4>1, SendByteTidy, EchoTidy, NoEchoTidy, ReadAnswerTidy, NoAnswerTidy
      <3>3. CASE Line(SupplyStep)
        <4>1. Line(Take) \/ Line(Answer)
          BY <3>3 DEF Line, SupplyStep
        <4> QED BY <1>0, <3>1, <4>1, TakeTidy, AnswerTidy
      <3>4. CASE Line(Lose)
        BY <1>0, <2>2, <3>4 DEF Line, Lose
      <3> QED BY <1>4, <3>2, <3>3, <3>4
    <2> QED BY <2>1, <2>2 DEF IsegInv
  <1> QED BY <1>1, <1>2, <1>3, <1>4 DEF Next

-----------------------------------------------------------------------------
(* Theorems *)

\* Where the program is within a call, and what is on the line as long as there was no fault.
THEOREM IsegInvariant == Spec => []IsegInv
  BY InitInv, NextInv, PTL DEF Spec

\* On a line without faults the voltage of the last setVoltage is in force, if the object counts
\* as connected and the last answer has not said that the supply had tripped.
THEOREM VoltageIsApplied == Spec => []AppliedIsAsked
  <1>1. IsegInv => AppliedIsAsked
    BY DEF IsegInv, Tidy, Applied, AppliedIsAsked
  <1> QED BY <1>1, IsegInvariant, PTL

\* On a line without faults each answer is all that the supply has said to the command sent last.
AnswerOfLast == at = "end" => \A i \in 1 .. Len(answer) : answer[i].x = x

THEOREM AnswersAreOwn == Spec => [](faults = 0 => AnswerOfLast /\ OwnAnswer)
  <1>1. ASSUME IsegInv, faults = 0, at = "end"
        PROVE  (\A i \in 1 .. Len(answer) : answer[i].x = x) /\ x \in first .. x
    <2>1. Tidy /\ Control
      BY <1>1 DEF IsegInv
    <2>2. PICK t \in Texts : \E R \in Replies(t) : answer = Tag(R, x)
      BY <1>1, <2>1, AtEnd
    <2>3. PICK R \in Replies(t) : answer = Tag(R, x)
      BY <2>2
    <2>4. Len(answer) = Len(R) /\ \A i \in 1 .. Len(R) : answer[i].x = x
      BY <2>3, TagFacts
    <2>5. x \in first .. x
      BY <1>1, <2>1 DEF Control
    <2> QED BY <2>4, <2>5
  <1>2. IsegInv => (faults = 0 => AnswerOfLast /\ OwnAnswer)
    BY <1>1 DEF AnswerOfLast, OwnAnswer
  <1> QED BY <1>2, IsegInvariant, PTL

\* On a line without faults the supply is given and applies no voltage but those asked for, and
\* the one the program found.
THEOREM OnlyAskedVoltages ==
  Spec => [](faults = 0 => {pending, applied} \subseteq asked \cup {before} /\ NoWrongVoltage)
  <1>1. IsegInv => (faults = 0 => {pending, applied} \subseteq asked \cup {before} /\ NoWrongVoltage)
    BY DEF IsegInv, Tidy, NoWrongVoltage
  <1> QED BY <1>1, IsegInvariant, PTL

-----------------------------------------------------------------------------
(* One fault: what the supply is given, byte by byte *)

\* Every voltage that somebody asked for or that was there, or one of them without a digit
\* that equals the digit before it.
Allowed == asked \cup {before} \cup UNION {Undoubled(v) : v \in asked}

\* The bytes the supply has taken into its command line, and those it is still to take.
Stream == input \o Letters(wire)

\* From its place i on, s sets the voltage d.
Sets(s, i, d) ==
  /\ i + Len(d) + 1 <= Len(s)
  /\ s[i] = "D" /\ s[i + Len(d) + 1] = "cr"
  /\ \A k \in 1 .. Len(d) : s[i + k] = d[k]

\* Whatever voltage s sets, is in V.
Harmless(s, V) == \A i \in 1 .. Len(s), d \in Seq(Digits) : d # <<>> /\ Sets(s, i, d) => d \in V

\* s ends in the letter l and the digits u.
EndsIn(s, l, u) ==
  /\ Len(u) < Len(s) /\ s[Len(s) - Len(u)] = l
  /\ \A k \in 1 .. Len(u) : s[Len(s) - Len(u) + k] = u[k]

CommandLetters == {"S", "G", "U", "D"}

LEMMA SymbolFacts ==
  /\ Digits \subseteq Symbols /\ CommandLetters \subseteq Symbols /\ {"cr", "lf"} \subseteq Symbols
  /\ "cr" \notin Digits /\ "lf" \notin Digits /\ "none" \notin Digits
  /\ \A l \in CommandLetters : l \notin Digits /\ l \notin {"cr", "lf", "none"}
  BY DEF Symbols, Digits, CommandLetters

\* A further byte other than the end of a line sets nothing.
LEMMA HarmlessAppend ==
  ASSUME NEW s \in Seq(Symbols), NEW b \in Symbols, NEW V, Harmless(s, V), b # "cr"
  PROVE  Harmless(Append(s, b), V)
  <1> DEFINE z == Append(s, b)
  <1>1. Len(z) = Len(s) + 1 /\ Len(s) \in Nat /\ z[Len(s) + 1] = b /\ \A i \in 1 .. Len(s) : z[i] = s[i]
    BY AppendProperties
  <1> HIDE DEF z
  <1>2. ASSUME NEW i \in 1 .. Len(z), NEW d \in Seq(Digits), d # <<>>, Sets(z, i, d)
        PROVE  d \in V
    <2>1. Len(d) \in Nat /\ i \in Nat /\ i >= 1
      BY <1>1
    <2>2. i + Len(d) + 1 # Len(s) + 1
      BY <1>1, <1>2 DEF Sets
    <2>3. i + Len(d) + 1 <= Len(s)
      <3>1. i + Len(d) + 1 <= Len(z)
        BY <1>2 DEF Sets
      <3> QED BY <1>1, <2>1, <2>2, <3>1
    <2>4. i \in 1 .. Len(s) /\ i + Len(d) + 1 \in 1 .. Len(s) /\ \A k \in 1 .. Len(d) : i + k \in 1 .. Len(s)
      BY <1>1, <2>1, <2>3
    <2>5. Sets(s, i, d)
      BY <1>1, <1>2, <2>3, <2>4 DEF Sets
    <2> QED BY <1>2, <2>4, <2>5 DEF Harmless
  <1> QED BY <1>2 DEF Harmless, z

\* With the end of a line, s sets the digits it ends in, if they follow a D.
LEMMA HarmlessEnd ==
  ASSUME NEW s \in Seq(Symbols), NEW V, Harmless(s, V),
         NEW l \in CommandLetters, NEW u \in Seq(Digits), EndsIn(s, l, u), l = "D" => u \in V
  PROVE  Harmless(Append(s, "cr"), V)
  <1> DEFINE z == Append(s, "cr")
             n == Len(s)
             p == n - Len(u)
  <1>1. Len(z) = n + 1 /\ n \in Nat /\ \A i \in 1 .. n : z[i] = s[i]
    BY AppendProperties, SymbolFacts
  <1>2. /\ Len(u) \in Nat /\ p \in 1 .. n /\ s[p] = l
        /\ \A k \in 1 .. Len(u) : s[p + k] = u[k] /\ u[k] \in Digits
    BY <1>1, ElementOfSeq DEF EndsIn
  <1> HIDE DEF z
  <1>3. ASSUME NEW i \in 1 .. Len(z), NEW d \in Seq(Digits), d # <<>>, Sets(z, i, d)
        PROVE  d \in V
    <2>1. Len(d) \in Nat /\ i \in Nat /\ i >= 1 /\ \A k \in 1 .. Len(d) : d[k] \in Digits
      BY <1>1, ElementOfSeq
    <2>2. i + Len(d) + 1 <= n + 1
      BY <1>1, <1>3 DEF Sets
    <2>3. i \in 1 .. n /\ \A k \in 1 .. Len(d) : i + k \in 1 .. n
      BY <1>1, <2>1, <2>2
    <2>4. s[i] = "D" /\ \A k \in 1 .. Len(d) : s[i + k] = d[k]
      BY <1>1, <1>3, <2>3 DEF Sets
    <2>5. CASE i + Len(d) + 1 <= n
      <3>1. i + Len(d) + 1 \in 1 .. n
        BY <1>1, <2>1, <2>5
      <3>2. Sets(s, i, d)
        BY <1>1, <1>3, <2>4, <2>5, <3>1 DEF Sets
      <3> QED BY <1>3, <2>3, <3>2 DEF Harmless
    <2>6. CASE i + Len(d) = n
      <3>1. i = p
        <4>1. CASE i < p
          <5>1. p - i \in 1 .. Len(d) /\ i + (p - i) = p
            BY <1>1, <1>2, <2>1, <2>6, <4>1
          <5>2. s[p] \in Digits
            BY <2>1, <2>4, <5>1
          <5> QED BY <1>2, <5>2, SymbolFacts
        <4>2. CASE i > p
          <5>1. i - p \in 1 .. Len(u) /\ p + (i - p) = i
            BY <1>1, <1>2, <2>1, <2>3, <4>2
          <5>2. s[i] \in Digits
            BY <1>2, <5>1
          <5> QED BY <2>4, <5>2 DEF Digits
        <4> QED BY <1>1, <1>2, <2>1, <4>1, <4>2
      <3>2. Len(d) = Len(u)
        BY <1>1, <1>2, <2>1, <2>6, <3>1
      <3>3. \A k \in 1 .. Len(d) : d[k] = u[k]
        BY <1>2, <2>4, <3>1, <3>2
      <3>4. d = u
        BY <3>2, <3>3, SeqEqual
      <3> QED BY <1>2, <2>4, <3>1, <3>4
    <2> QED BY <1>1, <2>1, <2>2, <2>5, <2>6
  <1> QED BY <1>3 DEF Harmless, z

LEMMA HarmlessFront ==
  ASSUME NEW s \in Seq(Symbols), NEW b \in Symbols, NEW V, Harmless(Append(s, b), V)
  PROVE  Harmless(s, V)
  <1> DEFINE z == Append(s, b)
  <1>1. Len(z) = Len(s) + 1 /\ Len(s) \in Nat /\ \A i \in 1 .. Len(s) : z[i] = s[i]
    BY AppendProperties
  <1> HIDE DEF z
  <1>2. ASSUME NEW i \in 1 .. Len(s), NEW d \in Seq(Digits), d # <<>>, Sets(s, i, d)
        PROVE  d \in V
    <2>1. Len(d) \in Nat /\ i + Len(d) + 1 <= Len(s)
      BY <1>2 DEF Sets
    <2>2. i \in 1 .. Len(z) /\ i + Len(d) + 1 \in 1 .. Len(s) /\ \A k \in 1 .. Len(d) : i + k \in 1 .. Len(s)
      BY <1>1, <2>1
    <2>3. Sets(z, i, d)
      BY <1>1, <1>2, <2>1, <2>2 DEF Sets
    <2> QED BY <1>2, <2>2, <2>3 DEF Harmless, z
  <1> QED BY <1>2 DEF Harmless

\* What follows in a harmless stream is harmless.
LEMMA HarmlessRest ==
  ASSUME NEW q \in Seq(Symbols), NEW r \in Seq(Symbols), NEW V, Harmless(q \o r, V)
  PROVE  Harmless(r, V)
  <1> DEFINE s == q \o r
             n == Len(q)
  <1>1. /\ Len(s) = n + Len(r) /\ n \in Nat /\ Len(r) \in Nat
        /\ \A i \in 1 .. n + Len(r) : s[i] = IF i <= n THEN q[i] ELSE r[i - n]
    <2>1. /\ Len(s) = n + Len(r)
          /\ \A i \in 1 .. n + Len(r) : s[i] = IF i <= n THEN q[i] ELSE r[i - n]
      BY ConcatProperties, Zenon
    <2> QED BY <2>1, LenProperties
  <1> HIDE DEF s
  <1>2. \A i \in 1 .. Len(r) : n + i \in 1 .. Len(s) /\ s[n + i] = r[i]
    <2> SUFFICES ASSUME NEW i \in 1 .. Len(r) PROVE n + i \in 1 .. Len(s) /\ s[n + i] = r[i]
      OBVIOUS
    <2>1. n + i \in 1 .. n + Len(r) /\ ~(n + i <= n) /\ (n + i) - n = i
      BY <1>1
    <2> QED BY <1>1, <2>1
  <1>3. ASSUME NEW i \in 1 .. Len(r), NEW d \in Seq(Digits), d # <<>>, Sets(r, i, d)
        PROVE  d \in V
    <2>1. Len(d) \in Nat /\ i + Len(d) + 1 <= Len(r)
      BY <1>3 DEF Sets
    <2>2. i + Len(d) + 1 \in 1 .. Len(r) /\ \A k \in 1 .. Len(d) : i + k \in 1 .. Len(r)
      BY <1>1, <2>1
    <2>3. n + i + Len(d) + 1 = n + (i + Len(d) + 1) /\ \A k \in 1 .. Len(d) : (n + i) + k = n + (i + k)
      BY <1>1, <2>1
    <2>4. Sets(s, n + i, d)
      BY <1>1, <1>2, <1>3, <2>1, <2>2, <2>3 DEF Sets
    <2> QED BY <1>2, <1>3, <2>4 DEF Harmless, s
  <1> QED BY <1>3 DEF Harmless

\* A line that sets a voltage at its beginning.
LEMMA HarmlessLine ==
  ASSUME NEW q \in Seq(Symbols), NEW r \in Seq(Symbols), NEW V, Harmless(q \o r, V),
         NEW d \in Seq(Digits), d # <<>>, Len(q) = Len(d) + 2, Sets(q, 1, d)
  PROVE  d \in V
  <1> DEFINE s == q \o r
             n == Len(q)
  <1>0. Len(d) \in Nat
    OBVIOUS
  <1>1. /\ Len(s) = n + Len(r) /\ n \in Nat /\ Len(r) \in Nat
        /\ \A i \in 1 .. n + Len(r) : s[i] = IF i <= n THEN q[i] ELSE r[i - n]
    <2>1. /\ Len(s) = n + Len(r)
          /\ \A i \in 1 .. n + Len(r) : s[i] = IF i <= n THEN q[i] ELSE r[i - n]
      BY ConcatProperties, Zenon
    <2> QED BY <2>1, LenProperties
  <1> HIDE DEF s
  <1>2. \A i \in 1 .. n : s[i] = q[i]
    BY <1>1
  <1>3. 1 \in 1 .. Len(s) /\ 1 + Len(d) + 1 \in 1 .. n /\ 1 \in 1 .. n /\ \A k \in 1 .. Len(d) : 1 + k \in 1 .. n
    BY <1>0, <1>1
  <1>4. Sets(s, 1, d)
    BY <1>0, <1>1, <1>2, <1>3 DEF Sets
  <1> QED BY <1>3, <1>4 DEF Harmless, s

LEMMA EndsInAppend ==
  ASSUME NEW s \in Seq(Symbols), NEW l, NEW u \in Seq(Digits), NEW b \in Digits, EndsIn(s, l, u)
  PROVE  EndsIn(Append(s, b), l, Append(u, b))
  <1> DEFINE z == Append(s, b)
             w == Append(u, b)
  <1>1. Len(z) = Len(s) + 1 /\ Len(s) \in Nat /\ z[Len(s) + 1] = b /\ \A i \in 1 .. Len(s) : z[i] = s[i]
    BY AppendProperties, SymbolFacts
  <1>2. Len(w) = Len(u) + 1 /\ Len(u) \in Nat /\ w[Len(u) + 1] = b /\ \A i \in 1 .. Len(u) : w[i] = u[i]
    BY AppendProperties
  <1> HIDE DEF z, w
  <1>3. Len(u) < Len(s) /\ Len(z) - Len(w) = Len(s) - Len(u) /\ Len(s) - Len(u) \in 1 .. Len(s)
    BY <1>1, <1>2 DEF EndsIn
  <1>4. ASSUME NEW k \in 1 .. Len(w) PROVE z[Len(z) - Len(w) + k] = w[k]
    <2>1. CASE k = Len(u) + 1
      <3>1. Len(z) - Len(w) + k = Len(s) + 1
        BY <1>1, <1>2, <2>1
      <3> QED BY <1>1, <1>2, <2>1, <3>1
    <2>2. CASE k \in 1 .. Len(u)
      <3>1. Len(s) - Len(u) + k \in 1 .. Len(s)
        BY <1>1, <1>2, <1>3, <2>2
      <3> QED BY <1>1, <1>2, <1>3, <2>2, <3>1 DEF EndsIn
    <2> QED BY <1>2, <2>1, <2>2
  <1>5. z[Len(z) - Len(w)] = l
    BY <1>1, <1>3 DEF EndsIn
  <1>6. EndsIn(z, l, w)
    BY <1>1, <1>2, <1>3, <1>4, <1>5 DEF EndsIn
  <1> QED BY <1>6 DEF z, w

LEMMA EndsInLetter ==
  ASSUME NEW s \in Seq(Symbols), NEW l \in Symbols
  PROVE  EndsIn(Append(s, l), l, <<>>)
  <1>1. Len(Append(s, l)) = Len(s) + 1 /\ Len(s) \in Nat /\ Append(s, l)[Len(s) + 1] = l /\ Len(<<>>) = 0
    BY AppendProperties
  <1> QED BY <1>1 DEF EndsIn

\* Without its last byte.
LEMMA EndsInFront ==
  ASSUME NEW s \in Seq(Symbols), NEW c \in Symbols, NEW l, NEW u \in Seq(Digits), NEW b \in Digits,
         EndsIn(Append(s, c), l, Append(u, b))
  PROVE  EndsIn(s, l, u)
  <1> DEFINE z == Append(s, c)
             w == Append(u, b)
  <1>1. Len(z) = Len(s) + 1 /\ Len(s) \in Nat /\ \A i \in 1 .. Len(s) : z[i] = s[i]
    BY AppendProperties
  <1>2. Len(w) = Len(u) + 1 /\ Len(u) \in Nat /\ \A i \in 1 .. Len(u) : w[i] = u[i]
    BY AppendProperties
  <1> HIDE DEF z, w
  <1>3. EndsIn(z, l, w)
    BY DEF z, w
  <1>4. Len(u) < Len(s) /\ Len(z) - Len(w) = Len(s) - Len(u) /\ Len(s) - Len(u) \in 1 .. Len(s)
    BY <1>1, <1>2, <1>3 DEF EndsIn
  <1>5. ASSUME NEW k \in 1 .. Len(u) PROVE s[Len(s) - Len(u) + k] = u[k]
    <2>1. Len(s) - Len(u) + k \in 1 .. Len(s) /\ k \in 1 .. Len(w)
      BY <1>1, <1>2, <1>4
    <2> QED BY <1>1, <1>2, <1>3, <1>4, <2>1 DEF EndsIn
  <1> QED BY <1>1, <1>3, <1>4, <1>5 DEF EndsIn

\* The end of a stream is behind a line that the supply has taken.
LEMMA EndsInRest ==
  ASSUME NEW q \in Seq(Symbols), NEW r \in Seq(Symbols), NEW l \in CommandLetters, NEW u \in Seq(Digits),
         q # <<>>, q[Len(q)] = "lf", EndsIn(q \o r, l, u)
  PROVE  EndsIn(r, l, u)
  <1> DEFINE s == q \o r
             n == Len(q)
  <1>1. /\ Len(s) = n + Len(r) /\ n \in Nat \ {0} /\ Len(r) \in Nat /\ Len(u) \in Nat
        /\ \A i \in 1 .. n + Len(r) : s[i] = IF i <= n THEN q[i] ELSE r[i - n]
    BY ConcatProperties, EmptySeq
  <1> HIDE DEF s
  <1>2. s[n] = "lf" /\ \A i \in 1 .. Len(r) : s[n + i] = r[i]
    <2>1. s[n] = q[n]
      BY <1>1
    <2>2. ASSUME NEW i \in 1 .. Len(r) PROVE s[n + i] = r[i]
      <3>1. n + i \in 1 .. n + Len(r) /\ ~(n + i <= n) /\ (n + i) - n = i
        BY <1>1
      <3> QED BY <1>1, <3>1
    <2> QED BY <2>1, <2>2
  <1>3. EndsIn(s, l, u)
    BY DEF s
  <1>4. Len(u) < Len(r)
    <2>1. SUFFICES ASSUME Len(u) >= Len(r) PROVE FALSE
      BY <1>1
    <2>2. CASE Len(u) = Len(r)
      <3>1. Len(s) - Len(u) = n
        BY <1>1, <2>2
      <3> QED BY <1>2, <1>3, <3>1, SymbolFacts DEF EndsIn
    <2>3. CASE Len(u) > Len(r)
      <3>1. Len(u) - Len(r) \in 1 .. Len(u) /\ Len(s) - Len(u) + (Len(u) - Len(r)) = n
        BY <1>1, <2>3
      <3>2. s[n] = u[Len(u) - Len(r)]
        BY <1>3, <3>1 DEF EndsIn
      <3>3. s[n] \in Digits
        BY <3>1, <3>2, ElementOfSeq
      <3> QED BY <1>2, <3>3, SymbolFacts
    <2> QED BY <1>1, <2>1, <2>2, <2>3
  <1>5. \A k \in 0 .. Len(u) : /\ Len(r) - Len(u) + k \in 1 .. Len(r)
                               /\ Len(s) - Len(u) + k = n + (Len(r) - Len(u) + k)
    BY <1>1, <1>4
  <1>6. r[Len(r) - Len(u)] = l
    <2>1. Len(r) - Len(u) \in 1 .. Len(r) /\ Len(s) - Len(u) = n + (Len(r) - Len(u))
      BY <1>1, <1>4
    <2> QED BY <1>2, <1>3, <2>1 DEF EndsIn
  <1>7. ASSUME NEW k \in 1 .. Len(u) PROVE r[Len(r) - Len(u) + k] = u[k]
    <2>1. k \in 0 .. Len(u)
      BY <1>1
    <2> QED BY <1>2, <1>3, <1>5, <2>1 DEF EndsIn
  <1> QED BY <1>4, <1>6, <1>7 DEF EndsIn

-----------------------------------------------------------------------------
(* The rest of a command *)

LEMMA RestFacts ==
  ASSUME NEW e \in Seq(Digits)
  PROVE  /\ e \o CrLf \in Seq(Symbols) /\ e \o CrLf # <<>>
         /\ e = <<>> => e \o CrLf = CrLf
         /\ e # <<>> => /\ Head(e) \in Digits /\ Tail(e) \in Seq(Digits)
                        /\ Head(e \o CrLf) = Head(e) /\ Tail(e \o CrLf) = Tail(e) \o CrLf
  <1>1. PICK r : r = CrLf
    OBVIOUS
  <1>2. r \in Seq(Symbols) /\ Len(r) = 2
    BY <1>1 DEF CrLf, Symbols
  <1>3. e \in Seq(Symbols)
    BY SeqMonotonic, SymbolFacts
  <1>4. e \o r \in Seq(Symbols) /\ Len(e \o r) = Len(e) + 2 /\ Len(e) \in Nat
    <2>1. e \o r \in Seq(Symbols) /\ Len(e \o r) = Len(e) + Len(r)
      BY <1>2, <1>3, ConcatProperties, Zenon
    <2> QED BY <1>2, <2>1, LenProperties
  <1>5. e \o r # <<>>
    BY <1>4, EmptySeq
  <1>6. e = <<>> => e \o r = r
    BY <1>2, ConcatEmptySeq
  <1>7. ASSUME e # <<>>
        PROVE  Head(e) \in Digits /\ Tail(e) \in Seq(Digits) /\ Head(e \o r) = Head(e) /\ Tail(e \o r) = Tail(e) \o r
    <2>1. Head(e) \in Digits /\ Tail(e) \in Seq(Digits)
      BY <1>7, HeadTailProperties
    <2>2. PICK h, k : h = Head(e) /\ k = Tail(e)
      OBVIOUS
    <2>3. h \in Symbols /\ k \in Seq(Symbols) /\ <<h>> \in Seq(Symbols)
      BY <2>1, <2>2, SymbolFacts, SeqMonotonic, Singleton
    <2>4. e = <<h>> \o k
      <3>1. Append(<<>>, h) \o k = <<>> \o e
        BY <1>3, <1>7, <2>2, EmptySeq, Arrives
      <3>2. Append(<<>>, h) = <<h>> /\ <<>> \o e = e
        BY <1>3, ConcatEmptySeq
      <3> QED BY <3>1, <3>2
    <2>5. e \o r = <<h>> \o (k \o r)
      <3>1. (<<h>> \o k) \o r = <<h>> \o (k \o r)
        BY <1>2, <2>3, ConcatAssociative
      <3> QED BY <2>4, <3>1
    <2>6. PICK w, v : w = e \o r /\ v = k \o r
      OBVIOUS
    <2>7. v \in Seq(Symbols)
      BY <1>2, <2>3, <2>6, ConcatProperties
    <2>8. Led(Symbols, <<h>>, w, <<>>, v)
      <3>1. w \o <<>> = <<h>> \o v /\ w \in Seq(Symbols) /\ w # <<>> /\ <<>> \in Seq(Symbols)
        BY <1>4, <1>5, <2>5, <2>6, ConcatEmptySeq, EmptySeq
      <3>2. Len(<<h>>) = 1
        OBVIOUS
      <3> QED BY <2>3, <2>7, <3>1, <3>2, Leads
    <2>9. Head(w) = h /\ Tail(w) = v
      <3>1. Head(w) = <<h>>[1] /\ Tail(w) \in Seq(Symbols) /\ Tail(w) \o <<>> = v
        BY <2>8, Zenon DEF Led
      <3> QED BY <3>1, ConcatEmptySeq
    <2> QED BY <2>1, <2>2, <2>6, <2>9
  <1> QED BY <1>1, <1>4, <1>5, <1>6, <1>7

\* A command from its letter on.
Whole(l, e) == <<l>> \o (e \o CrLf)

LEMMA WholeFacts ==
  ASSUME NEW l \in CommandLetters, NEW e \in Seq(Digits)
  PROVE  /\ Whole(l, e) \in Seq(Symbols) /\ Whole(l, e) # <<>>
         /\ Head(Whole(l, e)) = l /\ Tail(Whole(l, e)) = e \o CrLf
  <1>1. PICK u, v, w : u = <<l>> /\ v = e \o CrLf /\ w = u \o v
    OBVIOUS
  <1>2. u \in Seq(Symbols) /\ Len(u) = 1 /\ u[1] = l
    BY <1>1, SymbolFacts, Singleton
  <1>3. v \in Seq(Symbols)
    BY <1>1, RestFacts
  <1>4. w \in Seq(Symbols) /\ Len(w) = Len(u) + Len(v) /\ Len(v) \in Nat
    BY <1>1, <1>2, <1>3, ConcatProperties, LenProperties
  <1>5. w # <<>>
    BY <1>2, <1>4, EmptySeq
  <1>6. Led(Symbols, u, w, <<>>, v)
    BY <1>1, <1>2, <1>3, <1>4, <1>5, ConcatEmptySeq, EmptySeq, Leads
  <1>7. Head(w) = l /\ Tail(w) = v
    BY <1>2, <1>6, ConcatEmptySeq DEF Led
  <1> QED BY <1>1, <1>4, <1>5, <1>7 DEF Whole

LEMMA WholeCommands ==
  /\ S1 = Whole("S", <<>>) /\ G1 = Whole("G", <<>>) /\ U1 = Whole("U", <<>>)
  /\ \A v \in Seq(Digits) : D1(v) = Whole("D", v)
  <1>1. CrLf \in Seq(Symbols) /\ <<>> \o CrLf = CrLf
    <2>1. PICK r : r = CrLf
      OBVIOUS
    <2>2. r \in Seq(Symbols)
      BY <2>1 DEF CrLf, Symbols
    <2> QED BY <2>1, <2>2, ConcatEmptySeq
  <1>2. ASSUME NEW l \in {"S", "G", "U"} PROVE Whole(l, <<>>) = <<l, "cr", "lf">>
    BY <1>1, LetterCommand DEF Whole, Command
  <1>3. ASSUME NEW v \in Seq(Digits) PROVE D1(v) = Whole("D", v)
    <2>1. v \in Seq(Symbols) /\ <<"D">> \in Seq(Symbols)
      BY SeqMonotonic, SymbolFacts, Singleton DEF CommandLetters
    <2>2. (<<"D">> \o v) \o CrLf = <<"D">> \o (v \o CrLf)
      BY <1>1, <2>1, ConcatAssociative
    <2> QED BY <2>2 DEF D1, Whole, CrLf
  <1> QED BY <1>2, <1>3 DEF S1, G1, U1

\* A digit that equals the one before it is left out.
LEMMA Skips ==
  ASSUME NEW u \in Seq(Digits), NEW e \in Seq(Digits), u # <<>>, e # <<>>, u[Len(u)] = Head(e)
  PROVE  u \o Tail(e) \in Undoubled(u \o e)
  <1> DEFINE v == u \o e
             m == Len(u)
             n == Len(e)
  <1>1. m \in Nat \ {0} /\ n \in Nat \ {0}
    BY EmptySeq
  <1>2. Tail(e) \in Seq(Digits) /\ Len(Tail(e)) = n - 1 /\ Head(e) = e[1] /\ \A i \in 1 .. n - 1 : Tail(e)[i] = e[i + 1]
    BY HeadTailProperties
  <1>3. v \in Seq(Digits) /\ Len(v) = m + n /\ \A i \in 1 .. m + n : v[i] = IF i <= m THEN u[i] ELSE e[i - m]
    BY ConcatProperties
  <1> HIDE DEF v, m, n
  <1>4. m + 1 \in 2 .. Len(v) /\ v[m + 1] = v[(m + 1) - 1]
    <2>1. m + 1 \in 1 .. m + n /\ ~(m + 1 <= m) /\ (m + 1) - m = 1 /\ (m + 1) - 1 = m /\ m \in 1 .. m + n
      BY <1>1
    <2>2. v[m + 1] = e[(m + 1) - m] /\ v[m] = u[m]
      <3>1. v[m + 1] = IF m + 1 <= m THEN u[m + 1] ELSE e[(m + 1) - m]
        BY <1>3, <2>1, Zenon
      <3>2. v[m] = IF m <= m THEN u[m] ELSE e[m - m]
        BY <1>3, <2>1, Zenon
      <3> QED BY <1>1, <2>1, <3>1, <3>2
    <2> QED BY <1>1, <1>2, <1>3, <2>1, <2>2 DEF m
  <1>5. SubSeq(v, 1, (m + 1) - 1) = u
    <2>1. PICK w : w = SubSeq(v, 1, m)
      OBVIOUS
    <2>2. \A i \in 1 .. m : v[i] \in Digits
      BY <1>1, <1>3, ElementOfSeq
    <2>3. w \in Seq(Digits) /\ Len(w) = m /\ \A i \in 1 .. m : w[i] = v[i]
      <3>1. /\ w \in Seq(Digits) /\ Len(w) = IF 1 <= m THEN m - 1 + 1 ELSE 0
            /\ \A i \in 1 .. m - 1 + 1 : w[i] = v[1 + i - 1]
        BY <1>1, <2>1, <2>2, SubSeqProperties
      <3> QED BY <1>1, <3>1
    <2>4. \A i \in 1 .. m : v[i] = u[i]
      BY <1>1, <1>3
    <2>5. w = u
      <3>1. Len(w) = Len(u) /\ \A i \in 1 .. Len(w) : w[i] = u[i]
        BY <2>3, <2>4 DEF m
      <3> QED BY <2>3, <3>1, SeqEqual
    <2>6. (m + 1) - 1 = m
      BY <1>1
    <2> QED BY <2>1, <2>5, <2>6
  <1>6. SubSeq(v, (m + 1) + 1, Len(v)) = Tail(e)
    <2>1. PICK w : w = SubSeq(v, m + 2, m + n)
      OBVIOUS
    <2>2. \A i \in m + 2 .. m + n : v[i] \in Digits
      <3>1. \A i \in m + 2 .. m + n : i \in 1 .. Len(v)
        BY <1>1, <1>3
      <3> QED BY <1>3, <3>1, ElementOfSeq
    <2>3. w \in Seq(Digits) /\ Len(w) = n - 1 /\ \A i \in 1 .. n - 1 : w[i] = v[m + 1 + i]
      <3>1. /\ w \in Seq(Digits) /\ Len(w) = IF m + 2 <= m + n THEN (m + n) - (m + 2) + 1 ELSE 0
            /\ \A i \in 1 .. (m + n) - (m + 2) + 1 : w[i] = v[(m + 2) + i - 1]
        BY <1>1, <2>1, <2>2, SubSeqProperties
      <3>2. \A i \in 1 .. n - 1 : (m + 2) + i - 1 = m + 1 + i /\ i \in 1 .. (m + n) - (m + 2) + 1
        BY <1>1
      <3> QED BY <1>1, <3>1, <3>2
    <2>4. ASSUME NEW i \in 1 .. n - 1 PROVE v[m + 1 + i] = Tail(e)[i]
      <3>1. m + 1 + i \in 1 .. m + n /\ ~(m + 1 + i <= m) /\ (m + 1 + i) - m = i + 1
        BY <1>1
      <3> QED BY <1>2, <1>3, <3>1
    <2>5. w = Tail(e)
      BY <1>2, <2>3, <2>4, SeqEqual
    <2>6. (m + 1) + 1 = m + 2 /\ Len(v) = m + n
      BY <1>1, <1>3
    <2> QED BY <2>1, <2>5, <2>6
  <1>7. RemoveAt(v, m + 1) = u \o Tail(e)
    BY <1>5, <1>6 DEF RemoveAt
  <1> QED BY <1>4, <1>7 DEF Undoubled, v

-----------------------------------------------------------------------------
(* The stream *)

Wired == [c : Symbols, x : Nat]

LEMMA LetterFacts ==
  ASSUME NEW a \in Seq(Wired)
  PROVE  /\ Letters(a) \in Seq(Symbols) /\ Len(Letters(a)) = Len(a)
         /\ \A i \in 1 .. Len(a) : Letters(a)[i] = a[i].c
  <1>1. Len(a) \in Nat /\ \A i \in 1 .. Len(a) : a[i].c \in Symbols
    <2>1. \A b \in Wired : b.c \in Symbols
      BY DEF Wired
    <2> QED BY <2>1, ElementOfSeq, LenProperties
  <1>2. Letters(a) \in Seq(Symbols)
    BY <1>1, IsASeq DEF Letters
  <1>3. DOMAIN Letters(a) = 1 .. Len(a)
    BY DEF Letters
  <1> QED BY <1>1, <1>2, <1>3, LenProperties DEF Letters

LEMMA LettersAppend ==
  ASSUME NEW a \in Seq(Wired), NEW b \in Wired
  PROVE  Append(a, b) \in Seq(Wired) /\ Letters(Append(a, b)) = Append(Letters(a), b.c)
  <1>1. PICK p, z, s, d : p = Append(a, b) /\ z = Letters(p) /\ s = Letters(a) /\ d = Append(s, b.c)
    OBVIOUS
  <1>2. b.c \in Symbols
    BY DEF Wired
  <1>3. p \in Seq(Wired) /\ Len(p) = Len(a) + 1 /\ p[Len(a) + 1] = b /\ Len(a) \in Nat
        /\ \A i \in 1 .. Len(a) : p[i] = a[i]
    BY <1>1, AppendProperties, LenProperties
  <1>4. s \in Seq(Symbols) /\ Len(s) = Len(a) /\ \A i \in 1 .. Len(a) : s[i] = a[i].c
    BY <1>1, LetterFacts
  <1>5. z \in Seq(Symbols) /\ Len(z) = Len(p) /\ \A i \in 1 .. Len(p) : z[i] = p[i].c
    BY <1>1, <1>3, LetterFacts
  <1>6. d \in Seq(Symbols) /\ Len(d) = Len(a) + 1 /\ d[Len(a) + 1] = b.c /\ \A i \in 1 .. Len(a) : d[i] = s[i]
    BY <1>1, <1>2, <1>4, AppendProperties
  <1>7. ASSUME NEW i \in 1 .. Len(z) PROVE z[i] = d[i]
    <2>1. i \in 1 .. Len(a) \/ i = Len(a) + 1
      BY <1>3, <1>5
    <2> QED BY <1>3, <1>4, <1>5, <1>6, <2>1
  <1>8. z = d
    BY <1>3, <1>5, <1>6, <1>7, SeqEqual
  <1> QED BY <1>1, <1>3, <1>8

LEMMA LettersTail ==
  ASSUME NEW a \in Seq(Wired), a # <<>>
  PROVE  /\ Tail(a) \in Seq(Wired) /\ Head(a) \in Wired /\ Letters(a) # <<>>
         /\ Head(Letters(a)) = Head(a).c /\ Tail(Letters(a)) = Letters(Tail(a))
  <1>1. PICK p, z, s, d : p = Tail(a) /\ z = Letters(p) /\ s = Letters(a) /\ d = Tail(s)
    OBVIOUS
  <1>2. p \in Seq(Wired) /\ Len(p) = Len(a) - 1 /\ Len(a) \in Nat \ {0}
        /\ \A i \in 1 .. Len(a) - 1 : p[i] = a[i + 1]
    BY <1>1, HeadTailProperties, EmptySeq
  <1>3. s \in Seq(Symbols) /\ Len(s) = Len(a) /\ \A i \in 1 .. Len(a) : s[i] = a[i].c
    BY <1>1, LetterFacts
  <1>4. z \in Seq(Symbols) /\ Len(z) = Len(p) /\ \A i \in 1 .. Len(p) : z[i] = p[i].c
    BY <1>1, <1>2, LetterFacts
  <1>5. s # <<>>
    BY <1>2, <1>3, EmptySeq
  <1>6. d \in Seq(Symbols) /\ Len(d) = Len(a) - 1 /\ \A i \in 1 .. Len(a) - 1 : d[i] = s[i + 1]
    BY <1>1, <1>3, <1>5, HeadTailProperties
  <1>7. ASSUME NEW i \in 1 .. Len(z) PROVE z[i] = d[i]
    <2>1. i \in 1 .. Len(a) - 1 /\ i + 1 \in 1 .. Len(a)
      BY <1>2, <1>4
    <2> QED BY <1>2, <1>3, <1>4, <1>6, <2>1
  <1>8. z = d
    BY <1>2, <1>4, <1>6, <1>7, SeqEqual
  <1>9. Head(a) = a[1] /\ Head(s) = s[1] /\ 1 \in 1 .. Len(a) /\ Head(a) \in Wired
    BY <1>2, HeadTailProperties
  <1> QED BY <1>1, <1>2, <1>3, <1>5, <1>8, <1>9

-----------------------------------------------------------------------------
(* One fault *)

\* The digit or letter echoed last.
Latest(l, u) == IF u = <<>> THEN l ELSE u[Len(u)]

\* Of the command with the letter l the digits u count as sent, and e are left.
Underway(l, u, e) ==
  /\ l \in CommandLetters /\ u \in Seq(Digits) /\ e \in Seq(Digits)
  /\ IF l = "D" THEN u \o e \in Allowed /\ (faults = 0 => u \o e \in asked) ELSE u = <<>> /\ e = <<>>
  /\ cmd = e \o CrLf /\ buf = Latest(l, u)

Fresh(l, e) ==
  /\ l \in CommandLetters /\ e \in Seq(Digits)
  /\ IF l = "D" THEN e \in asked ELSE e = <<>>
  /\ cmd = Whole(l, e) /\ buf = "none"

\* The byte that was to be echoed has been lost, and nothing is under way.
Lost == faults # 0 /\ wire = <<>> /\ line = <<>> /\ reply = <<>>

Ready ==
  \/ \E l, e : Fresh(l, e)
  \/ \E l, u, e : Underway(l, u, e) /\ EndsIn(Stream, l, u)
  \/ cmd = <<"lf">>

Waiting ==
  \/ \E l, e : Fresh(l, e) /\ (Lost \/ EndsIn(Stream, l, <<>>))
  \/ \E l, u, e : /\ Underway(l, u, e) /\ e # <<>>
                  /\ \/ EndsIn(Stream, l, Append(u, Head(e)))
                     \/ Lost /\ u \o e \in asked /\ EndsIn(Stream, l, u)
  \/ cmd \in {CrLf, <<"lf">>}

Lines ==
  /\ wire \in Seq(Wired) /\ input \in Seq(Symbols) /\ Harmless(Stream, Allowed)
  /\ {pending, applied} \subseteq Allowed

OneFault ==
  /\ Lines
  /\ asked \subseteq Voltages /\ rest \in {<<>>, <<G1>>, <<U1>>}
  /\ at = "send" => Ready
  /\ at = "echo" => Waiting

LEMMA StreamFacts ==
  ASSUME Lines
  PROVE  Letters(wire) \in Seq(Symbols) /\ Stream \in Seq(Symbols)
  BY LetterFacts, ConcatProperties DEF Lines, Stream

\* What a step on the line keeps.
LEMMA LineKeeps ==
  ASSUME UNCHANGED <<object, call, rest, open, marks>>
  PROVE  UNCHANGED <<rest, asked, before>> /\ Allowed' = Allowed
  BY DEF marks, Allowed

LEMMA SendByteOnce ==
  ASSUME Control, OneFault, Line(SendByte)
  PROVE  OneFault'
  <1>1. /\ at = "send" /\ at' = "echo" /\ wire' = Append(wire, [c |-> Head(cmd), x |-> x])
        /\ UNCHANGED <<cmd, buf, line, input, pending, applied, faults>>
        /\ UNCHANGED <<rest, asked, before>> /\ Allowed' = Allowed
    BY LineKeeps DEF Line, SendByte, supply
  <1>2. Ready /\ Lines /\ x \in Nat
    BY <1>1 DEF OneFault, Control
  <1>3. ASSUME Head(cmd) \in Symbols
        PROVE  wire' \in Seq(Wired) /\ Stream' = Append(Stream, Head(cmd))
    <2>1. PICK b : b = [c |-> Head(cmd), x |-> x]
      OBVIOUS
    <2>2. b \in Wired /\ b.c = Head(cmd)
      BY <1>2, <1>3, <2>1 DEF Wired
    <2>3. wire' \in Seq(Wired) /\ Letters(wire') = Append(Letters(wire), Head(cmd))
      BY <1>1, <1>2, <2>1, <2>2, LettersAppend DEF Lines
    <2>4. PICK q, r, h : q = input /\ r = Letters(wire) /\ h = Head(cmd)
      OBVIOUS
    <2>5. q \in Seq(Symbols) /\ r \in Seq(Symbols) /\ h \in Symbols
      BY <1>2, <1>3, <2>4, StreamFacts DEF Lines
    <2>6. q \o Append(r, h) = Append(q \o r, h)
      <3>1. Append(r, h) = r \o <<h>> /\ Append(q \o r, h) = (q \o r) \o <<h>>
        BY <2>5, AppendIsConcat, ConcatProperties
      <3>2. <<h>> \in Seq(Symbols)
        BY <2>5, Singleton
      <3>3. (q \o r) \o <<h>> = q \o (r \o <<h>>)
        BY <2>5, <3>2, ConcatAssociative
      <3> QED BY <3>1, <3>3
    <2> QED BY <1>1, <2>3, <2>4, <2>6 DEF Stream
  <1>4. ASSUME Head(cmd) \in Symbols, Harmless(Append(Stream, Head(cmd)), Allowed), Waiting'
        PROVE  OneFault'
    BY <1>1, <1>2, <1>3, <1>4 DEF OneFault, Lines
  <1>5. ASSUME NEW l, NEW e, Fresh(l, e) PROVE OneFault'
    <2>1. l \in CommandLetters /\ Head(cmd) = l /\ l \in Symbols /\ l # "cr"
      BY <1>5, WholeFacts, SymbolFacts DEF Fresh
    <2>2. Harmless(Append(Stream, l), Allowed) /\ EndsIn(Append(Stream, l), l, <<>>)
      BY <1>2, <2>1, StreamFacts, HarmlessAppend, EndsInLetter DEF Lines
    <2>3. Fresh(l, e)'
      BY <1>1, <1>5 DEF Fresh, Whole, CrLf
    <2>4. Waiting'
      BY <1>3, <2>1, <2>2, <2>3 DEF Waiting
    <2> QED BY <1>4, <2>1, <2>2, <2>4
  <1>6. ASSUME NEW l, NEW u, NEW e, Underway(l, u, e), EndsIn(Stream, l, u) PROVE OneFault'
    <2>1. l \in CommandLetters /\ u \in Seq(Digits) /\ e \in Seq(Digits) /\ cmd = e \o CrLf
      BY <1>6 DEF Underway
    <2>2. CASE e = <<>>
      <3>1. cmd = CrLf /\ Head(cmd) = "cr" /\ "cr" \in Symbols
        BY <2>1, <2>2, RestFacts, SymbolFacts DEF CrLf
      <3>2. l = "D" => u \in Allowed
        <4>1. u \o <<>> = u
          BY <2>1, ConcatEmptySeq
        <4> QED BY <1>6, <2>2, <4>1 DEF Underway
      <3>3. Harmless(Append(Stream, "cr"), Allowed)
        BY <1>2, <1>6, <2>1, <3>2, StreamFacts, HarmlessEnd DEF Lines
      <3>4. Waiting'
        BY <1>1, <3>1 DEF Waiting, CrLf
      <3> QED BY <1>4, <3>1, <3>3, <3>4
    <2>3. CASE e # <<>>
      <3>1. Head(cmd) = Head(e) /\ Head(e) \in Digits /\ Head(e) \in Symbols /\ Head(e) # "cr"
        BY <2>1, <2>3, RestFacts, SymbolFacts
      <3>2. Harmless(Append(Stream, Head(e)), Allowed) /\ EndsIn(Append(Stream, Head(e)), l, Append(u, Head(e)))
        BY <1>2, <1>6, <2>1, <3>1, StreamFacts, HarmlessAppend, EndsInAppend DEF Lines
      <3>3. Underway(l, u, e)'
        BY <1>1, <1>6 DEF Underway, Latest, CrLf
      <3>4. Waiting'
        BY <1>3, <2>3, <3>1, <3>2, <3>3 DEF Waiting
      <3> QED BY <1>4, <3>1, <3>2, <3>4
    <2> QED BY <2>2, <2>3
  <1>7. CASE cmd = <<"lf">>
    <2>1. Head(cmd) = "lf" /\ "lf" \in Symbols /\ "lf" # "cr"
      BY <1>7, SymbolFacts
    <2>2. Harmless(Append(Stream, "lf"), Allowed)
      BY <1>2, <2>1, StreamFacts, HarmlessAppend DEF Lines
    <2>3. Waiting'
      BY <1>1, <1>7 DEF Waiting
    <2> QED BY <1>4, <2>1, <2>2, <2>3
  <1> QED BY <1>2, <1>5, <1>6, <1>7 DEF Ready

\* Of what is sent no more is echoed than has been sent, but for a digit beside its like.
LEMMA CompareOnce ==
  ASSUME NEW b, Waiting, Compare(b), ~Lost \/ b = buf,
         UNCHANGED <<wire, input, asked, before>>, faults' = 0 => faults = 0
  PROVE  at' # "echo" /\ (at' = "send" => Ready')
  <1>1. Allowed' = Allowed /\ Stream' = Stream
    BY DEF Allowed, Stream
  <1>2. at' \in {"end", "read", "send"}
    BY DEF Compare
  <1>3. ASSUME at' = "send"
        PROVE  b = Head(cmd) /\ cmd' = Tail(cmd) /\ buf' = b /\ cmd' # <<>>
    BY <1>3 DEF Compare
  <1>4. ASSUME at' = "send", NEW l, NEW e, Fresh(l, e), Lost \/ EndsIn(Stream, l, <<>>)
        PROVE  Ready'
    <2>1. l \in CommandLetters /\ e \in Seq(Digits) /\ Head(cmd) = l /\ Tail(cmd) = e \o CrLf
      BY <1>4, WholeFacts DEF Fresh
    <2>2. ~Lost
      BY <1>3, <1>4, <2>1, SymbolFacts DEF Fresh
    <2>3. <<>> \o e = e /\ <<>> \in Seq(Digits)
      BY <2>1, ConcatEmptySeq, EmptySeq
    <2>4. IF l = "D" THEN <<>> \o e \in Allowed /\ <<>> \o e \in asked ELSE e = <<>>
      BY <1>4, <2>3 DEF Fresh, Allowed
    <2>5. Underway(l, <<>>, e)'
      BY <1>1, <1>3, <1>4, <2>1, <2>3, <2>4 DEF Underway, Latest, CrLf
    <2> QED BY <1>1, <1>4, <2>2, <2>5 DEF Ready
  <1>5. ASSUME at' = "send", NEW l, NEW u, NEW e, Underway(l, u, e), e # <<>>,
               EndsIn(Stream, l, Append(u, Head(e)))
        PROVE  Ready'
    <2>1. l \in CommandLetters /\ u \in Seq(Digits) /\ e \in Seq(Digits) /\ cmd = e \o CrLf
      BY <1>5 DEF Underway
    <2>2. Head(e) \in Digits /\ Tail(e) \in Seq(Digits) /\ b = Head(e) /\ cmd' = Tail(e) \o CrLf
      BY <1>3, <1>5, <2>1, RestFacts
    <2>3. PICK w : w = Append(u, Head(e))
      OBVIOUS
    <2>4. w \in Seq(Digits) /\ w # <<>> /\ w[Len(w)] = Head(e) /\ w \o Tail(e) = u \o e
      <3>1. Append(u, Head(e)) \o Tail(e) = u \o e
        BY <1>5, <2>1, Arrives
      <3>2. w \in Seq(Digits) /\ w # <<>> /\ Len(w) = Len(u) + 1 /\ w[Len(u) + 1] = Head(e)
        BY <2>1, <2>2, <2>3, AppendProperties
      <3> QED BY <2>3, <3>1, <3>2
    <2>5. l = "D"
      <3>1. l # "D" => e = <<>>
        BY <1>5 DEF Underway
      <3> QED BY <1>5, <3>1
    <2>6. u \o e \in Allowed /\ (faults = 0 => u \o e \in asked)
      BY <1>5, <2>5 DEF Underway
    <2>7. Underway(l, w, Tail(e))'
      BY <1>1, <1>3, <1>5, <2>1, <2>2, <2>4, <2>5, <2>6 DEF Underway, Latest, CrLf
    <2> QED BY <1>1, <1>5, <2>3, <2>7 DEF Ready
  <1>6. ASSUME at' = "send", NEW l, NEW u, NEW e, Underway(l, u, e), e # <<>>,
               Lost, u \o e \in asked, EndsIn(Stream, l, u)
        PROVE  Ready'
    <2>1. l \in CommandLetters /\ u \in Seq(Digits) /\ e \in Seq(Digits) /\ cmd = e \o CrLf /\ buf = Latest(l, u)
      BY <1>6 DEF Underway
    <2>2. Head(e) \in Digits /\ Tail(e) \in Seq(Digits) /\ b = Head(e) /\ cmd' = Tail(e) \o CrLf /\ b = buf
      BY <1>3, <1>6, <2>1, RestFacts
    <2>3. u # <<>> /\ u[Len(u)] = Head(e)
      BY <2>1, <2>2, SymbolFacts DEF Latest
    <2>4. u \o Tail(e) \in Allowed
      <3>1. u \o Tail(e) \in Undoubled(u \o e)
        BY <1>6, <2>1, <2>3, Skips
      <3> QED BY <1>6, <3>1 DEF Allowed
    <2>5. l = "D"
      <3>1. l # "D" => e = <<>>
        BY <1>6 DEF Underway
      <3> QED BY <1>6, <3>1
    <2>6. faults' # 0
      BY <1>6 DEF Lost
    <2>7. Underway(l, u, Tail(e))'
      <3>1. buf' = Latest(l, u) /\ cmd' = Tail(e) \o CrLf
        BY <1>3, <1>6, <2>1, <2>2
      <3>2. u \o Tail(e) \in Allowed' /\ ~(faults' = 0)
        BY <1>1, <2>4, <2>6
      <3> QED BY <2>1, <2>2, <2>5, <3>1, <3>2 DEF Underway, Latest, CrLf
    <2> QED BY <1>1, <1>6, <2>7 DEF Ready
  <1>7. ASSUME at' = "send", cmd = CrLf PROVE Ready'
    <2>1. Tail(cmd) = <<"lf">>
      BY <1>7 DEF CrLf
    <2> QED BY <1>3, <1>7, <2>1 DEF Ready
  <1>8. ~(at' = "send" /\ cmd = <<"lf">>)
    BY <1>3
  <1> QED BY <1>2, <1>4, <1>5, <1>6, <1>7, <1>8 DEF Waiting

LEMMA EchoOnce ==
  ASSUME Control, OneFault, Line(Echo) \/ Line(NoEcho)
  PROVE  OneFault'
  <1>1. /\ at = "echo" /\ UNCHANGED <<wire, input, pending, applied>>
        /\ UNCHANGED <<rest, asked, before>> /\ Allowed' = Allowed
        /\ faults' = 0 => faults = 0
    <2>1. UNCHANGED <<rest, asked, before>> /\ Allowed' = Allowed
      BY LineKeeps DEF Line
    <2>2. at = "echo" /\ UNCHANGED <<wire, input, pending, applied>>
      BY DEF Line, Echo, NoEcho, supply
    <2>3. faults \in Nat /\ faults' \in {faults, faults + 1}
      BY DEF Line, Echo, NoEcho, OutOfTime, Control
    <2> QED BY <2>1, <2>2, <2>3
  <1>2. \E b : Compare(b) /\ (~Lost \/ b = buf)
    <2>1. CASE Line(Echo)
      BY <2>1 DEF Line, Echo, Lost
    <2>2. CASE Line(NoEcho)
      BY <2>2 DEF Line, NoEcho
    <2> QED BY <2>1, <2>2
  <1>3. at' # "echo" /\ (at' = "send" => Ready')
    BY <1>1, <1>2, CompareOnce DEF OneFault
  <1>4. Lines'
    BY <1>1 DEF OneFault, Lines, Stream
  <1> QED BY <1>1, <1>3, <1>4 DEF OneFault

\* The program stands where it stood, with what is on its way to the supply.
LEMMA StandsOnce ==
  ASSUME OneFault, UNCHANGED <<at, cmd, buf, faults, asked, before, rest>>, ~Lost, Lines',
         \A l \in CommandLetters, u \in Seq(Digits) : EndsIn(Stream, l, u) => EndsIn(Stream', l, u)
  PROVE  OneFault'
  <1>1. Allowed' = Allowed
    BY DEF Allowed
  <1>2. ASSUME NEW l, NEW e, Fresh(l, e) PROVE Fresh(l, e)' /\ l \in CommandLetters
    BY <1>2 DEF Fresh, Whole, CrLf
  <1>3. ASSUME NEW l, NEW u, NEW e, Underway(l, u, e)
        PROVE  /\ Underway(l, u, e)' /\ l \in CommandLetters /\ u \in Seq(Digits)
               /\ e # <<>> => Append(u, Head(e)) \in Seq(Digits)
    <2>1. Underway(l, u, e)' /\ l \in CommandLetters /\ u \in Seq(Digits) /\ e \in Seq(Digits)
      BY <1>1, <1>3 DEF Underway, Latest, CrLf
    <2> QED BY <2>1, RestFacts, AppendProperties
  <1>4. Ready => Ready'
    <2>1. ASSUME NEW l, NEW u, NEW e, Underway(l, u, e), EndsIn(Stream, l, u) PROVE Ready'
      <3>1. Underway(l, u, e)' /\ EndsIn(Stream', l, u)
        BY <1>3, <2>1
      <3> QED BY <3>1 DEF Ready
    <2>2. ASSUME NEW l, NEW e, Fresh(l, e) PROVE Ready'
      BY <1>2, <2>2 DEF Ready
    <2>3. cmd = <<"lf">> => Ready'
      BY DEF Ready
    <2> QED BY <2>1, <2>2, <2>3 DEF Ready
  <1>5. Waiting => Waiting'
    <2>1. ASSUME NEW l, NEW u, NEW e, Underway(l, u, e), e # <<>>, EndsIn(Stream, l, Append(u, Head(e)))
          PROVE  Waiting'
      <3>1. Underway(l, u, e)' /\ EndsIn(Stream', l, Append(u, Head(e)))
        BY <1>3, <2>1
      <3> QED BY <2>1, <3>1 DEF Waiting
    <2>2. ASSUME NEW l, NEW e, Fresh(l, e), EndsIn(Stream, l, <<>>) PROVE Waiting'
      <3>1. Fresh(l, e)' /\ EndsIn(Stream', l, <<>>)
        BY <1>2, <2>2, EmptySeq
      <3> QED BY <3>1 DEF Waiting
    <2>3. cmd \in {CrLf, <<"lf">>} => Waiting'
      BY DEF Waiting, CrLf
    <2> QED BY <2>1, <2>2, <2>3 DEF Waiting
  <1> QED BY <1>4, <1>5 DEF OneFault

LEMMA AnswerOnce ==
  ASSUME OneFault, Line(Answer)
  PROVE  OneFault'
  <1>1. /\ reply # <<>> /\ UNCHANGED <<at, cmd, buf, faults, wire, input, pending, applied>>
        /\ UNCHANGED <<rest, asked, before>> /\ Allowed' = Allowed
    BY LineKeeps DEF Line, Answer, exchange
  <1>2. ~Lost
    BY <1>1 DEF Lost
  <1>3. Stream' = Stream
    BY <1>1 DEF Stream
  <1>4. Lines'
    BY <1>1, <1>3 DEF OneFault, Lines
  <1> QED BY <1>1, <1>2, <1>3, <1>4, StandsOnce

\* Of a line taken, only a voltage that the stream sets is given to the supply.
LEMMA ObeyOnce ==
  ASSUME Lines, input # <<>>, Last(input) = "cr", NEW s, Obey(Front(input), s)
  PROVE  {pending', applied'} \subseteq Allowed
  <1> DEFINE t == Front(input)
             n == Len(input)
  <1>1. input \in Seq(Symbols) /\ n \in Nat \ {0} /\ input[n] = "cr"
    BY EmptySeq DEF Lines, Last
  <1>2. t \in Seq(Symbols) /\ Len(t) = n - 1 /\ \A i \in 1 .. n - 1 : t[i] = input[i]
    <2>1. \A i \in 1 .. n - 1 : input[i] \in Symbols
      <3>1. \A i \in 1 .. n - 1 : i \in 1 .. n
        BY <1>1
      <3> QED BY <1>1, <3>1, ElementOfSeq
    <2>2. PICK w : w = SubSeq(input, 1, n - 1)
      OBVIOUS
    <2>3. /\ w \in Seq(Symbols) /\ Len(w) = IF 1 <= n - 1 THEN (n - 1) - 1 + 1 ELSE 0
          /\ \A i \in 1 .. (n - 1) - 1 + 1 : w[i] = input[1 + i - 1]
      BY <1>1, <2>1, <2>2, SubSeqProperties
    <2>4. w = t
      BY <2>2 DEF Front
    <2>5. Len(w) = n - 1 /\ \A i \in 1 .. n - 1 : w[i] = input[i]
      <3>1. \A i \in 1 .. n - 1 : i \in 1 .. (n - 1) - 1 + 1 /\ 1 + i - 1 = i
        BY <1>1
      <3>2. (IF 1 <= n - 1 THEN (n - 1) - 1 + 1 ELSE 0) = n - 1
        BY <1>1
      <3> QED BY <2>3, <3>1, <3>2
    <2> QED BY <2>3, <2>4, <2>5
  <1> DEFINE set == Len(t) > 1 /\ t[1] = "D" /\ \A i \in 2 .. Len(t) : t[i] \in Digits
  <1>3. \/ pending' = pending /\ applied' \in {pending, applied}
        \/ set /\ pending' = Tail(t) /\ applied' = applied
    BY Zenon DEF Obey
  <1>4. ASSUME set PROVE Tail(t) \in Allowed
    <2>1. PICK d : d = Tail(t)
      OBVIOUS
    <2>2. t # <<>>
      BY <1>2, <1>4
    <2>3. d \in Seq(Symbols) /\ Len(d) = n - 2 /\ \A i \in 1 .. n - 2 : d[i] = t[i + 1]
      BY <1>1, <1>2, <2>1, <2>2, HeadTailProperties
    <2>4. n > 2
      BY <1>1, <1>2, <1>4
    <2>5. \A i \in 1 .. n - 2 : i + 1 \in 2 .. Len(t) /\ i + 1 \in 1 .. n - 1 /\ 1 + i = i + 1
      BY <1>1, <1>2
    <2>6. \A i \in 1 .. Len(d) : d[i] \in Digits /\ input[1 + i] = d[i]
      BY <1>2, <1>4, <2>3, <2>5
    <2>7. d \in Seq(Digits)
      <3>1. Len(d) \in Nat /\ d = [i \in 1 .. Len(d) |-> d[i]]
        BY <2>3, LenProperties
      <3>2. [i \in 1 .. Len(d) |-> d[i]] \in Seq(Digits)
        BY <2>6, <3>1, IsASeq
      <3> QED BY <3>1, <3>2
    <2>8. d # <<>>
      BY <1>1, <2>3, <2>4, EmptySeq
    <2>9. Sets(input, 1, d) /\ n = Len(d) + 2
      <3>1. 1 + Len(d) + 1 = n /\ 1 \in 1 .. n - 1
        BY <1>1, <2>3, <2>4
      <3> QED BY <1>1, <1>2, <1>4, <2>6, <3>1 DEF Sets
    <2>10. Harmless(input \o Letters(wire), Allowed) /\ Letters(wire) \in Seq(Symbols)
      BY StreamFacts DEF Lines, Stream
    <2> QED BY <1>1, <2>1, <2>7, <2>8, <2>9, <2>10, HarmlessLine
  <1>5. {pending, applied} \subseteq Allowed
    BY DEF Lines
  <1> QED BY <1>3, <1>4, <1>5

LEMMA TakeOnce ==
  ASSUME OneFault, Line(Take)
  PROVE  OneFault'
  <1>1. /\ wire # <<>> /\ wire' = Tail(wire) /\ UNCHANGED <<at, cmd, buf, faults>>
        /\ UNCHANGED <<rest, asked, before>> /\ Allowed' = Allowed
    BY LineKeeps DEF Line, Take, exchange
  <1>2. ~Lost
    BY <1>1 DEF Lost
  <1>3. Lines
    BY DEF OneFault
  <1>4. PICK q, p, h : q = input /\ p = Letters(wire) /\ h = Head(wire).c
    OBVIOUS
  <1>5. /\ q \in Seq(Symbols) /\ p \in Seq(Symbols) /\ p # <<>> /\ Head(p) = h
        /\ wire' \in Seq(Wired) /\ Letters(wire') = Tail(p)
    BY <1>1, <1>3, <1>4, LettersTail, StreamFacts DEF Lines
  <1>6. Append(q, h) \o Tail(p) = q \o p /\ Append(q, h) \in Seq(Symbols) /\ Tail(p) \in Seq(Symbols) /\ Append(q, h) # <<>>
    <2>1. q \in Seq(Symbols) /\ p \in Seq(Symbols) /\ p # <<>>
      BY <1>5
    <2>2. /\ Append(q, Head(p)) \o Tail(p) = q \o p
          /\ Append(q, Head(p)) \in Seq(Symbols) /\ Tail(p) \in Seq(Symbols) /\ Append(q, Head(p)) # <<>>
      BY <2>1, Arrives, Zenon
    <2> QED BY <1>5, <2>2
  <1>7. Stream = q \o p /\ Stream' = input' \o Tail(p)
    BY <1>4, <1>5 DEF Stream
  <1>8. CASE h = "lf" /\ input # <<>> /\ Last(input) = "cr"
    <2>1. input' = <<>> /\ \E s \in Status : Obey(Front(input), s)
      BY <1>4, <1>8 DEF Line, Take
    <2>2. {pending', applied'} \subseteq Allowed
      BY <1>3, <1>8, <2>1, ObeyOnce
    <2>3. Stream' = Tail(p)
      BY <1>6, <1>7, <2>1, ConcatEmptySeq
    <2>4. PICK a : a = Append(q, h)
      OBVIOUS
    <2>5. a \in Seq(Symbols) /\ a # <<>> /\ a[Len(a)] = "lf" /\ a \o Tail(p) = Stream
      <3>1. h \in Symbols
        BY <1>8, SymbolFacts
      <3>2. Len(a) = Len(q) + 1 /\ a[Len(q) + 1] = h
        BY <1>5, <2>4, <3>1, AppendProperties
      <3> QED BY <1>6, <1>7, <1>8, <2>4, <3>2
    <2>6. Harmless(Tail(p), Allowed)
      BY <1>3, <1>6, <2>5, HarmlessRest DEF Lines
    <2>7. \A l \in CommandLetters, u \in Seq(Digits) : EndsIn(Stream, l, u) => EndsIn(Stream', l, u)
      BY <1>6, <2>3, <2>5, EndsInRest
    <2>8. Lines'
      BY <1>1, <1>5, <2>1, <2>2, <2>3, <2>6, EmptySeq DEF Lines
    <2> QED BY <1>1, <1>2, <2>7, <2>8, StandsOnce
  <1>9. CASE ~(h = "lf" /\ input # <<>> /\ Last(input) = "cr")
    <2>1. input' = Append(input, h) /\ UNCHANGED <<pending, applied>>
      BY <1>4, <1>9 DEF Line, Take
    <2>2. Stream' = Stream
      BY <1>4, <1>6, <1>7, <2>1
    <2>3. Lines'
      BY <1>1, <1>3, <1>4, <1>5, <1>6, <2>1, <2>2 DEF Lines
    <2> QED BY <1>1, <1>2, <2>2, <2>3, StandsOnce
  <1> QED BY <1>8, <1>9

\* The first fault is a byte lost: it was the only one on its way.
LEMMA LoseOnce ==
  ASSUME Control, Tidy, OneFault, faults = 0, Line(Lose)
  PROVE  OneFault'
  <1>1. /\ wire # <<>> /\ wire' = Tail(wire) /\ faults' = 1
        /\ UNCHANGED <<at, cmd, buf, line, input, reply, pending, applied>>
        /\ UNCHANGED <<rest, asked, before>> /\ Allowed' = Allowed
    BY LineKeeps DEF Line, Lose, exchange, supply
  <1>2. at # "out"
    BY <1>1 DEF Tidy, Silent
  <1>3. PICK t \in Texts : Exchanging(t)
    BY <1>2 DEF Tidy
  <1> DEFINE byte == [c |-> Head(cmd), x |-> x]
  <1>4. at = "echo" /\ wire = <<byte>> /\ line = <<>> /\ reply = <<>> /\ cmd \in Seq(Symbols) /\ cmd # <<>>
    BY <1>1, <1>3 DEF Exchanging, Sending, Answering
  <1>5. Lost' /\ wire' = <<>>
    BY <1>1, <1>4 DEF Lost
  <1>6. Lines /\ Waiting /\ input \in Seq(Symbols) /\ Head(cmd) \in Symbols
    BY <1>4, HeadTailProperties DEF OneFault, Lines
  <1>7. Letters(wire) = <<Head(cmd)>> /\ Letters(<<>>) = <<>> /\ <<>> \in Seq(Wired)
    <2>1. \A h : Letters(<<[c |-> h, x |-> x]>>) = <<h>>
      BY DEF Letters
    <2>2. Letters(<<>>) = <<>>
      BY DEF Letters
    <2> QED BY <1>4, <2>1, <2>2, EmptySeq
  <1>8. Stream = Append(input, Head(cmd))
    <2>1. Append(input, Head(cmd)) = input \o <<Head(cmd)>>
      BY <1>6, AppendIsConcat
    <2> QED BY <1>7, <2>1 DEF Stream
  <1>9. Stream' = input
    BY <1>1, <1>5, <1>6, <1>7, ConcatEmptySeq DEF Stream
  <1>10. Lines'
    <2>1. Harmless(input, Allowed)
      BY <1>6, <1>8, HarmlessFront DEF Lines
    <2> QED BY <1>1, <1>5, <1>6, <1>7, <1>9, <2>1 DEF Lines
  <1>11. ASSUME NEW l, NEW e, Fresh(l, e) PROVE Waiting'
    <2>1. Fresh(l, e)'
      BY <1>1, <1>11 DEF Fresh, Whole, CrLf
    <2> QED BY <1>5, <2>1 DEF Waiting
  <1>12. ASSUME NEW l, NEW u, NEW e, Underway(l, u, e), e # <<>>, EndsIn(Stream, l, Append(u, Head(e)))
         PROVE  Waiting'
    <2>1. u \in Seq(Digits) /\ e \in Seq(Digits) /\ Head(e) \in Digits /\ u \o e \in asked
      BY <1>12, RestFacts DEF Underway
    <2>2. EndsIn(input, l, u)
      BY <1>6, <1>8, <1>12, <2>1, EndsInFront
    <2>3. Underway(l, u, e)'
      BY <1>1, <1>12 DEF Underway, Latest, CrLf
    <2>4. u \o e \in asked' /\ EndsIn(Stream', l, u)
      BY <1>1, <1>9, <2>1, <2>2
    <2> QED BY <1>5, <1>12, <2>3, <2>4 DEF Waiting
  <1>13. ASSUME cmd \in {CrLf, <<"lf">>} PROVE Waiting'
    BY <1>1, <1>13 DEF Waiting, CrLf
  <1>14. Waiting'
    <2>1. ~Lost
      BY <1>1 DEF Lost
    <2> QED BY <1>6, <1>11, <1>12, <1>13, <2>1 DEF Waiting
  <1> QED BY <1>1, <1>4, <1>10, <1>14 DEF OneFault

\* A call sends a command, whatever is left on the line.
LEMMA SendsOnce ==
  ASSUME OneFault, NEW l \in CommandLetters, NEW e \in Seq(Digits), WriteCommandAndReadAnswer(Whole(l, e)),
         asked \subseteq asked', asked' \subseteq Voltages, before' = before, rest' \in {<<>>, <<G1>>, <<U1>>},
         IF l = "D" THEN e \in asked' ELSE e = <<>>
  PROVE  OneFault'
  <1>1. /\ at' = "send" /\ cmd' = Whole(l, e) /\ buf' = "none"
        /\ UNCHANGED <<wire, input, pending, applied>>
    BY DEF WriteCommandAndReadAnswer, supply
  <1>2. Allowed \subseteq Allowed' /\ Stream' = Stream
    BY <1>1 DEF Allowed, Stream
  <1>3. Lines'
    BY <1>1, <1>2 DEF OneFault, Lines, Harmless
  <1>4. Fresh(l, e)'
    BY <1>1 DEF Fresh, Whole, CrLf
  <1>5. Ready'
    BY <1>4 DEF Ready
  <1> QED BY <1>1, <1>3, <1>5 DEF OneFault, G1, U1

LEMMA SendsLetterOnce ==
  ASSUME OneFault, NEW c \in {S1, G1, U1}, WriteCommandAndReadAnswer(c),
         UNCHANGED <<asked, before>>, rest' \in {<<>>, <<G1>>, <<U1>>}
  PROVE  OneFault'
  <1>1. PICK l : l \in {"S", "G", "U"} /\ c = Whole(l, <<>>)
    BY WholeCommands
  <1>2. l \in CommandLetters /\ l # "D" /\ <<>> \in Seq(Digits)
    BY <1>1, EmptySeq DEF CommandLetters
  <1>3. WriteCommandAndReadAnswer(Whole(l, <<>>)) /\ asked' \subseteq Voltages /\ asked \subseteq asked'
    BY <1>1 DEF OneFault
  <1> QED BY <1>2, <1>3, SendsOnce

\* A step that sends nothing.
LEMMA StopsOnce ==
  ASSUME OneFault, at' \notin {"send", "echo"}, UNCHANGED <<wire, input, pending, applied, rest, asked, before>>
  PROVE  OneFault'
  <1>1. Allowed' = Allowed /\ Stream' = Stream
    BY DEF Allowed, Stream
  <1>2. Lines'
    BY <1>1 DEF OneFault, Lines
  <1> QED BY <1>2 DEF OneFault

LEMMA SetOnce ==
  ASSUME OneFault, NEW v \in Voltages, NEW n, Set(v, n), before' = before
  PROVE  OneFault'
  <1>1. asked' = asked \cup {v} /\ rest' = <<G1>> /\ WriteCommandAndReadAnswer(D1(v))
    BY DEF Set, Start
  <1>2. v \in Seq(Digits) /\ "D" \in CommandLetters
    BY VoltageAssumption DEF CommandLetters
  <1>3. WriteCommandAndReadAnswer(Whole("D", v)) /\ v \in asked'
    BY <1>1, <1>2, WholeCommands
  <1>4. asked \subseteq asked' /\ asked' \subseteq Voltages /\ rest' \in {<<>>, <<G1>>, <<U1>>}
    BY <1>1 DEF OneFault
  <1> QED BY <1>2, <1>3, <1>4, SendsOnce

LEMMA CallOnce ==
  ASSUME Control, OneFault, Calls
  PROVE  OneFault'
  <1>1. CASE Construct
    <2>1. UNCHANGED <<asked, before>> /\ call = "new" /\ at = "out"
      BY <1>1 DEF Construct, Control
    <2>2. CASE Start("ctor", S1, <<>>)
      BY <2>1, <2>2, SendsLetterOnce DEF Start
    <2>3. CASE UNCHANGED <<serial, rest>>
      BY <2>1, <2>3, StopsOnce DEF serial, exchange, supply
    <2> QED BY <1>1, <2>2, <2>3 DEF Construct
  <1>2. CASE Destroy
    <2>1. before' = before /\ call = "idle" /\ at = "out"
      BY <1>2 DEF Destroy, Control
    <2>2. CASE iseg_connected /\ hv_on
      BY <1>2, <2>1, <2>2, VoltageAssumption, SetOnce DEF Destroy
    <2>3. CASE ~(iseg_connected /\ hv_on)
      <3>1. UNCHANGED <<serial, rest, asked>>
        BY <1>2, <2>3 DEF Destroy
      <3> QED BY <2>1, <3>1, StopsOnce DEF serial, exchange, supply
    <2> QED BY <2>2, <2>3
  <1>3. ASSUME NEW v \in Voltages, SetVoltage(v) PROVE OneFault'
    <2>1. before' = before /\ call = "idle" /\ at = "out"
      BY <1>3 DEF SetVoltage, Control
    <2>2. CASE hv_on
      BY <1>3, <2>1, <2>2, SetOnce DEF SetVoltage
    <2>3. CASE ~hv_on
      <3>1. UNCHANGED <<serial, rest, asked>>
        BY <1>3, <2>3 DEF SetVoltage
      <3> QED BY <2>1, <3>1, StopsOnce DEF serial, exchange, supply
    <2> QED BY <2>2, <2>3
  <1>4. CASE Ask(U1, <<>>) \/ Ask(S1, <<U1>>)
    <2>1. UNCHANGED <<asked, before>>
      BY <1>4 DEF Ask
    <2>2. \E c \in {S1, U1} : WriteCommandAndReadAnswer(c)
      BY <1>4 DEF Ask, Start
    <2>3. rest' \in {<<>>, <<U1>>}
      BY <1>4 DEF Ask, Start
    <2> QED BY <2>1, <2>2, <2>3, SendsLetterOnce
  <1> QED BY <1>1, <1>2, <1>3, <1>4 DEF Calls

LEMMA EndOnce ==
  ASSUME OneFault, Ends
  PROVE  OneFault'
  <1>1. CASE TryAgain
    <2>1. WriteCommandAndReadAnswer(S1) /\ UNCHANGED <<asked, before, rest>>
      BY <1>1 DEF TryAgain, marks
    <2> QED BY <2>1, SendsLetterOnce DEF OneFault
  <1>2. CASE Next1
    <2>1. rest # <<>> /\ WriteCommandAndReadAnswer(Head(rest)) /\ rest' = Tail(rest) /\ UNCHANGED <<asked, before>>
      BY <1>2 DEF Next1, marks
    <2>2. rest \in {<<G1>>, <<U1>>}
      BY <2>1 DEF OneFault
    <2>3. \A c : Head(<<c>>) = c /\ Tail(<<c>>) = <<>>
      OBVIOUS
    <2>4. Head(rest) \in {S1, G1, U1} /\ rest' = <<>>
      BY <2>1, <2>2, <2>3
    <2> QED BY <2>1, <2>4, SendsLetterOnce
  <1>3. CASE EndConstructor \/ EndSetVoltage
    <2>1. at' = "out" /\ UNCHANGED <<wire, input, pending, applied, rest, asked, before>>
      BY <1>3 DEF EndConstructor, EndSetVoltage, supply
    <2> QED BY <2>1, StopsOnce
  <1>4. CASE EndAsk
    <2>1. at' = "out" /\ UNCHANGED <<wire, input, pending, applied, rest, asked, before>>
      BY <1>4 DEF EndAsk, supply, marks
    <2> QED BY <2>1, StopsOnce
  <1> QED BY <1>1, <1>2, <1>3, <1>4 DEF Ends

LEMMA ReadOnce ==
  ASSUME OneFault, Line(ReadAnswer) \/ Line(NoAnswer)
  PROVE  OneFault'
  <1>1. at' \in {"read", "end"} /\ UNCHANGED <<wire, input, pending, applied>>
    BY DEF Line, ReadAnswer, NoAnswer, supply
  <1>2. UNCHANGED <<rest, asked, before>>
    BY LineKeeps DEF Line
  <1> QED BY <1>1, <1>2, StopsOnce

\* With the control of the program, and as long as at most one fault has occurred.
OneFaultInv == IsegInv /\ (faults <= 1 => OneFault)

LEMMA OneFaultInit ==
  ASSUME Init
  PROVE  OneFaultInv
  <1>1. /\ at = "out" /\ wire = <<>> /\ input = <<>> /\ rest = <<>> /\ asked = {}
        /\ pending = before /\ applied = before
    BY DEF Init, SerialInit
  <1>2. Letters(<<>>) = <<>>
    BY DEF Letters
  <1>3. Stream = <<>> /\ <<>> \in Seq(Symbols) /\ <<>> \in Seq(Wired)
    <2>1. <<>> \in Seq(Symbols) /\ <<>> \in Seq(Wired)
      BY EmptySeq
    <2> QED BY <1>1, <1>2, <2>1, ConcatEmptySeq DEF Stream
  <1>4. Harmless(<<>>, Allowed)
    BY DEF Harmless
  <1>5. Lines
    BY <1>1, <1>3, <1>4 DEF Lines, Allowed
  <1> QED BY <1>1, <1>5, InitInv DEF OneFaultInv, OneFault

LEMMA OneFaultNext ==
  ASSUME OneFaultInv, [Next]_vars
  PROVE  OneFaultInv'
  <1>1. IsegInv /\ Control /\ IsegInv' /\ faults \in Nat
    BY NextInv DEF OneFaultInv, IsegInv, Control
  <1>2. CASE UNCHANGED vars
    <2>1. UNCHANGED <<at, cmd, buf, wire, line, input, reply, pending, applied, faults, rest, asked, before>>
      BY <1>2 DEF vars, serial, exchange, supply, marks
    <2>2. Allowed' = Allowed /\ Stream' = Stream
      BY <2>1 DEF Allowed, Stream
    <2>3. Lines => Lines'
      BY <2>1, <2>2 DEF Lines
    <2>4. ASSUME NEW l, NEW e, Fresh(l, e) PROVE Fresh(l, e)'
      BY <2>1, <2>4 DEF Fresh, Whole, CrLf
    <2>5. ASSUME NEW l, NEW u, NEW e, Underway(l, u, e) PROVE Underway(l, u, e)'
      BY <2>1, <2>2, <2>5 DEF Underway, Latest, CrLf
    <2>6. Ready => Ready'
      BY <2>1, <2>2, <2>4, <2>5, Zenon DEF Ready
    <2>7. Lost' = Lost
      BY <2>1 DEF Lost
    <2>8. Waiting => Waiting'
      BY <2>1, <2>2, <2>4, <2>5, <2>7, Zenon DEF Waiting, CrLf
    <2> QED BY <1>1, <2>1, <2>3, <2>6, <2>8 DEF OneFaultInv, OneFault
  <1>3. CASE Calls
    BY <1>1, <1>3, CallControl, CallOnce DEF OneFaultInv
  <1>4. CASE Ends
    BY <1>1, <1>4, EndControl, EndOnce DEF OneFaultInv
  <1>5. CASE Line(SerialStep) \/ Line(SupplyStep)
    <2>1. faults' <= 1 => OneFault
      <3>1. faults' \in Nat /\ faults' >= faults
        BY <1>1, <1>5, LineControl DEF Control
      <3> QED BY <1>1, <3>1 DEF OneFaultInv
    <2>2. \/ Line(SendByte) \/ Line(Echo) \/ Line(NoEcho) \/ Line(ReadAnswer) \/ Line(NoAnswer)
          \/ Line(Take) \/ Line(Answer)
      BY <1>5 DEF Line, SerialStep, SupplyStep
    <2>3. OneFault => OneFault'
      BY <1>1, <2>2, SendByteOnce, EchoOnce, ReadOnce, TakeOnce, AnswerOnce
    <2> QED BY <1>1, <2>1, <2>3 DEF OneFaultInv
  <1>6. CASE Line(Lose)
    <2>1. faults' = faults + 1
      BY <1>6 DEF Line, Lose
    <2>2. ASSUME faults' <= 1 PROVE OneFault'
      <3>1. faults = 0
        BY <1>1, <2>1, <2>2
      <3>2. Tidy /\ OneFault
        BY <1>1, <3>1 DEF IsegInv, OneFaultInv
      <3> QED BY <1>1, <1>6, <3>1, <3>2, LoseOnce
    <2> QED BY <1>1, <2>2 DEF OneFaultInv
  <1> QED BY <1>2, <1>3, <1>4, <1>5, <1>6 DEF Next

\* With one byte lost or one time-out too early, however many calls are made, the supply applies no
\* voltage but those asked for and the one the program found, or one of them that lacks a digit
\* beside its like.
THEOREM VoltageIsHarmless == Spec => []NoWrongVoltage
  <1>1. OneFaultInv => NoWrongVoltage
    BY DEF OneFaultInv, OneFault, Lines, Allowed, NoWrongVoltage
  <1>2. Spec => []OneFaultInv
    BY OneFaultInit, OneFaultNext, PTL DEF Spec
  <1> QED BY <1>1, <1>2, PTL
=============================================================================
