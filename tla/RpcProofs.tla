----------------------------- MODULE RpcProofs ------------------------------
(***************************************************************************)
(* Theorems about the remote procedure calls (module Rpc), for any         *)
(* functions, call id tables, data, sizes and bounds: the replies read are *)
(* those to the requests sent, and the stubs implement RpcService.         *)
(***************************************************************************)
EXTENDS Rpc, SequenceTheorems, FiniteSetTheorems, TLAPS

(* Numbers in bytes *)

LEMMA BaseFacts ==
  /\ Base \in Nat /\ Base > 1
  /\ Base * Base \in Nat /\ Base * Base > 0
  /\ Base * Base * Base \in Nat /\ Base * Base * Base > 0
  <1>1. Base \in Nat /\ Base > 1
    BY SizeAssumption
  <1>2. Base * Base \in Nat /\ Base * Base > 0
    BY <1>1
  <1>3. \A a \in Nat : a > 0 => a * Base \in Nat /\ a * Base > 0
    BY <1>1
  <1> QED BY <1>1, <1>2, <1>3

LEMMA WeightFacts ==
  /\ Weight[1] = 1 /\ Weight[2] = Base /\ Weight[3] = Base * Base
  /\ Weight[4] = Base * Base * Base
  /\ \A i \in 1 .. 4 : Weight[i] \in Nat /\ Weight[i] > 0
  <1>1. /\ Weight[1] = 1 /\ Weight[2] = Base /\ Weight[3] = Base * Base
        /\ Weight[4] = Base * Base * Base
    BY DEF Weight
  <1> QED BY <1>1, BaseFacts

LEMMA DivisionBy ==
  ASSUME NEW x \in Nat, NEW w \in Nat, w > 0
  PROVE  /\ x \div w \in Nat /\ x % w \in 0 .. w - 1
         /\ x = w * (x \div w) + (x % w)
  OBVIOUS

LEMMA Division ==
  ASSUME NEW x \in Nat
  PROVE  /\ x \div Base \in Nat /\ x % Base \in 0 .. Base - 1
         /\ x = Base * (x \div Base) + (x % Base)
  <1>1. Base \in Nat /\ Base > 0
    BY BaseFacts
  <1> QED BY <1>1, DivisionBy

\* A quotient is the number it must be.
LEMMA QuotientIs ==
  ASSUME NEW x \in Nat, NEW w \in Nat, w > 0, NEW q \in Nat, NEW r \in 0 .. w - 1, x = w * q + r
  PROVE  x \div w = q
  BY SMTT(30)

LEMMA QuotientOfQuotient ==
  ASSUME NEW x \in Nat, NEW w \in Nat, w > 0
  PROVE  x \div (w * Base) = (x \div w) \div Base
  <1> DEFINE q == x \div w
             r == x % w
             p == q \div Base
             s == q % Base
  <1>1. q \in Nat /\ r \in 0 .. w - 1 /\ x = w * q + r
    OBVIOUS
  <1> HIDE DEF q, r
  <1>2. p \in Nat /\ s \in 0 .. Base - 1 /\ q = Base * p + s
    <2>1. q \in Nat
      BY <1>1
    <2>2. q \div Base \in Nat /\ q % Base \in 0 .. Base - 1
          /\ q = Base * (q \div Base) + (q % Base)
      BY <2>1, Division
    <2> QED BY <2>2
  <1> HIDE DEF p, s
  <1>3. w * Base \in Nat /\ w * Base > 0
    BY BaseFacts
  <1>4. w * s \in Nat /\ w * s <= w * (Base - 1)
    BY <1>2, BaseFacts
  <1>5. w * (Base - 1) = w * Base - w
    BY BaseFacts
  <1>6. w * s + r \in 0 .. (w * Base) - 1
    BY <1>1, <1>3, <1>4, <1>5
  <1>7. w * q = (w * Base) * p + w * s
    BY <1>2, BaseFacts
  <1>8. x = (w * Base) * p + (w * s + r)
    BY <1>1, <1>2, <1>3, <1>4, <1>7
  <1>9. x \div (w * Base) = p
    BY <1>2, <1>3, <1>6, <1>8, QuotientIs
  <1> QED BY <1>9 DEF p, q

\* The bytes of a number below Base^n are the number.
LEMMA DigitsOf ==
  ASSUME NEW x \in Nat
  PROVE  LET d(i) == (x \div Weight[i]) % Base IN
         /\ x < Base => x = d(1)
         /\ x < Base * Base => x = d(1) + d(2) * Base
         /\ x < Base * Base * Base => x = d(1) + d(2) * Base + d(3) * (Base * Base)
         /\ x < Base * Base * Base * Base =>
              x = d(1) + d(2) * Base + d(3) * (Base * Base) + d(4) * (Base * Base * Base)
  <1> DEFINE d(i) == (x \div Weight[i]) % Base
             q1 == x \div Base
             q2 == q1 \div Base
             q3 == q2 \div Base
             q4 == q3 \div Base
             B2 == Base * Base
             B3 == B2 * Base
             B4 == B3 * Base
  <1>1. q1 \in Nat /\ x = Base * q1 + (x % Base)
    BY Division
  <1>2. q2 \in Nat /\ q1 = Base * q2 + (q1 % Base)
    BY <1>1, Division
  <1>3. q3 \in Nat /\ q2 = Base * q3 + (q2 % Base)
    BY <1>2, Division
  <1>4. q4 \in Nat /\ q3 = Base * q4 + (q3 % Base)
    BY <1>3, Division
  <1>5. x % Base \in 0 .. Base - 1 /\ q1 % Base \in 0 .. Base - 1
        /\ q2 % Base \in 0 .. Base - 1 /\ q3 % Base \in 0 .. Base - 1
    BY <1>1, <1>2, <1>3, Division
  <1>6. q2 = x \div B2 /\ q3 = x \div B3
    <2>0. \A w \in Nat : w > 0 => x \div (w * Base) = (x \div w) \div Base
      BY QuotientOfQuotient
    <2>1. Base \in Nat /\ Base > 0 /\ B2 \in Nat /\ B2 > 0
      BY BaseFacts
    <2>2. q2 = x \div B2
      BY <2>0, <2>1
    <2>3. x \div (B2 * Base) = (x \div B2) \div Base
      BY <2>0, <2>1
    <2> QED BY <2>2, <2>3
  <1>7. x \div 1 = x
    OBVIOUS
  <1>8. d(1) = x % Base /\ d(2) = q1 % Base /\ d(3) = q2 % Base /\ d(4) = q3 % Base
    BY <1>6, <1>7, WeightFacts
  <1> HIDE DEF d, q1, q2, q3, q4
  <1>9. B2 \in Nat /\ B3 \in Nat /\ Base \in Nat /\ Base > 1 /\ B2 > 0 /\ B3 > 0 /\ B4 \in Nat
    BY BaseFacts
  <1> DEFINE e1 == x % Base
             e2 == q1 % Base
             e3 == q2 % Base
             e4 == q3 % Base
  <1>14. e1 \in Nat /\ e2 \in Nat /\ e3 \in Nat /\ e4 \in Nat
    BY <1>5, <1>9
  <1>0. /\ x = Base * q1 + e1 /\ q1 = Base * q2 + e2
        /\ q2 = Base * q3 + e3 /\ q3 = Base * q4 + e4
    <2>1. x = Base * q1 + e1
      BY <1>1
    <2>2. q1 = Base * q2 + e2
      BY <1>2
    <2>3. q2 = Base * q3 + e3
      BY <1>3
    <2>4. q3 = Base * q4 + e4
      BY <1>4
    <2> QED BY <2>1, <2>2, <2>3, <2>4
  <1>21. d(1) = e1 /\ d(2) = e2 /\ d(3) = e3 /\ d(4) = e4
    BY <1>8
  <1> HIDE DEF e1, e2, e3, e4
  <1>d. \A a, c, p, r \in Nat : c = Base * p + r => a * c = (a * Base) * p + a * r
    BY BaseFacts
  <1>10. Base * q1 = B2 * q2 + Base * e2
    BY <1>0, <1>1, <1>2, <1>14, <1>9, <1>d
  <1>11. B2 * q2 = B3 * q3 + B2 * e3
    BY <1>0, <1>2, <1>3, <1>14, <1>9, <1>d
  <1>12. B3 * q3 = B4 * q4 + B3 * e4
    BY <1>0, <1>3, <1>4, <1>14, <1>9, <1>d
  <1>13. \A a, c \in Nat : a > 0 /\ a * c < a => c = 0
    OBVIOUS
  <1> HIDE DEF B2, B3, B4
  <1>15. Base * e2 \in Nat /\ B2 * e3 \in Nat /\ B3 * e4 \in Nat /\ Base * q1 \in Nat
         /\ B2 * q2 \in Nat /\ B3 * q3 \in Nat /\ B4 * q4 \in Nat
         /\ Base * e2 = e2 * Base /\ B2 * e3 = e3 * B2 /\ B3 * e4 = e4 * B3
    BY <1>1, <1>2, <1>3, <1>4, <1>9, <1>14
  <1>16. /\ x = Base * q1 + e1
         /\ Base * q1 = B2 * q2 + Base * e2
         /\ B2 * q2 = B3 * q3 + B2 * e3
         /\ B3 * q3 = B4 * q4 + B3 * e4
    BY <1>0, <1>10, <1>11, <1>12
  <1>17. x < Base => x = e1
    BY <1>1, <1>9, <1>13, <1>14, <1>15, <1>16
  <1>18. x < B2 => x = e1 + e2 * Base
    <2>1. x < B2 => B2 * q2 < B2
      BY <1>14, <1>15, <1>16, <1>9
    <2>2. x < B2 => q2 = 0
      BY <2>1, <1>2, <1>9, <1>13
    <2>3. B2 * 0 = 0
      BY <1>9
    <2> QED BY <2>2, <2>3, <1>14, <1>15, <1>16
  <1>19. x < B3 => x = e1 + e2 * Base + e3 * B2
    <2>1. x < B3 => B3 * q3 < B3
      BY <1>14, <1>15, <1>16, <1>9
    <2>2. x < B3 => q3 = 0
      BY <2>1, <1>3, <1>9, <1>13
    <2>3. B3 * 0 = 0
      BY <1>9
    <2> QED BY <2>2, <2>3, <1>14, <1>15, <1>16
  <1>20. x < B4 => x = e1 + e2 * Base + e3 * B2 + e4 * B3
    <2>1. x < B4 => B4 * q4 < B4
      BY <1>14, <1>15, <1>16, <1>9
    <2>2. B4 > 0
      BY <1>9, BaseFacts DEF B2, B3, B4
    <2>3. x < B4 => q4 = 0
      BY <2>1, <2>2, <1>4, <1>9, <1>13
    <2>4. B4 * 0 = 0
      BY <1>9
    <2> QED BY <2>3, <2>4, <1>14, <1>15, <1>16
  <1> QED BY <1>17, <1>18, <1>19, <1>20, <1>21 DEF B2, B3, B4, d

LEMMA DecodeIs ==
  ASSUME NEW n \in 1 .. 4, NEW x \in Nat, x < Weight[n] * Base,
         NEW s, Len(s) = n, \A i \in 1 .. n : s[i].v = Encode(x, n)[i]
  PROVE  Decode(s) = x
  <1> DEFINE d(i) == (x \div Weight[i]) % Base
  <1>1. \A i \in 1 .. n : s[i].v = d(i)
    BY DEF Encode
  <1>2. \A i \in 1 .. 4 : d(i) \in Nat
    <2> SUFFICES ASSUME NEW i \in 1 .. 4 PROVE d(i) \in Nat
      OBVIOUS
    <2>0. i \in 1 .. 4
      OBVIOUS
    <2>1. Weight[i] \in Nat /\ Weight[i] > 0
      BY <2>0, WeightFacts
    <2>2. x \div Weight[i] \in Nat
      BY <2>1, DivisionBy
    <2>3. \A y \in Nat : y % Base \in Nat
      BY Division, BaseFacts
    <2> QED BY <2>2, <2>3
  <1>3. /\ x < Base => x = d(1)
        /\ x < Base * Base => x = d(1) + d(2) * Base
        /\ x < Base * Base * Base => x = d(1) + d(2) * Base + d(3) * (Base * Base)
        /\ x < Base * Base * Base * Base =>
             x = d(1) + d(2) * Base + d(3) * (Base * Base) + d(4) * (Base * Base * Base)
    BY DigitsOf
  <1> HIDE DEF d
  <1>4. /\ Weight[1] = 1 /\ Weight[2] = Base /\ Weight[3] = Base * Base
        /\ Weight[4] = Base * Base * Base /\ Base \in Nat /\ Base * Base \in Nat
        /\ Base * Base * Base \in Nat
    BY WeightFacts, BaseFacts
  <1> DEFINE part(i) == IF i <= Len(s) THEN s[i].v * Weight[i] ELSE 0
  <1>5. Decode(s) = part(1) + part(2) + part(3) + part(4)
    BY DEF Decode
  <1>6. \A a \in Nat : a * 1 = a
    OBVIOUS
  <1>7. /\ part(1) = d(1)
        /\ part(2) = IF 2 <= n THEN d(2) * Base ELSE 0
        /\ part(3) = IF 3 <= n THEN d(3) * (Base * Base) ELSE 0
        /\ part(4) = IF 4 <= n THEN d(4) * (Base * Base * Base) ELSE 0
    <2>1. \A i \in 1 .. 4 : part(i) = IF i <= n THEN s[i].v * Weight[i] ELSE 0
      OBVIOUS
    <2> HIDE DEF part
    <2>2. /\ part(1) = IF 1 <= n THEN s[1].v * Weight[1] ELSE 0
          /\ part(2) = IF 2 <= n THEN s[2].v * Weight[2] ELSE 0
          /\ part(3) = IF 3 <= n THEN s[3].v * Weight[3] ELSE 0
          /\ part(4) = IF 4 <= n THEN s[4].v * Weight[4] ELSE 0
      BY <2>1
    <2>3. /\ 1 <= n /\ s[1].v = d(1) /\ d(1) * 1 = d(1)
          /\ 2 <= n => s[2].v = d(2)
          /\ 3 <= n => s[3].v = d(3)
          /\ 4 <= n => s[4].v = d(4)
      <3>1. /\ 2 <= n => 2 \in 1 .. n
            /\ 3 <= n => 3 \in 1 .. n
            /\ 4 <= n => 4 \in 1 .. n
            /\ 1 <= n /\ 1 \in 1 .. n
        OBVIOUS
      <3>2. d(1) \in Nat
        BY <1>2
      <3>3. d(1) * 1 = d(1)
        BY <1>6, <3>2
      <3> QED BY <1>1, <3>1, <3>3, Zenon
    <2>4. part(1) = d(1)
      BY <1>4, <2>2, <2>3, Zenon
    <2> QED BY <1>4, <2>2, <2>3, <2>4, Zenon
  <1>8. /\ d(1) \in Nat /\ d(2) * Base \in Nat /\ d(3) * (Base * Base) \in Nat
        /\ d(4) * (Base * Base * Base) \in Nat
    <2>1. \A a, b \in Nat : a * b \in Nat
      OBVIOUS
    <2>2. d(1) \in Nat /\ d(2) \in Nat /\ d(3) \in Nat /\ d(4) \in Nat
      BY <1>2
    <2> QED BY <1>4, <2>1, <2>2, Zenon
  <1>9. 1 * Base = Base
    BY <1>4
  <1> HIDE DEF part
  <1>10. CASE n = 1
    BY <1>3, <1>4, <1>5, <1>7, <1>8, <1>9, <1>10
  <1>11. CASE n = 2
    BY <1>3, <1>4, <1>5, <1>7, <1>8, <1>11
  <1>12. CASE n = 3
    BY <1>3, <1>4, <1>5, <1>7, <1>8, <1>12
  <1>13. CASE n = 4
    BY <1>3, <1>4, <1>5, <1>7, <1>8, <1>13
  <1> QED BY <1>10, <1>11, <1>12, <1>13

LEMMA DecodeNat ==
  ASSUME NEW s, Len(s) \in Nat, \A i \in 1 .. Len(s) : s[i].v \in Nat PROVE Decode(s) \in Nat
  <1> DEFINE part(i) == IF i <= Len(s) THEN s[i].v * Weight[i] ELSE 0
  <1>1. \A i \in 1 .. 4 : part(i) \in Nat
    <2> SUFFICES ASSUME NEW i \in 1 .. 4, i <= Len(s) PROVE s[i].v * Weight[i] \in Nat
      OBVIOUS
    <2>1. s[i].v \in Nat /\ Weight[i] \in Nat
      BY WeightFacts
    <2> QED BY <2>1
  <1>2. Decode(s) = part(1) + part(2) + part(3) + part(4)
    BY DEF Decode
  <1> HIDE DEF part
  <1> QED BY <1>1, <1>2

LEMMA DecodeBytes ==
  ASSUME NEW s \in Seq(Bytes)
  PROVE  Decode(s) \in Nat /\ \A i \in 1 .. Len(s) : s[i].v \in Nat
  <1>1. Len(s) \in Nat /\ \A i \in 1 .. Len(s) : s[i] \in Bytes
    OBVIOUS
  <1>2. \A i \in 1 .. Len(s) : s[i].v \in Nat
    BY <1>1 DEF Bytes
  <1> QED BY <1>1, <1>2, DecodeNat

LEMMA FirstValue ==
  ASSUME NEW s \in Seq(Bytes), Len(s) = 1 PROVE s[1].v \in Nat
  <1>1. 1 \in 1 .. Len(s)
    OBVIOUS
  <1> QED BY <1>1, DecodeBytes, Zenon

LEMMA EncodeFacts ==
  ASSUME NEW x \in Nat, NEW n \in 1 .. 4
  PROVE  /\ Encode(x, n) \in Seq(Nat) /\ Len(Encode(x, n)) = n
  <1>1. \A i \in 1 .. n : (x \div Weight[i]) % Base \in Nat
    <2> SUFFICES ASSUME NEW i \in 1 .. n PROVE (x \div Weight[i]) % Base \in Nat
      OBVIOUS
    <2>0. i \in 1 .. 4
      OBVIOUS
    <2>1. Weight[i] \in Nat /\ Weight[i] > 0
      BY <2>0, WeightFacts
    <2>2. x \div Weight[i] \in Nat
      BY <2>1, DivisionBy
    <2>3. \A y \in Nat : y % Base \in Nat
      BY Division, BaseFacts
    <2> QED BY <2>2, <2>3
  <1> QED BY <1>1 DEF Encode

-----------------------------------------------------------------------------
(* Replies *)

IsMessage(m, head, body, req) ==
  /\ m \in Seq(Bytes) /\ Len(m) = Len(head) + Len(body)
  /\ \A i \in 1 .. Len(m) : m[i].k = req
  /\ \A i \in 1 .. Len(head) : m[i].v = head[i]
  /\ \A i \in 1 .. Len(body) : m[Len(head) + i].v = body[i]

LEMMA MessageFacts ==
  ASSUME NEW head \in Seq(Nat), NEW body \in Seq(Nat), NEW req \in Nat
  PROVE  IsMessage(Message(head, body, req), head, body, req)
  <1> DEFINE h == [i \in 1 .. Len(head) |-> Byte(head[i], req, i = 1)]
             b == [i \in 1 .. Len(body) |-> Byte(body[i], req, FALSE)]
  <1>1. h \in Seq(Bytes) /\ Len(h) = Len(head) /\ \A i \in 1 .. Len(head) : h[i].v = head[i] /\ h[i].k = req
    BY DEF Byte, Bytes
  <1>2. b \in Seq(Bytes) /\ Len(b) = Len(body) /\ \A i \in 1 .. Len(body) : b[i].v = body[i] /\ b[i].k = req
    BY DEF Byte, Bytes
  <1> HIDE DEF h, b
  <1>3. /\ h \o b \in Seq(Bytes) /\ Len(h \o b) = Len(h) + Len(b)
        /\ \A i \in 1 .. Len(h) + Len(b) : (h \o b)[i] = IF i <= Len(h) THEN h[i] ELSE b[i - Len(h)]
    BY <1>1, <1>2, ConcatProperties
  <1>4. Len(h) \in Nat /\ Len(b) \in Nat
    BY <1>1, <1>2
  <1>5. Message(head, body, req) = h \o b
    BY DEF Message, h, b
  <1> DEFINE m == Message(head, body, req)
  <1>6. m \in Seq(Bytes) /\ Len(m) = Len(head) + Len(body)
    BY <1>1, <1>2, <1>3, <1>5
  <1>7. \A i \in 1 .. Len(m) : m[i] = IF i <= Len(h) THEN h[i] ELSE b[i - Len(h)]
    BY <1>1, <1>2, <1>3, <1>5
  <1> HIDE DEF m
  <1>8. \A i \in 1 .. Len(m) : m[i].k = req
    <2> SUFFICES ASSUME NEW i \in 1 .. Len(m) PROVE m[i].k = req
      OBVIOUS
    <2>1. CASE i <= Len(h)
      BY <1>1, <1>4, <1>7, <2>1
    <2>2. CASE i > Len(h)
      <3>1. i - Len(h) \in 1 .. Len(b)
        BY <1>1, <1>2, <1>4, <1>6, <2>2
      <3>2. m[i] = b[i - Len(h)]
        BY <1>4, <1>6, <1>7, <2>2
      <3> QED BY <3>1, <3>2, <1>1, <1>2
    <2> QED BY <2>1, <2>2, <1>4
  <1>9. \A i \in 1 .. Len(head) : m[i].v = head[i]
    <2> SUFFICES ASSUME NEW i \in 1 .. Len(head) PROVE m[i].v = head[i]
      OBVIOUS
    <2>1. i \in 1 .. Len(m) /\ i <= Len(h)
      BY <1>1, <1>2, <1>4, <1>6
    <2>2. m[i] = h[i]
      BY <1>7, <2>1
    <2> QED BY <1>1, <2>2
  <1>10. \A i \in 1 .. Len(body) : m[Len(head) + i].v = body[i]
    <2> SUFFICES ASSUME NEW i \in 1 .. Len(body) PROVE m[Len(head) + i].v = body[i]
      OBVIOUS
    <2>1. /\ Len(h) + i \in 1 .. Len(m) /\ ~(Len(h) + i <= Len(h)) /\ (Len(h) + i) - Len(h) = i
          /\ b[i].v = body[i]
      BY <1>1, <1>2, <1>4, <1>6
    <2> QED BY <2>1, <1>1, <1>7
  <1> QED BY <1>6, <1>8, <1>9, <1>10 DEF m, IsMessage

-----------------------------------------------------------------------------
(* The invariant.  While nothing went wrong on the line, the program, what it  *)
(* has sent and what is on its way back are in step: every reply byte within   *)
(* reach belongs to the running call, from the byte on that it reads next.     *)

(* Requests *)
Silent(m) == m.fn \in Fn /\ Kind[m.fn] = "void"
Known(m)  == \/ m.fn = GetRpcCallId /\ m.id = 1 /\ m.arg \in Fn
             \/ m.fn \in Fn /\ m.id = devId[m.fn]

AllSilent(q) == \A i \in 1 .. Len(q) : Silent(q[i])
AllKnown(q)  == \A i \in 1 .. Len(q) : Known(q[i])

QueueInv ==
  /\ AllSilent(outQ)
  /\ ~suspect => AllKnown(devQ) /\ AllKnown(outQ)
  /\ exec \in Seq([fn : Fn, meant : Nat])

\* Where the program can be, whatever the line does.
ControlInv ==
  /\ stage = "idle" => outer = 0
  /\ stage # "idle" => /\ connected /\ outQ = <<>>
                       /\ IF fn = GetRpcCallId THEN outer \in Fn
                          ELSE fn \in Fn /\ outer = 0 /\ Kind[fn] # "void" /\ cache[fn] >= 0
  /\ stage = "gotId" => fn = GetRpcCallId
  /\ stage \in {"dtype", "dsize", "string", "vector"} => fn \in Fn /\ HasData(fn)
  /\ Reading => rest > 0
  /\ stage \in {"type", "size", "dtype", "xsize"} => rest = 1
  /\ stage \in {"cmd", "xcmd"} => rest = 2
  /\ stage \in {"xdata", "xold", "dsize"} => rest = 3

LinkInv ==
  /\ linking => connected
  /\ ~linking => link = <<>>
  /\ linking /\ stage # "idle" => link # <<>> /\ outer = Head(link) /\ fn = GetRpcCallId
  /\ \A i, j \in 1 .. Len(link) : link[i] = link[j] => i = j
  /\ linking /\ InStep =>
       (missing <=> \E f \in Fn : devId[f] = -1 /\ \A i \in 1 .. Len(link) : link[i] # f)

Sent == [id |-> Id(fn), arg |-> IF fn = GetRpcCallId THEN outer ELSE 0, fn |-> fn, k |-> own]

\* The reply to it, if its data are d.
Answer(d) == Reply(Sent, fn, d)
Fits(d)   == HasData(fn) /\ Kind[fn] = "vector" => Len(d) % ElemSize = 0

\* Stage st reads byte n + 1 of the answer next, and wants r bytes.
At(d, n) ==
  LET p == 4 + Size(fn)
  IN  \/ stage = "type"   /\ n = 0     /\ rest = 1
      \/ stage = "cmd"    /\ n = 1     /\ rest = 2
      \/ stage = "size"   /\ n = 3     /\ rest = 1 /\ mcmd = Id(fn)
      \/ stage = "par"    /\ n = 4     /\ rest = Size(fn) /\ mcmd = Id(fn)
      \/ stage = "dtype"  /\ n = p     /\ rest = 1
      \/ stage = "dsize"  /\ n = p + 1 /\ rest = 3
      \/ stage = "vector" /\ n = p + 4 /\ rest = Len(d) /\ Kind[fn] = "vector"
      \/ stage = "string" /\ n = p + 4 + Len(d) - rest /\ rest <= Len(d) /\ Kind[fn] = "string"

Asked ==
  /\ stage = "type" /\ rest = 1 /\ inq = <<>> /\ pend = <<>>
  /\ devQ # <<>> /\ devQ[Len(devQ)] = Sent
  /\ \A i \in 1 .. Len(devQ) - 1 : Silent(devQ[i])
Answered ==
  /\ devQ = <<>>
  /\ \E d \in Payloads : \E n \in 0 .. Len(Answer(d)) :
       Fits(d) /\ At(d, n) /\ inq \o pend = Skip(Answer(d), n)

StepInv ==
  InStep =>
    /\ stage \in {"idle", "gotId"} => inq = <<>> /\ pend = <<>> /\ AllSilent(devQ)
    /\ stage = "gotId" => cache[outer] = devId[outer]
    /\ stage # "idle" => Ofs(par) \cup Ofs(data) \subseteq {own}
    /\ Reading => Asked \/ Answered

NoFaults == ~Faults => InStep
RpcInv == TypeOK /\ QueueInv /\ CacheSound /\ ControlInv /\ LinkInv /\ StepInv /\ NoFaults

-----------------------------------------------------------------------------
(* The reply to the running call *)

LEMMA IdFacts ==
  ASSUME TypeOK, ControlInv, stage # "idle"
  PROVE  /\ fn = GetRpcCallId \/ (fn \in Fn /\ fn # GetRpcCallId)
         /\ Id(fn) \in Nat /\ Size(fn) \in Nat /\ own \in Nat
         /\ (fn = GetRpcCallId => outer \in Fn /\ devId[outer] \in Int)
  <1>1. fn = GetRpcCallId \/ (fn \in Fn /\ fn # GetRpcCallId /\ cache[fn] >= 0)
    <2>1. fn = GetRpcCallId \/ (fn \in Fn /\ cache[fn] >= 0)
      BY DEF ControlInv
    <2>2. \A f \in Fn : f # GetRpcCallId
      BY FnAssumption DEF GetRpcCallId
    <2> QED BY <2>1, <2>2
  <1>2. fn = GetRpcCallId => outer \in Fn
    BY DEF ControlInv
  <1>3. cache \in [Fn -> Int] /\ k \in Nat /\ own \in 0 .. k /\ devId \in Tables
    BY DEF TypeOK
  <1>4. devId \in [Fn -> {-1} \cup (Nat \ {0, 1})]
    BY <1>3, FnAssumption
  <1>5. fn \in Fn => cache[fn] \in Int /\ ParSize[fn] \in Nat
    BY <1>3, SizeAssumption
  <1> QED BY <1>1, <1>2, <1>3, <1>4, <1>5, SizeAssumption DEF Id, Size, GetRpcCallId

LEMMA TableFacts ==
  ASSUME NEW f \in Fn, devId \in Tables
  PROVE  /\ devId[f] = -1 \/ (devId[f] \in Nat /\ devId[f] # 0 /\ devId[f] # 1)
         /\ devId[f] < AllOnes /\ devId[f] < Base * Base
         /\ \A g \in Fn : devId[f] = devId[g] /\ devId[f] # -1 => f = g
  <1>1. devId \in [Fn -> {-1} \cup (Nat \ {0, 1})]
    BY FnAssumption
  <1>2. devId[f] < AllOnes /\ devId[f] < Base * Base
    BY WidthAssumption
  <1>3. \A g \in Fn : devId[f] = devId[g] /\ devId[f] # -1 => f = g
    BY FnAssumption
  <1> QED BY <1>1, <1>2, <1>3

LEMMA AllOnesFacts == AllOnes \in Nat /\ AllOnes < Weight[IdSize] * Base
  <1>1. IdSize \in 1 .. 4
    BY SizeAssumption
  <1>2. Weight[IdSize] \in Nat /\ Weight[IdSize] > 0
    BY <1>1, WeightFacts
  <1>3. \A a \in Nat : a > 0 => a * Base \in Nat /\ a * Base > 0
    BY BaseFacts
  <1>4. Weight[IdSize] * Base \in Nat /\ Weight[IdSize] * Base > 0
    BY <1>2, <1>3
  <1> QED BY <1>4 DEF AllOnes

\* The reply to an id look-up.
IsLookup(a, id, req) ==
  /\ a \in Seq(Bytes) /\ Len(a) = 4 + IdSize /\ \A i \in 1 .. Len(a) : a[i].k = req
  /\ a[1].v = RPC_TYPE_DTB /\ a[4].v = IdSize
  /\ \A b : Len(b) = 2 /\ b[1] = a[2] /\ b[2] = a[3] => Decode(b) = 1
  /\ \A b : Len(b) = IdSize /\ (\A i \in 1 .. IdSize : b[i] = a[4 + i]) => Decode(b) = id

LEMMA LookupReply ==
  ASSUME NEW id \in Nat, id < Weight[IdSize] * Base, NEW req \in Nat
  PROVE  IsLookup(Message(<<RPC_TYPE_DTB, 1, 0, IdSize>>, Encode(id, IdSize), req), id, req)
  <1> DEFINE h == <<RPC_TYPE_DTB, 1, 0, IdSize>>
             e == Encode(id, IdSize)
             a == Message(h, e, req)
  <1>1. IdSize \in 1 .. 4
    BY SizeAssumption
  <1>2. h \in Seq(Nat) /\ Len(h) = 4
        /\ h[1] = RPC_TYPE_DTB /\ h[2] = 1 /\ h[3] = 0 /\ h[4] = IdSize
    BY <1>1 DEF RPC_TYPE_DTB
  <1>3. e \in Seq(Nat) /\ Len(e) = IdSize
    BY <1>1, EncodeFacts
  <1> HIDE DEF h, e
  <1>4. /\ a \in Seq(Bytes) /\ Len(a) = Len(h) + Len(e)
        /\ \A i \in 1 .. Len(a) : a[i].k = req
        /\ \A i \in 1 .. Len(h) : a[i].v = h[i]
        /\ \A i \in 1 .. Len(e) : a[Len(h) + i].v = e[i]
    <2>1. IsMessage(a, h, e, req)
      BY <1>2, <1>3, MessageFacts, Zenon
    <2> QED BY <2>1 DEF IsMessage
  <1> HIDE DEF a
  <1>5. /\ Len(a) = 4 + IdSize /\ a[1].v = RPC_TYPE_DTB /\ a[2].v = 1 /\ a[3].v = 0
        /\ a[4].v = IdSize /\ \A i \in 1 .. IdSize : a[4 + i].v = e[i]
    <2>1. \A i \in 1 .. 4 : a[i].v = h[i]
      BY <1>2, <1>4
    <2>2. \A i \in 1 .. IdSize : a[4 + i].v = e[i]
      BY <1>2, <1>3, <1>4
    <2>3. Len(a) = 4 + IdSize
      BY <1>2, <1>3, <1>4
    <2>4. 1 \in 1 .. 4 /\ 2 \in 1 .. 4 /\ 3 \in 1 .. 4 /\ 4 \in 1 .. 4
      OBVIOUS
    <2> QED BY <2>1, <2>2, <2>3, <2>4, <1>2, Zenon
  <1>6. ASSUME NEW b, Len(b) = 2, b[1] = a[2], b[2] = a[3] PROVE Decode(b) = 1
    <2>1. b[1].v = 1 /\ b[2].v = 0
      BY <1>5, <1>6
    <2>2. 1 * 1 = 1 /\ 0 * Base = 0
      BY BaseFacts
    <2> QED BY <1>6, <2>1, <2>2, WeightFacts DEF Decode
  <1>7. ASSUME NEW b, Len(b) = IdSize, \A i \in 1 .. IdSize : b[i] = a[4 + i]
        PROVE  Decode(b) = id
    <2>1. \A i \in 1 .. IdSize : b[i].v = Encode(id, IdSize)[i]
      BY <1>5, <1>7 DEF e
    <2> QED BY <2>1, <1>1, <1>7, DecodeIs
  <1>8. IsLookup(a, id, req)
    BY <1>4, <1>5, <1>6, <1>7 DEF IsLookup
  <1> QED BY <1>8 DEF a, e, h

\* The command message of the reply to a function of Fn.
Command(id, n, req) ==
  Message(<<RPC_TYPE_DTB>> \o Encode(id, 2) \o <<n>>, [i \in 1 .. n |-> 0], req)

IsCommand(a, id, n, req) ==
  /\ a \in Seq(Bytes) /\ Len(a) = 4 + n /\ \A i \in 1 .. Len(a) : a[i].k = req
  /\ a[1].v = RPC_TYPE_DTB /\ a[4].v = n
  /\ \A b : Len(b) = 2 /\ b[1] = a[2] /\ b[2] = a[3] => Decode(b) = id

LEMMA CommandReply ==
  ASSUME NEW id \in Nat, id < Base * Base, NEW n \in Nat, NEW req \in Nat
  PROVE  IsCommand(Command(id, n, req), id, n, req)
  <1> DEFINE e == Encode(id, 2)
             h == <<RPC_TYPE_DTB>> \o e \o <<n>>
             z == [i \in 1 .. n |-> 0]
  <1>1. e \in Seq(Nat) /\ Len(e) = 2
    BY EncodeFacts
  <1> HIDE DEF e
  <1>2. h \in Seq(Nat) /\ Len(h) = 4
        /\ h[1] = RPC_TYPE_DTB /\ h[2] = e[1] /\ h[3] = e[2] /\ h[4] = n
    <2> DEFINE t == <<RPC_TYPE_DTB>>
               g == t \o e
               u == <<n>>
    <2>1. t \in Seq(Nat) /\ Len(t) = 1 /\ t[1] = RPC_TYPE_DTB
      BY DEF RPC_TYPE_DTB
    <2>2. u \in Seq(Nat) /\ Len(u) = 1 /\ u[1] = n
      OBVIOUS
    <2> HIDE DEF t, u
    <2>3. /\ g \in Seq(Nat) /\ Len(g) = Len(t) + Len(e)
          /\ \A i \in 1 .. Len(t) + Len(e) : g[i] = IF i <= Len(t) THEN t[i] ELSE e[i - Len(t)]
      BY <2>1, <1>1, ConcatProperties
    <2> HIDE DEF g
    <2>4. g \in Seq(Nat) /\ Len(g) = 3 /\ g[1] = RPC_TYPE_DTB /\ g[2] = e[1] /\ g[3] = e[2]
      BY <2>1, <2>3, <1>1
    <2>5. /\ g \o u \in Seq(Nat) /\ Len(g \o u) = Len(g) + Len(u)
          /\ \A i \in 1 .. Len(g) + Len(u) : (g \o u)[i] = IF i <= Len(g) THEN g[i] ELSE u[i - Len(g)]
      BY <2>2, <2>4, ConcatProperties
    <2>6. h = g \o u
      BY DEF g, u, t
    <2> HIDE DEF h
    <2>7. h \in Seq(Nat) /\ Len(h) = 4
      BY <2>2, <2>4, <2>5, <2>6
    <2>8. h[1] = g[1] /\ h[2] = g[2] /\ h[3] = g[3]
      <3>1. Len(g) = 3 /\ Len(u) = 1 /\ \A i \in 1 .. 3 + 1 : i <= 3 => h[i] = g[i]
        BY <2>2, <2>4, <2>5, <2>6
      <3> QED BY <3>1
    <2>9. h[4] = u[1]
      BY <2>2, <2>4, <2>5, <2>6
    <2> QED BY <2>2, <2>4, <2>7, <2>8, <2>9
  <1>3. z \in Seq(Nat) /\ Len(z) = n
    OBVIOUS
  <1> DEFINE a == Command(id, n, req)
  <1>7. a = Message(h, z, req)
    BY DEF Command, e
  <1> HIDE DEF h, z, a
  <1>4. /\ a \in Seq(Bytes) /\ Len(a) = Len(h) + Len(z)
        /\ \A i \in 1 .. Len(a) : a[i].k = req
        /\ \A i \in 1 .. Len(h) : a[i].v = h[i]
    <2>1. IsMessage(a, h, z, req)
      BY <1>2, <1>3, <1>7, MessageFacts, Zenon
    <2> QED BY <2>1 DEF IsMessage
  <1>5. /\ Len(a) = 4 + n /\ a[1].v = RPC_TYPE_DTB /\ a[2].v = e[1] /\ a[3].v = e[2]
        /\ a[4].v = n
    BY <1>2, <1>3, <1>4
  <1>6. ASSUME NEW b, Len(b) = 2, b[1] = a[2], b[2] = a[3] PROVE Decode(b) = id
    <2>1. \A i \in 1 .. 2 : b[i].v = Encode(id, 2)[i]
      BY <1>5, <1>6 DEF e
    <2>2. id < Weight[2] * Base
      BY WeightFacts
    <2> QED BY <2>1, <2>2, <1>6, DecodeIs
  <1> QED BY <1>4, <1>5, <1>6 DEF IsCommand, a

LEMMA DataReply ==
  ASSUME NEW d \in Payloads, NEW req \in Nat
  PROVE  LET a == Message(<<RPC_TYPE_DTB_DATA>> \o Encode(Len(d), 3), d, req) IN
         /\ Len(d) \in Nat
         /\ a \in Seq(Bytes) /\ Len(a) = 4 + Len(d) /\ \A i \in 1 .. Len(a) : a[i].k = req
         /\ a[1].v = RPC_TYPE_DTB_DATA
         /\ \A b : Len(b) = 3 /\ (\A i \in 1 .. 3 : b[i] = a[1 + i]) => Decode(b) = Len(d)
  <1>0. d \in Seq(Nat) /\ Len(d) \in Nat
    <2>1. d \in Seq(0 .. Base - 1)
      BY SizeAssumption
    <2> QED BY <2>1, BaseFacts
  <1> DEFINE e == Encode(Len(d), 3)
             h == <<RPC_TYPE_DTB_DATA>> \o e
             a == Message(h, d, req)
  <1>1. e \in Seq(Nat) /\ Len(e) = 3
    BY <1>0, EncodeFacts
  <1> HIDE DEF e
  <1>2. h \in Seq(Nat) /\ Len(h) = 4 /\ h[1] = RPC_TYPE_DTB_DATA
        /\ \A i \in 1 .. 3 : h[1 + i] = e[i]
    <2> DEFINE t == <<RPC_TYPE_DTB_DATA>>
    <2>1. t \in Seq(Nat) /\ Len(t) = 1 /\ t[1] = RPC_TYPE_DTB_DATA
      BY DEF RPC_TYPE_DTB_DATA
    <2> HIDE DEF t
    <2>2. /\ t \o e \in Seq(Nat) /\ Len(t \o e) = Len(t) + Len(e)
          /\ \A i \in 1 .. Len(t) + Len(e) : (t \o e)[i] = IF i <= Len(t) THEN t[i] ELSE e[i - Len(t)]
      BY <2>1, <1>1, ConcatProperties
    <2>3. h = t \o e
      BY DEF t
    <2> HIDE DEF h
    <2>4. h \in Seq(Nat) /\ Len(h) = 4
      <3>1. Len(t) + Len(e) = 4
        BY <1>1, <2>1
      <3> QED BY <2>2, <2>3, <3>1, Zenon
    <2>5. h[1] = t[1]
      <3>1. 1 \in 1 .. Len(t) + Len(e) /\ 1 <= Len(t)
        BY <1>1, <2>1
      <3> QED BY <2>2, <2>3, <3>1, Zenon
    <2>6. /\ Len(t) = 1 /\ Len(e) = 3
          /\ \A i \in 1 .. 1 + 3 : h[i] = IF i <= 1 THEN t[i] ELSE e[i - 1]
      BY <1>1, <2>1, <2>2, <2>3
    <2>7. h[2] = e[1] /\ h[3] = e[2] /\ h[4] = e[3]
      BY <2>6
    <2>8. \A i \in 1 .. 3 : h[1 + i] = e[i]
      BY <2>7
    <2> QED BY <2>1, <2>4, <2>5, <2>8
  <1> HIDE DEF h
  <1>4. /\ a \in Seq(Bytes) /\ Len(a) = Len(h) + Len(d)
        /\ \A i \in 1 .. Len(a) : a[i].k = req
        /\ \A i \in 1 .. Len(h) : a[i].v = h[i]
    <2>1. IsMessage(a, h, d, req)
      BY <1>0, <1>2, MessageFacts, Zenon
    <2> QED BY <2>1 DEF IsMessage
  <1> HIDE DEF a
  <1>5. /\ Len(a) = 4 + Len(d) /\ a[1].v = RPC_TYPE_DTB_DATA
        /\ \A i \in 1 .. 3 : a[1 + i].v = e[i]
    BY <1>2, <1>4
  <1>6. ASSUME NEW b, Len(b) = 3, \A i \in 1 .. 3 : b[i] = a[1 + i] PROVE Decode(b) = Len(d)
    <2>1. \A i \in 1 .. 3 : b[i].v = Encode(Len(d), 3)[i]
      BY <1>5, <1>6 DEF e
    <2>2. Len(d) < Weight[3] * Base
      BY WidthAssumption, WeightFacts
    <2>3. 3 \in 1 .. 4
      OBVIOUS
    <2> QED BY <2>1, <2>2, <2>3, <1>0, <1>6, DecodeIs, Zenon
  <1> QED BY <1>0, <1>4, <1>5, <1>6 DEF a, e, h

\* What the stub finds in the reply to its request.
Shaped(a, d) ==
  /\ a \in Seq(Bytes) /\ Len(d) \in Nat /\ \A i \in 1 .. Len(a) : a[i].k = own
  /\ Len(a) = (4 + Size(fn)) + (IF HasData(fn) THEN 4 + Len(d) ELSE 0)
  /\ a[1].v = RPC_TYPE_DTB /\ a[4].v = Size(fn)
  /\ \A b : Len(b) = 2 /\ b[1] = a[2] /\ b[2] = a[3] => Decode(b) = Id(fn)
  /\ fn = GetRpcCallId =>
       \A b : Len(b) = IdSize /\ (\A i \in 1 .. IdSize : b[i] = a[4 + i]) =>
         AsId(Decode(b)) = devId[outer]
  /\ HasData(fn) =>
       /\ a[(4 + Size(fn)) + 1].v = RPC_TYPE_DTB_DATA
       /\ \A b : Len(b) = 3 /\ (\A i \in 1 .. 3 : b[i] = a[(4 + Size(fn)) + 1 + i]) =>
            Decode(b) = Len(d)

LEMMA AnswerShape ==
  ASSUME TypeOK, ControlInv, CacheSound, ~suspect, stage # "idle", NEW d \in Payloads
  PROVE  Shaped(Answer(d), d)
  <1> DEFINE a == Answer(d)
  <1>0. Len(d) \in Nat /\ own \in Nat
    BY DataReply, IdFacts
  <1>1. CASE fn = GetRpcCallId
    <2> DEFINE id == IF outer \in Fn /\ devId[outer] # -1 THEN devId[outer] ELSE AllOnes
    <2>1. outer \in Fn /\ Size(fn) = IdSize /\ Id(fn) = 1 /\ ~HasData(fn)
      BY <1>1 DEF ControlInv, Size, Id, HasData
    <2>2. devId \in Tables
      BY DEF TypeOK
    <2>3. /\ devId[outer] = -1 \/ (devId[outer] \in Nat /\ devId[outer] # 0 /\ devId[outer] # 1)
          /\ devId[outer] < AllOnes
      BY <2>1, <2>2, TableFacts
    <2>4. id \in Nat /\ id < Weight[IdSize] * Base /\ (id = AllOnes <=> devId[outer] = -1)
          /\ (devId[outer] # -1 => id = devId[outer])
      <3>1. AllOnes \in Nat /\ AllOnes < Weight[IdSize] * Base
        BY AllOnesFacts
      <3>2. Weight[IdSize] * Base \in Int
        <4>1. IdSize \in 1 .. 4
          BY SizeAssumption
        <4> QED BY <4>1, WeightFacts, BaseFacts
      <3> QED BY <2>1, <2>3, <3>1, <3>2
    <2>5. a = Message(<<RPC_TYPE_DTB, 1, 0, IdSize>>, Encode(id, IdSize), own)
      BY <1>1 DEF Answer, Reply, Sent
    <2> HIDE DEF id, a
    <2>6. /\ a \in Seq(Bytes) /\ Len(a) = 4 + IdSize /\ \A i \in 1 .. Len(a) : a[i].k = own
          /\ a[1].v = RPC_TYPE_DTB /\ a[4].v = IdSize
          /\ \A b : Len(b) = 2 /\ b[1] = a[2] /\ b[2] = a[3] => Decode(b) = 1
          /\ \A b : Len(b) = IdSize /\ (\A i \in 1 .. IdSize : b[i] = a[4 + i]) => Decode(b) = id
      <3>1. IsLookup(a, id, own)
        BY <1>0, <2>4, <2>5, LookupReply, Zenon
      <3> QED BY <3>1 DEF IsLookup
    <2>7. ASSUME NEW b, Len(b) = IdSize, \A i \in 1 .. IdSize : b[i] = a[4 + i]
          PROVE  AsId(Decode(b)) = devId[outer]
      <3>1. Decode(b) = id
        BY <2>6, <2>7
      <3> QED BY <3>1, <2>4, <2>3 DEF AsId
    <2>8. Len(a) = (4 + Size(fn)) + 0
      BY <2>1, <2>6, SizeAssumption
    <2> QED BY <1>0, <1>1, <2>1, <2>6, <2>7, <2>8 DEF Shaped, a
  <1>2. CASE fn # GetRpcCallId
    <2> DEFINE ps == ParSize[fn]
               c == Command(Id(fn), ps, own)
               e == Message(<<RPC_TYPE_DTB_DATA>> \o Encode(Len(d), 3), d, own)
    <2>1. fn \in Fn /\ Kind[fn] # "void" /\ cache[fn] >= 0
      BY <1>2 DEF ControlInv
    <2>2. Size(fn) = ps /\ ps \in Nat /\ Id(fn) = cache[fn]
      BY <1>2, <2>1, SizeAssumption DEF Size, Id
    <2>3. cache[fn] = devId[fn] /\ cache[fn] \in Nat /\ cache[fn] < Base * Base
      <3>1. devId \in Tables /\ cache \in [Fn -> Int]
        BY DEF TypeOK
      <3>2. cache[fn] \in {-1, devId[fn]} /\ cache[fn] \in Int
        BY <2>1, <3>1 DEF CacheSound
      <3>3. cache[fn] = devId[fn]
        BY <2>1, <3>2
      <3> QED BY <2>1, <3>1, <3>2, <3>3, TableFacts
    <2>4. /\ c \in Seq(Bytes) /\ Len(c) = 4 + ps /\ \A i \in 1 .. Len(c) : c[i].k = own
          /\ c[1].v = RPC_TYPE_DTB /\ c[4].v = ps
          /\ \A b : Len(b) = 2 /\ b[1] = c[2] /\ b[2] = c[3] => Decode(b) = Id(fn)
      <3>1. Id(fn) \in Nat /\ Id(fn) < Base * Base /\ ps \in Nat
        BY <1>0, <2>2, <2>3
      <3> HIDE DEF ps
      <3>2. IsCommand(c, Id(fn), ps, own)
        BY <1>0, <3>1, CommandReply, Zenon
      <3> HIDE DEF c
      <3> QED BY <3>2 DEF IsCommand
    <2>5. /\ e \in Seq(Bytes) /\ Len(e) = 4 + Len(d) /\ \A i \in 1 .. Len(e) : e[i].k = own
          /\ e[1].v = RPC_TYPE_DTB_DATA
          /\ \A b : Len(b) = 3 /\ (\A i \in 1 .. 3 : b[i] = e[1 + i]) => Decode(b) = Len(d)
      BY <1>0, DataReply
    <2>6. a = c \o (IF HasData(fn) THEN e ELSE <<>>)
      <3>1. a = c \o (IF Kind[fn] = "value" THEN <<>> ELSE e)
        BY <1>2, <2>1 DEF Answer, Reply, Sent, Command
      <3>2. HasData(fn) <=> Kind[fn] # "value"
        BY <1>2, <2>1, FnAssumption DEF HasData, Kinds
      <3> HIDE DEF a, c, e
      <3> QED BY <3>1, <3>2
    <2> HIDE DEF c, e, ps, a
    <2>7. CASE HasData(fn)
      <3>1. /\ a \in Seq(Bytes) /\ Len(a) = Len(c) + Len(e)
            /\ \A i \in 1 .. Len(c) + Len(e) : a[i] = IF i <= Len(c) THEN c[i] ELSE e[i - Len(c)]
        <4>1. a = c \o e
          BY <2>6, <2>7
        <4>2. a \in Seq(Bytes) /\ Len(a) = Len(c) + Len(e)
          BY <2>4, <2>5, <4>1, ConcatProperties
        <4>3. \A i \in 1 .. Len(c) + Len(e) : a[i] = IF i <= Len(c) THEN c[i] ELSE e[i - Len(c)]
          BY <2>4, <2>5, <4>1, ConcatProperties
        <4> QED BY <4>2, <4>3
      <3> DEFINE p == 4 + ps
                 q == 4 + Len(d)
      <3>2. p \in Nat /\ q \in Nat /\ p >= 4 /\ q >= 4 /\ Len(c) = p /\ Len(e) = q
        BY <1>0, <2>2, <2>4, <2>5
      <3>3. /\ Len(a) = p + q
            /\ \A i \in 1 .. p + q : a[i] = IF i <= p THEN c[i] ELSE e[i - p]
        BY <3>1, <3>2
      <3> HIDE DEF p, q
      <3>4. a[1] = c[1] /\ a[2] = c[2] /\ a[3] = c[3] /\ a[4] = c[4]
        BY <3>2, <3>3
      <3>5. a[p + 1] = e[1] /\ a[p + 1 + 1] = e[2] /\ a[p + 1 + 2] = e[3] /\ a[p + 1 + 3] = e[4]
        BY <3>2, <3>3
      <3>6. \A i \in 1 .. Len(a) : a[i].k = own
        <4> SUFFICES ASSUME NEW i \in 1 .. p + q PROVE a[i].k = own
          BY <3>3
        <4>1. CASE i <= p
          <5>1. i \in 1 .. Len(c) /\ a[i] = c[i]
            BY <3>2, <3>3, <4>1
          <5> QED BY <5>1, <2>4
        <4>2. CASE ~(i <= p)
          <5>1. i - p \in 1 .. Len(e) /\ a[i] = e[i - p]
            BY <3>2, <3>3, <4>2
          <5> QED BY <5>1, <2>5
        <4> QED BY <4>1, <4>2
      <3>7. ASSUME NEW b, Len(b) = 3, \A i \in 1 .. 3 : b[i] = a[p + 1 + i]
            PROVE  Decode(b) = Len(d)
        <4>1. b[1] = e[1 + 1] /\ b[2] = e[1 + 2] /\ b[3] = e[1 + 3]
          BY <3>5, <3>7
        <4>2. \A i \in 1 .. 3 : b[i] = e[1 + i]
          BY <4>1
        <4> QED BY <4>2, <3>7, <2>5
      <3>8. 4 + Size(fn) = p
        BY <2>2 DEF p
      <3>9. /\ Len(a) = p + (4 + Len(d)) /\ a[1].v = RPC_TYPE_DTB /\ a[4].v = Size(fn)
            /\ a[p + 1].v = RPC_TYPE_DTB_DATA
            /\ \A b : Len(b) = 2 /\ b[1] = a[2] /\ b[2] = a[3] => Decode(b) = Id(fn)
        BY <2>2, <2>4, <2>5, <3>3, <3>4, <3>5 DEF q
      <3>10. Shaped(a, d)
        BY <1>0, <1>2, <2>7, <3>1, <3>6, <3>7, <3>8, <3>9 DEF Shaped
      <3> QED BY <3>10 DEF a
    <2>8. CASE ~HasData(fn)
      <3>1. a = c
        BY <2>4, <2>6, <2>8, ConcatEmptySeq
      <3>2. Len(a) = (4 + Size(fn)) + 0
        BY <2>2, <2>4, <3>1
      <3>3. Shaped(a, d)
        BY <1>0, <1>2, <2>2, <2>4, <2>8, <3>1, <3>2 DEF Shaped
      <3> QED BY <3>3 DEF a
    <2> QED BY <2>7, <2>8
  <1> QED BY <1>1, <1>2

-----------------------------------------------------------------------------
(* Reading off the line *)

LEMMA CutFacts ==
  ASSUME NEW q \in Seq(Bytes), NEW r \in Nat, r <= Len(q)
  PROVE  /\ First(q, r) \in Seq(Bytes) /\ Len(First(q, r)) = r
         /\ \A i \in 1 .. r : First(q, r)[i] = q[i]
         /\ Skip(q, r) \in Seq(Bytes) /\ Len(Skip(q, r)) = Len(q) - r
         /\ \A i \in 1 .. Len(q) - r : Skip(q, r)[i] = q[r + i]
  <1>0. Len(q) \in Nat /\ \A i \in 1 .. Len(q) : q[i] \in Bytes
    OBVIOUS
  <1>1. \A i \in 1 .. r : q[i] \in Bytes
    BY <1>0
  <1>2. \A i \in r + 1 .. Len(q) : q[i] \in Bytes
    BY <1>0
  <1>3. /\ SubSeq(q, 1, r) \in Seq(Bytes)
        /\ Len(SubSeq(q, 1, r)) = IF 1 <= r THEN r - 1 + 1 ELSE 0
        /\ \A i \in 1 .. r - 1 + 1 : SubSeq(q, 1, r)[i] = q[1 + i - 1]
    BY <1>1, SubSeqProperties
  <1>4. /\ SubSeq(q, r + 1, Len(q)) \in Seq(Bytes)
        /\ Len(SubSeq(q, r + 1, Len(q))) = IF r + 1 <= Len(q) THEN Len(q) - (r + 1) + 1 ELSE 0
        /\ \A i \in 1 .. Len(q) - (r + 1) + 1 : SubSeq(q, r + 1, Len(q))[i] = q[r + 1 + i - 1]
    <2>1. r + 1 \in Int /\ Len(q) \in Int
      BY <1>0
    <2> QED BY <1>2, <2>1, SubSeqProperties
  <1>5. /\ First(q, r) \in Seq(Bytes) /\ Len(First(q, r)) = r
        /\ \A i \in 1 .. r : First(q, r)[i] = q[i]
    BY <1>3 DEF First
  <1>6. /\ Skip(q, r) \in Seq(Bytes) /\ Len(Skip(q, r)) = Len(q) - r
        /\ \A i \in 1 .. Len(q) - r : Skip(q, r)[i] = q[r + i]
    BY <1>0, <1>4 DEF Skip
  <1> QED BY <1>5, <1>6

\* The line q, p holds a from its (n+1)st byte on; r bytes of it are read.
ReadOff(a, q, p, n, r) ==
  /\ n + r \in 0 .. Len(a) /\ Skip(q, r) \o p = Skip(a, n + r)
  /\ \A i \in 1 .. r : First(q, r)[i] = a[n + i]

LEMMA LineRead ==
  ASSUME NEW a \in Seq(Bytes), NEW q \in Seq(Bytes), NEW p \in Seq(Bytes),
         NEW n \in 0 .. Len(a), NEW r \in Nat, q \o p = Skip(a, n), r <= Len(q)
  PROVE  ReadOff(a, q, p, n, r)
  <1> DEFINE m == Len(a) - n
             lq == Len(q)
             lp == Len(p)
             t == Skip(q, r)
  <1>1. m \in Nat /\ lq \in Nat /\ lp \in Nat /\ Len(a) \in Nat
    OBVIOUS
  <1>2. Skip(a, n) \in Seq(Bytes) /\ Len(Skip(a, n)) = m /\ \A i \in 1 .. m : Skip(a, n)[i] = a[n + i]
    BY CutFacts
  <1>3. /\ Len(q \o p) = lq + lp
        /\ \A i \in 1 .. lq + lp : (q \o p)[i] = IF i <= lq THEN q[i] ELSE p[i - lq]
    BY ConcatProperties
  <1>4. m = lq + lp /\ \A i \in 1 .. m : a[n + i] = IF i <= lq THEN q[i] ELSE p[i - lq]
    BY <1>2, <1>3
  <1>5. n + r \in 0 .. Len(a) /\ n + r \in Nat /\ n + r <= Len(a)
    BY <1>1, <1>4
  <1>6. /\ Skip(a, n + r) \in Seq(Bytes) /\ Len(Skip(a, n + r)) = m - r
        /\ \A i \in 1 .. m - r : Skip(a, n + r)[i] = a[(n + r) + i]
    <2>1. /\ Skip(a, n + r) \in Seq(Bytes) /\ Len(Skip(a, n + r)) = Len(a) - (n + r)
          /\ \A i \in 1 .. Len(a) - (n + r) : Skip(a, n + r)[i] = a[(n + r) + i]
      BY <1>5, CutFacts
    <2>2. Len(a) - (n + r) = m - r
      BY <1>1
    <2> QED BY <2>1, <2>2
  <1>7. t \in Seq(Bytes) /\ Len(t) = lq - r /\ \A i \in 1 .. lq - r : t[i] = q[r + i]
    BY CutFacts
  <1> HIDE DEF t, m, lq, lp
  <1>8. /\ t \o p \in Seq(Bytes) /\ Len(t \o p) = Len(t) + Len(p)
        /\ \A i \in 1 .. Len(t) + Len(p) : (t \o p)[i] = IF i <= Len(t) THEN t[i] ELSE p[i - Len(t)]
    BY <1>7, ConcatProperties
  <1>9. Len(p) = lp /\ Len(q) = lq
    BY DEF lp, lq
  <1>10. Len(t \o p) = m - r
    BY <1>1, <1>4, <1>7, <1>8, <1>9
  <1>11. ASSUME NEW i \in 1 .. m - r PROVE (t \o p)[i] = Skip(a, n + r)[i]
    <2>1. i \in 1 .. Len(t) + Len(p) /\ i + r \in 1 .. m /\ (n + r) + i = n + (i + r)
      BY <1>1, <1>4, <1>5, <1>7, <1>9
    <2>2. Skip(a, n + r)[i] = IF i + r <= lq THEN q[i + r] ELSE p[(i + r) - lq]
      BY <2>1, <1>4, <1>6
    <2>3. (t \o p)[i] = IF i <= lq - r THEN t[i] ELSE p[i - (lq - r)]
      BY <2>1, <1>7, <1>8
    <2>4. CASE i <= lq - r
      <3>1. i \in 1 .. lq - r /\ i + r <= lq /\ r + i = i + r
        BY <1>1, <2>4
      <3> QED BY <3>1, <2>2, <2>3, <2>4, <1>7
    <2>5. CASE ~(i <= lq - r)
      <3>1. ~(i + r <= lq) /\ i - (lq - r) = (i + r) - lq
        BY <1>1, <2>5
      <3> QED BY <3>1, <2>2, <2>3, <2>5
    <2> QED BY <2>4, <2>5
  <1>12. t \o p = Skip(a, n + r)
    BY <1>6, <1>8, <1>10, <1>11, SeqEqual
  <1>13. ASSUME NEW i \in 1 .. r PROVE First(q, r)[i] = a[n + i]
    <2>1. First(q, r)[i] = q[i]
      BY CutFacts
    <2>2. i \in 1 .. m /\ i <= lq
      BY <1>1, <1>4, <1>9
    <2> QED BY <2>1, <2>2, <1>4
  <1> QED BY <1>5, <1>12, <1>13 DEF ReadOff, t

\* A byte that arrives stays in its place.
LEMMA LineArrives ==
  ASSUME NEW q \in Seq(Bytes), NEW p \in Seq(Bytes), p # <<>>
  PROVE  /\ Append(q, Head(p)) \o Tail(p) = q \o p
         /\ Append(q, Head(p)) \in Seq(Bytes) /\ Tail(p) \in Seq(Bytes)
  <1> DEFINE h == Head(p)
             t == Tail(p)
             u == <<h>>
  <1>1. h \in Bytes /\ t \in Seq(Bytes) /\ Len(t) = Len(p) - 1
        /\ \A i \in 1 .. Len(t) : t[i] = p[i + 1]
    BY HeadTailProperties
  <1>2. h = p[1] /\ Len(p) \in Nat /\ Len(p) > 0 /\ Len(q) \in Nat
    OBVIOUS
  <1> HIDE DEF h, t
  <1>3. Append(q, h) \in Seq(Bytes)
    BY <1>1, AppendProperties
  <1>4. Append(q, h) = q \o u
    BY <1>1, AppendIsConcat
  <1>5. u \in Seq(Bytes)
    BY <1>1
  <1>6. (q \o u) \o t = q \o (u \o t)
    BY <1>1, <1>5, ConcatAssociative
  <1>7. u \o t = p
    <2>1. Len(u) = 1 /\ u[1] = h
      OBVIOUS
    <2> HIDE DEF u
    <2>2. /\ u \o t \in Seq(Bytes) /\ Len(u \o t) = Len(u) + Len(t)
          /\ \A i \in 1 .. Len(u) + Len(t) : (u \o t)[i] = IF i <= Len(u) THEN u[i] ELSE t[i - Len(u)]
      BY <1>1, <1>5, ConcatProperties
    <2>3. Len(u \o t) = Len(p)
      BY <1>1, <1>2, <2>1, <2>2
    <2>4. ASSUME NEW i \in 1 .. Len(p) PROVE (u \o t)[i] = p[i]
      <3>1. (u \o t)[i] = IF i <= 1 THEN h ELSE t[i - 1]
        BY <1>1, <1>2, <2>1, <2>2
      <3>2. CASE i = 1
        BY <3>1, <3>2, <1>2
      <3>3. CASE i > 1
        <4>1. i - 1 \in 1 .. Len(t) /\ (i - 1) + 1 = i
          BY <1>1, <1>2, <3>3
        <4>2. t[i - 1] = p[i]
          BY <4>1, <1>1
        <4> QED BY <3>1, <3>3, <4>2
      <3>4. i = 1 \/ i > 1
        BY <1>2
      <3> QED BY <3>2, <3>3, <3>4
    <2> QED BY <2>2, <2>3, <2>4, SeqEqual
  <1> QED BY <1>1, <1>3, <1>4, <1>6, <1>7 DEF h, t

-----------------------------------------------------------------------------
(* A Read that does not throw *)

\* What a step of the reading stub leaves alone, and what it may do to the line.
ReadFrame ==
  /\ inq' \in Seq(Bytes) /\ dirty' \in BOOLEAN /\ atStart' \in BOOLEAN
  /\ (dirty => dirty') /\ (~Faults => dirty' = dirty)
  /\ UNCHANGED <<connected, device, outQ, k, calls, opens, own>>

\* A Read has the bytes b, of which only those it found on the line are known.
Took(b) ==
  /\ ReadFrame /\ b \in Seq(Bytes) /\ Len(b) = rest
  /\ ~dirty' => rest <= Len(inq) /\ inq' = Skip(inq, rest) /\ b = First(inq, rest)

LEMMA TookAll ==
  ASSUME TypeOK, ControlInv, Reading, Len(inq) >= rest, inq' = Skip(inq, rest), UNCHANGED dirty,
         atStart' = IF stage \in {"type", "dtype"} THEN Head(inq).first ELSE atStart,
         UNCHANGED <<connected, device, outQ, k, calls, opens, own>>
  PROVE  Took(First(inq, rest))
  <1>1. inq \in Seq(Bytes) /\ rest \in Nat /\ rest > 0 /\ rest <= Len(inq) /\ Len(inq) \in Nat
    BY DEF TypeOK, ControlInv
  <1>2. /\ First(inq, rest) \in Seq(Bytes) /\ Len(First(inq, rest)) = rest
        /\ Skip(inq, rest) \in Seq(Bytes)
    BY <1>1, CutFacts
  <1>3. Head(inq).first \in BOOLEAN
    <2>1. Head(inq) = inq[1] /\ 1 \in 1 .. Len(inq)
      BY <1>1
    <2>2. inq[1] \in Bytes
      BY <1>1, <2>1
    <2> QED BY <2>1, <2>2 DEF Bytes
  <1> QED BY <1>1, <1>2, <1>3 DEF Took, ReadFrame, TypeOK

LEMMA TookSome ==
  ASSUME TypeOK, ControlInv, Reading, NEW old, \A i \in 1 .. rest : old[i] \in Bytes,
         Faults, 0 < Len(inq), Len(inq) < rest, inq' = <<>>, dirty' = TRUE, atStart' = FALSE,
         UNCHANGED <<connected, device, outQ, k, calls, opens, own>>
  PROVE  Took(inq \o SubSeq(old, Len(inq) + 1, rest))
  <1> DEFINE n == Len(inq)
             r == SubSeq(old, n + 1, rest)
  <1>1. inq \in Seq(Bytes) /\ rest \in Nat /\ n \in Nat /\ n < rest
    BY DEF TypeOK
  <1>2. r \in Seq(Bytes) /\ Len(r) = rest - n
    <2>1. n + 1 \in Int /\ rest \in Int /\ n + 1 <= rest /\ \A i \in n + 1 .. rest : old[i] \in Bytes
      BY <1>1
    <2>2. r \in Seq(Bytes) /\ Len(r) = IF n + 1 <= rest THEN rest - (n + 1) + 1 ELSE 0
      BY <2>1, SubSeqProperties
    <2> QED BY <1>1, <2>1, <2>2
  <1> HIDE DEF r
  <1>3. inq \o r \in Seq(Bytes) /\ Len(inq \o r) = n + Len(r)
    BY <1>1, <1>2, ConcatProperties
  <1>4. Len(inq \o r) = rest /\ <<>> \in Seq(Bytes)
    BY <1>1, <1>2, <1>3
  <1> QED BY <1>3, <1>4 DEF Took, ReadFrame, r

LEMMA OldBytes ==
  ASSUME NEW n \in Nat
  PROVE  /\ \A v \in Nat : \A i \in 1 .. n : Unset(n, v)[i] \in Bytes
         /\ \A x \in Nat : n \in 1 .. 4 => \A i \in 1 .. n : Old(x, n)[i] \in Bytes
  <1>1. \A v \in Nat : \A i \in 1 .. n : Unset(n, v)[i] \in Bytes
    BY DEF Unset, Byte, Bytes
  <1>2. ASSUME NEW x \in Nat, n \in 1 .. 4, NEW i \in 1 .. n PROVE Old(x, n)[i] \in Bytes
    <2>1. Encode(x, n)[i] \in Nat
      <3>1. Encode(x, n) \in Seq(Nat) /\ Len(Encode(x, n)) = n
        BY <1>2, EncodeFacts
      <3> QED BY <3>1
    <2> QED BY <2>1 DEF Old, Byte, Bytes
  <1> QED BY <1>1, <1>2

\* What the line gives to a stub in step: b is in the reply to its own request, of data d,
\* from byte n + 1 on.
InLine(b, d, n) ==
  /\ d \in Payloads /\ n \in 0 .. Len(Answer(d)) /\ Fits(d) /\ At(d, n)
  /\ Shaped(Answer(d), d) /\ devQ = <<>>
  /\ n + rest \in 0 .. Len(Answer(d))
  /\ inq' \o pend' = Skip(Answer(d), n + rest)
  /\ \A i \in 1 .. rest : b[i] = Answer(d)[n + i]

LEMMA ReadInStep ==
  ASSUME RpcInv, Reading, NEW b, Took(b), ~dirty', ~suspect
  PROVE  /\ \E d, n : InLine(b, d, n)
         /\ Ofs(b) \subseteq {own}
  <1>1. TypeOK /\ ControlInv /\ CacheSound /\ StepInv /\ InStep /\ stage # "idle"
    BY DEF RpcInv, Took, ReadFrame, InStep, Reading
  <1>2. /\ b = First(inq, rest) /\ Len(b) = rest /\ inq' = Skip(inq, rest) /\ pend' = pend
        /\ inq \in Seq(Bytes) /\ pend \in Seq(Bytes)
        /\ rest \in Nat /\ rest > 0 /\ rest <= Len(inq)
    BY <1>1 DEF Took, ReadFrame, TypeOK, ControlInv, device
  <1>3. inq # <<>>
    BY <1>2
  <1>4. Answered
    BY <1>1, <1>3 DEF StepInv, Asked
  <1>5. PICK d \in Payloads : \E n \in 0 .. Len(Answer(d)) :
          Fits(d) /\ At(d, n) /\ inq \o pend = Skip(Answer(d), n)
    BY <1>4 DEF Answered
  <1>50. PICK n \in 0 .. Len(Answer(d)) :
           Fits(d) /\ At(d, n) /\ inq \o pend = Skip(Answer(d), n)
    BY <1>5
  <1> DEFINE a == Answer(d)
  <1>6. Shaped(a, d)
    BY <1>1, AnswerShape
  <1>7. a \in Seq(Bytes) /\ \A i \in 1 .. Len(a) : a[i].k = own
    BY <1>6 DEF Shaped
  <1> HIDE DEF a
  <1>8. n \in 0 .. Len(a) /\ inq \o pend = Skip(a, n)
    BY <1>50 DEF a
  <1>9. ReadOff(a, inq, pend, n, rest)
    BY <1>2, <1>7, <1>8, LineRead, Zenon
  <1>10. InLine(b, d, n)
    BY <1>2, <1>4, <1>50, <1>6, <1>9 DEF InLine, ReadOff, a, Answered
  <1>11. Ofs(b) \subseteq {own}
    <2> SUFFICES ASSUME NEW i \in 1 .. Len(b) PROVE b[i].k = own
      BY DEF Ofs
    <2>1. b[i] = a[n + i]
      BY <1>2, <1>9 DEF ReadOff
    <2>2. n + i \in 1 .. Len(a)
      <3>1. n + rest <= Len(a) /\ Len(a) \in Nat
        BY <1>7, <1>9 DEF ReadOff
      <3> QED BY <3>1, <1>2
    <2> QED BY <1>7, <2>1, <2>2
  <1> QED BY <1>10, <1>11

-----------------------------------------------------------------------------
(* Steps of the reading stub *)

ReadStep ==
  /\ RpcInv'
  /\ UNCHANGED <<connected, devQ, outQ, exec, devId, verdict, linking, own>>
  /\ stage' # "idle" => fn' = fn /\ (stage' = "gotId" => fn = GetRpcCallId)
  /\ InStep' /\ stage' = "idle" =>
       /\ result' = "ok" /\ fn # GetRpcCallId
       /\ devQ = <<>> /\ inq' = <<>> /\ pend' = <<>> /\ Ofs(par') \cup Ofs(data') \subseteq {own}

\* Stage st may ask for n bytes.
Wants(st, n) ==
  /\ st \in Stages \ {"idle", "gotId"} /\ n \in Nat /\ n > 0
  /\ st \in {"type", "size", "dtype", "xsize"} => n = 1
  /\ st \in {"cmd", "xcmd"} => n = 2
  /\ st \in {"xdata", "xold", "dsize"} => n = 3
  /\ st \in {"dtype", "dsize", "string", "vector"} => fn \in Fn /\ HasData(fn)

\* The reply read up to byte m.
Reached(m) ==
  /\ devQ = <<>>
  /\ \E d \in Payloads : /\ m \in 0 .. Len(Answer(d)) /\ Fits(d) /\ At(d, m)'
                         /\ inq' \o pend' = Skip(Answer(d), m)

\* The parts of the invariant that a step of the reading stub does not touch.
LEMMA FrameInv ==
  ASSUME RpcInv, Reading, ReadFrame, UNCHANGED suspect
  PROVE  QueueInv' /\ NoFaults' /\ (InStep' => InStep) /\ (UNCHANGED cache => CacheSound')
  <1>1. UNCHANGED <<connected, devQ, devId, pend, exec, outQ, k, calls, opens, own, suspect>>
    BY DEF ReadFrame, device
  <1>2. QueueInv'
    BY <1>1 DEF RpcInv, QueueInv, AllSilent, AllKnown, Silent, Known
  <1>3. NoFaults' /\ (InStep' => InStep)
    BY DEF RpcInv, NoFaults, InStep, ReadFrame
  <1>4. UNCHANGED cache => CacheSound'
    BY <1>1 DEF RpcInv, CacheSound
  <1> QED BY <1>2, <1>3, <1>4

LEMMA MoveStep ==
  ASSUME RpcInv, Reading, ReadFrame, NEW st, NEW n, GoTo(st, n), Wants(st, n), mcmd' \in Nat,
         UNCHANGED <<cache, suspect>>, par' \in Seq(Bytes), data' \in Seq(Bytes),
         InStep' => (\E m : Reached(m)) /\ Ofs(par') \cup Ofs(data') \subseteq {own}
  PROVE  ReadStep
  <1>1. /\ UNCHANGED <<connected, devQ, devId, pend, exec, outQ, k, calls, opens, own, suspect>>
        /\ UNCHANGED <<fn, outer, result, link, linking, missing, verdict, cache>>
        /\ stage' = st /\ rest' = n
    BY DEF ReadFrame, device, GoTo, linker
  <1>2. TypeOK'
    BY <1>1 DEF RpcInv, TypeOK, ReadFrame, Wants
  <1>3. QueueInv' /\ NoFaults' /\ (InStep' => InStep) /\ CacheSound'
    BY <1>1, FrameInv
  <1>4. ControlInv'
    BY <1>1 DEF RpcInv, ControlInv, Wants, Reading, HasData
  <1>5. LinkInv'
    BY <1>1, <1>3 DEF RpcInv, LinkInv, Reading, Wants
  <1>6. StepInv'
    <2> SUFFICES ASSUME InStep' PROVE StepInv'
      BY DEF StepInv
    <2>1. PICK m : Reached(m)
      OBVIOUS
    <2>2. PICK d \in Payloads : /\ m \in 0 .. Len(Answer(d)) /\ Fits(d) /\ At(d, m)'
                                /\ inq' \o pend' = Skip(Answer(d), m) /\ devQ = <<>>
      BY <2>1 DEF Reached
    <2>3. Answer(d)' = Answer(d) /\ Fits(d)' = Fits(d)
      BY <1>1 DEF Answer, Reply, Sent, Id, Fits, HasData
    <2>4. Answered'
      BY <2>2, <2>3, <1>1 DEF Answered
    <2>5. (Ofs(par) \cup Ofs(data))' \subseteq {own'}
      BY <1>1 DEF Ofs
    <2> QED BY <2>4, <2>5, <1>1 DEF StepInv, Wants
  <1> QED BY <1>1, <1>2, <1>3, <1>4, <1>5, <1>6 DEF ReadStep, RpcInv, Wants

\* A step to the next field of the reply, with bytes b read.
LEMMA ExpectStep ==
  ASSUME RpcInv, Reading, NEW b, Took(b), NEW st, NEW n, GoTo(st, n), Wants(st, n), mcmd' \in Nat,
         UNCHANGED <<cache, par, data, suspect>>,
         \A d, m : InStep' /\ InLine(b, d, m) => \A r : r = m + rest => At(d, r)'
  PROVE  ReadStep
  <1>1. /\ ReadFrame /\ par' \in Seq(Bytes) /\ data' \in Seq(Bytes)
        /\ suspect' = suspect /\ data' = data /\ par' = par
    BY DEF Took, RpcInv, TypeOK
  <1>2. ASSUME InStep' PROVE (\E m : Reached(m)) /\ Ofs(par') \cup Ofs(data') \subseteq {own}
    <2>1. ~dirty' /\ ~suspect
      BY <1>1, <1>2 DEF InStep
    <2>2. PICK d, m : InLine(b, d, m)
      BY <2>1, ReadInStep
    <2>6. PICK r : r = m + rest
      OBVIOUS
    <2>7. At(d, r)'
      BY <1>2, <2>2, <2>6
    <2>3. Reached(r)
      BY <2>2, <2>6, <2>7 DEF Reached, InLine
    <2>4. InStep
      BY <1>1, <1>2, FrameInv
    <2>5. Ofs(par') \cup Ofs(data') \subseteq {own}
      BY <1>1, <2>4 DEF RpcInv, StepInv, Reading
    <2> QED BY <2>3, <2>5
  <1> QED BY <1>1, <1>2, MoveStep, Zenon

LEMMA EndStep ==
  ASSUME RpcInv, Reading, ReadFrame, NEW r \in Results, Leave(r), UNCHANGED <<cache, suspect>>,
         par' \in Seq(Bytes), data' \in Seq(Bytes),
         InStep' => /\ r = "ok" /\ fn # GetRpcCallId
                    /\ devQ = <<>> /\ inq' = <<>> /\ pend' = <<>>
                    /\ Ofs(par') \cup Ofs(data') \subseteq {own}
  PROVE  ReadStep
  <1>1. /\ UNCHANGED <<connected, devQ, devId, pend, exec, outQ, k, calls, opens, own, suspect>>
        /\ UNCHANGED <<linking, verdict, cache>>
        /\ stage' = "idle" /\ fn' = 0 /\ outer' = 0 /\ rest' = 0 /\ mcmd' = 0 /\ result' = r
        /\ IF link # <<>> THEN link' = Tail(link) /\ missing' = (missing \/ r # "ok")
           ELSE UNCHANGED <<link, missing>>
    BY DEF ReadFrame, device, Leave
  <1>2. link' \in Seq(Fn) /\ missing' \in BOOLEAN /\ (link # <<>> => Len(link') = Len(link) - 1 /\
           \A i \in 1 .. Len(link') : link'[i] = link[i + 1])
    <2>1. link \in Seq(Fn) /\ missing \in BOOLEAN
      BY DEF RpcInv, TypeOK
    <2>2. CASE link # <<>>
      BY <1>1, <2>1, <2>2, HeadTailProperties
    <2>3. CASE link = <<>>
      BY <1>1, <2>1, <2>3
    <2> QED BY <2>2, <2>3
  <1>3. TypeOK'
    BY <1>1, <1>2 DEF RpcInv, TypeOK, ReadFrame, Stages
  <1>4. QueueInv' /\ NoFaults' /\ (InStep' => InStep) /\ CacheSound'
    BY <1>1, FrameInv
  <1>5. ControlInv'
    BY <1>1 DEF ControlInv, Reading
  <1>6. LinkInv'
    <2>1. linking' => connected'
      BY <1>1 DEF RpcInv, LinkInv
    <2>2. ~linking' => link' = <<>>
      BY <1>1 DEF RpcInv, LinkInv
    <2>3. \A i, j \in 1 .. Len(link') : link'[i] = link'[j] => i = j
      <3>1. \A i, j \in 1 .. Len(link) : link[i] = link[j] => i = j
        BY DEF RpcInv, LinkInv
      <3>2. CASE link = <<>>
        BY <1>1, <3>1, <3>2
      <3>3. CASE link # <<>>
        <4> SUFFICES ASSUME NEW i \in 1 .. Len(link'), NEW j \in 1 .. Len(link'), link'[i] = link'[j]
                     PROVE  i = j
          OBVIOUS
        <4>1. Len(link) \in Nat /\ i + 1 \in 1 .. Len(link) /\ j + 1 \in 1 .. Len(link)
          <5>1. link \in Seq(Fn)
            BY DEF RpcInv, TypeOK
          <5> QED BY <5>1, <1>2, <3>3
        <4>2. i + 1 = j + 1
          BY <1>2, <3>1, <3>3, <4>1
        <4> QED BY <4>2
      <3> QED BY <3>2, <3>3
    <2>4. InStep' => ~linking'
      <3> SUFFICES ASSUME InStep', linking PROVE FALSE
        BY <1>1
      <3>1. fn = GetRpcCallId
        BY DEF RpcInv, LinkInv, Reading
      <3> QED BY <3>1
    <2> QED BY <1>1, <2>1, <2>2, <2>3, <2>4 DEF LinkInv
  <1>7. StepInv'
    BY <1>1, <1>4 DEF StepInv, AllSilent, Reading
  <1> QED BY <1>1, <1>3, <1>4, <1>5, <1>6, <1>7 DEF ReadStep, RpcInv

-----------------------------------------------------------------------------
(* The reading actions, one by one *)

\* The two ways a Read returns.
Full == /\ Len(inq) >= rest /\ inq' = Skip(inq, rest) /\ UNCHANGED dirty
        /\ atStart' = IF stage \in {"type", "dtype"} THEN Head(inq).first ELSE atStart
        /\ UNCHANGED <<connected, device, outQ, k, calls, opens, own>>
Part == /\ Faults /\ 0 < Len(inq) /\ Len(inq) < rest
        /\ inq' = <<>> /\ dirty' = TRUE /\ atStart' = FALSE
        /\ UNCHANGED <<connected, device, outQ, k, calls, opens, own>>

LEMMA FullTook == ASSUME RpcInv, Reading, Full PROVE Took(First(inq, rest))
  BY TookAll DEF Full, RpcInv

LEMMA PartTook ==
  ASSUME RpcInv, Reading, Part, NEW old, \A i \in 1 .. rest : old[i] \in Bytes
  PROVE  Took(inq \o SubSeq(old, Len(inq) + 1, rest))
  BY TookSome DEF Part, RpcInv

LEMMA NoPart ==
  ASSUME RpcInv, stage \in {"type", "size", "dtype", "xsize"}, Part PROVE FALSE
  <1>1. rest = 1 /\ Len(inq) \in Nat
    BY DEF RpcInv, ControlInv, TypeOK
  <1> QED BY <1>1 DEF Part

LEMMA OutOfStep ==
  ASSUME RpcInv, Reading, NEW b, Took(b), UNCHANGED suspect, \A d, m : ~InLine(b, d, m)
  PROVE  ~InStep'
  BY ReadInStep DEF InStep

\* An unexpected message is never read in step.
LEMMA NotInLine ==
  ASSUME stage \notin {"type", "cmd", "size", "par", "dtype", "dsize", "vector", "string"}, NEW b
  PROVE  \A d, m : ~InLine(b, d, m)
  BY DEF InLine, At

LEMMA ThrowStep ==
  ASSUME RpcInv, Reading, ReadFrame, NEW e \in Results, Throw(e), ~InStep'
  PROVE  ReadStep
  <1>1. Leave(e) /\ UNCHANGED <<cache, suspect>> /\ par' \in Seq(Bytes) /\ data' \in Seq(Bytes)
    BY DEF Throw, RpcInv, TypeOK
  <1> QED BY <1>1, EndStep

LEMMA DiscardStep ==
  ASSUME RpcInv, Reading, NEW b, Took(b), \A d, m : ~InLine(b, d, m), NEW n \in Nat,
         NEW e \in {"NO_CMD_MSG", "NO_DATA_MSG", "WRONG_DATA_SIZE"}, Discard(n, e)
  PROVE  ReadStep
  <1>1. ReadFrame /\ suspect' = suspect
    BY DEF Took, Discard
  <1>2. ~InStep'
    BY <1>1, OutOfStep
  <1>3. CASE n = 0
    BY <1>1, <1>2, <1>3, ThrowStep DEF Discard, Throw, Results
  <1>4. CASE n # 0
    <2>1. GoTo(e, n) /\ Wants(e, n) /\ mcmd' \in Nat /\ UNCHANGED <<cache, par, data, suspect>>
      BY <1>4 DEF Discard, Wants, Stages, RpcInv, TypeOK
    <2> QED BY <1>1, <1>2, <2>1, ExpectStep
  <1> QED BY <1>3, <1>4

\* A message that is not the one expected.
LEMMA AsideStep ==
  ASSUME RpcInv, Reading, NEW b, Took(b), NEW st, NEW n, Expect(st, n), Wants(st, n),
         \A d, m : ~InLine(b, d, m)
  PROVE  ReadStep
  <1>1. GoTo(st, n) /\ mcmd' \in Nat /\ UNCHANGED <<cache, par, data, suspect>>
    BY DEF Expect, RpcInv, TypeOK
  <1> QED BY <1>1, ExpectStep

LEMMA ReadTypeStep == ASSUME RpcInv, ReadType PROVE ReadStep
  <1> DEFINE Body(b) == \/ b[1].v = RPC_TYPE_DTB /\ Expect("cmd", 2)
                        \/ b[1].v = RPC_TYPE_DTB_DATA /\ Expect("xdata", 3)
                        \/ b[1].v = RPC_TYPE_DTB_DATA_OLD /\ Expect("xold", 3)
                        \/ b[1].v \notin MessageTypes /\ Throw("WRONG_MSG_TYPE")
             b == First(inq, rest)
  <1>1. stage = "type" /\ Reading
    BY DEF ReadType, Read, Reading
  <1>2. (Full /\ Body(b)) \/ Part
    BY <1>1 DEF ReadType, Read, Full, Part
  <1>3. Full /\ Body(b)
    BY <1>1, <1>2, NoPart
  <1>4. Took(b) /\ ReadFrame
    BY <1>1, <1>3, FullTook DEF Took
  <1> HIDE DEF b
  <1>5. ASSUME NEW d, NEW m, InLine(b, d, m) PROVE b[1].v = RPC_TYPE_DTB /\ m = 0 /\ rest = 1
    <2>1. m = 0 /\ rest = 1
      BY <1>1, <1>5 DEF InLine, At
    <2>2. b[1] = Answer(d)[1]
      BY <1>5, <2>1 DEF InLine
    <2> QED BY <1>5, <2>1, <2>2 DEF InLine, Shaped
  <1>6. mcmd \in Nat
    BY DEF RpcInv, TypeOK
  <1>7. CASE b[1].v = RPC_TYPE_DTB /\ Expect("cmd", 2)
    <2>1. GoTo("cmd", 2) /\ Wants("cmd", 2) /\ mcmd' \in Nat /\ UNCHANGED <<cache, par, data, suspect>>
      BY <1>6, <1>7 DEF Expect, Wants, Stages
    <2>2. ASSUME NEW d, NEW m, InLine(b, d, m), NEW r, r = m + rest PROVE At(d, r)'
      BY <1>5, <2>1, <2>2 DEF At, GoTo
    <2> QED BY <1>1, <1>4, <2>1, <2>2, ExpectStep
  <1>8. CASE b[1].v = RPC_TYPE_DTB_DATA /\ Expect("xdata", 3)
    <2>1. Wants("xdata", 3)
      BY DEF Wants, Stages
    <2>2. \A d, m : ~InLine(b, d, m)
      BY <1>5, <1>8 DEF RPC_TYPE_DTB, RPC_TYPE_DTB_DATA
    <2> QED BY <1>1, <1>4, <1>8, <2>1, <2>2, AsideStep
  <1>9. CASE b[1].v = RPC_TYPE_DTB_DATA_OLD /\ Expect("xold", 3)
    <2>1. Wants("xold", 3)
      BY DEF Wants, Stages
    <2>2. \A d, m : ~InLine(b, d, m)
      BY <1>5, <1>9 DEF RPC_TYPE_DTB, RPC_TYPE_DTB_DATA_OLD
    <2> QED BY <1>1, <1>4, <1>9, <2>1, <2>2, AsideStep
  <1>10. CASE b[1].v \notin MessageTypes /\ Throw("WRONG_MSG_TYPE")
    <2>1. \A d, m : ~InLine(b, d, m)
      BY <1>5, <1>10 DEF MessageTypes
    <2>2. ~InStep'
      BY <1>1, <1>4, <1>10, <2>1, OutOfStep DEF Throw
    <2> QED BY <1>1, <1>4, <1>10, <2>2, ThrowStep DEF Results
  <1> QED BY <1>3, <1>7, <1>8, <1>9, <1>10

LEMMA ReadUnexpectedDataStep == ASSUME RpcInv, ReadUnexpectedData PROVE ReadStep
  <1> DEFINE Body(b) == Discard(Decode(b) % (Base * Base), "NO_CMD_MSG")
             b1 == First(inq, rest)
             b2 == inq \o SubSeq(Old(0, 3), Len(inq) + 1, rest)
  <1>1. stage = "xdata" /\ Reading /\ rest = 3
    BY DEF ReadUnexpectedData, Read, Reading, RpcInv, ControlInv
  <1>2. (Full /\ Body(b1)) \/ (Part /\ Body(b2))
    BY <1>1 DEF ReadUnexpectedData, Read, Full, Part
  <1>3. PICK b : Took(b) /\ Body(b)
    <2>1. \A i \in 1 .. rest : Old(0, 3)[i] \in Bytes
      BY <1>1, OldBytes
    <2> QED BY <1>1, <1>2, <2>1, FullTook, PartTook
  <1>4. Decode(b) % (Base * Base) \in Nat
    <2>1. Decode(b) \in Nat
      BY <1>3, DecodeBytes DEF Took
    <2>2. Base * Base \in Nat /\ Base * Base > 0
      BY BaseFacts
    <2> QED BY <2>1, <2>2, DivisionBy
  <1>5. \A d, m : ~InLine(b, d, m)
    BY <1>1, NotInLine
  <1> QED BY <1>1, <1>3, <1>4, <1>5, DiscardStep

LEMMA ReadUnexpectedOldStep == ASSUME RpcInv, ReadUnexpectedOld PROVE ReadStep
  <1> DEFINE Body(b) == Discard(Decode(Tail(b)), "NO_CMD_MSG")
             b1 == First(inq, rest)
             b2(v) == inq \o SubSeq(Unset(3, v), Len(inq) + 1, rest)
  <1>1. stage = "xold" /\ Reading /\ rest = 3
    BY DEF ReadUnexpectedOld, Read, Reading, RpcInv, ControlInv
  <1>2. PICK v \in {0, Base - 1} : (Full /\ Body(b1)) \/ (Part /\ Body(b2(v)))
    BY <1>1 DEF ReadUnexpectedOld, Read, Full, Part
  <1>3. PICK b : Took(b) /\ Body(b)
    <2>1. v \in Nat
      BY BaseFacts
    <2>2. \A i \in 1 .. rest : Unset(3, v)[i] \in Bytes
      BY <1>1, <2>1, OldBytes
    <2> QED BY <1>1, <1>2, <2>2, FullTook, PartTook
  <1>4. Decode(Tail(b)) \in Nat
    <2>1. b \in Seq(Bytes) /\ b # <<>>
      BY <1>1, <1>3 DEF Took
    <2>2. Tail(b) \in Seq(Bytes)
      BY <2>1, HeadTailProperties
    <2> QED BY <2>2, DecodeBytes
  <1>5. \A d, m : ~InLine(b, d, m)
    BY <1>1, NotInLine
  <1> QED BY <1>1, <1>3, <1>4, <1>5, DiscardStep

LEMMA ReadUnexpectedCmdStep == ASSUME RpcInv, ReadUnexpectedCmd PROVE ReadStep
  <1> DEFINE b1 == First(inq, rest)
             b2 == inq \o SubSeq(Old(0, 2), Len(inq) + 1, rest)
  <1>1. stage = "xcmd" /\ Reading /\ rest = 2
    BY DEF ReadUnexpectedCmd, Read, Reading, RpcInv, ControlInv
  <1>2. (Full \/ Part) /\ Expect("xsize", 1)
    BY <1>1 DEF ReadUnexpectedCmd, Read, Full, Part
  <1>3. PICK b : Took(b)
    <2>1. \A i \in 1 .. rest : Old(0, 2)[i] \in Bytes
      BY <1>1, OldBytes
    <2> QED BY <1>1, <1>2, <2>1, FullTook, PartTook
  <1>4. Wants("xsize", 1)
    BY DEF Wants, Stages
  <1>5. \A d, m : ~InLine(b, d, m)
    BY <1>1, NotInLine
  <1> QED BY <1>1, <1>2, <1>3, <1>4, <1>5, AsideStep

LEMMA ReadUnexpectedSizeStep == ASSUME RpcInv, ReadUnexpectedSize PROVE ReadStep
  <1> DEFINE b == First(inq, rest)
  <1>1. stage = "xsize" /\ Reading /\ rest = 1
    BY DEF ReadUnexpectedSize, Read, Reading, RpcInv, ControlInv
  <1>2. (Full /\ Discard(b[1].v, "NO_DATA_MSG")) \/ Part
    BY <1>1 DEF ReadUnexpectedSize, Read, Full, Part
  <1>3. Took(b) /\ Discard(b[1].v, "NO_DATA_MSG")
    BY <1>1, <1>2, NoPart, FullTook
  <1> HIDE DEF b
  <1>4. b[1].v \in Nat
    <2>1. b \in Seq(Bytes) /\ Len(b) = 1
      BY <1>1, <1>3 DEF Took
    <2> QED BY <2>1, FirstValue, Zenon
  <1>5. \A d, m : ~InLine(b, d, m)
    BY <1>1, NotInLine
  <1> QED BY <1>1, <1>3, <1>4, <1>5, DiscardStep

LEMMA DataSinkStep == ASSUME RpcInv, DataSink PROVE ReadStep
  <1>1. PICK e \in {"NO_CMD_MSG", "NO_DATA_MSG", "WRONG_DATA_SIZE"} :
          stage = e /\ (Full \/ Part) /\ Throw(e)
    BY DEF DataSink, Read, Full, Part
  <1>2. Reading /\ rest \in Nat
    BY <1>1 DEF Reading, RpcInv, TypeOK
  <1>3. PICK b : Took(b)
    <2>1. \A i \in 1 .. rest : Unset(rest, 0)[i] \in Bytes
      BY <1>2, OldBytes
    <2> QED BY <1>1, <1>2, <2>1, FullTook, PartTook
  <1>4. \A d, m : ~InLine(b, d, m)
    BY <1>1, NotInLine
  <1>5. ~InStep' /\ ReadFrame
    BY <1>1, <1>2, <1>3, <1>4, OutOfStep DEF Throw, Took
  <1> QED BY <1>1, <1>2, <1>5, ThrowStep DEF Results

LEMMA ReadFailsStep == ASSUME RpcInv, ReadFails PROVE ReadStep
  <1>1. PICK n \in 0 .. Len(inq) : inq' = Skip(inq, n)
    BY DEF ReadFails
  <1>2. inq \in Seq(Bytes)
    BY DEF RpcInv, TypeOK
  <1>3. inq' \in Seq(Bytes)
    BY <1>1, <1>2, CutFacts
  <1>4. ReadFrame /\ Reading /\ Throw("READ_FAILED") /\ ~InStep'
    BY <1>3 DEF ReadFails, ReadFrame, RpcInv, TypeOK, InStep
  <1> QED BY <1>4, ThrowStep DEF Results

LEMMA ReadCmdStep == ASSUME RpcInv, ReadCmd PROVE ReadStep
  <1> DEFINE Body(b) == GoTo("size", 1) /\ mcmd' = Decode(b) /\ UNCHANGED <<cache, par, data, suspect>>
             b1 == First(inq, rest)
             b2 == inq \o SubSeq(Old(Id(fn), 2), Len(inq) + 1, rest)
  <1>1. stage = "cmd" /\ Reading /\ rest = 2
    BY DEF ReadCmd, Read, Reading, RpcInv, ControlInv
  <1>2. (Full /\ Body(b1)) \/ (Part /\ Body(b2))
    BY <1>1 DEF ReadCmd, Read, Full, Part
  <1>3. PICK b : Took(b) /\ Body(b)
    <2>1. Id(fn) \in Nat
      BY <1>1, IdFacts DEF RpcInv
    <2>2. \A i \in 1 .. rest : Old(Id(fn), 2)[i] \in Bytes
      BY <1>1, <2>1, OldBytes
    <2> QED BY <1>1, <1>2, <2>2, FullTook, PartTook
  <1>4. mcmd' \in Nat
    BY <1>3, DecodeBytes DEF Took
  <1>5. Wants("size", 1)
    BY DEF Wants, Stages
  <1>6. ASSUME NEW d, NEW m, InLine(b, d, m), NEW r, r = m + rest PROVE At(d, r)'
    <2>1. m = 1
      BY <1>1, <1>6 DEF InLine, At
    <2>2. b[1] = Answer(d)[2] /\ b[2] = Answer(d)[3] /\ Len(b) = 2
      BY <1>1, <1>3, <1>6, <2>1 DEF InLine, Took
    <2>3. Decode(b) = Id(fn)
      BY <1>6, <2>2 DEF InLine, Shaped
    <2> QED BY <1>1, <1>3, <1>6, <2>1, <2>3 DEF At, GoTo, Id
  <1> QED BY <1>1, <1>3, <1>4, <1>5, <1>6, ExpectStep

LEMMA AllRead ==
  ASSUME NEW a \in Seq(Bytes), NEW q \in Seq(Bytes), NEW p \in Seq(Bytes), q \o p = Skip(a, Len(a))
  PROVE  q = <<>> /\ p = <<>>
  <1>1. Len(a) \in Nat /\ Len(a) <= Len(a)
    OBVIOUS
  <1>2. Skip(a, Len(a)) \in Seq(Bytes) /\ Len(Skip(a, Len(a))) = Len(a) - Len(a)
    BY <1>1, CutFacts
  <1>3. q \o p = <<>>
    BY <1>1, <1>2
  <1> QED BY <1>3, ConcatEqualIffEmpty

\* The parameters p of the reply are there, b being the bytes read last.
ParamsIn(b, p) ==
  \A d, m : InLine(b, d, m) =>
    /\ m + rest = 4 + Size(fn) /\ mcmd = Id(fn) /\ Len(p) = Size(fn)
    /\ \A i \in 1 .. Size(fn) : p[i] = Answer(d)[4 + i]

LEMMA AcceptStep ==
  ASSUME RpcInv, stage \in {"size", "par"}, NEW b, Took(b), NEW p \in Seq(Bytes), Accept(p), ParamsIn(b, p)
  PROVE  ReadStep
  <1>0. /\ Reading /\ ReadFrame /\ par' = p /\ data' = data /\ data \in Seq(Bytes) /\ mcmd \in Nat
        /\ TypeOK /\ ControlInv /\ stage # "idle"
    BY DEF Reading, Took, Accept, RpcInv, TypeOK
  <1>1. fn = GetRpcCallId \/ (fn \in Fn /\ fn # GetRpcCallId)
    BY <1>0, IdFacts
  <1>2. ASSUME InStep'
        PROVE  /\ InStep /\ ~dirty' /\ ~suspect
               /\ \E d, m : InLine(b, d, m)
               /\ mcmd = Id(fn) /\ Len(p) = Size(fn) /\ Ofs(p) \cup Ofs(data) \subseteq {own}
    <2>1. ~dirty' /\ ~suspect /\ ~suspect'
      BY <1>2 DEF InStep, Accept
    <2>2. PICK d, m : InLine(b, d, m)
      BY <1>0, <2>1, ReadInStep
    <2>3. InStep
      BY <1>0, <2>1 DEF InStep, ReadFrame
    <2>4. Ofs(p) \subseteq {own}
      <3> SUFFICES ASSUME NEW i \in 1 .. Len(p) PROVE p[i].k = own
        BY DEF Ofs
      <3>1. /\ p[i] = Answer(d)[4 + i] /\ i \in 1 .. Size(fn)
        BY <2>2 DEF ParamsIn
      <3>2. /\ \A j \in 1 .. Len(Answer(d)) : Answer(d)[j].k = own
            /\ m + rest \in 0 .. Len(Answer(d)) /\ m + rest = 4 + Size(fn) /\ Answer(d) \in Seq(Bytes)
        BY <2>2 DEF InLine, Shaped, ParamsIn
      <3>3. 4 + i \in 1 .. Len(Answer(d))
        <4>1. Size(fn) \in Nat /\ Len(Answer(d)) \in Nat
          BY <1>0, <3>2, IdFacts
        <4> QED BY <4>1, <3>1, <3>2
      <3> QED BY <3>1, <3>2, <3>3
    <2>5. Ofs(data) \subseteq {own}
      BY <1>0, <2>3 DEF RpcInv, StepInv
    <2> QED BY <2>1, <2>2, <2>3, <2>4, <2>5 DEF ParamsIn
  <1>3. CASE mcmd # Id(fn) \/ Len(p) # Size(fn)
    <2>1. PICK e \in {"UNKNOWN_CMD", "CMD_PAR_SIZE"} : Leave(e) /\ UNCHANGED <<cache, suspect>>
      BY <1>3 DEF Accept
    <2>2. ~InStep'
      BY <1>2, <1>3
    <2> QED BY <1>0, <2>1, <2>2, EndStep DEF Results
  <1>4. CASE mcmd = Id(fn) /\ Len(p) = Size(fn) /\ fn = GetRpcCallId
    <2>1. /\ cache' = [cache EXCEPT ![outer] = AsId(Decode(p))]
          /\ suspect' = (suspect \/ dirty') /\ GoTo("gotId", 0) /\ UNCHANGED mcmd
      BY <1>4 DEF Accept
    <2>2. /\ UNCHANGED <<connected, devQ, devId, pend, exec, outQ, k, calls, opens, own>>
          /\ UNCHANGED <<fn, outer, result, link, linking, missing, verdict>>
          /\ stage' = "gotId" /\ rest' = 0
      BY <1>0, <2>1 DEF ReadFrame, device, GoTo, linker
    <2>3. outer \in Fn /\ cache \in [Fn -> Int] /\ AsId(Decode(p)) \in Int
      <3>1. Decode(p) \in Nat
        BY DecodeBytes
      <3> QED BY <1>0, <1>4, <3>1 DEF ControlInv, TypeOK, AsId
    <2>4. TypeOK'
      BY <1>0, <2>1, <2>2, <2>3 DEF TypeOK, ReadFrame, Stages
    <2>5. QueueInv'
      BY <2>1, <2>2 DEF RpcInv, QueueInv, AllSilent, AllKnown, Silent, Known
    <2>6. ControlInv'
      BY <1>0, <1>4, <2>2 DEF ControlInv, Reading
    <2>7. NoFaults'
      BY <1>0, <2>1 DEF RpcInv, NoFaults, InStep, ReadFrame
    <2>8. ASSUME InStep'
          PROVE  inq' = <<>> /\ pend' = <<>> /\ devQ = <<>> /\ cache'[outer] = devId[outer]
      <3>1. PICK d, m : InLine(b, d, m)
        BY <1>2, <2>8
      <3> DEFINE a == Answer(d)
      <3>2. /\ a \in Seq(Bytes) /\ Len(a) = (4 + Size(fn)) + 0 /\ m + rest = 4 + Size(fn)
            /\ inq' \o pend' = Skip(a, m + rest) /\ devQ = <<>>
        BY <1>4, <3>1 DEF InLine, Shaped, ParamsIn, HasData
      <3> HIDE DEF a
      <3>3. Len(a) = m + rest
        BY <1>0, <3>2, IdFacts
      <3>4. inq' \in Seq(Bytes) /\ pend' \in Seq(Bytes)
        BY <2>4 DEF TypeOK
      <3>5. inq' = <<>> /\ pend' = <<>>
        BY <3>2, <3>3, <3>4, AllRead, Zenon
      <3>6. AsId(Decode(p)) = devId[outer]
        <4>1. Len(p) = IdSize /\ \A i \in 1 .. IdSize : p[i] = Answer(d)[4 + i]
          BY <1>4, <3>1 DEF ParamsIn, Size
        <4> QED BY <1>4, <3>1, <4>1 DEF InLine, Shaped
      <3> QED BY <2>1, <2>3, <3>2, <3>5, <3>6
    <2>9. CacheSound'
      <3> SUFFICES ASSUME ~suspect', NEW f \in Fn PROVE cache'[f] \in {-1, devId[f]}
        BY <2>2 DEF CacheSound
      <3>1. InStep' /\ ~suspect
        BY <1>0, <2>1 DEF InStep, ReadFrame
      <3>2. CASE f = outer
        BY <2>8, <3>1, <3>2
      <3>3. CASE f # outer
        <4>1. cache[f] \in {-1, devId[f]}
          BY <3>1 DEF RpcInv, CacheSound
        <4> QED BY <2>1, <2>3, <3>3, <4>1
      <3> QED BY <3>2, <3>3
    <2>10. LinkInv'
      BY <1>0, <1>2, <2>2 DEF RpcInv, LinkInv
    <2>11. StepInv'
      <3> SUFFICES ASSUME InStep' PROVE StepInv'
        BY DEF StepInv
      <3>1. (Ofs(par) \cup Ofs(data))' \subseteq {own'}
        BY <1>0, <1>2, <2>2 DEF Ofs
      <3>2. AllSilent(devQ)'
        BY <2>2, <2>8 DEF AllSilent
      <3> QED BY <2>2, <2>8, <3>1, <3>2 DEF StepInv, Reading
    <2> QED BY <1>4, <2>2, <2>4, <2>5, <2>6, <2>7, <2>9, <2>10, <2>11 DEF ReadStep, RpcInv
  <1>5. CASE mcmd = Id(fn) /\ Len(p) = Size(fn) /\ fn # GetRpcCallId /\ HasData(fn)
    <2>1. GoTo("dtype", 1) /\ UNCHANGED <<cache, mcmd, data, suspect>>
      BY <1>5 DEF Accept
    <2>2. Wants("dtype", 1) /\ mcmd' \in Nat
      BY <1>0, <1>1, <1>5, <2>1 DEF Wants, Stages
    <2>3. ASSUME InStep' PROVE \E m : Reached(m)
      <3>1. PICK d, m : InLine(b, d, m)
        BY <1>2, <2>3
      <3>2. PICK r : r = m + rest
        OBVIOUS
      <3>3. At(d, r)'
        BY <2>1, <3>1, <3>2 DEF At, GoTo, ParamsIn, Size
      <3> QED BY <3>1, <3>2, <3>3 DEF Reached, InLine
    <2>4. InStep' => (\E m : Reached(m)) /\ Ofs(par') \cup Ofs(data') \subseteq {own}
      BY <1>0, <1>2, <2>3
    <2> QED BY <1>0, <2>1, <2>2, <2>4, MoveStep
  <1>6. CASE mcmd = Id(fn) /\ Len(p) = Size(fn) /\ fn # GetRpcCallId /\ ~HasData(fn)
    <2>1. Leave("ok") /\ UNCHANGED <<cache, suspect>>
      BY <1>6 DEF Accept
    <2>2. ASSUME InStep' PROVE devQ = <<>> /\ inq' = <<>> /\ pend' = <<>>
      <3>1. PICK d, m : InLine(b, d, m)
        BY <1>2, <2>2
      <3> DEFINE a == Answer(d)
      <3>2. /\ a \in Seq(Bytes) /\ Len(a) = (4 + Size(fn)) + 0 /\ m + rest = 4 + Size(fn)
            /\ inq' \o pend' = Skip(a, m + rest) /\ devQ = <<>>
        BY <1>6, <3>1 DEF InLine, Shaped, ParamsIn
      <3> HIDE DEF a
      <3>3. Len(a) = m + rest
        BY <1>0, <3>2, IdFacts
      <3>4. inq' \in Seq(Bytes) /\ pend' \in Seq(Bytes)
        BY <1>0 DEF TypeOK, ReadFrame, device
      <3> QED BY <3>2, <3>3, <3>4, AllRead, Zenon
    <2> QED BY <1>0, <1>2, <1>6, <2>1, <2>2, EndStep DEF Results
  <1> QED BY <1>3, <1>4, <1>5, <1>6

LEMMA ReadSizeStep == ASSUME RpcInv, ReadSize PROVE ReadStep
  <1> DEFINE b == First(inq, rest)
  <1>1. stage = "size" /\ Reading /\ rest = 1
    BY DEF ReadSize, Read, Reading, RpcInv, ControlInv
  <1>2. (Full /\ IF b[1].v = 0 THEN Accept(<<>>) ELSE Expect("par", b[1].v)) \/ Part
    BY <1>1 DEF ReadSize, Read, Full, Part
  <1>3. Took(b) /\ IF b[1].v = 0 THEN Accept(<<>>) ELSE Expect("par", b[1].v)
    BY <1>1, <1>2, NoPart, FullTook
  <1> HIDE DEF b
  <1>4. b[1].v \in Nat
    <2>1. b \in Seq(Bytes) /\ Len(b) = 1
      BY <1>1, <1>3 DEF Took
    <2> QED BY <2>1, FirstValue, Zenon
  <1>5. ASSUME NEW d, NEW m, InLine(b, d, m) PROVE m = 3 /\ b[1].v = Size(fn) /\ mcmd = Id(fn)
    <2>1. m = 3 /\ mcmd = Id(fn)
      BY <1>1, <1>5 DEF InLine, At
    <2>2. b[1] = Answer(d)[4]
      BY <1>1, <1>5, <2>1 DEF InLine
    <2> QED BY <1>5, <2>1, <2>2 DEF InLine, Shaped
  <1>6. CASE b[1].v = 0
    <2>1. Accept(<<>>) /\ <<>> \in Seq(Bytes)
      BY <1>3, <1>6
    <2>2. ParamsIn(b, <<>>)
      BY <1>1, <1>5, <1>6 DEF ParamsIn
    <2> QED BY <1>1, <1>3, <2>1, <2>2, AcceptStep
  <1>7. CASE b[1].v # 0
    <2>1. Expect("par", b[1].v) /\ Wants("par", b[1].v)
      BY <1>3, <1>4, <1>7 DEF Wants, Stages
    <2>2. GoTo("par", b[1].v) /\ mcmd' = mcmd /\ mcmd' \in Nat /\ UNCHANGED <<cache, par, data, suspect>>
      BY <2>1 DEF Expect, RpcInv, TypeOK
    <2>3. ASSUME NEW d, NEW m, InLine(b, d, m), NEW r, r = m + rest PROVE At(d, r)'
      <3>1. r = 4 /\ b[1].v = Size(fn) /\ mcmd = Id(fn)
        BY <1>1, <1>5, <2>3
      <3>2. cache' = cache /\ fn' = fn /\ stage' = "par" /\ rest' = b[1].v
        BY <2>2 DEF GoTo
      <3> QED BY <2>2, <3>1, <3>2 DEF At, Size, Id
    <2> QED BY <1>1, <1>3, <2>1, <2>2, <2>3, ExpectStep
  <1> QED BY <1>6, <1>7

LEMMA ReadParStep == ASSUME RpcInv, ReadPar PROVE ReadStep
  <1> DEFINE b1 == First(inq, rest)
             b2(v) == inq \o SubSeq(Unset(rest, v), Len(inq) + 1, rest)
  <1>1. stage = "par" /\ Reading /\ rest \in Nat
    BY DEF ReadPar, Read, Reading, RpcInv, TypeOK
  <1>2. PICK v \in {0, Base - 1} : (Full /\ Accept(b1)) \/ (Part /\ Accept(b2(v)))
    BY <1>1 DEF ReadPar, Read, Full, Part
  <1>3. PICK b : Took(b) /\ Accept(b)
    <2>1. v \in Nat
      BY BaseFacts
    <2>2. \A i \in 1 .. rest : Unset(rest, v)[i] \in Bytes
      BY <1>1, <2>1, OldBytes
    <2> QED BY <1>1, <1>2, <2>2, FullTook, PartTook
  <1>4. b \in Seq(Bytes) /\ Len(b) = rest
    BY <1>3 DEF Took
  <1>5. ParamsIn(b, b)
    <2> SUFFICES ASSUME NEW d, NEW m, InLine(b, d, m)
                 PROVE  /\ m + rest = 4 + Size(fn) /\ mcmd = Id(fn) /\ Len(b) = Size(fn)
                        /\ \A i \in 1 .. Size(fn) : b[i] = Answer(d)[4 + i]
      BY DEF ParamsIn
    <2>1. m = 4 /\ rest = Size(fn) /\ mcmd = Id(fn)
      BY <1>1 DEF InLine, At
    <2> QED BY <1>4, <2>1 DEF InLine
  <1> QED BY <1>1, <1>3, <1>4, <1>5, AcceptStep

LEMMA ReadDataTypeStep == ASSUME RpcInv, ReadDataType PROVE ReadStep
  <1> DEFINE Body(b) == \/ b[1].v = RPC_TYPE_DTB_DATA /\ Expect("dsize", 3)
                        \/ b[1].v = RPC_TYPE_DTB /\ Expect("xcmd", 2)
                        \/ b[1].v = RPC_TYPE_DTB_DATA_OLD /\ Expect("xold", 3)
                        \/ b[1].v \notin MessageTypes /\ Throw("WRONG_MSG_TYPE")
             b == First(inq, rest)
  <1>1. stage = "dtype" /\ Reading /\ fn \in Fn /\ HasData(fn)
    BY DEF ReadDataType, Read, Reading, RpcInv, ControlInv
  <1>2. (Full /\ Body(b)) \/ Part
    BY <1>1 DEF ReadDataType, Read, Full, Part
  <1>3. Full /\ Body(b)
    BY <1>1, <1>2, NoPart
  <1>4. Took(b) /\ ReadFrame
    BY <1>1, <1>3, FullTook DEF Took
  <1> HIDE DEF b
  <1>5. ASSUME NEW d, NEW m, InLine(b, d, m)
        PROVE  b[1].v = RPC_TYPE_DTB_DATA /\ m = 4 + Size(fn) /\ rest = 1
    <2>1. m = 4 + Size(fn) /\ rest = 1
      BY <1>1, <1>5 DEF InLine, At
    <2>2. b[1] = Answer(d)[(4 + Size(fn)) + 1]
      BY <1>5, <2>1 DEF InLine
    <2> QED BY <1>1, <1>5, <2>1, <2>2 DEF InLine, Shaped
  <1>6. mcmd \in Nat
    BY DEF RpcInv, TypeOK
  <1>7. CASE b[1].v = RPC_TYPE_DTB_DATA /\ Expect("dsize", 3)
    <2>1. GoTo("dsize", 3) /\ Wants("dsize", 3) /\ mcmd' \in Nat /\ UNCHANGED <<cache, par, data, suspect>>
      BY <1>1, <1>6, <1>7 DEF Expect, Wants, Stages
    <2>2. ASSUME NEW d, NEW m, InLine(b, d, m), NEW r, r = m + rest PROVE At(d, r)'
      BY <1>5, <2>1, <2>2 DEF At, GoTo, Size
    <2> QED BY <1>1, <1>4, <2>1, <2>2, ExpectStep
  <1>8. CASE b[1].v = RPC_TYPE_DTB /\ Expect("xcmd", 2)
    <2>1. Wants("xcmd", 2)
      BY DEF Wants, Stages
    <2>2. \A d, m : ~InLine(b, d, m)
      BY <1>5, <1>8 DEF RPC_TYPE_DTB, RPC_TYPE_DTB_DATA
    <2> QED BY <1>1, <1>4, <1>8, <2>1, <2>2, AsideStep
  <1>9. CASE b[1].v = RPC_TYPE_DTB_DATA_OLD /\ Expect("xold", 3)
    <2>1. Wants("xold", 3)
      BY DEF Wants, Stages
    <2>2. \A d, m : ~InLine(b, d, m)
      BY <1>5, <1>9 DEF RPC_TYPE_DTB_DATA, RPC_TYPE_DTB_DATA_OLD
    <2> QED BY <1>1, <1>4, <1>9, <2>1, <2>2, AsideStep
  <1>10. CASE b[1].v \notin MessageTypes /\ Throw("WRONG_MSG_TYPE")
    <2>1. \A d, m : ~InLine(b, d, m)
      BY <1>5, <1>10 DEF MessageTypes
    <2>2. ~InStep'
      BY <1>1, <1>4, <1>10, <2>1, OutOfStep DEF Throw
    <2> QED BY <1>1, <1>4, <1>10, <2>2, ThrowStep DEF Results
  <1> QED BY <1>3, <1>7, <1>8, <1>9, <1>10

LEMMA ReadDataSizeStep == ASSUME RpcInv, ReadDataSize PROVE ReadStep
  <1> DEFINE Body(b) ==
               LET n == Decode(b) IN
               IF Kind[fn] = "vector" /\ n % ElemSize # 0 THEN Discard(n, "WRONG_DATA_SIZE")
               ELSE IF n = 0 THEN Leave("ok") /\ UNCHANGED <<cache, par, data, suspect>>
               ELSE Expect(Kind[fn], n)
             b1 == First(inq, rest)
             b2 == inq \o SubSeq(Old(0, 3), Len(inq) + 1, rest)
  <1>1. stage = "dsize" /\ Reading /\ rest = 3 /\ fn \in Fn /\ HasData(fn)
        /\ fn # GetRpcCallId /\ Kind[fn] \in {"string", "vector"}
    BY DEF ReadDataSize, Read, Reading, RpcInv, ControlInv, HasData
  <1>2. (Full /\ Body(b1)) \/ (Part /\ Body(b2))
    BY <1>1 DEF ReadDataSize, Read, Full, Part
  <1>3. PICK b : Took(b) /\ Body(b)
    <2>1. \A i \in 1 .. rest : Old(0, 3)[i] \in Bytes
      BY <1>1, OldBytes
    <2> QED BY <1>1, <1>2, <2>1, FullTook, PartTook
  <1>4. PICK n : n = Decode(b)
    OBVIOUS
  <1>5. n \in Nat
    BY <1>3, <1>4, DecodeBytes DEF Took
  <1>6. ASSUME NEW d, NEW m, InLine(b, d, m)
        PROVE  /\ m = 4 + Size(fn) + 1 /\ n = Len(d) /\ (Kind[fn] = "vector" => n % ElemSize = 0)
               /\ Len(Answer(d)) = 4 + Size(fn) + 4 + n /\ Answer(d) \in Seq(Bytes) /\ Size(fn) \in Nat
    <2>1. m = 4 + Size(fn) + 1 /\ Size(fn) \in Nat
      BY <1>1, <1>6, IdFacts DEF InLine, At, RpcInv
    <2>2. Len(b) = 3 /\ \A i \in 1 .. 3 : b[i] = Answer(d)[(4 + Size(fn)) + 1 + i]
      BY <1>1, <1>3, <1>6, <2>1 DEF InLine, Took
    <2>3. Decode(b) = Len(d) /\ Answer(d) \in Seq(Bytes)
          /\ Len(Answer(d)) = (4 + Size(fn)) + (4 + Len(d)) /\ Len(d) \in Nat
      BY <1>1, <1>6, <2>2 DEF InLine, Shaped
    <2>4. Kind[fn] = "vector" => Len(d) % ElemSize = 0
      BY <1>1, <1>6 DEF InLine, Fits
    <2> QED BY <1>4, <2>1, <2>3, <2>4
  <1>7. CASE Kind[fn] = "vector" /\ n % ElemSize # 0
    <2>1. Discard(n, "WRONG_DATA_SIZE")
      BY <1>3, <1>4, <1>7
    <2>2. \A d, m : ~InLine(b, d, m)
      BY <1>6, <1>7
    <2> QED BY <1>1, <1>3, <1>5, <2>1, <2>2, DiscardStep
  <1>8. CASE ~(Kind[fn] = "vector" /\ n % ElemSize # 0) /\ n = 0
    <2>1. Leave("ok") /\ UNCHANGED <<cache, par, data, suspect>>
      BY <1>3, <1>4, <1>8
    <2>2. ReadFrame /\ par' = par /\ data' = data /\ par' \in Seq(Bytes) /\ data' \in Seq(Bytes)
      BY <1>3, <2>1 DEF Took, RpcInv, TypeOK
    <2>3. ASSUME InStep'
          PROVE  devQ = <<>> /\ inq' = <<>> /\ pend' = <<>> /\ Ofs(par') \cup Ofs(data') \subseteq {own}
      <3>1. ~dirty' /\ ~suspect /\ InStep
        BY <2>1, <2>2, <2>3 DEF InStep, ReadFrame
      <3>2. PICK d, m : InLine(b, d, m)
        BY <1>1, <1>3, <3>1, ReadInStep
      <3> DEFINE a == Answer(d)
      <3>3. a \in Seq(Bytes) /\ Len(a) = m + rest /\ inq' \o pend' = Skip(a, m + rest) /\ devQ = <<>>
        <4>1. Len(a) = m + rest /\ a \in Seq(Bytes)
          BY <1>1, <1>6, <1>8, <3>2
        <4> QED BY <3>2, <4>1 DEF InLine
      <3> HIDE DEF a
      <3>4. inq' \in Seq(Bytes) /\ pend' \in Seq(Bytes)
        BY <2>2 DEF RpcInv, TypeOK, ReadFrame, device
      <3>5. inq' = <<>> /\ pend' = <<>>
        BY <3>3, <3>4, AllRead, Zenon
      <3> QED BY <1>1, <2>2, <3>1, <3>3, <3>5 DEF RpcInv, StepInv
    <2> QED BY <1>1, <2>1, <2>2, <2>3, EndStep DEF Results
  <1>9. CASE ~(Kind[fn] = "vector" /\ n % ElemSize # 0) /\ n # 0
    <2>1. Expect(Kind[fn], n)
      BY <1>3, <1>4, <1>9
    <2>2. GoTo(Kind[fn], n) /\ mcmd' \in Nat /\ UNCHANGED <<cache, par, data, suspect>>
      BY <2>1 DEF Expect, RpcInv, TypeOK
    <2>3. Wants(Kind[fn], n)
      BY <1>1, <1>5, <1>9 DEF Wants, Stages
    <2>4. ASSUME NEW d, NEW m, InLine(b, d, m), NEW r, r = m + rest PROVE At(d, r)'
      <3>1. /\ r = 4 + Size(fn) + 4 /\ n = Len(d) /\ Size(fn) \in Nat
            /\ stage' = Kind[fn] /\ rest' = n /\ fn' = fn
        BY <1>1, <1>6, <2>2, <2>4 DEF GoTo
      <3>2. Size(fn)' = Size(fn)
        BY <3>1 DEF Size
      <3> QED BY <1>1, <1>5, <3>1, <3>2 DEF At
    <2> QED BY <1>1, <1>3, <2>2, <2>3, <2>4, ExpectStep
  <1> QED BY <1>7, <1>8, <1>9

\* The data of the reply, read to the end.
LEMMA DataEnd ==
  ASSUME RpcInv, Reading, NEW d, NEW n \in Nat, inq' \in Seq(Bytes), pend' \in Seq(Bytes),
         Shaped(Answer(d), d), HasData(fn), n = 4 + Size(fn) + 4 + Len(d),
         inq' \o pend' = Skip(Answer(d), n)
  PROVE  inq' = <<>> /\ pend' = <<>>
  <1> DEFINE a == Answer(d)
  <1>1. /\ a \in Seq(Bytes) /\ Len(a) = (4 + Size(fn)) + (4 + Len(d)) /\ Len(d) \in Nat
        /\ Size(fn) \in Nat
    BY IdFacts DEF Shaped, RpcInv, Reading
  <1> HIDE DEF a
  <1>2. Len(a) = n
    BY <1>1
  <1>3. inq' \o pend' = Skip(a, n)
    BY DEF a
  <1> QED BY <1>1, <1>2, <1>3, AllRead, Zenon

LEMMA ReadVectorStep == ASSUME RpcInv, ReadVector PROVE ReadStep
  <1> DEFINE Body(b) == Leave("ok") /\ data' = b /\ UNCHANGED <<cache, par, suspect>>
             b1 == First(inq, rest)
             b2 == inq \o SubSeq(Unset(rest, 0), Len(inq) + 1, rest)
  <1>1. stage = "vector" /\ Reading /\ rest \in Nat /\ fn \in Fn /\ HasData(fn) /\ fn # GetRpcCallId
    BY DEF ReadVector, Read, Reading, RpcInv, ControlInv, TypeOK, HasData
  <1>2. (Full /\ Body(b1)) \/ (Part /\ Body(b2))
    BY <1>1 DEF ReadVector, Read, Full, Part
  <1>3. PICK b : Took(b) /\ Body(b)
    <2>1. \A i \in 1 .. rest : Unset(rest, 0)[i] \in Bytes
      BY <1>1, OldBytes
    <2> QED BY <1>1, <1>2, <2>1, FullTook, PartTook
  <1>4. /\ ReadFrame /\ Leave("ok") /\ UNCHANGED <<cache, suspect>>
        /\ par' = par /\ data' = b /\ par' \in Seq(Bytes) /\ data' \in Seq(Bytes)
    BY <1>3 DEF Took, RpcInv, TypeOK
  <1>5. ASSUME InStep'
        PROVE  devQ = <<>> /\ inq' = <<>> /\ pend' = <<>> /\ Ofs(par') \cup Ofs(data') \subseteq {own}
    <2>1. ~dirty' /\ ~suspect /\ InStep
      BY <1>4, <1>5 DEF InStep, ReadFrame
    <2>2. (\E d, m : InLine(b, d, m)) /\ Ofs(b) \subseteq {own}
      BY <1>1, <1>3, <2>1, ReadInStep
    <2>3. PICK d, m : InLine(b, d, m)
      BY <2>2
    <2>4. m = 4 + Size(fn) + 4 /\ rest = Len(d) /\ devQ = <<>>
          /\ Shaped(Answer(d), d) /\ inq' \o pend' = Skip(Answer(d), m + rest)
      BY <1>1, <2>3 DEF InLine, At
    <2>5. PICK r : r = m + rest
      OBVIOUS
    <2>6. r \in Nat /\ r = 4 + Size(fn) + 4 + Len(d)
      BY <1>1, <2>4, <2>5, IdFacts DEF RpcInv
    <2>7. inq' \in Seq(Bytes) /\ pend' \in Seq(Bytes)
      BY <1>4 DEF RpcInv, TypeOK, ReadFrame, device
    <2>8. inq' = <<>> /\ pend' = <<>>
      BY <1>1, <2>4, <2>5, <2>6, <2>7, DataEnd
    <2> QED BY <1>1, <1>4, <2>1, <2>2, <2>4, <2>8 DEF RpcInv, StepInv
  <1> QED BY <1>1, <1>4, <1>5, EndStep DEF Results

LEMMA TailIsSkip == ASSUME NEW q \in Seq(Bytes), q # <<>> PROVE Tail(q) = Skip(q, 1)
  <1>1. Len(q) \in Nat /\ 1 <= Len(q)
    OBVIOUS
  <1>2. /\ Tail(q) \in Seq(Bytes) /\ Len(Tail(q)) = Len(q) - 1
        /\ \A i \in 1 .. Len(Tail(q)) : Tail(q)[i] = q[i + 1]
    BY HeadTailProperties
  <1>3. /\ Skip(q, 1) \in Seq(Bytes) /\ Len(Skip(q, 1)) = Len(q) - 1
        /\ \A i \in 1 .. Len(q) - 1 : Skip(q, 1)[i] = q[1 + i]
    BY <1>1, CutFacts
  <1>4. \A i \in 1 .. Len(q) - 1 : q[i + 1] = q[1 + i]
    BY <1>1
  <1>5. \A i \in 1 .. Len(Tail(q)) : Tail(q)[i] = Skip(q, 1)[i]
    BY <1>2, <1>3, <1>4
  <1> QED BY <1>2, <1>3, <1>5, SeqEqual

LEMMA ReadCharStep == ASSUME RpcInv, ReadChar PROVE ReadStep
  <1>0. TypeOK /\ ControlInv
    BY DEF RpcInv
  <1>1. /\ stage = "string" /\ Reading /\ inq # <<>> /\ fn \in Fn /\ HasData(fn) /\ fn # GetRpcCallId
        /\ inq \in Seq(Bytes) /\ pend \in Seq(Bytes) /\ data \in Seq(Bytes) /\ par \in Seq(Bytes)
        /\ rest \in Nat /\ rest > 0
    BY <1>0 DEF ReadChar, Reading, ControlInv, TypeOK, HasData
  <1>2. /\ inq' = Tail(inq) /\ data' = Append(data, Head(inq)) /\ par' = par
        /\ UNCHANGED <<connected, cache, par, own, device, outQ, k, calls, opens, dirty, suspect, atStart>>
    BY DEF ReadChar, marks
  <1>3. Head(inq) \in Bytes /\ Head(inq) = inq[1] /\ inq' = Skip(inq, 1) /\ inq' \in Seq(Bytes)
        /\ Len(inq) \in Nat /\ 1 <= Len(inq)
    BY <1>1, <1>2, HeadTailProperties, TailIsSkip
  <1>4. data' \in Seq(Bytes) /\ par' \in Seq(Bytes) /\ ReadFrame /\ pend' = pend
    BY <1>0, <1>1, <1>2, <1>3, AppendProperties DEF ReadFrame, TypeOK, device
  <1>5. ASSUME InStep'
        PROVE  /\ Ofs(par') \cup Ofs(data') \subseteq {own} /\ devQ = <<>>
               /\ \E d \in Payloads : \E n \in 0 .. Len(Answer(d)) :
                    /\ Fits(d) /\ At(d, n) /\ Shaped(Answer(d), d)
                    /\ n + 1 \in 0 .. Len(Answer(d)) /\ inq' \o pend' = Skip(Answer(d), n + 1)
    <2>1. InStep /\ StepInv /\ CacheSound
      BY <1>2, <1>5 DEF RpcInv, InStep
    <2>2. Answered /\ Ofs(par) \cup Ofs(data) \subseteq {own}
      BY <1>1, <2>1 DEF StepInv, Asked
    <2>3. PICK d \in Payloads : \E n \in 0 .. Len(Answer(d)) :
            Fits(d) /\ At(d, n) /\ inq \o pend = Skip(Answer(d), n)
      BY <2>2 DEF Answered
    <2>4. PICK n \in 0 .. Len(Answer(d)) :
            Fits(d) /\ At(d, n) /\ inq \o pend = Skip(Answer(d), n)
      BY <2>3
    <2> DEFINE a == Answer(d)
    <2>5. Shaped(a, d)
      BY <1>0, <1>1, <2>1, AnswerShape DEF InStep
    <2>6. a \in Seq(Bytes) /\ \A i \in 1 .. Len(a) : a[i].k = own
      BY <2>5 DEF Shaped
    <2> HIDE DEF a
    <2>7. n \in 0 .. Len(a) /\ inq \o pend = Skip(a, n)
      BY <2>4 DEF a
    <2>8. ReadOff(a, inq, pend, n, 1)
      BY <1>1, <1>3, <2>6, <2>7, LineRead
    <2>9. /\ n + 1 \in 0 .. Len(a) /\ inq' \o pend' = Skip(a, n + 1)
          /\ First(inq, 1)[1] = a[n + 1]
      BY <1>3, <1>4, <2>8 DEF ReadOff
    <2>10. Head(inq).k = own
      <3>1. First(inq, 1)[1] = inq[1]
        BY <1>1, <1>3, CutFacts
      <3>2. n + 1 \in 1 .. Len(a)
        BY <2>6, <2>7, <2>9
      <3> QED BY <1>3, <2>6, <2>9, <3>1, <3>2
    <2>11. Ofs(data') \subseteq {own}
      <3> SUFFICES ASSUME NEW i \in 1 .. Len(data') PROVE data'[i].k = own
        BY DEF Ofs
      <3>1. /\ Len(data') = Len(data) + 1 /\ Len(data) \in Nat
            /\ data'[Len(data) + 1] = Head(inq) /\ \A j \in 1 .. Len(data) : data'[j] = data[j]
        BY <1>1, <1>2, <1>3, AppendProperties
      <3>2. CASE i \in 1 .. Len(data)
        BY <2>2, <3>1, <3>2 DEF Ofs
      <3>3. CASE i = Len(data) + 1
        BY <2>10, <3>1, <3>3
      <3> QED BY <3>1, <3>2, <3>3
    <2> QED BY <1>2, <2>2, <2>4, <2>5, <2>9, <2>11 DEF Answered, a
  <1>6. CASE rest = 1
    <2>1. Leave("ok")
      BY <1>6 DEF ReadChar
    <2>2. ASSUME InStep' PROVE inq' = <<>> /\ pend' = <<>>
      <3>1. PICK d \in Payloads : \E n \in 0 .. Len(Answer(d)) :
              /\ Fits(d) /\ At(d, n) /\ Shaped(Answer(d), d)
              /\ n + 1 \in 0 .. Len(Answer(d)) /\ inq' \o pend' = Skip(Answer(d), n + 1)
        BY <1>5, <2>2
      <3>2. PICK n \in 0 .. Len(Answer(d)) :
              /\ Fits(d) /\ At(d, n) /\ Shaped(Answer(d), d)
              /\ n + 1 \in 0 .. Len(Answer(d)) /\ inq' \o pend' = Skip(Answer(d), n + 1)
        BY <3>1
      <3>3. PICK r : r = n + 1
        OBVIOUS
      <3>4. r \in Nat /\ r = 4 + Size(fn) + 4 + Len(d)
        <4>1. n = 4 + Size(fn) + 4 + Len(d) - rest
          BY <1>1, <3>2 DEF At
        <4>2. Size(fn) \in Nat /\ Len(d) \in Nat
          BY <1>0, <1>1, <3>2, IdFacts DEF Shaped
        <4> QED BY <1>6, <3>3, <4>1, <4>2
      <3> QED BY <1>1, <1>3, <1>4, <3>2, <3>3, <3>4, DataEnd
    <2>3. InStep' => /\ "ok" = "ok" /\ fn # GetRpcCallId
                     /\ devQ = <<>> /\ inq' = <<>> /\ pend' = <<>>
                     /\ Ofs(par') \cup Ofs(data') \subseteq {own}
      BY <1>1, <1>5, <2>2
    <2>4. UNCHANGED <<cache, suspect>> /\ "ok" \in Results
      BY <1>2 DEF Results
    <2> QED BY <1>1, <1>4, <2>1, <2>3, <2>4, EndStep
  <1>7. CASE rest # 1
    <2>1. GoTo("string", rest - 1) /\ mcmd' = mcmd /\ mcmd' \in Nat
      BY <1>0, <1>7 DEF ReadChar, TypeOK
    <2>2. PICK x : x = rest - 1
      OBVIOUS
    <2>3. GoTo("string", x) /\ Wants("string", x) /\ UNCHANGED <<cache, suspect>>
      BY <1>1, <1>2, <1>7, <2>1, <2>2 DEF Wants, Stages
    <2>4. ASSUME InStep' PROVE \E m : Reached(m)
      <3>1. PICK d \in Payloads : \E n \in 0 .. Len(Answer(d)) :
              /\ Fits(d) /\ At(d, n) /\ Shaped(Answer(d), d)
              /\ n + 1 \in 0 .. Len(Answer(d)) /\ inq' \o pend' = Skip(Answer(d), n + 1)
        BY <1>5, <2>4
      <3>2. PICK n \in 0 .. Len(Answer(d)) :
              /\ Fits(d) /\ At(d, n) /\ Shaped(Answer(d), d)
              /\ n + 1 \in 0 .. Len(Answer(d)) /\ inq' \o pend' = Skip(Answer(d), n + 1)
        BY <3>1
      <3>3. PICK r : r = n + 1
        OBVIOUS
      <3>4. At(d, r)'
        <4>1. /\ n = 4 + Size(fn) + 4 + Len(d) - rest /\ rest <= Len(d) /\ Kind[fn] = "string"
              /\ Size(fn) \in Nat /\ Len(d) \in Nat
          <5>1. n = 4 + Size(fn) + 4 + Len(d) - rest /\ rest <= Len(d) /\ Kind[fn] = "string"
            BY <1>1, <3>2 DEF At
          <5>2. Size(fn) \in Nat
            BY <1>0, <1>1, IdFacts
          <5>3. Len(d) \in Nat
            BY <3>2 DEF Shaped
          <5> QED BY <5>1, <5>2, <5>3
        <4>2. r = 4 + Size(fn) + 4 + Len(d) - x /\ x <= Len(d)
          <5>1. rest \in Nat
            BY <1>0 DEF TypeOK
          <5>2. \A c, l, y \in Nat : /\ (c + l - y) + 1 = c + l - (y - 1)
                                    /\ y <= l => y - 1 <= l
            OBVIOUS
          <5>3. 4 + Size(fn) + 4 \in Nat
            BY <4>1
          <5>4. /\ ((4 + Size(fn) + 4) + Len(d) - rest) + 1 = (4 + Size(fn) + 4) + Len(d) - (rest - 1)
                /\ rest - 1 <= Len(d)
            BY <4>1, <5>1, <5>2, <5>3
          <5> QED BY <2>2, <3>3, <4>1, <5>4, Zenon
        <4>3. stage' = "string" /\ rest' = x /\ fn' = fn
          BY <2>3 DEF GoTo
        <4> QED BY <4>1, <4>2, <4>3 DEF At, Size
      <3> QED BY <1>5, <2>4, <3>2, <3>3, <3>4 DEF Reached
    <2>5. InStep' => (\E m : Reached(m)) /\ Ofs(par') \cup Ofs(data') \subseteq {own}
      BY <1>5, <2>4
    <2> QED BY <1>1, <1>4, <2>1, <2>3, <2>5, MoveStep
  <1> QED BY <1>6, <1>7

-----------------------------------------------------------------------------
(* Requests on their way *)

\* A known request runs the function it was meant for, and no other.
LEMMA RunsKnown ==
  ASSUME devId \in Tables, NEW m \in Requests, Known(m)
  PROVE  Runs(m) = {m.fn} /\ (m.fn = GetRpcCallId <=> m.id = 1)
  <1>1. m.id \in Nat /\ \A f \in Fn : f # GetRpcCallId
    BY FnAssumption DEF Requests, GetRpcCallId
  <1>2. CASE m.fn = GetRpcCallId /\ m.id = 1
    BY <1>2 DEF Runs
  <1>3. CASE m.fn \in Fn /\ m.id = devId[m.fn]
    <2>1. m.id # 1 /\ m.id # -1
      BY <1>1, <1>3, TableFacts
    <2>2. Runs(m) = {g \in Fn : devId[g] = m.id}
      BY <2>1 DEF Runs
    <2>3. \A g \in Fn : devId[g] = m.id <=> g = m.fn
      <3> SUFFICES ASSUME NEW g \in Fn, devId[g] = m.id PROVE g = m.fn
        BY <1>3
      <3> QED BY <1>3, <2>1, TableFacts
    <2> QED BY <1>1, <1>3, <2>1, <2>2, <2>3
  <1> QED BY <1>2, <1>3 DEF Known

LEMMA QuietSilent ==
  ASSUME devId \in Tables, NEW q \in Seq(Requests), AllKnown(q)
  PROVE  AllSilent(q) <=> \A i \in 1 .. Len(q) : \A g \in Runs(q[i]) : ~Replies(g)
  <1> SUFFICES ASSUME NEW i \in 1 .. Len(q)
               PROVE  Silent(q[i]) <=> \A g \in Runs(q[i]) : ~Replies(g)
    BY DEF AllSilent
  <1>1. q[i] \in Requests /\ Known(q[i])
    BY DEF AllKnown
  <1>2. Runs(q[i]) = {q[i].fn}
    BY <1>1, RunsKnown
  <1>3. (q[i].fn \in Fn \/ q[i].fn = GetRpcCallId) /\ \A f \in Fn : f # GetRpcCallId
    BY <1>1, FnAssumption DEF Known, GetRpcCallId
  <1> QED BY <1>2, <1>3 DEF Replies, Silent

LEMMA ConcatRequests ==
  ASSUME NEW s \in Seq(Requests), NEW t \in Seq(Requests)
  PROVE  /\ s \o t \in Seq(Requests)
         /\ AllSilent(s) /\ AllSilent(t) => AllSilent(s \o t)
         /\ AllKnown(s) /\ AllKnown(t) => AllKnown(s \o t)
  <1>1. /\ s \o t \in Seq(Requests) /\ Len(s \o t) = Len(s) + Len(t)
        /\ \A i \in 1 .. Len(s) + Len(t) : (s \o t)[i] = IF i <= Len(s) THEN s[i] ELSE t[i - Len(s)]
    BY ConcatProperties
  <1>2. Len(s) \in Nat /\ Len(t) \in Nat
    OBVIOUS
  <1>3. ASSUME NEW i \in 1 .. Len(s \o t)
        PROVE  \/ \E j \in 1 .. Len(s) : (s \o t)[i] = s[j]
               \/ \E j \in 1 .. Len(t) : (s \o t)[i] = t[j]
    <2>1. CASE i <= Len(s)
      BY <1>1, <1>2, <2>1
    <2>2. CASE i > Len(s)
      <3>1. i - Len(s) \in 1 .. Len(t) /\ (s \o t)[i] = t[i - Len(s)]
        BY <1>1, <1>2, <2>2
      <3> QED BY <3>1
    <2> QED BY <1>2, <2>1, <2>2
  <1>4. AllSilent(s) /\ AllSilent(t) => AllSilent(s \o t)
    BY <1>3 DEF AllSilent
  <1>5. AllKnown(s) /\ AllKnown(t) => AllKnown(s \o t)
    BY <1>3 DEF AllKnown
  <1> QED BY <1>1, <1>4, <1>5

LEMMA AppendRequest ==
  ASSUME NEW s \in Seq(Requests), NEW m \in Requests
  PROVE  /\ Append(s, m) \in Seq(Requests) /\ Append(s, m) # <<>>
         /\ AllSilent(s) /\ Silent(m) => AllSilent(Append(s, m))
         /\ AllKnown(s) /\ Known(m) => AllKnown(Append(s, m))
         /\ Append(s, m)[Len(Append(s, m))] = m
         /\ Len(Append(s, m)) = Len(s) + 1
         /\ \A i \in 1 .. Len(s) : Append(s, m)[i] = s[i]
  <1>1. /\ Append(s, m) \in Seq(Requests) /\ Len(Append(s, m)) = Len(s) + 1
        /\ \A i \in 1 .. Len(s) : Append(s, m)[i] = s[i]
        /\ Append(s, m)[Len(s) + 1] = m /\ Len(s) \in Nat
    BY AppendProperties
  <1>2. \A i \in 1 .. Len(Append(s, m)) : i \in 1 .. Len(s) \/ i = Len(s) + 1
    BY <1>1
  <1>3. Append(s, m) # <<>>
    BY <1>1
  <1>4. AllSilent(s) /\ Silent(m) => AllSilent(Append(s, m))
    BY <1>1, <1>2 DEF AllSilent
  <1>5. AllKnown(s) /\ Known(m) => AllKnown(Append(s, m))
    BY <1>1, <1>2 DEF AllKnown
  <1> QED BY <1>1, <1>3, <1>4, <1>5

\* A flush puts the request behind all others.
LEMMA FlushRequest ==
  ASSUME NEW q \in Seq(Requests), NEW o \in Seq(Requests), NEW m \in Requests
  PROVE  LET r == q \o Append(o, m) IN
         /\ r \in Seq(Requests) /\ r # <<>> /\ r[Len(r)] = m
         /\ AllSilent(q) /\ AllSilent(o) => \A i \in 1 .. Len(r) - 1 : Silent(r[i])
         /\ AllKnown(q) /\ AllKnown(o) /\ Known(m) => AllKnown(r)
         /\ r = Append(q \o o, m)
  <1> DEFINE r == q \o Append(o, m)
             u == <<m>>
  <1>1. q \o o \in Seq(Requests) /\ (AllSilent(q) /\ AllSilent(o) => AllSilent(q \o o))
        /\ (AllKnown(q) /\ AllKnown(o) => AllKnown(q \o o))
    BY ConcatRequests
  <1>2. u \in Seq(Requests)
    OBVIOUS
  <1>3. Append(o, m) = o \o u
    BY AppendIsConcat
  <1>4. Append(q \o o, m) = (q \o o) \o u
    BY <1>1, AppendIsConcat
  <1>5. (q \o o) \o u = q \o (o \o u)
    BY <1>2, ConcatAssociative
  <1>6. r = Append(q \o o, m)
    BY <1>3, <1>4, <1>5
  <1> DEFINE s == q \o o
  <1> HIDE DEF s, r
  <1>7. s \in Seq(Requests) /\ r = Append(s, m)
    BY <1>1, <1>6 DEF s
  <1>8. /\ r \in Seq(Requests) /\ r # <<>> /\ r[Len(r)] = m
        /\ AllKnown(s) /\ Known(m) => AllKnown(r)
        /\ Len(r) = Len(s) + 1 /\ \A i \in 1 .. Len(s) : r[i] = s[i]
    BY <1>7, AppendRequest
  <1>9. ASSUME AllSilent(q), AllSilent(o), NEW i \in 1 .. Len(r) - 1 PROVE Silent(r[i])
    <2>1. Len(s) \in Nat
      BY <1>7
    <2>2. i \in 1 .. Len(s) /\ r[i] = s[i]
      BY <1>8, <2>1
    <2> QED BY <1>1, <1>9, <2>2 DEF AllSilent, s
  <1> QED BY <1>1, <1>6, <1>8, <1>9 DEF r, s

-----------------------------------------------------------------------------
(* Steps of the calling stub *)

\* What a step that sends leaves alone.
SendFrame == UNCHANGED <<connected, cache, devId, pend, exec, inq, opens, dirty, suspect, atStart>>

LEMMA SendFrameInv ==
  ASSUME RpcInv, SendFrame
  PROVE  CacheSound' /\ NoFaults' /\ (InStep' <=> InStep)
  BY DEF RpcInv, SendFrame, CacheSound, NoFaults, InStep

\* The request sent is the one its answer is made for.
LEMMA RequestIs ==
  ASSUME RpcInv, NEW f, NEW arg \in Nat,
         f = GetRpcCallId \/ (f \in Fn /\ cache[f] >= 0),
         f = GetRpcCallId => arg \in Fn
  PROVE  /\ Request(f, arg) \in Requests
         /\ ~suspect => Known(Request(f, arg))
         /\ f \in Fn => f # GetRpcCallId
  <1>1. \A g \in Fn : g # GetRpcCallId /\ g \in Nat
    BY FnAssumption DEF GetRpcCallId
  <1>2. k \in Nat /\ cache \in [Fn -> Int]
    BY DEF RpcInv, TypeOK
  <1>3. Id(f) \in Nat /\ f \in Nat
    BY <1>1, <1>2 DEF Id, GetRpcCallId
  <1>4. Request(f, arg) \in Requests
    BY <1>2, <1>3 DEF Request, Requests
  <1>5. ~suspect => Known(Request(f, arg))
    <2>1. CASE f = GetRpcCallId
      BY <2>1 DEF Known, Request, Id
    <2>2. CASE f # GetRpcCallId
      <3>1. ~suspect => cache[f] = devId[f]
        <4>1. ~suspect => cache[f] \in {-1, devId[f]}
          BY <2>2 DEF RpcInv, CacheSound
        <4> QED BY <2>2, <4>1
      <3> QED BY <2>2, <3>1 DEF Known, Request, Id
    <2> QED BY <2>1, <2>2
  <1> QED BY <1>1, <1>4, <1>5

\* The stub of a function with a reply waits for it.
LEMMA AskStep ==
  ASSUME RpcInv, connected, stage \in {"idle", "gotId"}, SendFrame, calls' \in Nat,
         NEW f, NEW arg \in Nat, Replies(f), SendRequest(f, arg),
         \/ f = GetRpcCallId /\ arg \in Fn /\ outer' = arg /\ (linking => link # <<>> /\ arg = Head(link))
         \/ f \in Fn /\ cache[f] >= 0 /\ arg = 0 /\ outer' = 0 /\ ~linking
  PROVE  RpcInv'
  <1> DEFINE m == Request(f, arg)
             q == devQ \o Append(outQ, m)
  <1>0. TypeOK /\ QueueInv /\ LinkInv /\ ControlInv /\ StepInv
    BY DEF RpcInv
  <1>1. /\ m \in Requests /\ (~suspect => Known(m)) /\ (f \in Fn => f # GetRpcCallId)
    <2>1. \A g \in Fn : g # GetRpcCallId
      BY FnAssumption DEF GetRpcCallId
    <2>2. f = GetRpcCallId => arg \in Fn
      BY <2>1
    <2> QED BY <2>2, RequestIs
  <1>2. /\ k' = k + 1 /\ own' = k + 1 /\ par' = <<>> /\ data' = <<>>
        /\ outQ' = <<>> /\ devQ' = q
        /\ stage' = "type" /\ fn' = f /\ rest' = 1
        /\ UNCHANGED <<mcmd, result, link, linking, missing, verdict>>
    BY DEF SendRequest, SendFlush, linker
  <1>3. UNCHANGED <<connected, cache, devId, pend, exec, inq, opens, dirty, suspect, atStart>>
    BY DEF SendFrame
  <1>4. m = Sent'
    <2>1. Sent' = [id |-> IF f = GetRpcCallId THEN 1 ELSE cache[f],
                   arg |-> IF f = GetRpcCallId THEN outer' ELSE 0, fn |-> f, k |-> k + 1]
      BY <1>2, <1>3 DEF Sent, Id
    <2>2. m = [id |-> IF f = GetRpcCallId THEN 1 ELSE cache[f], arg |-> arg, fn |-> f, k |-> k + 1]
      BY DEF m, Request, Id
    <2>3. IF f = GetRpcCallId THEN outer' = arg ELSE arg = 0
      BY <1>1
    <2> QED BY <2>1, <2>2, <2>3
  <1> HIDE DEF m
  <1>5. /\ q \in Seq(Requests) /\ q # <<>> /\ q[Len(q)] = m
        /\ AllSilent(devQ) /\ AllSilent(outQ) => \A i \in 1 .. Len(q) - 1 : Silent(q[i])
        /\ AllKnown(devQ) /\ AllKnown(outQ) /\ Known(m) => AllKnown(q)
    <2>1. devQ \in Seq(Requests) /\ outQ \in Seq(Requests)
      BY <1>0 DEF TypeOK
    <2> QED BY <1>1, <2>1, FlushRequest
  <1> HIDE DEF q
  <1>6. TypeOK'
    <2>1. k' \in Nat /\ own' \in 0 .. k'
      BY <1>0, <1>2 DEF TypeOK
    <2>2. outer' \in Fn \cup {0}
      OBVIOUS
    <2> QED BY <1>0, <1>2, <1>3, <1>5, <2>1, <2>2 DEF TypeOK, Stages
  <1>7. CacheSound' /\ NoFaults' /\ (InStep' <=> InStep)
    BY SendFrameInv
  <1>8. QueueInv'
    BY <1>0, <1>1, <1>2, <1>3, <1>5 DEF QueueInv, AllSilent, AllKnown, Known
  <1>9. ControlInv'
    <2>1. f \in Fn => Kind[f] # "void"
      BY <1>1 DEF Replies
    <2> QED BY <1>1, <1>2, <1>3, <2>1 DEF ControlInv, Reading
  <1>10. LinkInv'
    BY <1>0, <1>2, <1>3, <1>7 DEF LinkInv
  <1>11. StepInv'
    <2> SUFFICES ASSUME InStep' PROVE StepInv'
      BY DEF StepInv
    <2>1. inq = <<>> /\ pend = <<>> /\ AllSilent(devQ) /\ AllSilent(outQ)
      BY <1>0, <1>7 DEF StepInv, QueueInv
    <2>2. \A i \in 1 .. Len(q) - 1 : Silent(q[i])
      BY <1>5, <2>1
    <2>3. Asked'
      BY <1>2, <1>3, <1>4, <1>5, <2>1, <2>2 DEF Asked, Silent
    <2>4. (Ofs(par) \cup Ofs(data))' \subseteq {own'}
      BY <1>2 DEF Ofs
    <2> QED BY <1>2, <2>3, <2>4 DEF StepInv
  <1> QED BY <1>6, <1>7, <1>8, <1>9, <1>10, <1>11 DEF RpcInv

\* The stub of a void function returns at once.
LEMMA TellStep ==
  ASSUME RpcInv, connected, stage \in {"idle", "gotId"}, SendFrame, calls' \in Nat, ~linking,
         NEW f \in Fn, cache[f] >= 0, ~Replies(f), SendRequest(f, 0)
  PROVE  RpcInv'
  <1> DEFINE m == Request(f, 0)
  <1>0. TypeOK /\ QueueInv /\ LinkInv /\ ControlInv /\ StepInv
    BY DEF RpcInv
  <1>1. m \in Requests /\ (~suspect => Known(m)) /\ Silent(m)
    <2>1. m \in Requests /\ (~suspect => Known(m)) /\ f # GetRpcCallId
      <3>1. f # GetRpcCallId
        BY FnAssumption DEF GetRpcCallId
      <3> QED BY <3>1, RequestIs
    <2>2. Kind[f] = "void"
      BY DEF Replies
    <2> QED BY <2>1, <2>2 DEF Silent, Request
  <1>2. /\ k' = k + 1 /\ own' = k + 1 /\ par' = <<>> /\ data' = <<>>
        /\ \/ outQ' = Append(outQ, m) /\ UNCHANGED devQ
           \/ outQ' = <<m>> /\ devQ' = devQ \o outQ
        /\ stage' = "idle" /\ fn' = 0 /\ outer' = 0 /\ rest' = 0 /\ mcmd' = 0 /\ result' = "ok"
        /\ UNCHANGED <<link, linking, missing, verdict>>
    BY <1>0 DEF SendRequest, SendOnly, Leave, LinkInv
  <1>3. UNCHANGED <<connected, cache, devId, pend, exec, inq, opens, dirty, suspect, atStart>>
    BY DEF SendFrame
  <1> HIDE DEF m
  <1>5. /\ outQ' \in Seq(Requests) /\ devQ' \in Seq(Requests) /\ AllSilent(outQ')
        /\ AllSilent(devQ) => AllSilent(devQ')
        /\ ~suspect => AllKnown(devQ') /\ AllKnown(outQ')
    <2>1. devQ \in Seq(Requests) /\ outQ \in Seq(Requests) /\ AllSilent(outQ)
          /\ (~suspect => AllKnown(devQ) /\ AllKnown(outQ))
      BY <1>0 DEF TypeOK, QueueInv
    <2>2. CASE outQ' = Append(outQ, m) /\ UNCHANGED devQ
      BY <1>1, <2>1, <2>2, AppendRequest
    <2>3. CASE outQ' = <<m>> /\ devQ' = devQ \o outQ
      <3>1. /\ devQ' \in Seq(Requests)
            /\ AllSilent(devQ) /\ AllSilent(outQ) => AllSilent(devQ')
            /\ AllKnown(devQ) /\ AllKnown(outQ) => AllKnown(devQ')
        BY <2>1, <2>3, ConcatRequests
      <3>2. outQ' \in Seq(Requests) /\ Len(outQ') = 1 /\ outQ'[1] = m
        BY <1>1, <2>3
      <3>3. AllSilent(outQ') /\ (~suspect => AllKnown(outQ'))
        BY <1>1, <3>2 DEF AllSilent, AllKnown
      <3> QED BY <2>1, <3>1, <3>2, <3>3
    <2> QED BY <1>2, <2>2, <2>3
  <1>6. TypeOK'
    <2>1. k' \in Nat /\ own' \in 0 .. k'
      BY <1>0, <1>2 DEF TypeOK
    <2> QED BY <1>0, <1>2, <1>3, <1>5, <2>1 DEF TypeOK, Stages, Results
  <1>7. CacheSound' /\ NoFaults' /\ (InStep' <=> InStep)
    BY SendFrameInv
  <1>8. QueueInv'
    BY <1>0, <1>3, <1>5 DEF QueueInv, AllSilent, AllKnown, Known
  <1>9. ControlInv'
    BY <1>2 DEF ControlInv, Reading
  <1>10. LinkInv'
    BY <1>0, <1>2, <1>3, <1>7 DEF LinkInv
  <1>11. StepInv'
    BY <1>0, <1>2, <1>3, <1>5, <1>7 DEF StepInv, Reading, AllSilent
  <1> QED BY <1>6, <1>7, <1>8, <1>9, <1>10, <1>11 DEF RpcInv

LEMMA CallStep == ASSUME RpcInv, NEW f \in Fn, Call(f) PROVE RpcInv'
  <1>1. /\ connected /\ stage = "idle" /\ ~linking /\ SendFrame /\ calls' \in Nat /\ f \in Nat
        /\ f # GetRpcCallId /\ cache[f] \in Int /\ Replies(GetRpcCallId)
    <2>1. f \in Nat /\ f # GetRpcCallId
      BY FnAssumption DEF GetRpcCallId
    <2>2. calls' \in Nat /\ cache[f] \in Int
      BY DEF Call, RpcInv, TypeOK
    <2> QED BY <2>1, <2>2 DEF Call, SendFrame, Replies
  <1>2. CASE cache[f] >= 0
    <2>1. SendRequest(f, 0) /\ outer' = 0
      BY <1>2 DEF Call
    <2>2. CASE Replies(f)
      BY <1>1, <1>2, <2>1, <2>2, AskStep
    <2>3. CASE ~Replies(f)
      BY <1>1, <1>2, <2>1, <2>3, TellStep
    <2> QED BY <2>2, <2>3
  <1>3. CASE ~(cache[f] >= 0)
    <2>1. SendRequest(GetRpcCallId, f) /\ outer' = f
      BY <1>3 DEF Call
    <2> QED BY <1>1, <2>1, AskStep
  <1> QED BY <1>2, <1>3

\* RpcLink has done with the first function.
LEMMA LinkNext ==
  ASSUME RpcInv, linking, link # <<>>
  PROVE  /\ Head(link) \in Fn /\ Tail(link) \in Seq(Fn) /\ missing \in BOOLEAN
         /\ \A i, j \in 1 .. Len(Tail(link)) : Tail(link)[i] = Tail(link)[j] => i = j
         /\ InStep => ((missing \/ devId[Head(link)] = -1) <=>
              \E f \in Fn : devId[f] = -1 /\ \A i \in 1 .. Len(Tail(link)) : Tail(link)[i] # f)
  <1> DEFINE h == Head(link)
             t == Tail(link)
  <1>1. link \in Seq(Fn) /\ missing \in BOOLEAN /\ LinkInv
    BY DEF RpcInv, TypeOK
  <1>2. /\ h \in Fn /\ t \in Seq(Fn) /\ Len(t) = Len(link) - 1
        /\ \A i \in 1 .. Len(t) : t[i] = link[i + 1]
    BY <1>1, HeadTailProperties
  <1>3. h = link[1] /\ Len(link) \in Nat /\ Len(link) > 0
    BY <1>1
  <1> HIDE DEF h, t
  <1>4. \A i, j \in 1 .. Len(link) : link[i] = link[j] => i = j
    BY <1>1 DEF LinkInv
  <1>5. ASSUME NEW i \in 1 .. Len(t), NEW j \in 1 .. Len(t), t[i] = t[j] PROVE i = j
    <2>1. i + 1 \in 1 .. Len(link) /\ j + 1 \in 1 .. Len(link)
      BY <1>2, <1>3
    <2>2. i + 1 = j + 1
      BY <1>2, <1>4, <1>5, <2>1
    <2> QED BY <2>2
  <1>6. ASSUME NEW f \in Fn
        PROVE  (\A i \in 1 .. Len(t) : t[i] # f) <=> (f = h \/ \A i \in 1 .. Len(link) : link[i] # f)
    <2>1. ASSUME \A i \in 1 .. Len(t) : t[i] # f, f # h, NEW i \in 1 .. Len(link) PROVE link[i] # f
      <3>1. CASE i = 1
        BY <1>3, <2>1, <3>1
      <3>2. CASE i # 1
        <4>1. i - 1 \in 1 .. Len(t) /\ (i - 1) + 1 = i
          BY <1>2, <1>3, <3>2
        <4> QED BY <1>2, <2>1, <4>1
      <3> QED BY <3>1, <3>2
    <2>2. ASSUME f = h \/ \A i \in 1 .. Len(link) : link[i] # f, NEW i \in 1 .. Len(t) PROVE t[i] # f
      <3>1. i + 1 \in 1 .. Len(link) /\ i + 1 # 1 /\ 1 \in 1 .. Len(link) /\ t[i] = link[i + 1]
        BY <1>2, <1>3
      <3>2. link[i + 1] # h
        BY <1>3, <1>4, <3>1
      <3> QED BY <2>2, <3>1, <3>2
    <2> QED BY <2>1, <2>2
  <1>7. InStep => ((missing \/ devId[h] = -1) <=>
          \E f \in Fn : devId[f] = -1 /\ \A i \in 1 .. Len(t) : t[i] # f)
    <2> SUFFICES ASSUME InStep
                 PROVE  (missing \/ devId[h] = -1) <=>
                          \E f \in Fn : devId[f] = -1 /\ \A i \in 1 .. Len(t) : t[i] # f
      OBVIOUS
    <2>1. missing <=> \E f \in Fn : devId[f] = -1 /\ \A i \in 1 .. Len(link) : link[i] # f
      BY <1>1 DEF LinkInv
    <2> QED BY <1>2, <1>6, <2>1
  <1> QED BY <1>1, <1>2, <1>5, <1>7 DEF h, t

LEMMA LinkStepStep == ASSUME RpcInv, LinkStep PROVE RpcInv'
  <1>0. TypeOK /\ QueueInv /\ LinkInv /\ ControlInv /\ StepInv /\ CacheSound
    BY DEF RpcInv
  <1>1. /\ linking /\ stage = "idle" /\ link # <<>> /\ connected
        /\ UNCHANGED <<connected, devId, pend, exec, inq, calls, opens, dirty, suspect, atStart>>
    BY <1>0 DEF LinkStep, marks, LinkInv
  <1>2. /\ Head(link) \in Fn /\ Tail(link) \in Seq(Fn) /\ missing \in BOOLEAN
        /\ \A i, j \in 1 .. Len(Tail(link)) : Tail(link)[i] = Tail(link)[j] => i = j
        /\ InStep => ((missing \/ devId[Head(link)] = -1) <=>
             \E f \in Fn : devId[f] = -1 /\ \A i \in 1 .. Len(Tail(link)) : Tail(link)[i] # f)
    BY <1>1, LinkNext
  <1>3. CASE cache[Head(link)] >= 0
    <2>1. link' = Tail(link) /\ UNCHANGED <<client, linking, missing, verdict, devQ, outQ, k>>
      BY <1>3 DEF LinkStep
    <2>2. UNCHANGED <<cache, stage, fn, outer, rest, mcmd, par, data, result, own>>
      BY <2>1 DEF client
    <2>3. TypeOK'
      BY <1>0, <1>1, <1>2, <2>1, <2>2 DEF TypeOK
    <2>4. QueueInv' /\ ControlInv' /\ CacheSound' /\ NoFaults'
      BY <1>0, <1>1, <2>1, <2>2 DEF QueueInv, ControlInv, CacheSound, NoFaults, InStep, Reading,
         AllSilent, AllKnown, Silent, Known, HasData, RpcInv
    <2>5. StepInv'
      BY <1>0, <1>1, <2>1, <2>2 DEF StepInv, InStep, AllSilent, Silent, Reading
    <2>6. LinkInv'
      <3>1. InStep => devId[Head(link)] # -1
        <4>1. InStep => cache[Head(link)] \in {-1, devId[Head(link)]}
          BY <1>0, <1>2 DEF CacheSound, InStep
        <4> QED BY <1>3, <4>1
      <3> QED BY <1>1, <1>2, <2>1, <2>2, <3>1 DEF LinkInv, InStep
    <2> QED BY <2>3, <2>4, <2>5, <2>6 DEF RpcInv
  <1>4. CASE ~(cache[Head(link)] >= 0)
    <2>1. SendRequest(GetRpcCallId, Head(link)) /\ outer' = Head(link) /\ UNCHANGED cache
      BY <1>4 DEF LinkStep
    <2>2. SendFrame /\ calls' \in Nat /\ Replies(GetRpcCallId) /\ Head(link) \in Nat
      BY <1>0, <1>1, <1>2, <2>1, FnAssumption DEF SendFrame, TypeOK, Replies
    <2> QED BY <1>1, <1>2, <2>1, <2>2, AskStep
  <1> QED BY <1>3, <1>4

LEMMA GotIdStep == ASSUME RpcInv, GotId PROVE RpcInv'
  <1>0. TypeOK /\ QueueInv /\ LinkInv /\ ControlInv /\ StepInv /\ CacheSound
    BY DEF RpcInv
  <1>1. /\ stage = "gotId" /\ fn = GetRpcCallId /\ outer \in Fn /\ outQ = <<>> /\ connected
        /\ UNCHANGED <<connected, cache, devId, pend, exec, inq, calls, opens, dirty, suspect, atStart>>
        /\ cache[outer] \in Int /\ SendFrame
    BY <1>0 DEF GotId, marks, ControlInv, TypeOK, SendFrame
  <1>2. ASSUME NEW r \in Results, Leave(r), UNCHANGED <<par, data, own, outQ, devQ, k>>,
               r # "ok" <=> cache[outer] < 0
        PROVE  RpcInv'
    <2>1. /\ stage' = "idle" /\ fn' = 0 /\ outer' = 0 /\ rest' = 0 /\ mcmd' = 0 /\ result' = r
          /\ UNCHANGED <<linking, verdict>>
          /\ IF link # <<>> THEN link' = Tail(link) /\ missing' = (missing \/ r # "ok")
             ELSE UNCHANGED <<link, missing>>
      BY <1>2 DEF Leave
    <2>2. InStep' <=> InStep
      BY <1>1 DEF InStep
    <2>3. CASE linking
      <3>1. link # <<>> /\ outer = Head(link)
        BY <1>0, <1>1, <2>3 DEF LinkInv
      <3>2. link' = Tail(link) /\ missing' = (missing \/ r # "ok")
        BY <2>1, <3>1
      <3>3. /\ Tail(link) \in Seq(Fn) /\ missing \in BOOLEAN
            /\ \A i, j \in 1 .. Len(Tail(link)) : Tail(link)[i] = Tail(link)[j] => i = j
            /\ InStep => ((missing \/ devId[Head(link)] = -1) <=>
                 \E f \in Fn : devId[f] = -1 /\ \A i \in 1 .. Len(Tail(link)) : Tail(link)[i] # f)
        BY <2>3, <3>1, LinkNext
      <3>4. InStep => (r # "ok" <=> devId[outer] = -1)
        <4>1. InStep => cache[outer] = devId[outer]
          BY <1>0, <1>1 DEF StepInv
        <4>2. devId[outer] = -1 \/ devId[outer] \in Nat
          BY <1>0, <1>1, TableFacts DEF TypeOK
        <4> QED BY <1>2, <4>1, <4>2
      <3>5. TypeOK'
        <4>1. missing' \in BOOLEAN
          BY <3>2, <3>3
        <4> QED BY <1>0, <1>1, <1>2, <2>1, <3>2, <3>3, <4>1 DEF TypeOK, Stages
      <3>6. LinkInv'
        <4> DEFINE t == Tail(link)
        <4>1. linking' /\ connected' /\ stage' = "idle"
          BY <1>1, <2>1, <2>3
        <4> HIDE DEF t
        <4>2. link' = t /\ \A i, j \in 1 .. Len(t) : t[i] = t[j] => i = j
          BY <3>2, <3>3 DEF t
        <4>3. InStep' => (missing' <=> \E f \in Fn : devId'[f] = -1 /\ \A i \in 1 .. Len(t) : t[i] # f)
          BY <1>1, <2>2, <3>1, <3>2, <3>3, <3>4 DEF t
        <4> QED BY <4>1, <4>2, <4>3 DEF LinkInv
      <3> QED BY <3>5, <3>6, <1>0, <1>1, <1>2, <2>1, <2>2, SendFrameInv DEF RpcInv, QueueInv,
             ControlInv, StepInv, AllSilent, AllKnown, Silent, Known, Reading
    <2>4. CASE ~linking
      <3>1. link = <<>> /\ UNCHANGED <<link, missing>>
        BY <1>0, <2>1, <2>4 DEF LinkInv
      <3>2. TypeOK'
        BY <1>0, <1>1, <1>2, <2>1, <3>1 DEF TypeOK, Stages
      <3>3. LinkInv'
        BY <1>0, <1>1, <2>1, <2>4, <3>1 DEF LinkInv
      <3> QED BY <3>2, <3>3, <1>0, <1>1, <1>2, <2>1, <2>2, SendFrameInv DEF RpcInv, QueueInv,
             ControlInv, StepInv, AllSilent, AllKnown, Silent, Known, Reading
    <2> QED BY <2>3, <2>4
  <1>3. CASE cache[outer] < 0
    BY <1>2, <1>3 DEF GotId, Results
  <1>4. CASE ~(cache[outer] < 0) /\ linking
    BY <1>2, <1>4 DEF GotId, Results
  <1>5. CASE ~(cache[outer] < 0) /\ ~linking
    <2>1. SendRequest(outer, 0) /\ outer' = 0 /\ cache[outer] >= 0 /\ calls' \in Nat
      BY <1>0, <1>1, <1>5 DEF GotId, TypeOK
    <2>2. CASE Replies(outer)
      BY <1>1, <1>5, <2>1, <2>2, AskStep
    <2>3. CASE ~Replies(outer)
      BY <1>1, <1>5, <2>1, <2>3, TellStep
    <2> QED BY <2>2, <2>3
  <1> QED BY <1>3, <1>4, <1>5

LEMMA LinkReturnStep == ASSUME RpcInv, LinkReturn PROVE RpcInv'
  <1>1. /\ stage = "idle" /\ linking /\ link = <<>> /\ linking' = FALSE
        /\ verdict' \in {"present", "missing"}
        /\ UNCHANGED <<cache, stage, fn, outer, rest, mcmd, par, data, result, own, link, missing,
                       connected, devQ, devId, pend, exec, outQ, inq, k, calls, opens, dirty, suspect,
                       atStart>>
    BY DEF LinkReturn, client, device, marks
  <1>2. TypeOK'
    BY <1>1 DEF RpcInv, TypeOK
  <1>3. LinkInv'
    BY <1>1 DEF RpcInv, LinkInv
  <1> QED BY <1>1, <1>2, <1>3 DEF RpcInv, QueueInv, CacheSound, NoFaults, InStep,
             ControlInv, StepInv, AllSilent, AllKnown, Silent, Known, Reading

LEMMA LinkStartStep == ASSUME RpcInv, LinkStart PROVE RpcInv'
  <1> DEFINE n == Cardinality(Fn)
  <1>0. n \in Nat /\ IsFiniteSet(Fn) /\ Fn \subseteq Nat
    BY FnAssumption, FS_CardinalityType
  <1>1. /\ connected /\ stage = "idle" /\ linking' = TRUE /\ missing' = FALSE /\ verdict' = "none"
        /\ UNCHANGED <<cache, stage, fn, outer, rest, mcmd, par, data, result, own,
                       connected, devQ, devId, pend, exec, outQ, inq, k, opens, dirty, suspect, atStart>>
        /\ calls' = calls + 1
        /\ link' \in [1 .. n -> Fn] /\ \A i, j \in 1 .. n : i < j => link'[i] < link'[j]
    BY DEF LinkStart, client, device
  <1> HIDE DEF n
  <1>2. link' \in Seq(Fn) /\ Len(link') = n
    BY <1>0, <1>1
  <1>3. ASSUME NEW i \in 1 .. n, NEW j \in 1 .. n, link'[i] = link'[j] PROVE i = j
    <2>1. link'[i] \in Nat /\ ~(link'[i] < link'[j]) /\ ~(link'[j] < link'[i])
      <3>1. link'[i] \in Fn
        BY <1>1
      <3>2. link'[i] \in Nat
        BY <1>0, <3>1
      <3>3. \A x, y \in Nat : x = y => ~(x < y) /\ ~(y < x)
        OBVIOUS
      <3> QED BY <1>3, <3>2, <3>3
    <2>2. ~(i < j) /\ ~(j < i)
      BY <1>1, <2>1
    <2> QED BY <1>0, <2>2
  <1>4. \A f \in Fn : \E i \in 1 .. n : link'[i] = f
    <2>1. link' \in Injection(1 .. n, Fn)
      BY <1>1, <1>3 DEF Injection, IsInjective
    <2>2. Cardinality(1 .. n) = n
      <3>1. Cardinality(1 .. n) = IF 1 > n THEN 0 ELSE n - 1 + 1
        BY <1>0, FS_Interval
      <3> QED BY <1>0, <3>1
    <2>3. link' \in Surjection(1 .. n, Fn)
      BY <1>0, <2>1, <2>2, FS_Injection DEF n
    <2> QED BY <2>3 DEF Surjection
  <1>5. TypeOK'
    <2>1. calls' \in Nat
      BY <1>1 DEF RpcInv, TypeOK
    <2> QED BY <1>1, <1>2, <2>1 DEF RpcInv, TypeOK
  <1>6. LinkInv'
    BY <1>1, <1>2, <1>3, <1>4 DEF LinkInv
  <1> QED BY <1>1, <1>5, <1>6 DEF RpcInv, QueueInv, CacheSound, NoFaults, InStep,
             ControlInv, StepInv, AllSilent, AllKnown, Silent, Known, Reading

LEMMA FlushStep == ASSUME RpcInv, Flush PROVE RpcInv'
  <1>0. TypeOK /\ QueueInv /\ StepInv
    BY DEF RpcInv
  <1>1. /\ stage = "idle" /\ devQ' = devQ \o outQ /\ outQ' = <<>>
        /\ UNCHANGED <<cache, stage, fn, outer, rest, mcmd, par, data, result, own, link, linking,
                       missing, verdict, connected, devId, pend, exec, inq, k, calls, opens, dirty,
                       suspect, atStart>>
    BY DEF Flush, client, linker, marks
  <1>2. /\ devQ' \in Seq(Requests) /\ outQ' \in Seq(Requests)
        /\ AllSilent(devQ) /\ AllSilent(outQ) => AllSilent(devQ')
        /\ AllKnown(devQ) /\ AllKnown(outQ) => AllKnown(devQ')
    BY <1>0, <1>1, ConcatRequests DEF TypeOK
  <1>3. TypeOK'
    <2>1. connected' = connected
      BY <1>1
    <2>2. /\ par' \in Seq(Bytes) /\ data' \in Seq(Bytes) /\ pend' \in Seq(Bytes)
          /\ inq' \in Seq(Bytes) /\ link' \in Seq(Fn)
      BY <1>0, <1>1 DEF TypeOK
    <2> QED BY <1>0, <1>1, <1>2, <2>1, <2>2 DEF TypeOK
  <1>4. QueueInv'
    <2>1. AllSilent(outQ)'
      BY <1>1 DEF AllSilent
    <2>2. ~suspect' => AllKnown(devQ)' /\ AllKnown(outQ)'
      <3>1. AllKnown(outQ)'
        BY <1>1 DEF AllKnown
      <3>2. ~suspect' => AllKnown(devQ')
        BY <1>0, <1>1, <1>2 DEF QueueInv
      <3>3. AllKnown(devQ)' <=> AllKnown(devQ')
        BY <1>1 DEF AllKnown, Known
      <3> QED BY <3>1, <3>2, <3>3
    <2>3. exec' \in Seq([fn : Fn, meant : Nat])
      BY <1>0, <1>1 DEF QueueInv
    <2> QED BY <2>1, <2>2, <2>3 DEF QueueInv
  <1>5. StepInv'
    BY <1>0, <1>1, <1>2 DEF StepInv, QueueInv, InStep, Reading, AllSilent
  <1> QED BY <1>1, <1>3, <1>4, <1>5 DEF RpcInv, CacheSound, NoFaults, InStep, ControlInv, LinkInv, Reading

LEMMA CallClosedStep == ASSUME RpcInv, CallClosed PROVE RpcInv'
  <1>1. /\ stage = "idle" /\ result' = "WRITE_ERROR"
        /\ UNCHANGED <<cache, stage, fn, outer, rest, mcmd, par, data, own, link, linking,
                       missing, verdict, connected, devQ, devId, pend, exec, outQ, inq, k, calls, opens,
                       dirty, suspect, atStart>>
    BY DEF CallClosed, linker, device, marks
  <1>2. TypeOK'
    BY <1>1 DEF RpcInv, TypeOK, Results
  <1>3. LinkInv'
    BY <1>1 DEF RpcInv, LinkInv, InStep
  <1> QED BY <1>1, <1>2, <1>3 DEF RpcInv, QueueInv, CacheSound, NoFaults, InStep,
             ControlInv, StepInv, AllSilent, AllKnown, Silent, Known, Reading

-----------------------------------------------------------------------------
(* Steps of the connection *)

LEMMA Cleared ==
  /\ rpc_Clear \in [Fn -> Int]
  /\ \A f \in Fn : rpc_Clear[f] = -1
  BY DEF rpc_Clear

LEMMA OpenStep == ASSUME RpcInv, Open PROVE RpcInv'
  <1>0. TypeOK /\ QueueInv /\ LinkInv /\ StepInv /\ ControlInv
    BY DEF RpcInv
  <1>1. /\ ~connected /\ stage = "idle" /\ connected' = TRUE /\ opens' = opens + 1
        /\ cache' = rpc_Clear /\ outQ' = <<>>
        /\ dirty' = ((dirty \/ suspect) /\ ~Quiet') /\ suspect' = (suspect /\ devQ' # <<>>)
        /\ UNCHANGED <<stage, fn, outer, rest, mcmd, par, data, result, own, link, linking, missing,
                       verdict, exec, k, calls, atStart>>
        /\ \/ UNCHANGED <<devId, devQ, pend, inq>>
           \/ devId' \in Tables /\ devQ' = <<>> /\ pend' = <<>> /\ inq' = <<>>
    BY DEF Open, linker
  <1>2. ~linking /\ link = <<>>
    BY <1>0, <1>1 DEF LinkInv
  <1>3. TypeOK'
    <2>1. /\ <<>> \in Seq(Bytes) /\ <<>> \in Seq(Requests) /\ rpc_Clear \in [Fn -> Int]
          /\ opens' \in Nat /\ dirty' \in BOOLEAN /\ suspect' \in BOOLEAN
      BY <1>0, <1>1, Cleared DEF TypeOK
    <2>2. /\ devQ' \in Seq(Requests) /\ pend' \in Seq(Bytes) /\ inq' \in Seq(Bytes)
          /\ devId' \in Tables
      BY <1>0, <1>1, <2>1 DEF TypeOK
    <2> QED BY <1>0, <1>1, <2>1, <2>2 DEF TypeOK
  <1>4. CacheSound'
    BY <1>1, Cleared DEF CacheSound
  <1>5. NoFaults'
    BY <1>1 DEF RpcInv, NoFaults, InStep
  <1>6. QueueInv'
    <2>1. ~suspect' => AllKnown(devQ)'
      <3>1. CASE devQ' = <<>>
        BY <3>1 DEF AllKnown
      <3>2. CASE devQ' # <<>> /\ UNCHANGED <<devId, devQ>>
        BY <1>0, <1>1, <3>2 DEF QueueInv, AllKnown, Known
      <3> QED BY <1>1, <3>1, <3>2
    <2> QED BY <1>0, <1>1, <2>1 DEF QueueInv, AllSilent, AllKnown
  <1>7. StepInv'
    <2> SUFFICES ASSUME InStep' PROVE inq' = <<>> /\ pend' = <<>> /\ AllSilent(devQ')
      BY <1>1 DEF StepInv, Reading, AllSilent, Silent
    <2>1. CASE devQ' = <<>> /\ pend' = <<>> /\ inq' = <<>>
      BY <2>1 DEF AllSilent
    <2>2. CASE UNCHANGED <<devId, devQ, pend, inq>> /\ devQ # <<>>
      <3>1. ~suspect
        BY <1>1, <2>2 DEF InStep
      <3>2. CASE InStep
        BY <1>0, <1>1, <2>2, <3>2 DEF StepInv
      <3>3. CASE ~InStep
        <4>1. Quiet'
          BY <1>1, <3>1, <3>3 DEF InStep
        <4>2. pend' = <<>> /\ inq' = <<>> /\ \A i \in 1 .. Len(devQ) : \A g \in Runs(devQ[i]) : ~Replies(g)
          BY <2>2, <4>1 DEF Quiet, Runs
        <4>3. AllKnown(devQ) /\ devQ \in Seq(Requests) /\ devId \in Tables
          BY <1>0, <3>1 DEF QueueInv, TypeOK
        <4>4. AllSilent(devQ)
          BY <4>2, <4>3, QuietSilent
        <4> QED BY <2>2, <4>2, <4>4
      <3> QED BY <3>2, <3>3
    <2>3. CASE UNCHANGED <<devId, devQ, pend, inq>> /\ devQ = <<>>
      <3>1. CASE InStep
        BY <1>0, <1>1, <2>3, <3>1 DEF StepInv
      <3>2. CASE ~InStep
        <4>1. Quiet'
          BY <1>1, <3>2 DEF InStep
        <4> QED BY <2>3, <4>1 DEF Quiet, AllSilent
      <3> QED BY <3>1, <3>2
    <2> QED BY <1>1, <2>1, <2>2, <2>3
  <1>8. LinkInv' /\ ControlInv'
    BY <1>0, <1>1, <1>2 DEF LinkInv, ControlInv, Reading
  <1> QED BY <1>3, <1>4, <1>5, <1>6, <1>7, <1>8 DEF RpcInv

LEMMA ClearStep == ASSUME RpcInv, Clear PROVE RpcInv'
  <1>0. TypeOK /\ QueueInv /\ LinkInv /\ StepInv /\ ControlInv /\ CacheSound
    BY DEF RpcInv
  <1>1. /\ stage = "idle" /\ outQ' = <<>> /\ inq' = <<>> /\ ~linking
        /\ dirty' = (dirty /\ ~Quiet')
        /\ UNCHANGED <<cache, stage, fn, outer, rest, mcmd, par, data, result, own, link, linking,
                       missing, verdict, connected, devQ, devId, pend, exec, k, calls, opens,
                       suspect, atStart>>
    BY DEF Clear, client, linker, device
  <1>3. TypeOK'
    BY <1>0, <1>1 DEF TypeOK
  <1>4. CacheSound' /\ NoFaults'
    BY <1>0, <1>1 DEF CacheSound, RpcInv, NoFaults, InStep
  <1>6. QueueInv'
    BY <1>0, <1>1 DEF QueueInv, AllSilent, AllKnown, Known
  <1>7. StepInv'
    <2> SUFFICES ASSUME InStep' PROVE pend = <<>> /\ AllSilent(devQ)
      BY <1>1 DEF StepInv, Reading, AllSilent, Silent
    <2>1. CASE InStep
      BY <1>0, <1>1, <2>1 DEF StepInv
    <2>2. CASE ~InStep
      <3>1. Quiet' /\ ~suspect
        BY <1>1, <2>2 DEF InStep
      <3>2. pend = <<>> /\ \A i \in 1 .. Len(devQ) : \A g \in Runs(devQ[i]) : ~Replies(g)
        BY <1>1, <3>1 DEF Quiet, Runs
      <3>3. AllKnown(devQ) /\ devQ \in Seq(Requests) /\ devId \in Tables
        BY <1>0, <3>1 DEF QueueInv, TypeOK
      <3> QED BY <3>2, <3>3, QuietSilent
    <2> QED BY <2>1, <2>2
  <1>8. LinkInv' /\ ControlInv'
    BY <1>0, <1>1 DEF LinkInv, ControlInv, Reading
  <1> QED BY <1>3, <1>4, <1>6, <1>7, <1>8 DEF RpcInv

LEMMA CloseStep == ASSUME RpcInv, Close PROVE RpcInv'
  <1>0. TypeOK /\ QueueInv /\ LinkInv /\ StepInv /\ ControlInv
    BY DEF RpcInv
  <1>1. /\ stage = "idle" /\ ~linking /\ connected' = FALSE /\ cache' = rpc_Clear
        /\ UNCHANGED <<stage, fn, outer, rest, mcmd, par, data, result, own, link, linking,
                       missing, verdict, devQ, devId, pend, exec, outQ, inq, k, calls, opens,
                       dirty, suspect, atStart>>
    BY DEF Close, linker, device, marks
  <1>2. TypeOK'
    BY <1>0, <1>1, Cleared DEF TypeOK
  <1>3. CacheSound' /\ NoFaults'
    BY <1>1, Cleared DEF CacheSound, RpcInv, NoFaults, InStep
  <1>4. QueueInv' /\ LinkInv' /\ ControlInv' /\ StepInv'
    BY <1>0, <1>1 DEF QueueInv, LinkInv, ControlInv, StepInv, AllSilent, AllKnown, Silent, Known,
       Reading, InStep
  <1> QED BY <1>2, <1>3, <1>4 DEF RpcInv

LEMMA KillStep == ASSUME RpcInv, Kill PROVE RpcInv'
  <1>0. TypeOK /\ QueueInv
    BY DEF RpcInv
  <1>1. /\ Faults /\ connected' = FALSE /\ cache' = rpc_Clear /\ outQ' = <<>>
        /\ stage' = "idle" /\ fn' = 0 /\ outer' = 0 /\ rest' = 0 /\ mcmd' = 0
        /\ par' = <<>> /\ data' = <<>> /\ result' = "none" /\ own' = 0
        /\ link' = <<>> /\ linking' = FALSE /\ missing' = FALSE /\ verdict' = "none"
        /\ dirty' = TRUE
        /\ UNCHANGED <<devQ, devId, pend, exec, inq, k, calls, opens, suspect, atStart>>
    BY DEF Kill, device
  <1>2. TypeOK'
    <2>1. /\ <<>> \in Seq(Bytes) /\ <<>> \in Seq(Requests) /\ <<>> \in Seq(Fn)
          /\ 0 \in 0 .. k /\ rpc_Clear \in [Fn -> Int]
      BY <1>0, Cleared DEF TypeOK
    <2>2. "idle" \in Stages /\ "none" \in Results
      BY DEF Stages, Results
    <2> QED BY <1>0, <1>1, <2>1, <2>2 DEF TypeOK
  <1>3. CacheSound' /\ NoFaults'
    BY <1>1, Cleared DEF CacheSound, NoFaults
  <1>4. QueueInv' /\ LinkInv' /\ ControlInv' /\ StepInv'
    BY <1>0, <1>1 DEF QueueInv, LinkInv, ControlInv, StepInv, AllSilent, AllKnown, Silent, Known,
       Reading, InStep
  <1> QED BY <1>2, <1>3, <1>4 DEF RpcInv

-----------------------------------------------------------------------------
(* Steps of the DTB *)

LEMMA ReplyBytes ==
  ASSUME devId \in Tables, NEW m \in Requests, NEW g \in Fn \cup {GetRpcCallId}, NEW d \in Payloads
  PROVE  Reply(m, g, d) \in Seq(Bytes)
  <1>1. m.id \in Nat /\ m.k \in Nat
    BY DEF Requests
  <1>2. CASE g = GetRpcCallId
    <2> DEFINE id == IF m.arg \in Fn /\ devId[m.arg] # -1 THEN devId[m.arg] ELSE AllOnes
    <2>1. id \in Nat /\ id < Weight[IdSize] * Base
      <3>1. CASE m.arg \in Fn /\ devId[m.arg] # -1
        <4>1. devId[m.arg] \in Nat /\ devId[m.arg] < AllOnes
          BY <3>1, TableFacts
        <4>2. AllOnes \in Nat /\ AllOnes < Weight[IdSize] * Base /\ Weight[IdSize] * Base \in Nat
          <5>1. Weight[IdSize] \in Nat /\ Base \in Nat
            BY WeightFacts, BaseFacts, SizeAssumption
          <5> QED BY <5>1, AllOnesFacts
        <4> QED BY <3>1, <4>1, <4>2
      <3>2. CASE ~(m.arg \in Fn /\ devId[m.arg] # -1)
        BY <3>2, AllOnesFacts
      <3> QED BY <3>1, <3>2
    <2>2. Reply(m, g, d) = Message(<<RPC_TYPE_DTB, 1, 0, IdSize>>, Encode(id, IdSize), m.k)
      BY <1>2 DEF Reply
    <2> HIDE DEF id
    <2>3. IsLookup(Reply(m, g, d), id, m.k)
      BY <1>1, <2>1, <2>2, LookupReply, Zenon
    <2> QED BY <2>3 DEF IsLookup
  <1>3. CASE g # GetRpcCallId /\ Kind[g] = "void"
    BY <1>3 DEF Reply
  <1>4. CASE g # GetRpcCallId /\ Kind[g] # "void"
    <2> DEFINE h == <<RPC_TYPE_DTB>> \o Encode(m.id, 2) \o <<ParSize[g]>>
               z == [i \in 1 .. ParSize[g] |-> 0]
               c == Message(h, z, m.k)
               e == Message(<<RPC_TYPE_DTB_DATA>> \o Encode(Len(d), 3), d, m.k)
    <2>1. ParSize[g] \in Nat
      BY <1>4, SizeAssumption
    <2>2. h \in Seq(Nat) /\ z \in Seq(Nat)
      <3>1. Encode(m.id, 2) \in Seq(Nat)
        BY <1>1, EncodeFacts
      <3>2. <<RPC_TYPE_DTB>> \in Seq(Nat) /\ <<ParSize[g]>> \in Seq(Nat)
        BY <2>1 DEF RPC_TYPE_DTB
      <3>3. <<RPC_TYPE_DTB>> \o Encode(m.id, 2) \in Seq(Nat)
        BY <3>1, <3>2, ConcatProperties
      <3>4. h \in Seq(Nat)
        BY <3>2, <3>3, ConcatProperties
      <3> QED BY <2>1, <3>4
    <2> HIDE DEF h, z
    <2>3. c \in Seq(Bytes)
      <3>1. IsMessage(c, h, z, m.k)
        BY <1>1, <2>2, MessageFacts, Zenon
      <3> QED BY <3>1 DEF IsMessage
    <2>4. e \in Seq(Bytes)
      BY <1>1, DataReply
    <2>5. Reply(m, g, d) = c \o (IF Kind[g] = "value" THEN <<>> ELSE e)
      BY <1>4 DEF Reply, h, z
    <2> HIDE DEF c, e
    <2>6. (IF Kind[g] = "value" THEN <<>> ELSE e) \in Seq(Bytes)
      BY <2>4
    <2>7. \A s, t \in Seq(Bytes) : s \o t \in Seq(Bytes)
      BY ConcatProperties
    <2> QED BY <2>3, <2>5, <2>6, <2>7
  <1> QED BY <1>2, <1>3, <1>4

\* The oldest request and the others.
LEMMA Oldest ==
  ASSUME NEW q \in Seq(Requests), q # <<>>
  PROVE  /\ Head(q) \in Requests /\ Head(q) = q[1] /\ Tail(q) \in Seq(Requests)
         /\ Len(q) \in Nat /\ Len(q) > 0 /\ Len(Tail(q)) = Len(q) - 1
         /\ \A i \in 1 .. Len(q) - 1 : Tail(q)[i] = q[i + 1]
         /\ AllSilent(q) => Silent(Head(q)) /\ AllSilent(Tail(q))
         /\ AllKnown(q) => Known(Head(q)) /\ AllKnown(Tail(q))
  <1>1. /\ Head(q) \in Requests /\ Tail(q) \in Seq(Requests) /\ Len(Tail(q)) = Len(q) - 1
        /\ \A i \in 1 .. Len(Tail(q)) : Tail(q)[i] = q[i + 1]
    BY HeadTailProperties
  <1>2. Head(q) = q[1] /\ Len(q) \in Nat /\ Len(q) > 0
    OBVIOUS
  <1>3. 1 \in 1 .. Len(q) /\ \A i \in 1 .. Len(Tail(q)) : i + 1 \in 1 .. Len(q)
    BY <1>1, <1>2
  <1>4. AllSilent(q) => Silent(Head(q)) /\ AllSilent(Tail(q))
    BY <1>1, <1>2, <1>3 DEF AllSilent
  <1>5. AllKnown(q) => Known(Head(q)) /\ AllKnown(Tail(q))
    BY <1>1, <1>2, <1>3 DEF AllKnown
  <1> QED BY <1>1, <1>2, <1>4, <1>5

\* What the DTB does with the oldest request m when it runs g.
Runs1(m, g, d) ==
  /\ g \in Runs(m) /\ d \in Payloads
  /\ g # GetRpcCallId /\ Kind[g] = "vector" => Len(d) % ElemSize = 0
  /\ pend' = pend \o Reply(m, g, d)
  /\ exec' = IF g = GetRpcCallId THEN exec ELSE Append(exec, [fn |-> g, meant |-> m.fn])

LEMMA ExecuteStep == ASSUME RpcInv, Execute PROVE RpcInv'
  <1> DEFINE m == Head(devQ)
             t == Tail(devQ)
  <1>0. TypeOK /\ QueueInv /\ StepInv /\ ControlInv
    BY DEF RpcInv
  <1>1. /\ devQ # <<>> /\ devQ' = t
        /\ UNCHANGED <<cache, stage, fn, outer, rest, mcmd, par, data, result, own, link, linking,
                       missing, verdict, connected, devId, outQ, inq, k, calls, opens, dirty,
                       suspect, atStart>>
    BY DEF Execute, client, linker, marks
  <1>2. /\ m \in Requests /\ m = devQ[1] /\ t \in Seq(Requests)
        /\ Len(devQ) \in Nat /\ Len(devQ) > 0 /\ Len(t) = Len(devQ) - 1
        /\ \A i \in 1 .. Len(devQ) - 1 : t[i] = devQ[i + 1]
        /\ AllSilent(devQ) => Silent(m) /\ AllSilent(t)
        /\ AllKnown(devQ) => Known(m) /\ AllKnown(t)
    BY <1>0, <1>1, Oldest DEF TypeOK
  <1>3. (Runs(m) = {} /\ UNCHANGED <<pend, exec>>) \/ \E g, d : Runs1(m, g, d)
    BY DEF Execute, Runs1
  <1>4. Runs(m) \subseteq Fn \cup {GetRpcCallId}
    BY DEF Runs
  <1> HIDE DEF m, t
  <1>5. pend' \in Seq(Bytes) /\ exec' \in Seq([fn : Fn, meant : Nat])
    <2>1. pend \in Seq(Bytes) /\ exec \in Seq([fn : Fn, meant : Nat]) /\ devId \in Tables
      BY <1>0 DEF TypeOK, QueueInv
    <2>2. ASSUME NEW g, NEW d, Runs1(m, g, d) PROVE pend' \in Seq(Bytes) /\ exec' \in Seq([fn : Fn, meant : Nat])
      <3>1. g \in Fn \cup {GetRpcCallId} /\ d \in Payloads /\ pend' = pend \o Reply(m, g, d)
        BY <1>4, <2>2 DEF Runs1
      <3>2. Reply(m, g, d) \in Seq(Bytes)
        BY <1>2, <2>1, <3>1, ReplyBytes
      <3>3. pend' \in Seq(Bytes)
        BY <2>1, <3>1, <3>2, ConcatProperties
      <3>4. exec' \in Seq([fn : Fn, meant : Nat])
        <4>1. CASE g = GetRpcCallId
          BY <2>1, <2>2, <4>1 DEF Runs1
        <4>2. CASE g # GetRpcCallId
          <5>1. [fn |-> g, meant |-> m.fn] \in [fn : Fn, meant : Nat]
            BY <1>2, <3>1, <4>2 DEF Requests
          <5>2. exec' = Append(exec, [fn |-> g, meant |-> m.fn])
            BY <2>2, <4>2 DEF Runs1
          <5> QED BY <2>1, <5>1, <5>2, AppendProperties
        <4> QED BY <4>1, <4>2
      <3> QED BY <3>3, <3>4
    <2> QED BY <1>3, <2>1, <2>2
  <1>6. TypeOK'
    BY <1>0, <1>1, <1>2, <1>5 DEF TypeOK
  <1>7. QueueInv'
    BY <1>0, <1>1, <1>2, <1>5 DEF QueueInv, AllSilent, AllKnown, Silent, Known
  <1>8. CacheSound' /\ NoFaults' /\ ControlInv' /\ LinkInv'
    BY <1>1 DEF RpcInv, CacheSound, NoFaults, InStep, ControlInv, LinkInv, Reading
  <1>9. StepInv'
    <2> SUFFICES ASSUME InStep' PROVE StepInv'
      BY DEF StepInv
    <2>1. InStep /\ AllKnown(devQ) /\ devId \in Tables /\ pend \in Seq(Bytes)
      BY <1>0, <1>1 DEF InStep, QueueInv, TypeOK
    <2>2. Runs(m) = {m.fn}
      BY <1>2, <2>1, RunsKnown
    <2>3. PICK d : Runs1(m, m.fn, d)
      <3>1. PICK g, d : Runs1(m, g, d)
        BY <1>3, <2>2
      <3>2. g = m.fn
        BY <2>2, <3>1 DEF Runs1
      <3> QED BY <3>1, <3>2
    <2>4. ASSUME Silent(m) PROVE pend' = pend
      <3>1. m.fn # GetRpcCallId
        BY <2>4, FnAssumption DEF Silent, GetRpcCallId
      <3>2. Reply(m, m.fn, d) = <<>>
        BY <2>4, <3>1 DEF Reply, Silent
      <3> QED BY <2>1, <2>3, <3>2, ConcatEmptySeq DEF Runs1
    <2>5. CASE stage \in {"idle", "gotId"}
      <3>1. inq = <<>> /\ pend = <<>> /\ AllSilent(devQ)
        BY <1>0, <2>1, <2>5 DEF StepInv
      <3>2. inq' = <<>> /\ pend' = <<>> /\ AllSilent(devQ')
        BY <1>1, <1>2, <2>4, <3>1
      <3>3. AllSilent(devQ)'
        BY <3>2 DEF AllSilent, Silent
      <3>4. (Ofs(par) \cup Ofs(data))' = Ofs(par) \cup Ofs(data)
        BY <1>1 DEF Ofs
      <3> QED BY <1>0, <1>1, <2>1, <2>5, <3>2, <3>3, <3>4 DEF StepInv, Reading
    <2>6. CASE Reading
      <3>1. Asked
        BY <1>0, <1>1, <2>1, <2>6 DEF StepInv, Answered
      <3>2. Sent' = Sent /\ own' = own
        BY <1>1 DEF Sent, Id
      <3>3. CASE Len(devQ) = 1
        <4>1. m = Sent /\ m.fn = fn /\ inq = <<>> /\ pend = <<>> /\ stage = "type" /\ rest = 1 /\ t = <<>>
          BY <1>2, <3>1, <3>3 DEF Asked, Sent
        <4>2. d \in Payloads /\ Fits(d) /\ pend' = <<>> \o Answer(d)
          BY <2>3, <4>1 DEF Runs1, Answer, Fits, HasData
        <4>3. Answer(d) \in Seq(Bytes)
          <5>1. Shaped(Answer(d), d)
            BY <1>0, <2>1, <2>6, <4>2, AnswerShape DEF RpcInv, Reading, InStep
          <5> QED BY <5>1 DEF Shaped
        <4> DEFINE a == Answer(d)
        <4> HIDE DEF a
        <4>4. a \in Seq(Bytes) /\ Len(a) \in Nat /\ <<>> \in Seq(Bytes)
          BY <4>3 DEF a
        <4>5. inq' \o pend' = a
          <5>1. pend' = a /\ inq' = <<>>
            BY <1>1, <4>1, <4>2, <4>4, ConcatEmptySeq DEF a
          <5> QED BY <4>4, <5>1, ConcatEmptySeq
        <4>6. Skip(a, 0) = a
          BY <4>4, SubSeqFull DEF Skip
        <4>7. Answer(d)' = Answer(d) /\ Fits(d)' = Fits(d)
          BY <1>1, <3>2 DEF Answer, Reply, Fits, HasData
        <4>8. At(d, 0)'
          BY <1>1, <4>1 DEF At
        <4>9. Answered'
          <5>1. 0 \in 0 .. Len(Answer(d)') /\ Skip(Answer(d)', 0) = Answer(d)'
            BY <4>4, <4>6, <4>7 DEF a
          <5>2. Fits(d)' /\ At(d, 0)' /\ inq' \o pend' = Skip(Answer(d)', 0)
            BY <4>2, <4>5, <4>6, <4>7, <4>8 DEF a
          <5>3. devQ' = <<>> /\ d \in Payloads
            BY <1>1, <4>1, <4>2
          <5> QED BY <5>1, <5>2, <5>3 DEF Answered
        <4>10. (Ofs(par) \cup Ofs(data))' \subseteq {own'}
          BY <1>0, <1>1, <2>1, <2>6 DEF StepInv, Ofs, Reading
        <4> QED BY <1>1, <4>1, <4>9, <4>10 DEF StepInv
      <3>4. CASE Len(devQ) # 1
        <4>1. /\ Len(t) \in Nat /\ Len(t) > 0 /\ t[Len(t)] = devQ[Len(devQ)]
              /\ \A i \in 1 .. Len(t) - 1 : t[i] = devQ[i + 1] /\ i + 1 \in 1 .. Len(devQ) - 1
          BY <1>2, <3>4
        <4>2. Silent(m) /\ \A i \in 1 .. Len(t) - 1 : Silent(t[i])
          BY <1>2, <3>1, <3>4, <4>1 DEF Asked
        <4>3. t # <<>>
          BY <1>2, <4>1
        <4>4. Asked'
          BY <1>1, <2>4, <3>1, <3>2, <4>1, <4>2, <4>3 DEF Asked, Silent
        <4>5. (Ofs(par) \cup Ofs(data))' \subseteq {own'}
          BY <1>0, <1>1, <2>1, <2>6 DEF StepInv, Ofs, Reading
        <4>6. stage' = "type"
          BY <1>1, <3>1 DEF Asked
        <4> QED BY <4>4, <4>5, <4>6 DEF StepInv
      <3> QED BY <3>3, <3>4
    <2> QED BY <2>5, <2>6 DEF Reading
  <1> QED BY <1>6, <1>7, <1>8, <1>9 DEF RpcInv

LEMMA ArriveStep == ASSUME RpcInv, Arrive PROVE RpcInv'
  <1>0. TypeOK /\ QueueInv /\ StepInv /\ ControlInv
    BY DEF RpcInv
  <1>1. /\ pend # <<>> /\ inq' = Append(inq, Head(pend)) /\ pend' = Tail(pend)
        /\ UNCHANGED <<cache, stage, fn, outer, rest, mcmd, par, data, result, own, link, linking,
                       missing, verdict, connected, devQ, devId, exec, outQ, k, calls, opens, dirty,
                       suspect, atStart>>
    BY DEF Arrive, client, linker, marks
  <1>2. inq' \o pend' = inq \o pend /\ inq' \in Seq(Bytes) /\ pend' \in Seq(Bytes)
    BY <1>0, <1>1, LineArrives DEF TypeOK
  <1>3. TypeOK'
    BY <1>0, <1>1, <1>2 DEF TypeOK
  <1>4. QueueInv' /\ CacheSound' /\ NoFaults' /\ ControlInv' /\ LinkInv'
    BY <1>1 DEF RpcInv, QueueInv, CacheSound, NoFaults, InStep, ControlInv, LinkInv, Reading,
       AllSilent, AllKnown, Silent, Known
  <1>5. StepInv'
    <2> SUFFICES ASSUME InStep' PROVE StepInv'
      BY DEF StepInv
    <2>1. InStep
      BY <1>1 DEF InStep
    <2>2. Reading
      BY <1>0, <1>1, <2>1 DEF StepInv, Reading
    <2>3. Answered
      BY <1>0, <1>1, <2>1, <2>2 DEF StepInv, Asked
    <2>4. Sent' = Sent
      BY <1>1 DEF Sent, Id
    <2>5. \A d : Answer(d)' = Answer(d) /\ Fits(d)' = Fits(d)
      BY <1>1, <2>4 DEF Answer, Reply, Fits, HasData
    <2>6. \A d, n : At(d, n)' = At(d, n)
      BY <1>1 DEF At, Id, Size
    <2>7. Answered'
      BY <1>1, <1>2, <2>3, <2>5, <2>6 DEF Answered
    <2>8. (Ofs(par) \cup Ofs(data))' \subseteq {own'}
      BY <1>0, <1>1, <2>1, <2>2 DEF StepInv, Ofs, Reading
    <2> QED BY <1>1, <2>2, <2>7, <2>8 DEF StepInv, Reading
  <1> QED BY <1>3, <1>4, <1>5 DEF RpcInv

-----------------------------------------------------------------------------
(* The invariant holds, and what follows from it *)

\* The actions that read.
ReadAction ==
  \/ ReadType \/ ReadUnexpectedData \/ ReadUnexpectedOld \/ ReadCmd \/ ReadSize
  \/ ReadPar \/ ReadDataType \/ ReadUnexpectedCmd \/ ReadUnexpectedSize
  \/ ReadDataSize \/ ReadVector \/ ReadChar \/ DataSink \/ ReadFails

LEMMA ReadActionStep == ASSUME RpcInv, ReadAction PROVE ReadStep
  <1>1. CASE ReadType
    BY <1>1, ReadTypeStep
  <1>2. CASE ReadUnexpectedData
    BY <1>2, ReadUnexpectedDataStep
  <1>3. CASE ReadUnexpectedOld
    BY <1>3, ReadUnexpectedOldStep
  <1>4. CASE ReadCmd
    BY <1>4, ReadCmdStep
  <1>5. CASE ReadSize
    BY <1>5, ReadSizeStep
  <1>6. CASE ReadPar
    BY <1>6, ReadParStep
  <1>7. CASE ReadDataType
    BY <1>7, ReadDataTypeStep
  <1>8. CASE ReadUnexpectedCmd
    BY <1>8, ReadUnexpectedCmdStep
  <1>9. CASE ReadUnexpectedSize
    BY <1>9, ReadUnexpectedSizeStep
  <1>10. CASE ReadDataSize
    BY <1>10, ReadDataSizeStep
  <1>11. CASE ReadVector
    BY <1>11, ReadVectorStep
  <1>12. CASE ReadChar
    BY <1>12, ReadCharStep
  <1>13. CASE DataSink
    BY <1>13, DataSinkStep
  <1>14. CASE ReadFails
    BY <1>14, ReadFailsStep
  <1> QED BY <1>1, <1>2, <1>3, <1>4, <1>5, <1>6, <1>7, <1>8, <1>9, <1>10, <1>11, <1>12, <1>13,
             <1>14 DEF ReadAction

\* A reading action finds the stub in a call.
LEMMA ReadActionReads == ASSUME ReadAction PROVE Reading
  BY DEF ReadAction, Reading, Read, ReadType, ReadUnexpectedData, ReadUnexpectedOld, ReadCmd,
     ReadSize, ReadPar, ReadDataType, ReadUnexpectedCmd, ReadUnexpectedSize, ReadDataSize,
     ReadVector, ReadChar, DataSink, ReadFails

\* The other actions, by what they do.
LEMMA NextCases ==
  ASSUME [Next]_vars
  PROVE  \/ ReadAction \/ GotId \/ LinkStep \/ LinkReturn \/ (\E f \in Fn : Call(f)) \/ CallClosed
         \/ LinkStart \/ Flush \/ Open \/ Close \/ Clear \/ Kill \/ Execute \/ Arrive
         \/ UNCHANGED vars
  BY DEF Next, ClientStep, DeviceStep, ReadAction

LEMMA StepRpc == ASSUME RpcInv, [Next]_vars PROVE RpcInv'
  <1>1. CASE ReadAction
    BY <1>1, ReadActionStep DEF ReadStep
  <1>2. CASE GotId
    BY <1>2, GotIdStep
  <1>3. CASE LinkStep
    BY <1>3, LinkStepStep
  <1>4. CASE LinkReturn
    BY <1>4, LinkReturnStep
  <1>5. CASE \E f \in Fn : Call(f)
    BY <1>5, CallStep
  <1>6. CASE CallClosed
    BY <1>6, CallClosedStep
  <1>7. CASE LinkStart
    BY <1>7, LinkStartStep
  <1>8. CASE Flush
    BY <1>8, FlushStep
  <1>9. CASE Open
    BY <1>9, OpenStep
  <1>10. CASE Close
    BY <1>10, CloseStep
  <1>11. CASE Clear
    BY <1>11, ClearStep
  <1>12. CASE Kill
    BY <1>12, KillStep
  <1>13. CASE Execute
    BY <1>13, ExecuteStep
  <1>14. CASE Arrive
    BY <1>14, ArriveStep
  <1>15. CASE UNCHANGED vars
    <2>1. UNCHANGED <<cache, stage, fn, outer, rest, mcmd, par, data, result, own, link, linking,
                      missing, verdict, connected, devQ, devId, pend, exec, outQ, inq, k, calls,
                      opens, dirty, suspect, atStart>>
      BY <1>15 DEF vars, client, linker, device, marks
    <2>2. TypeOK' /\ QueueInv' /\ CacheSound' /\ ControlInv' /\ LinkInv' /\ NoFaults'
      BY <2>1 DEF RpcInv, TypeOK, QueueInv, CacheSound, ControlInv, LinkInv, NoFaults, InStep,
         AllSilent, AllKnown, Silent, Known, Reading
    <2>3. Sent' = Sent
      BY <2>1 DEF Sent, Id
    <2>4. Asked' = Asked
      BY <2>1, <2>3 DEF Asked, Silent
    <2>5. Answered' = Answered
      <3>1. \A d : Answer(d)' = Answer(d) /\ Fits(d)' = Fits(d)
        BY <2>1, <2>3 DEF Answer, Reply, Fits, HasData
      <3>2. \A d, n : At(d, n)' = At(d, n)
        BY <2>1 DEF At, Id, Size
      <3> QED BY <2>1, <3>1, <3>2 DEF Answered
    <2>6. StepInv'
      <3>1. (Ofs(par) \cup Ofs(data))' = Ofs(par) \cup Ofs(data)
        BY <2>1 DEF Ofs
      <3>2. AllSilent(devQ)' = AllSilent(devQ)
        BY <2>1 DEF AllSilent, Silent
      <3> QED BY <2>1, <2>4, <2>5, <3>1, <3>2 DEF RpcInv, StepInv, InStep, Reading
    <2> QED BY <2>2, <2>6 DEF RpcInv
  <1> QED BY <1>1, <1>2, <1>3, <1>4, <1>5, <1>6, <1>7, <1>8, <1>9, <1>10, <1>11, <1>12, <1>13,
             <1>14, <1>15, NextCases

LEMMA InitRpc == Init => RpcInv
  <1> SUFFICES ASSUME Init PROVE RpcInv
    OBVIOUS
  <1>1. /\ cache = [f \in Fn |-> -1] /\ outQ = <<>> /\ devQ = <<>> /\ pend = <<>> /\ inq = <<>>
        /\ par = <<>> /\ data = <<>> /\ link = <<>> /\ exec = <<>> /\ k = 0 /\ own = 0
        /\ stage = "idle" /\ ~linking /\ ~dirty /\ ~suspect /\ outer = 0 /\ devId \in Tables
    BY DEF Init
  <1>2. TypeOK
    <2>1. /\ <<>> \in Seq(Bytes) /\ <<>> \in Seq(Requests) /\ <<>> \in Seq(Fn) /\ 0 \in 0 .. 0
          /\ cache \in [Fn -> Int]
      BY <1>1
    <2>2. /\ link \in Seq(Fn) /\ outQ \in Seq(Requests) /\ devQ \in Seq(Requests)
          /\ par \in Seq(Bytes) /\ data \in Seq(Bytes) /\ pend \in Seq(Bytes)
          /\ inq \in Seq(Bytes) /\ own \in 0 .. k
      BY <1>1, <2>1
    <2>3. /\ connected \in BOOLEAN /\ stage \in Stages /\ fn \in Fn \cup {0, GetRpcCallId}
          /\ outer \in Fn \cup {0} /\ rest \in Nat /\ mcmd \in Nat /\ result \in Results
          /\ linking \in BOOLEAN /\ missing \in BOOLEAN /\ verdict \in {"none", "present", "missing"}
          /\ k \in Nat /\ calls \in Nat /\ opens \in Nat
          /\ dirty \in BOOLEAN /\ suspect \in BOOLEAN /\ atStart \in BOOLEAN
      BY DEF Init, Stages, Results
    <2> QED BY <1>1, <2>1, <2>2, <2>3 DEF TypeOK
  <1>3. QueueInv
    <2>1. <<>> \in Seq([fn : Fn, meant : Nat])
      OBVIOUS
    <2> QED BY <1>1, <2>1 DEF QueueInv, AllSilent, AllKnown
  <1>4. CacheSound /\ ControlInv /\ NoFaults
    BY <1>1 DEF CacheSound, ControlInv, NoFaults, InStep, Reading
  <1>5. LinkInv /\ StepInv
    BY <1>1 DEF LinkInv, StepInv, AllSilent, Reading
  <1> QED BY <1>2, <1>3, <1>4, <1>5 DEF RpcInv

\* The program, the requests on their way and the reply bytes keep in step.
THEOREM RpcInvariant == Spec => []RpcInv
  BY InitRpc, StepRpc, PTL DEF Spec

\* Every variable of the calling program, of the line and of the DTB keeps its type.
THEOREM RpcTypes == Spec => []TypeOK
  <1>1. RpcInv => TypeOK
    BY DEF RpcInv
  <1> QED BY <1>1, RpcInvariant, PTL

\* An id in the cache that was not looked up on a line out of step is the id the connected
\* DTB has for that function, whatever connections, purges, time-outs and kills came before.
THEOREM CacheIsSound == Spec => []CacheSound
  <1>1. RpcInv => CacheSound
    BY DEF RpcInv
  <1> QED BY <1>1, RpcInvariant, PTL

\* Between two calls no reply byte is on its way, and none will be: every stub read all of
\* the reply it asked for, and the void functions left in the buffers send none.
THEOREM QuietBetweenCalls == Spec => []IdleIsQuiet
  <1>1. RpcInv => IdleIsQuiet
    <2> SUFFICES ASSUME RpcInv, stage = "idle", InStep PROVE Quiet
      BY DEF IdleIsQuiet
    <2>1. pend = <<>> /\ inq = <<>> /\ AllSilent(devQ)
      BY DEF RpcInv, StepInv
    <2>2. AllKnown(devQ) /\ devQ \in Seq(Requests) /\ devId \in Tables
      BY DEF RpcInv, QueueInv, InStep, TypeOK
    <2>3. \A i \in 1 .. Len(devQ) : \A g \in Runs(devQ[i]) : ~Replies(g)
      BY <2>1, <2>2, QuietSilent
    <2> QED BY <2>1, <2>3 DEF Quiet
  <1> QED BY <1>1, RpcInvariant, PTL

-----------------------------------------------------------------------------
(* What a step may never do *)

\* Which actions end a call: reading ones, GotId and Kill.
LEMMA EndOfCall ==
  ASSUME [Next]_vars, stage # "idle", stage' = "idle"
  PROVE  ReadAction \/ GotId \/ Kill
  <1>1. CASE LinkStep
    BY <1>1 DEF LinkStep
  <1>2. CASE LinkReturn \/ CallClosed \/ LinkStart \/ Flush \/ Open \/ Close \/ Clear
    BY <1>2 DEF LinkReturn, CallClosed, LinkStart, Flush, Open, Close, Clear
  <1>3. CASE \E f \in Fn : Call(f)
    BY <1>3 DEF Call
  <1>4. CASE Execute \/ Arrive \/ UNCHANGED vars
    BY <1>4 DEF Execute, Arrive, vars, client
  <1> QED BY <1>1, <1>2, <1>3, <1>4, NextCases

\* What GotId does when it ends the call.
LEMMA GotIdEnds ==
  ASSUME RpcInv, GotId, stage' = "idle", InStep'
  PROVE  /\ inq' = <<>> /\ pend' = <<>> /\ outer \in Fn /\ cache[outer] = devId[outer]
         /\ \/ result' = "ok" \/ (result' = "UNKNOWN_CMD" /\ cache[outer] < 0)
         /\ Ofs(par') \cup Ofs(data') \subseteq {own'}
         /\ UNCHANGED <<pend, inq, devId>>
  <1>1. /\ stage = "gotId" /\ fn = GetRpcCallId /\ outer \in Fn /\ InStep /\ cache[outer] \in Int
        /\ UNCHANGED <<pend, inq, devId>>
    BY DEF GotId, marks, RpcInv, ControlInv, TypeOK, InStep
  <1>2. /\ inq = <<>> /\ pend = <<>> /\ cache[outer] = devId[outer]
        /\ Ofs(par) \cup Ofs(data) \subseteq {own}
    BY <1>1 DEF RpcInv, StepInv
  <1>3. CASE Leave("UNKNOWN_CMD") /\ cache[outer] < 0 /\ UNCHANGED <<par, data, own>>
    BY <1>1, <1>2, <1>3 DEF Leave
  <1>4. CASE Leave("ok") /\ UNCHANGED <<par, data, own>>
    BY <1>1, <1>2, <1>4 DEF Leave
  <1>5. CASE SendRequest(outer, 0)
    <2>1. ~Replies(outer)
      BY <1>5 DEF SendRequest
    <2>2. par' = <<>> /\ data' = <<>> /\ result' = "ok"
      BY <1>5, <2>1 DEF SendRequest, Leave
    <2>3. Ofs(par') = {} /\ Ofs(data') = {}
      BY <2>2 DEF Ofs
    <2> QED BY <1>1, <1>2, <2>2, <2>3
  <1> QED BY <1>3, <1>4, <1>5 DEF GotId

\* A call that returns has the reply to its own request, all of it and nothing else: no
\* look-up, refused function, unexpected message or earlier call leaves a byte behind.
THEOREM ReplyIsOwn == Spec => OwnReply
  <1>1. RpcInv /\ [Next]_vars =>
          [stage # "idle" /\ stage' = "idle" /\ result' = "ok" /\ ~dirty' /\ ~suspect' =>
             /\ Ofs(par') \cup Ofs(data') \subseteq {own}
             /\ own \notin Ofs(inq') \cup Ofs(pend')]_vars
    <2> SUFFICES ASSUME RpcInv, [Next]_vars, stage # "idle", stage' = "idle", result' = "ok", InStep'
                 PROVE  /\ Ofs(par') \cup Ofs(data') \subseteq {own}
                        /\ own \notin Ofs(inq') \cup Ofs(pend')
      BY DEF InStep
    <2>1. CASE ReadAction
      <3>1. inq' = <<>> /\ pend' = <<>> /\ Ofs(par') \cup Ofs(data') \subseteq {own}
        BY <2>1, ReadActionStep DEF ReadStep
      <3> QED BY <3>1 DEF Ofs
    <2>2. CASE GotId
      <3>1. inq' = <<>> /\ pend' = <<>>
        BY <2>2, GotIdEnds
      <3>2. Ofs(par') \cup Ofs(data') \subseteq {own}
        <4>1. CASE UNCHANGED <<par, data, own>>
          BY <2>2, <4>1, GotIdEnds
        <4>2. CASE SendRequest(outer, 0)
          BY <4>2 DEF SendRequest, Ofs
        <4> QED BY <2>2, <4>1, <4>2 DEF GotId
      <3> QED BY <3>1, <3>2 DEF Ofs
    <2>3. CASE Kill
      BY <2>3 DEF Kill
    <2> QED BY <2>1, <2>2, <2>3, EndOfCall
  <1> QED BY <1>1, RpcInvariant, PTL DEF Spec, OwnReply

\* A call that no failed read disturbs fails only because the DTB lacks a function.
THEOREM ErrorsAreCaused == Spec => ErrorsHaveCause
  <1>1. RpcInv /\ [Next]_vars =>
          [stage # "idle" /\ stage' = "idle" /\ connected' /\ ~dirty' /\ ~suspect' =>
             \/ result' = "ok"
             \/ result' = "UNKNOWN_CMD" /\ \E f \in Fn : devId[f] = -1]_vars
    <2> SUFFICES ASSUME RpcInv, [Next]_vars, stage # "idle", stage' = "idle", connected', InStep'
                 PROVE  \/ result' = "ok"
                        \/ result' = "UNKNOWN_CMD" /\ \E f \in Fn : devId[f] = -1
      BY DEF InStep
    <2>1. CASE ReadAction
      BY <2>1, ReadActionStep DEF ReadStep
    <2>2. CASE GotId
      <3>1. outer \in Fn /\ cache[outer] = devId[outer]
            /\ (result' = "ok" \/ (result' = "UNKNOWN_CMD" /\ cache[outer] < 0))
        BY <2>2, GotIdEnds
      <3>2. devId[outer] = -1 \/ devId[outer] \in Nat
        BY <3>1, TableFacts DEF RpcInv, TypeOK
      <3> QED BY <3>1, <3>2
    <2>3. CASE Kill
      BY <2>3 DEF Kill
    <2> QED BY <2>1, <2>2, <2>3, EndOfCall
  <1> QED BY <1>1, RpcInvariant, PTL DEF Spec, ErrorsHaveCause

\* The DTB executes the function the program called, unless an id was looked up on a line
\* out of step.
THEOREM RunsTheMeant == Spec => MeantFunction
  <1>1. RpcInv /\ [Next]_vars =>
          [exec' # exec => suspect \/ exec'[Len(exec')].fn = exec'[Len(exec')].meant]_vars
    <2> SUFFICES ASSUME RpcInv, [Next]_vars, exec' # exec, ~suspect
                 PROVE  exec'[Len(exec')].fn = exec'[Len(exec')].meant
      OBVIOUS
    <2>1. Execute
      <3>1. CASE ReadAction \/ GotId \/ LinkStep \/ Open
        BY <3>1, ReadActionStep DEF ReadStep, GotId, LinkStep, Open
      <3>2. CASE LinkReturn \/ CallClosed \/ LinkStart \/ Flush \/ Close \/ Clear \/ Kill
        BY <3>2 DEF LinkReturn, CallClosed, LinkStart, Flush, Close, Clear, Kill, device
      <3>3. CASE (\E f \in Fn : Call(f)) \/ Arrive \/ UNCHANGED vars
        BY <3>3 DEF Call, Arrive, vars, device
      <3> QED BY <3>1, <3>2, <3>3, NextCases
    <2> DEFINE m == Head(devQ)
    <2>2. devQ \in Seq(Requests) /\ devQ # <<>> /\ AllKnown(devQ) /\ devId \in Tables
      BY <2>1 DEF RpcInv, TypeOK, QueueInv, Execute
    <2>3. m \in Requests /\ Known(m)
      BY <2>2, Oldest
    <2>4. Runs(m) = {m.fn}
      BY <2>2, <2>3, RunsKnown
    <2> HIDE DEF m
    <2>5. exec \in Seq([fn : Fn, meant : Nat])
      BY DEF RpcInv, QueueInv
    <2>6. PICK g \in Runs(m) : exec' = IF g = GetRpcCallId THEN exec
                                       ELSE Append(exec, [fn |-> g, meant |-> m.fn])
      BY <2>1, <2>4 DEF Execute, m
    <2>7. g = m.fn /\ exec' = Append(exec, [fn |-> g, meant |-> m.fn])
      BY <2>4, <2>6
    <2>8. exec'[Len(exec')] = [fn |-> g, meant |-> m.fn]
      BY <2>5, <2>7
    <2> QED BY <2>7, <2>8
  <1> QED BY <1>1, RpcInvariant, PTL DEF Spec, MeantFunction

\* RpcLink says "present" exactly for a DTB that has all functions.
THEOREM VerdictIsTrue == Spec => LinkVerdict
  <1>1. RpcInv /\ [Next]_vars =>
          [verdict' # verdict /\ verdict' # "none" /\ InStep =>
             (verdict' = "present" <=> \A f \in Fn : devId[f] # -1)]_vars
    <2> SUFFICES ASSUME RpcInv, [Next]_vars, verdict' # verdict, verdict' # "none", InStep
                 PROVE  verdict' = "present" <=> \A f \in Fn : devId[f] # -1
      OBVIOUS
    <2>1. LinkReturn
      <3>1. CASE ReadAction
        BY <3>1, ReadActionStep DEF ReadStep
      <3>2. CASE GotId
        BY <3>2 DEF GotId, Leave, SendRequest, linker
      <3>3. CASE LinkStep
        BY <3>3 DEF LinkStep, Leave, SendRequest, linker
      <3>4. CASE \E f \in Fn : Call(f)
        BY <3>4 DEF Call, Leave, SendRequest, linker
      <3>5. CASE CallClosed \/ LinkStart \/ Flush \/ Open \/ Close \/ Clear \/ Kill \/ Execute \/ Arrive
        BY <3>5 DEF CallClosed, LinkStart, Flush, Open, Close, Clear, Kill, Execute, Arrive, linker
      <3>6. CASE UNCHANGED vars
        BY <3>6 DEF vars, linker
      <3> QED BY <3>1, <3>2, <3>3, <3>4, <3>5, <3>6, NextCases
    <2>2. linking /\ link = <<>> /\ verdict' = IF missing THEN "missing" ELSE "present"
      BY <2>1 DEF LinkReturn
    <2>3. missing <=> \E f \in Fn : devId[f] = -1 /\ \A i \in 1 .. Len(link) : link[i] # f
      BY <2>2 DEF RpcInv, LinkInv
    <2>4. missing <=> \E f \in Fn : devId[f] = -1
      BY <2>2, <2>3
    <2> QED BY <2>2, <2>4
  <1> QED BY <1>1, RpcInvariant, PTL DEF Spec, LinkVerdict

-----------------------------------------------------------------------------
(* The stubs implement RpcService while no read fails *)

\* The functions of requests without a look-up.
Fns(q) == [i \in 1 .. Len(q) |-> q[i].fn]

Waiting == IF stage \in {"idle", "gotId"} \/ fn = GetRpcCallId THEN 0 ELSE fn
Todo    == Called(devQ \o outQ)
Done    == [i \in 1 .. Len(exec) |-> exec[i].fn]

LEMMA CalledSilent ==
  ASSUME NEW q \in Seq(Requests), AllSilent(q)
  PROVE  Called(q) = Fns(q) /\ Fns(q) \in Seq(Fn) /\ Len(Fns(q)) = Len(q)
  <1>1. \A i \in 1 .. Len(q) : q[i].fn \in Fn /\ q[i].fn # GetRpcCallId
    BY FnAssumption DEF AllSilent, Silent, GetRpcCallId
  <1>2. q # <<>> => q[Len(q)].fn # GetRpcCallId
    <2>1. q # <<>> => Len(q) \in 1 .. Len(q)
      OBVIOUS
    <2> QED BY <1>1, <2>1
  <1>3. Called(q) = Fns(q)
    BY <1>2 DEF Called, Fns
  <1>4. Fns(q) \in Seq(Fn) /\ Len(Fns(q)) = Len(q)
    BY <1>1 DEF Fns
  <1> QED BY <1>3, <1>4

LEMMA CalledAppend ==
  ASSUME NEW q \in Seq(Requests), AllSilent(q), NEW m \in Requests
  PROVE  /\ m.fn = GetRpcCallId => Called(Append(q, m)) = Called(q)
         /\ m.fn \in Fn => Called(Append(q, m)) = Append(Called(q), m.fn)
  <1> DEFINE a == Append(q, m)
             l == Len(q)
  <1>1. /\ a \in Seq(Requests) /\ a # <<>> /\ Len(a) = l + 1 /\ a[Len(a)] = m
        /\ \A i \in 1 .. l : a[i] = q[i]
    BY AppendRequest
  <1>2. Called(q) = Fns(q) /\ Fns(q) \in Seq(Fn) /\ Len(Fns(q)) = l
    BY CalledSilent
  <1>3. l \in Nat
    OBVIOUS
  <1> HIDE DEF a, l
  <1>4. Fns(q) = [i \in 1 .. l |-> q[i].fn]
    BY DEF Fns, l
  <1>5. CASE m.fn = GetRpcCallId
    <2>1. Called(a) = [i \in 1 .. l |-> a[i].fn]
      <3>1. Len(a) - 1 = l
        BY <1>1, <1>3
      <3> QED BY <1>1, <1>5, <3>1 DEF Called
    <2>2. Called(a) = Fns(q)
      BY <1>1, <1>4, <2>1
    <2>3. m.fn \notin Fn
      BY <1>5, FnAssumption DEF GetRpcCallId
    <2> QED BY <1>2, <2>2, <2>3 DEF a
  <1>6. CASE m.fn \in Fn
    <2>0. m.fn # GetRpcCallId
      BY <1>6, FnAssumption DEF GetRpcCallId
    <2>1. Called(a) = [i \in 1 .. l + 1 |-> a[i].fn]
      BY <1>1, <2>0 DEF Called
    <2>2. Append(Fns(q), m.fn) \in Seq(Fn) /\ Len(Append(Fns(q), m.fn)) = l + 1
          /\ (\A i \in 1 .. l : Append(Fns(q), m.fn)[i] = Fns(q)[i])
          /\ Append(Fns(q), m.fn)[l + 1] = m.fn
      BY <1>2, <1>6, AppendProperties
    <2>3. \A i \in 1 .. l + 1 : i \in 1 .. l \/ i = l + 1
      BY <1>3
    <2>4. \A i \in 1 .. l + 1 : Append(Fns(q), m.fn)[i] = a[i].fn
      BY <1>1, <1>4, <2>2, <2>3
    <2>5. \A i \in 1 .. l + 1 : a[i].fn \in Fn
      BY <2>2, <2>4
    <2>6. Called(a) \in Seq(Fn) /\ Len(Called(a)) = l + 1 /\ \A i \in 1 .. l + 1 : Called(a)[i] = a[i].fn
      BY <1>3, <2>1, <2>5
    <2>7. Called(a) = Append(Fns(q), m.fn)
      BY <2>2, <2>4, <2>6, SeqEqual
    <2> QED BY <1>2, <2>0, <2>7 DEF a
  <1> QED BY <1>5, <1>6 DEF a

\* The DTB takes the oldest of the functions called.
LEMMA CalledTail ==
  ASSUME NEW q \in Seq(Requests), q # <<>>, \A i \in 1 .. Len(q) - 1 : Silent(q[i]),
         q[Len(q)].fn \in Fn \cup {GetRpcCallId}, Len(q) > 1 \/ q[1].fn \in Fn
  PROVE  Called(q) # <<>> /\ Head(Called(q)) = q[1].fn /\ Called(Tail(q)) = Tail(Called(q))
  <1> DEFINE t == Tail(q)
             c == IF q[Len(q)].fn = GetRpcCallId THEN Len(q) - 1 ELSE Len(q)
  <1>1. /\ Len(q) \in Nat /\ Len(q) > 0 /\ t \in Seq(Requests) /\ Len(t) = Len(q) - 1
        /\ \A i \in 1 .. Len(q) - 1 : t[i] = q[i + 1]
    BY Oldest
  <1>2. \A f \in Fn : f # GetRpcCallId
    BY FnAssumption DEF GetRpcCallId
  <1> HIDE DEF t
  <1>3. c \in Nat /\ c > 0
    <2>1. Len(q) = 1 => q[Len(q)].fn # GetRpcCallId
      BY <1>2
    <2> QED BY <1>1, <2>1
  <1>4. Called(q) = [i \in 1 .. c |-> q[i].fn]
    BY DEF Called
  <1>5. \A i \in 1 .. c : q[i].fn \in Fn
    <2> SUFFICES ASSUME NEW i \in 1 .. c PROVE q[i].fn \in Fn
      OBVIOUS
    <2>1. CASE i \in 1 .. Len(q) - 1
      BY <2>1 DEF Silent
    <2>2. CASE i \notin 1 .. Len(q) - 1
      <3>1. i = Len(q) /\ q[Len(q)].fn # GetRpcCallId
        BY <1>1, <2>2
      <3> QED BY <3>1
    <2> QED BY <2>1, <2>2
  <1>6. Called(t) = [i \in 1 .. c - 1 |-> t[i].fn]
    <2>1. CASE Len(q) > 1
      <3>1. t # <<>> /\ Len(t) \in Nat /\ Len(t) = Len(q) - 1 /\ t[Len(t)] = q[Len(q)]
        <4>1. Len(q) - 1 \in 1 .. Len(q) - 1 /\ (Len(q) - 1) + 1 = Len(q)
          BY <1>1, <2>1
        <4>2. t[Len(q) - 1] = q[(Len(q) - 1) + 1]
          BY <1>1, <4>1
        <4> QED BY <1>1, <2>1, <4>1, <4>2
      <3>2. (IF t[Len(t)].fn = GetRpcCallId THEN Len(t) - 1 ELSE Len(t)) = c - 1
        BY <1>1, <3>1
      <3> QED BY <3>1, <3>2 DEF Called
    <2>2. CASE Len(q) = 1
      <3>1. t = <<>> /\ c = 1
        BY <1>1, <1>2, <2>2
      <3> QED BY <1>1, <2>2, <3>1 DEF Called
    <2> QED BY <1>1, <2>1, <2>2
  <1> HIDE DEF c
  <1>7. Called(q) \in Seq(Fn) /\ Len(Called(q)) = c /\ \A i \in 1 .. c : Called(q)[i] = q[i].fn
    BY <1>3, <1>4, <1>5
  <1>8. /\ Called(q) # <<>> /\ Head(Called(q)) = Called(q)[1] /\ Tail(Called(q)) \in Seq(Fn)
        /\ Len(Tail(Called(q))) = c - 1
        /\ \A i \in 1 .. c - 1 : Tail(Called(q))[i] = Called(q)[i + 1]
    BY <1>3, <1>7, HeadTailProperties
  <1>9. \A i \in 1 .. c - 1 : t[i] = q[i + 1] /\ i + 1 \in 1 .. c
    BY <1>1, <1>3 DEF c
  <1>10. \A i \in 1 .. c - 1 : Tail(Called(q))[i] = t[i].fn
    BY <1>7, <1>8, <1>9
  <1>11. Called(t) \in Seq(Fn) /\ Len(Called(t)) = c - 1 /\ \A i \in 1 .. c - 1 : Called(t)[i] = t[i].fn
    <2>1. \A i \in 1 .. c - 1 : t[i].fn \in Fn
      BY <1>5, <1>9
    <2> QED BY <1>3, <1>6, <2>1
  <1>12. Called(t) = Tail(Called(q))
    BY <1>8, <1>10, <1>11, SeqEqual
  <1>13. Head(Called(q)) = q[1].fn
    BY <1>3, <1>7, <1>8
  <1> QED BY <1>8, <1>12, <1>13 DEF t

\* What is on its way is a beginning of what was.
LEMMA CalledBeginning ==
  ASSUME NEW q \in Seq(Requests), NEW o \in Seq(Requests), AllSilent(q), AllSilent(o)
  PROVE  \E n \in 0 .. Len(Called(q \o o)) : Called(q) = SubSeq(Called(q \o o), 1, n)
  <1>1. /\ q \o o \in Seq(Requests) /\ Len(q \o o) = Len(q) + Len(o)
        /\ \A i \in 1 .. Len(q) + Len(o) : (q \o o)[i] = IF i <= Len(q) THEN q[i] ELSE o[i - Len(q)]
    BY ConcatProperties
  <1> DEFINE r == q \o o
             s == SubSeq(Called(r), 1, Len(q))
  <1>2. AllSilent(r) /\ Len(q) \in Nat /\ Len(o) \in Nat
    BY ConcatRequests
  <1> HIDE DEF r
  <1>3. Called(q) = Fns(q) /\ Fns(q) \in Seq(Fn) /\ Len(Fns(q)) = Len(q)
    BY CalledSilent
  <1>4. Called(r) = Fns(r) /\ Fns(r) \in Seq(Fn) /\ Len(Fns(r)) = Len(q) + Len(o)
    BY <1>1, <1>2, CalledSilent DEF r
  <1>5. s \in Seq(Fn) /\ Len(s) = Len(q) /\ \A i \in 1 .. Len(q) : s[i] = Fns(r)[i]
    <2>1. \A i \in 1 .. Len(q) : Fns(r)[i] \in Fn
      BY <1>2, <1>4
    <2>2. /\ s \in Seq(Fn) /\ Len(s) = IF 1 <= Len(q) THEN Len(q) - 1 + 1 ELSE 0
          /\ \A i \in 1 .. Len(q) - 1 + 1 : s[i] = Fns(r)[1 + i - 1]
      BY <1>2, <1>4, <2>1, SubSeqProperties
    <2> HIDE DEF s
    <2> QED BY <1>2, <2>2
  <1>6. \A i \in 1 .. Len(q) : Fns(r)[i] = Fns(q)[i]
    <2> SUFFICES ASSUME NEW i \in 1 .. Len(q) PROVE r[i].fn = q[i].fn /\ i \in 1 .. Len(r)
      BY DEF Fns
    <2> QED BY <1>1, <1>2 DEF r
  <1>7. Called(q) = s
    BY <1>3, <1>5, <1>6, SeqEqual
  <1>8. Len(q) \in 0 .. Len(Called(r))
    BY <1>2, <1>4
  <1> QED BY <1>7, <1>8 DEF r, s

\* A request sent is the youngest.
LEMMA SentIsYoungest ==
  ASSUME RpcInv, NEW f, NEW arg, Request(f, arg) \in Requests, SendRequest(f, arg)
  PROVE  devQ' \o outQ' = Append(devQ \o outQ, Request(f, arg))
  <1> DEFINE m == Request(f, arg)
  <1>1. devQ \in Seq(Requests) /\ outQ \in Seq(Requests)
    BY DEF RpcInv, TypeOK
  <1>2. m \in Requests
    OBVIOUS
  <1>3. \/ devQ' = devQ \o Append(outQ, m) /\ outQ' = <<>>
        \/ devQ' = devQ /\ outQ' = Append(outQ, m)
        \/ devQ' = devQ \o outQ /\ outQ' = <<m>>
    BY DEF SendRequest, SendFlush, SendOnly
  <1> HIDE DEF m
  <1>4. /\ devQ \o Append(outQ, m) \in Seq(Requests)
        /\ devQ \o Append(outQ, m) = Append(devQ \o outQ, m)
    BY <1>1, <1>2, FlushRequest
  <1>5. (devQ \o outQ) \in Seq(Requests)
    BY <1>1, ConcatProperties
  <1>6. Append(devQ \o outQ, m) = (devQ \o outQ) \o <<m>>
    BY <1>2, <1>5, AppendIsConcat
  <1>7. (devQ \o Append(outQ, m)) \o <<>> = devQ \o Append(outQ, m)
    BY <1>4, ConcatEmptySeq
  <1>8. devQ' \o outQ' = Append(devQ \o outQ, m)
    BY <1>3, <1>4, <1>6, <1>7
  <1> QED BY <1>8 DEF m

\* Before a call everything on its way is void.
LEMMA SilentBefore ==
  ASSUME RpcInv, InStep, stage \in {"idle", "gotId"}
  PROVE  /\ devQ \in Seq(Requests) /\ outQ \in Seq(Requests) /\ devQ \o outQ \in Seq(Requests)
         /\ AllSilent(devQ) /\ AllSilent(outQ) /\ AllSilent(devQ \o outQ)
  <1>1. devQ \in Seq(Requests) /\ outQ \in Seq(Requests) /\ AllSilent(devQ) /\ AllSilent(outQ)
    BY DEF RpcInv, TypeOK, QueueInv, StepInv
  <1> QED BY <1>1, ConcatRequests

LEMMA IssueStep ==
  ASSUME RpcInv, InStep, stage \in {"idle", "gotId"}, NEW f \in Fn, cache[f] >= 0,
         SendRequest(f, 0), UNCHANGED exec
  PROVE  Service!Issue(f)
  <1>1. f # GetRpcCallId
    BY FnAssumption DEF GetRpcCallId
  <1>2. Request(f, 0) \in Requests /\ Request(f, 0).fn = f
    BY <1>1, RequestIs DEF Request
  <1>3. devQ' \o outQ' = Append(devQ \o outQ, Request(f, 0))
    BY <1>2, SentIsYoungest
  <1>4. Called(devQ' \o outQ') = Append(Called(devQ \o outQ), f)
    BY <1>2, <1>3, SilentBefore, CalledAppend
  <1>5. Waiting = 0
    BY DEF Waiting
  <1>6. Waiting' = IF Kind[f] = "void" THEN 0 ELSE f
    BY <1>1 DEF Waiting, SendRequest, Replies, Leave
  <1>7. Todo' = Append(Todo, f)
    BY <1>4 DEF Todo, Called
  <1>8. Done' = Done
    BY DEF Done
  <1> QED BY <1>5, <1>6, <1>7, <1>8 DEF Service!Issue, Todo, Done, Waiting

LEMMA LookupStep ==
  ASSUME RpcInv, InStep, stage \in {"idle", "gotId"}, NEW arg \in Fn, SendRequest(GetRpcCallId, arg),
         UNCHANGED exec
  PROVE  UNCHANGED Service!vars
  <1>1. arg \in Nat
    BY FnAssumption
  <1>2. Request(GetRpcCallId, arg) \in Requests /\ Request(GetRpcCallId, arg).fn = GetRpcCallId
    BY <1>1, RequestIs DEF Request
  <1>3. devQ' \o outQ' = Append(devQ \o outQ, Request(GetRpcCallId, arg))
    BY <1>2, SentIsYoungest
  <1>4. Called(devQ' \o outQ') = Called(devQ \o outQ)
    BY <1>2, <1>3, SilentBefore, CalledAppend
  <1>5. Waiting = 0 /\ Waiting' = 0
    BY DEF Waiting, SendRequest, Replies
  <1>7. Todo' = Todo
    BY <1>4 DEF Todo, Called
  <1>8. Done' = Done
    BY DEF Done
  <1> QED BY <1>5, <1>7, <1>8 DEF Service!vars, Todo, Done, Waiting

\* Steps that touch neither requests nor calls.
LEMMA HiddenStep ==
  ASSUME UNCHANGED exec, Waiting' = Waiting, Called(devQ' \o outQ') = Called(devQ \o outQ)
  PROVE  UNCHANGED Service!vars
  <1>1. Todo' = Todo
    BY DEF Todo, Called
  <1>2. Done' = Done
    BY DEF Done
  <1> QED BY <1>1, <1>2 DEF Service!vars, Todo, Done, Waiting

LEMMA LoseStep ==
  ASSUME RpcInv, InStep, stage = "idle", stage' = "idle", UNCHANGED exec, outQ' = <<>>,
         devQ' = devQ \/ devQ' = <<>>
  PROVE  Service!LoseYoungest
  <1>1. /\ devQ \in Seq(Requests) /\ outQ \in Seq(Requests) /\ <<>> \in Seq(Requests)
        /\ AllSilent(devQ) /\ AllSilent(outQ) /\ AllSilent(devQ \o outQ)
        /\ devQ \o outQ \in Seq(Requests)
    BY SilentBefore
  <1>2. \E n \in 0 .. Len(Todo) : Todo' = SubSeq(Todo, 1, n)
    <2>1. CASE devQ' = devQ
      <3>1. devQ' \o outQ' = devQ
        BY <1>1, <2>1, ConcatEmptySeq
      <3>2. Todo' = Called(devQ)
        BY <3>1 DEF Todo, Called
      <3> QED BY <1>1, <3>2, CalledBeginning DEF Todo
    <2>2. CASE devQ' = <<>>
      <3>1. devQ' \o outQ' = <<>>
        BY <1>1, <2>2, ConcatEmptySeq
      <3>2. Todo' = Called(<<>>)
        BY <3>1 DEF Todo, Called
      <3>3. Called(<<>>) = <<>>
        BY DEF Called
      <3>4. Todo \in Seq(Fn)
        BY <1>1, CalledSilent DEF Todo
      <3>5. SubSeq(Todo, 1, 0) = <<>> /\ 0 \in 0 .. Len(Todo)
        BY <3>4, SubSeqEmpty
      <3> QED BY <3>2, <3>3, <3>5
    <2> QED BY <2>1, <2>2
  <1>3. Done' = Done
    BY DEF Done
  <1>4. Waiting = 0 /\ Waiting' = 0
    BY DEF Waiting
  <1> QED BY <1>2, <1>3, <1>4 DEF Service!LoseYoungest, Todo, Done, Waiting

LEMMA ServiceExecute ==
  ASSUME RpcInv, InStep, Execute
  PROVE  Service!Execute \/ UNCHANGED Service!vars
  <1> DEFINE m == Head(devQ)
             t == Tail(devQ)
             q == devQ \o outQ
  <1>0. TypeOK /\ QueueInv /\ StepInv /\ ControlInv /\ AllKnown(devQ)
    BY DEF RpcInv, QueueInv, InStep
  <1>1. /\ devQ # <<>> /\ devQ' = t
        /\ UNCHANGED <<cache, stage, fn, outer, outQ>>
    BY DEF Execute, client
  <1>2. /\ devQ \in Seq(Requests) /\ outQ \in Seq(Requests) /\ devId \in Tables
        /\ exec \in Seq([fn : Fn, meant : Nat])
        /\ m \in Requests /\ m = devQ[1] /\ t \in Seq(Requests)
        /\ Len(devQ) \in Nat /\ Len(devQ) > 0 /\ Known(m)
    BY <1>0, <1>1, Oldest DEF TypeOK, QueueInv
  <1>3. Runs(m) = {m.fn}
    BY <1>2, RunsKnown
  <1>4. exec' = IF m.fn = GetRpcCallId THEN exec ELSE Append(exec, [fn |-> m.fn, meant |-> m.fn])
    BY <1>3 DEF Execute
  <1>5. q \in Seq(Requests) /\ q # <<>> /\ q[1] = m /\ Tail(q) = t \o outQ
    <2>1. /\ q \in Seq(Requests) /\ Len(q) = Len(devQ) + Len(outQ)
          /\ \A i \in 1 .. Len(devQ) + Len(outQ) :
               q[i] = IF i <= Len(devQ) THEN devQ[i] ELSE outQ[i - Len(devQ)]
      BY <1>2, ConcatProperties
    <2>2. Len(outQ) \in Nat
      BY <1>2
    <2>3. q # <<>> /\ q[1] = m
      BY <1>2, <2>1, <2>2
    <2>4. Tail(q) = t \o outQ
      <3>1. /\ Tail(q) \in Seq(Requests) /\ Len(Tail(q)) = Len(q) - 1
            /\ \A i \in 1 .. Len(Tail(q)) : Tail(q)[i] = q[i + 1]
        BY <2>1, <2>3, HeadTailProperties
      <3>2. Len(t) = Len(devQ) - 1 /\ \A i \in 1 .. Len(t) : t[i] = devQ[i + 1]
        BY <1>1, <1>2, Oldest
      <3>3. /\ t \o outQ \in Seq(Requests) /\ Len(t \o outQ) = Len(t) + Len(outQ)
            /\ \A i \in 1 .. Len(t) + Len(outQ) :
                 (t \o outQ)[i] = IF i <= Len(t) THEN t[i] ELSE outQ[i - Len(t)]
        BY <1>2, ConcatProperties
      <3> HIDE DEF t, q
      <3>4. ASSUME NEW i \in 1 .. Len(Tail(q)) PROVE Tail(q)[i] = (t \o outQ)[i]
        <4>1. i + 1 \in 1 .. Len(devQ) + Len(outQ) /\ i \in 1 .. Len(t) + Len(outQ)
              /\ (i + 1) - Len(devQ) = i - Len(t)
          BY <1>2, <2>1, <2>2, <3>1, <3>2
        <4>2. Tail(q)[i] = IF i + 1 <= Len(devQ) THEN devQ[i + 1] ELSE outQ[i - Len(t)]
          BY <2>1, <3>1, <4>1
        <4>3. (t \o outQ)[i] = IF i <= Len(t) THEN t[i] ELSE outQ[i - Len(t)]
          BY <3>3, <4>1
        <4>4. CASE i <= Len(t)
          <5>1. i \in 1 .. Len(t) /\ i + 1 <= Len(devQ)
            BY <1>2, <3>2, <4>4
          <5> QED BY <3>2, <4>2, <4>3, <4>4, <5>1
        <4>5. CASE ~(i <= Len(t))
          <5>1. ~(i + 1 <= Len(devQ))
            BY <1>2, <3>2, <4>5
          <5> QED BY <4>2, <4>3, <4>5, <5>1
        <4> QED BY <4>4, <4>5
      <3>5. Len(Tail(q)) = Len(t \o outQ)
        BY <1>2, <2>1, <2>2, <3>1, <3>2, <3>3
      <3> QED BY <3>1, <3>3, <3>4, <3>5, SeqEqual
    <2> QED BY <2>1, <2>3, <2>4
  <1>6. /\ \A i \in 1 .. Len(q) - 1 : Silent(q[i])
        /\ q[Len(q)].fn \in Fn \cup {GetRpcCallId}
    <2>1. CASE stage \in {"idle", "gotId"}
      <3>1. AllSilent(q) /\ Len(q) \in 1 .. Len(q)
        BY <1>5, <2>1, SilentBefore
      <3> QED BY <3>1 DEF AllSilent, Silent
    <2>2. CASE Reading
      <3>1. Asked /\ outQ = <<>>
        BY <1>0, <1>1, <2>2 DEF StepInv, Answered, ControlInv, Reading
      <3>2. q = devQ
        BY <1>2, <3>1, ConcatEmptySeq
      <3>3. q[Len(q)].fn = fn /\ \A i \in 1 .. Len(q) - 1 : Silent(q[i])
        BY <3>1, <3>2 DEF Asked, Sent
      <3> QED BY <1>0, <2>2, <3>3 DEF ControlInv, Reading
    <2> QED BY <2>1, <2>2 DEF Reading
  <1>7. Waiting' = Waiting /\ Todo = Called(q) /\ Todo' = Called(Tail(q))
    <2>1. Waiting' = Waiting
      BY <1>1 DEF Waiting
    <2>2. Todo' = Called(t \o outQ)
      BY <1>1 DEF Todo, Called
    <2> QED BY <1>5, <2>1, <2>2 DEF Todo
  <1> HIDE DEF m, t, q
  <1>8. CASE m.fn = GetRpcCallId
    <2>1. Len(q) = 1
      <3>1. Len(q) \in Nat /\ Len(q) > 0
        BY <1>5
      <3>2. 1 \in 1 .. Len(q) - 1 => m.fn \in Fn
        BY <1>5, <1>6 DEF Silent
      <3>3. m.fn \notin Fn
        BY <1>8, FnAssumption DEF GetRpcCallId
      <3>4. ~(1 \in 1 .. Len(q) - 1)
        BY <3>2, <3>3
      <3>5. \A n \in Nat : n > 0 /\ ~(1 \in 1 .. n - 1) => n = 1
        OBVIOUS
      <3> QED BY <3>1, <3>4, <3>5, Zenon
    <2>2. Tail(q) = <<>>
      <3>1. Tail(q) \in Seq(Requests)
        BY <1>5, HeadTailProperties, Zenon
      <3>2. Len(Tail(q)) = 0
        <4>1. Len(Tail(q)) = Len(q) - 1
          BY <1>5, HeadTailProperties, Zenon
        <4> QED BY <2>1, <4>1
      <3>3. \A n \in Nat \ {0} : n # 0
        OBVIOUS
      <3> QED BY <3>1, <3>2, <3>3, EmptySeq, Zenon
    <2>3. Called(q) = <<>> /\ Called(Tail(q)) = <<>>
      <3>1. q # <<>> /\ q[Len(q)].fn = GetRpcCallId
        BY <1>5, <1>8, <2>1
      <3>2. Called(q) = [i \in 1 .. Len(q) - 1 |-> q[i].fn]
        BY <3>1 DEF Called
      <3>3. 1 .. Len(q) - 1 = {}
        BY <2>1
      <3>4. [i \in {} |-> q[i].fn] = <<>>
        OBVIOUS
      <3>5. Called(<<>>) = <<>>
        BY DEF Called
      <3> QED BY <2>2, <3>2, <3>3, <3>4, <3>5, Zenon
    <2>4. exec' = exec /\ Todo' = Todo
      BY <1>4, <1>7, <1>8, <2>3
    <2>5. Done' = Done
      BY <2>4 DEF Done
    <2> QED BY <1>7, <2>4, <2>5 DEF Service!vars, Todo, Done, Waiting
  <1>9. CASE m.fn # GetRpcCallId
    <2>1. m.fn \in Fn
      BY <1>2, <1>9 DEF Known
    <2>2. Len(q) > 1 \/ q[1].fn \in Fn
      BY <1>5, <2>1
    <2>3. Called(q) # <<>> /\ Head(Called(q)) = m.fn /\ Called(Tail(q)) = Tail(Called(q))
      BY <1>5, <1>6, <2>2, CalledTail
    <2>4. exec' = Append(exec, [fn |-> m.fn, meant |-> m.fn])
      BY <1>4, <1>9
    <2>5. Done' = Append(Done, m.fn)
      <3> DEFINE e == [fn |-> m.fn, meant |-> m.fn]
      <3>1. e \in [fn : Fn, meant : Nat] /\ e.fn = m.fn
        BY <1>2, <2>1 DEF Requests
      <3> HIDE DEF e
      <3>2. /\ Len(exec) \in Nat /\ Len(exec') = Len(exec) + 1
            /\ (\A i \in 1 .. Len(exec) : exec'[i] = exec[i]) /\ exec'[Len(exec) + 1] = e
            /\ \A i \in 1 .. Len(exec) : exec[i].fn \in Fn
        <4>1. exec' = Append(exec, e)
          BY <2>4 DEF e
        <4>2. /\ Len(exec) \in Nat /\ Len(exec') = Len(exec) + 1
              /\ (\A i \in 1 .. Len(exec) : exec'[i] = exec[i]) /\ exec'[Len(exec) + 1] = e
          BY <1>2, <3>1, <4>1, AppendProperties
        <4>3. \A i \in 1 .. Len(exec) : exec[i].fn \in Fn
          <5>1. exec \in Seq([fn : Fn, meant : Nat])
            BY <1>2, Zenon
          <5>2. \A i \in 1 .. Len(exec) : exec[i] \in [fn : Fn, meant : Nat]
            BY <5>1, ElementOfSeq, Zenon
          <5> QED BY <5>2
        <4> QED BY <4>2, <4>3
      <3>3. Done \in Seq(Fn) /\ Len(Done) = Len(exec) /\ \A i \in 1 .. Len(exec) : Done[i] = exec[i].fn
        BY <3>2 DEF Done
      <3>4. Done' = [i \in 1 .. Len(exec) + 1 |-> exec'[i].fn]
        BY <3>2 DEF Done
      <3>5. Append(Done, m.fn) \in Seq(Fn) /\ Len(Append(Done, m.fn)) = Len(exec) + 1
            /\ (\A i \in 1 .. Len(exec) : Append(Done, m.fn)[i] = Done[i])
            /\ Append(Done, m.fn)[Len(exec) + 1] = m.fn
        BY <2>1, <3>2, <3>3, AppendProperties
      <3>6. \A i \in 1 .. Len(exec) + 1 : i \in 1 .. Len(exec) \/ i = Len(exec) + 1
        BY <3>2
      <3>7. \A i \in 1 .. Len(exec) + 1 : exec'[i].fn = Append(Done, m.fn)[i]
        BY <3>1, <3>2, <3>3, <3>5, <3>6
      <3>8. Done' \in Seq(Fn) /\ Len(Done') = Len(exec) + 1
            /\ \A i \in 1 .. Len(exec) + 1 : Done'[i] = exec'[i].fn
        <4>1. \A i \in 1 .. Len(exec) + 1 : exec'[i].fn \in Fn
          BY <3>5, <3>7
        <4> QED BY <3>2, <3>4, <4>1
      <3> QED BY <3>5, <3>7, <3>8, SeqEqual
    <2> QED BY <1>7, <2>3, <2>5 DEF Service!Execute, Todo, Done, Waiting
  <1> QED BY <1>8, <1>9

LEMMA ServiceStep ==
  ASSUME ~Faults, RpcInv, RpcInv', [Next]_vars
  PROVE  [Service!Next]_(Service!vars)
  <1> USE DEF Service!Next
  <1>0. InStep /\ InStep'
    BY DEF RpcInv, NoFaults
  <1>1. CASE ReadAction
    <2>1. ReadStep /\ Reading
      BY <1>1, ReadActionStep, ReadActionReads
    <2>2. UNCHANGED <<devQ, outQ, exec>>
      BY <2>1 DEF ReadStep
    <2>3. CASE stage' # "idle"
      <3>1. Waiting' = Waiting
        BY <2>1, <2>3 DEF ReadStep, Waiting, Reading
      <3> QED BY <2>2, <3>1, HiddenStep
    <2>4. CASE stage' = "idle"
      <3>1. fn # GetRpcCallId /\ devQ = <<>>
        BY <1>0, <2>1, <2>4 DEF ReadStep
      <3>2. fn \in Fn /\ outQ = <<>>
        BY <2>1, <3>1 DEF RpcInv, ControlInv, Reading
      <3>3. Waiting # 0 /\ Waiting' = 0
        <4>1. fn # 0
          BY <3>2, FnAssumption
        <4> QED BY <2>1, <2>4, <3>1, <4>1 DEF Waiting, Reading
      <3>4. Todo = <<>> /\ Todo' = Todo
        <4>1. devQ \o outQ = <<>>
          BY <3>1, <3>2
        <4>2. Called(<<>>) = <<>>
          BY DEF Called
        <4> QED BY <2>2, <4>1, <4>2 DEF Todo, Called
      <3>5. Done' = Done
        BY <2>2 DEF Done
      <3> QED BY <3>3, <3>4, <3>5 DEF Service!Return, Todo, Done, Waiting
    <2> QED BY <2>3, <2>4
  <1>2. CASE GotId
    <2>1. stage = "gotId" /\ exec' = exec /\ outer \in Fn /\ cache[outer] \in Int
      BY <1>2 DEF GotId, RpcInv, ControlInv, TypeOK
    <2>2. CASE stage' = "idle" /\ UNCHANGED <<outQ, devQ>>
      <3>1. Waiting' = Waiting
        BY <2>1, <2>2 DEF Waiting
      <3> QED BY <2>1, <2>2, <3>1, HiddenStep
    <2>3. CASE SendRequest(outer, 0) /\ cache[outer] >= 0
      BY <1>0, <2>1, <2>3, IssueStep
    <2> QED BY <1>2, <2>1, <2>2, <2>3 DEF GotId, Leave
  <1>3. CASE LinkStep
    <2>1. stage = "idle" /\ exec' = exec /\ link # <<>> /\ Head(link) \in Fn
      <3>1. stage = "idle" /\ exec' = exec /\ link # <<>> /\ linking
        BY <1>3 DEF LinkStep
      <3> QED BY <3>1, LinkNext
    <2>2. CASE UNCHANGED <<client, devQ, outQ>>
      <3>1. Waiting' = Waiting
        BY <2>2 DEF Waiting, client
      <3> QED BY <2>1, <2>2, <3>1, HiddenStep
    <2>3. CASE SendRequest(GetRpcCallId, Head(link))
      BY <1>0, <2>1, <2>3, LookupStep
    <2> QED BY <1>3, <2>2, <2>3 DEF LinkStep
  <1>4. CASE \E f \in Fn : Call(f)
    <2>1. PICK f \in Fn : Call(f)
      BY <1>4
    <2>2. stage = "idle" /\ exec' = exec
      BY <2>1 DEF Call
    <2>3. CASE cache[f] >= 0
      <3>1. SendRequest(f, 0)
        BY <2>1, <2>3 DEF Call
      <3> QED BY <1>0, <2>2, <2>3, <3>1, IssueStep
    <2>4. CASE ~(cache[f] >= 0)
      <3>1. SendRequest(GetRpcCallId, f)
        BY <2>1, <2>4 DEF Call
      <3> QED BY <1>0, <2>2, <3>1, LookupStep
    <2> QED BY <2>3, <2>4
  <1>5. CASE CallClosed \/ LinkStart \/ LinkReturn \/ Close \/ Arrive \/ UNCHANGED vars
    <2>1. UNCHANGED <<stage, fn, devQ, outQ, exec>>
      BY <1>5 DEF CallClosed, LinkStart, LinkReturn, Close, Arrive, vars, client, device
    <2>2. Waiting' = Waiting
      BY <2>1 DEF Waiting
    <2> QED BY <2>1, <2>2, HiddenStep
  <1>6. CASE Flush
    <2>1. UNCHANGED <<stage, fn, exec>> /\ devQ' = devQ \o outQ /\ outQ' = <<>>
      BY <1>6 DEF Flush, client
    <2>2. Waiting' = Waiting
      BY <2>1 DEF Waiting
    <2>3. devQ' \o outQ' = devQ \o outQ
      <3>1. devQ \o outQ \in Seq(Requests)
        BY <1>0, <1>6, SilentBefore DEF Flush
      <3> QED BY <2>1, <3>1, ConcatEmptySeq
    <2> QED BY <2>1, <2>2, <2>3, HiddenStep
  <1>7. CASE Open \/ Clear
    <2>1. stage = "idle" /\ stage' = "idle" /\ exec' = exec /\ outQ' = <<>> /\ (devQ' = devQ \/ devQ' = <<>>)
      BY <1>7 DEF Open, Clear, client, device
    <2> QED BY <1>0, <2>1, LoseStep
  <1>8. CASE Kill
    BY <1>8 DEF Kill
  <1>9. CASE Execute
    BY <1>0, <1>9, ServiceExecute
  <1> QED BY <1>1, <1>2, <1>3, <1>4, <1>5, <1>6, <1>7, <1>8, <1>9, NextCases

LEMMA ServiceInit == Init => Service!Init
  <1> SUFFICES ASSUME Init PROVE Service!Init
    OBVIOUS
  <1>1. Called(devQ \o outQ) = <<>>
    BY DEF Init, Called
  <1>2. Done = <<>> /\ Waiting = 0
    BY DEF Init, Done, Waiting
  <1> QED BY <1>1, <1>2 DEF Service!Init, Done, Waiting

\* As long as no read fails, buffering, id look-ups, refused functions and reconnections are
\* invisible: the DTB executes the functions called, each once and in program order, and a
\* call with a reply returns when it and everything before it was executed.
THEOREM StubsImplementService == ~Faults /\ Spec => ImplementsService
  <1>1. ASSUME ~Faults PROVE Spec => Service!Spec
    <2>1. RpcInv /\ RpcInv' /\ [Next]_vars => [Service!Next]_(Service!vars)
      BY <1>1, ServiceStep
    <2> QED BY <2>1, ServiceInit, RpcInvariant, PTL DEF Spec, Service!Spec
  <1> QED BY <1>1 DEF ImplementsService
=============================================================================
