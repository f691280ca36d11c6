----------------------------- MODULE UsbProofs -----------------------------
(***************************************************************************)
(* Theorems about CUSB (module Usb), for every size of its two buffers and *)
(* every bound of the model: its type invariant, the order of the bytes in *)
(* both directions, where each written byte is, that one Read returns      *)
(* bytes without a gap, and that it implements the byte link.              *)
(***************************************************************************)
EXTENDS Usb, SequenceTheorems, TLAPS

\* First and Rest cut a sequence in two.
LEMMA CutFacts ==
  ASSUME NEW s \in Seq(Nat), NEW n \in 0 .. Len(s)
  PROVE  /\ First(s, n) \in Seq(Nat) /\ Len(First(s, n)) = n
         /\ \A i \in 1 .. n : First(s, n)[i] = s[i]
         /\ Rest(s, n) \in Seq(Nat) /\ Len(Rest(s, n)) = Len(s) - n
         /\ \A i \in 1 .. Len(s) - n : Rest(s, n)[i] = s[n + i]
  <1>1. \A i \in 1 .. n : s[i] \in Nat
    OBVIOUS
  <1>2. \A i \in n + 1 .. Len(s) : s[i] \in Nat
    OBVIOUS
  <1>3. /\ First(s, n) \in Seq(Nat) /\ Len(First(s, n)) = n
        /\ \A i \in 1 .. n : First(s, n)[i] = s[i]
    BY <1>1, SubSeqProperties DEF First
  <1>4. /\ Rest(s, n) \in Seq(Nat) /\ Len(Rest(s, n)) = Len(s) - n
        /\ \A i \in 1 .. Len(s) - n : Rest(s, n)[i] = s[n + i]
    <2> DEFINE r == SubSeq(s, n + 1, Len(s))
    <2>1. n + 1 \in Int /\ Len(s) \in Int
      OBVIOUS
    <2>2. /\ r \in Seq(Nat)
          /\ Len(r) = IF n + 1 <= Len(s) THEN Len(s) - (n + 1) + 1 ELSE 0
          /\ \A i \in 1 .. Len(s) - (n + 1) + 1 : r[i] = s[n + 1 + i - 1]
      BY <1>2, <2>1, SubSeqProperties, SMTT(20)
    <2> HIDE DEF r
    <2>3. /\ r \in Seq(Nat) /\ Len(r) = Len(s) - n
          /\ \A i \in 1 .. Len(s) - n : r[i] = s[n + i]
      BY <2>2
    <2> QED BY <2>3 DEF Rest, r
  <1> QED BY <1>3, <1>4

LEMMA ElemsType ==
  ASSUME NEW s \in Seq(Nat) PROVE Elems(s) \subseteq Nat
  <1>1. \A i \in 1 .. Len(s) : s[i] \in Nat
    OBVIOUS
  <1> QED BY <1>1 DEF Elems

\* A queue that was left alone or emptied.
LEMMA KeptOrEmpty ==
  ASSUME NEW s \in Seq(Nat), NEW t, t = s \/ t = <<>>
  PROVE  t \in Seq(Nat) /\ Len(t) <= Len(s)
  <1>1. CASE t = s
    BY <1>1
  <1>2. CASE t = <<>>
    BY <1>2
  <1> QED BY <1>1, <1>2

-----------------------------------------------------------------------------
(* Type correctness.  TypeOK in four parts, and two facts it rests on: done *)
(* is set only with a byte in hand, and a call runs only while CUSB is open.*)

Control ==
  /\ isUSB_open \in BOOLEAN /\ handle \in BOOLEAN /\ done \in BOOLEAN
  /\ pc \in {"idle", "write", "read", "fill"} /\ result \in Results

Numbers ==
  /\ todo \in Nat /\ ask \in Nat /\ taken \in Nat /\ wrote \in Nat /\ sent \in Nat
  /\ ask <= RBUF

Queues ==
  /\ wbuf \in Seq(Nat) /\ rbuf \in Seq(Nat) /\ rxq \in Seq(Nat)
  /\ toDev \in Seq(Nat) /\ got \in Seq(Nat) /\ lost \subseteq Nat /\ gaveUp \subseteq Nat

Limits == Len(wbuf) <= WBUF /\ Len(rbuf) <= RBUF

DoneHasByte == done => got # <<>> \/ rbuf # <<>>

CallNeedsOpen == pc # "idle" => isUSB_open

TypeInv == Control /\ Numbers /\ Queues /\ Limits /\ DoneHasByte /\ CallNeedsOpen

LEMMA TypeInvGives == TypeInv => TypeOK
  BY DEF TypeInv, TypeOK, Control, Numbers, Queues, Limits

LEMMA TypeInit == Init => TypeInv
  <1> SUFFICES ASSUME Init PROVE TypeInv
    OBVIOUS
  <1>1. Control
    BY DEF Init, Control, Results
  <1>2. Numbers
    BY BufferAssumption DEF Init, Numbers
  <1>3. Queues
    BY DEF Init, Queues
  <1>4. Limits
    BY BufferAssumption DEF Init, Limits
  <1>5. DoneHasByte /\ CallNeedsOpen
    BY DEF Init, DoneHasByte, CallNeedsOpen
  <1> QED BY <1>1, <1>2, <1>3, <1>4, <1>5 DEF TypeInv

LEMMA ControlStep == Control /\ Next => Control'
  <1> SUFFICES ASSUME Control, Next PROVE Control'
    OBVIOUS
  <1> USE DEF Control, conn, in, out, calls, End, Results
  <1>1. CASE Open
    BY <1>1 DEF Open
  <1>2. CASE Close
    BY <1>2 DEF Close
  <1>3. CASE Clear
    BY <1>3 DEF Clear
  <1>4. CASE Flush
    BY <1>4 DEF Flush
  <1>5. CASE \E n \in 0 .. MaxCall : WriteCall(n) \/ ReadCall(n)
    BY <1>5 DEF WriteCall, ReadCall
  <1>6. CASE WriteStep
    BY <1>6 DEF WriteStep, WritePut, WriteReturn, WriteFlush
  <1>7. CASE ReadCopy \/ ReadReturn \/ ReadBreak \/ FillStart \/ FillRefused \/ FillError
    BY <1>7 DEF ReadCopy, ReadReturn, ReadBreak, FillStart, FillRefused, FillError
  <1>8. ASSUME NEW n, FillTakes(n) PROVE Control'
    <2>1. (n < Wanted) \in BOOLEAN
      OBVIOUS
    <2>2. CASE n = 0
      BY <1>8, <2>2 DEF FillTakes
    <2>3. CASE n # 0
      BY <1>8, <2>1, <2>3 DEF FillTakes
    <2> QED BY <2>2, <2>3
  <1>9. CASE FillFull \/ FillTimeout
    BY <1>8, <1>9 DEF FillFull, FillTimeout
  <1>10. CASE DevSend
    BY <1>10 DEF DevSend
  <1> QED
    BY <1>1, <1>2, <1>3, <1>4, <1>5, <1>6, <1>7, <1>9, <1>10 DEF Next, ReadStep

LEMMA NumbersStep == TypeInv /\ Next => Numbers'
  <1> SUFFICES ASSUME TypeInv, Next PROVE Numbers'
    OBVIOUS
  <1> USE BufferAssumption DEF TypeInv, Numbers, conn, in, out, calls, End
  <1>1. CASE Open
    BY <1>1 DEF Open
  <1>2. CASE Close
    BY <1>2 DEF Close
  <1>3. CASE Clear
    BY <1>3 DEF Clear
  <1>4. CASE Flush
    BY <1>4 DEF Flush, FlushDone, FlushError
  <1>5. CASE \E n \in 0 .. MaxCall : WriteCall(n) \/ ReadCall(n)
    BY <1>5, BoundAssumption DEF WriteCall, ReadCall
  <1>6. CASE WritePut
    BY <1>6 DEF WritePut
  <1>7. CASE WriteReturn
    BY <1>7 DEF WriteReturn
  <1>8. CASE WriteFlush
    BY <1>8 DEF WriteFlush, FlushDone, FlushError
  <1>9. CASE ReadCopy
    BY <1>9 DEF ReadCopy
  <1>10. CASE ReadReturn \/ ReadBreak \/ FillRefused \/ FillError
    BY <1>10 DEF ReadReturn, ReadBreak, FillRefused, FillError
  <1>11. CASE FillStart
    <2>1. Len(rxq) \in Nat
      BY DEF Queues
    <2> QED BY <1>11, <2>1 DEF FillStart, Wanted, Least, Greatest
  <1>12. CASE FillFull \/ FillTimeout
    BY <1>12 DEF FillFull, FillTimeout, FillTakes
  <1>13. CASE DevSend
    BY <1>13 DEF DevSend
  <1> QED
    BY <1>1, <1>2, <1>3, <1>4, <1>5, <1>6, <1>7, <1>8, <1>9, <1>10, <1>11, <1>12, <1>13
    DEF Next, WriteStep, ReadStep

\* FlushDone and FlushError: m_bufferW is empty afterwards, whatever arrived.
LEMMA FlushTypes ==
  ASSUME Queues, FlushDone \/ FlushError
  PROVE  /\ wbuf' = <<>> /\ wrote' = wrote /\ toDev' \in Seq(Nat) /\ lost' \subseteq Nat
  <1>1. CASE FlushDone
    BY <1>1 DEF FlushDone, Queues
  <1>2. CASE FlushError
    <2>1. PICK n \in 0 .. Len(wbuf) : /\ toDev' = toDev \o First(wbuf, n)
                                      /\ lost' = lost \cup Elems(Rest(wbuf, n))
      BY <1>2 DEF FlushError
    <2>2. First(wbuf, n) \in Seq(Nat) /\ Rest(wbuf, n) \in Seq(Nat)
      BY CutFacts DEF Queues
    <2>3. Elems(Rest(wbuf, n)) \subseteq Nat
      BY <2>2, ElemsType
    <2>4. toDev' \in Seq(Nat)
      BY <2>1, <2>2, ConcatProperties DEF Queues
    <2>5. lost' \subseteq Nat
      BY <2>1, <2>3 DEF Queues
    <2> QED BY <1>2, <2>4, <2>5 DEF FlushError
  <1> QED BY <1>1, <1>2

\* FillTakes(n) with what FT_Read may hand over.
LEMMA FillTypes ==
  ASSUME Queues, NEW n \in 0 .. Len(rxq), FillTakes(n)
  PROVE  /\ rbuf' \in Seq(Nat) /\ rxq' \in Seq(Nat)
         /\ Len(rbuf') = n /\ Len(rxq') = Len(rxq) - n
         /\ \A i \in 1 .. n : rbuf'[i] = rxq[i]
         /\ \A i \in 1 .. Len(rxq) - n : rxq'[i] = rxq[n + i]
  BY CutFacts DEF FillTakes, Queues

LEMMA QueuesStep == TypeInv /\ Next => Queues' /\ Limits'
  <1> SUFFICES ASSUME TypeInv, Next PROVE Queues' /\ Limits'
    OBVIOUS
  <1> USE BufferAssumption DEF TypeInv, Queues, Limits
  <1>0. Len(<<>>) <= WBUF /\ Len(<<>>) <= RBUF
    OBVIOUS
  <1>1. CASE Open
    <2>1. Elems(wbuf) \subseteq Nat
      BY ElemsType
    <2>2. lost' \subseteq Nat
      BY <1>1, <2>1 DEF Open, out
    <2>3. /\ wbuf' = wbuf \/ wbuf' = <<>>
          /\ rbuf' = rbuf \/ rbuf' = <<>>
          /\ UNCHANGED <<rxq, toDev, got, gaveUp>>
      BY <1>1 DEF Open, out, in
    <2>4. wbuf' \in Seq(Nat) /\ Len(wbuf') <= Len(wbuf)
      BY <2>3, KeptOrEmpty
    <2>5. rbuf' \in Seq(Nat) /\ Len(rbuf') <= Len(rbuf)
      BY <2>3, KeptOrEmpty
    <2> QED BY <2>2, <2>3, <2>4, <2>5
  <1>2. CASE Close
    <2>1. rxq' = rxq \/ rxq' = <<>>
      BY <1>2 DEF Close, conn
    <2>2. UNCHANGED <<out, rbuf, got, gaveUp>>
      BY <1>2 DEF Close
    <2>3. rxq' \in Seq(Nat)
      BY <2>1, KeptOrEmpty
    <2> QED BY <2>2, <2>3 DEF out
  <1>3. CASE Clear
    <2>1. Elems(wbuf) \subseteq Nat
      BY ElemsType
    <2>2. lost' \subseteq Nat
      BY <1>3, <2>1 DEF Clear
    <2>3. /\ wbuf' = wbuf \/ wbuf' = <<>>
          /\ rbuf' = rbuf \/ rbuf' = <<>>
          /\ rxq' = rxq \/ rxq' = <<>>
          /\ UNCHANGED <<toDev, got, gaveUp>>
      BY <1>3 DEF Clear
    <2>4. wbuf' \in Seq(Nat) /\ Len(wbuf') <= Len(wbuf)
      BY <2>3, KeptOrEmpty
    <2>5. rbuf' \in Seq(Nat) /\ Len(rbuf') <= Len(rbuf)
      BY <2>3, KeptOrEmpty
    <2>6. rxq' \in Seq(Nat)
      BY <2>3, KeptOrEmpty
    <2> QED BY <2>2, <2>3, <2>4, <2>5, <2>6
  <1>4. CASE Flush
    <2>1. Elems(wbuf) \subseteq Nat
      BY ElemsType
    <2>2. /\ wbuf' = <<>> /\ toDev' \in Seq(Nat) /\ lost' \subseteq Nat
      BY <1>4, <2>1, FlushTypes DEF Flush
    <2>3. UNCHANGED in
      BY <1>4 DEF Flush
    <2> QED BY <1>0, <2>2, <2>3 DEF in
  <1>5. CASE (\E n \in 0 .. MaxCall : WriteCall(n) \/ ReadCall(n)) \/ WriteReturn
             \/ ReadReturn \/ FillStart \/ FillRefused
    <2>1. UNCHANGED <<out, in>>
      BY <1>5 DEF WriteCall, ReadCall, WriteReturn, ReadReturn, FillStart, FillRefused
    <2> QED BY <2>1 DEF out, in
  <1>6. CASE WritePut
    <2>1. wrote + 1 \in Nat
      BY DEF Numbers
    <2>2. Append(wbuf, wrote + 1) \in Seq(Nat) /\ Len(Append(wbuf, wrote + 1)) = Len(wbuf) + 1
      BY <2>1
    <2>3. Len(wbuf) < WBUF /\ wbuf' = Append(wbuf, wrote + 1) /\ UNCHANGED <<toDev, lost, in>>
      BY <1>6 DEF WritePut
    <2>4. Len(wbuf') <= WBUF
      BY <2>2, <2>3
    <2> QED BY <2>2, <2>3, <2>4 DEF in
  <1>7. CASE WriteFlush
    <2>1. /\ wbuf' = <<>> /\ toDev' \in Seq(Nat) /\ lost' \subseteq Nat
      BY <1>7, FlushTypes DEF WriteFlush
    <2>2. UNCHANGED in
      BY <1>7 DEF WriteFlush
    <2> QED BY <1>0, <2>1, <2>2 DEF in
  <1>8. CASE ReadCopy
    <2>1. rbuf # <<>> /\ got' = Append(got, Head(rbuf)) /\ rbuf' = Tail(rbuf)
          /\ UNCHANGED <<rxq, gaveUp, out>>
      BY <1>8 DEF ReadCopy
    <2>2. Head(rbuf) \in Nat /\ Tail(rbuf) \in Seq(Nat) /\ Len(Tail(rbuf)) = Len(rbuf) - 1
      BY <2>1, HeadTailProperties
    <2>3. got' \in Seq(Nat)
      BY <2>1, <2>2
    <2> QED BY <2>1, <2>2, <2>3 DEF out
  <1>9. CASE ReadBreak
    <2>1. got # <<>> /\ UNCHANGED <<rbuf, rxq, got, out>>
      BY <1>9 DEF ReadBreak, DoneHasByte
    <2>2. got[Len(got)] \in Nat
      BY <2>1
    <2>3. \A j \in 1 .. todo : got[Len(got)] + j \in Nat
      BY <2>2 DEF Numbers
    <2>4. gaveUp' \subseteq Nat
      BY <1>9, <2>3 DEF ReadBreak
    <2> QED BY <2>1, <2>4 DEF out
  <1>10. CASE FillFull \/ FillTimeout
    <2>1. PICK n \in 0 .. Len(rxq) : FillTakes(n) /\ n <= ask
      BY <1>10 DEF FillFull, FillTimeout, Numbers
    <2>2. rbuf' \in Seq(Nat) /\ rxq' \in Seq(Nat) /\ Len(rbuf') = n
      BY <2>1, FillTypes
    <2>3. UNCHANGED <<got, gaveUp, out>>
      BY <2>1 DEF FillTakes
    <2>4. Len(rbuf') <= RBUF
      BY <2>1, <2>2 DEF Numbers
    <2> QED BY <2>2, <2>3, <2>4 DEF out
  <1>11. CASE FillError
    <2>1. PICK n \in 0 .. Least(ask, Len(rxq)) : rxq' = Rest(rxq, n)
      BY <1>11 DEF FillError
    <2>2. n \in 0 .. Len(rxq)
      BY <2>1 DEF Least, Numbers
    <2>3. rxq' \in Seq(Nat)
      BY <2>1, <2>2, CutFacts
    <2>4. rbuf' = <<>> /\ UNCHANGED <<got, gaveUp, out>>
      BY <1>11 DEF FillError
    <2> QED BY <1>0, <2>3, <2>4 DEF out
  <1>12. CASE DevSend
    BY <1>12 DEF DevSend, out, Numbers
  <1> QED
    BY <1>1, <1>2, <1>3, <1>4, <1>5, <1>6, <1>7, <1>8, <1>9, <1>10, <1>11, <1>12
    DEF Next, WriteStep, ReadStep

LEMMA SupportStep == TypeInv /\ Next => DoneHasByte' /\ CallNeedsOpen'
  <1> SUFFICES ASSUME TypeInv, Next PROVE DoneHasByte' /\ CallNeedsOpen'
    OBVIOUS
  <1> USE DEF TypeInv, DoneHasByte, CallNeedsOpen, End, conn, in, calls
  <1>1. CASE Open \/ Close \/ Clear
    BY <1>1 DEF Open, Close, Clear
  <1>2. CASE Flush
    BY <1>2 DEF Flush
  <1>3. CASE \E n \in 0 .. MaxCall : WriteCall(n) \/ ReadCall(n)
    BY <1>3 DEF WriteCall, ReadCall
  <1>4. CASE WriteStep
    BY <1>4 DEF WriteStep, WritePut, WriteReturn, WriteFlush
  <1>5. CASE ReadCopy
    <2>1. got' = Append(got, Head(rbuf)) /\ UNCHANGED <<pc, conn>>
      BY <1>5 DEF ReadCopy
    <2>2. Append(got, Head(rbuf)) # <<>>
      <3>1. Head(rbuf) \in Nat
        BY <1>5, HeadTailProperties DEF ReadCopy, Queues
      <3>2. got \in Seq(Nat)
        BY DEF Queues
      <3>3. Len(Append(got, Head(rbuf))) = Len(got) + 1 /\ Len(got) \in Nat
        BY <3>1, <3>2
      <3> QED BY <3>3
    <2> QED BY <2>1, <2>2
  <1>6. CASE ReadReturn \/ ReadBreak \/ FillStart \/ FillRefused \/ FillError
    BY <1>6 DEF ReadReturn, ReadBreak, FillStart, FillRefused, FillError
  <1>7. CASE FillFull \/ FillTimeout
    <2>1. PICK n \in 0 .. Len(rxq) : FillTakes(n) /\ pc = "fill"
      BY <1>7 DEF FillFull, FillTimeout, Queues, Numbers
    <2>2. Len(rbuf') = n /\ rbuf' \in Seq(Nat)
      BY <2>1, FillTypes
    <2>3. n # 0 => rbuf' # <<>>
      BY <2>2
    <2> QED BY <2>1, <2>3 DEF FillTakes
  <1>8. CASE DevSend
    BY <1>8 DEF DevSend
  <1> QED
    BY <1>1, <1>2, <1>3, <1>4, <1>5, <1>6, <1>7, <1>8 DEF Next, ReadStep

LEMMA TypeStep == TypeInv /\ [Next]_vars => TypeInv'
  <1>1. TypeInv /\ Next => TypeInv'
    BY ControlStep, NumbersStep, QueuesStep, SupportStep DEF TypeInv
  <1>2. TypeInv /\ UNCHANGED vars => TypeInv'
    BY DEF TypeInv, Control, Numbers, Queues, Limits, DoneHasByte, CallNeedsOpen,
           vars, calls, out, in, conn
  <1> QED BY <1>1, <1>2

\* Every variable keeps its type, the two buffers never exceed their arrays, and
\* FillBuffer never asks the driver for more than m_bufferR holds.
THEOREM TypeCorrect == Spec => []TypeOK
  <1>1. Spec => []TypeInv
    BY TypeInit, TypeStep, PTL DEF Spec
  <1> QED BY <1>1, TypeInvGives, PTL

-----------------------------------------------------------------------------
(* Order of the bytes.  A block that ends with n stays one when a byte is   *)
(* added behind it, when its front is taken, and when nothing is left of it.*)

LEMMA BlockEmpty == ASSUME NEW n PROVE EndsAt(<<>>, n)
  BY DEF EndsAt

LEMMA BlockAppend ==
  ASSUME NEW s \in Seq(Nat), NEW n \in Nat, EndsAt(s, n)
  PROVE  EndsAt(Append(s, n + 1), n + 1)
  <1> DEFINE t == Append(s, n + 1)
  <1>1. /\ Len(s) \in Nat /\ Len(t) = Len(s) + 1 /\ t[Len(s) + 1] = n + 1
        /\ \A i \in 1 .. Len(s) : t[i] = s[i]
    OBVIOUS
  <1>2. \A i \in 1 .. Len(s) : s[i] = n - Len(s) + i
    BY DEF EndsAt
  <1> HIDE DEF t
  <1>3. ASSUME NEW i \in 1 .. Len(t) PROVE t[i] = n + 1 - Len(t) + i
    <2>1. CASE i = Len(s) + 1
      BY <1>1, <2>1
    <2>2. CASE i # Len(s) + 1
      <3>1. i \in 1 .. Len(s)
        BY <1>1, <2>2
      <3>2. t[i] = n - Len(s) + i
        BY <1>1, <1>2, <3>1
      <3> QED BY <1>1, <3>1, <3>2
    <2> QED BY <2>1, <2>2
  <1>4. EndsAt(t, n + 1)
    BY <1>3 DEF EndsAt
  <1> QED BY <1>4 DEF t

LEMMA BlockRest ==
  ASSUME NEW s \in Seq(Nat), NEW n \in Int, NEW k \in 0 .. Len(s), EndsAt(s, n)
  PROVE  EndsAt(Rest(s, k), n)
  <1> DEFINE r == Rest(s, k)
  <1>a. /\ Len(Rest(s, k)) = Len(s) - k
        /\ \A i \in 1 .. Len(s) - k : Rest(s, k)[i] = s[k + i]
    BY CutFacts
  <1>b. Len(s) \in Nat
    OBVIOUS
  <1>1. Len(s) \in Nat /\ Len(r) = Len(s) - k /\ \A i \in 1 .. Len(s) - k : r[i] = s[k + i]
    BY <1>a, <1>b
  <1>2. \A i \in 1 .. Len(s) : s[i] = n - Len(s) + i
    BY DEF EndsAt
  <1> HIDE DEF r
  <1>3. ASSUME NEW i \in 1 .. Len(r) PROVE r[i] = n - Len(r) + i
    <2>1. k + i \in 1 .. Len(s) /\ i \in 1 .. Len(s) - k
      BY <1>1
    <2>2. r[i] = n - Len(s) + (k + i)
      BY <1>1, <1>2, <2>1
    <2> QED BY <1>1, <2>2
  <1>4. EndsAt(r, n)
    BY <1>3 DEF EndsAt
  <1> QED BY <1>4 DEF r

LEMMA BlockFirst ==
  ASSUME NEW s \in Seq(Nat), NEW n \in Int, NEW k \in 0 .. Len(s), EndsAt(s, n)
  PROVE  EndsAt(First(s, k), n - (Len(s) - k))
  <1> DEFINE f == First(s, k)
  <1>a. Len(First(s, k)) = k /\ \A i \in 1 .. k : First(s, k)[i] = s[i]
    BY CutFacts
  <1>b. Len(s) \in Nat
    OBVIOUS
  <1>1. Len(s) \in Nat /\ Len(f) = k /\ \A i \in 1 .. k : f[i] = s[i]
    BY <1>a, <1>b
  <1>2. \A i \in 1 .. Len(s) : s[i] = n - Len(s) + i
    BY DEF EndsAt
  <1> HIDE DEF f
  <1>3. ASSUME NEW i \in 1 .. Len(f) PROVE f[i] = n - (Len(s) - k) - Len(f) + i
    <2>1. i \in 1 .. Len(s) /\ i \in 1 .. k
      BY <1>1
    <2>2. f[i] = n - Len(s) + i
      BY <1>1, <1>2, <2>1
    <2> QED BY <1>1, <2>2
  <1>4. EndsAt(f, n - (Len(s) - k))
    BY <1>3 DEF EndsAt
  <1> QED BY <1>4 DEF f

LEMMA BlockTail ==
  ASSUME NEW s \in Seq(Nat), s # <<>>, NEW n \in Int, EndsAt(s, n)
  PROVE  EndsAt(Tail(s), n) /\ Head(s) = n - Len(s) + 1
  <1>1. Len(s) \in Nat \ {0} /\ Len(Tail(s)) = Len(s) - 1 /\ Head(s) = s[1]
    BY HeadTailProperties, EmptySeq
  <1>2. \A i \in 1 .. Len(s) - 1 : Tail(s)[i] = s[i + 1]
    BY HeadTailProperties
  <1>3. \A i \in 1 .. Len(s) : s[i] = n - Len(s) + i
    BY DEF EndsAt
  <1>4. ASSUME NEW i \in 1 .. Len(Tail(s)) PROVE Tail(s)[i] = n - Len(Tail(s)) + i
    <2>1. i + 1 \in 1 .. Len(s) /\ i \in 1 .. Len(s) - 1
      BY <1>1
    <2>2. Tail(s)[i] = n - Len(s) + (i + 1)
      BY <1>2, <1>3, <2>1
    <2> QED BY <1>1, <2>2
  <1>5. Head(s) = n - Len(s) + 1
    BY <1>1, <1>3
  <1> QED BY <1>4, <1>5 DEF EndsAt

LEMMA WriteBufferStep == TypeInv /\ WriteBufferIsNewest /\ Next => WriteBufferIsNewest'
  <1> SUFFICES ASSUME TypeInv, WriteBufferIsNewest, Next PROVE WriteBufferIsNewest'
    OBVIOUS
  <1> USE DEF WriteBufferIsNewest
  <1>1. ASSUME UNCHANGED <<wbuf, wrote>> PROVE WriteBufferIsNewest'
    BY <1>1 DEF EndsAt
  <1>2. ASSUME wbuf' = <<>> PROVE WriteBufferIsNewest'
    BY <1>2 DEF EndsAt
  <1>3. CASE WritePut
    <2>1. EndsAt(Append(wbuf, wrote + 1), wrote + 1)
      BY BlockAppend DEF TypeInv, Queues, Numbers
    <2>2. wbuf' = Append(wbuf, wrote + 1) /\ wrote' = wrote + 1
      BY <1>3 DEF WritePut
    <2> QED BY <2>1, <2>2 DEF EndsAt
  <1>4. CASE Open \/ Clear
    <2>1. wbuf' = <<>> \/ UNCHANGED <<wbuf, wrote>>
      BY <1>4 DEF Open, Clear, out
    <2> QED BY <1>1, <1>2, <2>1
  <1>5. CASE Flush \/ WriteFlush
    BY <1>2, <1>5 DEF Flush, WriteFlush, FlushDone, FlushError
  <1>6. CASE ReadStep \/ DevSend \/ Close \/ WriteReturn
    <2>1. UNCHANGED out
      BY <1>6 DEF ReadStep, ReadCopy, ReadReturn, ReadBreak, FillStart, FillRefused, FillFull,
                  FillTimeout, FillTakes, FillError, DevSend, Close, WriteReturn
    <2> QED BY <1>1, <2>1 DEF out
  <1>7. CASE \E n \in 0 .. MaxCall : WriteCall(n) \/ ReadCall(n)
    <2>1. UNCHANGED out
      BY <1>7 DEF WriteCall, ReadCall
    <2> QED BY <1>1, <2>1 DEF out
  <1> QED BY <1>3, <1>4, <1>5, <1>6, <1>7 DEF Next, WriteStep

\* The input side: what is in the driver's queue and in m_bufferR, and that
\* everything returned is older.
Bound == sent - Len(rxq) - Len(rbuf)

LEMMA InputStep == TypeInv /\ InputIsContiguous /\ Next => InputIsContiguous'
  <1> SUFFICES ASSUME TypeInv, InputIsContiguous, Next PROVE InputIsContiguous'
    OBVIOUS
  <1>0. /\ rbuf \in Seq(Nat) /\ rxq \in Seq(Nat) /\ sent \in Nat
        /\ Len(rbuf) \in Nat /\ Len(rxq) \in Nat
    BY DEF TypeInv, Queues, Numbers
  <1>1. EndsAt(rxq, sent) /\ (isUSB_open => EndsAt(rbuf, sent - Len(rxq)))
    BY DEF InputIsContiguous
  <1>2. ASSUME UNCHANGED <<rbuf, rxq, sent, isUSB_open>> PROVE InputIsContiguous'
    BY <1>1, <1>2 DEF InputIsContiguous, EndsAt
  <1>3. CASE Open
    <2>1. CASE isUSB_open
      <3>1. UNCHANGED <<in, conn>>
        BY <1>3, <2>1 DEF Open
      <3> QED BY <1>2, <3>1 DEF in, conn
    <2>2. CASE ~isUSB_open
      <3>1. rbuf' = <<>> /\ UNCHANGED <<rxq, sent>>
        BY <1>3, <2>2 DEF Open
      <3> QED BY <1>1, <3>1 DEF InputIsContiguous, EndsAt
    <2> QED BY <2>1, <2>2
  <1>4. CASE Close
    <2>1. CASE isUSB_open
      <3>1. isUSB_open' = FALSE /\ rxq' \in {rxq, <<>>} /\ sent' = sent
        BY <1>4, <2>1 DEF Close
      <3> QED BY <1>1, <3>1 DEF InputIsContiguous, EndsAt
    <2>2. CASE ~isUSB_open
      <3>1. UNCHANGED <<rbuf, rxq, sent, isUSB_open>>
        BY <1>4, <2>2 DEF Close, conn
      <3> QED BY <1>2, <3>1
    <2> QED BY <2>1, <2>2
  <1>5. CASE Clear
    <2>1. CASE isUSB_open
      <3>1. rbuf' = <<>> /\ rxq' \in {rxq, <<>>} /\ sent' = sent
        BY <1>5, <2>1 DEF Clear
      <3> QED BY <1>1, <3>1 DEF InputIsContiguous, EndsAt
    <2>2. CASE ~isUSB_open
      <3>1. UNCHANGED <<rbuf, rxq, sent, isUSB_open>>
        BY <1>5, <2>2 DEF Clear, conn
      <3> QED BY <1>2, <3>1
    <2> QED BY <2>1, <2>2
  <1>6. CASE ReadCopy
    <2>1. rbuf # <<>> /\ rbuf' = Tail(rbuf) /\ UNCHANGED <<rxq, sent, isUSB_open>>
      BY <1>6 DEF ReadCopy, conn
    <2>2. sent - Len(rxq) \in Int
      BY <1>0
    <2>3. isUSB_open => EndsAt(Tail(rbuf), sent - Len(rxq))
      BY <1>0, <1>1, <2>1, <2>2, BlockTail
    <2> QED BY <1>1, <2>1, <2>3 DEF InputIsContiguous, EndsAt
  <1>7. CASE FillFull \/ FillTimeout
    <2>1. PICK n \in 0 .. Len(rxq) : FillTakes(n)
      BY <1>0, <1>7 DEF FillFull, FillTimeout, TypeInv, Numbers
    <2>2. /\ rbuf' = First(rxq, n) /\ rxq' = Rest(rxq, n) /\ sent' = sent
      BY <2>1 DEF FillTakes
    <2>3. EndsAt(First(rxq, n), sent - (Len(rxq) - n)) /\ EndsAt(Rest(rxq, n), sent)
      BY <1>0, <1>1, BlockFirst, BlockRest
    <2>4. Len(Rest(rxq, n)) = Len(rxq) - n
      BY <1>0, CutFacts
    <2> QED BY <2>2, <2>3, <2>4 DEF InputIsContiguous, EndsAt
  <1>8. CASE FillError
    <2>1. PICK n \in 0 .. Least(ask, Len(rxq)) : rxq' = Rest(rxq, n)
      BY <1>8 DEF FillError
    <2>2. n \in 0 .. Len(rxq)
      BY <1>0, <2>1 DEF Least, TypeInv, Numbers
    <2>3. EndsAt(Rest(rxq, n), sent)
      BY <1>0, <1>1, <2>2, BlockRest
    <2>4. rbuf' = <<>> /\ sent' = sent
      BY <1>8 DEF FillError
    <2> QED BY <2>1, <2>3, <2>4 DEF InputIsContiguous, EndsAt
  <1>9. CASE DevSend
    <2>1. /\ rxq' = Append(rxq, sent + 1) /\ sent' = sent + 1
          /\ UNCHANGED <<rbuf, isUSB_open>>
      BY <1>9 DEF DevSend, conn
    <2>2. EndsAt(Append(rxq, sent + 1), sent + 1)
      BY <1>0, <1>1, BlockAppend
    <2>3. Len(rxq') = Len(rxq) + 1
      BY <1>0, <2>1
    <2>4. sent' - Len(rxq') = sent - Len(rxq)
      BY <1>0, <2>1, <2>3
    <2> QED BY <1>1, <2>1, <2>2, <2>4 DEF InputIsContiguous, EndsAt
  <1>10. CASE Flush \/ WriteStep \/ ReadReturn \/ ReadBreak \/ FillStart \/ FillRefused
              \/ \E n \in 0 .. MaxCall : WriteCall(n) \/ ReadCall(n)
    <2>1. UNCHANGED <<rbuf, rxq, sent, isUSB_open>>
      BY <1>10 DEF Flush, WriteStep, WritePut, WriteReturn, WriteFlush, ReadReturn, ReadBreak,
                   FillStart, FillRefused, WriteCall, ReadCall, in, conn
    <2> QED BY <1>2, <2>1
  <1> QED
    BY <1>3, <1>4, <1>5, <1>6, <1>7, <1>8, <1>9, <1>10 DEF Next, ReadStep

\* A step that returns no byte and does not make anything unread older.
LEMMA GotKept ==
  ASSUME ReadsInOrder, got \in Seq(Nat), Bound \in Int, Bound' \in Int,
         got' = got, Bound <= Bound'
  PROVE  ReadsInOrder'
  <1>1. \A i \in 1 .. Len(got) : got[i] \in Nat /\ got[i] <= Bound
    BY DEF ReadsInOrder, Bound
  <1>2. \A i \in 1 .. Len(got) : got[i] <= Bound'
    BY <1>1
  <1> QED BY <1>2 DEF ReadsInOrder, Bound, Increasing

LEMMA OrderStep ==
  TypeInv /\ InputIsContiguous /\ ReadsInOrder /\ Next => ReadsInOrder'
  <1> SUFFICES ASSUME TypeInv, InputIsContiguous, ReadsInOrder, Next PROVE ReadsInOrder'
    OBVIOUS
  <1>0. /\ rbuf \in Seq(Nat) /\ rxq \in Seq(Nat) /\ sent \in Nat /\ got \in Seq(Nat)
        /\ Len(rbuf) \in Nat /\ Len(rxq) \in Nat /\ Bound \in Int
    BY DEF TypeInv, Queues, Numbers, Bound
  <1>1. /\ rbuf' \in Seq(Nat) /\ rxq' \in Seq(Nat) /\ sent' \in Nat
        /\ Len(rbuf') \in Nat /\ Len(rxq') \in Nat /\ Bound' \in Int
    <2>1. Queues' /\ Numbers'
      BY QueuesStep, NumbersStep
    <2> QED BY <2>1 DEF Queues, Numbers, Bound
  <1>2. CASE Open \/ Close \/ Clear
    <2>1. /\ rbuf' = rbuf \/ rbuf' = <<>>
          /\ rxq' = rxq \/ rxq' = <<>>
          /\ UNCHANGED <<sent, got>>
      BY <1>2 DEF Open, Close, Clear, in, conn
    <2>2. Len(rbuf') <= Len(rbuf) /\ Len(rxq') <= Len(rxq)
      BY <1>0, <2>1, KeptOrEmpty
    <2>3. Bound <= Bound'
      BY <1>0, <1>1, <2>1, <2>2 DEF Bound
    <2> QED BY <1>0, <1>1, <2>1, <2>3, GotKept
  <1>3. CASE ReadCopy
    <2>1. /\ rbuf # <<>> /\ rbuf' = Tail(rbuf) /\ got' = Append(got, Head(rbuf))
          /\ UNCHANGED <<rxq, sent>> /\ isUSB_open
      BY <1>3 DEF ReadCopy, TypeInv, CallNeedsOpen
    <2>2. EndsAt(rbuf, sent - Len(rxq)) /\ sent - Len(rxq) \in Int
      BY <1>0, <2>1 DEF InputIsContiguous
    <2>3. Head(rbuf) = Bound + 1 /\ Head(rbuf) \in Nat /\ Len(Tail(rbuf)) = Len(rbuf) - 1
      BY <1>0, <2>1, <2>2, BlockTail, HeadTailProperties DEF Bound
    <2>4. Bound' = Bound + 1
      BY <1>0, <2>1, <2>3 DEF Bound
    <2>5. \A i \in 1 .. Len(got) : got[i] \in Nat /\ got[i] <= Bound
      BY <1>0 DEF ReadsInOrder, Bound
    <2>6. /\ Len(got') = Len(got) + 1 /\ Len(got) \in Nat
          /\ got'[Len(got) + 1] = Bound + 1
          /\ \A i \in 1 .. Len(got) : got'[i] = got[i]
      BY <1>0, <2>1, <2>3
    <2>7. ASSUME NEW i \in 1 .. Len(got') PROVE got'[i] <= Bound'
      <3>1. CASE i = Len(got) + 1
        BY <1>0, <2>4, <2>6, <3>1
      <3>2. CASE i # Len(got) + 1
        <4>1. i \in 1 .. Len(got) /\ got'[i] = got[i]
          BY <2>6, <3>2
        <4> QED BY <1>0, <2>4, <2>5, <4>1
      <3> QED BY <3>1, <3>2
    <2>8. ASSUME NEW i \in 1 .. Len(got'), NEW j \in 1 .. Len(got'), i < j
          PROVE  got'[i] < got'[j]
      <3>1. i \in 1 .. Len(got) /\ got'[i] = got[i]
        BY <2>6, <2>8
      <3>2. CASE j = Len(got) + 1
        BY <1>0, <2>5, <2>6, <3>1, <3>2
      <3>3. CASE j # Len(got) + 1
        <4>1. j \in 1 .. Len(got) /\ got'[j] = got[j]
          BY <2>6, <3>3
        <4> QED BY <2>8, <3>1, <4>1 DEF ReadsInOrder, Increasing
      <3> QED BY <3>2, <3>3
    <2> QED BY <2>7, <2>8 DEF ReadsInOrder, Increasing, Bound
  <1>4. CASE FillFull \/ FillTimeout
    <2>1. PICK n \in 0 .. Len(rxq) : FillTakes(n)
      BY <1>0, <1>4 DEF FillFull, FillTimeout, TypeInv, Numbers
    <2>2. Len(rbuf') = n /\ Len(rxq') = Len(rxq) - n
      BY <2>1, FillTypes DEF TypeInv
    <2>3. UNCHANGED <<got, sent>>
      BY <2>1 DEF FillTakes
    <2>4. Bound <= Bound'
      BY <1>0, <2>2, <2>3 DEF Bound
    <2> QED BY <1>0, <1>1, <2>3, <2>4, GotKept
  <1>5. CASE FillError
    <2>1. PICK n \in 0 .. Least(ask, Len(rxq)) : rxq' = Rest(rxq, n)
      BY <1>5 DEF FillError
    <2>2. n \in 0 .. Len(rxq)
      BY <1>0, <2>1 DEF Least, TypeInv, Numbers
    <2>3. Len(rxq') = Len(rxq) - n
      BY <1>0, <2>1, <2>2, CutFacts
    <2>4. Len(rbuf') = 0 /\ UNCHANGED <<got, sent>>
      BY <1>5 DEF FillError
    <2>5. Bound <= Bound'
      BY <1>0, <2>2, <2>3, <2>4 DEF Bound
    <2> QED BY <1>0, <1>1, <2>4, <2>5, GotKept
  <1>6. CASE DevSend
    <2>1. /\ rxq' = Append(rxq, sent + 1) /\ sent' = sent + 1 /\ UNCHANGED <<rbuf, got>>
      BY <1>6 DEF DevSend
    <2>2. Len(rxq') = Len(rxq) + 1
      BY <1>0, <2>1
    <2>3. Bound <= Bound'
      BY <1>0, <2>1, <2>2 DEF Bound
    <2> QED BY <1>0, <1>1, <2>1, <2>3, GotKept
  <1>7. CASE Flush \/ WriteStep \/ ReadReturn \/ ReadBreak \/ FillStart \/ FillRefused
             \/ \E n \in 0 .. MaxCall : WriteCall(n) \/ ReadCall(n)
    <2>1. UNCHANGED <<rbuf, rxq, sent, got>>
      BY <1>7 DEF Flush, WriteStep, WritePut, WriteReturn, WriteFlush, ReadReturn, ReadBreak,
                  FillStart, FillRefused, WriteCall, ReadCall, in
    <2>2. Bound <= Bound'
      BY <1>0, <2>1 DEF Bound
    <2> QED BY <1>0, <1>1, <2>1, <2>2, GotKept
  <1> QED
    BY <1>2, <1>3, <1>4, <1>5, <1>6, <1>7 DEF Next, ReadStep

\* The inductive invariant of the byte order.
OrderInv == TypeInv /\ WriteBufferIsNewest /\ InputIsContiguous /\ ReadsInOrder

LEMMA OrderInit == Init => OrderInv
  <1> SUFFICES ASSUME Init PROVE OrderInv
    OBVIOUS
  <1>1. TypeInv
    BY TypeInit
  <1>2. WriteBufferIsNewest /\ InputIsContiguous /\ ReadsInOrder
    BY DEF Init, WriteBufferIsNewest, InputIsContiguous, ReadsInOrder, EndsAt, Increasing
  <1> QED BY <1>1, <1>2 DEF OrderInv

LEMMA OrderInvStep == OrderInv /\ [Next]_vars => OrderInv'
  <1>1. OrderInv /\ Next => OrderInv'
    BY TypeStep, WriteBufferStep, InputStep, OrderStep DEF OrderInv
  <1>2. OrderInv /\ UNCHANGED vars => OrderInv'
    <2> SUFFICES ASSUME OrderInv, UNCHANGED vars PROVE OrderInv'
      OBVIOUS
    <2>1. TypeInv'
      BY TypeStep DEF OrderInv
    <2>2. UNCHANGED <<wbuf, wrote, rbuf, rxq, got, sent, isUSB_open>>
      BY DEF vars, out, in, conn
    <2>3. WriteBufferIsNewest' /\ InputIsContiguous' /\ ReadsInOrder'
      BY <2>2 DEF OrderInv, WriteBufferIsNewest, InputIsContiguous, ReadsInOrder, EndsAt,
                  Increasing
    <2> QED BY <2>1, <2>3 DEF OrderInv
  <1> QED BY <1>1, <1>2

LEMMA AlwaysOrderInv == Spec => []OrderInv
  BY OrderInit, OrderInvStep, PTL DEF Spec

\* m_bufferW holds exactly the newest written bytes, for buffers of every size.
THEOREM WriteBufferCorrect == Spec => []WriteBufferIsNewest
  <1>1. OrderInv => WriteBufferIsNewest
    BY DEF OrderInv
  <1> QED BY <1>1, AlwaysOrderInv, PTL

\* m_bufferR and the driver's queue stay one gap-free block, across every refill,
\* time-out and error.
THEOREM InputCorrect == Spec => []InputIsContiguous
  <1>1. OrderInv => InputIsContiguous
    BY DEF OrderInv
  <1> QED BY <1>1, AlwaysOrderInv, PTL

\* Read returns bytes in the order the DTB sent them, none twice.
THEOREM ReadOrderCorrect == Spec => []ReadsInOrder
  <1>1. OrderInv => ReadsInOrder
    BY DEF OrderInv
  <1> QED BY <1>1, AlwaysOrderInv, PTL

-----------------------------------------------------------------------------
(* Bytes to the DTB.  WritesAccounted is not inductive: that a byte of       *)
(* m_bufferW has not been thrown away before is needed when it goes to the   *)
(* DTB.                                                                      *)
AccountInv == OrderInv /\ WritesAccounted /\ Elems(wbuf) \cap lost = {}

LEMMA AccountFacts ==
  ASSUME AccountInv
  PROVE  /\ wbuf \in Seq(Nat) /\ toDev \in Seq(Nat) /\ wrote \in Nat
         /\ Len(wbuf) \in Nat /\ Len(toDev) \in Nat
         /\ \A i \in 1 .. Len(wbuf) : wbuf[i] = wrote - Len(wbuf) + i /\ wbuf[i] \in Elems(wbuf)
         /\ \A i \in 1 .. Len(toDev) : toDev[i] \in Nat /\ toDev[i] \in Elems(toDev)
         /\ Elems(toDev) \cap lost = {} /\ Elems(wbuf) \cap lost = {}
         /\ Elems(toDev) \cup Elems(wbuf) \cup lost = 1 .. wrote
         /\ \A i, j \in 1 .. Len(toDev) : i < j => toDev[i] < toDev[j]
         /\ \A i \in 1 .. Len(toDev), j \in 1 .. Len(wbuf) : toDev[i] < wbuf[j]
  <1>1. /\ wbuf \in Seq(Nat) /\ toDev \in Seq(Nat) /\ wrote \in Nat
        /\ Len(wbuf) \in Nat /\ Len(toDev) \in Nat
    BY DEF AccountInv, OrderInv, TypeInv, Queues, Numbers
  <1>2. \A i \in 1 .. Len(wbuf) : wbuf[i] = wrote - Len(wbuf) + i
    BY DEF AccountInv, OrderInv, WriteBufferIsNewest, EndsAt
  <1>3. /\ \A i \in 1 .. Len(wbuf) : wbuf[i] \in Elems(wbuf)
        /\ \A i \in 1 .. Len(toDev) : toDev[i] \in Elems(toDev)
    BY DEF Elems
  <1>4. \A i \in 1 .. Len(toDev) : toDev[i] \in Nat
    BY <1>1
  <1>5. /\ Elems(toDev) \cap lost = {} /\ Elems(wbuf) \cap lost = {}
        /\ Elems(toDev) \cup Elems(wbuf) \cup lost = 1 .. wrote
        /\ \A i \in 1 .. Len(toDev), j \in 1 .. Len(wbuf) : toDev[i] < wbuf[j]
    BY DEF AccountInv, WritesAccounted
  <1>6. \A i, j \in 1 .. Len(toDev) : i < j => toDev[i] < toDev[j]
    BY DEF AccountInv, WritesAccounted, Increasing
  <1> QED BY <1>1, <1>2, <1>3, <1>4, <1>5, <1>6

\* m_bufferW is emptied: its first k bytes go to the DTB, the others are lost.
LEMMA BufferCut ==
  ASSUME AccountInv, NEW k \in 0 .. Len(wbuf),
         wbuf' = <<>>, wrote' = wrote, toDev' \in Seq(Nat), Len(toDev') = Len(toDev) + k,
         \A i \in 1 .. Len(toDev) : toDev'[i] = toDev[i],
         \A i \in 1 .. k : toDev'[Len(toDev) + i] = wbuf[i],
         lost' = lost \cup {wbuf[k + i] : i \in 1 .. Len(wbuf) - k}
  PROVE  WritesAccounted' /\ Elems(wbuf)' \cap lost' = {}
  <1> DEFINE m == Len(wbuf)
             n == Len(toDev)
             Kept == {wbuf[k + i] : i \in 1 .. m - k}
  <1>1. /\ m \in Nat /\ n \in Nat /\ wrote \in Nat /\ k \in 0 .. m
        /\ \A i \in 1 .. m : wbuf[i] = wrote - m + i /\ wbuf[i] \in Elems(wbuf)
        /\ \A i \in 1 .. n : toDev[i] \in Nat /\ toDev[i] \in Elems(toDev)
        /\ Elems(toDev) \cap lost = {} /\ Elems(wbuf) \cap lost = {}
        /\ Elems(toDev) \cup Elems(wbuf) \cup lost = 1 .. wrote
        /\ \A i, j \in 1 .. n : i < j => toDev[i] < toDev[j]
        /\ \A i \in 1 .. n, j \in 1 .. m : toDev[i] < wbuf[j]
    BY AccountFacts
  <1>2. /\ Len(toDev') = n + k
        /\ \A i \in 1 .. n : toDev'[i] = toDev[i]
        /\ \A i \in 1 .. k : toDev'[n + i] = wbuf[i]
        /\ lost' = lost \cup Kept
    OBVIOUS
  <1>3. Elems(wbuf)' = {}
    BY DEF Elems
  <1>4. ASSUME NEW i \in 1 .. n + k
        PROVE  \/ i \in 1 .. n /\ toDev'[i] = toDev[i]
               \/ i - n \in 1 .. k /\ toDev'[i] = wbuf[i - n]
    <2>1. CASE i <= n
      BY <1>1, <1>2, <2>1
    <2>2. CASE i > n
      <3>1. i - n \in 1 .. k /\ n + (i - n) = i
        BY <1>1, <2>2
      <3> QED BY <1>2, <3>1
    <2> QED BY <1>1, <2>1, <2>2
  <1>5. ASSUME NEW i \in 1 .. n + k, NEW j \in 1 .. n + k, i < j
        PROVE  toDev'[i] < toDev'[j]
    <2>1. CASE j \in 1 .. n
      <3>1. i \in 1 .. n /\ toDev'[i] = toDev[i] /\ toDev'[j] = toDev[j]
        BY <1>1, <1>2, <1>5, <2>1, SMTT(20)
      <3> QED BY <1>1, <1>5, <2>1, <3>1
    <2>2. CASE i \in 1 .. n /\ j - n \in 1 .. k
      <3>1. toDev'[i] = toDev[i] /\ toDev'[j] = wbuf[j - n] /\ j - n \in 1 .. m
        <4>1. n \in Nat /\ m \in Nat /\ k \in 0 .. m
          BY <1>1, Zenon
        <4>2. j - n \in 1 .. m /\ ~(j \in 1 .. n) /\ ~(i - n \in 1 .. k)
          BY <2>2, <4>1, SMTT(20)
        <4> QED BY <1>4, <2>2, <4>2
      <3> QED BY <1>1, <2>2, <3>1
    <2>3. CASE i - n \in 1 .. k /\ j - n \in 1 .. k
      <3>1. toDev'[i] = wbuf[i - n] /\ toDev'[j] = wbuf[j - n]
        BY <1>1, <1>4, <2>3
      <3>2. i - n \in 1 .. m /\ j - n \in 1 .. m
        <4>1. m \in Nat /\ k \in 0 .. m
          BY <1>1, Zenon
        <4> QED BY <2>3, <4>1
      <3>3. toDev'[i] = wrote - m + (i - n) /\ toDev'[j] = wrote - m + (j - n)
        BY <1>1, <3>1, <3>2
      <3> QED BY <1>1, <1>5, <3>3
    <2> QED BY <1>1, <1>4, <1>5, <2>1, <2>2, <2>3
  <1>6. Increasing(toDev)'
    BY <1>2, <1>5 DEF Increasing
  <1>7. \A i \in 1 .. Len(toDev)', j \in 1 .. Len(wbuf)' : toDev'[i] < wbuf'[j]
    OBVIOUS
  <1>8. ASSUME NEW x PROVE x \in Elems(toDev)' <=> x \in Elems(toDev) \/ \E j \in 1 .. k : x = wbuf[j]
    <2>1. Elems(toDev)' = {toDev'[i] : i \in 1 .. n + k}
      BY <1>2 DEF Elems
    <2>2. ASSUME NEW i \in 1 .. n, x = toDev[i] PROVE x \in Elems(toDev)'
      <3>1. i \in 1 .. n + k
        BY <1>1
      <3> QED BY <1>2, <2>1, <2>2, <3>1
    <2>3. ASSUME NEW j \in 1 .. k, x = wbuf[j] PROVE x \in Elems(toDev)'
      <3>1. n + j \in 1 .. n + k
        BY <1>1
      <3> QED BY <1>2, <2>1, <2>3, <3>1
    <2>4. x \in Elems(toDev) <=> \E i \in 1 .. n : x = toDev[i]
      BY DEF Elems
    <2>5. ASSUME NEW i \in 1 .. n + k, x = toDev'[i]
          PROVE  x \in Elems(toDev) \/ \E j \in 1 .. k : x = wbuf[j]
      BY <1>4, <2>4, <2>5
    <2> QED BY <2>1, <2>2, <2>3, <2>4, <2>5
  <1>9. ASSUME NEW x PROVE x \in Elems(wbuf) <=> (\E j \in 1 .. k : x = wbuf[j]) \/ x \in Kept
    <2>1. x \in Elems(wbuf) <=> \E j \in 1 .. m : x = wbuf[j]
      BY DEF Elems
    <2>2. ASSUME NEW j \in 1 .. m, x = wbuf[j] PROVE (\E i \in 1 .. k : x = wbuf[i]) \/ x \in Kept
      <3>1. CASE j <= k
        <4>1. j \in 1 .. k
          BY <1>1, <3>1
        <4> QED BY <2>2, <4>1
      <3>2. CASE j > k
        <4>1. j - k \in 1 .. m - k /\ k + (j - k) = j
          BY <1>1, <3>2
        <4> QED BY <2>2, <4>1
      <3> QED BY <1>1, <3>1, <3>2
    <2>3. \A j \in 1 .. k : j \in 1 .. m
      BY <1>1
    <2>4. \A i \in 1 .. m - k : k + i \in 1 .. m
      BY <1>1
    <2> QED BY <2>1, <2>2, <2>3, <2>4
  <1>10. Elems(toDev)' \cap lost' = {}
    <2>1. ASSUME NEW x \in Elems(toDev)', x \in lost PROVE FALSE
      <3>1. x \in Elems(toDev) \/ x \in Elems(wbuf)
        BY <1>8, <1>9, <2>1
      <3> QED BY <1>1, <2>1, <3>1
    <2>2. ASSUME NEW i \in 1 .. m - k, wbuf[k + i] \in Elems(toDev)' PROVE FALSE
      <3>1. k + i \in 1 .. m
        BY <1>1
      <3>2. CASE wbuf[k + i] \in Elems(toDev)
        <4>1. PICK j \in 1 .. n : toDev[j] = wbuf[k + i]
          BY <3>2 DEF Elems
        <4>2. toDev[j] < wbuf[k + i] /\ toDev[j] \in Nat
          BY <1>1, <3>1
        <4> QED BY <4>1, <4>2
      <3>3. CASE \E j \in 1 .. k : wbuf[k + i] = wbuf[j]
        <4>1. PICK j \in 1 .. k : wbuf[k + i] = wbuf[j]
          BY <3>3
        <4>2. j \in 1 .. m
          BY <1>1
        <4>3. wbuf[k + i] = wrote - m + (k + i) /\ wbuf[j] = wrote - m + j
          BY <1>1, <3>1, <4>2
        <4>4. wrote - m + (k + i) = wrote - m + j
          BY <4>1, <4>3
        <4>5. wrote \in Nat /\ m \in Nat /\ k \in Nat /\ i \in Nat /\ i > 0 /\ j \in Nat /\ j <= k
          BY <1>1
        <4> HIDE DEF m, n, Kept
        <4> QED BY <4>4, <4>5
      <3> QED BY <1>8, <2>2, <3>2, <3>3
    <2> QED BY <1>2, <2>1, <2>2
  <1>11. Elems(toDev)' \cup Elems(wbuf)' \cup lost' = 1 .. wrote'
    <2> HIDE DEF Kept
    <2> QED BY <1>1, <1>2, <1>3, <1>8, <1>9
  <1> QED BY <1>3, <1>6, <1>7, <1>10, <1>11 DEF WritesAccounted

\* Flush and the Flush inside Write.
LEMMA FlushAccount ==
  ASSUME AccountInv, FlushDone \/ FlushError
  PROVE  WritesAccounted' /\ Elems(wbuf)' \cap lost' = {}
  <1>1. wbuf \in Seq(Nat) /\ toDev \in Seq(Nat) /\ Len(wbuf) \in Nat /\ Len(toDev) \in Nat
    BY AccountFacts
  <1>2. CASE FlushDone
    <2>1. wbuf' = <<>> /\ toDev' = toDev \o wbuf /\ wrote' = wrote /\ lost' = lost
      BY <1>2 DEF FlushDone
    <2>2. /\ toDev' \in Seq(Nat) /\ Len(toDev') = Len(toDev) + Len(wbuf)
          /\ \A i \in 1 .. Len(toDev) : toDev'[i] = toDev[i]
          /\ \A i \in 1 .. Len(wbuf) : toDev'[Len(toDev) + i] = wbuf[i]
      BY <1>1, <2>1
    <2>3. {wbuf[Len(wbuf) + i] : i \in 1 .. Len(wbuf) - Len(wbuf)} = {}
      BY <1>1
    <2>4. Len(wbuf) \in 0 .. Len(wbuf) /\ lost' = lost \cup {wbuf[Len(wbuf) + i] : i \in 1 .. Len(wbuf) - Len(wbuf)}
      BY <1>1, <2>1, <2>3
    <2> QED BY <2>1, <2>2, <2>4, BufferCut
  <1>3. CASE FlushError
    <2>1. PICK k \in 0 .. Len(wbuf) : /\ toDev' = toDev \o First(wbuf, k)
                                      /\ lost' = lost \cup Elems(Rest(wbuf, k))
      BY <1>3 DEF FlushError
    <2>2. wbuf' = <<>> /\ wrote' = wrote
      BY <1>3 DEF FlushError
    <2>3. /\ First(wbuf, k) \in Seq(Nat) /\ Len(First(wbuf, k)) = k
          /\ \A i \in 1 .. k : First(wbuf, k)[i] = wbuf[i]
          /\ Len(Rest(wbuf, k)) = Len(wbuf) - k
          /\ \A i \in 1 .. Len(wbuf) - k : Rest(wbuf, k)[i] = wbuf[k + i]
      BY <1>1, CutFacts
    <2>4. /\ toDev' \in Seq(Nat) /\ Len(toDev') = Len(toDev) + k
          /\ \A i \in 1 .. Len(toDev) : toDev'[i] = toDev[i]
          /\ \A i \in 1 .. k : toDev'[Len(toDev) + i] = wbuf[i]
      <3> DEFINE f == First(wbuf, k)
      <3>1. f \in Seq(Nat) /\ Len(f) = k /\ toDev' = toDev \o f /\ \A i \in 1 .. k : f[i] = wbuf[i]
        BY <2>1, <2>3
      <3> HIDE DEF f
      <3>2. /\ toDev \o f \in Seq(Nat) /\ Len(toDev \o f) = Len(toDev) + Len(f)
            /\ \A i \in 1 .. Len(toDev) + Len(f) :
                 (toDev \o f)[i] = IF i <= Len(toDev) THEN toDev[i] ELSE f[i - Len(toDev)]
        BY <1>1, <3>1, ConcatProperties
      <3>3. k \in Nat
        BY <1>1
      <3>4. ASSUME NEW i \in 1 .. Len(toDev) PROVE toDev'[i] = toDev[i]
        BY <1>1, <3>1, <3>2, <3>3
      <3>5. ASSUME NEW i \in 1 .. k PROVE toDev'[Len(toDev) + i] = wbuf[i]
        <4>1. /\ Len(toDev) + i \in 1 .. Len(toDev) + Len(f)
              /\ ~(Len(toDev) + i <= Len(toDev)) /\ Len(toDev) + i - Len(toDev) = i
          BY <1>1, <3>1, <3>3
        <4>2. (toDev \o f)[Len(toDev) + i] = f[i]
          BY <3>2, <4>1
        <4> QED BY <3>1, <4>2
      <3> QED BY <3>1, <3>2, <3>4, <3>5
    <2>5. Elems(Rest(wbuf, k)) = {wbuf[k + i] : i \in 1 .. Len(wbuf) - k}
      BY <2>3 DEF Elems
    <2>6. lost' = lost \cup {wbuf[k + i] : i \in 1 .. Len(wbuf) - k}
      BY <2>1, <2>5
    <2> QED BY <2>2, <2>4, <2>6, BufferCut
  <1> QED BY <1>2, <1>3

\* m_bufferW is thrown away by Open, Clear or a Flush without connection.
LEMMA DropAccount ==
  ASSUME AccountInv, wbuf' = <<>>, wrote' = wrote, toDev' = toDev, lost' = lost \cup Elems(wbuf)
  PROVE  WritesAccounted' /\ Elems(wbuf)' \cap lost' = {}
  <1>1. toDev \in Seq(Nat) /\ Len(wbuf) \in Nat /\ Len(toDev) \in Nat
    BY AccountFacts
  <1>2. /\ toDev' \in Seq(Nat) /\ Len(toDev') = Len(toDev) + 0 /\ 0 \in 0 .. Len(wbuf)
        /\ \A i \in 1 .. Len(toDev) : toDev'[i] = toDev[i]
        /\ \A i \in 1 .. 0 : toDev'[Len(toDev) + i] = wbuf[i]
    BY <1>1
  <1>3. lost' = lost \cup {wbuf[0 + i] : i \in 1 .. Len(wbuf) - 0}
    <2>1. Len(wbuf) - 0 = Len(wbuf) /\ \A i \in 1 .. Len(wbuf) : 0 + i = i
      BY <1>1
    <2>2. Elems(wbuf) = {wbuf[0 + i] : i \in 1 .. Len(wbuf) - 0}
      BY <2>1 DEF Elems
    <2> QED BY <2>2
  <1> QED BY <1>2, <1>3, BufferCut

LEMMA PutAccount ==
  ASSUME AccountInv, WritePut
  PROVE  WritesAccounted' /\ Elems(wbuf)' \cap lost' = {}
  <1> DEFINE m == Len(wbuf)
             n == Len(toDev)
  <1>1. /\ m \in Nat /\ n \in Nat /\ wrote \in Nat /\ wbuf \in Seq(Nat)
        /\ \A i \in 1 .. m : wbuf[i] = wrote - m + i /\ wbuf[i] \in Elems(wbuf)
        /\ \A i \in 1 .. n : toDev[i] \in Nat /\ toDev[i] \in Elems(toDev)
        /\ Elems(toDev) \cap lost = {} /\ Elems(wbuf) \cap lost = {}
        /\ Elems(toDev) \cup Elems(wbuf) \cup lost = 1 .. wrote
        /\ \A i \in 1 .. n, j \in 1 .. m : toDev[i] < wbuf[j]
    BY AccountFacts
  <1>2. wbuf' = Append(wbuf, wrote + 1) /\ wrote' = wrote + 1 /\ toDev' = toDev /\ lost' = lost
    BY DEF WritePut
  <1>3. /\ Len(wbuf') = m + 1 /\ wbuf'[m + 1] = wrote + 1
        /\ \A i \in 1 .. m : wbuf'[i] = wbuf[i]
    BY <1>1, <1>2
  <1>4. Elems(wbuf)' = Elems(wbuf) \cup {wrote + 1}
    <2>1. Elems(wbuf)' = {wbuf'[i] : i \in 1 .. m + 1}
      BY <1>3 DEF Elems
    <2>2. 1 .. m + 1 = (1 .. m) \cup {m + 1}
      BY <1>1
    <2>3. Elems(wbuf) = {wbuf[i] : i \in 1 .. m}
      BY DEF Elems
    <2> QED BY <1>3, <2>1, <2>2, <2>3
  <1>5. Elems(toDev)' = Elems(toDev)
    BY <1>2 DEF Elems
  <1>6. wrote + 1 \notin lost
    <2>1. wrote + 1 \notin 1 .. wrote
      BY <1>1
    <2> QED BY <1>1, <2>1
  <1>7. Elems(toDev)' \cup Elems(wbuf)' \cup lost' = 1 .. wrote'
    <2>1. 1 .. wrote + 1 = (1 .. wrote) \cup {wrote + 1}
      BY <1>1
    <2> QED BY <1>1, <1>2, <1>4, <1>5, <2>1
  <1>8. ASSUME NEW i \in 1 .. n, NEW j \in 1 .. m + 1 PROVE toDev[i] < wbuf'[j]
    <2>1. CASE j \in 1 .. m
      BY <1>1, <1>3, <2>1
    <2>2. CASE j = m + 1
      <3>1. toDev[i] \in 1 .. wrote
        BY <1>1
      <3>2. toDev[i] <= wrote /\ toDev[i] \in Nat
        BY <3>1
      <3>3. wbuf'[j] = wrote + 1
        BY <1>3, <2>2
      <3> QED BY <1>1, <3>2, <3>3
    <2> QED BY <1>1, <2>1, <2>2
  <1>9. Increasing(toDev)'
    BY <1>2 DEF AccountInv, WritesAccounted, Increasing
  <1>10. /\ \A i \in 1 .. Len(toDev'), j \in 1 .. Len(wbuf') : toDev'[i] < wbuf'[j]
         /\ Elems(toDev)' \cap lost' = {}
    BY <1>1, <1>2, <1>3, <1>5, <1>8
  <1> QED BY <1>1, <1>2, <1>4, <1>6, <1>7, <1>9, <1>10 DEF WritesAccounted

LEMMA AccountStep == AccountInv /\ [Next]_vars => AccountInv'
  <1> SUFFICES ASSUME AccountInv, [Next]_vars PROVE AccountInv'
    OBVIOUS
  <1>1. OrderInv'
    BY OrderInvStep DEF AccountInv
  <1>2. ASSUME UNCHANGED <<wbuf, toDev, wrote, lost>>
        PROVE  WritesAccounted' /\ Elems(wbuf)' \cap lost' = {}
    BY <1>2 DEF AccountInv, WritesAccounted, Increasing, Elems
  <1>3. CASE Open \/ Clear
    <2>1. \/ UNCHANGED <<wbuf, toDev, wrote, lost>>
          \/ wbuf' = <<>> /\ wrote' = wrote /\ toDev' = toDev /\ lost' = lost \cup Elems(wbuf)
      BY <1>3 DEF Open, Clear, out
    <2> QED BY <1>1, <1>2, <2>1, DropAccount DEF AccountInv
  <1>4. CASE Flush
    <2>1. \/ FlushDone \/ FlushError
          \/ wbuf' = <<>> /\ wrote' = wrote /\ toDev' = toDev /\ lost' = lost \cup Elems(wbuf)
      BY <1>4 DEF Flush
    <2> QED BY <1>1, <2>1, FlushAccount, DropAccount DEF AccountInv
  <1>5. CASE WriteFlush
    <2>1. FlushDone \/ FlushError
      BY <1>5 DEF WriteFlush
    <2> QED BY <1>1, <2>1, FlushAccount DEF AccountInv
  <1>6. CASE WritePut
    BY <1>1, <1>6, PutAccount DEF AccountInv
  <1>7. CASE ReadStep \/ DevSend \/ Close \/ WriteReturn
             \/ \E n \in 0 .. MaxCall : WriteCall(n) \/ ReadCall(n)
    <2>1. UNCHANGED out
      BY <1>7 DEF ReadStep, ReadCopy, ReadReturn, ReadBreak, FillStart, FillRefused, FillFull,
                  FillTimeout, FillTakes, FillError, DevSend, Close, WriteReturn, WriteCall, ReadCall
    <2> QED BY <1>1, <1>2, <2>1 DEF out, AccountInv
  <1>8. CASE UNCHANGED vars
    <2>1. UNCHANGED <<wbuf, toDev, wrote, lost>>
      BY <1>8 DEF vars, out
    <2> QED BY <1>1, <1>2, <2>1 DEF AccountInv
  <1> QED
    BY <1>3, <1>4, <1>5, <1>6, <1>7, <1>8 DEF Next, WriteStep

\* A byte the program has written is at the DTB, in m_bufferW, or was thrown away with a
\* failed Flush, a Clear or an Open; the DTB gets the bytes in order, none twice.
THEOREM WritesCorrect == Spec => []WritesAccounted
  <1>1. Init => AccountInv
    <2> SUFFICES ASSUME Init PROVE AccountInv
      OBVIOUS
    <2>1. Elems(wbuf) = {} /\ Elems(toDev) = {} /\ lost = {} /\ wrote = 0
      BY DEF Init, Elems
    <2>2. Increasing(toDev) /\ \A i \in 1 .. Len(toDev), j \in 1 .. Len(wbuf) : toDev[i] < wbuf[j]
      BY DEF Init, Increasing
    <2> QED BY <2>1, <2>2, OrderInit DEF AccountInv, WritesAccounted
  <1>2. AccountInv => WritesAccounted
    BY DEF AccountInv
  <1> QED BY <1>1, <1>2, AccountStep, PTL DEF Spec

-----------------------------------------------------------------------------
(* Bytes of one Read.  While it runs, the last byte it has copied is the one *)
(* before the next byte of m_bufferR and the driver's queue.                 *)
LastIsNext ==
  pc \in {"read", "fill"} /\ taken > 0 => got[Len(got)] = Bound

\* FillBuffer is called only when m_bufferR has been read up.
FillIsEmpty == pc = "fill" => rbuf = <<>>

ReadInv == OrderInv /\ ReadIsContiguous /\ LastIsNext /\ FillIsEmpty

LEMMA FillIsEmptyStep == FillIsEmpty /\ [Next]_vars => FillIsEmpty'
  <1> USE DEF FillIsEmpty
  <1>1. FillIsEmpty /\ DevSend => FillIsEmpty'
    BY DEF DevSend, calls
  <1>2. FillIsEmpty /\ ReadStep => FillIsEmpty'
    BY DEF ReadStep, ReadCopy, ReadReturn, ReadBreak, FillStart, FillRefused, FillFull, FillTimeout,
           FillTakes, FillError, End, in
  <1>3. FillIsEmpty /\ WriteStep => FillIsEmpty'
    BY DEF WriteStep, WritePut, WriteReturn, WriteFlush, End, calls
  <1>4. (\E n \in 0 .. MaxCall : WriteCall(n) \/ ReadCall(n)) \/ Open \/ Close \/ Clear \/ Flush
        => FillIsEmpty'
    BY DEF WriteCall, ReadCall, Open, Close, Clear, Flush, End
  <1>5. FillIsEmpty /\ UNCHANGED vars => FillIsEmpty'
    BY DEF vars, calls, in
  <1> QED BY <1>1, <1>2, <1>3, <1>4, <1>5 DEF Next

LEMMA ReadInvStep == ReadInv /\ [Next]_vars => ReadInv'
  <1> SUFFICES ASSUME ReadInv, [Next]_vars PROVE ReadInv'
    OBVIOUS
  <1>0. /\ rbuf \in Seq(Nat) /\ rxq \in Seq(Nat) /\ sent \in Nat /\ got \in Seq(Nat)
        /\ Len(rbuf) \in Nat /\ Len(rxq) \in Nat /\ Len(got) \in Nat /\ taken \in Nat /\ Bound \in Int
    BY DEF ReadInv, OrderInv, TypeInv, Queues, Numbers, Bound
  <1>1. OrderInv'
    BY OrderInvStep DEF ReadInv
  <1>a. FillIsEmpty'
    BY FillIsEmptyStep DEF ReadInv
  <1>2. ASSUME UNCHANGED <<got, taken>> PROVE ReadIsContiguous'
    BY <1>2 DEF ReadInv, ReadIsContiguous
  <1>3. ASSUME UNCHANGED <<got, taken>>, pc' \notin {"read", "fill"} \/ (pc \in {"read", "fill"} /\ Bound' = Bound)
        PROVE  ReadInv'
    <2>1. LastIsNext'
      BY <1>3 DEF ReadInv, LastIsNext
    <2> QED BY <1>1, <1>a, <1>2, <1>3, <2>1 DEF ReadInv
  <1>4. CASE Open \/ Close \/ Clear \/ Flush
    <2>1. UNCHANGED <<got, taken>> /\ pc' \notin {"read", "fill"}
      BY <1>4 DEF Open, Close, Clear, Flush, End, in, out, conn
    <2> QED BY <1>3, <2>1
  <1>5. CASE \E n \in 0 .. MaxCall : WriteCall(n)
    <2>1. UNCHANGED <<got, taken>> /\ pc' \notin {"read", "fill"}
      BY <1>5 DEF WriteCall, End, in
    <2> QED BY <1>3, <2>1
  <1>6. CASE \E n \in 0 .. MaxCall : ReadCall(n)
    <2>1. CASE isUSB_open
      <3>1. taken' = 0 /\ got' = got
        BY <1>6, <2>1 DEF ReadCall, in
      <3>2. ReadIsContiguous'
        BY <1>0, <3>1 DEF ReadIsContiguous
      <3>3. LastIsNext'
        BY <3>1 DEF LastIsNext
      <3> QED BY <1>1, <1>a, <3>2, <3>3 DEF ReadInv
    <2>2. CASE ~isUSB_open
      <3>1. UNCHANGED <<got, taken>> /\ pc' \notin {"read", "fill"}
        BY <1>6, <2>2 DEF ReadCall, End, in
      <3> QED BY <1>3, <3>1
    <2> QED BY <2>1, <2>2
  <1>7. CASE WriteStep
    <2>1. UNCHANGED <<got, taken>> /\ pc' \notin {"read", "fill"}
      BY <1>7 DEF WriteStep, WritePut, WriteReturn, WriteFlush, End, in, calls
    <2> QED BY <1>3, <2>1
  <1>8. CASE ReadCopy
    <2>1. /\ pc = "read" /\ rbuf # <<>> /\ rbuf' = Tail(rbuf) /\ got' = Append(got, Head(rbuf))
          /\ taken' = taken + 1 /\ UNCHANGED <<rxq, sent>> /\ isUSB_open
      BY <1>8 DEF ReadCopy, ReadInv, OrderInv, TypeInv, CallNeedsOpen
    <2>2. EndsAt(rbuf, sent - Len(rxq)) /\ sent - Len(rxq) \in Int
      BY <1>0, <2>1 DEF ReadInv, OrderInv, InputIsContiguous
    <2>3. Head(rbuf) = Bound + 1 /\ Head(rbuf) \in Nat /\ Len(Tail(rbuf)) = Len(rbuf) - 1
      BY <1>0, <2>1, <2>2, BlockTail, HeadTailProperties DEF Bound
    <2>4. Bound' = Bound + 1
      BY <1>0, <2>1, <2>3 DEF Bound
    <2>5. /\ Len(got') = Len(got) + 1 /\ got'[Len(got) + 1] = Bound + 1
          /\ \A i \in 1 .. Len(got) : got'[i] = got[i]
      BY <1>0, <2>1, <2>3
    <2>6. LastIsNext'
      BY <2>4, <2>5 DEF LastIsNext
    <2>7. /\ taken <= Len(got)
          /\ \A i \in Len(got) - taken + 1 .. Len(got) : got[i] = got[Len(got)] - Len(got) + i
          /\ taken > 0 => got[Len(got)] = Bound
      BY <2>1 DEF ReadInv, ReadIsContiguous, LastIsNext
    <2>8. ASSUME NEW i \in Len(got) - taken + 1 .. Len(got) + 1
          PROVE  got'[i] = Bound + 1 - (Len(got) + 1) + i
      <3>1. CASE i = Len(got) + 1
        BY <1>0, <2>5, <3>1
      <3>2. CASE i # Len(got) + 1
        <4>1. i \in Len(got) - taken + 1 .. Len(got) /\ i \in 1 .. Len(got) /\ taken > 0
          BY <1>0, <2>7, <3>2
        <4>2. got'[i] = got[i] /\ got[i] = Bound - Len(got) + i
          BY <2>5, <2>7, <4>1
        <4> QED BY <1>0, <4>1, <4>2
      <3> QED BY <3>1, <3>2
    <2>9. ReadIsContiguous'
      <3>1. taken' <= Len(got') /\ Len(got') - taken' + 1 = Len(got) - taken + 1
        BY <1>0, <2>1, <2>5, <2>7
      <3>2. \A i \in Len(got') - taken' + 1 .. Len(got') : got'[i] = got'[Len(got')] - Len(got') + i
        <4>1. \A i \in Len(got) - taken + 1 .. Len(got) + 1 : got'[i] = got'[Len(got')] - Len(got') + i
          <5>1. got'[Len(got')] = Bound + 1 /\ Len(got') = Len(got) + 1
            BY <2>5
          <5> SUFFICES ASSUME NEW i \in Len(got) - taken + 1 .. Len(got) + 1
                       PROVE  got'[i] = got'[Len(got')] - Len(got') + i
            OBVIOUS
          <5>2. got'[i] = Bound + 1 - (Len(got) + 1) + i
            BY <2>8
          <5>3. got'[Len(got')] - Len(got') + i = Bound + 1 - (Len(got) + 1) + i
            BY <1>0, <5>1
          <5> QED BY <5>2, <5>3
        <4>2. Len(got') - taken' + 1 .. Len(got') = Len(got) - taken + 1 .. Len(got) + 1
          BY <2>5, <3>1
        <4> QED BY <4>1, <4>2
      <3> QED BY <3>1, <3>2 DEF ReadIsContiguous
    <2> QED BY <1>1, <1>a, <2>6, <2>9 DEF ReadInv
  <1>9. CASE ReadReturn \/ ReadBreak \/ FillRefused \/ FillError
    <2>1. UNCHANGED <<got, taken>> /\ pc' \notin {"read", "fill"}
      BY <1>9 DEF ReadReturn, ReadBreak, FillRefused, FillError, End, in
    <2> QED BY <1>3, <2>1
  <1>10. CASE FillStart
    <2>1. UNCHANGED <<got, taken, rbuf, rxq, sent>> /\ pc = "read"
      BY <1>10 DEF FillStart, in
    <2> QED BY <1>3, <2>1 DEF Bound
  <1>11. CASE FillFull \/ FillTimeout
    <2>1. PICK n \in 0 .. Len(rxq) : FillTakes(n) /\ pc = "fill"
      BY <1>0, <1>11 DEF FillFull, FillTimeout, ReadInv, OrderInv, TypeInv, Numbers
    <2>2. UNCHANGED <<got, taken, sent>>
      BY <2>1 DEF FillTakes, End
    <2>3. CASE n = 0
      <3>1. pc' \notin {"read", "fill"}
        BY <2>1, <2>3 DEF FillTakes, End
      <3> QED BY <1>3, <2>2, <3>1
    <2>4. CASE n # 0
      <3>1. Len(rbuf') = n /\ Len(rxq') = Len(rxq) - n
        BY <2>1, FillTypes DEF ReadInv, OrderInv, TypeInv
      <3>2. Len(rbuf) = 0
        BY <2>1 DEF ReadInv, FillIsEmpty
      <3>3. Len(rbuf') = n /\ Len(rxq') = Len(rxq) - n /\ sent' = sent /\ n \in Nat
        BY <2>2, <3>1
      <3>4. Bound' = Bound
        BY <1>0, <3>2, <3>3 DEF Bound
      <3> QED BY <1>3, <2>1, <2>2, <3>4
    <2> QED BY <2>3, <2>4
  <1>12. CASE DevSend
    <2>1. rxq' = Append(rxq, sent + 1) /\ sent' = sent + 1 /\ UNCHANGED <<rbuf, got, taken, pc>>
      BY <1>12 DEF DevSend, calls
    <2>2. Len(rxq') = Len(rxq) + 1
      BY <1>0, <2>1
    <2>3. Bound' = Bound
      BY <1>0, <2>1, <2>2 DEF Bound
    <2> QED BY <1>3, <2>1, <2>3
  <1>13. CASE UNCHANGED vars
    <2>1. UNCHANGED <<pc, got, taken, rbuf, rxq, sent>>
      BY <1>13 DEF vars, calls, in
    <2> QED BY <1>3, <2>1 DEF Bound
  <1> QED
    BY <1>4, <1>5, <1>6, <1>7, <1>8, <1>9, <1>10, <1>11, <1>12, <1>13 DEF Next, ReadStep

\* The bytes one Read returns are consecutive on the line, however many refills it took
\* and however it ended.
THEOREM ReadsCorrect == Spec => []ReadIsContiguous
  <1>1. Init => ReadInv
    <2> SUFFICES ASSUME Init PROVE ReadInv
      OBVIOUS
    <2>1. ReadIsContiguous /\ LastIsNext /\ FillIsEmpty
      BY DEF Init, ReadIsContiguous, LastIsNext, FillIsEmpty
    <2> QED BY <2>1, OrderInit DEF ReadInv
  <1>2. ReadInv => ReadIsContiguous
    BY DEF ReadInv
  <1> QED BY <1>1, <1>2, ReadInvStep, PTL DEF Spec

-----------------------------------------------------------------------------
(* CUSB implements the byte link (module ByteLink): each step of CUSB is one *)
(* step of the link or leaves it unchanged:                                  *)
(*   WritePut -> Put        Flush, WriteFlush, Open -> Transfer              *)
(*   ReadCopy -> Get        Close, FillError -> LoseOldest                   *)
(*   DevSend  -> Arrive     Clear -> Purge        all others: stutter        *)

\* FillBuffer runs only when everything in m_bufferR has been copied.
FillEmpty == pc = "fill" => rbuf = <<>>

LinkInv == OrderInv /\ FillEmpty

LEMMA FillEmptyStep == FillEmpty /\ [Next]_vars => FillEmpty'
  <1> SUFFICES ASSUME FillEmpty, [Next]_vars PROVE FillEmpty'
    OBVIOUS
  <1> USE DEF FillEmpty, End, calls, in, conn
  <1>1. CASE Open \/ Close \/ Clear \/ Flush
    BY <1>1 DEF Open, Close, Clear, Flush
  <1>2. CASE \E n \in 0 .. MaxCall : WriteCall(n) \/ ReadCall(n)
    BY <1>2 DEF WriteCall, ReadCall
  <1>3. CASE WriteStep
    BY <1>3 DEF WriteStep, WritePut, WriteReturn, WriteFlush
  <1>4. CASE ReadCopy \/ ReadReturn \/ ReadBreak \/ FillStart \/ FillRefused \/ FillError
    BY <1>4 DEF ReadCopy, ReadReturn, ReadBreak, FillStart, FillRefused, FillError
  <1>5. CASE FillFull \/ FillTimeout
    <2>1. ASSUME NEW n, FillTakes(n) PROVE pc' # "fill"
      BY <2>1 DEF FillTakes
    <2> QED BY <1>5, <2>1 DEF FillFull, FillTimeout
  <1>6. CASE DevSend
    BY <1>6 DEF DevSend
  <1>7. CASE UNCHANGED vars
    BY <1>7 DEF vars
  <1> QED BY <1>1, <1>2, <1>3, <1>4, <1>5, <1>6, <1>7 DEF Next, ReadStep

LEMMA AlwaysLinkInv == Spec => []LinkInv
  <1>1. Init => FillEmpty
    BY DEF Init, FillEmpty
  <1>2. Spec => []FillEmpty
    BY <1>1, FillEmptyStep, PTL DEF Spec
  <1> QED BY <1>2, AlwaysOrderInv, PTL DEF LinkInv

LEMMA LinkInit == Init => Link!Init
  <1> SUFFICES ASSUME Init PROVE Link!Init
    OBVIOUS
  <1>1. Unread = <<>>
    BY DEF Init, Unread
  <1> QED BY <1>1 DEF Init, Link!Init

\* What a Read copies is the oldest unread byte.
LEMMA GetStep ==
  ASSUME LinkInv, ReadCopy PROVE Link!Get
  <1>1. rbuf \in Seq(Nat) /\ rxq \in Seq(Nat) /\ rbuf # <<>> /\ isUSB_open
    BY DEF LinkInv, OrderInv, TypeInv, Queues, CallNeedsOpen, ReadCopy
  <1>2. /\ rbuf' = Tail(rbuf) /\ got' = Append(got, Head(rbuf))
        /\ UNCHANGED <<rxq, isUSB_open, wbuf, toDev, wrote, sent>>
    BY DEF ReadCopy, out, conn
  <1>3. Unread = rbuf \o rxq /\ Unread' = Tail(rbuf) \o rxq
    BY <1>1, <1>2 DEF Unread
  <1> DEFINE u == rbuf \o rxq
             t == Tail(rbuf)
  <1>4. /\ t \in Seq(Nat) /\ Len(t) = Len(rbuf) - 1 /\ Len(rbuf) \in Nat \ {0}
        /\ Len(rxq) \in Nat /\ \A i \in 1 .. Len(t) : t[i] = rbuf[i + 1]
    BY <1>1, HeadTailProperties, EmptySeq
  <1>5. /\ u \in Seq(Nat) /\ Len(u) = Len(rbuf) + Len(rxq)
        /\ \A i \in 1 .. Len(rbuf) + Len(rxq) :
             u[i] = IF i <= Len(rbuf) THEN rbuf[i] ELSE rxq[i - Len(rbuf)]
    BY <1>1, ConcatProperties
  <1>6. /\ t \o rxq \in Seq(Nat) /\ Len(t \o rxq) = Len(t) + Len(rxq)
        /\ \A i \in 1 .. Len(t) + Len(rxq) :
             (t \o rxq)[i] = IF i <= Len(t) THEN t[i] ELSE rxq[i - Len(t)]
    BY <1>1, <1>4, ConcatProperties
  <1> HIDE DEF t
  <1>7. u # <<>> /\ Head(u) = Head(rbuf)
    <2>1. Head(rbuf) = rbuf[1] /\ u # <<>>
      BY <1>1, <1>4, <1>5
    <2>2. u[1] = rbuf[1]
      BY <1>4, <1>5
    <2>3. Head(u) = u[1]
      BY <1>5, <2>1
    <2> QED BY <2>1, <2>2, <2>3
  <1>8. t \o rxq = Tail(u)
    <2> HIDE DEF u
    <2>1. /\ Tail(u) \in Seq(Nat) /\ Len(Tail(u)) = Len(u) - 1
          /\ \A i \in 1 .. Len(Tail(u)) : Tail(u)[i] = u[i + 1]
      BY <1>5, <1>7, HeadTailProperties
    <2>2. Len(t \o rxq) = Len(Tail(u))
      BY <1>4, <1>5, <1>6, <2>1
    <2>3. ASSUME NEW i \in 1 .. Len(t \o rxq) PROVE (t \o rxq)[i] = Tail(u)[i]
      <3>1. Tail(u)[i] = u[i + 1] /\ i + 1 \in 1 .. Len(rbuf) + Len(rxq)
        BY <1>4, <1>6, <2>1, <2>2
      <3>2. CASE i <= Len(t)
        BY <1>4, <1>5, <1>6, <3>1, <3>2
      <3>3. CASE i > Len(t)
        <4>1. (t \o rxq)[i] = rxq[i - Len(t)]
          BY <1>4, <1>6, <3>3
        <4>2. u[i + 1] = rxq[i + 1 - Len(rbuf)]
          BY <1>4, <1>5, <3>1, <3>3, SMTT(20)
        <4>3. i - Len(t) = i + 1 - Len(rbuf)
          BY <1>4
        <4> QED BY <3>1, <4>1, <4>2, <4>3
      <3>4. Len(t) \in Int /\ i \in Int
        BY <1>4
      <3>5. i <= Len(t) \/ i > Len(t)
        BY <3>4
      <3> QED BY <3>2, <3>3, <3>5
    <2> QED BY <1>6, <2>1, <2>2, <2>3, SeqEqual
  <1> QED BY <1>2, <1>3, <1>7, <1>8 DEF Link!Get, t

LEMMA QueuesAssociate ==
  ASSUME NEW s \in Seq(Nat), NEW t \in Seq(Nat), NEW u \in Seq(Nat)
  PROVE  (s \o t) \o u = s \o (t \o u)
  BY ConcatAssociative, SMTT(20)

\* Bytes of m_bufferR stay in front of a byte that arrives.
LEMMA ArriveStep ==
  ASSUME LinkInv, DevSend PROVE Link!Arrive
  <1>1. rbuf \in Seq(Nat) /\ rxq \in Seq(Nat) /\ sent + 1 \in Nat
    BY DEF LinkInv, OrderInv, TypeInv, Queues, Numbers
  <1>2. /\ sent' = sent + 1 /\ rxq' = Append(rxq, sent + 1)
        /\ UNCHANGED <<rbuf, isUSB_open, wbuf, toDev, got, wrote>>
    BY DEF DevSend, out, conn
  <1>3. CASE isUSB_open
    <2> DEFINE e == <<sent + 1>>
    <2>1. Unread = rbuf \o rxq /\ Unread' = rbuf \o Append(rxq, sent + 1)
      BY <1>2, <1>3 DEF Unread
    <2>2. e \in Seq(Nat)
      BY <1>1
    <2>3. Append(rxq, sent + 1) = rxq \o e
      BY <1>1, AppendIsConcat
    <2>4. rbuf \o rxq \in Seq(Nat)
      BY <1>1, ConcatProperties
    <2>5. Append(rbuf \o rxq, sent + 1) = (rbuf \o rxq) \o e
      BY <1>1, <2>4, AppendIsConcat
    <2> HIDE DEF e
    <2>6. (rbuf \o rxq) \o e = rbuf \o (rxq \o e)
      BY <1>1, <2>2, QueuesAssociate
    <2>7. Unread' = Append(Unread, sent + 1)
      BY <2>1, <2>3, <2>5, <2>6
    <2> QED BY <1>2, <2>7 DEF Link!Arrive
  <1>4. CASE ~isUSB_open
    BY <1>2, <1>4 DEF Unread, Link!Arrive
  <1> QED BY <1>3, <1>4

\* FillBuffer moves bytes from the queue to the buffer and loses none.
LEMMA FillStep ==
  ASSUME LinkInv, FillFull \/ FillTimeout PROVE UNCHANGED Link!vars
  <1>1. /\ rxq \in Seq(Nat) /\ Len(rxq) \in Nat /\ ask \in Nat
        /\ isUSB_open /\ rbuf = <<>>
    BY DEF LinkInv, OrderInv, TypeInv, Queues, Numbers, CallNeedsOpen, FillEmpty, FillFull,
           FillTimeout
  <1>2. PICK n \in 0 .. Len(rxq) : FillTakes(n)
    BY <1>1 DEF FillFull, FillTimeout
  <1>3. /\ rbuf' = First(rxq, n) /\ rxq' = Rest(rxq, n)
        /\ UNCHANGED <<isUSB_open, wbuf, toDev, got, wrote, sent>>
    BY <1>2 DEF FillTakes, out, conn
  <1>4. SubSeq(rxq, 1, n) \o SubSeq(rxq, n + 1, Len(rxq)) = SubSeq(rxq, 1, Len(rxq))
    <2>1. /\ 1 \in 1 .. Len(rxq) + 1 /\ n \in 1 - 1 .. Len(rxq)
          /\ Len(rxq) \in n .. Len(rxq)
      BY <1>1
    <2> QED BY <1>1, <2>1, ConcatAdjacentSubSeq
  <1>5. SubSeq(rxq, 1, Len(rxq)) = rxq /\ <<>> \o rxq = rxq
    BY <1>1, SubSeqFull, ConcatEmptySeq
  <1>6. Unread' = Unread
    BY <1>1, <1>3, <1>4, <1>5 DEF Unread, First, Rest
  <1> QED BY <1>3, <1>6 DEF Link!vars

\* A failed FT_Read loses the oldest unread bytes and nothing else.
LEMMA LoseStep ==
  ASSUME LinkInv, FillError PROVE Link!LoseOldest
  <1>1. /\ rxq \in Seq(Nat) /\ Len(rxq) \in Nat /\ ask \in Nat
        /\ isUSB_open /\ rbuf = <<>>
    BY DEF LinkInv, OrderInv, TypeInv, Queues, Numbers, CallNeedsOpen, FillEmpty, FillError
  <1>2. PICK n \in 0 .. Least(ask, Len(rxq)) : rxq' = Rest(rxq, n)
    BY DEF FillError
  <1>3. n \in 0 .. Len(rxq)
    BY <1>1, <1>2 DEF Least
  <1>4. rbuf' = <<>> /\ UNCHANGED <<isUSB_open, wbuf, toDev, got, wrote, sent>>
    BY DEF FillError, out, conn
  <1>5. Rest(rxq, n) \in Seq(Nat)
    BY <1>1, <1>3, CutFacts
  <1>6. Unread = rxq /\ Unread' = Rest(rxq, n)
    BY <1>1, <1>2, <1>4, <1>5, ConcatEmptySeq DEF Unread
  <1> QED BY <1>3, <1>4, <1>6 DEF Link!LoseOldest, Rest

\* The driver's queue, and nothing, are what is left when the oldest unread bytes are lost.
LEMMA QueueIsRest ==
  ASSUME LinkInv, isUSB_open, NEW q \in {rxq, <<>>}
  PROVE  \E k \in 0 .. Len(Unread) : q = Rest(Unread, k)
  <1> DEFINE u == rbuf \o rxq
             m == Len(rbuf)
  <1>1. rxq \in Seq(Nat) /\ rbuf \in Seq(Nat) /\ Len(rxq) \in Nat /\ Len(rbuf) \in Nat
    BY DEF LinkInv, OrderInv, TypeInv, Queues
  <1>2. Unread = u
    BY DEF Unread
  <1>3. /\ u \in Seq(Nat) /\ Len(u) = m + Len(rxq)
        /\ \A i \in 1 .. m + Len(rxq) : u[i] = IF i <= m THEN rbuf[i] ELSE rxq[i - m]
    BY <1>1, ConcatProperties
  <1>4. m \in 0 .. Len(u) /\ Len(u) \in 0 .. Len(u)
    BY <1>1, <1>3
  <1>5. Rest(u, m) = rxq
    <2> HIDE DEF u
    <2>1. /\ Rest(u, m) \in Seq(Nat) /\ Len(Rest(u, m)) = Len(u) - m
          /\ \A i \in 1 .. Len(u) - m : Rest(u, m)[i] = u[m + i]
      BY <1>3, <1>4, CutFacts
    <2>2. Len(Rest(u, m)) = Len(rxq)
      BY <1>1, <1>3, <2>1
    <2>3. ASSUME NEW i \in 1 .. Len(Rest(u, m)) PROVE Rest(u, m)[i] = rxq[i]
      <3>1. i \in 1 .. Len(u) - m /\ m + i \in 1 .. m + Len(rxq)
        BY <1>1, <1>3, <2>1, <2>2
      <3>2. Rest(u, m)[i] = u[m + i]
        BY <2>1, <3>1
      <3>3. u[m + i] = rxq[(m + i) - m]
        <4> HIDE DEF m
        <4>1. m + i \in 1 .. m + Len(rxq) /\ ~(m + i <= m)
          BY <1>4, <3>1
        <4> QED BY <1>3, <4>1
      <3>4. (m + i) - m = i
        BY <1>1, <3>1
      <3> QED BY <3>2, <3>3, <3>4
    <2> QED BY <1>1, <2>1, <2>2, <2>3, SeqEqual
  <1>6. Rest(u, Len(u)) = <<>>
    BY <1>3, SubSeqEmpty DEF Rest
  <1> HIDE DEF u, m
  <1> QED BY <1>2, <1>4, <1>5, <1>6

\* Closing hides what is left in m_bufferR, and may drop the driver's queue.
LEMMA CloseStep ==
  ASSUME LinkInv, Close PROVE Link!LoseOldest \/ UNCHANGED Link!vars
  <1>1. UNCHANGED <<rbuf, wbuf, toDev, got, wrote, sent>>
    BY DEF Close, out
  <1>2. CASE isUSB_open
    <2>1. isUSB_open' = FALSE /\ rxq' \in {rxq, <<>>}
      BY <1>2 DEF Close
    <2>2. Unread' = rxq'
      BY <2>1 DEF Unread
    <2>3. \E k \in 0 .. Len(Unread) : Unread' = Rest(Unread, k)
      BY <1>2, <2>1, <2>2, QueueIsRest
    <2> QED BY <1>1, <2>3 DEF Link!LoseOldest, Rest
  <1>3. CASE ~isUSB_open
    <2>1. UNCHANGED <<isUSB_open, rxq>>
      BY <1>3 DEF Close, conn
    <2> QED BY <1>1, <2>1 DEF Unread, Link!vars
  <1> QED BY <1>2, <1>3

\* Flush, the flush inside Write, and the reset of the buffers in Open: the
\* waiting bytes leave together, only a first part of them arrives.
LEMMA TransferStep ==
  ASSUME LinkInv, Flush \/ WriteFlush PROVE Link!Transfer
  <1>1. wbuf \in Seq(Nat) /\ toDev \in Seq(Nat) /\ Len(wbuf) \in Nat
    BY DEF LinkInv, OrderInv, TypeInv, Queues
  <1>2. UNCHANGED <<Unread, got, sent>>
    BY DEF Flush, WriteFlush, in, conn, Unread
  <1>3. CASE FlushDone
    <2>1. SubSeq(wbuf, 1, Len(wbuf)) = wbuf /\ Len(wbuf) \in 0 .. Len(wbuf)
      BY <1>1, SubSeqFull
    <2> QED BY <1>2, <1>3, <2>1 DEF FlushDone, Link!Transfer
  <1>4. CASE FlushError
    BY <1>2, <1>4 DEF FlushError, First, Link!Transfer
  <1>5. CASE wbuf' = <<>> /\ UNCHANGED <<toDev, wrote>>
    <2>1. SubSeq(wbuf, 1, 0) = <<>> /\ 0 \in 0 .. Len(wbuf)
      BY <1>1, SubSeqEmpty
    <2>2. toDev' = toDev \o SubSeq(wbuf, 1, 0)
      BY <1>1, <1>5, <2>1, ConcatEmptySeq
    <2> QED BY <1>2, <1>5, <2>1, <2>2 DEF Link!Transfer
  <1> QED BY <1>3, <1>4, <1>5 DEF Flush, WriteFlush

LEMMA OpenStep ==
  ASSUME LinkInv, Open PROVE Link!Transfer \/ UNCHANGED Link!vars
  <1>1. /\ wbuf \in Seq(Nat) /\ toDev \in Seq(Nat) /\ rxq \in Seq(Nat) /\ Len(wbuf) \in Nat
    BY DEF LinkInv, OrderInv, TypeInv, Queues
  <1>2. CASE isUSB_open
    <2>1. UNCHANGED <<out, in, conn>>
      BY <1>2 DEF Open
    <2> QED BY <2>1 DEF out, in, conn, Unread, Link!vars
  <1>3. CASE ~isUSB_open
    <2>1. rbuf' = <<>> /\ wbuf' = <<>> /\ UNCHANGED <<toDev, wrote, rxq, got, sent>>
      BY <1>3 DEF Open
    <2>2. <<>> \o rxq = rxq
      BY <1>1, ConcatEmptySeq
    <2>3. Unread' = Unread
      BY <1>3, <2>1, <2>2 DEF Unread
    <2>4. SubSeq(wbuf, 1, 0) = <<>> /\ 0 \in 0 .. Len(wbuf)
      BY <1>1, SubSeqEmpty
    <2>5. toDev' = toDev \o SubSeq(wbuf, 1, 0)
      BY <1>1, <2>1, <2>4, ConcatEmptySeq
    <2> QED BY <2>1, <2>3, <2>4, <2>5 DEF Link!Transfer
  <1> QED BY <1>2, <1>3

LEMMA PurgeStep ==
  ASSUME LinkInv, Clear PROVE Link!Purge \/ UNCHANGED Link!vars
  <1>1. UNCHANGED <<isUSB_open, toDev, got, wrote, sent>>
    BY DEF Clear, conn
  <1>2. CASE isUSB_open
    <2>1. rxq' \in {rxq, <<>>} /\ rbuf' = <<>> /\ wbuf' = <<>>
      BY <1>2 DEF Clear
    <2>2. <<>> \o rxq = rxq /\ <<>> \o <<>> = <<>>
      BY EmptySeq, ConcatEmptySeq DEF LinkInv, OrderInv, TypeInv, Queues
    <2>3. Unread' = rxq'
      BY <1>1, <1>2, <2>1, <2>2 DEF Unread
    <2>4. \E k \in 0 .. Len(Unread) : Unread' = Rest(Unread, k)
      BY <1>2, <2>1, <2>3, QueueIsRest
    <2> QED BY <1>1, <2>1, <2>4 DEF Link!Purge, Rest
  <1>3. CASE ~isUSB_open
    BY <1>1, <1>3 DEF Clear, Unread, Link!vars
  <1> QED BY <1>2, <1>3

LEMMA LinkStep == LinkInv /\ [Next]_vars => [Link!Next]_(Link!vars)
  <1> SUFFICES ASSUME LinkInv, [Next]_vars PROVE [Link!Next]_(Link!vars)
    OBVIOUS
  <1> USE DEF Link!Next
  <1>1. CASE Open
    BY <1>1, OpenStep
  <1>2. CASE Close
    BY <1>2, CloseStep
  <1>3. CASE Clear
    BY <1>3, PurgeStep
  <1>4. CASE Flush \/ WriteFlush
    BY <1>4, TransferStep
  <1>5. CASE WritePut
    <2>1. Link!Put
      BY <1>5 DEF WritePut, in, conn, Unread, Link!Put
    <2> QED BY <2>1
  <1>6. CASE ReadCopy
    BY <1>6, GetStep
  <1>7. CASE FillFull \/ FillTimeout
    BY <1>7, FillStep
  <1>8. CASE FillError
    BY <1>8, LoseStep
  <1>9. CASE DevSend
    BY <1>9, ArriveStep
  <1>10. CASE \/ WriteReturn \/ ReadReturn \/ ReadBreak \/ FillStart \/ FillRefused
              \/ \E n \in 0 .. MaxCall : WriteCall(n) \/ ReadCall(n)
    <2>1. UNCHANGED <<wbuf, toDev, rbuf, rxq, isUSB_open, got, wrote, sent>>
      BY <1>10 DEF WriteReturn, ReadReturn, ReadBreak, FillStart, FillRefused, WriteCall,
                   ReadCall, out, in, conn
    <2> QED BY <2>1 DEF Unread, Link!vars
  <1>11. CASE UNCHANGED vars
    BY <1>11 DEF vars, out, in, conn, Unread, Link!vars
  <1> QED
    BY <1>1, <1>2, <1>3, <1>4, <1>5, <1>6, <1>7, <1>8, <1>9, <1>10, <1>11
    DEF Next, WriteStep, ReadStep

\* Every behaviour of CUSB is a behaviour of the byte link: two ordered streams
\* that lose only whole tails of what was written and only the oldest of what
\* was sent.
THEOREM UsbImplementsLink == Spec => ImplementsLink
  <1>1. Spec => Link!Spec
    BY LinkInit, LinkStep, AlwaysLinkInv, PTL DEF Spec, Link!Spec
  <1> QED BY <1>1 DEF ImplementsLink
=============================================================================
