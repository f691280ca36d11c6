---------------------------- MODULE StreamProofs ----------------------------
(***************************************************************************)
(* Theorems about Stream, for any size of the blocks, any limit of the     *)
(* records and any samples: the pipe implements Framing, and a record      *)
(* without flags is a whole event.                                         *)
(***************************************************************************)
EXTENDS Stream, TLAPS, SequenceTheorems

NoSample == [id |-> 0, start |-> FALSE, end |-> TRUE]

\* What the source has not delivered is what it has buffered, then the DTB's memory.
QueueInv ==
  /\ Len(sent) = got + (Len(buffer) - pos) + Len(memory)
  /\ \A i \in 1 .. Len(buffer) - pos : buffer[pos + i] = sent[got + i]
  /\ \A i \in 1 .. Len(memory) : memory[i] = sent[got + (Len(buffer) - pos) + i]
  /\ lastSample = IF got = 0 THEN NoSample ELSE sent[got]
  /\ \A i \in 1 .. Len(sent) : sent[i].id = i

\* The record begun: its first sample is sent[First], its size is that of First to the
\* last sample, which is not in it yet but at "more".
First == IF pc = "more" THEN got - Len(record.data) + 1 ELSE got - Len(record.data)

Begun ==
  /\ First \in upto + 1 .. got /\ First \in Nat
  /\ sent[First].start /\ \A x \in upto + 1 .. First - 1 : ~sent[x].start
  /\ Len(record.data) <= Limit
  /\ \A x \in 1 .. Len(record.data) : record.data[x] = sent[First + x - 1]
  /\ record.startError = (First # upto + 1) /\ ~record.endError
  /\ \A x \in First + 1 .. got - 1 : ~sent[x].start /\ ~sent[x].end

\* What Read knows where it stands.
ScanInv ==
  /\ pc = "idle" => upto = IF lastSample.end THEN got ELSE got - 1
  /\ pc = "skip" => upto = got /\ record = NewRecord
  /\ pc = "begin" => upto = got - 1 /\ record = NewRecord
  /\ pc = "align" => /\ record = [NewRecord EXCEPT !.startError = TRUE] /\ upto < got
                     /\ \A x \in upto + 1 .. got : ~sent[x].start
  /\ pc \in {"collect", "more", "finish"} => Begun
  /\ pc \in {"collect", "more"} =>
       /\ ~record.overflow
       /\ First < got => ~sent[got].start /\ ~sent[got].end
  /\ pc = "more" => Len(record.data) > 0
  /\ pc = "finish" =>
       /\ Len(record.data) > 0
       /\ record.overflow => Len(record.data) = Limit /\ ~sent[got].start /\ ~sent[got].end
       /\ ~record.overflow => sent[got].start \/ sent[got].end

StreamInv == TypeOK /\ QueueInv /\ ScanInv

-----------------------------------------------------------------------------
(* Samples that come, and samples that are taken *)

LEMMA InitInv == Init => StreamInv
  <1> SUFFICES ASSUME Init PROVE StreamInv
    OBVIOUS
  <1>1. TypeOK
    <2>1. memory \in Seq(Sample) /\ buffer \in Seq(Sample) /\ sent \in Seq(Sample)
          /\ Len(buffer) = 0 /\ Len(sent) = 0
      BY DEF Init
    <2>2. lastSample \in Sample
      BY DEF Init, Sample
    <2>3. record \in [data : Seq(Sample), startError : BOOLEAN, endError : BOOLEAN, overflow : BOOLEAN]
          /\ Len(record.data) = 0
      <3>1. <<>> \in Seq(Sample) /\ Len(<<>>) = 0
        OBVIOUS
      <3> QED BY <3>1 DEF Init, NewRecord
    <2>4. full \in BOOLEAN /\ stop \in BOOLEAN /\ pc = "idle" /\ pos = 0 /\ got = 0 /\ upto = 0
      BY DEF Init
    <2> QED BY <2>1, <2>2, <2>3, <2>4, SizeAssumption DEF TypeOK
  <1>2. QueueInv
    BY DEF Init, QueueInv, NoSample
  <1>3. ScanInv
    BY DEF Init, ScanInv
  <1> QED BY <1>1, <1>2, <1>3 DEF StreamInv

\* Nothing that the scanner looks at changes.
LEMMA ScanFrame ==
  ASSUME StreamInv, UNCHANGED <<lastSample, record, got, upto, pc>>,
         \A x \in 1 .. got : sent'[x] = sent[x]
  PROVE  ScanInv'
  <1>1. got \in Nat /\ upto \in 0 .. got /\ Len(record.data) \in Nat
    BY DEF StreamInv, TypeOK
  <1>2. First' = First
    BY DEF First
  <1>3. CASE Begun
    <2>1. First \in upto + 1 .. got /\ First \in Nat
          /\ First + Len(record.data) - 1 <= got
      <3>1. First \in upto + 1 .. got /\ First \in Nat
        BY <1>3 DEF Begun
      <3>2. First + Len(record.data) - 1 <= got
        <4>1. CASE pc = "more"
          BY <1>1, <4>1 DEF First
        <4>2. CASE pc # "more"
          BY <1>1, <4>2 DEF First
        <4> QED BY <4>1, <4>2
      <3> QED BY <3>1, <3>2
    <2>2. sent'[First] = sent[First]
          /\ (\A x \in upto + 1 .. First - 1 : sent'[x] = sent[x])
          /\ (\A x \in First + 1 .. got - 1 : sent'[x] = sent[x])
      BY <1>1, <2>1
    <2>3. \A x \in 1 .. Len(record.data) : sent'[First + x - 1] = sent[First + x - 1]
      BY <1>1, <2>1
    <2>4. Begun'
      BY <1>2, <1>3, <2>2, <2>3 DEF Begun
    <2>5. sent'[got] = sent[got]
      BY <1>1, <2>1
    <2> QED BY <1>2, <2>1, <2>4, <2>5, <1>1 DEF StreamInv, ScanInv
  <1>4. CASE pc \notin {"collect", "more", "finish"}
    BY <1>1, <1>4 DEF StreamInv, ScanInv
  <1> QED BY <1>3, <1>4 DEF StreamInv, ScanInv

LEMMA SendKeeps ==
  ASSUME StreamInv, NEW start \in BOOLEAN, NEW end \in BOOLEAN, Send(start, end)
  PROVE  StreamInv'
  <1> DEFINE s == [id |-> Len(sent) + 1, start |-> start, end |-> end]
  <1>1. /\ sent' = Append(sent, s) /\ memory' = Append(memory, s)
        /\ UNCHANGED <<full, stop, buffer, pos, lastSample, pc, record, got, upto, records>>
    BY DEF Send, source, scanner
  <1>2. sent \in Seq(Sample) /\ memory \in Seq(Sample) /\ s \in Sample /\ got \in 0 .. Len(sent)
        /\ upto \in 0 .. got /\ pos \in 0 .. Len(buffer) /\ buffer \in Seq(Sample)
    BY DEF StreamInv, TypeOK, Sample
  <1>3. s.id = Len(sent) + 1
    OBVIOUS
  <1> HIDE DEF s
  <1>4. /\ sent' \in Seq(Sample) /\ memory' \in Seq(Sample)
        /\ Len(sent') = Len(sent) + 1 /\ Len(memory') = Len(memory) + 1
        /\ \A i \in 1 .. Len(sent) : sent'[i] = sent[i]
        /\ \A i \in 1 .. Len(memory) : memory'[i] = memory[i]
        /\ sent'[Len(sent) + 1] = s /\ memory'[Len(memory) + 1] = s
    BY <1>1, <1>2
  <1>5. TypeOK'
    BY <1>1, <1>2, <1>4 DEF StreamInv, TypeOK
  <1>6. QueueInv'
    <2>1. /\ Len(sent) \in Nat /\ Len(memory) \in Nat /\ Len(buffer) \in Nat /\ got \in Nat /\ pos \in Nat
          /\ pos <= Len(buffer) /\ got <= Len(sent)
          /\ Len(sent) = got + (Len(buffer) - pos) + Len(memory)
      BY <1>2 DEF StreamInv, QueueInv
    <2>2. Len(sent') = got + (Len(buffer) - pos) + Len(memory')
      BY <1>4, <2>1
    <2>3. ASSUME NEW i \in 1 .. Len(buffer) - pos PROVE buffer[pos + i] = sent'[got + i]
      <3>1. got + i \in 1 .. Len(sent)
        BY <2>1
      <3> QED BY <1>4, <3>1 DEF StreamInv, QueueInv
    <2>4. ASSUME NEW i \in 1 .. Len(memory') PROVE memory'[i] = sent'[got + (Len(buffer) - pos) + i]
      <3>1. CASE i \in 1 .. Len(memory)
        <4>1. got + (Len(buffer) - pos) + i \in 1 .. Len(sent)
          BY <2>1, <3>1
        <4> QED BY <1>4, <3>1, <4>1 DEF StreamInv, QueueInv
      <3>2. CASE i = Len(memory) + 1
        <4>1. got + (Len(buffer) - pos) + i = Len(sent) + 1
          BY <2>1, <3>2
        <4> QED BY <1>4, <3>2, <4>1
      <3> QED BY <1>4, <2>1, <2>4, <3>1, <3>2
    <2>5. got # 0 => sent'[got] = sent[got]
      BY <1>4, <2>1
    <2>6. ASSUME NEW i \in 1 .. Len(sent') PROVE sent'[i].id = i
      <3>1. CASE i \in 1 .. Len(sent)
        BY <1>4, <3>1 DEF StreamInv, QueueInv
      <3>2. CASE i = Len(sent) + 1
        BY <1>3, <1>4, <3>2
      <3> QED BY <1>4, <2>1, <2>6, <3>1, <3>2
    <2> QED BY <1>1, <2>2, <2>3, <2>4, <2>5, <2>6 DEF StreamInv, QueueInv
  <1>7. \A x \in 1 .. got : sent'[x] = sent[x]
    BY <1>2, <1>4
  <1>8. ScanInv'
    BY <1>1, <1>7, ScanFrame
  <1> QED BY <1>5, <1>6, <1>8 DEF StreamInv

\* A pull delivers the next sample, from the buffer or from a new block.
LEMMA Pull ==
  ASSUME StreamInv, GetBuffered \/ FillBuffer
  PROVE  /\ got + 1 \in 1 .. Len(sent) /\ sent[got + 1] \in Sample
         /\ pc \in Gets /\ pc' = Then(sent[got + 1])
         /\ got' = got + 1 /\ lastSample' = sent[got + 1]
         /\ UNCHANGED <<full, stop, record, sent, upto, records>>
         /\ memory' \in Seq(Sample) /\ buffer' \in Seq(Sample)
         /\ pos' \in 0 .. Len(buffer)' /\ Len(buffer') <= Block
         /\ QueueInv'
  <1>1. /\ sent \in Seq(Sample) /\ memory \in Seq(Sample) /\ buffer \in Seq(Sample)
        /\ got \in 0 .. Len(sent) /\ pos \in 0 .. Len(buffer) /\ Len(buffer) <= Block
        /\ Len(sent) \in Nat /\ Len(memory) \in Nat /\ Len(buffer) \in Nat
    BY DEF StreamInv, TypeOK
  <1>2. CASE GetBuffered
    <2>1. /\ pos < Len(buffer) /\ pos' = pos + 1 /\ pc \in Gets /\ pc' = Then(buffer[pos + 1])
          /\ lastSample' = buffer[pos + 1] /\ got' = got + 1
          /\ UNCHANGED <<memory, full, stop, buffer, record, sent, upto, records>>
      BY <1>2 DEF GetBuffered, Take, dtb
    <2>2. 1 \in 1 .. Len(buffer) - pos
      BY <1>1, <2>1
    <2>3. buffer[pos + 1] = sent[got + 1] /\ got + 1 \in 1 .. Len(sent)
      BY <1>1, <2>1, <2>2 DEF StreamInv, QueueInv
    <2>4. QueueInv'
      <3>1. Len(sent) = got' + (Len(buffer) - pos') + Len(memory)
        BY <1>1, <2>1 DEF StreamInv, QueueInv
      <3>2. ASSUME NEW i \in 1 .. Len(buffer) - pos' PROVE buffer[pos' + i] = sent[got' + i]
        <4>1. i + 1 \in 1 .. Len(buffer) - pos /\ pos' + i = pos + (i + 1) /\ got' + i = got + (i + 1)
          BY <1>1, <2>1, <3>2
        <4> QED BY <4>1 DEF StreamInv, QueueInv
      <3>3. ASSUME NEW i \in 1 .. Len(memory)
            PROVE  memory[i] = sent[got' + (Len(buffer) - pos') + i]
        <4>1. got' + (Len(buffer) - pos') + i = got + (Len(buffer) - pos) + i
          BY <1>1, <2>1
        <4> QED BY <4>1 DEF StreamInv, QueueInv
      <3>4. got' # 0 /\ lastSample' = sent'[got']
        BY <1>1, <2>1, <2>3
      <3> QED BY <2>1, <3>1, <3>2, <3>3, <3>4 DEF StreamInv, QueueInv
    <2> QED BY <1>1, <2>1, <2>3, <2>4
  <1>3. CASE FillBuffer
    <2>1. /\ pos = Len(buffer) /\ pos' = 1 /\ pc \in Gets /\ pc' = Then(memory[1])
          /\ lastSample' = memory[1] /\ got' = got + 1
          /\ UNCHANGED <<full, stop, record, sent, upto, records>>
      BY <1>3 DEF FillBuffer, Take
    <2>2. PICK n \in 1 .. Len(memory) : /\ n <= Block /\ buffer' = SubSeq(memory, 1, n)
                                        /\ memory' = SubSeq(memory, n + 1, Len(memory))
      BY <1>3 DEF FillBuffer
    <2>3. /\ buffer' \in Seq(Sample) /\ Len(buffer') = n /\ memory' \in Seq(Sample)
          /\ Len(memory') = Len(memory) - n
          /\ \A i \in 1 .. n : buffer'[i] = memory[i]
          /\ \A i \in 1 .. Len(memory) - n : memory'[i] = memory[n + i]
      <3>1. /\ buffer' \in Seq(Sample) /\ Len(buffer') = n
            /\ \A i \in 1 .. n : buffer'[i] = memory[i]
        <4>1. \A i \in 1 .. n : memory[i] \in Sample
          BY <1>1, <2>2
        <4> QED BY <2>2, <4>1, SubSeqProperties
      <3>2. /\ memory' \in Seq(Sample) /\ Len(memory') = Len(memory) - n
            /\ \A i \in 1 .. Len(memory) - n : memory'[i] = memory[n + i]
        <4>1. \A i \in n + 1 .. Len(memory) : memory[i] \in Sample
          BY <1>1, <2>2
        <4>2. n + 1 \in Int /\ Len(memory) \in Int
          BY <1>1
        <4>3. /\ memory' \in Seq(Sample)
              /\ Len(memory') = IF n + 1 <= Len(memory) THEN Len(memory) - (n + 1) + 1 ELSE 0
              /\ \A i \in 1 .. Len(memory) - (n + 1) + 1 : memory'[i] = memory[n + 1 + i - 1]
          BY <2>2, <4>1, <4>2, SubSeqProperties
        <4> QED BY <1>1, <4>3
      <3> QED BY <3>1, <3>2
    <2>4. /\ Len(sent) = got + Len(memory)
          /\ \A i \in 1 .. Len(memory) : memory[i] = sent[got + i]
      BY <1>1, <2>1 DEF StreamInv, QueueInv
    <2>5. memory[1] = sent[got + 1] /\ got + 1 \in 1 .. Len(sent)
      BY <1>1, <2>2, <2>4
    <2>6. QueueInv'
      <3>1. Len(sent') = got' + (Len(buffer') - pos') + Len(memory')
        <4>1. Len(buffer') = n /\ Len(memory') = Len(memory) - n /\ Len(sent) = got + Len(memory)
          BY <2>3, <2>4
        <4> QED BY <1>1, <2>1, <4>1
      <3>2. ASSUME NEW i \in 1 .. Len(buffer') - pos' PROVE buffer'[pos' + i] = sent'[got' + i]
        <4>1. i + 1 \in 1 .. n /\ i + 1 \in 1 .. Len(memory) /\ pos' + i = i + 1 /\ got' + i = got + (i + 1)
          BY <1>1, <2>1, <2>2, <2>3, <3>2
        <4> QED BY <2>1, <2>3, <2>4, <4>1
      <3>3. ASSUME NEW i \in 1 .. Len(memory')
            PROVE  memory'[i] = sent'[got' + (Len(buffer') - pos') + i]
        <4>1. n + i \in 1 .. Len(memory) /\ i \in 1 .. Len(memory) - n
              /\ got' + (Len(buffer') - pos') + i = got + (n + i)
          BY <1>1, <2>1, <2>2, <2>3, <3>3
        <4> QED BY <2>1, <2>3, <2>4, <4>1
      <3>4. got' # 0 /\ lastSample' = sent'[got']
        BY <1>1, <2>1, <2>5
      <3>5. \A i \in 1 .. Len(sent') : sent'[i].id = i
        BY <2>1 DEF StreamInv, QueueInv
      <3> QED BY <3>1, <3>2, <3>3, <3>4, <3>5 DEF QueueInv
    <2> QED BY <1>1, <2>1, <2>2, <2>3, <2>5, <2>6
  <1> QED BY <1>2, <1>3

\* Where the scanner stands after a pull.
LEMMA PullKeeps ==
  ASSUME StreamInv, GetBuffered \/ FillBuffer
  PROVE  StreamInv'
  <1> DEFINE s == sent[got + 1]
  <1>1. /\ got + 1 \in 1 .. Len(sent) /\ s \in Sample
        /\ pc \in Gets /\ pc' = Then(s)
        /\ got' = got + 1 /\ lastSample' = s
        /\ UNCHANGED <<full, stop, record, sent, upto, records>>
        /\ memory' \in Seq(Sample) /\ buffer' \in Seq(Sample)
        /\ pos' \in 0 .. Len(buffer)' /\ Len(buffer') <= Block
        /\ QueueInv'
    BY Pull
  <1>2. /\ sent \in Seq(Sample) /\ got \in 0 .. Len(sent) /\ upto \in 0 .. got /\ Len(sent) \in Nat
        /\ record \in [data : Seq(Sample), startError : BOOLEAN, endError : BOOLEAN, overflow : BOOLEAN]
        /\ Len(record.data) \in Nat
    BY DEF StreamInv, TypeOK
  <1>3. s.start \in BOOLEAN /\ s.end \in BOOLEAN
    BY <1>1 DEF Sample
  <1>4. TypeOK'
    BY <1>1, <1>2, <1>3 DEF StreamInv, TypeOK, Then, Gets, Steps
  <1>5. ScanInv'
    <2>1. CASE pc = "skip"
      <3>1. pc' = "begin" /\ upto = got /\ record = NewRecord
        BY <1>1, <2>1 DEF Then, StreamInv, ScanInv
      <3> QED BY <1>1, <1>2, <3>1 DEF ScanInv
    <2>2. CASE pc = "align"
      <3>1. /\ record = [NewRecord EXCEPT !.startError = TRUE] /\ upto < got
            /\ \A x \in upto + 1 .. got : ~sent[x].start
        BY <2>2 DEF StreamInv, ScanInv
      <3>2. CASE s.start
        <4>1. pc' = "collect" /\ First' = got + 1
          BY <1>1, <1>2, <2>2, <3>1, <3>2 DEF Then, First, NewRecord
        <4>2. record.data = <<>> /\ Len(record.data) = 0 /\ record.startError /\ ~record.endError
              /\ ~record.overflow
          BY <3>1 DEF NewRecord
        <4>3. Begun'
          <5>1. /\ First' \in upto' + 1 .. got' /\ First' \in Nat /\ Len(record.data') <= Limit
                /\ First' # upto' + 1
            BY <1>1, <1>2, <3>1, <4>1, <4>2, SizeAssumption
          <5>2. sent'[First'].start /\ \A x \in upto' + 1 .. First' - 1 : ~sent'[x].start
            BY <1>1, <1>2, <3>1, <3>2, <4>1
          <5>3. 1 .. Len(record.data') = {} /\ First' + 1 .. got' - 1 = {}
            BY <1>1, <1>2, <4>1, <4>2
          <5>4. record'.startError = TRUE /\ ~record'.endError
            BY <1>1, <1>2, <4>2
          <5> QED BY <5>1, <5>2, <5>3, <5>4 DEF Begun
        <4> QED BY <1>1, <1>2, <4>1, <4>2, <4>3 DEF ScanInv
      <3>3. CASE ~s.start
        <4>1. pc' = "align"
          BY <1>1, <2>2, <3>3 DEF Then
        <4>2. \A x \in upto + 1 .. got + 1 : ~sent[x].start
          <5> SUFFICES ASSUME NEW x \in upto + 1 .. got + 1 PROVE ~sent[x].start
            OBVIOUS
          <5>1. x = got + 1 \/ x \in upto + 1 .. got
            BY <1>2
          <5> QED BY <3>1, <3>3, <5>1
        <4> QED BY <1>1, <1>2, <3>1, <4>1, <4>2 DEF ScanInv
      <3> QED BY <3>2, <3>3
    <2>3. CASE pc = "more"
      <3>1. /\ Begun /\ ~record.overflow /\ Len(record.data) > 0
            /\ First < got => ~sent[got].start /\ ~sent[got].end
        BY <2>3 DEF StreamInv, ScanInv
      <3>2. pc' = IF s.start \/ s.end THEN "finish" ELSE "collect"
        BY <1>1, <2>3 DEF Then
      <3>3. First' = First /\ First = got - Len(record.data) + 1
        BY <1>1, <1>2, <2>3, <3>2 DEF First
      <3>4. \A x \in First + 1 .. got : ~sent[x].start /\ ~sent[x].end
        <4> SUFFICES ASSUME NEW x \in First + 1 .. got PROVE ~sent[x].start /\ ~sent[x].end
          OBVIOUS
        <4>1. (x = got /\ First < got) \/ x \in First + 1 .. got - 1
          BY <1>2, <3>3
        <4> QED BY <3>1, <4>1 DEF Begun
      <3>5. Begun'
        BY <1>1, <1>2, <3>1, <3>3, <3>4 DEF Begun
      <3>6. CASE s.start \/ s.end
        BY <1>1, <1>2, <3>1, <3>2, <3>5, <3>6 DEF ScanInv
      <3>7. CASE ~s.start /\ ~s.end
        BY <1>1, <1>2, <3>1, <3>2, <3>5, <3>7 DEF ScanInv
      <3> QED BY <3>6, <3>7
    <2> QED BY <1>1, <2>1, <2>2, <2>3 DEF Gets
  <1> QED BY <1>1, <1>4, <1>5 DEF StreamInv

\* The memory is empty.
LEMMA EmptyKeeps ==
  ASSUME StreamInv, FillNothing \/ Throw
  PROVE  StreamInv' /\ UNCHANGED <<sent, upto, records>>
  <1>1. /\ pos = Len(buffer) /\ memory = <<>> /\ buffer' = <<>> /\ pos' = 0
        /\ UNCHANGED <<memory, full, stop, lastSample, record, sent, got, upto, records>>
        /\ pc' = pc \/ pc' = "thrown"
    BY DEF FillNothing, Throw, dtb, scanner
  <1>2. TypeOK'
    BY <1>1, SizeAssumption DEF StreamInv, TypeOK
  <1>3. QueueInv'
    BY <1>1 DEF StreamInv, QueueInv, TypeOK
  <1>4. ScanInv'
    BY <1>1 DEF StreamInv, ScanInv, Begun, First
  <1> QED BY <1>1, <1>2, <1>3, <1>4 DEF StreamInv

-----------------------------------------------------------------------------
(* CDataRecordScanner::Read *)

LEMMA ReadKeeps ==
  ASSUME StreamInv, Read
  PROVE  StreamInv' /\ UNCHANGED <<sent, upto, records>>
  <1>1. /\ pc = "idle" /\ record' = NewRecord
        /\ pc' = IF lastSample.end THEN "skip" ELSE "begin"
        /\ UNCHANGED <<memory, full, stop, buffer, pos, lastSample, sent, got, upto, records>>
    BY DEF Read, dtb, source
  <1>2. record' \in [data : Seq(Sample), startError : BOOLEAN, endError : BOOLEAN, overflow : BOOLEAN]
        /\ Len(record'.data) = 0
    <2>1. <<>> \in Seq(Sample) /\ Len(<<>>) = 0
      OBVIOUS
    <2> QED BY <1>1, <2>1 DEF NewRecord
  <1>3. TypeOK'
    BY <1>1, <1>2, SizeAssumption DEF StreamInv, TypeOK, Steps, Gets
  <1>4. QueueInv'
    BY <1>1 DEF StreamInv, QueueInv
  <1>5. ScanInv'
    BY <1>1 DEF StreamInv, ScanInv
  <1> QED BY <1>1, <1>3, <1>4, <1>5 DEF StreamInv

LEMMA BeginKeeps ==
  ASSUME StreamInv, Begin
  PROVE  StreamInv' /\ UNCHANGED <<sent, upto, records>>
  <1>1. /\ pc = "begin" /\ upto = got - 1 /\ record = NewRecord
        /\ UNCHANGED <<memory, full, stop, buffer, pos, lastSample, sent, got, upto, records>>
    BY DEF Begin, dtb, source, StreamInv, ScanInv
  <1>2. got \in 0 .. Len(sent) /\ upto \in Nat /\ Len(sent) \in Nat /\ got \in 1 .. Len(sent)
        /\ lastSample = sent[got]
    BY <1>1 DEF StreamInv, TypeOK, QueueInv
  <1>3. QueueInv'
    BY <1>1 DEF StreamInv, QueueInv
  <1>4. record.data = <<>> /\ Len(record.data) = 0 /\ ~record.startError /\ ~record.endError
        /\ ~record.overflow
    BY <1>1 DEF NewRecord
  <1>5. CASE lastSample.start
    <2>1. pc' = "collect" /\ record' = record
      BY <1>5 DEF Begin
    <2>2. First' = got
      BY <1>1, <1>2, <1>4, <2>1 DEF First
    <2>3. Begun'
      <3>1. /\ First' \in upto' + 1 .. got' /\ First' \in Nat /\ Len(record'.data) <= Limit
            /\ First' = upto' + 1
        BY <1>1, <1>2, <1>4, <2>1, <2>2, SizeAssumption
      <3>2. sent'[First'].start /\ upto' + 1 .. First' - 1 = {}
        BY <1>1, <1>2, <1>5, <2>2
      <3>3. 1 .. Len(record'.data) = {} /\ First' + 1 .. got' - 1 = {}
        BY <1>1, <1>2, <1>4, <2>1, <2>2
      <3>4. record'.startError = FALSE /\ ~record'.endError
        BY <1>1, <2>1 DEF NewRecord
      <3> QED BY <3>1, <3>2, <3>3, <3>4 DEF Begun
    <2>4. ScanInv'
      BY <1>1, <1>2, <1>4, <2>1, <2>2, <2>3 DEF ScanInv
    <2>5. TypeOK'
      BY <1>1, <2>1 DEF StreamInv, TypeOK, Steps
    <2> QED BY <1>1, <1>3, <2>4, <2>5 DEF StreamInv
  <1>6. CASE ~lastSample.start
    <2>1. pc' = "align" /\ record' = [NewRecord EXCEPT !.startError = TRUE]
      BY <1>1, <1>6 DEF Begin
    <2>2. \A x \in upto + 1 .. got : ~sent[x].start
      BY <1>1, <1>2, <1>6
    <2>3. ScanInv'
      BY <1>1, <1>2, <2>1, <2>2 DEF ScanInv
    <2>4. TypeOK'
      BY <1>1, <2>1 DEF StreamInv, TypeOK, Steps, Gets
    <2> QED BY <1>1, <1>3, <2>3, <2>4 DEF StreamInv
  <1> QED BY <1>5, <1>6

\* The last sample is added, or the record is full.
LEMMA CollectKeeps ==
  ASSUME StreamInv, Collect
  PROVE  StreamInv' /\ UNCHANGED <<sent, upto, records>>
  <1>1. /\ pc = "collect" /\ Begun /\ ~record.overflow
        /\ First < got => ~sent[got].start /\ ~sent[got].end
        /\ UNCHANGED <<memory, full, stop, buffer, pos, lastSample, sent, got, upto, records>>
    BY DEF Collect, dtb, source, StreamInv, ScanInv
  <1> DEFINE n == Len(record.data)
  <1>2. /\ got \in 0 .. Len(sent) /\ upto \in 0 .. got /\ Len(sent) \in Nat /\ n \in Nat
        /\ record \in [data : Seq(Sample), startError : BOOLEAN, endError : BOOLEAN, overflow : BOOLEAN]
        /\ lastSample \in Sample
    BY DEF StreamInv, TypeOK
  <1>3. First = got - n /\ First \in upto + 1 .. got /\ First \in Nat /\ n <= Limit /\ Limit \in Nat \ {0}
    BY <1>1, <1>2, SizeAssumption DEF Begun, First
  <1>4. QueueInv'
    BY <1>1 DEF StreamInv, QueueInv
  <1>5. CASE n >= Limit
    <2>1. pc' = "finish" /\ record' = [record EXCEPT !.overflow = TRUE]
      BY <1>5 DEF Collect
    <2>2. /\ record'.data = record.data /\ record'.startError = record.startError
          /\ record'.endError = record.endError /\ record'.overflow
      BY <1>2, <2>1
    <2>3. First' = First
      BY <1>1, <1>3, <2>1, <2>2 DEF First
    <2>4. Begun'
      BY <1>1, <2>2, <2>3 DEF Begun
    <2>5. n = Limit /\ n > 0 /\ First < got
      BY <1>2, <1>3, <1>5
    <2>6. ScanInv'
      BY <1>1, <2>1, <2>2, <2>4, <2>5 DEF ScanInv
    <2>7. TypeOK'
      BY <1>1, <1>2, <2>1, <2>2 DEF StreamInv, TypeOK, Steps
    <2> QED BY <1>1, <1>4, <2>6, <2>7 DEF StreamInv
  <1>6. CASE n < Limit
    <2>1. pc' = "more" /\ record' = [record EXCEPT !.data = Append(@, lastSample)]
      BY <1>2, <1>3, <1>6 DEF Collect
    <2>2. /\ record'.data = Append(record.data, lastSample) /\ record'.startError = record.startError
          /\ record'.endError = record.endError /\ record'.overflow = record.overflow
      BY <1>2, <2>1
    <2>3. /\ record'.data \in Seq(Sample) /\ Len(record'.data) = n + 1
          /\ \A x \in 1 .. n : record'.data[x] = record.data[x]
          /\ record'.data[n + 1] = lastSample
      BY <1>2, <2>2
    <2>4. First' = First
      BY <1>1, <1>2, <1>3, <2>1, <2>3 DEF First
    <2>5. lastSample = sent[got] /\ First + (n + 1) - 1 = got
      BY <1>2, <1>3 DEF StreamInv, QueueInv
    <2>6. Begun'
      <3>1. ASSUME NEW x \in 1 .. n + 1 PROVE record'.data[x] = sent[First + x - 1]
        <4>1. CASE x \in 1 .. n
          BY <1>1, <2>3, <4>1 DEF Begun
        <4>2. CASE x = n + 1
          BY <2>3, <2>5, <4>2
        <4> QED BY <1>2, <4>1, <4>2
      <3>2. Len(record'.data) <= Limit
        BY <1>2, <1>3, <1>6, <2>3
      <3> QED BY <1>1, <2>2, <2>3, <2>4, <3>1, <3>2 DEF Begun
    <2>7. ScanInv'
      BY <1>1, <1>2, <2>1, <2>2, <2>3, <2>4, <2>6 DEF ScanInv
    <2>8. record' \in [data : Seq(Sample), startError : BOOLEAN, endError : BOOLEAN, overflow : BOOLEAN]
      BY <1>2, <2>1, <2>3, <2>2
    <2>9. TypeOK'
      BY <1>1, <1>2, <1>3, <1>6, <2>1, <2>3, <2>8 DEF StreamInv, TypeOK, Steps, Gets
    <2> QED BY <1>1, <1>4, <2>7, <2>9 DEF StreamInv
  <1> QED BY <1>2, <1>3, <1>5, <1>6

-----------------------------------------------------------------------------
(* The record is delivered *)

\* What Finish knows: its record runs from First to the last sample or to the one before.
LEMMA FinishFacts ==
  ASSUME StreamInv, Finish
  PROVE  LET n == Len(record.data)
         IN  /\ Begun /\ n \in Nat /\ n > 0 /\ n <= Limit /\ Limit \in Nat
             /\ First = got - n /\ First \in upto + 1 .. got /\ First \in Nat /\ First < got
             /\ got \in 1 .. Len(sent) /\ Len(sent) \in Nat /\ upto \in Nat
             /\ lastSample = sent[got] /\ lastSample \in Sample
             /\ record.data \in Seq(Sample)
             /\ record \in [data : Seq(Sample), startError : BOOLEAN, endError : BOOLEAN, overflow : BOOLEAN]
             /\ pc = "finish" /\ pc' = "idle" /\ records' = Append(records, record')
             /\ UNCHANGED <<memory, full, stop, buffer, pos, lastSample, sent, got>>
             /\ record.overflow => n = Limit /\ ~sent[got].start /\ ~sent[got].end
             /\ ~record.overflow => sent[got].start \/ sent[got].end
  <1>1. pc = "finish" /\ Begun
    BY DEF Finish, StreamInv, ScanInv
  <1>2. /\ got \in 0 .. Len(sent) /\ upto \in 0 .. got /\ Len(sent) \in Nat /\ Len(record.data) \in Nat
        /\ record.data \in Seq(Sample) /\ lastSample \in Sample
        /\ record \in [data : Seq(Sample), startError : BOOLEAN, endError : BOOLEAN, overflow : BOOLEAN]
    BY DEF StreamInv, TypeOK
  <1>3. Len(record.data) > 0 /\ Len(record.data) <= Limit /\ Limit \in Nat
    BY <1>1, SizeAssumption DEF StreamInv, ScanInv, Begun
  <1>4. First = got - Len(record.data) /\ First \in upto + 1 .. got /\ First \in Nat
    BY <1>1, <1>2 DEF Begun, First
  <1>5. First < got /\ got \in 1 .. Len(sent)
    BY <1>2, <1>3, <1>4
  <1>6. lastSample = sent[got]
    BY <1>5 DEF StreamInv, QueueInv
  <1>7. /\ record.overflow => Len(record.data) = Limit /\ ~sent[got].start /\ ~sent[got].end
        /\ ~record.overflow => sent[got].start \/ sent[got].end
    BY <1>1 DEF StreamInv, ScanInv
  <1>8. /\ pc' = "idle" /\ records' = Append(records, record')
        /\ UNCHANGED <<memory, full, stop, buffer, pos, lastSample, sent, got>>
    BY DEF Finish, dtb, source
  <1> QED BY <1>1, <1>2, <1>3, <1>4, <1>5, <1>6, <1>7, <1>8

\* The data of the record are the samples of the DTB from its first to its last one.
LEMMA FinishData ==
  ASSUME StreamInv, Finish
  PROVE  /\ upto' = IF lastSample.end THEN got ELSE got - 1
         /\ record'.data = SubSeq(sent, First, upto')
         /\ Len(record'.data) = upto' - First + 1 /\ upto' >= First
         /\ record'.data \in Seq(Sample)
         /\ \A x \in 1 .. Len(record'.data) : record'.data[x] = sent[First + x - 1]
         /\ record'.startError = record.startError /\ record'.overflow = record.overflow
         /\ record'.endError = ~lastSample.end
         /\ record' \in [data : Seq(Sample), startError : BOOLEAN, endError : BOOLEAN, overflow : BOOLEAN]
  <1> DEFINE n == Len(record.data)
  <1>1. /\ Begun /\ n \in Nat /\ n > 0
        /\ First = got - n /\ First \in Nat \ {0} /\ First < got
        /\ got \in 1 .. Len(sent) /\ Len(sent) \in Nat /\ lastSample = sent[got]
        /\ lastSample \in Sample /\ record.data \in Seq(Sample)
        /\ record \in [data : Seq(Sample), startError : BOOLEAN, endError : BOOLEAN, overflow : BOOLEAN]
    BY FinishFacts
  <1>2. sent \in Seq(Sample)
    BY DEF StreamInv, TypeOK
  <1>3. upto' = IF lastSample.end THEN got ELSE got - 1
    BY DEF Finish
  <1>4. upto' \in First .. Len(sent) /\ upto' \in Nat
    BY <1>1, <1>3
  <1>5. /\ SubSeq(sent, First, upto') \in Seq(Sample)
        /\ Len(SubSeq(sent, First, upto')) = upto' - First + 1
        /\ \A x \in 1 .. upto' - First + 1 : SubSeq(sent, First, upto')[x] = sent[First + x - 1]
    <2>1. \A x \in First .. upto' : sent[x] \in Sample
      BY <1>1, <1>2, <1>4
    <2>2. First \in Int /\ upto' \in Int
      BY <1>1, <1>4
    <2> DEFINE i == First
               j == upto'
    <2>3. i \in Int /\ j \in Int /\ i <= j /\ \A x \in i .. j : sent[x] \in Sample
      BY <1>4, <2>1, <2>2
    <2>4. /\ SubSeq(sent, i, j) \in Seq(Sample)
          /\ Len(SubSeq(sent, i, j)) = IF i <= j THEN j - i + 1 ELSE 0
          /\ \A x \in 1 .. j - i + 1 : SubSeq(sent, i, j)[x] = sent[i + x - 1]
      <3> HIDE DEF i, j
      <3> QED BY ONLY <1>2, <2>3, SubSeqProperties
    <2> QED BY <2>3, <2>4
  <1>6. /\ record'.data \in Seq(Sample) /\ Len(record'.data) = upto' - First + 1
        /\ \A x \in 1 .. Len(record'.data) : record'.data[x] = sent[First + x - 1]
        /\ record'.startError = record.startError /\ record'.overflow = record.overflow
        /\ record'.endError = ~lastSample.end
        /\ record' \in [data : Seq(Sample), startError : BOOLEAN, endError : BOOLEAN, overflow : BOOLEAN]
    <2>1. \A x \in 1 .. n : record.data[x] = sent[First + x - 1]
      BY <1>1 DEF Begun
    <2>2. CASE lastSample.end
      <3>1. record' = [record EXCEPT !.data = Append(@, lastSample)]
        BY <2>2 DEF Finish
      <3>2. /\ record'.data = Append(record.data, lastSample)
            /\ record'.startError = record.startError /\ record'.overflow = record.overflow
            /\ record'.endError = record.endError
        BY <1>1, <3>1
      <3>3. /\ Append(record.data, lastSample) \in Seq(Sample)
            /\ Len(Append(record.data, lastSample)) = n + 1
            /\ \A x \in 1 .. n : Append(record.data, lastSample)[x] = record.data[x]
            /\ Append(record.data, lastSample)[n + 1] = lastSample
        BY <1>1
      <3>4. upto' - First + 1 = n + 1 /\ First + (n + 1) - 1 = got
        BY <1>1, <1>3, <2>2
      <3>5. ASSUME NEW x \in 1 .. n + 1 PROVE Append(record.data, lastSample)[x] = sent[First + x - 1]
        <4>1. CASE x \in 1 .. n
          BY <2>1, <3>3, <4>1
        <4>2. CASE x = n + 1
          BY <1>1, <3>3, <3>4, <4>2
        <4> QED BY <1>1, <4>1, <4>2
      <3>6. record'.endError = FALSE
        BY <1>1, <3>2 DEF Begun
      <3>7. record' \in [data : Seq(Sample), startError : BOOLEAN, endError : BOOLEAN, overflow : BOOLEAN]
        BY <1>1, <3>1, <3>3
      <3> QED BY <2>2, <3>2, <3>3, <3>4, <3>5, <3>6, <3>7
    <2>3. CASE ~lastSample.end
      <3>1. record' = [record EXCEPT !.endError = TRUE]
        BY <2>3 DEF Finish
      <3>2. /\ record'.data = record.data /\ record'.endError = TRUE
            /\ record'.startError = record.startError /\ record'.overflow = record.overflow
        BY <1>1, <3>1
      <3>3. upto' - First + 1 = n
        BY <1>1, <1>3, <2>3
      <3>4. record' \in [data : Seq(Sample), startError : BOOLEAN, endError : BOOLEAN, overflow : BOOLEAN]
        BY <1>1, <3>1
      <3> QED BY <1>1, <2>1, <2>3, <3>2, <3>3, <3>4
    <2> QED BY <2>2, <2>3
  <1>7. record'.data = SubSeq(sent, First, upto')
    <2> DEFINE s == record'.data
               t == SubSeq(sent, First, upto')
    <2>1. s \in Seq(Sample) /\ t \in Seq(Sample) /\ Len(s) = Len(t)
      BY <1>5, <1>6
    <2>2. \A x \in 1 .. Len(s) : s[x] = t[x]
      BY <1>5, <1>6
    <2>3. s = t
      <3> HIDE DEF s, t
      <3> QED BY ONLY <2>1, <2>2, SeqEqual
    <2> QED BY <2>3
  <1> QED BY <1>3, <1>4, <1>6, <1>7

LEMMA FinishKeeps ==
  ASSUME StreamInv, Finish
  PROVE  StreamInv'
  <1>1. /\ First \in upto + 1 .. got /\ First \in Nat /\ First < got /\ First = got - Len(record.data)
        /\ Len(record.data) <= Limit /\ Limit \in Nat /\ Len(record.data) \in Nat
        /\ got \in 1 .. Len(sent) /\ pc' = "idle" /\ upto \in Nat
        /\ UNCHANGED <<memory, full, stop, buffer, pos, lastSample, sent, got>>
    BY FinishFacts
  <1>2. /\ upto' = IF lastSample.end THEN got ELSE got - 1
        /\ Len(record'.data) = upto' - First + 1 /\ upto' >= First
        /\ record' \in [data : Seq(Sample), startError : BOOLEAN, endError : BOOLEAN, overflow : BOOLEAN]
    BY FinishData
  <1>3. upto' \in 0 .. got /\ Len(record'.data) <= Limit + 1
    <2> DEFINE i == First
               n == Len(record.data)
               m == Len(record'.data)
    <2>1. i = got - n /\ n <= Limit /\ n \in Nat /\ Limit \in Nat /\ got \in Nat /\ got > 0
      BY <1>1
    <2>2. m = upto' - i + 1
      BY <1>2
    <2>3. upto' = IF lastSample.end THEN got ELSE got - 1
      BY <1>2
    <2> HIDE DEF i, n, m
    <2>4. upto' \in 0 .. got /\ m <= Limit + 1
      <3>1. CASE lastSample.end
        <4>1. upto' = got
          BY <2>3, <3>1
        <4> QED BY <2>1, <2>2, <4>1
      <3>2. CASE ~lastSample.end
        <4>1. upto' = got - 1
          BY <2>3, <3>2
        <4> QED BY <2>1, <2>2, <4>1
      <3> QED BY <3>1, <3>2
    <2> QED BY <2>4 DEF m
  <1>4. TypeOK'
    BY <1>1, <1>2, <1>3 DEF StreamInv, TypeOK
  <1>5. QueueInv'
    BY <1>1 DEF StreamInv, QueueInv
  <1>6. ScanInv'
    BY <1>1, <1>2 DEF ScanInv
  <1> QED BY <1>4, <1>5, <1>6 DEF StreamInv

LEMMA StepInv ==
  ASSUME StreamInv, [Next]_vars
  PROVE  StreamInv'
  <1>1. CASE UNCHANGED vars
    <2>1. UNCHANGED <<memory, full, stop, buffer, pos, lastSample, pc, record, sent, got, upto>>
      BY <1>1 DEF vars, dtb, source, scanner
    <2> QED BY <2>1, ScanFrame DEF StreamInv, TypeOK, QueueInv
  <1>2. CASE Fill \/ Stop
    <2>1. UNCHANGED <<memory, buffer, pos, lastSample, pc, record, sent, got, upto>>
          /\ full' \in BOOLEAN /\ stop' \in BOOLEAN
      BY <1>2 DEF Fill, Stop, source, scanner, StreamInv, TypeOK
    <2> QED BY <2>1, ScanFrame DEF StreamInv, TypeOK, QueueInv
  <1> QED
    BY <1>1, <1>2, SendKeeps, PullKeeps, EmptyKeeps, ReadKeeps, BeginKeeps, CollectKeeps, FinishKeeps
       DEF Next, Get, Scan

-----------------------------------------------------------------------------
(* The theorems *)

\* The scanner's record is the one that the marks define.
LEMMA FinishDelivers ==
  ASSUME StreamInv, Finish
  PROVE  F!Deliver
  <1> DEFINE n == Len(record.data)   i == First   j == upto'
  <1>1. /\ Begun /\ n \in Nat /\ n > 0 /\ n <= Limit /\ Limit \in Nat
        /\ i = got - n /\ i \in upto + 1 .. got /\ i \in Nat /\ i < got
        /\ got \in 1 .. Len(sent) /\ Len(sent) \in Nat /\ upto \in Nat
        /\ lastSample = sent[got] /\ lastSample \in Sample
        /\ records' = Append(records, record') /\ UNCHANGED sent
        /\ record.overflow => n = Limit /\ ~sent[got].start /\ ~sent[got].end
        /\ ~record.overflow => sent[got].start \/ sent[got].end
        /\ record.overflow \in BOOLEAN
    BY FinishFacts
  <1>2. /\ j = IF lastSample.end THEN got ELSE got - 1
        /\ record'.data = SubSeq(sent, i, j) /\ j >= i
        /\ record'.startError = record.startError /\ record'.overflow = record.overflow
        /\ record'.endError = ~lastSample.end
        /\ record' \in [data : Seq(Sample), startError : BOOLEAN, endError : BOOLEAN, overflow : BOOLEAN]
    BY FinishData
  <1>3. /\ sent[i].start /\ \A x \in upto + 1 .. i - 1 : ~sent[x].start
        /\ \A x \in i + 1 .. got - 1 : ~sent[x].start /\ ~sent[x].end
        /\ record.startError = (i # upto + 1)
    BY <1>1 DEF Begun
  <1>4. i \in upto + 1 .. Len(sent) /\ j \in i .. Len(sent) /\ j \in Nat
    BY <1>1, <1>2
  <1> HIDE DEF n, i, j
  <1>5. F!Begins(i)
    BY <1>3 DEF F!Begins
  <1>6. F!Ended(i, j) <=> lastSample.end
    <2>1. CASE lastSample.end
      BY <1>1, <1>2, <1>3, <2>1 DEF F!Ended, F!Bare
    <2>2. CASE ~lastSample.end
      <3>1. j = got - 1 /\ (i < j => ~sent[j].end)
        BY <1>1, <1>2, <1>3, <2>2
      <3> QED BY <2>2, <3>1 DEF F!Ended
    <2> QED BY <2>1, <2>2
  <1>7. F!Overlong(i, j) <=> record.overflow
    <2>1. CASE record.overflow
      <3>1. j = got - 1 /\ j - i = Limit - 1 /\ j < Len(sent)
        BY <1>1, <1>2, <2>1
      <3>2. F!Bare(i + 1, j + 1)
        <4> SUFFICES ASSUME NEW x \in i + 1 .. j + 1 PROVE ~sent[x].start /\ ~sent[x].end
          BY DEF F!Bare
        <4>1. x = got \/ x \in i + 1 .. got - 1
          BY <1>1, <3>1
        <4> QED BY <1>1, <1>3, <2>1, <4>1
      <3> QED BY <2>1, <3>1, <3>2 DEF F!Overlong
    <2>2. CASE ~record.overflow
      <3>1. CASE lastSample.end
        <4>1. j = got /\ j \in i + 1 .. j + 1 /\ sent[j].end
          BY <1>1, <1>2, <1>4, <3>1
        <4> QED BY <2>2, <4>1 DEF F!Overlong, F!Bare
      <3>2. CASE ~lastSample.end
        <4>1. j + 1 = got /\ got \in i + 1 .. j + 1 /\ sent[got].start
          BY <1>1, <1>2, <1>4, <2>2, <3>2
        <4> QED BY <2>2, <4>1 DEF F!Overlong, F!Bare
      <3> QED BY <3>1, <3>2
    <2> QED BY <2>1, <2>2
  <1>8. F!Ended(i, j) \/ F!Unended(i, j) \/ F!Overlong(i, j)
    <2>1. CASE ~lastSample.end /\ ~record.overflow
      <3>1. j = got - 1 /\ j < Len(sent) /\ j - i < Limit /\ sent[j + 1].start /\ ~sent[j + 1].end
        BY <1>1, <1>2, <1>4, <2>1
      <3>2. F!Bare(i + 1, j)
        BY <1>3, <3>1 DEF F!Bare
      <3> QED BY <3>1, <3>2 DEF F!Unended
    <2> QED BY <1>6, <1>7, <2>1
  <1>9. record' = F!Record(i, j)
    <2>1. record' = [data |-> record'.data, startError |-> record'.startError,
                     endError |-> record'.endError, overflow |-> record'.overflow]
      BY <1>2
    <2>2. record'.endError = ~F!Ended(i, j) /\ record'.overflow = F!Overlong(i, j)
          /\ record'.startError = (i # upto + 1)
      BY <1>1, <1>2, <1>3, <1>6, <1>7, Zenon DEF F!Ended, F!Overlong, F!Bare
    <2> QED BY <1>2, <2>1, <2>2 DEF F!Record
  <1>10. upto' = j
    BY DEF j
  <1> QED BY <1>1, <1>4, <1>5, <1>8, <1>9, <1>10 DEF F!Deliver

\* Each step of the pipe is one of Framing, or none.
LEMMA StepFrames ==
  ASSUME StreamInv, [Next]_vars
  PROVE  [F!Next]_<<sent, upto, records>>
  <1>1. CASE UNCHANGED vars
    BY <1>1 DEF vars
  <1>2. ASSUME NEW start \in BOOLEAN, NEW end \in BOOLEAN, Send(start, end) PROVE F!Next
    <2> DEFINE s == [id |-> Len(sent) + 1, start |-> start, end |-> end]
    <2>1. sent' = Append(sent, s) /\ UNCHANGED <<upto, records>>
      BY <1>2 DEF Send
    <2>2. sent \in Seq(Sample) /\ s \in Sample
      BY DEF StreamInv, TypeOK, Sample
    <2> HIDE DEF s
    <2>3. sent' \in Seq(F!Sample) /\ Len(sent') = Len(sent) + 1
          /\ \A x \in 1 .. Len(sent) : sent'[x] = sent[x]
      BY <2>1, <2>2 DEF F!Sample, Sample
    <2> QED BY <2>1, <2>3 DEF F!Next, F!Send
  <1>3. CASE Fill \/ Stop
    BY <1>3 DEF Fill, Stop
  <1>4. CASE GetBuffered \/ FillBuffer
    BY <1>4, Pull
  <1>5. CASE FillNothing \/ Throw
    BY <1>5, EmptyKeeps
  <1>6. CASE Finish
    BY <1>6, FinishDelivers DEF F!Next
  <1> QED
    BY <1>1, <1>2, <1>3, <1>4, <1>5, <1>6, ReadKeeps, BeginKeeps, CollectKeeps DEF Next, Get, Scan

\* Wherever the blocks end, however long they and the records may be: the records are the
\* samples of the DTB, cut at their marks.
THEOREM StreamImplementsFraming == Spec => ImplementsFraming
  <1>1. Init => F!Init
    BY DEF Init, F!Init
  <1>2. Init => StreamInv
    BY InitInv
  <1>3. StreamInv /\ [Next]_vars => StreamInv'
    BY StepInv
  <1>4. StreamInv /\ [Next]_vars => [F!Next]_<<sent, upto, records>>
    BY StepFrames
  <1> QED BY <1>1, <1>2, <1>3, <1>4, PTL DEF Spec, ImplementsFraming, F!Spec

\* What CleanIsWhole says of one record.
Whole(r) ==
  ~r.startError /\ ~r.endError /\ ~r.overflow =>
    /\ Len(r.data) > 1 /\ r.data[1].start /\ r.data[Len(r.data)].end
    /\ \A x \in 1 .. Len(r.data) - 1 : r.data[x + 1].id = r.data[x].id + 1
    /\ \A x \in 2 .. Len(r.data) - 1 : ~r.data[x].start /\ ~r.data[x].end

LEMMA FinishWhole ==
  ASSUME StreamInv, Finish
  PROVE  Whole(record')
  <1> SUFFICES ASSUME ~record'.endError
      PROVE  /\ Len(record'.data) > 1 /\ record'.data[1].start /\ record'.data[Len(record'.data)].end
             /\ \A x \in 1 .. Len(record'.data) - 1 : record'.data[x + 1].id = record'.data[x].id + 1
             /\ \A x \in 2 .. Len(record'.data) - 1 : ~record'.data[x].start /\ ~record'.data[x].end
    BY DEF Whole
  <1> DEFINE i == First   d == record'.data   n == Len(record'.data)
  <1>1. /\ Begun /\ i \in Nat \ {0} /\ i < got /\ got \in 1 .. Len(sent) /\ got \in Nat
        /\ Len(sent) \in Nat /\ lastSample = sent[got]
    BY FinishFacts
  <1>2. lastSample.end /\ upto' = got /\ n = got - i + 1
        /\ \A x \in 1 .. n : d[x] = sent[i + x - 1]
    BY FinishData
  <1>3. sent[i].start /\ \A x \in i + 1 .. got - 1 : ~sent[x].start /\ ~sent[x].end
    BY <1>1 DEF Begun
  <1>4. \A x \in 1 .. Len(sent) : sent[x].id = x
    BY DEF StreamInv, QueueInv
  <1> HIDE DEF i, d, n
  <1>5. n \in Nat /\ n > 1 /\ i + 1 - 1 = i /\ i + n - 1 = got
    BY <1>1, <1>2
  <1>6. d[1].start /\ d[n].end
    <2>1. d[1] = sent[i] /\ d[n] = sent[got]
      BY <1>2, <1>5
    <2> QED BY <1>1, <1>2, <1>3, <2>1
  <1>7. ASSUME NEW x \in 1 .. n - 1 PROVE d[x + 1].id = d[x].id + 1
    <2>1. d[x] = sent[i + x - 1] /\ d[x + 1] = sent[i + (x + 1) - 1]
      BY <1>2, <1>5
    <2>2. i + x - 1 \in 1 .. Len(sent) /\ i + (x + 1) - 1 \in 1 .. Len(sent)
      BY <1>1, <1>2, <1>5
    <2>3. sent[i + x - 1].id = i + x - 1 /\ sent[i + (x + 1) - 1].id = i + (x + 1) - 1
      BY <1>4, <2>2
    <2> QED BY <1>1, <2>1, <2>3
  <1>8. ASSUME NEW x \in 2 .. n - 1 PROVE ~d[x].start /\ ~d[x].end
    <2>1. d[x] = sent[i + x - 1] /\ i + x - 1 \in i + 1 .. got - 1
      BY <1>1, <1>2, <1>5
    <2> QED BY <1>3, <2>1
  <1> QED BY <1>5, <1>6, <1>7, <1>8 DEF d, n

\* The records are a sequence, and each of them is as CleanIsWhole says.
WholeInv == StreamInv /\ \E S : records \in Seq(S) /\ \A k \in 1 .. Len(records) : Whole(records[k])

LEMMA WholeStep ==
  ASSUME WholeInv, [Next]_vars
  PROVE  WholeInv'
  <1>1. StreamInv /\ StreamInv'
    BY StepInv DEF WholeInv
  <1>2. PICK S : records \in Seq(S) /\ \A k \in 1 .. Len(records) : Whole(records[k])
    BY DEF WholeInv
  <1>3. CASE UNCHANGED records
    BY <1>1, <1>2, <1>3 DEF WholeInv
  <1>4. CASE Finish
    <2> DEFINE T == S \cup {record'}
    <2>1. records' = Append(records, record') /\ Whole(record')
      BY <1>1, <1>4, FinishWhole DEF Finish
    <2>2. records \in Seq(T) /\ record' \in T
      BY <1>2
    <2> HIDE DEF T
    <2>3. /\ records' \in Seq(T) /\ Len(records') = Len(records) + 1 /\ Len(records) \in Nat
          /\ records'[Len(records) + 1] = record'
          /\ \A k \in 1 .. Len(records) : records'[k] = records[k]
      BY <2>1, <2>2
    <2>4. ASSUME NEW k \in 1 .. Len(records') PROVE Whole(records'[k])
      <3>1. CASE k = Len(records) + 1
        BY <2>1, <2>3, <3>1
      <3>2. CASE k # Len(records) + 1
        <4>1. k \in 1 .. Len(records) /\ records'[k] = records[k]
          BY <2>3, <3>2
        <4> QED BY <1>2, <4>1
      <3> QED BY <3>1, <3>2
    <2> QED BY <1>1, <2>3, <2>4 DEF WholeInv
  <1>5. CASE Fill \/ Stop \/ Read \/ Get \/ Begin \/ Collect \/ \E start, end \in BOOLEAN : Send(start, end)
    <2>1. UNCHANGED records
      BY <1>5 DEF Fill, Stop, Read, Get, GetBuffered, FillBuffer, FillNothing, Throw, Begin, Collect, Send
    <2> QED BY <1>3, <2>1
  <1>6. CASE UNCHANGED vars
    BY <1>3, <1>6 DEF vars
  <1> QED BY <1>4, <1>5, <1>6 DEF Next, Scan

\* A record whose flags say nothing is a whole event, from its start mark to its end mark.
THEOREM CleanCorrect == Spec => []CleanIsWhole
  <1>1. Init => WholeInv
    <2> SUFFICES ASSUME Init PROVE WholeInv
      OBVIOUS
    <2>1. records \in Seq({}) /\ Len(records) = 0
      BY DEF Init
    <2> QED BY <2>1, InitInv DEF WholeInv
  <1>2. WholeInv /\ [Next]_vars => WholeInv'
    BY WholeStep
  <1>3. WholeInv => CleanIsWhole
    BY DEF WholeInv, CleanIsWhole, Whole
  <1> QED BY <1>1, <1>2, <1>3, PTL DEF Spec

\* Samples, buffer and scanner keep their types; a record never holds more than its limit
\* and an end mark.
THEOREM TypeCorrect == Spec => []TypeOK
  <1>1. StreamInv => TypeOK
    BY DEF StreamInv
  <1> QED BY <1>1, InitInv, StepInv, PTL DEF Spec
=============================================================================
