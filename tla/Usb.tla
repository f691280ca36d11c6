-------------------------------- MODULE Usb --------------------------------
(***************************************************************************)
(* CUSB (usb.h, usb.cpp): the byte transport between the test program and  *)
(* the digital test board (DTB).  Writes are collected in m_bufferW and    *)
(* handed to the FTDI driver by Flush; reads are served from m_bufferR,    *)
(* which FillBuffer refills from the driver's receive queue with a call    *)
(* that blocks until enough bytes are there or the driver's timeout ends.  *)
(*                                                                         *)
(* A byte is its serial number: the n-th byte Write ever accepted, and the *)
(* n-th byte the DTB ever sent.  wbuf is m_bufferW[0 .. m_posW - 1] and    *)
(* rbuf is m_bufferR[m_posR .. m_sizeR - 1], the part not yet copied.      *)
(***************************************************************************)
EXTENDS Integers, Sequences

CONSTANTS
  WBUF,      \* USBWRITEBUFFERSIZE
  RBUF,      \* USBREADBUFFERSIZE
  MaxCall,   \* bound: largest size passed to Write or Read
  MaxWrote,  \* bound: bytes ever written by the program
  MaxSent    \* bound: bytes ever sent by the DTB

ASSUME BufferAssumption == WBUF \in Nat \ {0} /\ RBUF \in Nat \ {0}
ASSUME BoundAssumption  == MaxCall \in Nat /\ MaxWrote \in Nat /\ MaxSent \in Nat

VARIABLES
  isUSB_open,  \* CUSB::isUSB_open
  handle,      \* the driver holds an open handle of the device
  wbuf, rbuf,  \* unsent part of m_bufferW, unread part of m_bufferR
  pc,          \* where the program's thread stands inside CUSB
  todo,        \* bytes the running Write or Read still has to move
  ask,         \* bytesToRead of the FT_Read in progress
  done,        \* Read's local: "these bytes will never come"
  result,      \* how the last call ended
  rxq,         \* external: receive queue of the driver
  toDev,       \* history: bytes the driver has taken for the DTB
  got,         \* history: bytes Read has returned
  wrote, sent, \* history: serial number of the last byte of each direction
  lost,        \* history: written bytes that the driver never took
  taken,       \* history: bytes copied by the running or last Read
  gaveUp       \* history: bytes that a short Read has declared missing

calls == <<pc, todo, ask, done, result, taken>>
out   == <<wbuf, toDev, wrote, lost>>
in    == <<rbuf, rxq, got, sent, gaveUp>>
conn  == <<isUSB_open, handle>>
vars  == <<calls, out, in, conn>>

Results == {"none", "ok", "short", "failed", "WRITE_ERROR", "READ_ERROR", "READ_TIMEOUT"}

Least(a, b)    == IF a < b THEN a ELSE b
Greatest(a, b) == IF a > b THEN a ELSE b
First(s, n)    == SubSeq(s, 1, n)
Rest(s, n)     == SubSeq(s, n + 1, Len(s))
Elems(s)       == {s[i] : i \in 1 .. Len(s)}

Init ==
  /\ isUSB_open = FALSE /\ handle = FALSE
  /\ wbuf = <<>> /\ rbuf = <<>> /\ rxq = <<>> /\ toDev = <<>> /\ got = <<>>
  /\ pc = "idle" /\ todo = 0 /\ ask = 0 /\ done = FALSE /\ result = "none"
  /\ wrote = 0 /\ sent = 0 /\ lost = {} /\ taken = 0 /\ gaveUp = {}

\* The running call ends with outcome r, a return or a thrown CRpcError.
End(r) ==
  /\ pc' = "idle" /\ todo' = 0 /\ ask' = 0 /\ done' = FALSE /\ result' = r
  /\ UNCHANGED taken

-----------------------------------------------------------------------------
(* Connection *)

\* Mutant: the line "m_posR = m_sizeR = m_posW = 0" is missing.
OpenKeepsBuffers ==
  /\ pc = "idle"
  /\ IF isUSB_open
       THEN End("failed") /\ UNCHANGED conn
       ELSE \/ ~handle /\ handle' = TRUE /\ isUSB_open' = TRUE /\ End("ok")
            \/ UNCHANGED conn /\ End("failed")
  /\ UNCHANGED <<out, in>>

\* Open on an open CUSB is refused; otherwise the buffers are reset first, and
\* a failure after FT_OpenEx leaves the driver's handle open behind it.
Open ==
  /\ pc = "idle"
  /\ IF isUSB_open
       THEN End("failed") /\ UNCHANGED <<out, in, conn>>
       ELSE /\ rbuf' = <<>> /\ wbuf' = <<>>
            /\ lost' = lost \cup Elems(wbuf)
            /\ \/ ~handle /\ handle' = TRUE /\ isUSB_open' = TRUE /\ End("ok")
               \/ ~handle /\ handle' = TRUE /\ UNCHANGED isUSB_open /\ End("failed")
               \/ UNCHANGED conn /\ End("failed")
            /\ UNCHANGED <<toDev, wrote, rxq, got, sent, gaveUp>>

\* FT_Close; what the driver had queued may be dropped with the handle.
Close ==
  /\ pc = "idle"
  /\ IF isUSB_open
       THEN /\ isUSB_open' = FALSE /\ handle' = FALSE
            /\ rxq' \in {rxq, <<>>}
       ELSE UNCHANGED <<conn, rxq>>
  /\ End("ok")
  /\ UNCHANGED <<out, rbuf, got, sent, gaveUp>>

\* The status of FT_Purge is not looked at: the driver's queue may stay as it is.
Clear ==
  /\ pc = "idle"
  /\ IF isUSB_open
       THEN /\ rxq' \in {rxq, <<>>} /\ rbuf' = <<>> /\ wbuf' = <<>>
            /\ lost' = lost \cup Elems(wbuf)
       ELSE UNCHANGED <<rxq, rbuf, wbuf, lost>>
  /\ End("ok")
  /\ UNCHANGED <<conn, toDev, wrote, got, sent, gaveUp>>

-----------------------------------------------------------------------------
(* Writing *)

WriteCall(n) ==
  /\ pc = "idle" /\ wrote + n <= MaxWrote
  /\ IF isUSB_open
       THEN pc' = "write" /\ todo' = n /\ UNCHANGED <<ask, done, result, taken>>
       ELSE End("WRITE_ERROR")
  /\ UNCHANGED <<out, in, conn>>

\* Mutant: the buffer limit is off by one.
WritePutOneMore ==
  /\ pc = "write" /\ todo > 0 /\ Len(wbuf) <= WBUF
  /\ wbuf' = Append(wbuf, wrote + 1)
  /\ wrote' = wrote + 1
  /\ todo' = todo - 1
  /\ UNCHANGED <<pc, ask, done, result, taken, toDev, lost, in, conn>>

WritePut ==
  /\ pc = "write" /\ todo > 0 /\ Len(wbuf) < WBUF
  /\ wbuf' = Append(wbuf, wrote + 1)
  /\ wrote' = wrote + 1
  /\ todo' = todo - 1
  /\ UNCHANGED <<pc, ask, done, result, taken, toDev, lost, in, conn>>

WriteReturn ==
  /\ pc = "write" /\ todo = 0
  /\ End("ok")
  /\ UNCHANGED <<out, in, conn>>

\* Flush empties m_bufferW before it looks at anything else; FT_Write may fail,
\* or take fewer bytes than it was given.
FlushDone ==
  /\ wbuf' = <<>>
  /\ toDev' = toDev \o wbuf
  /\ UNCHANGED <<wrote, lost>>

\* Mutants: m_posW is reset only after a complete FT_Write; or it is set to the
\* number of bytes FT_Write took.
FlushErrorKeeps ==
  /\ \E k \in 0 .. Len(wbuf) : toDev' = toDev \o First(wbuf, k)
  /\ UNCHANGED <<wbuf, wrote, lost>>

FlushErrorTorn ==
  /\ \E k \in 0 .. Len(wbuf) :
       /\ toDev' = toDev \o First(wbuf, k)
       /\ wbuf' = First(wbuf, k)
       /\ lost' = lost \cup Elems(Rest(wbuf, k))
  /\ UNCHANGED wrote

FlushError ==
  /\ wbuf' = <<>>
  /\ \E k \in 0 .. Len(wbuf) :
       /\ toDev' = toDev \o First(wbuf, k)
       /\ lost'  = lost \cup Elems(Rest(wbuf, k))
  /\ UNCHANGED wrote

\* Write flushes a full buffer before it stores the next byte; an error of
\* that Flush ends the Write.
WriteFlush ==
  /\ pc = "write" /\ todo > 0 /\ Len(wbuf) >= WBUF
  /\ \/ FlushDone /\ UNCHANGED calls
     \/ FlushError /\ End("WRITE_ERROR")
  /\ UNCHANGED <<in, conn>>

\* Mutant: no check of isUSB_open.
FlushUnchecked ==
  /\ pc = "idle"
  /\ \/ FlushDone /\ End("ok")
     \/ wbuf # <<>> /\ FlushError /\ End("WRITE_ERROR")
  /\ UNCHANGED <<in, conn>>

Flush ==
  /\ pc = "idle"
  /\ IF isUSB_open
       THEN \/ FlushDone /\ End("ok")
            \/ wbuf # <<>> /\ FlushError /\ End("WRITE_ERROR")
       ELSE /\ wbuf' = <<>> /\ lost' = lost \cup Elems(wbuf)
            /\ End("WRITE_ERROR")
            /\ UNCHANGED <<toDev, wrote>>
  /\ UNCHANGED <<in, conn>>

-----------------------------------------------------------------------------
(* Reading *)

ReadCall(n) ==
  /\ pc = "idle"
  /\ IF isUSB_open
       THEN /\ pc' = "read" /\ todo' = n /\ taken' = 0
            /\ UNCHANGED <<ask, done, result>>
       ELSE End("READ_ERROR")
  /\ UNCHANGED <<out, in, conn>>

ReadCopy ==
  /\ pc = "read" /\ todo > 0 /\ rbuf # <<>>
  /\ got'  = Append(got, Head(rbuf))
  /\ rbuf' = Tail(rbuf)
  /\ todo' = todo - 1
  /\ taken' = taken + 1
  /\ UNCHANGED <<pc, ask, done, result, rxq, sent, gaveUp, out, conn>>

ReadReturn ==
  /\ pc = "read" /\ todo = 0
  /\ End("ok")
  /\ UNCHANGED <<out, in, conn>>

\* The break of Read's loop: the refill was short, the rest is given up and the
\* caller is not told.  The bytes given up are the next ones on the line.
ReadBreak ==
  /\ pc = "read" /\ todo > 0 /\ rbuf = <<>> /\ done
  /\ End("short")
  /\ gaveUp' = gaveUp \cup {got[Len(got)] + j : j \in 1 .. todo}
  /\ UNCHANGED <<rbuf, rxq, got, sent, out, conn>>

Wanted == Least(todo, RBUF)    \* n of Read, minBytesToRead of FillBuffer

\* FillBuffer up to FT_Read: the queue length is sampled, FT_Read starts.
FillStart ==
  /\ pc = "read" /\ todo > 0 /\ rbuf = <<>> /\ ~done
  /\ pc' = "fill"
  /\ ask' = Least(Greatest(Len(rxq), Wanted), RBUF)
  /\ UNCHANGED <<todo, done, result, taken, out, in, conn>>

\* FT_GetQueueStatus fails.
FillRefused ==
  /\ pc = "read" /\ todo > 0 /\ rbuf = <<>> /\ ~done
  /\ End("READ_ERROR")
  /\ UNCHANGED <<out, in, conn>>

\* Mutants: a refill that got exactly what it wanted counts as short; a time-out
\* without data starts another wait.
FillTakesShort(k) ==
  /\ rbuf' = First(rxq, k)
  /\ rxq'  = Rest(rxq, k)
  /\ IF k = 0
       THEN End("READ_TIMEOUT")
       ELSE /\ pc' = "read" /\ ask' = 0 /\ done' = (k <= Wanted)
            /\ UNCHANGED <<todo, result, taken>>
  /\ UNCHANGED <<got, sent, gaveUp, out, conn>>

FillTakesRetry(k) ==
  /\ rbuf' = First(rxq, k)
  /\ rxq'  = Rest(rxq, k)
  /\ pc' = "read" /\ ask' = 0 /\ done' = (k > 0 /\ k < Wanted)
  /\ UNCHANGED <<todo, result, taken, got, sent, gaveUp, out, conn>>

\* FT_Read hands over k bytes.  None at all is a timeout error; fewer than
\* Wanted sets done.
FillTakes(k) ==
  /\ rbuf' = First(rxq, k)
  /\ rxq'  = Rest(rxq, k)
  /\ IF k = 0
       THEN End("READ_TIMEOUT")
       ELSE /\ pc' = "read" /\ ask' = 0 /\ done' = (k < Wanted)
            /\ UNCHANGED <<todo, result, taken>>
  /\ UNCHANGED <<got, sent, gaveUp, out, conn>>

FillFull    == pc = "fill" /\ Len(rxq) >= ask /\ FillTakes(ask)
FillTimeout == pc = "fill" /\ Len(rxq) < ask  /\ FillTakes(Len(rxq))

\* Mutants: m_sizeR keeps its old value while m_posR is 0; or the status of
\* FT_Read is ignored.
FillErrorStale ==
  /\ pc = "fill"
  /\ \E k \in 0 .. Least(ask, Len(rxq)) : rxq' = Rest(rxq, k)
  /\ rbuf' = IF got = <<>> THEN <<>> ELSE <<got[Len(got)]>>
  /\ End("READ_ERROR")
  /\ UNCHANGED <<got, sent, gaveUp, out, conn>>

FillErrorIgnored ==
  /\ pc = "fill"
  /\ \E k \in 0 .. Least(ask, Len(rxq)) : rxq' = Rest(rxq, k)
  /\ rbuf' = <<>> /\ pc' = "read" /\ ask' = 0
  /\ UNCHANGED <<todo, done, result, taken, got, sent, gaveUp, out, conn>>

\* FT_Read fails: m_sizeR is cleared, whatever the driver had copied is gone.
FillError ==
  /\ pc = "fill"
  /\ \E k \in 0 .. Least(ask, Len(rxq)) : rxq' = Rest(rxq, k)
  /\ rbuf' = <<>>
  /\ End("READ_ERROR")
  /\ UNCHANGED <<got, sent, gaveUp, out, conn>>

-----------------------------------------------------------------------------
\* External: the DTB sends a byte at any time, also while FT_Read waits.
DevSend ==
  /\ sent < MaxSent
  /\ sent' = sent + 1
  /\ rxq' = Append(rxq, sent + 1)
  /\ UNCHANGED <<calls, out, conn, rbuf, got, gaveUp>>

WriteStep == WritePut \/ WriteReturn \/ WriteFlush
ReadStep  == \/ ReadCopy \/ ReadReturn \/ ReadBreak
             \/ FillStart \/ FillRefused \/ FillFull \/ FillTimeout \/ FillError

Next ==
  \/ Open \/ Close \/ Clear \/ Flush
  \/ \E n \in 0 .. MaxCall : WriteCall(n) \/ ReadCall(n)
  \/ WriteStep \/ ReadStep \/ DevSend

Spec == Init /\ [][Next]_vars

\* The thread inside CUSB keeps running, and the driver's timeout elapses.
\* Nothing is assumed of the DTB or of the caller.
FairSpec == Spec /\ WF_vars(WriteStep) /\ WF_vars(ReadStep)

-----------------------------------------------------------------------------
(* Properties *)

TypeOK ==
  /\ isUSB_open \in BOOLEAN /\ handle \in BOOLEAN
  /\ pc \in {"idle", "write", "read", "fill"}
  /\ todo \in Nat /\ ask \in Nat /\ done \in BOOLEAN /\ taken \in Nat
  /\ result \in Results
  /\ wbuf \in Seq(Nat) /\ rbuf \in Seq(Nat) /\ rxq \in Seq(Nat)
  /\ toDev \in Seq(Nat) /\ got \in Seq(Nat)
  /\ wrote \in Nat /\ sent \in Nat
  /\ lost \subseteq Nat /\ gaveUp \subseteq Nat
  /\ Len(wbuf) <= WBUF /\ Len(rbuf) <= RBUF /\ ask <= RBUF

\* s is the block of consecutive serial numbers that ends with n.
EndsAt(s, n) == \A i \in 1 .. Len(s) : s[i] = n - Len(s) + i

Increasing(s) == \A i, j \in 1 .. Len(s) : i < j => s[i] < s[j]

\* What waits in m_bufferW is exactly the newest written bytes, in order: an
\* error inside Write or Flush never leaves a torn or stale piece behind.
WriteBufferIsNewest == EndsAt(wbuf, wrote)

\* While CUSB is open, the unread part of m_bufferR and the driver's queue are
\* one gap-free block: a refill never overlaps, drops or repeats bytes, whatever
\* calls failed before.  (After Close a rest may stay in m_bufferR that no longer
\* meets the queue; Open must not let a caller see it.)
InputIsContiguous ==
  /\ EndsAt(rxq, sent)
  /\ isUSB_open => EndsAt(rbuf, sent - Len(rxq))

\* The DTB receives bytes in program order, none twice, and a written byte is
\* delivered, still buffered, or in a block thrown away by a failed Flush, by
\* Clear or by a re-Open.
WritesAccounted ==
  /\ Increasing(toDev)
  /\ \A i \in 1 .. Len(toDev), j \in 1 .. Len(wbuf) : toDev[i] < wbuf[j]
  /\ Elems(toDev) \cap lost = {}
  /\ Elems(toDev) \cup Elems(wbuf) \cup lost = 1 .. wrote

\* Callers receive bytes in the order the DTB sent them, none twice, and
\* everything still to be read is newer than everything already read.
ReadsInOrder ==
  /\ Increasing(got)
  /\ \A i \in 1 .. Len(got) :
       got[i] <= sent - Len(rxq) - Len(rbuf)

\* The bytes of one Read are consecutive on the line, also when the Read ended
\* early: only its tail can be missing.
ReadIsContiguous ==
  /\ taken <= Len(got)
  /\ \A i \in Len(got) - taken + 1 .. Len(got) : got[i] = got[Len(got)] - Len(got) + i

\* A Read that returns normally without all its bytes got at least one byte,
\* and only after the driver's timeout: it is never short while the bytes it
\* wants are already in the driver's queue when FT_Read is entered.
ShortReadOnlyByTimeout ==
  [][pc = "fill" /\ pc' = "read" /\ done' => Len(rxq) < Wanted]_vars

\* A call outside a connection never touches the device: bytes reach the DTB
\* only while CUSB is open.
DeliveryNeedsOpen == [][toDev' # toDev => isUSB_open /\ handle]_vars

\* Every Write and every Read comes back, by return or by exception, even if
\* the DTB never sends another byte.
CallsReturn == (pc # "idle") ~> (pc = "idle")

\* usb.cpp:428, "these bytes will never come...": bytes that a short Read gave
\* up are not delivered to a later Read.
GivenUpNeverCome == Elems(got) \cap gaveUp = {}

\* The byte link CUSB implements.  What Close leaves in m_bufferR is not part of
\* it: it is out of every caller's reach until Open throws it away.
Unread == IF isUSB_open THEN rbuf \o rxq ELSE rxq
Link == INSTANCE ByteLink WITH outQ <- wbuf, inQ <- Unread

\* Every behaviour of CUSB, with its two buffers, its refills, time-outs and
\* errors, is one of two ordered streams that lose only whole tails of what was
\* written and only the oldest of what was sent.
ImplementsLink == Link!Spec
=============================================================================
