------------------------------ MODULE ByteLink ------------------------------
(***************************************************************************)
(* What CUSB promises to the RPC layer above it (the interface CRpcIo of   *)
(* rpc_io.h): two lossy but order-preserving byte streams.  Bytes written  *)
(* wait in one queue and leave it only as a whole: a prefix reaches the    *)
(* DTB, the rest is lost for good.  Bytes sent by the DTB are read in      *)
(* order; an error may lose the oldest of them, never one in the middle.   *)
(***************************************************************************)
EXTENDS Integers, Sequences

VARIABLES
  outQ, toDev,  \* written and waiting; taken for the DTB
  inQ, got,     \* sent by the DTB and unread; returned by Read
  wrote, sent   \* serial number of the last byte of each direction

vars == <<outQ, toDev, inQ, got, wrote, sent>>

Init ==
  /\ outQ = <<>> /\ toDev = <<>> /\ inQ = <<>> /\ got = <<>>
  /\ wrote = 0 /\ sent = 0

Put ==
  /\ wrote' = wrote + 1
  /\ outQ' = Append(outQ, wrote + 1)
  /\ UNCHANGED <<toDev, inQ, got, sent>>

\* One transfer to the device: the first k bytes arrive, the others are lost.
Transfer ==
  /\ \E k \in 0 .. Len(outQ) : toDev' = toDev \o SubSeq(outQ, 1, k)
  /\ outQ' = <<>>
  /\ UNCHANGED <<inQ, got, wrote, sent>>

Arrive ==
  /\ sent' = sent + 1
  /\ inQ' = Append(inQ, sent + 1)
  /\ UNCHANGED <<outQ, toDev, got, wrote>>

Get ==
  /\ inQ # <<>>
  /\ got' = Append(got, Head(inQ))
  /\ inQ' = Tail(inQ)
  /\ UNCHANGED <<outQ, toDev, wrote, sent>>

\* An error or a Close loses the oldest k unread bytes.
LoseOldest ==
  /\ \E k \in 0 .. Len(inQ) : inQ' = SubSeq(inQ, k + 1, Len(inQ))
  /\ UNCHANGED <<outQ, toDev, got, wrote, sent>>

\* Nothing waits for the device any longer, and the oldest k unread bytes are lost, all of
\* them if the driver does as it is told.
Purge ==
  /\ outQ' = <<>>
  /\ \E k \in 0 .. Len(inQ) : inQ' = SubSeq(inQ, k + 1, Len(inQ))
  /\ UNCHANGED <<toDev, got, wrote, sent>>

Next == Put \/ Transfer \/ Arrive \/ Get \/ LoseOldest \/ Purge

Spec == Init /\ [][Next]_vars
=============================================================================
