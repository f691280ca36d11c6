-------------------------------- MODULE Rpc --------------------------------
(***************************************************************************)
(* The remote procedure calls of CTestboard (rpc.h, rpc.cpp, rpc_calls.cpp)*)
(* over the byte link of module ByteLink.  A generated stub looks up the   *)
(* call id (asking the DTB with GetRpcCallId the first time), sends one    *)
(* request and, unless the function is void, flushes and reads the reply   *)
(* field by field with CUSB::Read.                                         *)
(*                                                                         *)
(* Requests travel as whole messages.  Replies travel as bytes, because a  *)
(* time-out may strike between any two of them; a byte carries, beside its *)
(* value, the number of the request it answers and whether a message       *)
(* starts with it.  Neither is visible to the code.  The DTB is external.  *)
(***************************************************************************)
EXTENDS Integers, Sequences, FiniteSets

CONSTANTS
  Fn,        \* the RPC functions of the program but the two fixed ones (index >= 2)
  Kind,      \* Kind[f]: "void", "value", "string" or "vector", the reply's form
  Tables,    \* call id tables a DTB may have: Tables[f] is f's id there, -1 if missing
  Payloads,  \* the data a reply may have, as sequences of bytes
  ElemSize,  \* sizeof(T) of the vectors
  IdSize,    \* bytes of GetRpcCallId's result, 4 in the code
  ParSize,   \* ParSize[f]: bytes of the results in the command message of f's reply
  Base,      \* values of a length byte, 256 in the code
  Faults,    \* whether reads fail and the program is killed
  MaxCalls,  \* bound: calls started
  MaxOpens   \* bound: connections opened

Kinds == {"void", "value", "string", "vector"}

ASSUME FnAssumption ==
  /\ Fn \subseteq Nat \ {0, 1} /\ IsFiniteSet(Fn)
  /\ Kind \in [Fn -> Kinds]
  /\ Tables \subseteq [Fn -> {-1} \cup (Nat \ {0, 1})]
  /\ \A t \in Tables : \A f, g \in Fn : t[f] = t[g] /\ t[f] # -1 => f = g
ASSUME SizeAssumption ==
  /\ Payloads \subseteq Seq(0 .. Base - 1) /\ ElemSize \in Nat \ {0}
  /\ IdSize \in 1 .. 4 /\ ParSize \in [Fn -> Nat] /\ Base \in Nat \ {0, 1}
  /\ Faults \in BOOLEAN /\ MaxCalls \in Nat /\ MaxOpens \in Nat

VARIABLES
  connected,  \* CUSB::isUSB_open
  cache,      \* rpc_cmdId, for the functions of Fn
  stage,      \* what the running stub reads or does next
  fn, outer,  \* function whose reply is read; the stub that waits for its call id
  rest,       \* bytes the next Read asks for
  mcmd, par,  \* m_cmd and m_par of the message received
  data,       \* bytes of the data message
  result,     \* how the last call ended
  link,       \* functions RpcLink has still to look up
  linking,    \* RpcLink is running
  missing,    \* RpcLink's local: error
  verdict,    \* what the last RpcLink returned
  outQ,       \* requests in m_bufferW
  devQ,       \* external: requests the DTB has not executed
  devId,      \* external: the DTB's call id table
  pend, inq,  \* external: reply bytes on their way; within reach of Read
  k,          \* history: number of the last request
  own,        \* history: number of the request of the running or last call
  calls, opens, \* history: calls and connections so far
  exec,       \* history: what the DTB executed
  dirty,      \* history: replies may be out of step since a failed read or a kill
  suspect,    \* history: an id was looked up while dirty
  atStart     \* history: the message being read was read from its first byte on

client  == <<cache, stage, fn, outer, rest, mcmd, par, data, result, own>>
linker  == <<link, linking, missing, verdict>>
device  == <<devQ, devId, pend, exec>>
marks   == <<calls, opens, dirty, suspect, atStart>>
vars    == <<connected, client, linker, device, outQ, inq, k, marks>>

\* Message types; only the first two are ever sent by the DTB.
RPC_TYPE_DTB          == 192
RPC_TYPE_DTB_DATA     == 194
RPC_TYPE_DTB_DATA_OLD == 193
MessageTypes == {RPC_TYPE_DTB, RPC_TYPE_DTB_DATA, RPC_TYPE_DTB_DATA_OLD}

GetRpcCallId == 1   \* the one function whose id, 1, is never looked up

First(s, n) == SubSeq(s, 1, n)
Skip(s, n)  == SubSeq(s, n + 1, Len(s))

\* Little-endian numbers of up to four bytes, as Put_INT32 and Read on the little-endian
\* PC have them.
Weight       == <<1, Base, Base * Base, Base * Base * Base>>
Encode(x, n) == [i \in 1 .. n |-> (x \div Weight[i]) % Base]
Decode(s)    == LET part(i) == IF i <= Len(s) THEN s[i].v * Weight[i] ELSE 0
                IN  part(1) + part(2) + part(3) + part(4)

AllOnes == Weight[IdSize] * Base - 1   \* the bytes of the int32_t -1
\* Ids are sent in IdSize bytes, and fit in the two bytes of m_cmd; lengths of data have three.
ASSUME WidthAssumption ==
  /\ \A t \in Tables : \A f \in Fn : t[f] < AllOnes /\ t[f] < Base * Base
  /\ \A d \in Payloads : Len(d) < Base * Base * Base

AsId(x) == IF x = AllOnes THEN -1 ELSE x

Byte(v, req, first) == [v |-> v, k |-> req, first |-> first]
Id(f)      == IF f = GetRpcCallId THEN 1 ELSE cache[f]
Size(f)    == IF f = GetRpcCallId THEN IdSize ELSE ParSize[f]
\* Mutant: a stub with a string result does not call rpc_Receive.
HasDataVector(f) == f # GetRpcCallId /\ Kind[f] = "vector"

HasData(f) == f # GetRpcCallId /\ Kind[f] \in {"string", "vector"}
Replies(f) == f = GetRpcCallId \/ Kind[f] # "void"

Init ==
  /\ connected = FALSE
  /\ cache = [f \in Fn |-> -1]
  /\ stage = "idle" /\ fn = 0 /\ outer = 0 /\ rest = 0
  /\ mcmd = 0 /\ par = <<>> /\ data = <<>> /\ result = "none" /\ own = 0
  /\ link = <<>> /\ linking = FALSE /\ missing = FALSE /\ verdict = "none"
  /\ outQ = <<>> /\ devQ = <<>> /\ devId \in Tables /\ pend = <<>> /\ inq = <<>>
  /\ k = 0 /\ calls = 0 /\ opens = 0 /\ exec = <<>>
  /\ dirty = FALSE /\ suspect = FALSE /\ atStart = TRUE

-----------------------------------------------------------------------------
(* Sending *)

Request(f, arg) == [id |-> Id(f), arg |-> arg, fn |-> f, k |-> k + 1]

\* Send of a void stub: the request stays in m_bufferW; if that is full, what was
\* there goes out first.
SendOnly(m) ==
  \/ outQ' = Append(outQ, m) /\ UNCHANGED devQ
  \/ outQ' = <<m>> /\ outQ # <<>> /\ devQ' = devQ \o outQ

\* Mutant: the request overtakes the buffered ones.
SendFirst(m) ==
  /\ outQ' = <<>>
  /\ devQ' = devQ \o <<m>> \o outQ

SendFlush(m) ==
  /\ outQ' = <<>>
  /\ devQ' = devQ \o Append(outQ, m)

\* Mutant: RpcLink's verdict is that of the last function.
LeaveLast(r) ==
  /\ stage' = "idle" /\ fn' = 0 /\ outer' = 0 /\ rest' = 0 /\ mcmd' = 0
  /\ result' = r
  /\ IF link # <<>>
       THEN link' = Tail(link) /\ missing' = (r # "ok")
       ELSE UNCHANGED <<link, missing>>
  /\ UNCHANGED <<linking, verdict>>

\* The running call ends: r is "ok" or the error thrown.  RpcLink catches the
\* error and goes on with the next function.
Leave(r) ==
  /\ stage' = "idle" /\ fn' = 0 /\ outer' = 0 /\ rest' = 0 /\ mcmd' = 0
  /\ result' = r
  /\ IF link # <<>>
       THEN link' = Tail(link) /\ missing' = (missing \/ r # "ok")
       ELSE UNCHANGED <<link, missing>>
  /\ UNCHANGED <<linking, verdict>>

\* The stub of f sends its request; a stub with a reply then waits for it.
SendRequest(f, arg) ==
  /\ k' = k + 1 /\ own' = k + 1 /\ par' = <<>> /\ data' = <<>>
  /\ IF Replies(f)
       THEN /\ SendFlush(Request(f, arg))
            /\ stage' = "type" /\ fn' = f /\ rest' = 1
            /\ UNCHANGED <<mcmd, result, linker>>
       ELSE /\ SendOnly(Request(f, arg))
            /\ Leave("ok")

-----------------------------------------------------------------------------
(* Calls *)

\* Mutant: rpc_GetCallId takes every entry of the cache for an id.
CallUnknown(f) ==
  /\ connected /\ stage = "idle" /\ ~linking /\ calls < MaxCalls
  /\ calls' = calls + 1
  /\ SendRequest(f, 0) /\ outer' = 0
  /\ UNCHANGED <<connected, cache, devId, pend, exec, inq, opens, dirty, suspect, atStart>>

\* rpc_GetCallId: the id is known, or GetRpcCallId asks for it first.
Call(f) ==
  /\ connected /\ stage = "idle" /\ ~linking /\ calls < MaxCalls
  /\ calls' = calls + 1
  /\ IF cache[f] >= 0
       THEN SendRequest(f, 0) /\ outer' = 0
       ELSE SendRequest(GetRpcCallId, f) /\ outer' = f
  /\ UNCHANGED <<connected, cache, devId, pend, exec, inq, opens, dirty, suspect, atStart>>

\* Without a connection Write throws before anything is sent.
CallClosed ==
  /\ ~connected /\ stage = "idle"
  /\ result' = "WRITE_ERROR"
  /\ UNCHANGED <<connected, cache, stage, fn, outer, rest, mcmd, par, data, own,
                 linker, device, outQ, inq, k, marks>>

\* CTestboard::RpcLink: every function is looked up, in order.
LinkStart ==
  /\ connected /\ stage = "idle" /\ ~linking /\ calls < MaxCalls
  /\ calls' = calls + 1
  /\ linking' = TRUE /\ missing' = FALSE /\ verdict' = "none"
  /\ link' \in {s \in [1 .. Cardinality(Fn) -> Fn] :
                \A i, j \in 1 .. Cardinality(Fn) : i < j => s[i] < s[j]}
  /\ UNCHANGED <<connected, client, device, outQ, inq, k, opens, dirty, suspect, atStart>>

\* Mutant: a function whose id is known is not passed over.
LinkStepStuck ==
  /\ linking /\ stage = "idle" /\ link # <<>>
  /\ IF cache[Head(link)] >= 0
       THEN UNCHANGED <<client, linker, devQ, outQ, k>>
       ELSE SendRequest(GetRpcCallId, Head(link)) /\ outer' = Head(link) /\ UNCHANGED cache
  /\ UNCHANGED <<connected, devId, pend, exec, inq, marks>>

LinkStep ==
  /\ linking /\ stage = "idle" /\ link # <<>>
  /\ IF cache[Head(link)] >= 0
       THEN /\ link' = Tail(link)
            /\ UNCHANGED <<client, linking, missing, verdict, devQ, outQ, k>>
       ELSE SendRequest(GetRpcCallId, Head(link)) /\ outer' = Head(link) /\ UNCHANGED cache
  /\ UNCHANGED <<connected, devId, pend, exec, inq, marks>>

LinkReturn ==
  /\ linking /\ stage = "idle" /\ link = <<>>
  /\ linking' = FALSE /\ verdict' = IF missing THEN "missing" ELSE "present"
  /\ UNCHANGED <<connected, client, link, missing, device, outQ, inq, k, marks>>

Flush ==
  /\ connected /\ stage = "idle" /\ ~linking /\ outQ # <<>>
  /\ devQ' = devQ \o outQ /\ outQ' = <<>>
  /\ UNCHANGED <<connected, client, linker, devId, pend, exec, inq, k, marks>>

\* The call id is there, or it is -1; RpcLink needs no more than that.
GotId ==
  /\ stage = "gotId"
  /\ IF cache[outer] < 0
       THEN Leave("UNKNOWN_CMD") /\ UNCHANGED <<par, data, own, outQ, devQ, k>>
     ELSE IF linking
       THEN Leave("ok") /\ UNCHANGED <<par, data, own, outQ, devQ, k>>
     ELSE SendRequest(outer, 0) /\ outer' = 0
  /\ UNCHANGED <<connected, cache, devId, pend, exec, inq, marks>>

-----------------------------------------------------------------------------
(* Receiving *)

\* CUSB::Read of the bytes stage st wants: all of them, or after a time-out fewer,
\* and the others keep what the variable held before (old).  A Read that throws
\* is ReadFails.
Read(st, old, Then(_)) ==
  /\ stage = st
  /\ \/ /\ Len(inq) >= rest
        /\ inq' = Skip(inq, rest) /\ UNCHANGED dirty
        /\ atStart' = IF stage \in {"type", "dtype"} THEN Head(inq).first ELSE atStart
        /\ Then(First(inq, rest))
     \/ /\ Faults /\ 0 < Len(inq) /\ Len(inq) < rest
        /\ inq' = <<>> /\ dirty' = TRUE /\ atStart' = FALSE
        /\ Then(inq \o SubSeq(old, Len(inq) + 1, rest))
  /\ UNCHANGED <<connected, device, outQ, k, calls, opens, own>>

GoTo(st, n) ==
  /\ stage' = st /\ rest' = n
  /\ UNCHANGED <<fn, outer, result, linker>>

Expect(st, n) == GoTo(st, n) /\ UNCHANGED <<cache, mcmd, par, data, suspect>>

Throw(e) == Leave(e) /\ UNCHANGED <<cache, par, data, suspect>>

\* What is left to do when n bytes must be thrown away before err is thrown.
Discard(n, err) ==
  /\ IF n = 0 THEN Leave(err)
     ELSE GoTo(err, n) /\ UNCHANGED mcmd
  /\ UNCHANGED <<cache, par, data, suspect>>

Unset(n, v) == [i \in 1 .. n |-> Byte(v, 0, FALSE)]
Old(x, n)   == [i \in 1 .. n |-> Byte(Encode(x, n)[i], 0, FALSE)]

\* rpcMessage::Receive.
ReadType == Read("type", <<>>, LAMBDA b :
  \/ b[1].v = RPC_TYPE_DTB /\ Expect("cmd", 2)
  \/ b[1].v = RPC_TYPE_DTB_DATA /\ Expect("xdata", 3)
  \/ b[1].v = RPC_TYPE_DTB_DATA_OLD /\ Expect("xold", 3)
  \/ b[1].v \notin MessageTypes /\ Throw("WRONG_MSG_TYPE"))

\* An unexpected data message: its length goes into a 16-bit variable.
ReadUnexpectedData == Read("xdata", Old(0, 3), LAMBDA b :
  Discard(Decode(b) % (Base * Base), "NO_CMD_MSG"))

\* An unexpected old data message: a channel byte, then a 16-bit length.
ReadUnexpectedOld == \E v \in {0, Base - 1} : Read("xold", Unset(3, v), LAMBDA b :
  Discard(Decode(Tail(b)), "NO_CMD_MSG"))

\* m_cmd still holds the request's id when its two bytes are read.
ReadCmd == Read("cmd", Old(Id(fn), 2), LAMBDA b :
  GoTo("size", 1) /\ mcmd' = Decode(b) /\ UNCHANGED <<cache, par, data, suspect>>)

\* Mutant: Check compares with the function's index instead of its id.
AcceptIndex(p) ==
  IF mcmd # fn
    THEN Leave("UNKNOWN_CMD") /\ par' = p /\ UNCHANGED <<cache, data, suspect>>
  ELSE IF fn = GetRpcCallId
    THEN /\ cache' = [cache EXCEPT ![outer] = AsId(Decode(p))]
         /\ suspect' = (suspect \/ dirty')
         /\ GoTo("gotId", 0) /\ par' = p /\ UNCHANGED <<mcmd, data>>
  ELSE IF HasData(fn)
    THEN GoTo("dtype", 1) /\ par' = p /\ UNCHANGED <<cache, mcmd, data, suspect>>
  ELSE Leave("ok") /\ par' = p /\ UNCHANGED <<cache, data, suspect>>

\* Check and the Get of the stub, then rpc_Receive when the reply has data.
Accept(p) ==
  IF mcmd # Id(fn)
    THEN Leave("UNKNOWN_CMD") /\ par' = p /\ UNCHANGED <<cache, data, suspect>>
  ELSE IF Len(p) # Size(fn)
    THEN Leave("CMD_PAR_SIZE") /\ par' = p /\ UNCHANGED <<cache, data, suspect>>
  ELSE IF fn = GetRpcCallId
    THEN /\ cache' = [cache EXCEPT ![outer] = AsId(Decode(p))]
         /\ suspect' = (suspect \/ dirty')
         /\ GoTo("gotId", 0) /\ par' = p /\ UNCHANGED <<mcmd, data>>
  ELSE IF HasData(fn)
    THEN GoTo("dtype", 1) /\ par' = p /\ UNCHANGED <<cache, mcmd, data, suspect>>
  ELSE Leave("ok") /\ par' = p /\ UNCHANGED <<cache, data, suspect>>

ReadSize == Read("size", <<>>, LAMBDA b :
  IF b[1].v = 0 THEN Accept(<<>>)
  ELSE Expect("par", b[1].v))

\* m_par is not initialised.
ReadPar == \E v \in {0, Base - 1} : Read("par", Unset(rest, v), Accept)

\* CDataHeader::RecvHeader.
ReadDataType == Read("dtype", <<>>, LAMBDA b :
  \/ b[1].v = RPC_TYPE_DTB_DATA /\ Expect("dsize", 3)
  \/ b[1].v = RPC_TYPE_DTB /\ Expect("xcmd", 2)
  \/ b[1].v = RPC_TYPE_DTB_DATA_OLD /\ Expect("xold", 3)
  \/ b[1].v \notin MessageTypes /\ Throw("WRONG_MSG_TYPE"))

\* An unexpected command message: its id, its 8-bit length, its parameters.
ReadUnexpectedCmd == Read("xcmd", Old(0, 2), LAMBDA b :
  Expect("xsize", 1))

ReadUnexpectedSize == Read("xsize", <<>>, LAMBDA b : Discard(b[1].v, "NO_DATA_MSG"))

\* Mutant: the number of elements is taken for the number of bytes.
ReadElements == Read("dsize", Old(0, 3), LAMBDA b :
  LET n == Decode(b) \div ElemSize IN
  IF n = 0 THEN Leave("ok") /\ UNCHANGED <<cache, par, data, suspect>>
  ELSE Expect(Kind[fn], n))

\* rpc_Receive: a vector is read in one go, and only if its length fits; a string
\* byte by byte, so that it is complete or throws.
ReadDataSize == Read("dsize", Old(0, 3), LAMBDA b :
  LET n == Decode(b) IN
  IF Kind[fn] = "vector" /\ n % ElemSize # 0 THEN Discard(n, "WRONG_DATA_SIZE")
  ELSE IF n = 0 THEN Leave("ok") /\ UNCHANGED <<cache, par, data, suspect>>
  ELSE Expect(Kind[fn], n))

ReadVector == Read("vector", Unset(rest, 0), LAMBDA b :
  Leave("ok") /\ data' = b /\ UNCHANGED <<cache, par, suspect>>)

ReadChar ==
  /\ stage = "string" /\ inq # <<>>
  /\ inq' = Tail(inq) /\ data' = Append(data, Head(inq))
  /\ IF rest = 1 THEN Leave("ok") ELSE GoTo("string", rest - 1) /\ UNCHANGED mcmd
  /\ UNCHANGED <<connected, cache, par, own, device, outQ, k, marks>>

\* rpc_DataSink, then the error of its caller.
DataSink == \E err \in {"NO_CMD_MSG", "NO_DATA_MSG", "WRONG_DATA_SIZE"} :
  Read(err, Unset(rest, 0), LAMBDA b : Throw(err))

Reading == stage \notin {"idle", "gotId"}

\* Mutant: a failing read is tried again.
ReadRetries ==
  /\ Faults /\ Reading
  /\ \E n \in 0 .. Len(inq) : inq' = Skip(inq, n)
  /\ dirty' = TRUE
  /\ UNCHANGED <<connected, client, linker, device, outQ, k, calls, opens, suspect, atStart>>

\* CUSB::Read throws: nothing came before the time-out, or FT_Read failed and
\* took some bytes with it.
ReadFails ==
  /\ Faults /\ Reading
  /\ \E n \in 0 .. Len(inq) : inq' = Skip(inq, n)
  /\ dirty' = TRUE
  /\ Throw("READ_FAILED")
  /\ UNCHANGED <<connected, own, device, outQ, k, calls, opens, atStart>>

-----------------------------------------------------------------------------
(* The connection *)

Runs(m) == IF m.id = 1 THEN {GetRpcCallId} ELSE {g \in Fn : devId[g] = m.id}

\* Nothing is on its way to the program, and nothing will be.
Quiet ==
  /\ pend = <<>> /\ inq = <<>>
  /\ \A i \in 1 .. Len(devQ) : \A g \in Runs(devQ[i]) : ~Replies(g)

\* Mutant: the ids survive.
rpc_ClearNothing == cache

rpc_Clear == [f \in Fn |-> -1]

\* CTestboard::Open, to the same DTB or, after a power cycle, to one with another
\* call id table.  rpc_Clear forgets the ids; nothing empties the line, and calls with a
\* wrong id may have left something on it.
Open ==
  /\ ~connected /\ stage = "idle" /\ opens < MaxOpens
  /\ connected' = TRUE /\ opens' = opens + 1
  /\ cache' = rpc_Clear /\ outQ' = <<>>
  /\ \/ UNCHANGED <<devId, devQ, pend, inq>>
     \/ devId' \in Tables /\ devQ' = <<>> /\ pend' = <<>> /\ inq' = <<>>
  /\ dirty' = ((dirty \/ suspect) /\ ~Quiet') /\ suspect' = (suspect /\ devQ' # <<>>)
  /\ UNCHANGED <<stage, fn, outer, rest, mcmd, par, data, result, own, linker, exec,
                 k, calls, atStart>>

Close ==
  /\ connected /\ stage = "idle" /\ ~linking
  /\ connected' = FALSE /\ cache' = rpc_Clear
  /\ UNCHANGED <<stage, fn, outer, rest, mcmd, par, data, result, own, linker, device,
                 outQ, inq, k, marks>>

\* CTestboard::Clear: both directions are purged.
Clear ==
  /\ connected /\ stage = "idle" /\ ~linking
  /\ outQ' = <<>> /\ inq' = <<>>
  /\ UNCHANGED <<connected, client, linker, device, k, calls, opens, suspect, atStart>>
  /\ dirty' = (dirty /\ ~Quiet')

\* The program is killed in a call and started again; the DTB goes on.
Kill ==
  /\ Faults /\ connected /\ stage # "idle"
  /\ connected' = FALSE /\ cache' = rpc_Clear /\ outQ' = <<>>
  /\ stage' = "idle" /\ fn' = 0 /\ outer' = 0 /\ rest' = 0 /\ mcmd' = 0
  /\ par' = <<>> /\ data' = <<>> /\ result' = "none" /\ own' = 0
  /\ link' = <<>> /\ linking' = FALSE /\ missing' = FALSE /\ verdict' = "none"
  /\ dirty' = TRUE
  /\ UNCHANGED <<device, inq, k, calls, opens, suspect, atStart>>

-----------------------------------------------------------------------------
(* External: the DTB *)

Message(head, body, req) ==
  [i \in 1 .. Len(head) |-> Byte(head[i], req, i = 1)] \o
  [i \in 1 .. Len(body) |-> Byte(body[i], req, FALSE)]

\* The reply to request m when it runs g and has the bytes d to deliver.  A request that
\* reached GetRpcCallId through a wrong id names no function the DTB has.
Reply(m, g, d) ==
  IF g = GetRpcCallId
    THEN LET id == IF m.arg \in Fn /\ devId[m.arg] # -1 THEN devId[m.arg] ELSE AllOnes
         IN  Message(<<RPC_TYPE_DTB, 1, 0, IdSize>>, Encode(id, IdSize), m.k)
  ELSE IF Kind[g] = "void" THEN <<>>
  ELSE Message(<<RPC_TYPE_DTB>> \o Encode(m.id, 2) \o <<ParSize[g]>>,
               [i \in 1 .. ParSize[g] |-> 0], m.k) \o
       IF Kind[g] = "value" THEN <<>>
       ELSE Message(<<RPC_TYPE_DTB_DATA>> \o Encode(Len(d), 3), d, m.k)

\* The DTB runs the oldest request; it does nothing for an id it does not have.
Execute ==
  /\ devQ # <<>>
  /\ devQ' = Tail(devQ)
  /\ IF Runs(Head(devQ)) = {} THEN UNCHANGED <<pend, exec>>
     ELSE \E g \in Runs(Head(devQ)), d \in Payloads :
       /\ g # GetRpcCallId /\ Kind[g] = "vector" => Len(d) % ElemSize = 0
       /\ pend' = pend \o Reply(Head(devQ), g, d)
       /\ exec' = IF g = GetRpcCallId THEN exec
                  ELSE Append(exec, [fn |-> g, meant |-> Head(devQ).fn])
  /\ UNCHANGED <<connected, client, linker, devId, outQ, inq, k, marks>>

Arrive ==
  /\ pend # <<>>
  /\ inq' = Append(inq, Head(pend)) /\ pend' = Tail(pend)
  /\ UNCHANGED <<connected, client, linker, devQ, devId, exec, outQ, k, marks>>

-----------------------------------------------------------------------------
ClientStep ==
  \/ ReadType \/ ReadUnexpectedData \/ ReadUnexpectedOld \/ ReadCmd \/ ReadSize
  \/ ReadPar \/ ReadDataType \/ ReadUnexpectedCmd \/ ReadUnexpectedSize
  \/ ReadDataSize \/ ReadVector \/ ReadChar \/ DataSink \/ ReadFails
  \/ GotId \/ LinkStep \/ LinkReturn

DeviceStep == Execute \/ Arrive

Next ==
  \/ \E f \in Fn : Call(f)
  \/ CallClosed \/ LinkStart \/ Flush \/ Open \/ Close \/ Clear \/ Kill
  \/ ClientStep \/ DeviceStep

Spec == Init /\ [][Next]_vars

\* The program runs on, and a DTB that is there answers.
FairSpec == Spec /\ WF_vars(ClientStep) /\ WF_vars(DeviceStep)

\* With time-outs nothing needs to be assumed of the DTB.
ClientFairSpec == Spec /\ WF_vars(ClientStep)

-----------------------------------------------------------------------------
(* Properties *)

Stages == {"idle", "type", "cmd", "size", "par", "gotId", "dtype", "dsize", "string",
           "vector", "xdata", "xold", "xcmd", "xsize", "NO_CMD_MSG", "NO_DATA_MSG",
           "WRONG_DATA_SIZE"}
Results == {"none", "ok", "READ_FAILED", "WRITE_ERROR", "UNKNOWN_CMD", "CMD_PAR_SIZE",
            "WRONG_MSG_TYPE", "NO_CMD_MSG", "NO_DATA_MSG", "WRONG_DATA_SIZE"}
Bytes    == [v : Nat, k : Nat, first : BOOLEAN]
Requests == [id : Nat, arg : Nat, fn : Nat, k : Nat]

TypeOK ==
  /\ connected \in BOOLEAN /\ cache \in [Fn -> Int] /\ stage \in Stages
  /\ fn \in Fn \cup {0, GetRpcCallId} /\ outer \in Fn \cup {0}
  /\ rest \in Nat /\ mcmd \in Nat /\ own \in 0 .. k /\ result \in Results
  /\ par \in Seq(Bytes) /\ data \in Seq(Bytes) /\ pend \in Seq(Bytes) /\ inq \in Seq(Bytes)
  /\ link \in Seq(Fn) /\ linking \in BOOLEAN /\ missing \in BOOLEAN
  /\ verdict \in {"none", "present", "missing"}
  /\ outQ \in Seq(Requests) /\ devQ \in Seq(Requests) /\ devId \in Tables
  /\ k \in Nat /\ calls \in Nat /\ opens \in Nat
  /\ dirty \in BOOLEAN /\ suspect \in BOOLEAN /\ atStart \in BOOLEAN

InStep == ~dirty /\ ~suspect

Ofs(s) == {s[i].k : i \in 1 .. Len(s)}

\* A call that returned got the reply to its own request and nothing else, and
\* all of it: no earlier call, look-up, refused function or unexpected message
\* leaves a byte behind that a later call takes for its own.  After a failed read
\* this holds again once Clear or Open found the line quiet.
OwnReply ==
  [][stage # "idle" /\ stage' = "idle" /\ result' = "ok" /\ ~dirty' /\ ~suspect' =>
       /\ Ofs(par') \cup Ofs(data') \subseteq {own}
       /\ own \notin Ofs(inq') \cup Ofs(pend')]_vars

\* Between two calls nothing is under way that the next call could run into.
IdleIsQuiet == stage = "idle" /\ InStep => Quiet

\* The cached call ids are those of the DTB that is connected, also after the
\* program changed over to a DTB with other ids.
CacheSound == ~suspect => \A f \in Fn : cache[f] \in {-1, devId[f]}

\* The DTB runs the function the program meant.
MeantFunction ==
  [][exec' # exec => suspect \/ exec'[Len(exec')].fn = exec'[Len(exec')].meant]_vars

\* Without a failed read a call fails only because its function is missing.
ErrorsHaveCause ==
  [][stage # "idle" /\ stage' = "idle" /\ connected' /\ ~dirty' /\ ~suspect' =>
       \/ result' = "ok"
       \/ result' = "UNKNOWN_CMD" /\ \E f \in Fn : devId[f] = -1]_vars

\* RpcLink says "present" exactly for a DTB that has all functions.
LinkVerdict ==
  [][verdict' # verdict /\ verdict' # "none" /\ InStep =>
       (verdict' = "present" <=> \A f \in Fn : devId[f] # -1)]_vars

\* Every call and RpcLink come to an end.
CallsReturn == /\ (stage # "idle") ~> (stage = "idle")
               /\ linking ~> ~linking

\* rpc.cpp:34 "remove unexpected data message from queue": what is read next
\* starts with the first byte of a message.
RemovesUnexpected ==
  [][stage' = "idle" /\ result' = "NO_CMD_MSG" /\ stage \in {"xdata", "NO_CMD_MSG"}
       /\ atStart /\ Len(inq) >= rest =>
         inq' \o pend' = <<>> \/ Head(inq' \o pend').first]_vars

\* Requests in the program's buffer and at the DTB, without the id look-up: the program
\* waits for it, so it is the youngest.
Called(q) == LET lookup == q # <<>> /\ q[Len(q)].fn = GetRpcCallId
             IN  [i \in 1 .. (IF lookup THEN Len(q) - 1 ELSE Len(q)) |-> q[i].fn]

Service == INSTANCE RpcService WITH
  todo     <- Called(devQ \o outQ),
  executed <- [i \in 1 .. Len(exec) |-> exec[i].fn],
  call     <- IF stage \in {"idle", "gotId"} \/ fn = GetRpcCallId THEN 0 ELSE fn

\* Buffering, id look-ups, refused functions and reconnections are invisible: the
\* stubs are ordered calls, and a call with a reply is a barrier.
ImplementsService == Service!Spec
=============================================================================
