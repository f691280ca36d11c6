------------------------------ MODULE Framing ------------------------------
(***************************************************************************)
(* What the data stream promises: the samples of the DTB, cut into records *)
(* by their start and end marks.  Where the blocks of a transfer begin and *)
(* end makes no difference, and nothing else is lost or doubled.           *)
(***************************************************************************)
EXTENDS Integers, Sequences

CONSTANT Limit  \* samples after which a record without an end mark is closed

VARIABLES
  sent,    \* the samples of the DTB
  upto,    \* the last sample used so far
  records  \* the records delivered

Sample == [id : Nat, start : BOOLEAN, end : BOOLEAN]

Init == sent = <<>> /\ upto = 0 /\ records = <<>>

\* No mark on the samples from i to j.
Bare(i, j) == \A x \in i .. j : ~sent[x].start /\ ~sent[x].end

\* The next record begins at the next start mark, sample i.
Begins(i) == sent[i].start /\ \A x \in upto + 1 .. i - 1 : ~sent[x].start

\* It goes to sample j: closed by an end mark, by the next start mark, or by its length.
Ended(i, j)    == i < j /\ j - i <= Limit /\ Bare(i + 1, j - 1) /\ sent[j].end
Unended(i, j)  == j < Len(sent) /\ j - i < Limit /\ Bare(i + 1, j) /\ sent[j + 1].start /\ ~sent[j + 1].end
Overlong(i, j) == j < Len(sent) /\ j - i = Limit - 1 /\ Bare(i + 1, j + 1)

Record(i, j) ==
  [data |-> SubSeq(sent, i, j), startError |-> i # upto + 1, endError |-> ~Ended(i, j),
   overflow |-> Overlong(i, j)]

Send ==
  /\ sent' \in Seq(Sample) /\ Len(sent') = Len(sent) + 1
  /\ \A x \in 1 .. Len(sent) : sent'[x] = sent[x]
  /\ UNCHANGED <<upto, records>>

Deliver ==
  \E i \in upto + 1 .. Len(sent) : \E j \in i .. Len(sent) :
    /\ Begins(i)
    /\ Ended(i, j) \/ Unended(i, j) \/ Overlong(i, j)
    /\ upto' = j /\ records' = Append(records, Record(i, j))
    /\ UNCHANGED sent

Next == Send \/ Deliver
Spec == Init /\ [][Next]_<<sent, upto, records>>
=============================================================================
