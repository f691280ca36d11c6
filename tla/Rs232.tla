------------------------------- MODULE Rs232 --------------------------------
(***************************************************************************)
(* The serial line to the iseg high voltage supply (rs232.cpp).            *)
(*                                                                         *)
(* A command is sent one byte at a time; the supply echoes each byte, and  *)
(* writeCommand compares it before it sends the next.  After the last byte *)
(* the answer is collected until its line end or a time-out.  Nothing      *)
(* empties the line before a command, and nothing ends a command that was  *)
(* given up halfway.                                                       *)
(*                                                                         *)
(* A letter stands for the two characters of a command's name ("S" is S1,  *)
(* "D" is D1=).  A byte on the line carries, beside its letter, the number *)
(* of the exchange that caused it.                                         *)
(***************************************************************************)
EXTENDS Integers, Sequences, SequencesExt, FiniteSetsExt

CONSTANTS
  Voltages,  \* voltages as sequences of digits
  MaxFaults  \* bound: bytes lost and time-outs that fire too early

Digits == {"0", "1", "2", "3", "4", "5", "6", "7", "8", "9"}
\* The commands set whole numbers, never negative ones, and "%.f" prints them.
ASSUME VoltageAssumption ==
  <<"0">> \in Voltages /\ Voltages \subseteq Seq(Digits) \ {<<>>}
ASSUME FaultAssumption   == MaxFaults \in Nat

VARIABLES
  at,       \* where the program stands: "out", "send", "echo", "read" or "end"
  cmd,      \* what is left of the command to send
  buf,      \* the byte polled last by writeCommand
  answer,   \* bytes of the answer
  wire,     \* bytes on their way to the supply
  line,     \* bytes on their way back, or waiting in the port
  input,    \* external: the supply's command line
  reply,    \* external: what the supply still has to send
  pending,  \* external: the voltage given with D1
  applied,  \* external: the voltage set by G1
  x,        \* history: number of the exchange
  faults    \* history: faults so far

exchange == <<at, cmd, buf, answer, x>>
supply   == <<input, reply, pending, applied>>
serial   == <<exchange, wire, line, supply, faults>>

\* S1=L2H and S1=H2L are RAMP, S1=ERR is TRP.
Status == {"ON", "RAMP", "OFF", "MAN", "TRP"}

S1    == <<"S", "cr", "lf">>
G1    == <<"G", "cr", "lf">>
U1    == <<"U", "cr", "lf">>
D1(v) == <<"D">> \o v \o <<"cr", "lf">>

SerialInit ==
  /\ at = "out" /\ cmd = <<>> /\ buf = "none" /\ answer = <<>> /\ x = 0
  /\ wire = <<>> /\ line = <<>> /\ input = <<>> /\ reply = <<>>
  /\ applied \in Voltages /\ pending = applied
  /\ faults = 0

-----------------------------------------------------------------------------
(* writeCommand and writeCommandAndReadAnswer *)

WriteCommandAndReadAnswer(c) ==
  /\ at' = "send" /\ cmd' = c /\ buf' = "none" /\ x' = x + 1
  /\ UNCHANGED <<wire, line, supply, faults>>

SendByte ==
  /\ at = "send" /\ at' = "echo"
  /\ wire' = Append(wire, [c |-> Head(cmd), x |-> x])
  /\ UNCHANGED <<cmd, buf, answer, x, line, supply, faults>>

\* writeCommand after an echo, or after the last poll: buf is what it compares.  With
\* a wrong byte the answer keeps what it was.  Mutant: the comparison is missing.
CompareNever(b) ==
  /\ buf' = b /\ cmd' = Tail(cmd)
  /\ IF cmd' = <<>> THEN at' = "read" /\ answer' = <<>> ELSE at' = "send" /\ UNCHANGED answer
Compare(b) ==
  /\ buf' = b
  /\ IF b # Head(cmd) THEN at' = "end" /\ UNCHANGED <<cmd, answer>>
     ELSE /\ cmd' = Tail(cmd)
          /\ IF cmd' = <<>> THEN at' = "read" /\ answer' = <<>>
             ELSE at' = "send" /\ UNCHANGED answer

Echo ==
  /\ at = "echo" /\ line # <<>>
  /\ Compare(Head(line).c) /\ line' = Tail(line)
  /\ UNCHANGED <<x, wire, supply, faults>>

\* The time-out is a fault if the byte waited for is still to come.
Early == wire # <<>> \/ reply # <<>>
OutOfTime ==
  /\ line = <<>> /\ (Early => faults < MaxFaults)
  /\ faults' = IF Early THEN faults + 1 ELSE faults

\* Mutant: the polls do not count down.
NoEchoNever == FALSE /\ UNCHANGED serial
NoEcho ==
  /\ at = "echo" /\ OutOfTime /\ Compare(buf)
  /\ UNCHANGED <<x, wire, line, supply>>

Ended(a) == \E i \in 1 .. Len(a) - 1 : a[i].c = "cr" /\ a[i + 1].c = "lf"

\* A poll takes all that is there; what follows the line end is thrown away.
ReadAnswer ==
  /\ at = "read" /\ line # <<>>
  /\ answer' = answer \o line /\ line' = <<>>
  /\ at' = IF Ended(answer') THEN "end" ELSE "read"
  /\ UNCHANGED <<cmd, buf, x, wire, supply, faults>>

NoAnswer ==
  /\ at = "read" /\ OutOfTime /\ at' = "end"
  /\ UNCHANGED <<cmd, buf, answer, x, wire, line, supply>>

\* The text before the line end.
Letters(a) == [i \in 1 .. Len(a) |-> a[i].c]
Text(a) ==
  LET ends == {i \in 1 .. Len(a) : Ended(SubSeq(a, 1, i))}
  IN  IF ends = {} THEN Letters(a) ELSE SubSeq(Letters(a), 1, Min(ends) - 2)

-----------------------------------------------------------------------------
(* External: the supply *)

\* What it answers to a whole line, in status s, and what the line changes.
Obey(t, s) ==
  LET say(r) == reply' = [i \in 1 .. Len(r) |-> [c |-> r[i], x |-> Head(wire).x]]
      on == s \in {"ON", "RAMP"}
      set == Len(t) > 1 /\ t[1] = "D" /\ \A i \in 2 .. Len(t) : t[i] \in Digits
  IN  \/ t = <<"S">> /\ say(<<"S", s, "cr", "lf">>) /\ UNCHANGED <<pending, applied>>
      \/ /\ t = <<"G">> /\ say(<<"S", s, "cr", "lf">>)
         /\ applied' = IF on THEN pending ELSE applied
         /\ UNCHANGED pending
      \/ t = <<"U">> /\ say(<<"V", "cr", "lf">>) /\ UNCHANGED <<pending, applied>>
      \/ set /\ say(<<"cr", "lf">>) /\ pending' = Tail(t) /\ UNCHANGED applied
      \/ /\ t \notin {<<"S">>, <<"G">>, <<"U">>} /\ ~set
         /\ say(<<"?", "cr", "lf">>) /\ UNCHANGED <<pending, applied>>

Take ==
  /\ wire # <<>> /\ reply = <<>>
  /\ wire' = Tail(wire) /\ line' = Append(line, Head(wire))
  /\ IF Head(wire).c = "lf" /\ input # <<>> /\ Last(input) = "cr"
       THEN input' = <<>> /\ \E s \in Status : Obey(Front(input), s)
       ELSE input' = Append(input, Head(wire).c) /\ UNCHANGED <<reply, pending, applied>>
  /\ UNCHANGED <<exchange, faults>>

Answer ==
  /\ reply # <<>>
  /\ line' = Append(line, Head(reply)) /\ reply' = Tail(reply)
  /\ UNCHANGED <<exchange, wire, input, pending, applied, faults>>

\* The supply misses a byte.
Lose ==
  /\ wire # <<>> /\ faults < MaxFaults
  /\ wire' = Tail(wire) /\ faults' = faults + 1
  /\ UNCHANGED <<exchange, line, supply>>

SerialStep == SendByte \/ Echo \/ NoEcho \/ ReadAnswer \/ NoAnswer
SupplyStep == Take \/ Answer
=============================================================================
