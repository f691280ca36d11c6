-------------------------------- MODULE Iseg --------------------------------
(***************************************************************************)
(* The iseg high voltage supply as the program sees it (iseg.cpp), on top  *)
(* of the serial line.  The object is a global: constructed before main,   *)
(* destroyed when the program ends.  Its answers are the only way to learn *)
(* that somebody has switched the supply to manual, or that it has         *)
(* tripped.                                                                *)
(***************************************************************************)
EXTENDS Rs232

CONSTANT MaxCalls  \* bound: calls between constructor and destructor

ASSUME CallAssumption == MaxCalls \in Nat

VARIABLES
  iseg_connected, hv_on, supply_tripped, voltage_set,  \* class Iseg
  call,   \* the running call: "new", "ctor", "again", "set", "ask", "dtor", "idle" or "gone"
  rest,   \* commands of the call still to send
  open,   \* the port is open
  first,  \* history: number of the first exchange of the call
  asked,  \* history: voltages asked for in D1
  before, \* history: the voltage that the program found
  calls,  \* history: calls so far
  trip    \* history: the last answer handled said TRP

object == <<iseg_connected, hv_on, supply_tripped, voltage_set>>
marks  == <<first, asked, before, calls, trip>>
vars   == <<serial, object, call, rest, open, marks>>

Init ==
  /\ SerialInit
  /\ iseg_connected = FALSE /\ hv_on = FALSE /\ supply_tripped = FALSE /\ voltage_set = <<"0">>
  /\ call = "new" /\ rest = <<>> /\ open = FALSE
  /\ first = 0 /\ asked = {} /\ before = applied /\ calls = 0 /\ trip = FALSE

\* The call sends c first, then the commands of r.
Start(name, c, r) ==
  /\ call' = name /\ rest' = r /\ first' = x + 1
  /\ answer' = <<>> /\ WriteCommandAndReadAnswer(c)

Construct ==
  /\ call = "new"
  /\ \/ open' = TRUE /\ iseg_connected' = TRUE /\ Start("ctor", S1, <<>>)
     \/ call' = "idle" /\ UNCHANGED <<serial, iseg_connected, rest, open, first>>
  /\ UNCHANGED <<hv_on, supply_tripped, voltage_set, asked, before, calls, trip>>

\* Without "S1=ON" S1 is sent once more, into the same answer.
TryAgain ==
  /\ at = "end" /\ call = "ctor" /\ Text(answer) # <<"S", "ON">>
  /\ call' = "again" /\ WriteCommandAndReadAnswer(S1)
  /\ UNCHANGED <<answer, object, rest, open, marks>>

Next1 ==
  /\ at = "end" /\ rest # <<>>
  /\ WriteCommandAndReadAnswer(Head(rest)) /\ rest' = Tail(rest)
  /\ UNCHANGED <<answer, object, call, open, marks>>

\* Mutant: manual mode is only reported.
HandleAnswersManual(t) ==
  /\ iseg_connected' = (iseg_connected /\ t # <<"S", "OFF">>)
  /\ supply_tripped' = CASE t = <<"S", "TRP">> -> TRUE
                         [] Len(t) = 2 /\ t[1] = "S" /\ t[2] \in Status -> supply_tripped
                         [] OTHER -> FALSE
HandleAnswers(t) ==
  /\ iseg_connected' = (iseg_connected /\ t \notin {<<"S", "OFF">>, <<"S", "MAN">>})
  /\ supply_tripped' = CASE t = <<"S", "TRP">> -> TRUE
                         [] Len(t) = 2 /\ t[1] = "S" /\ t[2] \in Status -> supply_tripped
                         [] OTHER -> FALSE

EndConstructor ==
  /\ at = "end"
  /\ call = "again" \/ (call = "ctor" /\ Text(answer) = <<"S", "ON">>)
  /\ HandleAnswers(Text(answer))
  /\ hv_on' = (Text(answer) = <<"S", "ON">>)
  /\ trip' = (Text(answer) = <<"S", "TRP">>)
  /\ call' = "idle" /\ at' = "out"
  /\ UNCHANGED <<cmd, buf, answer, x, wire, line, supply, faults, voltage_set, rest, open, first, asked, before, calls>>

-----------------------------------------------------------------------------
(* Calls *)

\* setVoltage up to its commands, for the call named n.  Mutant: the new voltage is
\* given to the supply, but not put into force.
SetWithoutG1(v, n) ==
  /\ voltage_set' = v
  /\ asked' = asked \cup {v}
  /\ Start(n, D1(v), <<>>)
Set(v, n) ==
  /\ voltage_set' = v
  /\ asked' = asked \cup {v}
  /\ Start(n, D1(v), <<G1>>)

SetVoltage(v) ==
  /\ call = "idle" /\ calls < MaxCalls /\ iseg_connected
  /\ calls' = calls + 1
  /\ IF hv_on THEN Set(v, "set") ELSE voltage_set' = v /\ UNCHANGED <<serial, call, rest, first, asked>>
  /\ UNCHANGED <<iseg_connected, hv_on, supply_tripped, open, before, trip>>

\* Also the end of the destructor's setVoltage: the object is gone, its members with it.
EndSetVoltage ==
  /\ at = "end" /\ rest = <<>> /\ call \in {"set", "dtor"}
  /\ HandleAnswers(Text(answer))
  /\ trip' = (Text(answer) = <<"S", "TRP">>)
  /\ at' = "out"
  /\ IF call = "dtor" THEN call' = "gone" /\ open' = FALSE ELSE call' = "idle" /\ UNCHANGED open
  /\ UNCHANGED <<cmd, buf, answer, x, wire, line, supply, faults,
                 hv_on, voltage_set, rest, first, asked, before, calls>>

\* getVoltage and getCurrent send one query, status a dozen: the answers are shown,
\* or used as numbers.
Ask(c, r) ==
  /\ call = "idle" /\ calls < MaxCalls /\ iseg_connected
  /\ calls' = calls + 1
  /\ Start("ask", c, r)
  /\ UNCHANGED <<object, open, asked, before, trip>>

EndAsk ==
  /\ at = "end" /\ rest = <<>> /\ call = "ask"
  /\ at' = "out" /\ call' = "idle"
  /\ UNCHANGED <<cmd, buf, answer, x, wire, line, supply, faults, object, rest, open, marks>>

Destroy ==
  /\ call = "idle"
  /\ IF iseg_connected /\ hv_on THEN Set(<<"0">>, "dtor") /\ UNCHANGED open
     ELSE /\ call' = "gone"
          /\ open' = (open /\ ~iseg_connected)
          /\ voltage_set' = IF iseg_connected THEN <<"0">> ELSE voltage_set
          /\ UNCHANGED <<serial, rest, first, asked>>
  /\ UNCHANGED <<iseg_connected, hv_on, supply_tripped, before, calls, trip>>

-----------------------------------------------------------------------------
Calls ==
  \/ Construct \/ Destroy
  \/ \E v \in Voltages : SetVoltage(v)
  \/ Ask(U1, <<>>) \/ Ask(S1, <<U1>>)
Ends == TryAgain \/ Next1 \/ EndConstructor \/ EndSetVoltage \/ EndAsk

Line(step) == step /\ UNCHANGED <<object, call, rest, open, marks>>

Next == Calls \/ Ends \/ Line(SerialStep) \/ Line(SupplyStep) \/ Line(Lose)

\* The program polls with a count, and goes on; the supply handles what it got.  A user
\* need not ask for anything.
Fairness == WF_vars(Ends) /\ WF_vars(Line(SerialStep)) /\ WF_vars(Line(SupplyStep))
Spec == Init /\ [][Next]_vars /\ Fairness

-----------------------------------------------------------------------------
(* Properties *)

\* What handleAnswers interprets answers a command of the call that handles it, also after
\* an answer that came too late or a byte that was lost: the echo of the next command
\* tells (iseg.cpp 89 and 222, rs232.cpp 405).  But nothing empties the line, and failing
\* exchanges move the echoes: in the eighth after the fault those of a query may be those
\* of the one before, whose answer is then read.
OwnAnswer ==
  (at = "end" /\ faults <= 1 /\ x <= 8) => \A i \in 1 .. Len(answer) : answer[i].x \in first .. x

\* The supply applies no voltage that nobody asked for, whichever one byte the line loses
\* or delays, but for one digit that is missing beside its like: the echo of the first is
\* then taken for that of the second (rs232.cpp 378, 405).
Undoubled(v) == {RemoveAt(v, i) : i \in {j \in 2 .. Len(v) : v[j] = v[j - 1]}}
NoWrongVoltage == faults <= 1 => applied \in asked \cup {before} \cup UNION {Undoubled(v) : v \in asked}

\* On a line without faults the voltage of the last setVoltage is in force if the object
\* counts as connected and the last answer has not said that the supply had tripped,
\* whoever switched the supply and when (iseg.cpp 204-229).
AppliedIsAsked ==
  (call = "idle" /\ faults = 0 /\ hv_on /\ iseg_connected /\ ~trip /\ asked # {}) => applied = voltage_set

\* Each call of the object returns (rs232.cpp 392-408, 460-469).
CallsReturn == at # "out" ~> at = "out"

\* The destructor's promise (iseg.cpp 102): it turns the high voltage off.
HvOffAtEnd == (call = "gone" /\ ~open /\ x > 0 /\ faults = 0) => applied = <<"0">>
=============================================================================
