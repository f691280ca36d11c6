--------------------------- MODULE MCInterpreter ---------------------------
(* Small instances of Interpreter for TLC. *)
EXTENDS Interpreter, TLC

MCCommands == {"va", "pgset", "getia"}
MCEffect == ("va" :> "flush") @@ ("pgset" :> "late") @@ ("getia" :> "reply")

P(name) == [name |-> name, comment |-> FALSE]
C(name) == [name |-> name, comment |-> TRUE]

\* roc: a start script that runs two others; loop: a script that runs itself
\* and goes on after it; sm: left by exit; va: a script hidden by a command.
MCScript ==
     ("roc"  :> <<P("va"), C("blank"), P("loop"), P("sm"), P("pgset")>>)
  @@ ("loop" :> <<P("getia"), P("loop"), P("pgset"), P("none")>>)
  @@ ("sm"   :> <<P("pgset"), P("quit"), P("va")>>)
  @@ ("va"   :> <<P("pgset")>>)
MCNames == {"roc", "loop", "sm", "va", "pgset", "getia", "help", "none", "blank", "exit", "quit"}

\* A script like s300.roc, whose comment does not fit into the command line: fgets
\* makes two pieces of it.
MCScriptLong == "s300" :> <<C("blank"), C("va"), P("pgset")>>
MCNamesLong  == {"s300", "va", "pgset", "blank"}
=============================================================================
