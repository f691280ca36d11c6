---------------------------- MODULE Interpreter ----------------------------
(***************************************************************************)
(* The command interpreter (command.cpp, CInterpreter::run and             *)
(* CCmdLine::read) and the loop of cmd() that restarts it (cmd.cpp).       *)
(*                                                                         *)
(* Lines come from the terminal or from scripts, which may run scripts.    *)
(* All levels share one CCmdLine and its interactive flag, which decides   *)
(* where the next line is read from and whether a command sends its calls  *)
(* at once (DO_FLUSH) or leaves them in the write buffer of CUSB.          *)
(*                                                                         *)
(* A script is a sequence of the pieces fgets makes of it: a line of the   *)
(* file that does not fit into CMDLINELENGTH gives two.  A piece has the   *)
(* name read() cuts out of it and whether its line of the file starts as a *)
(* comment.  Lines that are empty or start with '-' or '#' have no name,   *)
(* "blank" here.                                                           *)
(***************************************************************************)
EXTENDS Integers, Sequences, FiniteSets

CONSTANTS
  Commands,  \* names in cmdList
  Effect,    \* Effect[c]: "flush" (ends with DO_FLUSH), "late" (does not), "reply"
  Script,    \* Script[s]: the pieces of file s.roc, for every script there is
  Names,     \* the names a line may have
  MaxIter,   \* nested scripts, 20 in the code
  MaxFiles,  \* files the program may have open
  MaxTyped,  \* bound: lines typed
  MaxErrors  \* bound: RPC errors

Effects == {"flush", "late", "reply"}
Exits   == {"exit", "quit"}
Piece   == [name : Names, comment : BOOLEAN]

ASSUME ScriptAssumption ==
  /\ Effect \in [Commands -> Effects]
  /\ "blank" \in Names \ Commands /\ "stdin" \notin DOMAIN Script
  /\ \A s \in DOMAIN Script : Script[s] \in Seq(Piece)
ASSUME BoundAssumption ==
  MaxIter \in Nat /\ MaxFiles \in Nat /\ MaxTyped \in Nat /\ MaxErrors \in Nat

VARIABLES
  pc,          \* "read", "act" on the line read, "ended" or "crashed"
  stack,       \* the running calls of run(): what each reads, and how far it is
  interactive, \* CCmdLine::interactive
  line,        \* CCmdLine::cmd, and whether it is a part of a comment
  files,       \* script files open
  buffered,    \* calls in the write buffer of CUSB
  device,      \* history: calls the DTB got
  issued,      \* history: calls made
  typed,       \* history: lines typed, and the name of the last one
  trace,       \* history: commands executed since
  errors       \* history: RPC errors

rpc   == <<buffered, device, issued>>
marks == <<typed, trace, errors>>
vars  == <<pc, stack, interactive, line, files, rpc, marks>>

Stdin == "stdin"
Frame(f) == [src |-> f, pos |-> 1]
Top  == stack[Len(stack)]
Pop  == SubSeq(stack, 1, Len(stack) - 1)
Nothing == [name |-> "blank", comment |-> FALSE]

\* cmd() calls run(stdin), which makes the command line interactive.
Init ==
  /\ pc = "read" /\ stack = <<Frame(Stdin)>> /\ interactive = TRUE
  /\ line = Nothing /\ files = 0
  /\ buffered = <<>> /\ device = <<>> /\ issued = 0
  /\ typed = [n |-> 0, name |-> "blank"] /\ trace = <<>> /\ errors = 0

-----------------------------------------------------------------------------
(* Reading a line *)

\* readline: the flag alone decides, whatever file run() was called with.
Prompt ==
  /\ pc = "read" /\ (interactive \/ Top.src = Stdin) /\ typed.n < MaxTyped
  /\ \E name \in Names :
       /\ line' = [name |-> name, comment |-> FALSE]
       /\ typed' = [n |-> typed.n + 1, name |-> name]
  /\ pc' = "act" /\ trace' = <<>>
  /\ UNCHANGED <<stack, interactive, files, rpc, errors>>

\* At the end of input readline gives no line, and strncpy reads from NULL.
EndOfInput ==
  /\ pc = "read" /\ interactive
  /\ pc' = "crashed"
  /\ UNCHANGED <<stack, interactive, line, files, rpc, marks>>

\* Mutant: the line is read again after a nested script has used the command line.
ReadScriptAgain ==
  /\ pc = "read" /\ ~interactive /\ Top.src # Stdin
  /\ Top.pos <= Len(Script[Top.src])
  /\ line' = Script[Top.src][Top.pos]
  /\ stack' = IF line'.name \in DOMAIN Script THEN stack
              ELSE [stack EXCEPT ![Len(stack)].pos = @ + 1]
  /\ pc' = "act"
  /\ UNCHANGED <<interactive, files, rpc, marks>>

\* fgets from the script.
ReadScript ==
  /\ pc = "read" /\ ~interactive /\ Top.src # Stdin
  /\ Top.pos <= Len(Script[Top.src])
  /\ line' = Script[Top.src][Top.pos]
  /\ stack' = [stack EXCEPT ![Len(stack)].pos = @ + 1]
  /\ pc' = "act"
  /\ UNCHANGED <<interactive, files, rpc, marks>>

\* Mutant: the flag is not set back when a script returns.
ReturnQuiet ==
  IF Len(stack) = 1
    THEN pc' = "ended" /\ UNCHANGED <<stack, interactive, files>>
    ELSE /\ pc' = "read" /\ stack' = Pop /\ files' = files - 1
         /\ UNCHANGED interactive

\* run() returns; its caller closes the file and sets the flag for its own file.
Return ==
  IF Len(stack) = 1
    THEN pc' = "ended" /\ UNCHANGED <<stack, interactive, files>>
    ELSE /\ pc' = "read" /\ stack' = Pop /\ files' = files - 1
         /\ interactive' = (Pop[Len(Pop)].src = Stdin)

EndOfScript ==
  /\ pc = "read" /\ ~interactive /\ Top.src # Stdin
  /\ Top.pos > Len(Script[Top.src])
  /\ Return
  /\ UNCHANGED <<line, rpc, marks>>

-----------------------------------------------------------------------------
(* Acting on it *)

Is(name) == pc = "act" /\ line.name = name

\* An empty line or a comment; help.
Skip ==
  /\ Is("blank") \/ (Is("help") /\ "help" \notin Commands)
  /\ pc' = "read"
  /\ UNCHANGED <<stack, interactive, line, files, rpc, marks>>

Call(c) == [n |-> issued + 1, cmd |-> c, inScript |-> Len(stack) > 1]

\* A call with a reply flushes; DO_FLUSH does if the command line is interactive.
SendsNow(c) == Effect[c] = "reply" \/ (Effect[c] = "flush" /\ interactive)

\* Mutant: the call goes out without those before it.
SendAhead(c) ==
  \/ /\ SendsNow(c)
     /\ device' = Append(device, Call(c)) /\ UNCHANGED buffered
  \/ /\ ~SendsNow(c)
     /\ buffered' = Append(buffered, Call(c)) /\ UNCHANGED device

\* Other calls wait in the buffer for the next flush, or until it is full.
Send(c) ==
  \/ /\ SendsNow(c)
     /\ device' = device \o Append(buffered, Call(c)) /\ buffered' = <<>>
  \/ /\ ~SendsNow(c)
     /\ \/ buffered' = Append(buffered, Call(c)) /\ UNCHANGED device
        \/ buffered' = <<Call(c)>> /\ buffered # <<>> /\ device' = device \o buffered

Execute(c) ==
  /\ Is(c)
  /\ pc' = "read"
  /\ Send(c)
  /\ issued' = issued + 1 /\ trace' = Append(trace, c)
  /\ UNCHANGED <<stack, interactive, line, files, typed, errors>>

\* Mutant: the restarted interpreter goes on with the flag of the script.
RestartQuiet == stack' = <<Frame(Stdin)>> /\ UNCHANGED interactive

\* cmd() calls run(stdin) again.  The files of the scripts are not closed.
Restart == stack' = <<Frame(Stdin)>> /\ interactive' = TRUE

\* The command throws CRpcError, which only cmd() catches.  On an open connection the error
\* comes from Flush, or from a reply that is read after Flush, and Flush empties the buffer
\* before it writes: what it had not handed to the driver is lost.  (Write throws with the
\* buffer as it is if there is no connection; Open throws that away.)
Error(c) ==
  /\ Is(c) /\ errors < MaxErrors
  /\ pc' = "read" /\ Restart
  /\ \E n \in 0 .. Len(buffered) : device' = device \o SubSeq(buffered, 1, n)
  /\ buffered' = <<>> /\ issued' = issued + 1
  /\ trace' = <<>> /\ errors' = errors + 1
  /\ UNCHANGED <<line, files, typed>>

\* exit and quit leave the loop of this run(), not those of its callers.
Exit ==
  /\ \E name \in Exits \ Commands : Is(name)
  /\ Return
  /\ UNCHANGED <<line, rpc, marks>>

Opens(s) == Is(s) /\ s \notin Commands \cup Exits \cup {"blank", "help"} /\ files < MaxFiles

\* Mutant: the file of a script that is nested too deep stays open.
RunScriptLeak(s) ==
  /\ Opens(s) /\ pc' = "read"
  /\ IF Len(stack) > MaxIter
       THEN interactive' = (Top.src = Stdin) /\ files' = files + 1 /\ UNCHANGED stack
       ELSE /\ stack' = Append(stack, Frame(s))
            /\ interactive' = FALSE /\ files' = files + 1
  /\ UNCHANGED <<line, rpc, marks>>

\* Mutant: one level too many.
RunScriptDeeper(s) ==
  /\ Opens(s) /\ pc' = "read"
  /\ IF Len(stack) > MaxIter + 1
       THEN interactive' = (Top.src = Stdin) /\ UNCHANGED <<stack, files>>
       ELSE /\ stack' = Append(stack, Frame(s))
            /\ interactive' = FALSE /\ files' = files + 1
  /\ UNCHANGED <<line, rpc, marks>>

\* Mutant: a script that is nested too deep ends its caller as well.
RunScriptGivesUp(s) ==
  /\ Opens(s)
  /\ IF Len(stack) > MaxIter THEN Return
       ELSE /\ stack' = Append(stack, Frame(s)) /\ pc' = "read"
            /\ interactive' = FALSE /\ files' = files + 1
  /\ UNCHANGED <<line, rpc, marks>>

\* A script of that name runs one level up, with the flag cleared.  Beyond the limit
\* run() returns at once and the caller goes on.
RunScript(s) ==
  /\ Opens(s) /\ pc' = "read"
  /\ IF Len(stack) > MaxIter
       THEN interactive' = (Top.src = Stdin) /\ UNCHANGED <<stack, files>>
       ELSE /\ stack' = Append(stack, Frame(s))
            /\ interactive' = FALSE /\ files' = files + 1
  /\ UNCHANGED <<line, rpc, marks>>

\* No such command, and no such file or no more files can be opened.
Unknown ==
  /\ pc = "act" /\ line.name \notin Commands \cup Exits \cup {"blank", "help"}
  /\ line.name \notin DOMAIN Script \/ files >= MaxFiles
  /\ pc' = "read"
  /\ UNCHANGED <<stack, interactive, line, files, rpc, marks>>

RunStep ==
  \/ ReadScript \/ EndOfScript \/ Skip \/ Exit \/ Unknown
  \/ \E c \in Commands : Execute(c) \/ Error(c)
  \/ \E s \in DOMAIN Script : RunScript(s)

Next == Prompt \/ EndOfInput \/ RunStep

Spec == Init /\ [][Next]_vars

\* The one thread runs on; nobody has to type anything.
FairSpec == Spec /\ WF_vars(RunStep)

-----------------------------------------------------------------------------
(* Properties *)

Calls == [n : Nat, cmd : Commands, inScript : BOOLEAN]

TypeOK ==
  /\ pc \in {"read", "act", "ended", "crashed"}
  /\ stack \in Seq([src : DOMAIN Script \cup {Stdin}, pos : Nat \ {0}])
  /\ Len(stack) \in 1 .. MaxIter + 1
  /\ interactive \in BOOLEAN /\ line \in Piece
  /\ files \in 0 .. MaxFiles
  /\ buffered \in Seq(Calls) /\ device \in Seq(Calls) /\ issued \in Nat
  /\ typed \in [n : 0 .. MaxTyped, name : Names]
  /\ trace \in Seq(Commands) /\ errors \in 0 .. MaxErrors

\* Only the bottom run() reads the terminal, and the shared flag says so whenever a
\* line is read or a command asks for it (DO_FLUSH): after any nesting of scripts,
\* exits, refused scripts and errors.  Otherwise a script would read the terminal,
\* or a typed command would stay in the buffer.
FlagMatchesFile ==
  /\ interactive <=> Top.src = Stdin
  /\ \A i \in 1 .. Len(stack) : stack[i].src = Stdin <=> i = 1

\* The calls in q are numbered in increasing order, up to last.
Ordered(q, last) ==
  /\ \A i, j \in 1 .. Len(q) : i < j => q[i].n < q[j].n
  /\ \A i \in 1 .. Len(q) : q[i].n <= last

\* Calls reach the DTB in the order in which the lines were read, each once.
CallsInOrder == Ordered(device \o buffered, issued)

\* What is still in the buffer was called by a script, or by a typed command that
\* does not flush: a typed command with DO_FLUSH has reached the DTB.
TypedIsSent ==
  \A i \in 1 .. Len(buffered) :
    buffered[i].inScript \/ Effect[buffered[i].cmd] = "late"

\* As long as no error has struck, exactly the files of the running scripts are open.
FilesMatchStack == errors = 0 => files = Len(stack) - 1

\* What is left of script p.src at nesting depth p.depth from piece p.pos on: its
\* commands and those of its scripts, up to exit, in the order of the lines; too deep
\* a script means nothing.
Places      == [depth : Nat, src : DOMAIN Script, pos : Nat \ {0}]
Entry(d, s) == [depth |-> d, src |-> s, pos |-> 1]
Meaning[p \in Places] ==
  IF p.depth > MaxIter \/ p.pos > Len(Script[p.src]) THEN <<>>
  ELSE LET name == Script[p.src][p.pos].name
           next == [p EXCEPT !.pos = @ + 1]
       IN  IF name \in Commands THEN <<name>> \o Meaning[next]
           ELSE IF name \in Exits THEN <<>>
           ELSE IF name \in DOMAIN Script \ {"blank", "help"}
             THEN Meaning[Entry(p.depth + 1, name)] \o Meaning[next]
           ELSE Meaning[next]

\* When a typed script is back at the prompt, it has executed its commands and those
\* of all nested scripts, each once and in order.
ScriptRunsThrough ==
  /\ pc = "read" /\ Len(stack) = 1 /\ errors = 0 /\ MaxFiles > MaxIter
  /\ typed.name \in DOMAIN Script \ (Commands \cup Exits \cup {"blank", "help"})
  => trace = Meaning[Entry(1, typed.name)]

\* Scripts come to an end, also those that run themselves.
ScriptsEnd == (Len(stack) > 1) ~> (Len(stack) = 1)

\* command.cpp:430 "continue; // comment": no part of a comment does anything.
CommentsDoNothing ==
  [][pc = "act" /\ line.comment => UNCHANGED <<stack, files, rpc, trace>>]_vars
=============================================================================
