----------------------------- MODULE RpcService -----------------------------
(***************************************************************************)
(* What the RPC layer promises to the commands above it as long as no read *)
(* fails: the DTB executes the functions called, each once and in program  *)
(* order.  A void call returns at once, before the DTB has seen it.  Any   *)
(* other call is a barrier: when it returns, the DTB has executed it and   *)
(* everything called before it.  Only a Clear or a change of connection    *)
(* may lose calls, the youngest ones, and only void ones.                  *)
(***************************************************************************)
EXTENDS Integers, Sequences

CONSTANTS Fn, Kind

VARIABLES
  todo,      \* functions called and not executed
  executed,  \* functions the DTB has executed
  call       \* the function whose reply the program waits for, 0 if none

vars == <<todo, executed, call>>

Init == todo = <<>> /\ executed = <<>> /\ call = 0

Issue(f) ==
  /\ call = 0
  /\ todo' = Append(todo, f)
  /\ call' = IF Kind[f] = "void" THEN 0 ELSE f
  /\ UNCHANGED executed

Execute ==
  /\ todo # <<>>
  /\ executed' = Append(executed, Head(todo)) /\ todo' = Tail(todo)
  /\ UNCHANGED call

Return ==
  /\ call # 0 /\ todo = <<>>
  /\ call' = 0
  /\ UNCHANGED <<todo, executed>>

LoseYoungest ==
  /\ call = 0
  /\ \E n \in 0 .. Len(todo) : todo' = SubSeq(todo, 1, n)
  /\ UNCHANGED <<executed, call>>

Next == (\E f \in Fn : Issue(f)) \/ Execute \/ Return \/ LoseYoungest

Spec == Init /\ [][Next]_vars
=============================================================================
