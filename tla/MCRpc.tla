------------------------------- MODULE MCRpc -------------------------------
(* Small instances of Rpc for TLC. *)
EXTENDS Rpc, TLC

\* One function of each form, and a DTB firmware with other ids and one function
\* less.
MCFn   == {2, 3, 4, 5}
MCKind == (2 :> "void") @@ (3 :> "value") @@ (4 :> "string") @@ (5 :> "vector")
MCParSize == (2 :> 0) @@ (3 :> 1) @@ (4 :> 0) @@ (5 :> 1)
MCOne  == (2 :> 2) @@ (3 :> 3) @@ (4 :> 4) @@ (5 :> 5)
MCTwo  == (2 :> 3) @@ (3 :> 2) @@ (4 :> -1) @@ (5 :> 4)
MCTables == {MCOne, MCTwo}

\* For the runs with time-outs: two functions, two firmwares with swapped ids.
MCFn2   == {2, 3}
MCKind2 == (2 :> "value") @@ (3 :> "vector")
MCParSize2 == (2 :> 1) @@ (3 :> 0)
MCTables2 == {(2 :> 2) @@ (3 :> 3), (2 :> 3) @@ (3 :> 2)}

\* Data of a vector reply: none, two elements, and data that read from their second
\* byte on look like an old data message, from their third on like the reply to function 3.
MCPayloads == {<<>>, <<0, 0>>}
MCForeign  == {<<0, 193, 192, 3, 0, 0>>}
=============================================================================
