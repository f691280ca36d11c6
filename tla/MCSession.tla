----------------------------- MODULE MCSession ------------------------------
(* Session with two DTBs and another device, and three flash files: with an  *)
(* empty line, with more records than the counter holds, and with a last     *)
(* line that has no line end.                                                *)
EXTENDS Session, TLC

CONSTANTS d1, d2, other

MCDevices == {d1, d2, other}
MCDTBs == {d1, d2}
Of(lines, ended) == [lines |-> lines, ended |-> ended]
Symmetry == Permutations(MCDTBs)
MCFiles == {Of(<<"record", "empty">>, TRUE),
            Of(<<"record", "record">>, TRUE),
            Of(<<"record", "record">>, FALSE)}
=============================================================================
