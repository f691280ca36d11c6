------------------------------- MODULE MCIseg -------------------------------
(* Iseg with two voltages, one of them with a digit that is repeated. *)
EXTENDS Iseg

MCVoltages == {<<"0">>, <<"1", "0", "0">>}
=============================================================================
