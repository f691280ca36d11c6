----------------------------- MODULE MCReadout ------------------------------
(* Readout with two DAC steps or pixels of two triggers, and a module of two *)
(* ROCs.                                                                     *)
EXTENDS Readout

MCRocs == <<"roc 0", "roc 1">>
=============================================================================
