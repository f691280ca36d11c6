------------------------------ MODULE MCStream ------------------------------
(* Stream with blocks of two samples and records of two. *)
EXTENDS Stream
=============================================================================
