------------------------------- MODULE MCUsb -------------------------------
(* Small instance of Usb for TLC. *)
EXTENDS Usb
=============================================================================
