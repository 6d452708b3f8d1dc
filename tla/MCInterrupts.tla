---------------------------- MODULE MCInterrupts ----------------------------
(* Small instance of Interrupts.                                            *)
EXTENDS Interrupts
=============================================================================
