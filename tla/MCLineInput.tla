---------------------------- MODULE MCLineInput ----------------------------
(* Small instance of LineInput: rows of 3, an input buffer of 4.            *)
EXTENDS LineInput
=============================================================================
