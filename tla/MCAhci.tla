------------------------------- MODULE MCAhci -------------------------------
(***************************************************************************)
(* Small instance of Ahci.  2^20 stands for 2^32; the heap begins at 0, so *)
(* close to it that the list of the first port, but none of its tables,    *)
(* lies below, or at it.                                                   *)
(***************************************************************************)
EXTENDS Ahci
=============================================================================
