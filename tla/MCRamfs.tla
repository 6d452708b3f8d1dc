------------------------------ MODULE MCRamfs ------------------------------
(* Ramfs on the small archives.                                             *)
EXTENDS Ramfs, Samples
=============================================================================
