--------------------------- MODULE MCFasitdSession ---------------------------
(* Instances of FasitdSession for TLC: all values are in the .cfg files. *)
EXTENDS FasitdSession
=============================================================================
