---------------------------- MODULE MCReassembly ----------------------------
(***************************************************************************)
(* Three messages of two units each.  The genuine claim is the second of   *)
(* three, so that a competing candidate can sort on either side of it.     *)
(***************************************************************************)
EXTENDS Reassembly

MCUnitsOf == <<2, 2, 2>>

=============================================================================
