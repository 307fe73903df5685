---------------------------- MODULE MCSortedSet ----------------------------
(***************************************************************************)
(* An instance of SortedSet for TLC: every pair of sets of four elements.  *)
(***************************************************************************)
EXTENDS SortedSet

FourElements == 1 .. 4
=============================================================================
