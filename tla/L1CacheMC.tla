----------------------------- MODULE L1CacheMC -----------------------------
(* Small instances of L1Cache for TLC.  Tags, lanes and byte values are        *)
(* interchangeable where the configuration protects no tag; ways are not,      *)
(* because the lowest way wins.                                                *)
EXTENDS L1Cache, TLC

Symmetry == Permutations(Tag) \cup Permutations(Lane) \cup Permutations(Byte)
=============================================================================
