---------------------------- MODULE CacheUnitMC ----------------------------
(* Small instances of CacheUnit for TLC: tags and byte values are              *)
(* interchangeable.                                                            *)
EXTENDS CacheUnit, TLC

Symmetry == Permutations(Tag) \cup Permutations(Byte)
=============================================================================
