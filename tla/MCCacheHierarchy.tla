--------------------------- MODULE MCCacheHierarchy ---------------------------
(***************************************************************************)
(* An instance of CacheHierarchy for TLC: all lines in one set of a cache. *)
(***************************************************************************)
EXTENDS CacheHierarchy

CONSTANTS a1, a2, b1, b2

FourLines == {a1, a2, b1, b2}
OwnerOf == [l \in Lines |-> IF l \in {a1, a2} THEN 1 ELSE 2]
OneSet == [l \in Lines |-> 0]
=============================================================================
