--------------------------- MODULE MCCacheReference ---------------------------
(***************************************************************************)
(* CacheReference for TLC: lines of two bytes, an L1 of two of them and an *)
(* LLC of two or four, with every associativity.                           *)
(***************************************************************************)
EXTENDS CacheReference

SmallLevel(size, ways) == [size |-> size, line |-> 2, ways |-> ways]

SmallHierarchies ==
  {<<SmallLevel(4, w), m>> :
     w \in {1, 2}, m \in {SmallLevel(4, 1), SmallLevel(4, 2), SmallLevel(8, 1),
                          SmallLevel(8, 2), SmallLevel(8, 4)}}

\* Five lines, and an access that touches two of them.
SmallAccesses ==
  [address : {0, 2, 4, 6, 8}, size : {2}] \cup {[address |-> 3, size |-> 2]}
=============================================================================
