---------------------------- MODULE MCCacheState ----------------------------
(***************************************************************************)
(* Instances of CacheState for TLC, with the scaled sizes of               *)
(* MCCacheStorage: 3 units for an item of "small" data, 5 for "large".     *)
(***************************************************************************)
EXTENDS CacheState

CONSTANTS k1, k2, k3

MCKeySize == [k \in Keys |-> 1]

MCDataSize == [d \in Data |-> CASE d = "small" -> 1 [] d = "large" -> 3]

MCData == {"small", "large"}

\* The keys of one size are interchangeable: every CHOOSE of the operations that
\* ranges over nodes of several keys has one result or feeds a loop whose result
\* does not depend on it.
KeySymmetry == Permutations(Keys \cap {k1, k2, k3})

=============================================================================
