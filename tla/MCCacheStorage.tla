--------------------------- MODULE MCCacheStorage ---------------------------
(***************************************************************************)
(* Instances of CacheStorage for TLC.  Sizes are scaled down: an item of   *)
(* data "small" takes 3 units and one of "large" 5.                        *)
(***************************************************************************)
EXTENDS CacheStorage

CONSTANTS k1, k2, k3, kLong

MCKeySize == [k \in Keys |-> IF k = kLong THEN 2 ELSE 1]

MCDataSize == [d \in Data |-> CASE d = "small" -> 1 [] d = "large" -> 3]

MCData == {"small", "large"}

\* The keys of one size are interchangeable: every CHOOSE of the operations that
\* ranges over nodes of several keys has one result or feeds a loop whose result
\* does not depend on it.
KeySymmetry == Permutations(Keys \cap {k1, k2, k3})

=============================================================================
