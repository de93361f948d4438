----------------------------- MODULE MCLogStore -----------------------------
(***************************************************************************)
(* Instances of LogStore for TLC.  The decided entries of neighbouring     *)
(* indexes differ, so that an entry at a wrong index is noticed.  The      *)
(* entry that is not decided for an index stands for what a deposed leader *)
(* left behind.                                                            *)
(***************************************************************************)
EXTENDS LogStore

MCEntries == {"a", "b"}

MCDecided == [i \in 1..MaxIndex |-> IF i % 2 = 0 THEN "a" ELSE "b"]

=============================================================================
