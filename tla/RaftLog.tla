------------------------------ MODULE RaftLog ------------------------------
(***************************************************************************)
(* What a Raft server expects of its log store: a sequence of entries and  *)
(* the index of the first one (the interface nuraft::log_store).           *)
(***************************************************************************)
EXTENDS Integers, Sequences

CONSTANTS Entries, Decided, MaxIndex

VARIABLES
  first,  \* start_index()
  log     \* the entries from there on

vars == <<first, log>>

NextSlot == first + Len(log)

Init == first = 1 /\ log = <<>>

AppendEntry(entry) ==
  /\ log' = Append(log, entry)
  /\ UNCHANGED first

\* All entries after the one that is overwritten go.
Overwrite(index, entry) ==
  /\ log' = Append(SubSeq(log, 1, index - first), entry)
  /\ UNCHANGED first

\* One entry of a pack, which holds decided ones: at the end, or in the place of an
\* entry that is there.
Sync(index) ==
  /\ log' = IF index = NextSlot THEN Append(log, Decided[index])
            ELSE [log EXCEPT ![index - first + 1] = Decided[index]]
  /\ UNCHANGED first

\* The log may end before last: it is empty then and goes on after last.
Compact(last) ==
  /\ first' = last + 1
  /\ log' = SubSeq(log, last - first + 2, Len(log))

Next ==
  \/ \E entry \in Entries : AppendEntry(entry)
  \/ \E index \in first..(NextSlot - 1), entry \in Entries : Overwrite(index, entry)
  \/ \E index \in first..NextSlot : index <= MaxIndex /\ Sync(index)
  \/ \E last \in first..MaxIndex : Compact(last)

Spec == Init /\ [][Next]_vars

=============================================================================
