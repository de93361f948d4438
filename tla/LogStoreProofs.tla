--------------------------- MODULE LogStoreProofs ---------------------------
(***************************************************************************)
(* Proofs about LogStore for every MaxIndex, every set of entries and      *)
(* every decided log.                                                      *)
(***************************************************************************)
EXTENDS LogStore, FiniteSetTheorems, TLAPS

\* The indexes of a log that starts at s and whose next slot is m.
Slots(s, m) == {0} \cup (s..(m - 1))

\* What logs_ looks like between two critical sections.
Structure ==
  /\ start_idx \in Nat \ {0}
  /\ NextSlot \in Nat /\ NextSlot >= start_idx
  /\ DOMAIN logs = Slots(start_idx, NextSlot)

\* The next entry of a pack goes to a slot of the log or to the one after it, and
\* the log is not empty when the pack is done.
PackFits ==
  /\ pack \in [next : Nat, end : Nat]
  /\ ~Idle => /\ pack.next \in start_idx..NextSlot
              /\ pack.next <= pack.end /\ pack.end <= MaxIndex + 1
              /\ start_idx < pack.end

\* The log has every committed entry that the state machine has not got, and what
\* it has of the committed ones is what was decided.
HoldsCommitted ==
  /\ quick_commit_index \in 0..MaxIndex /\ sm_commit_index \in Nat
  /\ start_idx <= sm_commit_index + 1
  /\ sm_commit_index <= quick_commit_index
  /\ quick_commit_index < NextSlot /\ NextSlot <= MaxIndex + 1
  /\ committing \in {0, sm_commit_index + 1}
  /\ committing <= quick_commit_index
  /\ \A i \in start_idx..quick_commit_index : logs[i] = Decided[i]
  /\ AppliesDecided

IInv == Structure /\ PackFits /\ HoldsCommitted

----------------------------------------------------------------------------

\* The size of logs_ tells the next slot.
LEMMA SlotCount ==
  ASSUME NEW s \in Nat \ {0}, NEW m \in Nat, m >= s
  PROVE  Cardinality(Slots(s, m)) = m - s + 1
<1>1. /\ IsFiniteSet(s..(m - 1))
      /\ Cardinality(s..(m - 1)) = m - s
  BY FS_Interval
<1>2. 0 \notin s..(m - 1)
  OBVIOUS
<1>3. Cardinality((s..(m - 1)) \cup {0}) = m - s + 1
  BY <1>1, <1>2, FS_AddElement, Zenon
<1>4. Slots(s, m) = (s..(m - 1)) \cup {0}
  BY DEF Slots
<1> QED
  BY <1>3, <1>4

\* A step that leaves logs_ without gaps from start_idx_ to m leaves it well formed.
LEMMA Restructured ==
  ASSUME NEW s \in Nat \ {0}, NEW m \in Nat, m >= s,
         start_idx' = s, (DOMAIN logs)' = Slots(s, m)
  PROVE  NextSlot' = m /\ Structure'
<1>1. Cardinality(DOMAIN logs)' = m - s + 1
  BY SlotCount
<1>2. NextSlot' = s + Cardinality(DOMAIN logs)' - 1
  BY DEF NextSlot
<1>3. NextSlot' = m
  BY <1>1, <1>2
<1> QED
  BY <1>3 DEF Structure

\* A step that leaves logs_ and start_idx_ alone.
LEMMA StoreUnchanged ==
  ASSUME Structure, UNCHANGED <<logs, start_idx>>
  PROVE  NextSlot' = NextSlot /\ Structure'
BY DEF Structure, NextSlot

\* A new log store, which holds only the dummy entry, has the invariant.
LEMMA InitIInv == Init => IInv
<1> SUFFICES ASSUME Init PROVE IInv
  OBVIOUS
<1>1. start_idx = 1 /\ DOMAIN logs = Slots(1, 1)
  BY DEF Init, Slots
<1>2. NextSlot = 1
  BY <1>1, SlotCount DEF NextSlot
<1>3. Structure
  BY <1>1, <1>2 DEF Structure
<1> QED
  BY <1>1, <1>2, <1>3, IndexAssumption
  DEF Init, IInv, PackFits, Idle, NoPack, HoldsCommitted, AppliesDecided
----------------------------------------------------------------------------
(* The actions that change logs_ or start_idx_.                            *)

\* append() extends the log by one slot.
LEMMA AppendKeepsIInv ==
  ASSUME IInv, NEW entry \in Entries, AppendEntry(entry)
  PROVE  IInv'
<1> USE DEF AppendEntry, IInv
<1>1. start_idx' = start_idx /\ (DOMAIN logs)' = Slots(start_idx, NextSlot + 1)
  BY DEF Put, Structure, Slots
<1>2. NextSlot' = NextSlot + 1 /\ Structure'
  BY <1>1, Restructured DEF Structure
<1>3. PackFits'
  BY <1>1, <1>2 DEF PackFits, Idle, Structure
<1>4. \A i \in start_idx..quick_commit_index : logs'[i] = logs[i]
  BY DEF Put, Structure, Slots, HoldsCommitted
<1> QED
  BY <1>1, <1>2, <1>3, <1>4, IndexAssumption
  DEF HoldsCommitted, AppliesDecided, commitVars, Structure

\* write_at() cuts the log off after an index that is not committed.
LEMMA WriteAtKeepsIInv ==
  ASSUME IInv, NEW index \in start_idx..(NextSlot - 1), NEW entry \in Entries,
         WriteAt(index, entry)
  PROVE  IInv'
<1> USE DEF WriteAt, IInv
<1>1. start_idx' = start_idx /\ (DOMAIN logs)' = Slots(start_idx, index + 1)
  BY DEF Structure, Slots
<1>2. NextSlot' = index + 1 /\ Structure'
  BY <1>1, Restructured DEF Structure
<1>3. PackFits'
  BY <1>1, <1>2 DEF PackFits, Idle, Structure
<1>4. \A i \in start_idx..quick_commit_index : logs'[i] = logs[i]
  BY DEF Structure, Slots, HoldsCommitted
<1> QED
  BY <1>1, <1>2, <1>3, <1>4, IndexAssumption
  DEF HoldsCommitted, AppliesDecided, commitVars, Structure

\* One entry of a pack.
LEMMA ApplyPackEntryKeepsIInv ==
  ASSUME IInv, ApplyPackEntry
  PROVE  IInv'
<1> USE DEF ApplyPackEntry, IInv
<1> DEFINE m == IF pack.next = NextSlot THEN NextSlot + 1 ELSE NextSlot
<1>1. /\ pack.next \in start_idx..NextSlot /\ pack.end \in Nat
      /\ pack'.next = pack.next + 1 /\ pack'.end = pack.end
      /\ pack' \in [next : Nat, end : Nat]
  BY DEF PackFits
<1>2. start_idx' = start_idx /\ (DOMAIN logs)' = Slots(start_idx, m)
  BY <1>1 DEF Put, Structure, Slots
<1>3. m \in Nat /\ m >= start_idx /\ start_idx \in Nat \ {0}
  BY DEF Structure
<1>4. NextSlot' = m /\ Structure'
  <2> HIDE DEF m
  <2> QED
    BY <1>2, <1>3, Restructured
<1>5. PackFits'
  BY <1>1, <1>2, <1>4 DEF PackFits, Idle, Structure
<1>6. \A i \in start_idx..quick_commit_index :
         logs'[i] = IF i = pack.next THEN Decided[i] ELSE logs[i]
  BY DEF Put, Structure, Slots, HoldsCommitted
<1>7. quick_commit_index < m /\ m <= MaxIndex + 1
  BY <1>1, IndexAssumption DEF HoldsCommitted, PackFits, Structure
<1> QED
  BY <1>2, <1>4, <1>5, <1>6, <1>7 DEF HoldsCommitted, AppliesDecided, commitVars, Structure

\* The first index that apply_pack() finds at its end is start_idx_.
LEMMA ApplyPackEndKeepsIInv ==
  ASSUME IInv, ApplyPackEnd
  PROVE  IInv'
<1> USE DEF ApplyPackEnd, IInv
<1> DEFINE indexes == DOMAIN logs \ {0}
<1>1. start_idx < NextSlot /\ start_idx \in Nat \ {0} /\ NextSlot \in Nat
  BY DEF PackFits, Structure
<1>2. indexes = start_idx..(NextSlot - 1)
  BY <1>1 DEF Structure, Slots
<1>3. start_idx' = CHOOSE i \in indexes : \A j \in indexes : i <= j
  BY <1>1, <1>2
<1>4. start_idx' \in indexes /\ \A j \in indexes : start_idx' <= j
  <2>1. start_idx \in indexes /\ \A j \in indexes : start_idx <= j
    BY <1>1, <1>2
  <2> HIDE DEF indexes
  <2> QED
    BY <1>3, <2>1, Zenon
<1>5. start_idx' = start_idx
  BY <1>1, <1>2, <1>4
<1>6. NextSlot' = NextSlot /\ Structure'
  BY <1>5, StoreUnchanged
<1>7. PackFits'
  BY DEF PackFits, Idle, NoPack
<1> QED
  BY <1>5, <1>6, <1>7, Zenon DEF HoldsCommitted, AppliesDecided, commitVars

\* compact() beyond the end leaves an empty log that goes on after last.
LEMMA CompactedStructure ==
  ASSUME Structure, NEW last \in Nat, Compacted(last)
  PROVE  /\ Structure'
         /\ start_idx' = (IF start_idx <= last THEN last + 1 ELSE start_idx)
         /\ NextSlot' = (IF NextSlot <= last THEN last + 1 ELSE NextSlot)
         /\ \A i \in Nat : i > last /\ i \in DOMAIN logs => logs'[i] = logs[i]
<1> DEFINE s == IF start_idx <= last THEN last + 1 ELSE start_idx
           m == IF NextSlot <= last THEN last + 1 ELSE NextSlot
<1>1. s \in Nat \ {0} /\ m \in Nat /\ m >= s /\ start_idx' = s
  BY DEF Compacted, Structure
<1>2. (DOMAIN logs)' = Slots(s, m)
  BY DEF Compacted, Keep, Structure, Slots
<1>3. NextSlot' = m /\ Structure'
  <2> HIDE DEF s, m
  <2> QED
    BY <1>1, <1>2, Restructured
<1>4. \A i \in Nat : i > last /\ i \in DOMAIN logs => logs'[i] = logs[i]
  BY DEF Compacted, Keep
<1> QED
  BY <1>1, <1>3, <1>4

\* compact() up to an index that the state machine has: no committed entry goes that
\* the committing thread still has to read.
LEMMA CompactKeepsIInv ==
  ASSUME IInv, NEW last \in 0..sm_commit_index, Compact(last)
  PROVE  IInv'
<1> USE DEF Compact, IInv
<1>1. last \in Nat /\ last < NextSlot
  BY DEF HoldsCommitted, Structure
<1>2. /\ Structure'
      /\ start_idx' = (IF start_idx <= last THEN last + 1 ELSE start_idx)
      /\ NextSlot' = NextSlot
      /\ \A i \in Nat : i > last /\ i \in DOMAIN logs => logs'[i] = logs[i]
  BY <1>1, CompactedStructure DEF Structure
<1>3. PackFits'
  BY DEF PackFits, Idle
<1>4. \A i \in start_idx'..quick_commit_index : logs'[i] = Decided[i]
  <2> SUFFICES ASSUME NEW i \in start_idx'..quick_commit_index
               PROVE  logs'[i] = Decided[i]
    OBVIOUS
  <2>1. start_idx' \in Nat /\ start_idx' >= start_idx
    BY <1>1, <1>2 DEF Structure
  <2>2. CASE i > last
    <3>1. i \in DOMAIN logs /\ i \in start_idx..quick_commit_index /\ i \in Nat
      BY <2>1, <2>2 DEF Structure, Slots, HoldsCommitted
    <3> QED
      BY <1>2, <2>2, <3>1 DEF HoldsCommitted
  <2>3. CASE ~(i > last)
    <3>1. start_idx > last
      BY <1>1, <1>2, <2>1, <2>3 DEF Structure, HoldsCommitted
    <3> QED
      BY <1>1, <1>2, <2>1, <2>3, <3>1 DEF Structure, HoldsCommitted
  <2> QED
    BY <2>2, <2>3
<1> QED
  BY <1>1, <1>2, <1>3, <1>4 DEF HoldsCommitted, AppliesDecided, commitVars, Structure

\* A snapshot from the leader: the state machine is then at least as far as the log
\* begins.
LEMMA InstallSnapshotKeepsIInv ==
  ASSUME IInv, NEW last \in 1..MaxIndex, InstallSnapshot(last)
  PROVE  IInv'
<1> USE DEF InstallSnapshot, SnapshotIsNewer, IInv
<1>1. last \in Nat
  BY IndexAssumption
<1>2. /\ Structure'
      /\ start_idx' = (IF start_idx <= last THEN last + 1 ELSE start_idx)
      /\ NextSlot' = (IF NextSlot <= last THEN last + 1 ELSE NextSlot)
  BY <1>1, CompactedStructure
<1>3. PackFits'
  BY DEF PackFits, Idle
<1>4. start_idx' = last + 1
  BY <1>1, <1>2 DEF HoldsCommitted, Structure
<1> QED
  BY <1>1, <1>2, <1>3, <1>4, IndexAssumption DEF HoldsCommitted, AppliesDecided, Structure

----------------------------------------------------------------------------
(* The actions that leave logs_ and start_idx_ alone, and all together.    *)

\* A step that changes nothing but the disk emulation.
LEMMA OtherKeepsIInv ==
  ASSUME IInv, UNCHANGED <<storeVars, commitVars>>
  PROVE  IInv'
<1>1. NextSlot' = NextSlot /\ Structure'
  BY StoreUnchanged DEF IInv, storeVars
<1> QED
  BY <1>1 DEF IInv, PackFits, Idle, HoldsCommitted, AppliesDecided, storeVars, commitVars

\* Every critical section of logs_lock_ preserves the invariant.
LEMMA IInvInductive ==
  ASSUME IInv, [Next]_vars
  PROVE  IInv'
<1>1. ASSUME NEW entry \in Entries, AppendEntry(entry) PROVE IInv'
  BY <1>1, AppendKeepsIInv
<1>2. ASSUME NEW index \in start_idx..(NextSlot - 1), NEW entry \in Entries,
             WriteAt(index, entry)
      PROVE  IInv'
  BY <1>2, WriteAtKeepsIInv
<1>3. ASSUME NEW index \in start_idx..NextSlot, NEW cnt \in 1..MaxIndex,
             ApplyPack(index, cnt)
      PROVE  IInv'
  <2>1. NextSlot' = NextSlot /\ Structure'
    BY <1>3, StoreUnchanged DEF IInv, ApplyPack
  <2>2. index \in Nat /\ cnt \in Nat /\ index + cnt <= MaxIndex + 1 /\ cnt > 0
    BY <1>3, IndexAssumption DEF IInv, Structure, ApplyPack
  <2>3. PackFits'
    BY <1>3, <2>1, <2>2, IndexAssumption DEF IInv, Structure, PackFits, ApplyPack
  <2> QED
    BY <1>3, <2>1, <2>3 DEF IInv, HoldsCommitted, AppliesDecided, ApplyPack, commitVars
<1>4. ASSUME ApplyPackEntry PROVE IInv'
  BY <1>4, ApplyPackEntryKeepsIInv
<1>5. ASSUME ApplyPackEnd PROVE IInv'
  BY <1>5, ApplyPackEndKeepsIInv
<1>6. ASSUME NEW last \in 0..sm_commit_index, Compact(last) PROVE IInv'
  BY <1>6, CompactKeepsIInv
<1>7. ASSUME NEW last \in 1..MaxIndex, InstallSnapshot(last) PROVE IInv'
  BY <1>7, InstallSnapshotKeepsIInv
<1>8. ASSUME SetDiskDelay PROVE IInv'
  BY <1>8, OtherKeepsIInv DEF SetDiskDelay
<1>9. ASSUME Flush PROVE IInv'
  BY <1>9, OtherKeepsIInv DEF Flush
<1>10. ASSUME NEW n \in DOMAIN being_written, DiskEmulLoop(n) PROVE IInv'
  BY <1>10, OtherKeepsIInv DEF DiskEmulLoop
<1>11. ASSUME AdvanceCommit PROVE IInv'
  <2>1. NextSlot' = NextSlot /\ Structure'
    BY <1>11, StoreUnchanged DEF IInv, AdvanceCommit, storeVars
  <2>2. PackFits'
    BY <1>11, <2>1 DEF IInv, PackFits, Idle, AdvanceCommit, storeVars
  <2>3. quick_commit_index + 1 >= start_idx => quick_commit_index + 1 \in DOMAIN logs
    BY <1>11 DEF IInv, Structure, Slots, HoldsCommitted, AdvanceCommit
  <2>4. logs[quick_commit_index + 1] = Decided[quick_commit_index + 1]
    BY <1>11, <2>3 DEF IInv, HoldsCommitted, Structure, AdvanceCommit, EntryAt
  <2>5. quick_commit_index + 1 <= MaxIndex
    BY <1>11, IndexAssumption DEF IInv, Structure, HoldsCommitted, AdvanceCommit
  <2> QED
    BY <1>11, <2>1, <2>2, <2>4, <2>5
    DEF IInv, HoldsCommitted, AppliesDecided, AdvanceCommit, storeVars, Structure
<1>12. ASSUME CommitCheck PROVE IInv'
  <2>1. NextSlot' = NextSlot /\ Structure'
    BY <1>12, StoreUnchanged DEF IInv, CommitCheck, storeVars
  <2> QED
    BY <1>12, <2>1
    DEF IInv, PackFits, Idle, HoldsCommitted, AppliesDecided, CommitCheck, storeVars
<1>13. ASSUME CommitEntry PROVE IInv'
  <2>1. NextSlot' = NextSlot /\ Structure'
    BY <1>13, StoreUnchanged DEF IInv, CommitEntry, storeVars
  <2>2. committing \in DOMAIN logs /\ committing \in start_idx..quick_commit_index
    BY <1>13 DEF IInv, HoldsCommitted, Structure, Slots, CommitEntry
  <2>3. applied' = Decided[committing] /\ sm_commit_index' = committing
    BY <1>13, <2>2 DEF IInv, HoldsCommitted, EntryAt, CommitEntry
  <2>4. PackFits'
    BY <1>13, <2>1 DEF IInv, PackFits, Idle, CommitEntry, storeVars
  <2> QED
    BY <1>13, <2>1, <2>2, <2>3, <2>4
    DEF IInv, HoldsCommitted, AppliesDecided, CommitEntry, storeVars, Structure
<1>14. ASSUME UNCHANGED vars PROVE IInv'
  BY <1>14, OtherKeepsIInv DEF vars
<1> QED
  BY <1>1, <1>2, <1>3, <1>4, <1>5, <1>6, <1>7, <1>8, <1>9, <1>10, <1>11, <1>12,
     <1>13, <1>14, SMTT(30) DEF Next

\* The store and its users always have the invariant.
LEMMA IInvInvariant == Spec => []IInv
  BY InitIInv, IInvInductive, PTL DEF Spec

\* For every MaxIndex and every log that Raft decides, the index that next_slot()
\* and append() compute from the size of logs_ is the one after the last entry.
THEOREM NoGaps == Spec => []NoGap
<1>1. IInv => NoGap
  BY DEF IInv, Structure, Slots, NoGap
<1> QED
  BY <1>1, IInvInvariant, PTL

\* For every MaxIndex and every log that Raft decides, the committing thread hands
\* the state machine only decided entries, however its two critical sections
\* interleave with append(), write_at(), apply_pack() and compact().
THEOREM OnlyDecidedApplied == Spec => []AppliesDecided
<1>1. IInv => AppliesDecided
  BY DEF IInv, HoldsCommitted
<1> QED
  BY <1>1, IInvInvariant, PTL

=============================================================================
