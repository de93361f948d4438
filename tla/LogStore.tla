------------------------------ MODULE LogStore ------------------------------
(***************************************************************************)
(* inmem_log_store (src/raft/in_memory_log_store.cc) and the threads that  *)
(* use it.  NuRaft's server calls the operations that change the store     *)
(* with its own lock held, one after the other.  Two more threads take     *)
(* only logs_lock_: the one that commits, which reads next_slot() and then *)
(* entry_at(), and the one that emulates the disk.  Each step below is one *)
(* critical section of logs_lock_; apply_pack() has one for every entry.   *)
(*                                                                         *)
(* Raft agrees on one entry for each index.  Decided is that entry, known  *)
(* in advance; quick_commit_index is how far this server knows it.         *)
(***************************************************************************)
EXTENDS Integers, Sequences, FiniteSets, SequencesExt

CONSTANTS
  Entries,     \* the log entries
  Dummy,       \* the entry of index 0, with term 0
  Decided,     \* index -> the entry that Raft agrees on
  MaxIndex,    \* bound: the indexes of the log
  Emulation    \* what else NuRaft calls than append() while the disk is emulated

ASSUME IndexAssumption == MaxIndex \in Nat

ASSUME EntriesAssumption == Decided \in [1..MaxIndex -> Entries] /\ Dummy \notin Entries

ASSUME EmulationAssumption == Emulation \subseteq {"write_at", "flush"}

VARIABLES
  logs,           \* logs_: index -> entry, with the dummy entry at 0
  start_idx,      \* start_idx_
  pack,           \* apply_pack() under way: its next index and the one after its last
  emulated,       \* disk_emul_delay is not zero
  being_written,  \* disk_emul_logs_being_written_: the indexes in the order of their times
  durable,        \* disk_emul_last_durable_index_
  quick_commit_index,
  sm_commit_index,  \* the last index that the state machine got
  committing,       \* the index that the committing thread is about to read, or 0
  applied           \* the entry that the state machine got last

storeVars == <<logs, start_idx, pack>>
diskVars == <<emulated, being_written, durable>>
commitVars == <<quick_commit_index, sm_commit_index, committing, applied>>
vars == <<storeVars, diskVars, commitVars>>

NoPack == [next |-> 0, end |-> 0]

Idle == pack = NoPack

----------------------------------------------------------------------------

\* Excludes the dummy entry.
NextSlot == start_idx + Cardinality(DOMAIN logs) - 1

EntryAt(index) == IF index \in DOMAIN logs THEN logs[index] ELSE Dummy

Put(index, entry) ==
  [i \in DOMAIN logs \cup {index} |-> IF i = index THEN entry ELSE logs[i]]

Keep(indexes) == [i \in DOMAIN logs \cap indexes |-> logs[i]]

\* The map from times to indexes after an entry for index is made: it comes last,
\* or replaces the last one if the clock has not moved on since then.
Queued(index) ==
  LET earlier == {being_written} \cup (IF being_written = <<>> THEN {}
                                      ELSE {Front(being_written)})
  IN  IF emulated THEN {Append(queue, index) : queue \in earlier} ELSE {being_written}

Init ==
  /\ logs = [i \in {0} |-> Dummy]
  /\ start_idx = 1
  /\ pack = NoPack
  /\ emulated = FALSE /\ being_written = <<>> /\ durable = 0
  /\ quick_commit_index = 0 /\ sm_commit_index = 0
  /\ committing = 0 /\ applied = Dummy

AppendEntry(entry) ==
  /\ Idle
  /\ NextSlot <= MaxIndex
  /\ logs' = Put(NextSlot, entry)
  /\ being_written' \in Queued(NextSlot)
  /\ UNCHANGED <<start_idx, pack, emulated, durable, commitVars>>

\* Mutant: the entry before index is discarded, too.
WriteAtFromBefore(index, entry) ==
  /\ Idle
  /\ index > quick_commit_index
  /\ logs' = [i \in {j \in DOMAIN logs : j < index - 1} \cup {0, index} |->
                IF i = index THEN entry ELSE logs[i]]
  /\ UNCHANGED <<start_idx, pack, diskVars, commitVars>>

\* Mutant: the entries after index stay.
WriteAtKeepsTail(index, entry) ==
  /\ Idle
  /\ index > quick_commit_index
  /\ logs' = Put(index, entry)
  /\ UNCHANGED <<start_idx, pack, diskVars, commitVars>>

\* Raft overwrites no entry that is committed.
WriteAt(index, entry) ==
  /\ Idle
  /\ index > quick_commit_index
  /\ emulated => "write_at" \in Emulation
  /\ logs' = [i \in {j \in DOMAIN logs : j < index} \cup {index} |->
                IF i = index THEN entry ELSE logs[i]]
  /\ \E queue \in Queued(index) :
        being_written' = SelectSeq(queue, LAMBDA i : i <= index)
  /\ UNCHANGED <<start_idx, pack, emulated, durable, commitVars>>

----------------------------------------------------------------------------
(* apply_pack(): the leader packs one or more decided entries, from an     *)
(* index that the store has told it.  A repeated or late pack overlaps the *)
(* log.                                                                    *)

ApplyPack(index, cnt) ==
  /\ Idle
  /\ index + cnt - 1 <= MaxIndex
  /\ pack' = [next |-> index, end |-> index + cnt]
  /\ UNCHANGED <<logs, start_idx, diskVars, commitVars>>

ApplyPackEntry ==
  /\ ~Idle
  /\ pack.next < pack.end
  /\ logs' = Put(pack.next, Decided[pack.next])
  /\ pack' = [pack EXCEPT !.next = @ + 1]
  /\ UNCHANGED <<start_idx, diskVars, commitVars>>

\* Mutant: the dummy entry counts as the first one.
ApplyPackEndAtDummy ==
  /\ ~Idle
  /\ pack.next = pack.end
  /\ start_idx' = CHOOSE i \in DOMAIN logs : \A j \in DOMAIN logs : i <= j
  /\ pack' = NoPack
  /\ UNCHANGED <<logs, diskVars, commitVars>>

ApplyPackEnd ==
  LET indexes == DOMAIN logs \ {0}
  IN  /\ ~Idle
      /\ pack.next = pack.end
      /\ start_idx' = IF indexes = {} THEN 1
                      ELSE CHOOSE i \in indexes : \A j \in indexes : i <= j
      /\ pack' = NoPack
      /\ UNCHANGED <<logs, diskVars, commitVars>>

----------------------------------------------------------------------------
(* compact(), up to an index that the state machine has in a snapshot of   *)
(* its own, or in a snapshot that the leader sent.                         *)

\* Mutant: the entry of index last stays.
CompactedBeforeLast(last) ==
  /\ logs' = Keep({i \in DOMAIN logs : i < start_idx \/ i >= last})
  /\ start_idx' = IF start_idx <= last THEN last + 1 ELSE start_idx

\* Mutant: the entries after last go, too.
CompactedAll(last) ==
  /\ logs' = Keep({0})
  /\ start_idx' = IF start_idx <= last THEN last + 1 ELSE start_idx

Compacted(last) ==
  /\ logs' = Keep({i \in DOMAIN logs : i < start_idx \/ i > last})
  /\ start_idx' = IF start_idx <= last THEN last + 1 ELSE start_idx

Compact(last) ==
  /\ Idle
  /\ Compacted(last)
  /\ UNCHANGED <<pack, diskVars, commitVars>>

\* A snapshot that is not newer than the commit index is declined.
SnapshotIsNewer(last) == last > quick_commit_index

\* The committing thread is paused meanwhile.  The server checks the snapshot, gives
\* up its lock to wait for the pause, and takes it again to install.  Here this is
\* one step, on the assumption that nothing is committed in between: the leader has
\* one request at a time under way to a server, and a newer leader is left out.
InstallSnapshot(last) ==
  /\ Idle
  /\ committing = 0
  /\ SnapshotIsNewer(last)
  /\ Compacted(last)
  /\ quick_commit_index' = last
  /\ sm_commit_index' = last
  /\ applied' = Decided[last]
  /\ UNCHANGED <<pack, diskVars, committing>>

----------------------------------------------------------------------------
(* The disk.                                                               *)

\* Called before the store is used, if at all.
SetDiskDelay ==
  /\ Idle
  /\ ~emulated
  /\ NextSlot = 1
  /\ emulated' = TRUE
  /\ UNCHANGED <<storeVars, being_written, durable, commitVars>>

Flush ==
  /\ Idle
  /\ emulated => "flush" \in Emulation
  /\ durable' = NextSlot - 1
  /\ UNCHANGED <<storeVars, emulated, being_written, commitVars>>

\* Mutant: the last index that becomes durable stays in the map.
DiskEmulLoopKeepsLast(n) ==
  /\ durable' = being_written[n]
  /\ being_written' = SubSeq(being_written, n, Len(being_written))
  /\ UNCHANGED <<storeVars, emulated, commitVars>>

\* Mutant: the durable index is not set.
DiskEmulLoopForgets(n) ==
  /\ being_written' = SubSeq(being_written, n + 1, Len(being_written))
  /\ UNCHANGED <<storeVars, emulated, durable, commitVars>>

\* One round of disk_emul_loop() that finds the first n times passed.
DiskEmulLoop(n) ==
  /\ durable' = being_written[n]
  /\ being_written' = SubSeq(being_written, n + 1, Len(being_written))
  /\ UNCHANGED <<storeVars, emulated, commitVars>>

----------------------------------------------------------------------------
(* Commits.                                                                *)

\* The server learns that the next entry of its log is committed.  A commit of several
\* entries is as many steps.  That the entry is the decided one is Raft's agreement,
\* an assumption here: commit() does not look at the entry, and a joining server
\* commits all that it has been sent.
AdvanceCommit ==
  /\ Idle
  /\ quick_commit_index + 1 < NextSlot
  /\ EntryAt(quick_commit_index + 1) = Decided[quick_commit_index + 1]
  /\ quick_commit_index' = quick_commit_index + 1
  /\ UNCHANGED <<storeVars, diskVars, sm_commit_index, committing, applied>>

\* The committing thread finds that there is an entry to commit ...
CommitCheck ==
  /\ committing = 0
  /\ sm_commit_index < quick_commit_index
  /\ sm_commit_index < NextSlot - 1
  /\ committing' = sm_commit_index + 1
  /\ UNCHANGED <<storeVars, diskVars, quick_commit_index, sm_commit_index, applied>>

\* ... and reads it in another critical section.  The server exits when it finds an
\* entry of term 0, the dummy.  Here the state machine would get it, so that
\* AppliesDecided also says that the server never has to exit.
CommitEntry ==
  /\ committing # 0
  /\ applied' = EntryAt(committing)
  /\ sm_commit_index' = committing
  /\ committing' = 0
  /\ UNCHANGED <<storeVars, diskVars, quick_commit_index>>

Next ==
  \/ \E entry \in Entries : AppendEntry(entry)
  \/ \E index \in start_idx..(NextSlot - 1), entry \in Entries : WriteAt(index, entry)
  \/ \E index \in start_idx..NextSlot, cnt \in 1..MaxIndex : ApplyPack(index, cnt)
  \/ ApplyPackEntry
  \/ ApplyPackEnd
  \/ \E last \in 0..sm_commit_index : Compact(last)
  \/ \E last \in 1..MaxIndex : InstallSnapshot(last)
  \/ SetDiskDelay
  \/ Flush
  \/ \E n \in DOMAIN being_written : DiskEmulLoop(n)
  \/ AdvanceCommit
  \/ CommitCheck
  \/ CommitEntry

Spec == Init /\ [][Next]_vars

\* The disk thread wakes up after at most 100 ms, the committing thread is woken
\* when there is something to commit, and apply_pack() runs to its end.
FairSpec ==
  /\ Spec
  /\ WF_vars(\E n \in DOMAIN being_written : DiskEmulLoop(n))
  /\ WF_vars(CommitCheck) /\ WF_vars(CommitEntry)
  /\ WF_vars(ApplyPackEntry) /\ WF_vars(ApplyPackEnd)

----------------------------------------------------------------------------
(* Properties.                                                             *)

\* The members of the store and of its users have their types.
TypeOK ==
  /\ DOMAIN logs \subseteq Nat
  /\ logs \in [DOMAIN logs -> Entries \cup {Dummy}]
  /\ start_idx \in Nat \ {0}
  /\ pack \in [next : Nat, end : Nat]
  /\ emulated \in BOOLEAN
  /\ being_written \in Seq(Nat)
  /\ durable \in Int
  /\ quick_commit_index \in 0..MaxIndex /\ sm_commit_index \in 0..MaxIndex
  /\ committing \in 0..MaxIndex
  /\ applied \in Entries \cup {Dummy}

\* next_slot() and append() compute an index from the size of logs_.  It is the
\* index after the last entry: logs_ has the dummy entry and every index from
\* start_idx_ on, with no gap, also in the middle of apply_pack().
NoGap == DOMAIN logs = {0} \cup (start_idx..(NextSlot - 1))

\* The committing thread never hands the state machine the dummy entry or an entry
\* that Raft has not agreed on, although the log is compacted, overwritten and
\* synchronised between its call of next_slot() and its call of entry_at().
AppliesDecided == sm_commit_index > 0 => applied = Decided[sm_commit_index]

\* An index counts as durable only when its entry is no longer being written:
\* "Log index will be regarded as "durable" after the corresponding timestamp."
NotDurableEarly ==
  emulated => \A n \in DOMAIN being_written : being_written[n] > durable

Log == INSTANCE RaftLog WITH
         first <- start_idx,
         log <- [k \in 1..(NextSlot - start_idx) |-> EntryAt(start_idx + k - 1)]

\* The map with its dummy entry behaves like the sequence of RaftLog.
ImplementsRaftLog == Log!Spec

\* An index that is being written becomes durable.
BecomesDurable ==
  \A index \in 1..MaxIndex :
    (\E n \in DOMAIN being_written : being_written[n] = index) ~>
      durable >= index

\* What is committed reaches the state machine.
CommittedIsApplied ==
  \A index \in 1..MaxIndex :
    quick_commit_index >= index ~> sm_commit_index >= index

=============================================================================
