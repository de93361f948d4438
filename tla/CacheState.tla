----------------------------- MODULE CacheState -----------------------------
(***************************************************************************)
(* cache_state (src/cache/cache_state.cc) with its two storages: storage_  *)
(* and, while a snapshot is in progress, the snapshot_storage that takes   *)
(* the commits (src/cache/snapshot_storage.cc) and the events from which   *)
(* end_snapshot replays them.  cache_lock_ makes each commit, begin and    *)
(* end of a snapshot one step.  commit_purge_expired and                   *)
(* read_snapshot_chunk take no lock: they are one step each here, as they  *)
(* are when their caller does not overlap them with a commit.              *)
(*                                                                         *)
(* plain is a history variable: the storage_ of a cache that got the same  *)
(* commits and no snapshot.  image is storage_ as begin_snapshot found it. *)
(***************************************************************************)
EXTENDS CacheStorageOps

CONSTANTS
  MaxTime,        \* bound: the times of commits
  MaxExpiry,      \* bound: the expiry times of items
  MaxEvents,      \* bound: the commits during one snapshot
  ItemHeader,     \* the bytes of a chunk's item beside its key and its data
  ChunkSize,      \* the chunk_size that the reader of the snapshot passes
  Avoided         \* what clients do not do while a snapshot is in progress

ASSUME BoundsAssumption ==
  /\ MaxTime \in Nat /\ MaxExpiry \in Nat /\ MaxEvents \in Nat
  /\ ItemHeader \in Nat /\ ChunkSize \in Nat

ASSUME AvoidedAssumption ==
  Avoided \subseteq {"overwrite", "fill", "rewrite_expired", "read_evicted"}

VARIABLES
  snapshot_in_progress,
  storage,      \* storage_
  overlay,      \* the cache_storage members of snapshot_storage_
  events,       \* snapshot_storage_.events_
  commit_code,  \* commit_code_
  item_index,   \* where the reader of the snapshot is, -1 when it is done
  received,     \* the items that the chunks so far held
  now, plain, image

snapshotVars == <<snapshot_in_progress, item_index, received, image>>
vars == <<snapshotVars, storage, overlay, events, commit_code, now, plain>>

Times == now..MaxTime

Undefined == storage.undefined \/ overlay.undefined

\* The commit_code_ of a storage is read right after the commit that sets it, and
\* copied: nothing depends on it later.
Settled(s) == [s EXCEPT !.commit_code = "DONE_OK"]

Contents(s) == [i \in DOMAIN s.items |-> s.node[s.items[i]]]

----------------------------------------------------------------------------
(* snapshot_storage.                                                       *)

\* Mutant: get_item() does not look at the frozen storage.
SnapshotHasOwnOnly(key, at) == Has(overlay, key, at)

\* get_item(): its own item, or that of the frozen storage.
SnapshotHas(key, at) == Has(overlay, key, at) \/ Has(storage, key, at)

SnapshotGetItem(key, at) ==
  IF Has(overlay, key, at) THEN GetItem(overlay, key) ELSE GetItem(storage, key)

\* A snapshot_event holds pointers: key points into item_map_ of the storage
\* owner, item to a node of the overlay.  A null pointer is Freed, too.
Event(type, key, owner, item, at) ==
  [type |-> type, key |-> key, owner |-> owner, item |-> item, created_at |-> at]

\* The pointers that dangle once the overlay has evicted down to `after`.
DangleEvents(after) ==
  [i \in DOMAIN events |->
    LET e == events[i]
    IN  [e EXCEPT
          !.key = IF e.owner = "overlay" /\ @ \notin DOMAIN after.item_map THEN Freed ELSE @,
          !.item = IF @ \in DOMAIN after.node THEN @ ELSE Freed]]

\* Mutant: reads leave no event.
SnapshotReadUnrecorded(key, at) ==
  /\ commit_code' = IF SnapshotHas(key, at) THEN "DONE_OK" ELSE "NOT_FOUND"
  /\ UNCHANGED events

SnapshotRead(key, at) ==
  LET owner == IF Has(overlay, key, at) THEN "overlay" ELSE "storage"
  IN  IF SnapshotHas(key, at)
      THEN /\ events' = Append(events, Event("READ", key, owner, Freed, at))
           /\ commit_code' = "DONE_OK"
      ELSE /\ commit_code' = "NOT_FOUND"
           /\ UNCHANGED events

SnapshotRequiredMemory(key, data, at) ==
  ToInt(GetItemSize(key, data)
        - (IF SnapshotHas(key, at)
           THEN GetItemSize(key, SnapshotGetItem(key, at).data) ELSE 0))

\* commit_write() of the base class with get_item(), insert_item() and
\* update_item() of snapshot_storage.  Its evict_lru_data(int) overrides nothing,
\* so the overlay evicts like any storage.
SnapshotWrite(key, data, expires_at, at) ==
  LET evicted == EvictLruData(overlay, key, SnapshotRequiredMemory(key, data, at))
      update == Has(evicted, key, at)
      item == IF update THEN evicted.item_map[key].item_iter ELSE FreeNode(evicted, key)
  IN  IF KeySize[key] > MaxKeySize \/ expires_at <= at
      THEN /\ commit_code' = IF KeySize[key] > MaxKeySize THEN "KEY_TOO_BIG"
                             ELSE "WRONG_EXPIRY"
           /\ UNCHANGED <<overlay, events>>
      ELSE /\ overlay' = IF evicted.undefined THEN evicted
                         ELSE IF update THEN UpdateItem(evicted, key, data, expires_at)
                         ELSE InsertItem(evicted, key, data, expires_at)
           /\ events' = Append(DangleEvents(evicted),
                               Event("WRITE", key, "overlay", item, at))
           /\ commit_code' = "DONE_OK"

----------------------------------------------------------------------------
(* end_snapshot(): the loop over the events.  erased holds the keys whose  *)
(* item_map_ node has been erased since the events were recorded.          *)

ReplayEvent(loop, e) ==
  LET s == loop.storage
      dangling == \/ e.type # "PURGE" /\ (e.key = Freed \/ (e.owner = "storage"
                                                          /\ e.key \in loop.erased))
                  \/ e.type = "WRITE" /\ e.item = Freed
      after == CASE e.type = "READ" -> CommitRead(s, e.key, e.created_at)
                 [] e.type = "WRITE" -> CommitWrite(s, e.key, overlay.node[e.item].data,
                                          overlay.node[e.item].expires_at, e.created_at)
                 [] e.type = "PURGE" -> CommitPurge(s, e.created_at)
  IN  IF s.undefined THEN loop
      ELSE IF dangling THEN [loop EXCEPT !.storage.undefined = TRUE]
      ELSE [storage |-> after,
            erased |-> loop.erased \cup (DOMAIN s.item_map \ DOMAIN after.item_map)]

Replay == FoldLeft(ReplayEvent, [storage |-> storage, erased |-> {}], events).storage

----------------------------------------------------------------------------
(* read_snapshot_chunk().                                                  *)

SerializedSize(item) == ItemHeader + KeySize[item.key] + DataSize[item.data]

BytesOf(contents, from, to) ==
  FoldLeft(LAMBDA sum, item : sum + SerializedSize(item), 0, SubSeq(contents, from, to))

\* Mutant: an item that fills the chunk to its last byte does not fit.
ChunkEndBelowSize(contents, from) ==
  CHOOSE to \in from..Len(contents) :
    /\ BytesOf(contents, from + 1, to) < ChunkSize
    /\ to < Len(contents) => BytesOf(contents, from + 1, to + 1) >= ChunkSize

\* The index of the last item of the chunk that starts after `from` items.
ChunkEnd(contents, from) ==
  CHOOSE to \in from..Len(contents) :
    /\ BytesOf(contents, from + 1, to) <= ChunkSize
    /\ to < Len(contents) => BytesOf(contents, from + 1, to + 1) > ChunkSize

----------------------------------------------------------------------------

Init ==
  /\ snapshot_in_progress = FALSE
  /\ storage = EmptyStorage("DONE_OK")
  /\ overlay = EmptyStorage("DONE_OK")
  /\ plain = EmptyStorage("DONE_OK")
  /\ events = <<>>
  /\ commit_code \in CommitResults
  /\ item_index = -1
  /\ received = <<>>
  /\ image = <<>>
  /\ now = 0

Read(key, at) ==
  /\ ~Undefined
  /\ Len(events) < MaxEvents
  /\ snapshot_in_progress /\ "read_evicted" \in Avoided =>
        (Has(storage, key, at) => Has(plain, key, at))
  /\ now' = at
  /\ plain' = Settled(CommitRead(plain, key, at))
  /\ IF snapshot_in_progress
     THEN SnapshotRead(key, at) /\ UNCHANGED storage
     ELSE /\ storage' = Settled(CommitRead(storage, key, at))
          /\ commit_code' = IF Has(storage, key, at) THEN "DONE_OK" ELSE "NOT_FOUND"
          /\ UNCHANGED events
  /\ UNCHANGED <<snapshotVars, overlay>>

\* No client writes a key while its expired item is resident in a cache without
\* snapshots; CacheStorage shows what happens then.  The members of Avoided exclude,
\* during a snapshot: a second write of a key, a write that fills the overlay, and a
\* write of a key whose expired item the overlay still has because the purge was
\* only recorded.
ClientMayWrite(key, data, at) ==
  /\ key \in DOMAIN plain.item_map => Has(plain, key, at)
  /\ "overwrite" \in Avoided => ~Has(overlay, key, at)
  /\ "fill" \in Avoided => overlay.used_memory + GetItemSize(key, data) <= CacheSize
  /\ "rewrite_expired" \in Avoided => (key \in DOMAIN overlay.item_map => Has(overlay, key, at))

Write(key, data, expires_at, at) ==
  LET committed == CommitWrite(storage, key, data, expires_at, at)
  IN  /\ ~Undefined
      /\ Len(events) < MaxEvents
      /\ HasFreeNode(overlay, key) /\ HasFreeNode(storage, key)
      /\ ClientMayWrite(key, data, at)
      /\ now' = at
      /\ plain' = Settled(CommitWrite(plain, key, data, expires_at, at))
      /\ IF snapshot_in_progress
         THEN SnapshotWrite(key, data, expires_at, at) /\ UNCHANGED storage
         ELSE /\ storage' = Settled(committed)
              /\ commit_code' = committed.commit_code
              /\ UNCHANGED <<overlay, events>>
      /\ UNCHANGED snapshotVars

\* Mutant: the snapshot storage does not defer purges.
PurgeInPlace(at) ==
  /\ ~Undefined
  /\ Len(events) < MaxEvents
  /\ now' = at
  /\ plain' = CommitPurge(plain, at)
  /\ storage' = CommitPurge(storage, at)
  /\ UNCHANGED <<snapshotVars, overlay, commit_code, events>>

Purge(at) ==
  /\ ~Undefined
  /\ Len(events) < MaxEvents
  /\ now' = at
  /\ plain' = CommitPurge(plain, at)
  /\ IF snapshot_in_progress
     THEN /\ events' = Append(events, Event("PURGE", Freed, "overlay", Freed, at))
          /\ UNCHANGED storage
     ELSE /\ storage' = CommitPurge(storage, at)
          /\ UNCHANGED events
  /\ UNCHANGED <<snapshotVars, overlay, commit_code>>

\* A second begin_snapshot() would set the flag again and change nothing.
BeginSnapshot ==
  /\ ~Undefined
  /\ ~snapshot_in_progress
  /\ snapshot_in_progress' = TRUE
  /\ image' = Contents(storage)
  /\ item_index' = 0
  /\ received' = <<>>
  /\ UNCHANGED <<storage, overlay, events, commit_code, now, plain>>

\* The reader asks for chunks between the begin and the end of the snapshot.
ReadSnapshotChunk ==
  LET contents == Contents(storage)
      to == ChunkEnd(contents, item_index)
  IN  /\ ~Undefined
      /\ snapshot_in_progress
      /\ item_index # -1
      /\ received' = received \o SubSeq(contents, item_index + 1, to)
      /\ item_index' = IF to = Len(contents) THEN -1 ELSE to
      /\ UNCHANGED <<snapshot_in_progress, image, storage, overlay, events, commit_code,
                     now, plain>>

\* Without a snapshot there is no event to replay and nothing to clear.
EndSnapshot ==
  /\ ~Undefined
  /\ snapshot_in_progress
  /\ storage' = Settled(Replay)
  /\ overlay' = EmptyStorage(overlay.commit_code)
  /\ events' = <<>>
  /\ snapshot_in_progress' = FALSE
  /\ item_index' = -1 /\ received' = <<>> /\ image' = <<>>
  /\ UNCHANGED <<commit_code, now, plain>>

Next ==
  \/ \E key \in Keys, at \in Times : Read(key, at)
  \/ \E key \in Keys, data \in Data, expires_at \in 0..MaxExpiry, at \in Times :
        Write(key, data, expires_at, at)
  \/ \E at \in Times : Purge(at)
  \/ BeginSnapshot
  \/ ReadSnapshotChunk
  \/ EndSnapshot

Spec == Init /\ [][Next]_vars

\* The reader of a snapshot asks for chunks until it has read them all.
FairSpec == Spec /\ WF_vars(ReadSnapshotChunk)

----------------------------------------------------------------------------
(* Properties.                                                             *)

\* Both storages have their types, and so have the events of the snapshot.
TypeOK ==
  /\ StorageType(storage) /\ StorageType(overlay) /\ StorageType(plain)
  /\ snapshot_in_progress \in BOOLEAN
  /\ events \in Seq([type : {"READ", "WRITE", "PURGE"}, key : Keys \cup {Freed},
                     owner : {"storage", "overlay"}, item : Addr \cup {Freed},
                     created_at : Nat])
  /\ item_index \in Int /\ now \in Nat

\* The containers agree in storage_ and in the overlay, also after end_snapshot
\* has replayed the events into storage_.
BothIndexesAgree == WellFormed(storage) /\ WellFormed(overlay)

\* Once the snapshot is over the cache holds what it would hold, in the same
\* order, had there been no snapshot: "evictions will be applied in the right
\* order as expected if no snapshot happened".  In particular end_snapshot
\* follows no event to a key or to an item that has been deleted.
Transparent ==
  ~snapshot_in_progress => /\ ~Undefined
                           /\ Contents(storage) = Contents(plain)
                           /\ storage.used_memory = plain.used_memory

\* During a snapshot a read finds every item that it would find without one,
\* with the data last written.
NothingLost ==
  snapshot_in_progress /\ ~Undefined =>
    \A key \in Keys : Has(plain, key, now) =>
      /\ SnapshotHas(key, now)
      /\ SnapshotGetItem(key, now).data = GetItem(plain, key).data

\* The overlay keeps every item until the end of the snapshot: "Does nothing,
\* eviction is disabled when snapshot is in progress".
NoEvictionInSnapshot ==
  [][snapshot_in_progress' => DOMAIN overlay.item_map \subseteq DOMAIN overlay'.item_map]_vars

\* What the reader of the snapshot has received is storage_ as begin_snapshot
\* found it, from the most recently used item on, each item once, while commits
\* go on.
ReceivesImage ==
  snapshot_in_progress =>
    received = SubSeq(image, 1, IF item_index = -1 THEN Len(image) ELSE item_index)

\* A snapshot that is begun is read to its end, also with chunks that are only just
\* big enough: "Must be big enough to contain the biggest object the cache can store
\* at minimum."
SnapshotIsRead == snapshot_in_progress ~> (item_index = -1)

=============================================================================
