# A TLA+ model of lrucache

This directory models the cache of this repository in TLA+. TLC checks the
modules on small instances, and TLAPS proves the central invariants for every
value of the constants. Paths below are relative to `src/libs/lrucache/`.

## The system

| Part | State | Operations | What makes it hard | What must hold |
|---|---|---|---|---|
| `cache_storage` (`src/cache/cache_storage.*`, `cache_item.hxx`) | `items_` (a list, most recently used first), `item_map_` (key to three iterators), `expiry_buckets_` (purge time to a list of pointers to keys), `used_memory_`, `commit_code_` | `commit_read`, `commit_write` (evicts first), `commit_purge`, `evict_lru_data`, `clear`, `read` | Three containers hold iterators and pointers into each other; expired items stay until a purge; sizes narrow to `int` | The containers agree, memory is counted and bounded, eviction takes the least recently used items |
| `snapshot_storage`, `snapshot_event` (`src/cache/snapshot_*`) | An overlay (a `cache_storage`) and `events_`, with pointers to keys and items | The same commits, redirected | Events point to things that later commits change or free | Reads see what they would see without a snapshot |
| `cache_state` (`src/cache/cache_state.*`) | `snapshot_in_progress_`, both storages, `commit_code_`, `cache_lock_` | Commits, `begin_snapshot`, `read_snapshot_chunk`, `end_snapshot` (replays the events) | Deferred commits; a reader that resumes by index; operations that take no lock | A snapshot is transparent and complete |
| Raft log store (`src/raft/in_memory_log_store.*`) | `logs_`, `start_idx_`, `logs_being_written_`, durable index | `append`, `write_at`, `pack`, `apply_pack`, `compact`, readers, disk emulation | A lock per entry, not per call; gaps; overwritten suffixes | Indexes are contiguous, readers get what was appended |
| `cache_state_machine` (`src/raft/cache_state_machine.*`) | A `cache_state`, the last committed index | `encode_log`, `decode_log`, `commit`, `commit_config` | The bytes written must be the bytes read | A log decodes to the operation that was encoded |
| `network_manager`, dispatcher, handlers | A thread pool, a table of handlers | `listen`, `handle_connection`, `dispatch` | Messages arrive in pieces; one worker per connection | Each message is dispatched once, whole |
| `raft_manager`, state manager, server, client, configuration, `geo_locator` | Little | Start-up, getters, a search | | |

The log store's owner is NuRaft, which calls it from several threads.
`cache_state_machine::commit` applies each committed log to `cache_state`.
`cache_state` sends it to one of its two storages.
Clients reach a server through `network_manager`, which frames requests and
gives them to the dispatcher. In the present source only the discovery request
has a handler, so the commits come from NuRaft alone.

## Modules

| Module | Models | How it corresponds to the code |
|---|---|---|
| `CacheStorageOps` | every function of `cache_storage` | A storage is a record with the members of the class. An operation is an operator from a record to a record. A list node has an address (the key it was made for, and a number), so that iterators and pointers are values. A pointer to a key becomes `Freed` when `remove_item` destroys the `item_map_` node that owns the string, and the flag `undefined` is set when a loop follows such a pointer. The flag is about pointers to keys and nothing else. The two loops are recursive functions of one step per iteration. |
| `CacheStorage` | one `cache_storage` under any sequence of calls | One action per public operation. Commit times do not go backwards, as the comment of `commit_read` asks. |
| `LRUCache` | the promise of `cache_storage` | A list of items and the result of each operation, without maps, buckets, iterators or loops. Not mapped to code: it is the abstract specification. |
| `CacheState` | `cache_state` with both storages | Each operation under `cache_lock_` is one action. The variables `plain` (the same commits without any snapshot) and `image` (the storage at `begin_snapshot`) are histories that only properties read. |
| `RaftLog` | the promise of a log store | A sequence and the index of its first entry. |
| `LogStore` | `inmem_log_store`, NuRaft's committing thread and the disk thread | One action per critical section of `logs_lock_`; `apply_pack` has one per entry and one at its end. |
| `MC*` | | The values of the constants for TLC. |
| `LoopTheorems`, `CacheStorageOpsProofs`, `CacheStorageProofs`, `LogStoreProofs` | | Lemmas and theorems. |

Definitions whose comment begins with "Mutant:" are wrong versions of the
definition that follows them. `PROJECT.json` says which property notices each.

### What is abstracted

- Keys and data are values with a size. The bytes do not matter to any
  operation but `read_snapshot_chunk`, where only sizes decide what fits.
- `sizeof(cache_item)` plus the size of an iterator is the constant `Overhead`.
- `int` has the range of `IntMax`; `size_t` differences go through `ToInt`, so
  the narrowing in `evict_lru_data` and `get_required_memory` is in the model.
- The order inside one expiry bucket is left out. A purge removes whole
  buckets and nothing else reads the order.
- `commit_purge` compares its iterator with the `end()` of a bucket that
  `remove_item` has just erased with its last entry (`cache_storage.cc:73`). In the
  standard library of the build `end()` is the address of the list's own header,
  where the iterator stands, so nothing freed is read and the loop ends. The model
  takes this outcome and does not set `undefined` for it.
- The check of `max_item_size` is not there because the code does not make it:
  `cache_storage.cc:38` compares an unsigned size with zero.
- In `LogStore`, the entry that Raft agrees on for an index is the constant
  `Decided`. The other value in `Entries` stands for what a deposed leader left.
  Elections and terms are not modelled. The server exits when the committing
  thread reads an entry of term 0 (`handle_commit.cxx:235-244`). The model hands
  the dummy on instead, so `AppliesDecided` also says that this exit is not taken.
- Times in the map of the disk emulation are the positions in a sequence. Two
  entries made in one microsecond have one key in the map; `Queued` allows it.

### What the callers are assumed to do

- `LogStore`: NuRaft calls everything that changes the store with its own lock
  held, overwrites only uncommitted indexes, compacts only what the state machine
  has, pauses the committing thread before it installs a snapshot, and sends
  packs of at least one entry. These are read off the vendored sources
  (`libs/nuraft/src/handle_commit.cxx`, `handle_snapshot_sync.cxx`,
  `handle_join_leave.cxx`).
- `LogStore`: Raft's agreement is assumed, not shown. `AdvanceCommit` commits an
  entry only if it is the decided one. `commit()` does not look at the entry, and
  a joining server commits all of its log after each pack, whatever the tail holds
  (`handle_join_leave.cxx:345`). `AppliesDecided` and its theorem rest on this
  assumption: they show what the store and the committing thread make of an
  agreed log. A joining server may also reset its commit indexes
  (`handle_join_leave.cxx:176-179`); in the model they never go back.
- `LogStore`: nothing is committed between the comparison of a snapshot with the
  commit index (`handle_snapshot_sync.cxx:287`) and its installation (554), although
  the server gives up its lock to wait for the committing thread (523-530).
  `InstallSnapshot` is one step. The leader has one request at a time under way to
  a server; a newer leader that commits in between is not modelled.
- `CacheStorage`: with `RewriteExpired = FALSE`, no client writes a key whose
  item has expired and has not been purged. With `TRUE` nothing is assumed.
- `CacheState`: `Avoided` names what clients do not do during a snapshot. Each
  of its four members excludes one defect below, and a run without the member
  shows the defect: `snapshot_overwrite`, `snapshot_fill`, `snapshot_read_evicted`
  and `snapshot_rewrite_expired`. The last one takes three commits in a snapshot
  (a write, a purge, a write), so in the runs with `MaxEvents = 2` its member
  excludes nothing. No client writes a key whose item in `plain` has expired
  (that defect is shown on `CacheStorage`).

## Runs

| Run | Checks | Distinct states |
|---|---|---|
| `storage` | types; the containers agree; every item reachable; memory exact and bounded; no dangling key; refinement of `LRUCache` | 3 870 |
| `storage_any_client` | agreement, exact memory, and dangling keys only at orphans, when clients also rewrite expired keys | 18 195 |
| `snapshot` | transparency, nothing lost during a snapshot, the chunks are the image, both storages agree | 171 462 |
| `snapshot_reader` | the reader of a snapshot gets to its end | 13 868 |
| `log_store` | no gaps; only decided entries are applied; not durable early; refinement of `RaftLog`; written entries become durable, committed ones are applied | 59 276 |
| `write_expired_key`, `wide_cache_size`, `snapshot_overwrite`, `snapshot_read_evicted`, `snapshot_fill`, `snapshot_rewrite_expired`, `durable_overwritten` | violated, see the findings | |

### Bounds

- Sizes are scaled: an item takes 3 or 5 units of a cache of 9. So two or three
  items fill the cache, one write may evict none, one or two, and an update may
  grow, shrink or keep its item. `kLong` exceeds `MaxKeySize`.
- `PurgeInterval = 2` with times to 4 and expiries to 5 puts items on both sides
  of, and on, two bucket boundaries, and lets a purge skip one.
- `MaxNodes` bounds the list nodes that were made for one key. Without rewrites
  of expired keys there is at most one, plus the free one that an insert needs.
  With rewrites, a third is enough for an orphan, its successor and an insert.
- `IntMax = 127` is beyond every size, except in `wide_cache_size`, where
  `IntMax = 7` is below the cache size 15.
- `MaxEvents = 2` commits during a snapshot: every ordered pair of a read, a
  write and a purge. There can be several snapshots one after the other.
  `snapshot_rewrite_expired` allows three.
- A chunk of 6 units has room for one large item or two small ones, so that a
  snapshot takes one chunk or two. In `snapshot_reader` it has 5 units, the size of
  the biggest item, the least that the comment of `read_snapshot_chunk` allows.
- `MaxIndex = 4` in `log_store`: a compacted prefix, a committed entry, one that
  is being applied and an uncommitted tail exist at once. `Decided` alternates,
  so that an entry at the wrong index is noticed.
- The keys are symmetric where a run declares it. `snapshot_reader`, which checks
  a liveness property, does not.

### Deadlock

Every passing run but `storage_any_client` checks deadlock. In that run the model
stops once the program has followed a destroyed key: what it does afterwards is
undefined.

### Fairness

- `snapshot_reader`: weak fairness of `ReadSnapshotChunk`. The caller asks again
  until `item_index` is -1, as the comment of `read_snapshot_chunk` describes.
  The snapshot may also be ended first. A chunk smaller than the next item would
  never make progress; the comment asks callers for no less than the biggest item.
- `log_store`: weak fairness of the disk thread (it waits at most 100 ms), of
  the two steps of the committing thread (NuRaft wakes it whenever the commit
  index moves) and of the steps of `apply_pack`, a loop that runs to its end.
  Nothing is assumed of appends, overwrites, compactions or commits.

## Findings

1. `write_expired_key`: a write to a key whose item expired but was not purged
   inserts a second node. `item_map_.insert()` keeps the old entry, so the write
   reports success and cannot be read back (`cache_storage.cc:211`). The node
   stays in the list as an orphan with a pointer to the key; a later removal of
   the key makes that pointer dangle.
2. `wide_cache_size`: free memory is an `int` (`cache_storage.cc:132`), so a cache
   of more than 2 GiB that is almost empty evicts its items.
3. `snapshot_overwrite`: the event of a write points to an item that a second
   write of the key changes. The replay applies the second data twice.
4. `snapshot_read_evicted`: the event of a read points to a key that the replay
   may have destroyed.
5. `snapshot_fill`: `snapshot_storage::evict_lru_data(int)` overrides nothing, so
   the overlay evicts although its comment says that eviction is disabled.
6. `snapshot_rewrite_expired`: a purge during a snapshot is only recorded, so an
   expired item stays in the overlay's `item_map_`. A write of its key after the
   purge reports success and cannot be read until the snapshot ends.
7. `durable_overwritten`: `write_at` keeps the time of the entry that it
   overwrites, so the index is reported durable too early. This concerns the
   emulation of a slow disk, which nothing in the repository turns on.

## Proofs

TLAPS checks these for every value of the constants that satisfies the named
assumptions of the modules (sizes are natural numbers, `PurgeInterval` is not
zero, `MaxNodes > 1`, `Freed` is no key, `Decided` maps each index to an entry).

| Theorem | States |
|---|---|
| `CacheStorageProofs!TypeCorrect` | `Spec => []TypeOK`, for any client |
| `CacheStorageProofs!ContainersAgree` | `Spec => []IndexesAgree`, for any client |
| `CacheStorageProofs!AllItemsReachable` | `[]EveryItemReachable` if `RewriteExpired = FALSE` |
| `CacheStorageProofs!NoKeyDangles` | `[]NoDanglingKey` if `RewriteExpired = FALSE` |
| `CacheStorageProofs!DanglesOnlyAtOrphans` | `Spec => OnlyOrphansDangle`, for any client |
| `LogStoreProofs!NoGaps` | `Spec => []NoGap` |
| `LogStoreProofs!OnlyDecidedApplied` | `Spec => []AppliesDecided` |

**`cache_storage`.** The invariant `Sound` joins the types with `WellFormed`. The
agreement of the containers is not inductive without the types of what they
hold: `remove_item` follows iterators from `item_map_` into the list and the
buckets, and these must lead to the key's own node and entry before the removal
if they are to do so for the other keys afterwards. `CacheStorageOpsProofs` has
one lemma for each operation (`RemoveItemSound`, `InsertItemSound`,
`UpdateItemSound`, ...) that it preserves `Sound`, and that it preserves
reachability and follows no dangling pointer under the condition that the key's
item has not expired.

The loops of `evict_lru_data` and `commit_purge` are recursive functions. The
library's induction theorems cannot be used with these provers, so
`LoopTheorems` proves induction for sets of numbers from well-foundedness and
shows that a function satisfying such a recursion exists. One lemma about a step
(`EvictStepEvicting`, `PurgeStepPurging`) then gives the result of the loop.
Reachability needs the assumption on clients: finding 1 is its counterexample.
Without it, the same lemmas show that a step from a storage whose items are all
reachable follows no destroyed key, even the write that makes an orphan
(`CommitWriteFollowsKeys`).

**`inmem_log_store`.** `NoGap` and `AppliesDecided` are proved from `IInv`, which
has three parts. `Structure` says that the map is the dummy entry and an interval;
`SlotCount` turns this into what `next_slot` computes. `PackFits` says that the
next entry of a pack falls on a slot of the log or just after it, and that the log
is not empty when the pack is done, since `apply_pack` resets `start_idx_` from
what it finds. `HoldsCommitted` says that the log has every committed entry from
the next one to apply on, with its decided value, and that the committing thread
is about to read exactly that one. `AppliesDecided` alone is not inductive: it
does not say what `entry_at` will find. There is one lemma per action that
changes the map. TLC confirms `IInv` on the instance of `log_store`.

### Only model-checked

- `SnapshotIsRead`, `BecomesDurable`, `CommittedIsApplied`: liveness is out of
  this prover's reach.
- `MemoryExact` and `MemoryBound`: the sum over a set is a fold, about which
  nothing can be proved by induction here.
- The refinements `ImplementsLRU` and `ImplementsRaftLog`, all properties of
  `CacheState`, and `NotDurableEarly`.

## Not modelled

- Interleavings with the operations of `cache_state` that take no lock
  (`commit_purge_expired`, `read_snapshot_chunk`, `get_commit_code`). Each is one
  step in `CacheState`.
- `pack`, `log_entries` and `log_entries_ext` of the log store, and its
  destructor.
- The codec and the commits of `cache_state_machine`, the framing of requests and
  the thread pool, the dispatcher and the discovery answer.
- `flush` while the disk is emulated is in the model (`"flush"` in `Emulation`)
  and in no run. It sets the durable index beyond entries that are being written,
  and the disk thread lowers it again.
- `geo_locator` (floating point), configuration files, start-up, the client (a
  stub), the state manager (setters and getters).
- NuRaft, asio, sockpp, CTPL, ini and flatbuffers, beyond the steps of NuRaft
  named above. `calc_state_machine.hxx`, `example_common.hxx` and
  `cache_state_machine_old.hxx` are leftovers that no source file includes.

## Plan

1. `CacheLocking`: threads over `cache_state` at the level of its critical
   sections, with the unlocked purge, chunk reads and `get_commit_code`.
2. `LogSync`: two log stores, `pack` on the leader and `apply_pack` on the joiner,
   with repeated and late packs; the readers that lock once per entry.
3. `StateMachine`: `encode_log`, `decode_log` and `commit`, composed with
   `CacheState`.
4. `Framing` and the thread pool of `network_manager`, with the dispatcher.
5. Proofs: `ImplementsRaftLog`; `BothIndexesAgree` for `CacheState` from the lemmas
   of `CacheStorageOpsProofs`; `ReceivesImage`; `NotDurableEarly` for `append`
   alone; `LogStore!TypeOK`.

The abstract specifications in use are `LRUCache` and `RaftLog`; `CacheState` is to
implement `LRUCache` between snapshots once the defects 3 to 6 are repaired.
