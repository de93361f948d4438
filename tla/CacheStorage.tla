---------------------------- MODULE CacheStorage ----------------------------
(***************************************************************************)
(* One cache_storage object and the commits applied to it.  Commits carry  *)
(* the time at which they were made and are applied in that order, as the  *)
(* comment of commit_read requires of its callers.                         *)
(***************************************************************************)
EXTENDS CacheStorageOps, FiniteSets

CONSTANTS
  MaxTime,        \* bound: the times of commits
  MaxExpiry,      \* bound: the expiry times of items
  EvictRequests,  \* the arguments of direct calls of evict_lru_data()
  RewriteExpired  \* do clients write a key whose resident item has expired?

ASSUME TimesAssumption == MaxTime \in Nat /\ MaxExpiry \in Nat

ASSUME EnvironmentAssumption == EvictRequests \subseteq Int /\ RewriteExpired \in BOOLEAN

VARIABLES
  storage,  \* the members of the object, see CacheStorageOps
  now       \* the time of the last commit (last_commit_time_)

vars == <<storage, now>>

Times == now..MaxTime

\* The item of key is still resident although it expired: no purge or eviction
\* has removed it yet.
ExpiredResident(s, key, at) == key \in DOMAIN s.item_map /\ ~Has(s, key, at)

Init ==
  /\ storage \in {EmptyStorage(code) : code \in CommitResults}
  /\ now = 0

Read(key, at) ==
  /\ ~storage.undefined
  /\ now' = at
  /\ storage' = CommitRead(storage, key, at)

Write(key, data, expires_at, at) ==
  /\ ~storage.undefined
  /\ HasFreeNode(storage, key)
  /\ RewriteExpired \/ ~ExpiredResident(storage, key, at)
  /\ now' = at
  /\ storage' = CommitWrite(storage, key, data, expires_at, at)

Purge(at) ==
  /\ ~storage.undefined
  /\ now' = at
  /\ storage' = CommitPurge(storage, at)

Evict(key, required) ==
  /\ ~storage.undefined
  /\ storage' = EvictLruData(storage, key, required)
  /\ UNCHANGED now

ClearAll ==
  /\ ~storage.undefined
  /\ storage' = Clear(storage)
  /\ UNCHANGED now

Next ==
  \/ \E key \in Keys, at \in Times : Read(key, at)
  \/ \E key \in Keys, data \in Data, expires_at \in 0..MaxExpiry, at \in Times :
        Write(key, data, expires_at, at)
  \/ \E at \in Times : Purge(at)
  \/ \E key \in Keys, required \in EvictRequests : Evict(key, required)
  \/ ClearAll

Spec == Init /\ [][Next]_vars

----------------------------------------------------------------------------
(* Properties.                                                             *)

\* The members of the object have their types: what the maps and lists hold
\* are addresses, keys, items and times.
TypeOK == StorageType(storage) /\ now \in Nat

\* The three containers of cache_storage never disagree, whatever clients do:
\* the list, the map and the buckets hold the same items, and the iterators
\* kept in item_map_ lead to the key's own node and bucket entry.
IndexesAgree == WellFormed(storage)

\* Every item in memory can be found by its key: item_map_ leads to it.  (So no
\* key pointer dangles.)
EveryItemReachable == AllReachable(storage)

\* used_memory_ is the sum of the sizes of the items in memory, over any history
\* of inserts, updates, removals and evictions.
MemoryExact ==
  storage.used_memory = MapThenSumSet(LAMBDA a : GetItemSize(a[1], storage.node[a].data),
                                      DOMAIN storage.node)

\* The cache keeps at most cache_size bytes (if every item alone fits).
MemoryBound == storage.used_memory <= CacheSize

\* No loop of evict_lru_data or commit_purge follows a dangling key pointer.
NoDanglingKey == ~storage.undefined

\* Whatever clients do, a loop of evict_lru_data or commit_purge follows a dangling
\* key pointer only while there is an orphan: an item that item_map_ does not lead
\* to.  The write that makes the orphan is safe, and so is everything after the
\* orphans are gone.
OnlyOrphansDangle == [][AllReachable(storage) => ~storage'.undefined]_vars

\* What commit_write reports as written can be read back with the key: "Write
\* data in cache that can be retrieved with the given key".
WriteRetrievable ==
  [][\A key \in Keys, data \in Data, expires_at \in 0..MaxExpiry :
       /\ Write(key, data, expires_at, now')
       /\ storage'.commit_code = "DONE_OK"
       /\ ~storage'.undefined
       => Has(storage', key, now') /\ GetItem(storage', key).data = data]_vars

\* A write evicts another item only when the cache has not enough memory left
\* for what is written.
EvictsOnlyForRoom ==
  [][\A key \in Keys, data \in Data, expires_at \in 0..MaxExpiry :
       /\ Write(key, data, expires_at, now')
       /\ storage.used_memory + GetItemSize(key, data) <= CacheSize
       => DOMAIN storage.node \subseteq DOMAIN storage'.node]_vars

\* cache_storage implements the list of LRUCache.
Contents == [i \in DOMAIN storage.items |-> storage.node[storage.items[i]]]

LRU == INSTANCE LRUCache WITH cache <- Contents, code <- storage.commit_code

\* Evictions, updates, expiry and purges of cache_storage are those of the
\* abstract least-recently-used list.
ImplementsLRU == LRU!Spec

=============================================================================
