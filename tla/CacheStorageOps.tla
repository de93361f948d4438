-------------------------- MODULE CacheStorageOps --------------------------
(***************************************************************************)
(* The operations of the class cache_storage (src/cache/cache_storage.cc)  *)
(* as operators from a storage to a storage.  A storage is a record with   *)
(* the members of the class:                                               *)
(*                                                                         *)
(*   items           items_, the std::list, most recently used first, as   *)
(*                   the sequence of the addresses of its nodes            *)
(*   node            what is stored at those addresses: the cache_items    *)
(*   item_map        item_map_: key -> the three internal_iterators        *)
(*   expiry_buckets  expiry_buckets_: purge time -> the bucket's list      *)
(*                   nodes, each holding a pointer to a key                *)
(*   used_memory     used_memory_                                          *)
(*   commit_code     commit_code_                                          *)
(*   undefined       TRUE once a loop has followed a pointer to a key that *)
(*                   has been destroyed                                    *)
(*                                                                         *)
(* A pointer to a key is the key itself while the item_map_ node that owns *)
(* the string lives, and Freed afterwards.  A bucket is a function from    *)
(* the address of the item that an entry was made for to the entry: the    *)
(* order of a bucket's list can be told from no result of the class.       *)
(***************************************************************************)
EXTENDS Integers, Sequences, SequencesExt

CONSTANTS
  Keys,           \* the keys that clients use
  KeySize,        \* key -> key.size()
  Data,           \* the values that clients write
  DataSize,       \* value -> data_size
  Overhead,       \* sizeof(cache_item) + sizeof(std::list<cache_item>::iterator)
  CacheSize,      \* config_.cache_size
  MaxKeySize,     \* config_.max_key_size
  PurgeInterval,  \* config_.purge_interval
  IntMax,         \* INT_MAX
  MaxNodes,       \* bound: list nodes alive at a time that were made for one key
  Freed           \* a pointer to a key that has been destroyed

ASSUME SizesAssumption ==
  /\ KeySize \in [Keys -> Nat]
  /\ DataSize \in [Data -> Nat]
  /\ Overhead \in Nat
  /\ CacheSize \in Nat
  /\ MaxKeySize \in Nat

ASSUME IntervalAssumption == PurgeInterval \in Nat \ {0}

ASSUME IntMaxAssumption == IntMax \in Nat

ASSUME MaxNodesAssumption == MaxNodes \in Nat /\ MaxNodes > 1

ASSUME FreedAssumption == Freed \notin Keys

Addr == Keys \X (1..MaxNodes)

CommitResults == {"DONE_OK", "NOT_FOUND", "KEY_TOO_BIG", "DATA_TOO_BIG", "WRONG_EXPIRY"}

CacheItems == [key : Keys \cup {Freed}, data : Data, expires_at : Nat]

InternalIterators == [item_iter : Addr, expiry_map_iter : Nat, expiry_bucket_iter : Addr]

NoFunction == [x \in {} |-> x]

EmptyStorage(code) ==
  [items |-> <<>>, node |-> NoFunction, item_map |-> NoFunction,
   expiry_buckets |-> NoFunction, used_memory |-> 0, commit_code |-> code,
   undefined |-> FALSE]

----------------------------------------------------------------------------
(* Helpers on sequences and functions.                                     *)

IndexOf(seq, x) == CHOOSE i \in DOMAIN seq : seq[i] = x

Erase(f, x) == [y \in DOMAIN f \ {x} |-> f[y]]

Put(f, x, v) == [y \in DOMAIN f \cup {x} |-> IF y = x THEN v ELSE f[y]]

MoveToFront(seq, x) == <<x>> \o RemoveAt(seq, IndexOf(seq, x))

\* The conversion of a size_t to an int: modulo 2^32, two's complement.
ToInt(n) == ((n + IntMax + 1) % (2 * (IntMax + 1))) - (IntMax + 1)

----------------------------------------------------------------------------

IsExpired(item, at) == item.expires_at <= at

GetItemSize(key, data) == Overhead + DataSize[data] + KeySize[key]

\* Mutant: the sign of the correction is wrong.
NextPurgeTimeBackwards(t) == t - (PurgeInterval + (t % PurgeInterval))

NextPurgeTime(t) == t + (PurgeInterval - (t % PurgeInterval))

\* get_item() returns an item (not a null pointer).
Has(s, key, at) ==
  /\ key \in DOMAIN s.item_map
  /\ ~IsExpired(s.node[s.item_map[key].item_iter], at)

\* The item that get_item() returns then.
GetItem(s, key) == s.node[s.item_map[key].item_iter]

GetRequiredMemory(s, key, data, at) ==
  ToInt(GetItemSize(key, data)
        - (IF Has(s, key, at) THEN GetItemSize(key, GetItem(s, key).data) ELSE 0))

\* emplace_hint (which keeps a bucket that is there), then insert at its end.
AddToBucket(buckets, t, a, key) ==
  Put(buckets, t, Put(IF t \in DOMAIN buckets THEN buckets[t] ELSE NoFunction, a, key))

\* Mutant: the bucket stays after its last entry.
EraseFromBucketKeepsEmpty(buckets, t, a) == [buckets EXCEPT ![t] = Erase(@, a)]

\* Erase the entry of a bucket, and the bucket with its last entry.
EraseFromBucket(buckets, t, a) ==
  IF DOMAIN buckets[t] = {a}
  THEN Erase(buckets, t)
  ELSE [buckets EXCEPT ![t] = Erase(@, a)]

----------------------------------------------------------------------------
(* remove_item().  Erasing the item_map_ node destroys the key, so every   *)
(* other pointer to it dangles.                                            *)

\* Mutant: the entry stays in its bucket.
RemoveItemKeepsEntry(s, key) ==
  LET a == s.item_map[key].item_iter
      Dangle(ptr) == IF ptr = key THEN Freed ELSE ptr
  IN  [s EXCEPT
        !.items = RemoveAt(@, IndexOf(@, a)),
        !.node = Erase(@, a),
        !.item_map = Erase(@, key),
        !.expiry_buckets = [t \in DOMAIN @ |-> [x \in DOMAIN @[t] |-> Dangle(@[t][x])]],
        !.used_memory = @ - GetItemSize(s.node[a].key, s.node[a].data)]

RemoveItem(s, key) ==
  LET iters == s.item_map[key]
      a == iters.item_iter
      Dangle(ptr) == IF ptr = key THEN Freed ELSE ptr
      node == Erase(s.node, a)
      buckets == EraseFromBucket(s.expiry_buckets, iters.expiry_map_iter,
                                 iters.expiry_bucket_iter)
  IN  [s EXCEPT
        !.items = RemoveAt(@, IndexOf(@, a)),
        !.node = [x \in DOMAIN node |-> [node[x] EXCEPT !.key = Dangle(@)]],
        !.item_map = Erase(@, key),
        !.expiry_buckets = [t \in DOMAIN buckets |->
                              [x \in DOMAIN buckets[t] |-> Dangle(buckets[t][x])]],
        !.used_memory = @ - GetItemSize(s.node[a].key, s.node[a].data)]

----------------------------------------------------------------------------
(* evict_lru_data().  The loop walks items_ from its end; at is the index  *)
(* of the node under the reverse iterator, 0 at rend().                    *)

EvictStep(own, required, loop) ==
  LET s == loop.s
      item == s.node[s.items[loop.at]]
      removed == IndexOf(s.items, s.item_map[item.key].item_iter)
      available == ToInt(loop.available + GetItemSize(item.key, item.data))
  IN  IF loop.at = 0 \/ loop.done
      THEN loop
      ELSE IF item.key = Freed
      THEN [loop EXCEPT !.s.undefined = TRUE, !.done = TRUE]
      ELSE IF item.key = own
      THEN [loop EXCEPT !.at = @ - 1]
      ELSE [s |-> RemoveItem(s, item.key), at |-> removed - 1,
            available |-> available, done |-> available >= required]

\* Mutant: any free byte is enough.
EvictStartAnyRoom(s, required) ==
  LET available == ToInt(CacheSize - s.used_memory)
  IN  [s |-> s, at |-> Len(s.items), available |-> available, done |-> available > 0]

EvictStart(s, required) ==
  LET available == ToInt(CacheSize - s.used_memory)
  IN  [s |-> s, at |-> Len(s.items), available |-> available,
       done |-> available >= required]

\* Every iteration moves the iterator, so Len(items) of them end the loop.
EvictLruData(s, own, required) ==
  LET loop[n \in Nat] == IF n = 0 THEN EvictStart(s, required)
                         ELSE EvictStep(own, required, loop[n - 1])
  IN  loop[Len(s.items)].s

----------------------------------------------------------------------------
(* insert_item().  item_map_.insert() keeps an entry that is there: the    *)
(* key of an expired item that no purge has removed yet.                   *)

HasFreeNode(s, key) == \E n \in 1..MaxNodes : <<key, n>> \notin DOMAIN s.node

FreeNode(s, key) == CHOOSE a \in {key} \X (1..MaxNodes) : a \notin DOMAIN s.node

InsertItem(s, key, data, expires_at) ==
  LET a == FreeNode(s, key)
      purge_at == NextPurgeTime(expires_at)
      iters == [item_iter |-> a, expiry_map_iter |-> purge_at, expiry_bucket_iter |-> a]
  IN  [s EXCEPT
        !.items = <<a>> \o @,
        !.node = Put(@, a, [key |-> key, data |-> data, expires_at |-> expires_at]),
        !.item_map = IF key \in DOMAIN @ THEN @ ELSE Put(@, key, iters),
        !.expiry_buckets = AddToBucket(@, purge_at, a, key),
        !.used_memory = @ + GetItemSize(key, data)]

\* Mutant: item_map_ keeps the iterator to the old bucket.
UpdateItemKeepsIterator(s, key, data, expires_at) ==
  LET iters == s.item_map[key]
      a == iters.item_iter
      t == NextPurgeTime(expires_at)
  IN  [s EXCEPT
        !.items = MoveToFront(@, a),
        !.node[a].data = data,
        !.node[a].expires_at = expires_at,
        !.expiry_buckets =
          IF iters.expiry_map_iter = t THEN @
          ELSE EraseFromBucket(AddToBucket(@, t, a, key), iters.expiry_map_iter, a),
        !.used_memory = @ + (GetItemSize(key, data) - GetItemSize(key, s.node[a].data))]

\* Mutant: used_memory_ keeps counting the old data.
UpdateItemKeepsMemory(s, key, data, expires_at) ==
  LET iters == s.item_map[key]
      a == iters.item_iter
      t == NextPurgeTime(expires_at)
  IN  [s EXCEPT
        !.items = MoveToFront(@, a),
        !.node[a].data = data,
        !.node[a].expires_at = expires_at,
        !.item_map[key].expiry_map_iter = t,
        !.expiry_buckets =
          IF iters.expiry_map_iter = t THEN @
          ELSE EraseFromBucket(AddToBucket(@, t, a, key), iters.expiry_map_iter, a)]

(* update_item() and update_item_expiry_bucket().                          *)
UpdateItem(s, key, data, expires_at) ==
  LET iters == s.item_map[key]
      a == iters.item_iter
      old == s.node[a]
      t == NextPurgeTime(expires_at)
      buckets == AddToBucket(s.expiry_buckets, t, a, old.key)
      moved == [s EXCEPT
        !.items = MoveToFront(@, a),
        !.node = [@ EXCEPT ![a] = [key |-> old.key, data |-> data,
                                   expires_at |-> expires_at]],
        !.used_memory = @ + (GetItemSize(key, data) - GetItemSize(key, old.data))]
  IN  IF NextPurgeTime(old.expires_at) = t
      THEN moved
      ELSE [moved EXCEPT
        !.expiry_buckets = EraseFromBucket(buckets, iters.expiry_map_iter,
                                           iters.expiry_bucket_iter),
        !.item_map = [@ EXCEPT ![key] = [iters EXCEPT !.expiry_map_iter = t]]]

----------------------------------------------------------------------------
(* The public operations.                                                  *)

\* Mutant: a read does not count as a use.
CommitReadUnranked(s, key, at) ==
  [s EXCEPT !.commit_code = IF Has(s, key, at) THEN "DONE_OK" ELSE "NOT_FOUND"]

CommitRead(s, key, at) ==
  IF Has(s, key, at)
  THEN [s EXCEPT !.commit_code = "DONE_OK",
                 !.items = MoveToFront(@, s.item_map[key].item_iter)]
  ELSE [s EXCEPT !.commit_code = "NOT_FOUND"]

\* Mutant: a write inserts although the key has an item.
CommitWriteInserts(s, key, data, expires_at, at) ==
  LET evicted == EvictLruData(s, key, GetRequiredMemory(s, key, data, at))
  IN  IF KeySize[key] > MaxKeySize \/ expires_at <= at \/ evicted.undefined
      THEN s
      ELSE [InsertItem(evicted, key, data, expires_at) EXCEPT !.commit_code = "DONE_OK"]

\* DATA_TOO_BIG is guarded by `item.data_size < 0`, never true of a size_t.
CommitWrite(s, key, data, expires_at, at) ==
  LET evicted == EvictLruData(s, key, GetRequiredMemory(s, key, data, at))
      written == IF Has(evicted, key, at)
                 THEN UpdateItem(evicted, key, data, expires_at)
                 ELSE InsertItem(evicted, key, data, expires_at)
  IN  IF KeySize[key] > MaxKeySize
      THEN [s EXCEPT !.commit_code = "KEY_TOO_BIG"]
      ELSE IF expires_at <= at
      THEN [s EXCEPT !.commit_code = "WRONG_EXPIRY"]
      ELSE IF evicted.undefined
      THEN evicted
      ELSE [written EXCEPT !.commit_code = "DONE_OK"]

\* One iteration of commit_purge(): the entry under the iterator, if its
\* bucket is due.  Once remove_item() has erased the bucket with its last entry,
\* the loop still compares the iterator with the end() of that erased list.  In
\* the standard library of the build end() is the address of the list's own
\* header, which is where the iterator stands: the comparison reads nothing that
\* was freed and ends the loop.  This is the outcome modelled here; the flag
\* undefined is about pointers to keys only.
PurgeStep(prev, s) ==
  LET due == {t \in DOMAIN s.expiry_buckets : t <= prev}
      t == CHOOSE t \in due : \A u \in due : t <= u
      entry == CHOOSE a \in DOMAIN s.expiry_buckets[t] : TRUE
      key == s.expiry_buckets[t][entry]
  IN  IF due = {} \/ s.undefined
      THEN s
      ELSE IF key = Freed
      THEN [s EXCEPT !.undefined = TRUE]
      ELSE RemoveItem(s, key)

\* Every iteration removes one item, so Len(items) of them end the loop.
CommitPurge(s, at) ==
  LET prev == NextPurgeTime(at) - PurgeInterval
      loop[n \in Nat] == IF n = 0 THEN s ELSE PurgeStep(prev, loop[n - 1])
  IN  loop[Len(s.items)]

Clear(s) == EmptyStorage(s.commit_code)

----------------------------------------------------------------------------
(* What the properties of a storage are stated with.                       *)

StorageType(s) ==
  /\ s = [items |-> s.items, node |-> s.node, item_map |-> s.item_map,
          expiry_buckets |-> s.expiry_buckets, used_memory |-> s.used_memory,
          commit_code |-> s.commit_code, undefined |-> s.undefined]
  /\ s.items \in Seq(Addr)
  /\ DOMAIN s.node \subseteq Addr
  /\ s.node \in [DOMAIN s.node -> CacheItems]
  /\ DOMAIN s.item_map \subseteq Keys
  /\ s.item_map \in [DOMAIN s.item_map -> InternalIterators]
  /\ DOMAIN s.expiry_buckets \subseteq Nat
  /\ s.expiry_buckets = [t \in DOMAIN s.expiry_buckets |-> s.expiry_buckets[t]]
  /\ \A t \in DOMAIN s.expiry_buckets :
        /\ DOMAIN s.expiry_buckets[t] \subseteq Addr
        /\ s.expiry_buckets[t] \in [DOMAIN s.expiry_buckets[t] -> Keys \cup {Freed}]
  /\ s.used_memory \in Int
  /\ s.commit_code \in CommitResults
  /\ s.undefined \in BOOLEAN

\* The list holds every node once.
ListHoldsNodes(s) == IsInjective(s.items) /\ Range(s.items) = DOMAIN s.node

\* A map entry leads to a node with its own key, and to that node's bucket entry.
MapLeadsToNodes(s) ==
  \A k \in DOMAIN s.item_map :
    LET iters == s.item_map[k]
    IN  /\ iters.item_iter \in DOMAIN s.node
        /\ s.node[iters.item_iter].key = k
        /\ iters.expiry_bucket_iter = iters.item_iter
        /\ iters.expiry_map_iter = NextPurgeTime(s.node[iters.item_iter].expires_at)

\* A key pointer that does not dangle points to a key of the map.  Every node was
\* made for the key it points to or pointed to.
KeysAreMapped(s) ==
  \A a \in DOMAIN s.node : /\ s.node[a].key \in DOMAIN s.item_map \cup {Freed}
                           /\ s.node[a].key \in {a[1], Freed}

\* Every node has one bucket entry, with the same key pointer, in the bucket of
\* its expiry time; no bucket is empty.
BucketsHoldNodes(s) ==
  /\ \A a \in DOMAIN s.node :
        LET t == NextPurgeTime(s.node[a].expires_at)
        IN  /\ t \in DOMAIN s.expiry_buckets
            /\ a \in DOMAIN s.expiry_buckets[t]
            /\ s.expiry_buckets[t][a] = s.node[a].key
  /\ \A t \in DOMAIN s.expiry_buckets :
        /\ DOMAIN s.expiry_buckets[t] # {}
        /\ \A a \in DOMAIN s.expiry_buckets[t] :
              a \in DOMAIN s.node /\ NextPurgeTime(s.node[a].expires_at) = t

WellFormed(s) ==
  /\ ListHoldsNodes(s)
  /\ MapLeadsToNodes(s)
  /\ KeysAreMapped(s)
  /\ BucketsHoldNodes(s)

\* item_map_ leads to every node.
AllReachable(s) ==
  \A a \in DOMAIN s.node : /\ s.node[a].key \in DOMAIN s.item_map
                           /\ s.item_map[s.node[a].key].item_iter = a

=============================================================================
