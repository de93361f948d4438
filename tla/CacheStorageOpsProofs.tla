----------------------- MODULE CacheStorageOpsProofs -----------------------
(***************************************************************************)
(* Every operation of cache_storage keeps its members well typed and its   *)
(* three containers in agreement, and reaches every item if all could be   *)
(* reached before.                                                         *)
(***************************************************************************)
EXTENDS CacheStorageOps, LoopTheorems, SequenceTheorems

----------------------------------------------------------------------------
(* Sequences, functions and times.                                         *)

\* RemoveAt drops one element and keeps the others in order.
LEMMA RemoveAtElements ==
  ASSUME NEW S, NEW seq \in Seq(S), NEW p \in 1..Len(seq)
  PROVE  /\ RemoveAt(seq, p) \in Seq(S)
         /\ Len(RemoveAt(seq, p)) = Len(seq) - 1
         /\ \A i \in 1..(Len(seq) - 1) :
               RemoveAt(seq, p)[i] = IF i < p THEN seq[i] ELSE seq[i + 1]
<1> DEFINE u == SubSeq(seq, 1, p - 1)
           v == SubSeq(seq, p + 1, Len(seq))
<1>1. u \in Seq(S) /\ Len(u) = p - 1 /\ \A i \in 1..(p - 1) : u[i] = seq[i]
  BY SubSeqProperties
<1>2. v \in Seq(S) /\ Len(v) = Len(seq) - p /\ \A i \in 1..(Len(seq) - p) : v[i] = seq[p + i]
  BY SubSeqProperties
<1> HIDE DEF u, v
<1>3. /\ u \o v \in Seq(S)
      /\ Len(u \o v) = Len(u) + Len(v)
      /\ \A i \in 1..(Len(u) + Len(v)) : (u \o v)[i] = IF i <= Len(u) THEN u[i] ELSE v[i - Len(u)]
  BY <1>1, <1>2, ConcatProperties, Zenon
<1>4. ASSUME NEW i \in 1..(Len(seq) - 1)
      PROVE  (u \o v)[i] = IF i < p THEN seq[i] ELSE seq[i + 1]
  <2>0. Len(seq) \in Nat /\ p \in Nat /\ i \in 1..(Len(u) + Len(v))
    BY <1>1, <1>2
  <2>1. CASE i < p
    BY <1>1, <1>3, <2>0, <2>1
  <2>2. CASE ~ (i < p)
    <3>1. i - (p - 1) \in 1..(Len(seq) - p) /\ p + (i - (p - 1)) = i + 1
      BY <2>0, <2>2
    <3>2. (u \o v)[i] = v[i - (p - 1)]
      BY <1>1, <1>3, <2>0, <2>2
    <3> QED
      BY <1>2, <2>2, <3>1, <3>2, SMTT(30)
  <2> QED
    BY <2>1, <2>2, Zenon
<1>5. RemoveAt(seq, p) = u \o v
  BY DEF RemoveAt, u, v
<1> QED
  BY <1>1, <1>2, <1>3, <1>4, <1>5

\* Erasing a node of a list without repetitions erases just that node.
LEMMA RemoveFromList ==
  ASSUME NEW S, NEW seq \in Seq(S), IsInjective(seq), NEW a \in Range(seq)
  PROVE  LET rest == RemoveAt(seq, IndexOf(seq, a))
         IN  /\ IndexOf(seq, a) \in 1..Len(seq)
             /\ rest \in Seq(S)
             /\ Len(rest) = Len(seq) - 1
             /\ IsInjective(rest)
             /\ Range(rest) = Range(seq) \ {a}
<1> DEFINE p == IndexOf(seq, a)
           rest == RemoveAt(seq, p)
<1>0. Len(seq) \in Nat /\ DOMAIN seq = 1..Len(seq)
  BY LenProperties
<1>1. p \in 1..Len(seq) /\ seq[p] = a
  BY <1>0 DEF IndexOf, Range
<1> HIDE DEF p
<1>2. /\ rest \in Seq(S)
      /\ Len(rest) = Len(seq) - 1
      /\ \A i \in 1..(Len(seq) - 1) : rest[i] = IF i < p THEN seq[i] ELSE seq[i + 1]
  BY <1>1, RemoveAtElements
<1>3. DOMAIN rest = 1..(Len(seq) - 1)
  BY <1>2, LenProperties
<1> HIDE DEF rest
<1>4. \A i, j \in 1..Len(seq) : seq[i] = seq[j] => i = j
  BY <1>0 DEF IsInjective
<1>5. IsInjective(rest)
  BY <1>0, <1>1, <1>2, <1>3, <1>4 DEF IsInjective
<1>6. ASSUME NEW x \in Range(rest) PROVE x \in Range(seq) \ {a}
  <2>1. PICK i \in 1..(Len(seq) - 1) : x = rest[i]
    BY <1>3 DEF Range
  <2>2. (x = seq[i] /\ i < p) \/ (x = seq[i + 1] /\ i + 1 > p)
    BY <1>0, <1>1, <1>2, <2>1
  <2> QED
    BY <1>0, <1>1, <1>4, <2>2 DEF Range
<1>7. ASSUME NEW x \in Range(seq) \ {a} PROVE x \in Range(rest)
  <2>1. PICK i \in 1..Len(seq) : x = seq[i]
    BY <1>0 DEF Range
  <2>2. i # p
    BY <1>1, <2>1
  <2>3. CASE i < p
    BY <1>0, <1>1, <1>2, <1>3, <2>1, <2>3, SMTT(30) DEF Range
  <2>4. CASE i > p
    <3>1. i - 1 \in 1..(Len(seq) - 1) /\ rest[i - 1] = x
      BY <1>0, <1>1, <1>2, <2>1, <2>4
    <3> QED
      BY <1>3, <3>1 DEF Range
  <2> QED
    BY <1>0, <1>1, <2>2, <2>3, <2>4
<1>8. Range(rest) = Range(seq) \ {a}
  BY <1>6, <1>7
<1> QED
  BY <1>1, <1>2, <1>5, <1>8 DEF p, rest

\* A new node at the head of a list is its only change.
LEMMA AddToList ==
  ASSUME NEW S, NEW seq \in Seq(S), IsInjective(seq), NEW a \in S, a \notin Range(seq)
  PROVE  /\ <<a>> \o seq \in Seq(S)
         /\ Len(<<a>> \o seq) = Len(seq) + 1
         /\ IsInjective(<<a>> \o seq)
         /\ Range(<<a>> \o seq) = Range(seq) \cup {a}
<1> DEFINE new == <<a>> \o seq
<1>0. Len(seq) \in Nat /\ DOMAIN seq = 1..Len(seq)
  BY LenProperties
<1>1. <<a>> \in Seq(S) /\ Len(<<a>>) = 1 /\ <<a>>[1] = a
  OBVIOUS
<1>2. /\ new \in Seq(S)
      /\ Len(new) = Len(<<a>>) + Len(seq)
      /\ \A i \in 1..(Len(<<a>>) + Len(seq)) :
            new[i] = IF i <= Len(<<a>>) THEN <<a>>[i] ELSE seq[i - Len(<<a>>)]
  BY <1>1, ConcatProperties, Zenon
<1>3. DOMAIN new = 1..(Len(seq) + 1)
  BY <1>0, <1>1, <1>2, LenProperties
<1>4. new[1] = a /\ \A i \in 2..(Len(seq) + 1) : new[i] = seq[i - 1]
  BY <1>0, <1>1, <1>2
<1> HIDE DEF new
<1>5. \A i \in 1..Len(seq) : seq[i] # a
  BY <1>0 DEF Range
<1>6. IsInjective(new)
  BY <1>0, <1>3, <1>4, <1>5 DEF IsInjective
<1>7. ASSUME NEW x \in Range(new) PROVE x \in Range(seq) \cup {a}
  <2>1. PICK i \in 1..(Len(seq) + 1) : x = new[i]
    BY <1>3 DEF Range
  <2> QED
    BY <1>0, <1>4, <2>1 DEF Range
<1>8. ASSUME NEW x \in Range(seq) \cup {a} PROVE x \in Range(new)
  <2>1. CASE x = a
    BY <1>0, <1>3, <1>4, <2>1 DEF Range
  <2>2. CASE x \in Range(seq)
    <3>1. PICK i \in 1..Len(seq) : x = seq[i]
      BY <1>0, <2>2 DEF Range
    <3>2. i + 1 \in 2..(Len(seq) + 1) /\ new[i + 1] = x
      BY <1>0, <1>4, <3>1
    <3> QED
      BY <1>0, <1>3, <3>2 DEF Range
  <2> QED
    BY <2>1, <2>2
<1> QED
  BY <1>0, <1>1, <1>2, <1>6, <1>7, <1>8 DEF new

\* next_purge_time is a time.
LEMMA NextPurgeTimeType ==
  ASSUME NEW t \in Nat
  PROVE  NextPurgeTime(t) \in Nat
  BY IntervalAssumption DEF NextPurgeTime

\* The int that a size is converted to is an integer.
LEMMA ToIntType ==
  ASSUME NEW n \in Int
  PROVE  ToInt(n) \in Int
  BY IntMaxAssumption DEF ToInt

\* get_item_size is a size.
LEMMA GetItemSizeType ==
  ASSUME NEW key \in Keys, NEW data \in Data
  PROVE  GetItemSize(key, data) \in Nat
  BY SizesAssumption DEF GetItemSize

----------------------------------------------------------------------------
(* remove_item().                                                          *)

Sound(s) == StorageType(s) /\ WellFormed(s)

\* What is left of a storage: fewer nodes and map entries, the remaining ones as
\* they were, up to dangling pointers.
Shrunk(s, r) ==
  /\ DOMAIN r.node \subseteq DOMAIN s.node
  /\ DOMAIN r.item_map \subseteq DOMAIN s.item_map
  /\ \A k \in DOMAIN r.item_map : /\ r.item_map[k] = s.item_map[k]
                                  /\ GetItem(r, k) = GetItem(s, k)
  /\ r.commit_code = s.commit_code

\* The members of the storage that remove_item leaves.
LEMMA RemoveItemMembers ==
  ASSUME NEW s, Sound(s), NEW key \in DOMAIN s.item_map
  PROVE  LET r == RemoveItem(s, key)
             a == s.item_map[key].item_iter
             m == NextPurgeTime(s.node[a].expires_at)
         IN  /\ r = [items |-> r.items, node |-> r.node, item_map |-> r.item_map,
                     expiry_buckets |-> r.expiry_buckets, used_memory |-> r.used_memory,
                     commit_code |-> r.commit_code, undefined |-> r.undefined]
             /\ r.items = RemoveAt(s.items, IndexOf(s.items, a))
             /\ r.node = [x \in DOMAIN s.node \ {a} |->
                            [s.node[x] EXCEPT !.key = IF s.node[x].key = key THEN Freed
                                                      ELSE s.node[x].key]]
             /\ r.item_map = Erase(s.item_map, key)
             /\ DOMAIN r.expiry_buckets = {t \in DOMAIN s.expiry_buckets :
                                             t = m => DOMAIN s.expiry_buckets[t] # {a}}
             /\ r.expiry_buckets = [t \in DOMAIN r.expiry_buckets |-> r.expiry_buckets[t]]
             /\ \A t \in DOMAIN r.expiry_buckets :
                   r.expiry_buckets[t] =
                     [x \in {y \in DOMAIN s.expiry_buckets[t] : t = m => y # a} |->
                        IF s.expiry_buckets[t][x] = key THEN Freed
                        ELSE s.expiry_buckets[t][x]]
             /\ r.used_memory = s.used_memory - GetItemSize(key, s.node[a].data)
             /\ r.commit_code = s.commit_code
             /\ r.undefined = s.undefined
<1> DEFINE a == s.item_map[key].item_iter
           m == NextPurgeTime(s.node[a].expires_at)
           B == EraseFromBucket(s.expiry_buckets, m, a)
           r == RemoveItem(s, key)
<1>1. /\ s.item_map[key].expiry_map_iter = m /\ s.item_map[key].expiry_bucket_iter = a
      /\ s.node[a].key = key /\ a \in DOMAIN s.node
  BY DEF Sound, WellFormed, MapLeadsToNodes
<1>2. r = [s EXCEPT
        !.items = RemoveAt(@, IndexOf(@, a)),
        !.node = [x \in DOMAIN Erase(s.node, a) |->
                    [Erase(s.node, a)[x] EXCEPT !.key = IF @ = key THEN Freed ELSE @]],
        !.item_map = Erase(@, key),
        !.expiry_buckets = [t \in DOMAIN B |-> [x \in DOMAIN B[t] |->
                              IF B[t][x] = key THEN Freed ELSE B[t][x]]],
        !.used_memory = @ - GetItemSize(key, s.node[a].data)]
  BY <1>1 DEF RemoveItem
<1>3. s = [items |-> s.items, node |-> s.node, item_map |-> s.item_map,
           expiry_buckets |-> s.expiry_buckets, used_memory |-> s.used_memory,
           commit_code |-> s.commit_code, undefined |-> s.undefined]
  BY DEF Sound, StorageType
<1> HIDE DEF B, r, a, m
<1>4. r = [items |-> RemoveAt(s.items, IndexOf(s.items, a)),
           node |-> [x \in DOMAIN Erase(s.node, a) |->
                      [Erase(s.node, a)[x] EXCEPT !.key = IF @ = key THEN Freed ELSE @]],
           item_map |-> Erase(s.item_map, key),
           expiry_buckets |-> [t \in DOMAIN B |-> [x \in DOMAIN B[t] |->
                                IF B[t][x] = key THEN Freed ELSE B[t][x]]],
           used_memory |-> s.used_memory - GetItemSize(key, s.node[a].data),
           commit_code |-> s.commit_code, undefined |-> s.undefined]
  BY <1>2, <1>3, Zenon
<1>5. r.node = [x \in DOMAIN s.node \ {a} |->
                 [s.node[x] EXCEPT !.key = IF s.node[x].key = key THEN Freed
                                           ELSE s.node[x].key]]
  BY <1>4, Zenon DEF Erase
<1>6. /\ DOMAIN B = {t \in DOMAIN s.expiry_buckets :
                        t = m => DOMAIN s.expiry_buckets[t] # {a}}
      /\ \A t \in DOMAIN B :
            /\ DOMAIN B[t] = {y \in DOMAIN s.expiry_buckets[t] : t = m => y # a}
            /\ \A x \in DOMAIN B[t] : B[t][x] = s.expiry_buckets[t][x]
  <2>1. CASE DOMAIN s.expiry_buckets[m] = {a}
    BY <2>1 DEF B, EraseFromBucket, Erase
  <2>2. CASE DOMAIN s.expiry_buckets[m] # {a}
    BY <2>2 DEF B, EraseFromBucket, Erase
  <2> QED
    BY <2>1, <2>2, Zenon
<1>7. /\ DOMAIN r.expiry_buckets = {t \in DOMAIN s.expiry_buckets :
                                      t = m => DOMAIN s.expiry_buckets[t] # {a}}
      /\ \A t \in DOMAIN r.expiry_buckets :
            r.expiry_buckets[t] =
              [x \in {y \in DOMAIN s.expiry_buckets[t] : t = m => y # a} |->
                 IF s.expiry_buckets[t][x] = key THEN Freed ELSE s.expiry_buckets[t][x]]
  BY <1>4, <1>6
<1>8. /\ r = [items |-> r.items, node |-> r.node, item_map |-> r.item_map,
              expiry_buckets |-> r.expiry_buckets, used_memory |-> r.used_memory,
              commit_code |-> r.commit_code, undefined |-> r.undefined]
      /\ r.items = RemoveAt(s.items, IndexOf(s.items, a))
      /\ r.item_map = Erase(s.item_map, key)
      /\ r.expiry_buckets = [t \in DOMAIN r.expiry_buckets |-> r.expiry_buckets[t]]
      /\ r.used_memory = s.used_memory - GetItemSize(key, s.node[a].data)
      /\ r.commit_code = s.commit_code
      /\ r.undefined = s.undefined
  BY <1>4
<1> QED
  BY <1>5, <1>7, <1>8, ZenonT(30) DEF a, m, r

\* remove_item keeps the containers in agreement and leaves every other item.
LEMMA RemoveItemSound ==
  ASSUME NEW s, Sound(s), NEW key \in DOMAIN s.item_map
  PROVE  LET r == RemoveItem(s, key)
         IN  /\ Sound(r)
             /\ Shrunk(s, r)
             /\ DOMAIN r.item_map = DOMAIN s.item_map \ {key}
             /\ Len(r.items) = Len(s.items) - 1
             /\ r.undefined = s.undefined
             /\ AllReachable(s) => AllReachable(r)
<1> DEFINE a == s.item_map[key].item_iter
           m == NextPurgeTime(s.node[a].expires_at)
           r == RemoveItem(s, key)
<1>1. /\ r = [items |-> r.items, node |-> r.node, item_map |-> r.item_map,
              expiry_buckets |-> r.expiry_buckets, used_memory |-> r.used_memory,
              commit_code |-> r.commit_code, undefined |-> r.undefined]
      /\ r.items = RemoveAt(s.items, IndexOf(s.items, a))
      /\ r.node = [x \in DOMAIN s.node \ {a} |->
                    [s.node[x] EXCEPT !.key = IF s.node[x].key = key THEN Freed
                                              ELSE s.node[x].key]]
      /\ r.item_map = Erase(s.item_map, key)
      /\ DOMAIN r.expiry_buckets = {t \in DOMAIN s.expiry_buckets :
                                      t = m => DOMAIN s.expiry_buckets[t] # {a}}
      /\ r.expiry_buckets = [t \in DOMAIN r.expiry_buckets |-> r.expiry_buckets[t]]
      /\ \A t \in DOMAIN r.expiry_buckets :
            r.expiry_buckets[t] =
              [x \in {y \in DOMAIN s.expiry_buckets[t] : t = m => y # a} |->
                 IF s.expiry_buckets[t][x] = key THEN Freed ELSE s.expiry_buckets[t][x]]
      /\ r.used_memory = s.used_memory - GetItemSize(key, s.node[a].data)
      /\ r.commit_code = s.commit_code
      /\ r.undefined = s.undefined
  BY RemoveItemMembers, Zenon
<1>2. /\ a \in DOMAIN s.node /\ s.node[a].key = key /\ key \in Keys
      /\ \A k \in DOMAIN s.item_map : /\ s.item_map[k].item_iter \in DOMAIN s.node
                                      /\ s.node[s.item_map[k].item_iter].key = k
      /\ \A x \in DOMAIN s.node : s.node[x] \in CacheItems
      /\ DOMAIN s.node \subseteq Addr
  BY DEF Sound, WellFormed, MapLeadsToNodes, StorageType
<1> HIDE DEF r, a, m
<1>3. /\ DOMAIN r.node = DOMAIN s.node \ {a}
      /\ \A x \in DOMAIN r.node :
            /\ r.node[x] \in CacheItems
            /\ r.node[x].key = IF s.node[x].key = key THEN Freed ELSE s.node[x].key
            /\ r.node[x].data = s.node[x].data
            /\ r.node[x].expires_at = s.node[x].expires_at
  BY <1>1, <1>2 DEF CacheItems
<1>4. /\ DOMAIN r.item_map = DOMAIN s.item_map \ {key}
      /\ \A k \in DOMAIN r.item_map : r.item_map[k] = s.item_map[k]
  BY <1>1, SMTT(30) DEF Erase
<1>5. \A k \in DOMAIN r.item_map :
        /\ s.item_map[k].item_iter \in DOMAIN r.node
        /\ r.node[s.item_map[k].item_iter] = s.node[s.item_map[k].item_iter]
  <2> TAKE k \in DOMAIN r.item_map
  <2> DEFINE x == s.item_map[k].item_iter
  <2>1. x \in DOMAIN s.node /\ s.node[x].key = k /\ k # key /\ x # a
    BY <1>2, <1>4
  <2> HIDE DEF x
  <2>2. x \in DOMAIN r.node /\ r.node[x] = [s.node[x] EXCEPT !.key = s.node[x].key]
    BY <1>1, <2>1
  <2>3. [s.node[x] EXCEPT !.key = s.node[x].key] = s.node[x]
    BY <1>2, <2>1, SMTT(30) DEF CacheItems
  <2> QED
    BY <2>2, <2>3 DEF x
<1>6. /\ r.items \in Seq(Addr)
      /\ Len(r.items) = Len(s.items) - 1
      /\ ListHoldsNodes(r)
  <2>1. s.items \in Seq(Addr) /\ IsInjective(s.items) /\ Range(s.items) = DOMAIN s.node
    BY DEF Sound, WellFormed, ListHoldsNodes, StorageType
  <2> QED
    BY <1>1, <1>2, <1>3, <2>1, RemoveFromList DEF ListHoldsNodes
<1>7. ASSUME NEW t \in DOMAIN r.expiry_buckets
      PROVE  /\ t \in DOMAIN s.expiry_buckets
             /\ t = m => DOMAIN s.expiry_buckets[t] # {a}
             /\ DOMAIN r.expiry_buckets[t] = {y \in DOMAIN s.expiry_buckets[t] : t = m => y # a}
             /\ \A x \in DOMAIN r.expiry_buckets[t] :
                   r.expiry_buckets[t][x] = IF s.expiry_buckets[t][x] = key THEN Freed
                                            ELSE s.expiry_buckets[t][x]
  <2>1. r.expiry_buckets[t] =
              [x \in {y \in DOMAIN s.expiry_buckets[t] : t = m => y # a} |->
                 IF s.expiry_buckets[t][x] = key THEN Freed ELSE s.expiry_buckets[t][x]]
    BY <1>1
  <2>2. t \in DOMAIN s.expiry_buckets /\ (t = m => DOMAIN s.expiry_buckets[t] # {a})
    BY <1>1
  <2> QED
    BY <2>1, <2>2
<1>8. StorageType(r)
  <2>1. r.node \in [DOMAIN r.node -> CacheItems] /\ DOMAIN r.node \subseteq Addr
    BY <1>1, <1>2, <1>3, Zenon
  <2>2. r.item_map \in [DOMAIN r.item_map -> InternalIterators] /\ DOMAIN r.item_map \subseteq Keys
    BY <1>1, <1>4 DEF Sound, StorageType, Erase
  <2>3. /\ DOMAIN r.expiry_buckets \subseteq Nat
        /\ r.expiry_buckets = [t \in DOMAIN r.expiry_buckets |-> r.expiry_buckets[t]]
        /\ \A t \in DOMAIN r.expiry_buckets :
              /\ DOMAIN r.expiry_buckets[t] \subseteq Addr
              /\ r.expiry_buckets[t] \in [DOMAIN r.expiry_buckets[t] -> Keys \cup {Freed}]
    <3>1. DOMAIN r.expiry_buckets \subseteq Nat
      BY <1>7 DEF Sound, StorageType
    <3>2. ASSUME NEW t \in DOMAIN r.expiry_buckets
          PROVE  /\ DOMAIN r.expiry_buckets[t] \subseteq Addr
                 /\ r.expiry_buckets[t] \in [DOMAIN r.expiry_buckets[t] -> Keys \cup {Freed}]
      <4>1. /\ DOMAIN s.expiry_buckets[t] \subseteq Addr
            /\ \A x \in DOMAIN s.expiry_buckets[t] :
                  s.expiry_buckets[t][x] \in Keys \cup {Freed}
        BY <1>7 DEF Sound, StorageType
      <4>2. r.expiry_buckets[t] =
              [x \in {y \in DOMAIN s.expiry_buckets[t] : t = m => y # a} |->
                 IF s.expiry_buckets[t][x] = key THEN Freed ELSE s.expiry_buckets[t][x]]
        BY <1>1
      <4> QED
        BY <4>1, <4>2
    <3> QED
      BY <1>1, <3>1, <3>2, Zenon
  <2>4. r.used_memory \in Int
    <3>1. GetItemSize(key, s.node[a].data) \in Nat
      BY <1>2, GetItemSizeType DEF CacheItems
    <3> QED
      BY <1>1, <3>1 DEF Sound, StorageType
  <2>5. r.commit_code \in CommitResults /\ r.undefined \in BOOLEAN
    BY <1>1, Zenon DEF Sound, StorageType
  <2> QED
    BY <1>1, <1>6, <2>1, <2>2, <2>3, <2>4, <2>5, SMTT(30) DEF StorageType
<1>9. MapLeadsToNodes(r)
  BY <1>4, <1>5 DEF Sound, WellFormed, MapLeadsToNodes
<1>10. KeysAreMapped(r)
  BY <1>3, <1>4 DEF Sound, WellFormed, KeysAreMapped
<1>11. BucketsHoldNodes(r)
  <2>1. ASSUME NEW x \in DOMAIN r.node
        PROVE  LET t == NextPurgeTime(r.node[x].expires_at)
               IN  /\ t \in DOMAIN r.expiry_buckets
                   /\ x \in DOMAIN r.expiry_buckets[t]
                   /\ r.expiry_buckets[t][x] = r.node[x].key
    <3> DEFINE t == NextPurgeTime(s.node[x].expires_at)
    <3>1. /\ t \in DOMAIN s.expiry_buckets /\ x \in DOMAIN s.expiry_buckets[t]
          /\ s.expiry_buckets[t][x] = s.node[x].key /\ x # a
      BY <1>3 DEF Sound, WellFormed, BucketsHoldNodes
    <3> HIDE DEF t
    <3>2. t \in DOMAIN r.expiry_buckets /\ x \in DOMAIN r.expiry_buckets[t]
      BY <1>1, <1>7, <3>1
    <3>3. r.expiry_buckets[t][x] = r.node[x].key
      BY <1>3, <1>7, <3>1, <3>2
    <3>4. NextPurgeTime(r.node[x].expires_at) = t
      BY <1>3 DEF t
    <3> QED
      BY <3>2, <3>3, <3>4
  <2>2. ASSUME NEW t \in DOMAIN r.expiry_buckets
        PROVE  /\ DOMAIN r.expiry_buckets[t] # {}
               /\ \A x \in DOMAIN r.expiry_buckets[t] :
                     x \in DOMAIN r.node /\ NextPurgeTime(r.node[x].expires_at) = t
    <3>1. /\ DOMAIN s.expiry_buckets[t] # {}
          /\ \A x \in DOMAIN s.expiry_buckets[t] :
                x \in DOMAIN s.node /\ NextPurgeTime(s.node[x].expires_at) = t
      BY <1>7 DEF Sound, WellFormed, BucketsHoldNodes
    <3>2. DOMAIN r.expiry_buckets[t] # {}
      BY <1>7, <3>1
    <3>3. ASSUME NEW x \in DOMAIN r.expiry_buckets[t]
          PROVE  x \in DOMAIN r.node /\ NextPurgeTime(r.node[x].expires_at) = t
      <4>1. x \in DOMAIN s.expiry_buckets[t] /\ (t = m => x # a)
        BY <1>7
      <4>2. x # a
        BY <3>1, <4>1, SMTT(30) DEF m
      <4> QED
        BY <1>3, <3>1, <4>1, <4>2, SMTT(30)
    <3> QED
      BY <3>2, <3>3
  <2> QED
    BY <2>1, <2>2 DEF BucketsHoldNodes
<1>12. Shrunk(s, r)
  BY <1>1, <1>3, <1>4, <1>5, ZenonT(30) DEF Shrunk, GetItem
<1>13. AllReachable(s) => AllReachable(r)
  BY <1>2, <1>3, <1>4 DEF AllReachable, a
<1> QED
  BY <1>1, <1>4, <1>6, <1>8, <1>9, <1>10, <1>11, <1>12, <1>13, SMTT(30) DEF Sound, WellFormed, r

----------------------------------------------------------------------------
(* evict_lru_data().                                                       *)

\* A set that holds every well-typed storage.
StorageSet ==
  [items : Seq(Addr),
   node : UNION {[D -> CacheItems] : D \in SUBSET Addr},
   item_map : UNION {[D -> InternalIterators] : D \in SUBSET Keys},
   expiry_buckets : UNION {[D -> UNION {[E -> Keys \cup {Freed}] : E \in SUBSET Addr}] :
                             D \in SUBSET Nat},
   used_memory : Int, commit_code : CommitResults, undefined : BOOLEAN]

\* Well-typed storages are the elements of a set.
LEMMA StorageTypeInSet ==
  ASSUME NEW s, StorageType(s)
  PROVE  s \in StorageSet
<1> DEFINE Buckets == UNION {[E -> Keys \cup {Freed}] : E \in SUBSET Addr}
<1>1. s.node \in UNION {[D -> CacheItems] : D \in SUBSET Addr}
  BY DEF StorageType
<1>2. s.item_map \in UNION {[D -> InternalIterators] : D \in SUBSET Keys}
  BY DEF StorageType
<1>3. s.expiry_buckets \in UNION {[D -> Buckets] : D \in SUBSET Nat}
  <2>1. \A t \in DOMAIN s.expiry_buckets : s.expiry_buckets[t] \in Buckets
    BY DEF StorageType
  <2>2. s.expiry_buckets = [t \in DOMAIN s.expiry_buckets |-> s.expiry_buckets[t]]
    BY DEF StorageType
  <2> HIDE DEF Buckets
  <2>3. s.expiry_buckets \in [DOMAIN s.expiry_buckets -> Buckets]
    BY <2>1, <2>2
  <2>4. DOMAIN s.expiry_buckets \in SUBSET Nat
    BY DEF StorageType
  <2> QED
    BY <2>3, <2>4
<1>4. /\ s = [items |-> s.items, node |-> s.node, item_map |-> s.item_map,
              expiry_buckets |-> s.expiry_buckets, used_memory |-> s.used_memory,
              commit_code |-> s.commit_code, undefined |-> s.undefined]
      /\ s.items \in Seq(Addr) /\ s.used_memory \in Int
      /\ s.commit_code \in CommitResults /\ s.undefined \in BOOLEAN
  BY DEF StorageType
<1> HIDE DEF Buckets
<1>5. s \in [items : Seq(Addr),
   node : UNION {[D -> CacheItems] : D \in SUBSET Addr},
   item_map : UNION {[D -> InternalIterators] : D \in SUBSET Keys},
   expiry_buckets : UNION {[D -> Buckets] : D \in SUBSET Nat},
   used_memory : Int, commit_code : CommitResults, undefined : BOOLEAN]
  BY <1>1, <1>2, <1>3, <1>4
<1> QED
  BY <1>5 DEF StorageSet, Buckets

\* The containers agree whatever the other members are.
LEMMA SoundContainers ==
  ASSUME NEW s, Sound(s), NEW r,
         r = [items |-> s.items, node |-> s.node, item_map |-> s.item_map,
              expiry_buckets |-> s.expiry_buckets, used_memory |-> r.used_memory,
              commit_code |-> r.commit_code, undefined |-> r.undefined],
         r.used_memory \in Int, r.commit_code \in CommitResults, r.undefined \in BOOLEAN
  PROVE  Sound(r) /\ (AllReachable(s) <=> AllReachable(r))
<1>1. /\ r.items = s.items /\ r.node = s.node /\ r.item_map = s.item_map
      /\ r.expiry_buckets = s.expiry_buckets
  OBVIOUS
<1>2. StorageType(r)
  BY <1>1 DEF Sound, StorageType
<1>3. WellFormed(r)
  <2>1. ListHoldsNodes(r) /\ MapLeadsToNodes(r)
    BY <1>1 DEF Sound, WellFormed, ListHoldsNodes, MapLeadsToNodes
  <2>2. KeysAreMapped(r) /\ BucketsHoldNodes(r)
    BY <1>1 DEF Sound, WellFormed, KeysAreMapped, BucketsHoldNodes
  <2> QED
    BY <2>1, <2>2, SMTT(30) DEF WellFormed
<1>4. AllReachable(s) <=> AllReachable(r)
  BY <1>1, Zenon DEF AllReachable
<1> QED
  BY <1>2, <1>3, <1>4 DEF Sound

\* Setting undefined leaves the containers alone.
LEMMA SoundUndefined ==
  ASSUME NEW s, Sound(s)
  PROVE  LET r == [s EXCEPT !.undefined = TRUE]
         IN  /\ Sound(r)
             /\ r.items = s.items /\ r.node = s.node /\ r.item_map = s.item_map
             /\ r.commit_code = s.commit_code
<1> DEFINE r == [s EXCEPT !.undefined = TRUE]
<1>1. /\ s = [items |-> s.items, node |-> s.node, item_map |-> s.item_map,
              expiry_buckets |-> s.expiry_buckets, used_memory |-> s.used_memory,
              commit_code |-> s.commit_code, undefined |-> s.undefined]
      /\ s.used_memory \in Int /\ s.commit_code \in CommitResults
  BY Zenon DEF Sound, StorageType
<1>2. r = [items |-> s.items, node |-> s.node, item_map |-> s.item_map,
           expiry_buckets |-> s.expiry_buckets, used_memory |-> s.used_memory,
           commit_code |-> s.commit_code, undefined |-> TRUE]
  <2>1. ASSUME NEW b
        PROVE  [s EXCEPT !.undefined = b]
                 = [items |-> s.items, node |-> s.node, item_map |-> s.item_map,
                    expiry_buckets |-> s.expiry_buckets, used_memory |-> s.used_memory,
                    commit_code |-> s.commit_code, undefined |-> b]
    BY <1>1
  <2> QED
    BY <2>1, Zenon
<1> HIDE DEF r
<1>3. Sound(r)
  BY <1>1, <1>2, SoundContainers, ZenonT(30)
<1> QED
  BY <1>2, <1>3 DEF r

\* So does setting the commit code.
LEMMA SoundCode ==
  ASSUME NEW s, Sound(s), NEW code \in CommitResults
  PROVE  LET r == [s EXCEPT !.commit_code = code]
         IN  /\ Sound(r)
             /\ AllReachable(s) => AllReachable(r)
             /\ r.items = s.items /\ r.node = s.node /\ r.item_map = s.item_map
             /\ r.undefined = s.undefined
<1> DEFINE r == [s EXCEPT !.commit_code = code]
<1>1. /\ s = [items |-> s.items, node |-> s.node, item_map |-> s.item_map,
              expiry_buckets |-> s.expiry_buckets, used_memory |-> s.used_memory,
              commit_code |-> s.commit_code, undefined |-> s.undefined]
      /\ s.used_memory \in Int /\ s.undefined \in BOOLEAN
  BY Zenon DEF Sound, StorageType
<1>2. r = [items |-> s.items, node |-> s.node, item_map |-> s.item_map,
           expiry_buckets |-> s.expiry_buckets, used_memory |-> s.used_memory,
           commit_code |-> code, undefined |-> s.undefined]
  BY <1>1
<1> HIDE DEF r
<1>3. Sound(r) /\ (AllReachable(s) <=> AllReachable(r))
  BY <1>1, <1>2, SoundContainers
<1> QED
  BY <1>2, <1>3 DEF r

\* What has shrunk twice has shrunk.
LEMMA ShrunkTransitive ==
  ASSUME NEW s, NEW r, NEW q, Shrunk(s, r), Shrunk(r, q)
  PROVE  Shrunk(s, q)
  BY DEF Shrunk

\* The invariant of the loop: s is what is left of s0, own is not removed, and no
\* dangling pointer is followed if all items of s0 can be reached.
Evicting(s0, own, loop) ==
  /\ loop = [s |-> loop.s, at |-> loop.at, available |-> loop.available, done |-> loop.done]
  /\ Sound(loop.s)
  /\ Shrunk(s0, loop.s)
  /\ own \in DOMAIN s0.item_map => own \in DOMAIN loop.s.item_map
  /\ AllReachable(s0) => AllReachable(loop.s) /\ loop.s.undefined = s0.undefined
  /\ loop.at \in 0..Len(loop.s.items)
  /\ loop.available \in Int
  /\ loop.done \in BOOLEAN

\* An iteration of the loop of evict_lru_data keeps the loop's invariant.
LEMMA EvictStepEvicting ==
  ASSUME NEW s0, NEW own, NEW required \in Int, NEW loop, Evicting(s0, own, loop)
  PROVE  Evicting(s0, own, EvictStep(own, required, loop))
<1> DEFINE s == loop.s
           item == s.node[s.items[loop.at]]
           removed == IndexOf(s.items, s.item_map[item.key].item_iter)
           available == ToInt(loop.available + GetItemSize(item.key, item.data))
<1>1. CASE loop.at = 0 \/ loop.done
  BY <1>1, ZenonT(30) DEF EvictStep
<1>2. CASE ~(loop.at = 0 \/ loop.done)
  <2>1. s.items \in Seq(Addr) /\ IsInjective(s.items) /\ Range(s.items) = DOMAIN s.node
    BY DEF Evicting, Sound, StorageType, WellFormed, ListHoldsNodes
  <2>2. Len(s.items) \in Nat /\ DOMAIN s.items = 1..Len(s.items) /\ loop.at \in 1..Len(s.items)
    BY <1>2, <2>1, LenProperties DEF Evicting
  <2>3. s.items[loop.at] \in DOMAIN s.node
    BY <2>1, <2>2, SMTT(30) DEF Range
  <2>4. item \in CacheItems /\ item.key \in DOMAIN s.item_map \cup {Freed}
    BY <2>3 DEF Evicting, Sound, StorageType, WellFormed, KeysAreMapped
  <2>5. CASE item.key = Freed
    <3> DEFINE r == [s EXCEPT !.undefined = TRUE]
    <3>1. EvictStep(own, required, loop) = [loop EXCEPT !.s.undefined = TRUE, !.done = TRUE]
      BY <1>2, <2>5 DEF EvictStep
    <3>2. EvictStep(own, required, loop)
            = [s |-> r, at |-> loop.at, available |-> loop.available, done |-> TRUE]
      BY <3>1, Zenon DEF Evicting
    <3>3. /\ Sound(r)
          /\ r.items = s.items /\ r.node = s.node /\ r.item_map = s.item_map
          /\ r.commit_code = s.commit_code
      BY SoundUndefined, Zenon DEF Evicting
    <3> HIDE DEF r
    <3>5. Shrunk(s0, r)
      BY <3>3 DEF Evicting, Shrunk, GetItem
    <3>6. ~AllReachable(s0)
      BY <2>3, <2>5, FreedAssumption DEF Evicting, AllReachable, Sound, StorageType
    <3> QED
      BY <3>2, <3>3, <3>5, <3>6, SMTT(30) DEF Evicting
  <2>6. CASE item.key # Freed /\ item.key = own
    <3>1. EvictStep(own, required, loop) = [loop EXCEPT !.at = @ - 1]
      BY <1>2, <2>6 DEF EvictStep
    <3>2. EvictStep(own, required, loop)
            = [s |-> s, at |-> loop.at - 1, available |-> loop.available, done |-> loop.done]
      BY <3>1 DEF Evicting
    <3> HIDE DEF item
    <3> QED
      BY <2>2, <3>2, SMTT(30) DEF Evicting
  <2>7. CASE item.key # Freed /\ item.key # own
    <3> DEFINE r == RemoveItem(s, item.key)
    <3>1. EvictStep(own, required, loop)
            = [s |-> r, at |-> removed - 1, available |-> available,
               done |-> available >= required]
      BY <1>2, <2>7, SMTT(30) DEF EvictStep
    <3>2. item.key \in DOMAIN s.item_map /\ item.key \in Keys
      BY <2>4, <2>7 DEF CacheItems
    <3> HIDE DEF item
    <3>3. Sound(s)
      BY DEF Evicting
    <3>4. /\ Sound(r)
          /\ Shrunk(s, r)
          /\ DOMAIN r.item_map = DOMAIN s.item_map \ {item.key}
          /\ Len(r.items) = Len(s.items) - 1
          /\ r.undefined = s.undefined
          /\ AllReachable(s) => AllReachable(r)
      BY <3>2, <3>3, RemoveItemSound, ZenonT(30)
    <3>5. Shrunk(s0, r)
      BY <3>4, ShrunkTransitive, SMTT(30) DEF Evicting
    <3>6. s.item_map[item.key].item_iter \in Range(s.items)
      BY <2>1, <3>2, <3>3, SMTT(30) DEF Sound, WellFormed, MapLeadsToNodes
    <3>7. removed \in 1..Len(s.items)
      BY <2>1, <3>6, RemoveFromList
    <3>8. available \in Int
      BY <2>4, <3>2, GetItemSizeType, ToIntType DEF Evicting, CacheItems
    <3> HIDE DEF r, removed, available
    <3>9. removed - 1 \in 0..Len(r.items)
      BY <2>2, <3>4, <3>7
    <3>10. (available >= required) \in BOOLEAN
      BY <3>8
    <3>11. own \in DOMAIN s0.item_map => own \in DOMAIN r.item_map
      BY <2>7, <3>4 DEF Evicting
    <3>12. AllReachable(s0) => AllReachable(r) /\ r.undefined = s0.undefined
      BY <3>4 DEF Evicting
    <3> QED
      BY <3>1, <3>4, <3>5, <3>8, <3>9, <3>10, <3>11, <3>12, SMTT(30) DEF Evicting
  <2> QED
    BY <2>5, <2>6, <2>7
<1> QED
  BY <1>1, <1>2

\* The loop starts with its invariant.
LEMMA EvictStartEvicting ==
  ASSUME NEW s, Sound(s), NEW own, NEW required \in Int
  PROVE  Evicting(s, own, EvictStart(s, required))
<1> DEFINE available == ToInt(CacheSize - s.used_memory)
<1>1. available \in Int
  BY SizesAssumption, ToIntType DEF Sound, StorageType
<1>2. Len(s.items) \in 0..Len(s.items)
  BY LenProperties DEF Sound, StorageType
<1>3. Shrunk(s, s)
  BY DEF Shrunk
<1>4. EvictStart(s, required)
        = [s |-> s, at |-> Len(s.items), available |-> available, done |-> available >= required]
  BY DEF EvictStart
<1> HIDE DEF available
<1>5. (available >= required) \in BOOLEAN
  BY <1>1
<1> QED
  BY <1>1, <1>2, <1>3, <1>4, <1>5, SMTT(30) DEF Evicting

\* evict_lru_data keeps the containers in agreement, removes items other than the
\* one of own, and follows no dangling pointer if all items can be reached.
LEMMA EvictLruDataSound ==
  ASSUME NEW s, Sound(s), NEW own, NEW required \in Int
  PROVE  LET r == EvictLruData(s, own, required)
         IN  /\ Sound(r)
             /\ Shrunk(s, r)
             /\ own \in DOMAIN s.item_map => own \in DOMAIN r.item_map
             /\ AllReachable(s) => AllReachable(r) /\ r.undefined = s.undefined
<1> DEFINE S == {l \in [s : StorageSet, at : Nat, available : Int, done : BOOLEAN] :
                   Evicting(s, own, l)}
           start == EvictStart(s, required)
           step == [l \in S |-> EvictStep(own, required, l)]
           loop == CHOOSE f : f = [n \in Nat |-> IF n = 0 THEN start
                                                 ELSE EvictStep(own, required, f[n - 1])]
<1>1. ASSUME NEW l, Evicting(s, own, l) PROVE l \in S
  <2>1. l.s \in StorageSet
    BY <1>1, StorageTypeInSet DEF Evicting, Sound
  <2>2. l.at \in Nat
    BY <1>1 DEF Evicting
  <2>3. l.available \in Int /\ l.done \in BOOLEAN
        /\ l = [s |-> l.s, at |-> l.at, available |-> l.available, done |-> l.done]
    BY <1>1, Zenon DEF Evicting
  <2>4. l \in [s : StorageSet, at : Nat, available : Int, done : BOOLEAN]
    BY <2>1, <2>2, <2>3
  <2> QED
    BY <1>1, <2>4
<1>2. start \in S
  BY <1>1, EvictStartEvicting
<1>3. \A l \in S : EvictStep(own, required, l) \in S
  BY <1>1, EvictStepEvicting
<1>4. \A l \in S : Evicting(s, own, l)
  OBVIOUS
<1> HIDE DEF S, start
<1>5. step \in [S -> S] /\ \A l \in S : step[l] = EvictStep(own, required, l)
  BY <1>3
<1> HIDE DEF step
<1>6. \E f : f = [n \in Nat |-> IF n = 0 THEN start ELSE EvictStep(own, required, f[n - 1])]
  <2>1. PICK f \in [Nat -> S] : IsLoop(f, start, step)
    BY <1>2, <1>5, IterationExists
  <2>2. ASSUME NEW n \in Nat
        PROVE  (IF n = 0 THEN start ELSE step[f[n - 1]])
                 = IF n = 0 THEN start ELSE EvictStep(own, required, f[n - 1])
    <3>1. n # 0 => f[n - 1] \in S
      OBVIOUS
    <3> QED
      BY <1>5, <3>1
  <2>3. f = [n \in Nat |-> IF n = 0 THEN start ELSE EvictStep(own, required, f[n - 1])]
    BY <2>1, <2>2, Zenon DEF IsLoop
  <2> QED
    BY <2>3
<1>7. loop = [n \in Nat |-> IF n = 0 THEN start ELSE EvictStep(own, required, loop[n - 1])]
  BY <1>6, Zenon
<1>8. EvictLruData(s, own, required) = loop[Len(s.items)].s
  BY DEF EvictLruData, start
<1> HIDE DEF loop
<1>9. \A n \in Nat : loop[n] \in S
  <2> DEFINE G == {n \in Nat : loop[n] \in S}
  <2>1. 0 \in G
    BY <1>2, <1>7
  <2>2. ASSUME NEW n \in Nat, n \in G PROVE n + 1 \in G
    <3>1. loop[n + 1] = EvictStep(own, required, loop[n])
      BY <1>7
    <3> QED
      BY <1>3, <2>2, <3>1
  <2> QED
    BY <2>1, <2>2, SetInduction, Zenon
<1>10. Len(s.items) \in Nat
  BY LenProperties DEF Sound, StorageType
<1>11. Evicting(s, own, loop[Len(s.items)])
  BY <1>4, <1>9, <1>10
<1> QED
  BY <1>8, <1>11 DEF Evicting

----------------------------------------------------------------------------
(* commit_read().                                                          *)

\* Moving a node to the head of the list keeps the nodes of the list.
LEMMA MoveToFrontList ==
  ASSUME NEW S, NEW seq \in Seq(S), IsInjective(seq), NEW a \in Range(seq)
  PROVE  /\ MoveToFront(seq, a) \in Seq(S)
         /\ IsInjective(MoveToFront(seq, a))
         /\ Range(MoveToFront(seq, a)) = Range(seq)
<1> DEFINE rest == RemoveAt(seq, IndexOf(seq, a))
<1>1. /\ rest \in Seq(S) /\ IsInjective(rest) /\ Range(rest) = Range(seq) \ {a}
  BY RemoveFromList
<1>2. a \in S
  BY LenProperties DEF Range
<1> HIDE DEF rest
<1>3. /\ <<a>> \o rest \in Seq(S)
      /\ IsInjective(<<a>> \o rest)
      /\ Range(<<a>> \o rest) = Range(rest) \cup {a}
  BY <1>1, <1>2, AddToList
<1> QED
  BY <1>1, <1>3, Zenon DEF MoveToFront, rest

\* commit_read keeps the containers in agreement.
LEMMA CommitReadSound ==
  ASSUME NEW s, Sound(s), NEW key, NEW at
  PROVE  LET r == CommitRead(s, key, at)
         IN  /\ Sound(r)
             /\ AllReachable(s) => AllReachable(r)
             /\ r.undefined = s.undefined
<1> DEFINE r == CommitRead(s, key, at)
<1>1. CASE ~Has(s, key, at)
  <2>1. r = [s EXCEPT !.commit_code = "NOT_FOUND"]
    BY <1>1 DEF CommitRead
  <2>2. "NOT_FOUND" \in CommitResults
    BY DEF CommitResults
  <2>3. /\ Sound([s EXCEPT !.commit_code = "NOT_FOUND"])
        /\ AllReachable(s) => AllReachable([s EXCEPT !.commit_code = "NOT_FOUND"])
        /\ [s EXCEPT !.commit_code = "NOT_FOUND"].undefined = s.undefined
    BY <2>2, SoundCode, Zenon
  <2> QED
    BY <2>1, <2>3, Zenon
<1>2. CASE Has(s, key, at)
  <2> DEFINE a == s.item_map[key].item_iter
             items == MoveToFront(s.items, a)
  <2>1. r = [s EXCEPT !.commit_code = "DONE_OK", !.items = items]
    BY <1>2 DEF CommitRead
  <2>2. /\ s = [items |-> s.items, node |-> s.node, item_map |-> s.item_map,
                expiry_buckets |-> s.expiry_buckets, used_memory |-> s.used_memory,
                commit_code |-> s.commit_code, undefined |-> s.undefined]
        /\ s.items \in Seq(Addr) /\ s.undefined \in BOOLEAN
    BY Zenon DEF Sound, StorageType
  <2>3. a \in Range(s.items) /\ IsInjective(s.items)
    BY <1>2 DEF Has, Sound, WellFormed, ListHoldsNodes, MapLeadsToNodes
  <2>4. items \in Seq(Addr) /\ IsInjective(items) /\ Range(items) = Range(s.items)
    BY <2>2, <2>3, MoveToFrontList
  <2> HIDE DEF a, items, r
  <2>5. r = [items |-> items, node |-> s.node, item_map |-> s.item_map,
             expiry_buckets |-> s.expiry_buckets, used_memory |-> s.used_memory,
             commit_code |-> "DONE_OK", undefined |-> s.undefined]
    BY <2>1, <2>2, ZenonT(30)
  <2>6. /\ r.items = items /\ r.node = s.node /\ r.item_map = s.item_map
        /\ r.expiry_buckets = s.expiry_buckets /\ r.used_memory = s.used_memory
        /\ r.commit_code = "DONE_OK"
    BY <2>5
  <2>7. r.undefined = s.undefined
    BY <2>5, Zenon
  <2>8. StorageType(r)
    BY <2>2, <2>4, <2>5, <2>6, <2>7 DEF Sound, StorageType, CommitResults
  <2>9. ListHoldsNodes(r)
    BY <2>4, <2>6 DEF Sound, WellFormed, ListHoldsNodes
  <2>10. MapLeadsToNodes(r)
    BY <2>6 DEF Sound, WellFormed, MapLeadsToNodes
  <2>11. KeysAreMapped(r) /\ BucketsHoldNodes(r)
    BY <2>6 DEF Sound, WellFormed, KeysAreMapped, BucketsHoldNodes
  <2>12. AllReachable(s) => AllReachable(r)
    BY <2>6 DEF AllReachable
  <2> QED
    BY <2>7, <2>8, <2>9, <2>10, <2>11, <2>12, SMTT(30) DEF Sound, WellFormed, r
<1> QED
  BY <1>1, <1>2

----------------------------------------------------------------------------
(* insert_item().                                                          *)

\* B is buckets with an entry of a in the bucket of t.
WithEntry(buckets, t, a, key, B) ==
  /\ DOMAIN B = DOMAIN buckets \cup {t}
  /\ B = [u \in DOMAIN B |-> B[u]]
  /\ \A u \in DOMAIN buckets \ {t} : B[u] = buckets[u]
  /\ B[t] = [x \in DOMAIN B[t] |-> B[t][x]]
  /\ a \in DOMAIN B[t] /\ B[t][a] = key
  /\ t \in DOMAIN buckets => DOMAIN buckets[t] \subseteq DOMAIN B[t]
  /\ \A x \in DOMAIN B[t] \ {a} : /\ t \in DOMAIN buckets
                                  /\ x \in DOMAIN buckets[t]
                                  /\ B[t][x] = buckets[t][x]

\* A new entry of a bucket is the only change to the buckets.
LEMMA AddToBucketMembers ==
  ASSUME NEW buckets, NEW t, NEW a, NEW key
  PROVE  WithEntry(buckets, t, a, key, AddToBucket(buckets, t, a, key))
<1> DEFINE old == IF t \in DOMAIN buckets THEN buckets[t] ELSE NoFunction
           new == Put(old, a, key)
           B == AddToBucket(buckets, t, a, key)
<1>1. B = [u \in DOMAIN buckets \cup {t} |-> IF u = t THEN new ELSE buckets[u]]
  BY Zenon DEF AddToBucket, Put
<1>2. new = [x \in DOMAIN old \cup {a} |-> IF x = a THEN key ELSE old[x]]
  BY DEF Put
<1>3. t \notin DOMAIN buckets => DOMAIN old = {}
  BY DEF NoFunction
<1>4. t \in DOMAIN buckets => old = buckets[t]
  OBVIOUS
<1> HIDE DEF old, new, B
<1>5. /\ DOMAIN B = DOMAIN buckets \cup {t}
      /\ B = [u \in DOMAIN B |-> B[u]]
      /\ \A u \in DOMAIN buckets \ {t} : B[u] = buckets[u]
      /\ B[t] = new
  BY <1>1
<1>6. /\ DOMAIN new = DOMAIN old \cup {a}
      /\ new = [x \in DOMAIN new |-> new[x]]
      /\ new[a] = key
      /\ \A x \in DOMAIN new \ {a} : x \in DOMAIN old /\ new[x] = old[x]
  BY <1>2
<1> QED
  BY <1>3, <1>4, <1>5, <1>6 DEF B, WithEntry

\* insert_item keeps the containers in agreement; all items can be reached after
\* it if they could be before and the key was not in the map.
LEMMA InsertItemSound ==
  ASSUME NEW s, Sound(s), NEW key \in Keys, NEW data \in Data, NEW expires_at \in Nat,
         HasFreeNode(s, key)
  PROVE  LET r == InsertItem(s, key, data, expires_at)
         IN  /\ Sound(r)
             /\ key \notin DOMAIN s.item_map /\ AllReachable(s) => AllReachable(r)
             /\ r.undefined = s.undefined
<1> DEFINE a == FreeNode(s, key)
           t == NextPurgeTime(expires_at)
           item == [key |-> key, data |-> data, expires_at |-> expires_at]
           iters == [item_iter |-> a, expiry_map_iter |-> t, expiry_bucket_iter |-> a]
           B == AddToBucket(s.expiry_buckets, t, a, key)
           map == IF key \in DOMAIN s.item_map THEN s.item_map ELSE Put(s.item_map, key, iters)
           r == InsertItem(s, key, data, expires_at)
<1>1. a \in {key} \X (1..MaxNodes) /\ a \notin DOMAIN s.node
  BY DEF HasFreeNode, FreeNode
<1>2. a \in Addr /\ a[1] = key /\ t \in Nat
  BY <1>1, NextPurgeTimeType DEF Addr
<1>3. /\ s = [items |-> s.items, node |-> s.node, item_map |-> s.item_map,
              expiry_buckets |-> s.expiry_buckets, used_memory |-> s.used_memory,
              commit_code |-> s.commit_code, undefined |-> s.undefined]
      /\ s.items \in Seq(Addr) /\ s.undefined \in BOOLEAN
  BY Zenon DEF Sound, StorageType
<1>4. r = [s EXCEPT !.items = <<a>> \o s.items,
                    !.node = Put(s.node, a, item),
                    !.item_map = map,
                    !.expiry_buckets = B,
                    !.used_memory = s.used_memory + GetItemSize(key, data)]
  BY DEF InsertItem
<1> HIDE DEF a, item, B, map, r, t, iters
<1>5. r = [items |-> <<a>> \o s.items, node |-> Put(s.node, a, item), item_map |-> map,
           expiry_buckets |-> B, used_memory |-> s.used_memory + GetItemSize(key, data),
           commit_code |-> s.commit_code, undefined |-> s.undefined]
  BY <1>3, <1>4, Zenon
<1>6. /\ r.items = <<a>> \o s.items /\ r.node = Put(s.node, a, item)
      /\ r.item_map = map /\ r.expiry_buckets = B
      /\ r.used_memory = s.used_memory + GetItemSize(key, data)
      /\ r.commit_code = s.commit_code
  BY <1>5
<1>7. r.undefined = s.undefined
  BY <1>5, Zenon
<1>8. /\ DOMAIN r.node = DOMAIN s.node \cup {a}
      /\ r.node[a] = item
      /\ \A x \in DOMAIN s.node : r.node[x] = s.node[x]
      /\ r.node = [x \in DOMAIN r.node |-> r.node[x]]
  BY <1>1, <1>6 DEF Put
<1>9. item \in CacheItems /\ item.key = key /\ item.expires_at = expires_at
  BY DEF item, CacheItems
<1>10. iters \in InternalIterators /\ iters.item_iter = a
       /\ iters.expiry_map_iter = t /\ iters.expiry_bucket_iter = a
  BY <1>2 DEF iters, InternalIterators
<1>11. /\ DOMAIN map = DOMAIN s.item_map \cup {key}
       /\ key \notin DOMAIN s.item_map => map[key] = iters
       /\ \A k \in DOMAIN s.item_map : map[k] = s.item_map[k]
       /\ map \in [DOMAIN map -> InternalIterators]
  BY <1>10 DEF map, Put, Sound, StorageType
<1>12. WithEntry(s.expiry_buckets, t, a, key, B)
  BY AddToBucketMembers DEF B
<1>13. r.items \in Seq(Addr) /\ ListHoldsNodes(r)
  <2>1. IsInjective(s.items) /\ Range(s.items) = DOMAIN s.node
    BY DEF Sound, WellFormed, ListHoldsNodes
  <2> QED
    BY <1>1, <1>2, <1>3, <1>6, <1>8, <2>1, AddToList, SMTT(30) DEF ListHoldsNodes
<1>14. StorageType(r)
  <2>1. DOMAIN r.node \subseteq Addr /\ r.node \in [DOMAIN r.node -> CacheItems]
    BY <1>2, <1>8, <1>9, Zenon DEF Sound, StorageType
  <2>2. DOMAIN r.item_map \subseteq Keys /\ r.item_map \in [DOMAIN r.item_map -> InternalIterators]
    BY <1>6, <1>11 DEF Sound, StorageType
  <2>3. DOMAIN B \subseteq Nat
    BY <1>2, <1>12 DEF WithEntry, Sound, StorageType
  <2>4. ASSUME NEW u \in DOMAIN B
        PROVE  DOMAIN B[u] \subseteq Addr /\ B[u] \in [DOMAIN B[u] -> Keys \cup {Freed}]
    <3>1. CASE u # t
      BY <1>12, <3>1 DEF WithEntry, Sound, StorageType
    <3>2. CASE u = t
      BY <1>2, <1>12, <3>2 DEF WithEntry, Sound, StorageType
    <3> QED
      BY <3>1, <3>2
  <2>5. r.used_memory \in Int
    BY <1>6, GetItemSizeType DEF Sound, StorageType
  <2>6. r.commit_code \in CommitResults /\ r.undefined \in BOOLEAN
    BY <1>6, <1>7, Zenon DEF Sound, StorageType
  <2>7. r = [items |-> r.items, node |-> r.node, item_map |-> r.item_map,
             expiry_buckets |-> r.expiry_buckets, used_memory |-> r.used_memory,
             commit_code |-> r.commit_code, undefined |-> r.undefined]
    BY <1>5, <1>6, <1>7, ZenonT(30)
  <2> QED
    BY <1>6, <1>12, <1>13, <2>1, <2>2, <2>3, <2>4, <2>5, <2>6, <2>7, SMTT(30) DEF WithEntry, StorageType
<1>15. MapLeadsToNodes(r)
  BY <1>6, <1>8, <1>9, <1>10, <1>11, SMTT(30) DEF Sound, WellFormed, MapLeadsToNodes, t
<1>16. KeysAreMapped(r)
  BY <1>2, <1>6, <1>8, <1>9, <1>11, SMTT(30) DEF Sound, WellFormed, KeysAreMapped
<1>17. BucketsHoldNodes(r)
  <2>1. ASSUME NEW x \in DOMAIN r.node
        PROVE  LET u == NextPurgeTime(r.node[x].expires_at)
               IN  u \in DOMAIN B /\ x \in DOMAIN B[u] /\ B[u][x] = r.node[x].key
    <3>1. CASE x = a
      BY <1>8, <1>9, <1>12, <3>1, SMTT(30) DEF WithEntry, t
    <3>2. CASE x # a
      BY <1>8, <1>12, <3>2 DEF WithEntry, Sound, WellFormed, BucketsHoldNodes
    <3> QED
      BY <3>1, <3>2
  <2>2. ASSUME NEW u \in DOMAIN B
        PROVE  /\ DOMAIN B[u] # {}
               /\ \A x \in DOMAIN B[u] :
                     x \in DOMAIN r.node /\ NextPurgeTime(r.node[x].expires_at) = u
    <3>1. CASE u # t
      BY <1>8, <1>12, <3>1, SMTT(30) DEF WithEntry, Sound, WellFormed, BucketsHoldNodes
    <3>2. CASE u = t
      <4>1. NextPurgeTime(r.node[a].expires_at) = t
        BY <1>8, <1>9 DEF t
      <4> QED
        BY <1>8, <1>12, <3>2, <4>1, SMTT(30) DEF WithEntry, Sound, WellFormed, BucketsHoldNodes
    <3> QED
      BY <3>1, <3>2
  <2> QED
    BY <1>6, <2>1, <2>2, SMTT(30) DEF BucketsHoldNodes
<1>18. key \notin DOMAIN s.item_map /\ AllReachable(s) => AllReachable(r)
  BY <1>6, <1>8, <1>9, <1>10, <1>11, SMTT(30) DEF AllReachable
<1> QED
  BY <1>7, <1>13, <1>14, <1>15, <1>16, <1>17, <1>18, SMTT(30) DEF Sound, WellFormed, r

----------------------------------------------------------------------------
(* update_item().                                                          *)

\* C is buckets with the entry of a moved from the bucket of m to the one of t.
EntryMoved(buckets, m, t, a, key, C) ==
  /\ C = [u \in DOMAIN C |-> C[u]]
  /\ DOMAIN C \subseteq DOMAIN buckets \cup {t}
  /\ \A u \in DOMAIN buckets \ {m, t} : u \in DOMAIN C /\ C[u] = buckets[u]
  /\ m \in DOMAIN C <=> DOMAIN buckets[m] # {a}
  /\ m \in DOMAIN C => C[m] = Erase(buckets[m], a)
  /\ t \in DOMAIN C
  /\ C[t] = [x \in DOMAIN C[t] |-> C[t][x]]
  /\ a \in DOMAIN C[t] /\ C[t][a] = key
  /\ t \in DOMAIN buckets => DOMAIN buckets[t] \subseteq DOMAIN C[t]
  /\ \A x \in DOMAIN C[t] \ {a} : /\ t \in DOMAIN buckets
                                  /\ x \in DOMAIN buckets[t]
                                  /\ C[t][x] = buckets[t][x]

\* update_item_expiry_bucket moves the entry of an item between two buckets.
LEMMA MoveEntryMembers ==
  ASSUME NEW buckets, NEW m \in DOMAIN buckets, NEW t, m # t, NEW a, NEW key
  PROVE  EntryMoved(buckets, m, t, a, key,
                    EraseFromBucket(AddToBucket(buckets, t, a, key), m, a))
<1> DEFINE B == AddToBucket(buckets, t, a, key)
           C == EraseFromBucket(B, m, a)
<1>1. WithEntry(buckets, t, a, key, B)
  BY AddToBucketMembers
<1> HIDE DEF B
<1>2. m \in DOMAIN B /\ B[m] = buckets[m]
  BY <1>1 DEF WithEntry
<1>3. CASE DOMAIN buckets[m] = {a}
  <2>1. C = [u \in DOMAIN B \ {m} |-> B[u]]
    BY <1>2, <1>3 DEF EraseFromBucket, Erase
  <2> HIDE DEF C
  <2>2. /\ DOMAIN C = DOMAIN B \ {m} /\ C = [u \in DOMAIN C |-> C[u]]
        /\ \A u \in DOMAIN C : C[u] = B[u]
    BY <2>1
  <2>3. t \in DOMAIN C /\ C[t] = B[t]
    BY <1>1, <2>2 DEF WithEntry
  <2>4. EntryMoved(buckets, m, t, a, key, C)
    BY <1>1, <1>3, <2>2, <2>3, SMTT(30) DEF WithEntry, EntryMoved
  <2> QED
    BY <2>4 DEF B, C
<1>4. CASE DOMAIN buckets[m] # {a}
  <2>1. C = [B EXCEPT ![m] = Erase(B[m], a)]
    BY <1>2, <1>4 DEF EraseFromBucket
  <2> HIDE DEF C
  <2>2. /\ DOMAIN C = DOMAIN B /\ C = [u \in DOMAIN C |-> C[u]]
        /\ \A u \in DOMAIN C \ {m} : C[u] = B[u]
        /\ C[m] = Erase(buckets[m], a)
    BY <1>1, <1>2, <2>1, ZenonT(30) DEF WithEntry
  <2>3. t \in DOMAIN C /\ C[t] = B[t]
    BY <1>1, <2>2 DEF WithEntry
  <2>4. EntryMoved(buckets, m, t, a, key, C)
    BY <1>1, <1>2, <1>4, <2>2, <2>3 DEF WithEntry, EntryMoved
  <2> QED
    BY <2>4 DEF B, C
<1> QED
  BY <1>3, <1>4

\* update_item keeps the containers in agreement.
LEMMA UpdateItemSound ==
  ASSUME NEW s, Sound(s), NEW key \in DOMAIN s.item_map, NEW data \in Data,
         NEW expires_at \in Nat
  PROVE  LET r == UpdateItem(s, key, data, expires_at)
         IN  /\ Sound(r)
             /\ AllReachable(s) => AllReachable(r)
             /\ r.undefined = s.undefined
<1> DEFINE iters == s.item_map[key]
           a == iters.item_iter
           old == s.node[a]
           m == NextPurgeTime(old.expires_at)
           t == NextPurgeTime(expires_at)
           item == [key |-> key, data |-> data, expires_at |-> expires_at]
           items == MoveToFront(s.items, a)
           memory == s.used_memory + (GetItemSize(key, data) - GetItemSize(key, old.data))
           map == IF m = t THEN s.item_map
                  ELSE [s.item_map EXCEPT ![key] = [iters EXCEPT !.expiry_map_iter = t]]
           C == IF m = t THEN s.expiry_buckets
                ELSE EraseFromBucket(AddToBucket(s.expiry_buckets, t, a, key), m, a)
           r == UpdateItem(s, key, data, expires_at)
<1>1. /\ a \in DOMAIN s.node /\ old.key = key /\ old \in CacheItems
      /\ iters.expiry_map_iter = m /\ iters.expiry_bucket_iter = a
      /\ iters \in InternalIterators /\ key \in Keys
  BY SMTT(30) DEF Sound, WellFormed, MapLeadsToNodes, StorageType
<1>2. t \in Nat /\ m \in Nat
  BY <1>1, NextPurgeTimeType DEF CacheItems
<1>3. /\ s = [items |-> s.items, node |-> s.node, item_map |-> s.item_map,
              expiry_buckets |-> s.expiry_buckets, used_memory |-> s.used_memory,
              commit_code |-> s.commit_code, undefined |-> s.undefined]
      /\ s.items \in Seq(Addr) /\ s.undefined \in BOOLEAN /\ s.used_memory \in Int
  BY Zenon DEF Sound, StorageType
<1>4. r = [items |-> items, node |-> [s.node EXCEPT ![a] = item], item_map |-> map,
           expiry_buckets |-> C, used_memory |-> memory,
           commit_code |-> s.commit_code, undefined |-> s.undefined]
  <2> DEFINE node == [s.node EXCEPT ![a] = item]
             moved == [s EXCEPT !.items = items, !.node = node, !.used_memory = memory]
             B == EraseFromBucket(AddToBucket(s.expiry_buckets, t, a, key), m, a)
             newMap == [moved.item_map EXCEPT ![key] = [iters EXCEPT !.expiry_map_iter = t]]
  <2>1. r = IF m = t THEN moved
            ELSE [moved EXCEPT !.expiry_buckets = B, !.item_map = newMap]
    BY <1>1, Zenon DEF UpdateItem
  <2> HIDE DEF t, m, iters, a, old, item, items, memory, node, B, newMap, r
  <2>2. moved = [items |-> items, node |-> node, item_map |-> s.item_map,
                 expiry_buckets |-> s.expiry_buckets, used_memory |-> memory,
                 commit_code |-> s.commit_code, undefined |-> s.undefined]
    <3>1. s = [items |-> s.items, node |-> s.node, item_map |-> s.item_map,
               expiry_buckets |-> s.expiry_buckets, used_memory |-> s.used_memory,
               commit_code |-> s.commit_code, undefined |-> s.undefined]
      BY <1>3, Zenon
    <3> DEFINE s1 == [s EXCEPT !.items = items]
               s2 == [s1 EXCEPT !.node = node]
               s3 == [s2 EXCEPT !.used_memory = memory]
    <3>2. s1 = [items |-> items, node |-> s.node, item_map |-> s.item_map,
                expiry_buckets |-> s.expiry_buckets, used_memory |-> s.used_memory,
                commit_code |-> s.commit_code, undefined |-> s.undefined]
      BY <3>1
    <3> HIDE DEF s1
    <3>3. s2 = [items |-> items, node |-> node, item_map |-> s.item_map,
                expiry_buckets |-> s.expiry_buckets, used_memory |-> s.used_memory,
                commit_code |-> s.commit_code, undefined |-> s.undefined]
      BY <3>2
    <3> HIDE DEF s2
    <3>4. s3 = [items |-> items, node |-> node, item_map |-> s.item_map,
                expiry_buckets |-> s.expiry_buckets, used_memory |-> memory,
                commit_code |-> s.commit_code, undefined |-> s.undefined]
      BY <3>3
    <3> QED
      BY <3>4, Zenon DEF s1, s2, s3
  <2> HIDE DEF moved
  <2>3. CASE m = t
    BY <2>1, <2>2, <2>3 DEF node
  <2>4. CASE m # t
    <3>1. moved.item_map = s.item_map
      BY <2>2
    <3>2. map = newMap /\ C = B
      BY <2>4, <3>1 DEF newMap, B
    <3> HIDE DEF map, C
    <3> QED
      BY <2>1, <2>2, <2>4, <3>2, Zenon DEF node
  <2> QED
    BY <2>3, <2>4
<1>5. /\ r.items = items /\ r.node = [s.node EXCEPT ![a] = item]
      /\ r.item_map = map /\ r.expiry_buckets = C /\ r.used_memory = memory
      /\ r.commit_code = s.commit_code
  <2> HIDE DEF items, item, a, map, C, memory, r
  <2> QED
    BY <1>4
<1>6. r.undefined = s.undefined
  <2> HIDE DEF items, item, a, map, C, memory, r
  <2> QED
    BY <1>4, Zenon
<1>7. /\ DOMAIN map = DOMAIN s.item_map
      /\ map \in [DOMAIN map -> InternalIterators]
      /\ \A k \in DOMAIN map \ {key} : map[k] = s.item_map[k]
      /\ map[key].item_iter = a /\ map[key].expiry_bucket_iter = a
      /\ map[key].expiry_map_iter = t
  <2>1. s.item_map \in [DOMAIN s.item_map -> InternalIterators]
    BY DEF Sound, StorageType
  <2> HIDE DEF t, m, a
  <2>2. CASE m = t
    BY <1>1, <2>1, <2>2, SMTT(30) DEF a
  <2>3. CASE m # t
    BY <1>1, <1>2, <2>1, <2>3, SMTT(30) DEF InternalIterators, a
  <2> QED
    BY <2>2, <2>3
<1>8. /\ DOMAIN r.node = DOMAIN s.node
      /\ r.node = [x \in DOMAIN r.node |-> r.node[x]]
      /\ r.node[a] = item
      /\ \A x \in DOMAIN s.node \ {a} : r.node[x] = s.node[x]
  BY <1>1, <1>5, SMTT(30) DEF Sound, StorageType
<1>9. item \in CacheItems /\ item.key = key /\ item.expires_at = expires_at
  BY <1>1, SMTT(30) DEF CacheItems
<1>10. a \in Range(s.items) /\ IsInjective(s.items) /\ Range(s.items) = DOMAIN s.node
  BY <1>1 DEF Sound, WellFormed, ListHoldsNodes
<1>11. r.items \in Seq(Addr) /\ ListHoldsNodes(r)
  BY <1>3, <1>5, <1>8, <1>10, MoveToFrontList, SMTT(30) DEF ListHoldsNodes
<1>12. m # t => EntryMoved(s.expiry_buckets, m, t, a, key, C)
  BY <1>1, MoveEntryMembers DEF Sound, WellFormed, BucketsHoldNodes
<1>13. m = t => C = s.expiry_buckets
  OBVIOUS
<1>14. memory \in Int
  BY <1>1, <1>3, GetItemSizeType, SMTT(30) DEF CacheItems
<1>15. a \in Addr
  BY <1>1, SMTT(30) DEF Sound, StorageType
<1>16. \A k \in DOMAIN s.item_map \ {key} : s.item_map[k].item_iter # a
  BY <1>1 DEF Sound, WellFormed, MapLeadsToNodes
<1>17. m = NextPurgeTime(s.node[a].expires_at) /\ s.node[a].key = key
  BY <1>1
<1>18. t = NextPurgeTime(item.expires_at)
  BY <1>9
<1> HIDE DEF iters, a, old, m, t, item, items, memory, map, C, r
<1>19. StorageType(r)
  <2>1. DOMAIN r.node \subseteq Addr /\ r.node \in [DOMAIN r.node -> CacheItems]
    BY <1>8, <1>9 DEF Sound, StorageType
  <2>2. DOMAIN map \subseteq Keys
    BY <1>7 DEF Sound, StorageType
  <2>3. DOMAIN C \subseteq Nat /\ C = [u \in DOMAIN C |-> C[u]]
    BY <1>2, <1>12, <1>13 DEF EntryMoved, Sound, StorageType
  <2>4. ASSUME NEW u \in DOMAIN C
        PROVE  DOMAIN C[u] \subseteq Addr /\ C[u] \in [DOMAIN C[u] -> Keys \cup {Freed}]
    <3>1. CASE m = t \/ (u # t /\ u # m)
      BY <1>12, <1>13, <3>1, SMTT(30) DEF EntryMoved, Sound, StorageType
    <3>2. CASE m # t /\ u = t
      BY <1>1, <1>12, <1>15, <3>2, SMTT(30) DEF EntryMoved, Sound, StorageType
    <3>3. CASE m # t /\ u = m
      BY <1>12, <3>3 DEF EntryMoved, Erase, Sound, StorageType
    <3> QED
      BY <3>1, <3>2, <3>3, SMTT(30)
  <2>5. r.commit_code \in CommitResults /\ r.undefined \in BOOLEAN
    BY <1>5, <1>6, Zenon DEF Sound, StorageType
  <2>6. r = [items |-> r.items, node |-> r.node, item_map |-> r.item_map,
             expiry_buckets |-> r.expiry_buckets, used_memory |-> r.used_memory,
             commit_code |-> r.commit_code, undefined |-> r.undefined]
    BY <1>4, <1>5, <1>6, ZenonT(30)
  <2> QED
    BY <1>5, <1>7, <1>11, <1>14, <2>1, <2>2, <2>3, <2>4, <2>5, <2>6, SMTT(30) DEF StorageType
<1>20. MapLeadsToNodes(r)
  <2>1. ASSUME NEW k \in DOMAIN map \ {key}
        PROVE  /\ map[k] = s.item_map[k]
               /\ r.node[map[k].item_iter] = s.node[s.item_map[k].item_iter]
               /\ map[k].item_iter \in DOMAIN r.node
    BY <1>7, <1>8, <1>16, SMTT(30) DEF Sound, WellFormed, MapLeadsToNodes
  <2> QED
    BY <1>1, <1>5, <1>7, <1>8, <1>9, <1>18, <2>1, SMTT(30)
    DEF Sound, WellFormed, MapLeadsToNodes
<1>21. KeysAreMapped(r)
  BY <1>5, <1>7, <1>8, <1>9, <1>17, SMTT(30) DEF Sound, WellFormed, KeysAreMapped
<1>22. BucketsHoldNodes(r)
  <2>1. ASSUME NEW x \in DOMAIN r.node
        PROVE  LET u == NextPurgeTime(r.node[x].expires_at)
               IN  u \in DOMAIN C /\ x \in DOMAIN C[u] /\ C[u][x] = r.node[x].key
    <3>1. CASE x = a
      BY <1>8, <1>9, <1>12, <1>13, <1>17, <1>18, <3>1, SMTT(30)
      DEF EntryMoved, Sound, WellFormed, BucketsHoldNodes
    <3>2. CASE x # a
      <4> DEFINE u == NextPurgeTime(s.node[x].expires_at)
      <4>1. u \in DOMAIN s.expiry_buckets /\ x \in DOMAIN s.expiry_buckets[u]
            /\ s.expiry_buckets[u][x] = s.node[x].key /\ r.node[x] = s.node[x]
        BY <1>8, <3>2 DEF Sound, WellFormed, BucketsHoldNodes
      <4> HIDE DEF u
      <4>2. u \in DOMAIN C /\ x \in DOMAIN C[u] /\ C[u][x] = s.node[x].key
        BY <1>12, <1>13, <3>2, <4>1, SMTT(30) DEF EntryMoved, Erase
      <4> QED
        BY <4>1, <4>2, SMTT(30) DEF u
    <3> QED
      BY <3>1, <3>2, SMTT(30)
  <2>2. ASSUME NEW u \in DOMAIN C
        PROVE  /\ DOMAIN C[u] # {}
               /\ \A x \in DOMAIN C[u] :
                     x \in DOMAIN r.node /\ NextPurgeTime(r.node[x].expires_at) = u
    <3>1. CASE u = t
      <4>1. ASSUME NEW x \in DOMAIN C[t], x # a
            PROVE  x \in DOMAIN s.node /\ NextPurgeTime(s.node[x].expires_at) = t
        BY <1>12, <1>13, <3>1, <4>1, SMTT(30) DEF EntryMoved, Sound, WellFormed, BucketsHoldNodes
      <4>2. DOMAIN C[t] # {}
        BY <1>12, <1>13, <3>1, SMTT(30) DEF EntryMoved, Sound, WellFormed, BucketsHoldNodes
      <4> QED
        BY <1>1, <1>8, <1>18, <3>1, <4>1, <4>2, SMTT(30)
    <3>2. CASE u # t
      <4>1. u \in DOMAIN s.expiry_buckets
        BY <1>12, <1>13, <3>2, SMTT(30) DEF EntryMoved
      <4>2. /\ DOMAIN s.expiry_buckets[u] # {}
            /\ \A x \in DOMAIN s.expiry_buckets[u] :
                  x \in DOMAIN s.node /\ NextPurgeTime(s.node[x].expires_at) = u
        BY <4>1 DEF Sound, WellFormed, BucketsHoldNodes
      <4>3. DOMAIN C[u] = DOMAIN s.expiry_buckets[u] \ (IF m # t THEN {a} ELSE {})
        <5>1. CASE m = t
          BY <1>13, <5>1
        <5>2. CASE m # t /\ u = m
          <6>1. C[m] = Erase(s.expiry_buckets[m], a)
            BY <1>12, <5>2 DEF EntryMoved
          <6> QED
            BY <5>2, <6>1 DEF Erase
        <5>3. CASE m # t /\ u # m
          <6>1. a \notin DOMAIN s.expiry_buckets[u]
            BY <1>17, <4>2, <5>3, ZenonT(30)
          <6>2. C[u] = s.expiry_buckets[u]
            BY <1>12, <3>2, <4>1, <5>3, SMTT(30) DEF EntryMoved
          <6> QED
            BY <5>3, <6>1, <6>2
        <5> QED
          BY <5>1, <5>2, <5>3
      <4>4. DOMAIN C[u] # {}
        <5>1. CASE m = t \/ u # m
          BY <1>12, <1>13, <3>2, <4>1, <4>2, <5>1, SMTT(30) DEF EntryMoved
        <5>2. CASE m # t /\ u = m
          <6>1. DOMAIN s.expiry_buckets[u] # {a}
            BY <1>12, <5>2 DEF EntryMoved
          <6> QED
            BY <4>2, <4>3, <6>1, SMTT(30)
        <5> QED
          BY <5>1, <5>2
      <4>5. ASSUME NEW x \in DOMAIN C[u] PROVE x # a
        <5>1. x \in DOMAIN s.expiry_buckets[u] /\ (m # t => x # a)
          BY <4>3
        <5>2. x = a => u = m
          BY <1>17, <4>2, <5>1, ZenonT(30)
        <5> QED
          BY <3>2, <5>1, <5>2
      <4> QED
        BY <1>8, <4>2, <4>3, <4>4, <4>5, SMTT(30)
    <3> QED
      BY <3>1, <3>2
  <2> QED
    BY <1>5, <2>1, <2>2, SMTT(30) DEF BucketsHoldNodes
<1>23. AllReachable(s) => AllReachable(r)
  <2> SUFFICES ASSUME AllReachable(s), NEW x \in DOMAIN r.node
               PROVE  r.node[x].key \in DOMAIN map /\ map[r.node[x].key].item_iter = x
    BY <1>5 DEF AllReachable
  <2>1. CASE x = a
    BY <1>7, <1>8, <1>9, <2>1, SMTT(30)
  <2>2. CASE x # a
    <3>1. /\ r.node[x] = s.node[x] /\ s.node[x].key \in DOMAIN s.item_map
          /\ s.item_map[s.node[x].key].item_iter = x
      BY <1>8, <2>2 DEF AllReachable
    <3>2. s.node[x].key # key
      BY <2>2, <3>1 DEF a, iters
    <3> QED
      BY <1>7, <3>1, <3>2, SMTT(30)
  <2> QED
    BY <2>1, <2>2, SMTT(30)
<1> QED
  BY <1>6, <1>11, <1>19, <1>20, <1>21, <1>22, <1>23 DEF Sound, WellFormed, r

----------------------------------------------------------------------------
(* commit_write().                                                         *)

\* The result of get_required_memory is an int.
LEMMA GetRequiredMemoryType ==
  ASSUME NEW s, Sound(s), NEW key \in Keys, NEW data \in Data, NEW at
  PROVE  GetRequiredMemory(s, key, data, at) \in Int
<1>1. Has(s, key, at) => GetItem(s, key).data \in Data
  BY DEF Has, GetItem, Sound, WellFormed, MapLeadsToNodes, StorageType, CacheItems
<1>2. CASE Has(s, key, at)
  BY <1>1, <1>2, GetItemSizeType, ToIntType, SMTT(30) DEF GetRequiredMemory
<1>3. CASE ~Has(s, key, at)
  BY <1>3, GetItemSizeType, ToIntType DEF GetRequiredMemory
<1> QED
  BY <1>2, <1>3, SMTT(30)

\* commit_write keeps the containers in agreement.  If all items can be reached and
\* the key's resident item, if there is one, has not expired, then all items can be
\* reached after it and no dangling pointer was followed.
LEMMA CommitWriteSound ==
  ASSUME NEW s, Sound(s), NEW key \in Keys, NEW data \in Data, NEW expires_at \in Nat,
         NEW at, HasFreeNode(s, key)
  PROVE  LET r == CommitWrite(s, key, data, expires_at, at)
         IN  /\ Sound(r)
             /\ AllReachable(s) /\ ~s.undefined /\ (key \in DOMAIN s.item_map => Has(s, key, at))
                => AllReachable(r) /\ ~r.undefined
<1> DEFINE required == GetRequiredMemory(s, key, data, at)
           e == EvictLruData(s, key, required)
           Plain == AllReachable(s) /\ ~s.undefined
                    /\ (key \in DOMAIN s.item_map => Has(s, key, at))
           w == IF Has(e, key, at) THEN UpdateItem(e, key, data, expires_at)
                ELSE InsertItem(e, key, data, expires_at)
           Rejected(code) == [s EXCEPT !.commit_code = code]
           done == [w EXCEPT !.commit_code = "DONE_OK"]
           r == CommitWrite(s, key, data, expires_at, at)
<1>1. required \in Int
  BY GetRequiredMemoryType
<1> HIDE DEF required
<1>2. /\ Sound(e) /\ Shrunk(s, e)
      /\ key \in DOMAIN s.item_map => key \in DOMAIN e.item_map
      /\ AllReachable(s) => AllReachable(e) /\ e.undefined = s.undefined
  BY <1>1, EvictLruDataSound, Zenon
<1>3. \/ r = Rejected("KEY_TOO_BIG") \/ r = Rejected("WRONG_EXPIRY")
      \/ (r = e /\ e.undefined) \/ (r = done /\ ~e.undefined)
  BY Zenon DEF CommitWrite, required
<1>4. ASSUME NEW code \in CommitResults
      PROVE  Sound(Rejected(code)) /\ (Plain => AllReachable(Rejected(code))
                                                /\ ~Rejected(code).undefined)
  BY SoundCode, Zenon
<1> HIDE DEF e, r
<1>5. HasFreeNode(e, key)
  BY <1>2 DEF HasFreeNode, Shrunk
<1>6. Sound(w) /\ (Plain => AllReachable(w) /\ ~w.undefined)
  <2>1. CASE Has(e, key, at)
    <3>1. key \in DOMAIN e.item_map
      BY <2>1 DEF Has
    <3> DEFINE u == UpdateItem(e, key, data, expires_at)
    <3>2. Sound(u) /\ (AllReachable(e) => AllReachable(u)) /\ u.undefined = e.undefined
      BY <1>2, <3>1, UpdateItemSound, ZenonT(30)
    <3>3. w = u
      BY <2>1
    <3> HIDE DEF u, w
    <3> QED
      BY <1>2, <3>2, <3>3, ZenonT(30)
  <2>2. CASE ~Has(e, key, at)
    <3> DEFINE u == InsertItem(e, key, data, expires_at)
    <3>1. /\ Sound(u) /\ u.undefined = e.undefined
          /\ key \notin DOMAIN e.item_map /\ AllReachable(e) => AllReachable(u)
      BY <1>2, <1>5, InsertItemSound, ZenonT(30)
    <3>2. w = u
      BY <2>2
    <3>3. key \in DOMAIN e.item_map => key \in DOMAIN s.item_map /\ ~Has(s, key, at)
      BY <1>2, <2>2 DEF Shrunk, Has, GetItem
    <3> HIDE DEF u, w
    <3> QED
      BY <1>2, <3>1, <3>2, <3>3, ZenonT(30)
  <2> QED
    BY <2>1, <2>2
<1> HIDE DEF w
<1>7. "DONE_OK" \in CommitResults /\ "KEY_TOO_BIG" \in CommitResults
      /\ "WRONG_EXPIRY" \in CommitResults
  BY DEF CommitResults
<1>8. Sound(done) /\ (Plain => AllReachable(done) /\ ~done.undefined)
  <2>1. Sound(done) /\ (AllReachable(w) => AllReachable(done)) /\ done.undefined = w.undefined
    BY <1>6, <1>7, SoundCode, Zenon
  <2> HIDE DEF done
  <2> QED
    BY <1>6, <2>1, Zenon
<1> HIDE DEF done, Rejected
<1>9. Sound(r) /\ (Plain => AllReachable(r) /\ ~r.undefined)
  BY <1>2, <1>3, <1>4, <1>7, <1>8, ZenonT(30)
<1> QED
  BY <1>9, Zenon DEF r

----------------------------------------------------------------------------
(* commit_purge() and clear().                                             *)

\* What the loop of commit_purge keeps: the containers agree, and no dangling
\* pointer is followed if all items of s0 can be reached.
Purging(s0, s) ==
  /\ Sound(s)
  /\ AllReachable(s0) => AllReachable(s) /\ s.undefined = s0.undefined

\* An iteration of the loop of commit_purge keeps the loop's invariant.
LEMMA PurgeStepPurging ==
  ASSUME NEW s0, NEW prev \in Int, NEW s, Purging(s0, s)
  PROVE  Purging(s0, PurgeStep(prev, s))
<1> DEFINE due == {t \in DOMAIN s.expiry_buckets : t <= prev}
           t == CHOOSE t \in due : \A u \in due : t <= u
           entry == CHOOSE a \in DOMAIN s.expiry_buckets[t] : TRUE
           key == s.expiry_buckets[t][entry]
<1>1. CASE due = {} \/ s.undefined
  BY <1>1 DEF PurgeStep
<1>2. CASE ~(due = {} \/ s.undefined)
  <2>1. due \subseteq Nat
    BY DEF Purging, Sound, StorageType
  <2>2. \E x \in due : \A u \in due : x <= u
    <3> HIDE DEF due
    <3> QED
      BY <1>2, <2>1, LeastNumber, Zenon
  <2>3. t \in due
    <3> HIDE DEF due
    <3> QED
      BY <2>2, Zenon
  <2>4. t \in DOMAIN s.expiry_buckets
    BY <2>3
  <2>5. PurgeStep(prev, s) = IF key = Freed THEN [s EXCEPT !.undefined = TRUE]
                             ELSE RemoveItem(s, key)
    BY <1>2, Zenon DEF PurgeStep
  <2> HIDE DEF t, due
  <2>6. entry \in DOMAIN s.expiry_buckets[t]
    BY <2>4 DEF Purging, Sound, WellFormed, BucketsHoldNodes
  <2> HIDE DEF entry
  <2>7. entry \in DOMAIN s.node /\ key = s.node[entry].key
    BY <2>4, <2>6 DEF Purging, Sound, WellFormed, BucketsHoldNodes
  <2>8. CASE key = Freed
    <3>1. ~AllReachable(s)
      BY <2>7, <2>8, FreedAssumption, Zenon DEF AllReachable, Purging, Sound, StorageType
    <3>2. Sound([s EXCEPT !.undefined = TRUE])
      BY SoundUndefined, Zenon DEF Purging
    <3> QED
      BY <2>5, <2>8, <3>1, <3>2, ZenonT(30) DEF Purging
  <2>9. CASE key # Freed
    <3>1. key \in DOMAIN s.item_map
      BY <2>7, <2>9 DEF Purging, Sound, WellFormed, KeysAreMapped
    <3> HIDE DEF key
    <3> DEFINE r == RemoveItem(s, key)
    <3>2. Sound(r) /\ r.undefined = s.undefined /\ (AllReachable(s) => AllReachable(r))
      BY <3>1, RemoveItemSound, Zenon DEF Purging
    <3>3. PurgeStep(prev, s) = r
      BY <2>5, <2>9
    <3> HIDE DEF r
    <3> QED
      BY <3>2, <3>3, Zenon DEF Purging
  <2> QED
    BY <2>8, <2>9
<1> QED
  BY <1>1, <1>2

\* commit_purge keeps the containers in agreement and follows no dangling pointer
\* if all items can be reached.
LEMMA CommitPurgeSound ==
  ASSUME NEW s, Sound(s), NEW at \in Nat
  PROVE  Purging(s, CommitPurge(s, at))
<1> DEFINE prev == NextPurgeTime(at) - PurgeInterval
           S == {x \in StorageSet : Purging(s, x)}
           step == [x \in S |-> PurgeStep(prev, x)]
           loop == CHOOSE f : f = [n \in Nat |-> IF n = 0 THEN s ELSE PurgeStep(prev, f[n - 1])]
<1>1. prev \in Int
  BY NextPurgeTimeType, IntervalAssumption
<1> HIDE DEF prev
<1>2. ASSUME NEW x, Purging(s, x) PROVE x \in S
  BY <1>2, StorageTypeInSet DEF Purging, Sound
<1>3. s \in S
  BY <1>2 DEF Purging
<1>4. \A x \in S : PurgeStep(prev, x) \in S
  BY <1>1, <1>2, PurgeStepPurging
<1>5. \A x \in S : Purging(s, x)
  OBVIOUS
<1> HIDE DEF S
<1>6. step \in [S -> S] /\ \A x \in S : step[x] = PurgeStep(prev, x)
  BY <1>4
<1> HIDE DEF step
<1>7. \E f : f = [n \in Nat |-> IF n = 0 THEN s ELSE PurgeStep(prev, f[n - 1])]
  <2>1. PICK f \in [Nat -> S] : IsLoop(f, s, step)
    BY <1>3, <1>6, IterationExists
  <2>2. ASSUME NEW n \in Nat
        PROVE  (IF n = 0 THEN s ELSE step[f[n - 1]])
                 = IF n = 0 THEN s ELSE PurgeStep(prev, f[n - 1])
    <3>1. n # 0 => f[n - 1] \in S
      OBVIOUS
    <3> QED
      BY <1>6, <3>1
  <2>3. f = [n \in Nat |-> IF n = 0 THEN s ELSE PurgeStep(prev, f[n - 1])]
    BY <2>1, <2>2, Zenon DEF IsLoop
  <2> QED
    BY <2>3
<1>8. loop = [n \in Nat |-> IF n = 0 THEN s ELSE PurgeStep(prev, loop[n - 1])]
  BY <1>7, Zenon
<1>9. CommitPurge(s, at) = loop[Len(s.items)]
  BY DEF CommitPurge, prev
<1> HIDE DEF loop
<1>10. \A n \in Nat : loop[n] \in S
  <2> DEFINE G == {n \in Nat : loop[n] \in S}
  <2>1. 0 \in G
    BY <1>3, <1>8
  <2>2. ASSUME NEW n \in Nat, n \in G PROVE n + 1 \in G
    <3>1. loop[n + 1] = PurgeStep(prev, loop[n])
      BY <1>8
    <3> QED
      BY <1>4, <2>2, <3>1
  <2> QED
    BY <2>1, <2>2, SetInduction, Zenon
<1>11. Len(s.items) \in Nat
  BY LenProperties DEF Sound, StorageType
<1> QED
  BY <1>5, <1>9, <1>10, <1>11, SMTT(30)

\* An empty storage is sound, and all its items can be reached.
LEMMA EmptyStorageSound ==
  ASSUME NEW code \in CommitResults
  PROVE  LET r == EmptyStorage(code)
         IN  Sound(r) /\ AllReachable(r) /\ ~r.undefined
<1> DEFINE r == EmptyStorage(code)
<1>1. r = [items |-> <<>>, node |-> NoFunction, item_map |-> NoFunction,
           expiry_buckets |-> NoFunction, used_memory |-> 0, commit_code |-> code,
           undefined |-> FALSE]
  BY DEF EmptyStorage
<1>2. /\ DOMAIN NoFunction = {} /\ NoFunction = [x \in DOMAIN NoFunction |-> NoFunction[x]]
  BY DEF NoFunction
<1> HIDE DEF r
<1>3. /\ r.items = <<>> /\ r.node = NoFunction /\ r.item_map = NoFunction
      /\ r.expiry_buckets = NoFunction /\ r.used_memory = 0 /\ r.commit_code = code
  BY <1>1
<1>4. r.undefined = FALSE
  BY <1>1, Zenon
<1>5. r = [items |-> r.items, node |-> r.node, item_map |-> r.item_map,
           expiry_buckets |-> r.expiry_buckets, used_memory |-> r.used_memory,
           commit_code |-> r.commit_code, undefined |-> r.undefined]
  BY <1>1, <1>3, <1>4, ZenonT(30)
<1>6. StorageType(r)
  <2>1. r.items \in Seq(Addr) /\ r.used_memory \in Int /\ r.commit_code \in CommitResults
    BY <1>3
  <2>2. r.undefined \in BOOLEAN
    BY <1>4, Zenon
  <2>3. /\ DOMAIN r.node = {} /\ r.node \in [DOMAIN r.node -> CacheItems]
        /\ DOMAIN r.item_map = {} /\ r.item_map \in [DOMAIN r.item_map -> InternalIterators]
        /\ DOMAIN r.expiry_buckets = {}
        /\ r.expiry_buckets = [t \in DOMAIN r.expiry_buckets |-> r.expiry_buckets[t]]
    BY <1>2, <1>3
  <2> QED
    BY <1>5, <2>1, <2>2, <2>3, SMTT(30) DEF StorageType
<1>7. ListHoldsNodes(r)
  BY <1>2, <1>3 DEF ListHoldsNodes, IsInjective, Range
<1>8. MapLeadsToNodes(r) /\ KeysAreMapped(r) /\ BucketsHoldNodes(r) /\ AllReachable(r)
  BY <1>2, <1>3 DEF MapLeadsToNodes, KeysAreMapped, BucketsHoldNodes, AllReachable
<1> QED
  BY <1>4, <1>6, <1>7, <1>8, SMTT(30) DEF Sound, WellFormed, r

=============================================================================
