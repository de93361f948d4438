------------------------- MODULE CacheStorageProofs -------------------------
(***************************************************************************)
(* The invariants of CacheStorage that hold for every value of the         *)
(* constants: types, agreement of the containers, and, for clients that do *)
(* not write a key whose item has expired but is still resident, that      *)
(* every item can be reached and no dangling pointer is followed.          *)
(***************************************************************************)
EXTENDS CacheStorage, CacheStorageOpsProofs

\* The inductive invariant: the containers agree, whatever the clients do.
Agreement == Sound(storage) /\ now \in Nat

\* Its strengthening for the clients that never write a key whose resident item
\* has expired.
NoOrphan == Agreement /\ AllReachable(storage) /\ ~storage.undefined

\* The times of commits are natural numbers.
LEMMA TimesAreNumbers ==
  ASSUME now \in Nat, NEW at \in Times
  PROVE  at \in Nat
  BY TimesAssumption DEF Times

\* A new cache_storage object has both invariants.
LEMMA InitNoOrphan ==
  ASSUME Init
  PROVE  NoOrphan
<1>1. PICK code \in CommitResults : storage = EmptyStorage(code)
  BY DEF Init
<1>2. Sound(storage) /\ AllReachable(storage) /\ ~storage.undefined
  BY <1>1, EmptyStorageSound, Zenon
<1> QED
  BY <1>2 DEF Init, NoOrphan, Agreement

\* Every commit, eviction and clear() preserves the agreement of the containers.
LEMMA AgreementInductive ==
  ASSUME Agreement, [Next]_vars
  PROVE  Agreement'
<1>1. ASSUME NEW key \in Keys, NEW at \in Times, Read(key, at) PROVE Agreement'
  BY <1>1, TimesAreNumbers, CommitReadSound DEF Agreement, Read
<1>2. ASSUME NEW key \in Keys, NEW data \in Data, NEW expires_at \in 0..MaxExpiry,
             NEW at \in Times, Write(key, data, expires_at, at)
      PROVE  Agreement'
  <2>1. at \in Nat /\ expires_at \in Nat
    BY TimesAreNumbers, TimesAssumption DEF Agreement
  <2>2. Sound(CommitWrite(storage, key, data, expires_at, at))
    BY <1>2, <2>1, CommitWriteSound DEF Agreement, Write
  <2> QED
    BY <1>2, <2>1, <2>2 DEF Agreement, Write
<1>3. ASSUME NEW at \in Times, Purge(at) PROVE Agreement'
  BY <1>3, TimesAreNumbers, CommitPurgeSound DEF Agreement, Purge, Purging
<1>4. ASSUME NEW key \in Keys, NEW required \in EvictRequests, Evict(key, required)
      PROVE  Agreement'
  <2>1. required \in Int
    BY EnvironmentAssumption
  <2> QED
    BY <1>4, <2>1, EvictLruDataSound DEF Agreement, Evict
<1>5. ASSUME ClearAll PROVE Agreement'
  <2>1. storage.commit_code \in CommitResults
    BY DEF Agreement, Sound, StorageType
  <2> QED
    BY <1>5, <2>1, EmptyStorageSound DEF Agreement, ClearAll, Clear
<1>6. CASE UNCHANGED vars
  BY <1>6 DEF Agreement, vars
<1> QED
  BY <1>1, <1>2, <1>3, <1>4, <1>5, <1>6, SMTT(30) DEF Next

\* The containers always agree, whatever the clients do.
LEMMA AgreementInvariant ==
  Spec => []Agreement
<1>1. Init => Agreement
  BY InitNoOrphan DEF NoOrphan
<1>2. Agreement /\ [Next]_vars => Agreement'
  BY AgreementInductive
<1> QED
  BY <1>1, <1>2, PTL DEF Spec

\* Whatever clients do, the members of a cache_storage object keep their types.
THEOREM TypeCorrect ==
  Spec => []TypeOK
<1>1. Agreement => TypeOK
  BY DEF Agreement, TypeOK, Sound
<1> QED
  BY <1>1, AgreementInvariant, PTL

\* Whatever clients do, items_, item_map_ and expiry_buckets_ never disagree: not
\* after a write that evicted other items, not after an item changed buckets, and
\* not with items that item_map_ no longer leads to.
THEOREM ContainersAgree ==
  Spec => []IndexesAgree
<1>1. Agreement => IndexesAgree
  BY DEF Agreement, IndexesAgree, Sound
<1> QED
  BY <1>1, AgreementInvariant, PTL

\* A write, also one that makes an orphan, follows no dangling pointer if it finds
\* none.
LEMMA CommitWriteFollowsKeys ==
  ASSUME NEW s, Sound(s), AllReachable(s), ~s.undefined,
         NEW key \in Keys, NEW data \in Data, NEW expires_at \in Nat, NEW at,
         HasFreeNode(s, key)
  PROVE  ~CommitWrite(s, key, data, expires_at, at).undefined
<1> DEFINE required == GetRequiredMemory(s, key, data, at)
           e == EvictLruData(s, key, required)
           w == IF Has(e, key, at) THEN UpdateItem(e, key, data, expires_at)
                ELSE InsertItem(e, key, data, expires_at)
           Coded(x, code) == [x EXCEPT !.commit_code = code]
           r == CommitWrite(s, key, data, expires_at, at)
<1>1. required \in Int
  BY GetRequiredMemoryType
<1> HIDE DEF required
<1>2. Sound(e) /\ Shrunk(s, e) /\ ~e.undefined
  BY <1>1, EvictLruDataSound, Zenon
<1>3. r = Coded(s, "KEY_TOO_BIG") \/ r = Coded(s, "WRONG_EXPIRY") \/ r = e
      \/ r = Coded(w, "DONE_OK")
  BY Zenon DEF CommitWrite, required
<1> HIDE DEF e, r
<1>4. HasFreeNode(e, key)
  BY <1>2 DEF HasFreeNode, Shrunk
<1>5. Sound(w) /\ ~w.undefined
  <2>1. CASE Has(e, key, at)
    <3>1. key \in DOMAIN e.item_map
      BY <2>1 DEF Has
    <3> DEFINE u == UpdateItem(e, key, data, expires_at)
    <3>2. Sound(u) /\ u.undefined = e.undefined
      BY <1>2, <3>1, UpdateItemSound, ZenonT(30)
    <3>3. w = u
      BY <2>1
    <3> HIDE DEF u, w
    <3> QED
      BY <1>2, <3>2, <3>3, Zenon
  <2>2. CASE ~Has(e, key, at)
    <3> DEFINE u == InsertItem(e, key, data, expires_at)
    <3>1. Sound(u) /\ u.undefined = e.undefined
      BY <1>2, <1>4, InsertItemSound, ZenonT(30)
    <3>2. w = u
      BY <2>2
    <3> HIDE DEF u, w
    <3> QED
      BY <1>2, <3>1, <3>2, Zenon
  <2> QED
    BY <2>1, <2>2
<1> HIDE DEF w
<1>6. "DONE_OK" \in CommitResults /\ "KEY_TOO_BIG" \in CommitResults
      /\ "WRONG_EXPIRY" \in CommitResults
  BY DEF CommitResults
<1>7. ASSUME NEW x, Sound(x), ~x.undefined, NEW code \in CommitResults
      PROVE  ~Coded(x, code).undefined
  BY <1>7, SoundCode, Zenon
<1> HIDE DEF Coded
<1>8. ~r.undefined
  BY <1>2, <1>3, <1>5, <1>6, <1>7, Zenon
<1> QED
  BY <1>8, Zenon DEF r

\* Whatever clients do, evict_lru_data and commit_purge follow a pointer to a
\* destroyed key only while item_map_ does not lead to some item in memory.
THEOREM DanglesOnlyAtOrphans ==
  Spec => OnlyOrphansDangle
<1>1. ASSUME Agreement, AllReachable(storage), Next PROVE ~storage'.undefined
  <2>1. Sound(storage) /\ AllReachable(storage) /\ now \in Nat
    BY <1>1 DEF Agreement
  <2>2. ASSUME NEW key \in Keys, NEW at \in Times, Read(key, at)
        PROVE  ~storage'.undefined
    BY <2>1, <2>2, CommitReadSound, ZenonT(30) DEF Read
  <2>3. ASSUME NEW key \in Keys, NEW data \in Data, NEW expires_at \in 0..MaxExpiry,
               NEW at \in Times, Write(key, data, expires_at, at)
        PROVE  ~storage'.undefined
    <3>1. expires_at \in Nat
      BY TimesAssumption
    <3>2. /\ HasFreeNode(storage, key) /\ ~storage.undefined
          /\ storage' = CommitWrite(storage, key, data, expires_at, at)
      BY <2>3, Zenon DEF Write
    <3>3. ~CommitWrite(storage, key, data, expires_at, at).undefined
      BY <2>1, <3>1, <3>2, CommitWriteFollowsKeys, Zenon
    <3> QED
      BY <3>2, <3>3, Zenon
  <2>4. ASSUME NEW at \in Times, Purge(at) PROVE ~storage'.undefined
    <3>1. at \in Nat
      BY <2>1, TimesAreNumbers
    <3> QED
      BY <2>1, <2>4, <3>1, CommitPurgeSound, ZenonT(30) DEF Purge, Purging
  <2>5. ASSUME NEW key \in Keys, NEW required \in EvictRequests, Evict(key, required)
        PROVE  ~storage'.undefined
    <3>1. required \in Int
      BY EnvironmentAssumption
    <3> QED
      BY <2>1, <2>5, <3>1, EvictLruDataSound, ZenonT(30) DEF Evict
  <2>6. ASSUME ClearAll PROVE ~storage'.undefined
    <3>1. storage.commit_code \in CommitResults
      BY <2>1 DEF Sound, StorageType
    <3> QED
      BY <2>6, <3>1, EmptyStorageSound, ZenonT(30) DEF ClearAll, Clear
  <2> QED
    BY <1>1, <2>2, <2>3, <2>4, <2>5, <2>6, ZenonT(30) DEF Next
<1>2. Agreement /\ [Next]_vars => [AllReachable(storage) => ~storage'.undefined]_vars
  BY <1>1, Zenon
<1> QED
  BY <1>2, AgreementInvariant, PTL DEF Spec, OnlyOrphansDangle

\* Without writes to expired resident keys, every step keeps all items reachable
\* and follows no dangling pointer.
LEMMA NoOrphanInductive ==
  ASSUME RewriteExpired = FALSE, NoOrphan, [Next]_vars
  PROVE  NoOrphan'
<1>1. Agreement'
  BY AgreementInductive DEF NoOrphan
<1> DEFINE Good(s) == AllReachable(s) /\ ~s.undefined
<1>2. Good(storage) /\ Sound(storage) /\ now \in Nat
  BY DEF NoOrphan, Agreement
<1>3. ASSUME NEW key \in Keys, NEW at \in Times, Read(key, at) PROVE Good(storage')
  BY <1>2, <1>3, CommitReadSound, ZenonT(30) DEF Read
<1>4. ASSUME NEW key \in Keys, NEW data \in Data, NEW expires_at \in 0..MaxExpiry,
             NEW at \in Times, Write(key, data, expires_at, at)
      PROVE  Good(storage')
  <2>1. expires_at \in Nat
    BY TimesAssumption
  <2>2. key \in DOMAIN storage.item_map => Has(storage, key, at)
    BY <1>4 DEF Write, ExpiredResident
  <2>3. HasFreeNode(storage, key)
        /\ storage' = CommitWrite(storage, key, data, expires_at, at)
    BY <1>4 DEF Write
  <2>4. Good(CommitWrite(storage, key, data, expires_at, at))
    BY <1>2, <2>1, <2>2, <2>3, CommitWriteSound, ZenonT(30)
  <2> QED
    BY <2>3, <2>4, Zenon
<1>5. ASSUME NEW at \in Times, Purge(at) PROVE Good(storage')
  <2>1. at \in Nat
    BY <1>2, TimesAreNumbers
  <2>2. Purging(storage, storage')
    BY <1>2, <1>5, <2>1, CommitPurgeSound, SMTT(30) DEF Purge
  <2> QED
    BY <1>2, <2>2, Zenon DEF Purging
<1>6. ASSUME NEW key \in Keys, NEW required \in EvictRequests, Evict(key, required)
      PROVE  Good(storage')
  <2>1. required \in Int
    BY EnvironmentAssumption
  <2>2. Good(EvictLruData(storage, key, required))
    BY <1>2, <2>1, EvictLruDataSound, ZenonT(30)
  <2> QED
    BY <1>6, <2>2, ZenonT(30) DEF Evict
<1>7. ASSUME ClearAll PROVE Good(storage')
  <2>1. storage.commit_code \in CommitResults
    BY <1>2 DEF Sound, StorageType
  <2> QED
    BY <1>7, <2>1, EmptyStorageSound, ZenonT(30) DEF ClearAll, Clear
<1>8. ASSUME UNCHANGED vars PROVE Good(storage')
  BY <1>2, <1>8, ZenonT(30) DEF vars
<1> HIDE DEF Good
<1>9. Good(storage')
  BY <1>3, <1>4, <1>5, <1>6, <1>7, <1>8, SMTT(30) DEF Next
<1> QED
  BY <1>1, <1>9 DEF NoOrphan, Good

\* If clients do not write a key whose expired item is still resident, item_map_
\* leads to every item in memory, so that each can be read, updated or removed.
THEOREM AllItemsReachable ==
  ASSUME RewriteExpired = FALSE
  PROVE  Spec => []EveryItemReachable
<1>1. Init => NoOrphan
  BY InitNoOrphan
<1>2. NoOrphan /\ [Next]_vars => NoOrphan'
  BY NoOrphanInductive, ZenonT(30)
<1>3. NoOrphan => EveryItemReachable
  BY DEF NoOrphan, EveryItemReachable
<1> QED
  BY <1>1, <1>2, <1>3, PTL DEF Spec

\* For the same clients, neither the eviction nor the purge loop ever follows a
\* key pointer whose key was destroyed.
THEOREM NoKeyDangles ==
  ASSUME RewriteExpired = FALSE
  PROVE  Spec => []NoDanglingKey
<1>1. Init => NoOrphan
  BY InitNoOrphan
<1>2. NoOrphan /\ [Next]_vars => NoOrphan'
  BY NoOrphanInductive, Zenon
<1>3. NoOrphan => NoDanglingKey
  BY DEF NoOrphan, NoDanglingKey
<1> QED
  BY <1>1, <1>2, <1>3, PTL DEF Spec

=============================================================================
