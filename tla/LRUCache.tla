------------------------------ MODULE LRUCache ------------------------------
(***************************************************************************)
(* What cache_storage promises, without its indexes: the cache is a list   *)
(* of items, most recently used first, and each operation is stated by its *)
(* result.  A write drops the shortest run of least recently used items of *)
(* other keys that makes enough room; a purge drops exactly the items that *)
(* expired before the purge interval in which it runs began.               *)
(***************************************************************************)
EXTENDS Integers, Sequences, FiniteSetsExt, Functions

CONSTANTS Keys, KeySize, Data, DataSize, Overhead, CacheSize, MaxKeySize,
          PurgeInterval, MaxTime, MaxExpiry, EvictRequests

VARIABLES
  cache,  \* sequence of [key, data, expires_at], most recently used first
  code,   \* what get_commit_code() returns
  now     \* the time of the last commit

vars == <<cache, code, now>>

Size(item) == Overhead + DataSize[item.data] + KeySize[item.key]

\* The memory that the items at the indexes I take.
Memory(c, I) == MapThenSumSet(LAMBDA i : Size(c[i]), I)

\* The n last items, without the one of key own.
LeastRecent(c, n, own) == {i \in DOMAIN c : i > Len(c) - n /\ c[i].key # own}

MakesRoom(c, n, own, required) ==
  CacheSize - Memory(c, DOMAIN c \ LeastRecent(c, n, own)) >= required

Evicted(c, own, required) ==
  LET n == Min({m \in DOMAIN c \cup {0} : MakesRoom(c, m, own, required)} \cup {Len(c)})
      dropped == {c[i] : i \in LeastRecent(c, n, own)}
  IN  SelectSeq(c, LAMBDA item : item \notin dropped)

Without(c, key) == SelectSeq(c, LAMBDA item : item.key # key)

Live(c, key, at) == {i \in DOMAIN c : c[i].key = key /\ c[i].expires_at > at}

----------------------------------------------------------------------------

Init == cache = <<>> /\ code \in {"DONE_OK", "NOT_FOUND", "KEY_TOO_BIG",
                                  "DATA_TOO_BIG", "WRONG_EXPIRY"} /\ now = 0

ReadHit(key, at) ==
  /\ now' = at
  /\ \E i \in Live(cache, key, at) : cache' = <<cache[i]>> \o Without(cache, key)
  /\ code' = "DONE_OK"

ReadMiss(key, at) ==
  /\ now' = at
  /\ Live(cache, key, at) = {}
  /\ code' = "NOT_FOUND"
  /\ UNCHANGED cache

Write(key, data, expires_at, at) ==
  LET item == [key |-> key, data |-> data, expires_at |-> expires_at]
      required == Size(item) - Memory(cache, Live(cache, key, at))
  IN  /\ now' = at
      /\ KeySize[key] <= MaxKeySize /\ expires_at > at
      /\ code' = "DONE_OK"
      /\ cache' # <<>> /\ Head(cache') = item
      /\ cache' = <<item>> \o Without(Evicted(cache, key, required), key)

Reject(key, expires_at, at) ==
  /\ now' = at
  /\ KeySize[key] > MaxKeySize \/ expires_at <= at
  /\ code' = IF KeySize[key] > MaxKeySize THEN "KEY_TOO_BIG" ELSE "WRONG_EXPIRY"
  /\ UNCHANGED cache

Purge(at) ==
  /\ now' = at
  /\ cache' = SelectSeq(cache, LAMBDA item : item.expires_at >= at - (at % PurgeInterval))
  /\ UNCHANGED code

Evict(key, required) ==
  /\ cache' = Evicted(cache, key, required)
  /\ UNCHANGED <<code, now>>

Clear ==
  /\ cache' = <<>>
  /\ UNCHANGED <<code, now>>

Next ==
  \/ \E key \in Keys, at \in now..MaxTime : ReadHit(key, at) \/ ReadMiss(key, at)
  \/ \E at \in now..MaxTime, expires_at \in 0..MaxExpiry, key \in Keys :
        \/ Reject(key, expires_at, at)
        \/ \E data \in Data : Write(key, data, expires_at, at)
  \/ \E at \in now..MaxTime : Purge(at)
  \/ \E key \in Keys, required \in EvictRequests : Evict(key, required)
  \/ Clear

Spec == Init /\ [][Next]_vars

=============================================================================
