------------------------------ MODULE LRUCache ------------------------------
(***************************************************************************)
(* The class LRUCache of backend/cache.py, on which the embedding,         *)
(* response and token caches are built.  It keeps two dictionaries: the    *)
(* entries with the time they were set, and the time each was last used.   *)
(* Every method runs under the lock, so it is one action.                  *)
(*                                                                         *)
(* time.monotonic() counts nanoseconds: two calls never read the same.     *)
(***************************************************************************)
EXTENDS Naturals, FiniteSets, Sequences

CONSTANTS
    Keys, Values,
    MaxSize,       \* maxsize
    Ttl,           \* ttl, 0 for none
    MaxTime        \* bound: readings of the clock

ASSUME CacheBounds == MaxSize \in Nat \ {0} /\ Ttl \in Nat /\ MaxTime \in Nat

VARIABLES
    cache,     \* _cache: a function from some keys to [value, since]
    access,    \* _access: a function from keys to times
    used       \* the last reading of the clock

lvars == <<cache, access, used>>

LTypeOK ==
    /\ DOMAIN cache \subseteq Keys
    /\ cache \in [DOMAIN cache -> [value : Values, since : 0..MaxTime]]
    /\ access \in [DOMAIN access -> 0..MaxTime]
    /\ used \in 0..MaxTime

LInit == cache = <<>> /\ access = <<>> /\ used = 0

Entry(v, now) == [value |-> v, since |-> now]

\* f with k mapped to x, whether or not it was before; f without k.
With(f, k, x) == [j \in DOMAIN f \cup {k} |-> IF j = k THEN x ELSE f[j]]
Del(f, k) == [j \in DOMAIN f \ {k} |-> f[j]]

Reads(now) == now \in (used + 1)..MaxTime /\ used' = now

Get(k, now) ==
    /\ Reads(now)
    /\ \/ k \notin DOMAIN cache /\ UNCHANGED <<cache, access>>
       \/ /\ k \in DOMAIN cache /\ Ttl > 0 /\ now - cache[k].since > Ttl
          /\ cache' = Del(cache, k) /\ access' = Del(access, k)
       \/ /\ k \in DOMAIN cache /\ ~(Ttl > 0 /\ now - cache[k].since > Ttl)
          /\ access' = With(access, k, now) /\ UNCHANGED cache

OldestSet(a) == CHOOSE k \in DOMAIN cache :      \* mutant: the first one set
                  \A j \in DOMAIN cache : cache[k].since <= cache[j].since

\* _evict: the key whose time of use is least
Oldest(a) == CHOOSE k \in DOMAIN a : \A j \in DOMAIN a : a[k] <= a[j]

Set(k, v, now) ==
    LET c == With(cache, k, Entry(v, now))
        a == With(access, k, now) IN
    /\ Reads(now)
    /\ IF Cardinality(DOMAIN c) > MaxSize
       THEN cache' = Del(c, Oldest(a)) /\ access' = Del(a, Oldest(a))
       ELSE cache' = c /\ access' = a

\* clear, by clear_caches of the API
Clear(now) == Reads(now) /\ cache' = <<>> /\ access' = <<>>

LNext ==
    \E now \in 1..MaxTime :
      \/ \E k \in Keys : Get(k, now) \/ \E v \in Values : Set(k, v, now)
      \/ Clear(now)

LSpec == LInit /\ [][LNext]_lvars

-----------------------------------------------------------------------------
\* Both dictionaries have the same keys, through expiry, eviction and clear,
\* and are never larger than maxsize.
SameKeys ==
    /\ DOMAIN cache = DOMAIN access
    /\ IsFiniteSet(DOMAIN cache) /\ Cardinality(DOMAIN cache) <= MaxSize

\* No entry was used before it was set, and no two at the same time.
UsesAreDistinct ==
    \A k \in DOMAIN cache :
      /\ cache[k].since <= access[k] /\ access[k] <= used
      /\ \A j \in DOMAIN access : access[j] = access[k] => j = k

\* The inductive invariant of the cache.
LInv == LTypeOK /\ SameKeys /\ UsesAreDistinct

\* The entries of dictionaries c and a, the one used last in front: before a
\* key come those used later.
Place(k, c, a) == 1 + Cardinality({j \in DOMAIN c : a[j] > a[k]})

Listed(k, c) == [key |-> k, value |-> c[k].value, since |-> c[k].since]

ListOf(c, a) ==
    [i \in 1..Cardinality(DOMAIN c) |->
       Listed(CHOOSE k \in DOMAIN c : Place(k, c, a) = i, c)]

ByRecency == ListOf(cache, access)

R == INSTANCE RecencyList WITH entries <- ByRecency, time <- used

\* However gets, sets and expiries follow each other, the two dictionaries
\* behave like one list by recency of use: what is evicted is always the
\* entry whose last use is longest ago, and a hit is the value set last.
IsRecencyList == R!RSpec
=============================================================================
