---------------------------- MODULE ServiceProofs ----------------------------
(***************************************************************************)
(* Proofs about the cache, the rate limiter and the notification sockets,  *)
(* for any keys, capacity and lifetime, any clients, limit and window, and *)
(* any users, sockets and sends.                                           *)
(***************************************************************************)
EXTENDS LRUCache, RateLimiter, Sockets, FiniteSetTheorems, FunctionTheorems,
        WellFoundedInduction, TLAPS

-----------------------------------------------------------------------------
(* The cache                                                               *)

\* A set of times has a least one.
LEMMA LeastTime ==
    ASSUME NEW T, T \subseteq Nat, T # {}
    PROVE  \E x \in T : \A y \in T : x <= y
<1>1. DEFINE before == {p \in Nat \X Nat : p[1] < p[2]}
<1>2. IsWellFoundedOn(before, Nat)
  BY NatLessThanWellFounded DEF OpToRel
<1> HIDE DEF before
<1>3. PICK x \in T : \A y \in T : ~(<<y, x>> \in before)
  BY <1>2, WFMin
<1>4. \A y \in T : ~(y < x)
  BY <1>3 DEF before
<1>5. \A y \in T : x <= y
  BY <1>4
<1>6. QED BY <1>5

\* As many as there are numbers between two.
LEMMA NumbersBetween ==
    ASSUME NEW a \in Nat, NEW b \in Nat, a <= b + 1
    PROVE  IsFiniteSet(a..b) /\ Cardinality(a..b) = b - a + 1
<1>1. IsFiniteSet(a..b) /\ Cardinality(a..b) = IF a > b THEN 0 ELSE b - a + 1
  BY FS_Interval
<1>2. QED BY <1>1

LEMMA OldestIsThere ==
    ASSUME NEW a, a \in [DOMAIN a -> Nat], DOMAIN a # {}
    PROVE  Oldest(a) \in DOMAIN a
<1>1. DEFINE T == {a[k] : k \in DOMAIN a}
<1>2. T \subseteq Nat /\ T # {}
  OBVIOUS
<1>3. PICK x \in T : \A y \in T : x <= y
  BY <1>2, LeastTime
<1>4. PICK k \in DOMAIN a : a[k] = x
  BY <1>3
<1>5. \A j \in DOMAIN a : a[k] <= a[j]
  BY <1>3, <1>4
<1>6. QED BY <1>5 DEF Oldest

\* What Del does to a dictionary.
LEMMA DelKey ==
    ASSUME NEW f, NEW k
    PROVE  /\ DOMAIN Del(f, k) = DOMAIN f \ {k}
           /\ \A j \in DOMAIN f \ {k} : Del(f, k)[j] = f[j]
           /\ Del(f, k) = [j \in DOMAIN Del(f, k) |-> Del(f, k)[j]]
BY DEF Del

Entries == [value : Values, since : 0..MaxTime]

\* A pair of dictionaries with the same keys, the uses of which are distinct:
\* LInv of a cache of any size, for what a method makes before it evicts.
Paired(c, a, time) ==
    /\ DOMAIN c \subseteq Keys /\ c \in [DOMAIN c -> Entries]
    /\ a \in [DOMAIN a -> 0..MaxTime] /\ DOMAIN c = DOMAIN a
    /\ \A k \in DOMAIN c : c[k].since <= a[k] /\ a[k] <= time
    /\ \A j, k \in DOMAIN c : a[j] = a[k] => j = k

LEMMA LInvIsPaired ==
    LInv <=> /\ Paired(cache, access, used) /\ used \in 0..MaxTime
             /\ IsFiniteSet(DOMAIN cache) /\ Cardinality(DOMAIN cache) <= MaxSize
BY DEF LInv, LTypeOK, SameKeys, UsesAreDistinct, Paired, Entries

\* Deleting a key of both keeps them paired;
LEMMA DelKeepsPaired ==
    ASSUME NEW c, NEW a, NEW time \in 0..MaxTime, Paired(c, a, time), NEW k
    PROVE  Paired(Del(c, k), Del(a, k), time)
<1>1. /\ c \in [DOMAIN c -> Entries] /\ a \in [DOMAIN a -> 0..MaxTime]
      /\ DOMAIN c = DOMAIN a /\ DOMAIN c \subseteq Keys
      /\ \A j \in DOMAIN c : c[j].since <= a[j] /\ a[j] <= time
      /\ \A i, j \in DOMAIN c : a[i] = a[j] => i = j
  BY DEF Paired
<1>2. DEFINE c2 == Del(c, k)  a2 == Del(a, k)
<1>a. /\ DOMAIN c2 = DOMAIN c \ {k} /\ \A j \in DOMAIN c \ {k} : c2[j] = c[j]
      /\ c2 = [j \in DOMAIN c2 |-> c2[j]]
  BY DelKey
<1>b. /\ DOMAIN a2 = DOMAIN a \ {k} /\ \A j \in DOMAIN a \ {k} : a2[j] = a[j]
      /\ a2 = [j \in DOMAIN a2 |-> a2[j]]
  BY DelKey
<1> HIDE DEF c2, a2
<1>3. /\ DOMAIN c2 = DOMAIN c \ {k} /\ DOMAIN a2 = DOMAIN c \ {k}
      /\ \A j \in DOMAIN c \ {k} : c2[j] = c[j] /\ a2[j] = a[j]
      /\ c2 = [j \in DOMAIN c2 |-> c2[j]] /\ a2 = [j \in DOMAIN a2 |-> a2[j]]
  BY <1>1, <1>a, <1>b
<1>4. c2 \in [DOMAIN c2 -> Entries] /\ a2 \in [DOMAIN a2 -> 0..MaxTime]
  BY <1>1, <1>3
<1>5. Paired(c2, a2, time)
  BY <1>1, <1>3, <1>4 DEF Paired
<1>6. QED BY <1>5 DEF c2, a2

\* and so does using a key later than any other.
LEMMA UseKeepsPaired ==
    ASSUME NEW c, NEW a, NEW time \in 0..MaxTime, Paired(c, a, time),
           NEW at \in 0..MaxTime, time < at,
           NEW c2, c2 \in [DOMAIN c2 -> Entries], NEW k \in Keys,
           DOMAIN c2 = DOMAIN c \cup {k},
           \A j \in DOMAIN c \ {k} : c2[j] = c[j],
           c2[k].since <= at
    PROVE  Paired(c2, With(a, k, at), at)
<1>1. /\ a \in [DOMAIN a -> 0..MaxTime] /\ DOMAIN c = DOMAIN a /\ DOMAIN c \subseteq Keys
      /\ \A j \in DOMAIN c : c[j].since <= a[j] /\ a[j] <= time
      /\ \A i, j \in DOMAIN c : a[i] = a[j] => i = j
  BY DEF Paired
<1>2. DEFINE a2 == With(a, k, at)
<1>a. /\ DOMAIN a2 = DOMAIN a \cup {k} /\ a2[k] = at
      /\ \A j \in DOMAIN a \ {k} : a2[j] = a[j]
      /\ a2 = [j \in DOMAIN a2 |-> a2[j]]
  BY DEF With
<1> HIDE DEF a2
<1>3. /\ DOMAIN a2 = DOMAIN c2 /\ a2[k] = at
      /\ \A j \in DOMAIN c \ {k} : a2[j] = a[j]
      /\ a2 = [j \in DOMAIN a2 |-> a2[j]]
  BY <1>1, <1>a
<1>4. a2 \in [DOMAIN a2 -> 0..MaxTime]
  <2>1. \A j \in DOMAIN a2 : a2[j] \in 0..MaxTime
    BY <1>1, <1>3
  <2>2. QED BY <1>3, <2>1
<1>5. \A j \in DOMAIN c \ {k} : a2[j] < at /\ a2[j] <= at
  <2>1. ASSUME NEW j \in DOMAIN c \ {k} PROVE a2[j] < at /\ a2[j] <= at
    <3>1. a[j] \in 0..MaxTime /\ a[j] <= time
      BY <1>1
    <3>2. QED BY <1>3, <3>1
  <2>2. QED BY <2>1
<1>6. \A j \in DOMAIN c2 : c2[j].since <= a2[j] /\ a2[j] <= at
  <2>1. ASSUME NEW j \in DOMAIN c \ {k} PROVE c2[j].since <= a2[j] /\ a2[j] <= at
    BY <1>1, <1>3, <1>5
  <2>2. c2[k].since <= a2[k] /\ a2[k] <= at
    BY <1>3
  <2>3. QED BY <2>1, <2>2
<1>7. \A i, j \in DOMAIN c2 : a2[i] = a2[j] => i = j
  <2>1. ASSUME NEW i \in DOMAIN c2, NEW j \in DOMAIN c2, a2[i] = a2[j] PROVE i = j
    <3>1. CASE i = k /\ j # k
      BY <1>3, <1>5, <2>1, <3>1
    <3>2. CASE i # k /\ j = k
      BY <1>3, <1>5, <2>1, <3>2
    <3>3. CASE i # k /\ j # k
      BY <1>1, <1>3, <2>1, <3>3
    <3>4. QED BY <3>1, <3>2, <3>3
  <2>2. QED BY <2>1
<1>8. DOMAIN c2 \subseteq Keys
  BY <1>1
<1>9. Paired(c2, a2, at)
  BY <1>3, <1>4, <1>6, <1>7, <1>8 DEF Paired
<1>10. QED BY <1>9 DEF a2

LEMMA LInitInv == LInit => LInv
<1> SUFFICES ASSUME LInit PROVE LInv
  OBVIOUS
<1>1. DOMAIN cache = {} /\ DOMAIN access = {}
  BY DEF LInit
<1>2. cache = [k \in {} |-> cache[k]] /\ access = [k \in {} |-> access[k]]
  BY DEF LInit
<1>3. Paired(cache, access, used) /\ used \in 0..MaxTime
  BY <1>1, <1>2, CacheBounds DEF Paired, LInit
<1>4. IsFiniteSet(DOMAIN cache) /\ Cardinality(DOMAIN cache) <= MaxSize
  BY <1>1, FS_EmptySet, CacheBounds
<1>5. QED BY <1>3, <1>4, LInvIsPaired

\* The invariant after a step, from what the step leaves.
LEMMA LaterInv ==
    ASSUME Paired(cache', access', used'), used' \in 0..MaxTime,
           IsFiniteSet(DOMAIN cache'), Cardinality(DOMAIN cache') <= MaxSize
    PROVE  LInv'
<1>1. (LInv <=> /\ Paired(cache, access, used) /\ used \in 0..MaxTime
                /\ IsFiniteSet(DOMAIN cache) /\ Cardinality(DOMAIN cache) <= MaxSize)'
  BY LInvIsPaired, PTL
<1>2. QED BY <1>1

\* Time alone does no harm.
LEMMA LaterKeepsPaired ==
    ASSUME NEW c, NEW a, NEW time \in 0..MaxTime, Paired(c, a, time),
           NEW at \in 0..MaxTime, time < at
    PROVE  Paired(c, a, at)
<1>1. \A k \in DOMAIN c : a[k] \in 0..MaxTime /\ a[k] <= time
  BY DEF Paired
<1>2. \A k \in DOMAIN c : a[k] <= at
  BY <1>1
<1>3. QED BY <1>2 DEF Paired

LEMMA GetKeepsInv ==
    ASSUME LInv, NEW k \in Keys, NEW at \in 1..MaxTime, Get(k, at)
    PROVE  LInv'
<1>1. /\ Paired(cache, access, used) /\ used \in 0..MaxTime
      /\ IsFiniteSet(DOMAIN cache) /\ Cardinality(DOMAIN cache) <= MaxSize
  BY LInvIsPaired
<1>2. used < at /\ used' = at /\ at \in 0..MaxTime
  BY <1>1, CacheBounds DEF Get, Reads
<1>3. CASE UNCHANGED <<cache, access>>
  <2>1. Paired(cache, access, at)
    BY <1>1, <1>2, LaterKeepsPaired
  <2>2. QED BY <1>1, <1>2, <1>3, <2>1, LaterInv
<1>4. CASE cache' = Del(cache, k) /\ access' = Del(access, k)
  <2>1. Paired(cache, access, at)
    BY <1>1, <1>2, LaterKeepsPaired
  <2>2. Paired(Del(cache, k), Del(access, k), at)
    BY <1>2, <2>1, DelKeepsPaired
  <2>3. Paired(cache', access', used')
    BY <1>2, <1>4, <2>2
  <2>4. DOMAIN cache' = DOMAIN cache \ {k}
    BY <1>4, DelKey
  <2>5. /\ IsFiniteSet(DOMAIN cache') /\ Cardinality(DOMAIN cache') \in Nat
        /\ Cardinality(DOMAIN cache') <= Cardinality(DOMAIN cache)
        /\ Cardinality(DOMAIN cache) \in Nat
    BY <1>1, <2>4, FS_Subset, FS_CardinalityType
  <2>6. Cardinality(DOMAIN cache') <= MaxSize
    BY <1>1, <2>5, CacheBounds
  <2>7. QED BY <1>2, <2>3, <2>5, <2>6, LaterInv
<1>5. CASE k \in DOMAIN cache /\ access' = With(access, k, at) /\ UNCHANGED cache
  <2>1. /\ cache \in [DOMAIN cache -> Entries] /\ access[k] \in 0..MaxTime
        /\ cache[k].since <= access[k] /\ access[k] <= used
    BY <1>1, <1>5 DEF Paired
  <2>2. cache[k].since \in 0..MaxTime
    BY <2>1, <1>5 DEF Entries
  <2>3. cache[k].since <= at
    BY <1>1, <1>2, <2>1, <2>2
  <2>4. DOMAIN cache = DOMAIN cache \cup {k}
    BY <1>5
  <2>5. Paired(cache, With(access, k, at), at)
    BY <1>1, <1>2, <2>1, <2>3, <2>4, UseKeepsPaired
  <2>6. Paired(cache', access', used')
    BY <1>2, <1>5, <2>5
  <2>7. QED BY <1>1, <1>2, <1>5, <2>6, LaterInv
<1>6. QED BY <1>3, <1>4, <1>5 DEF Get

LEMMA SetKeepsInv ==
    ASSUME LInv, NEW k \in Keys, NEW v \in Values, NEW at \in 1..MaxTime, Set(k, v, at)
    PROVE  LInv'
<1> DEFINE c == With(cache, k, Entry(v, at))
           a == With(access, k, at)
<1>1. /\ Paired(cache, access, used) /\ used \in 0..MaxTime
      /\ IsFiniteSet(DOMAIN cache) /\ Cardinality(DOMAIN cache) <= MaxSize
  BY LInvIsPaired
<1>2. /\ used < at /\ used' = at /\ at \in 0..MaxTime
      /\ IF Cardinality(DOMAIN c) > MaxSize
         THEN cache' = Del(c, Oldest(a)) /\ access' = Del(a, Oldest(a))
         ELSE cache' = c /\ access' = a
  BY <1>1, CacheBounds DEF Set, Reads
<1>3. /\ DOMAIN c = DOMAIN cache \cup {k} /\ c[k] = Entry(v, at)
      /\ \A j \in DOMAIN cache \ {k} : c[j] = cache[j]
      /\ c = [j \in DOMAIN c |-> c[j]]
  BY DEF With
<1>4. Entry(v, at) \in Entries /\ Entry(v, at).since = at
  BY <1>2 DEF Entry, Entries
<1> HIDE DEF c
<1>5. c \in [DOMAIN c -> Entries]
  <2>1. cache \in [DOMAIN cache -> Entries]
    BY <1>1 DEF Paired
  <2>2. \A j \in DOMAIN c : c[j] \in Entries
    BY <1>3, <1>4, <2>1
  <2>3. QED BY <1>3, <2>2
<1>6. c[k].since <= at
  BY <1>2, <1>3, <1>4
<1>7. Paired(c, a, at)
  BY <1>1, <1>2, <1>3, <1>5, <1>6, UseKeepsPaired
<1>8. /\ IsFiniteSet(DOMAIN c) /\ Cardinality(DOMAIN c) \in Nat
      /\ Cardinality(DOMAIN c) <= MaxSize + 1
  <2>1. IsFiniteSet(DOMAIN c) /\ Cardinality(DOMAIN c) =
          IF k \in DOMAIN cache THEN Cardinality(DOMAIN cache) ELSE Cardinality(DOMAIN cache) + 1
    BY <1>1, <1>3, FS_AddElement
  <2>2. Cardinality(DOMAIN cache) \in Nat
    BY <1>1, FS_CardinalityType
  <2>3. QED BY <1>1, <2>1, <2>2, CacheBounds
<1>9. CASE ~(Cardinality(DOMAIN c) > MaxSize)
  <2>1. cache' = c /\ access' = a
    BY <1>2, <1>9
  <2>2. Paired(cache', access', used')
    BY <1>2, <1>7, <2>1
  <2>3. Cardinality(DOMAIN cache') <= MaxSize /\ IsFiniteSet(DOMAIN cache')
    BY <1>8, <1>9, <2>1, CacheBounds
  <2>4. QED BY <1>2, <2>2, <2>3, LaterInv
<1>10. CASE Cardinality(DOMAIN c) > MaxSize
  <2>1. cache' = Del(c, Oldest(a)) /\ access' = Del(a, Oldest(a))
    BY <1>2, <1>10
  <2>2. Paired(Del(c, Oldest(a)), Del(a, Oldest(a)), at)
    BY <1>2, <1>7, DelKeepsPaired
  <2>3. Paired(cache', access', used')
    BY <1>2, <2>1, <2>2
  <2>4. a \in [DOMAIN a -> Nat] /\ DOMAIN a = DOMAIN c /\ DOMAIN a # {}
    <3>1. a \in [DOMAIN a -> 0..MaxTime] /\ DOMAIN a = DOMAIN c
      BY <1>7 DEF Paired
    <3>2. 0..MaxTime \subseteq Nat
      BY CacheBounds
    <3>3. QED BY <1>3, <3>1, <3>2
  <2>5. Oldest(a) \in DOMAIN c
    BY <2>4, OldestIsThere
  <2>6. DOMAIN cache' = DOMAIN c \ {Oldest(a)}
    BY <2>1, DelKey
  <2>7. IsFiniteSet(DOMAIN cache') /\ Cardinality(DOMAIN cache') = Cardinality(DOMAIN c) - 1
    BY <1>8, <2>5, <2>6, FS_RemoveElement
  <2>8. Cardinality(DOMAIN cache') <= MaxSize
    BY <1>8, <2>7, CacheBounds
  <2>9. QED BY <1>2, <2>3, <2>7, <2>8, LaterInv
<1>11. QED BY <1>9, <1>10

LEMMA ClearKeepsInv ==
    ASSUME LInv, NEW at \in 1..MaxTime, Clear(at)
    PROVE  LInv'
<1>1. used' = at /\ at \in 0..MaxTime /\ cache' = <<>> /\ access' = <<>>
  BY CacheBounds DEF Clear, Reads
<1>2. DOMAIN cache' = {} /\ DOMAIN access' = {}
  BY <1>1
<1>3. cache' = [k \in {} |-> cache'[k]] /\ access' = [k \in {} |-> access'[k]]
  BY <1>1
<1>4. Paired(cache', access', used')
  BY <1>1, <1>2, <1>3 DEF Paired
<1>5. IsFiniteSet(DOMAIN cache') /\ Cardinality(DOMAIN cache') <= MaxSize
  BY <1>2, FS_EmptySet, CacheBounds
<1>6. QED BY <1>1, <1>4, <1>5, LaterInv

LEMMA LNextInv ==
    ASSUME LInv, [LNext]_lvars
    PROVE  LInv'
<1>1. ASSUME NEW at \in 1..MaxTime, NEW k \in Keys, Get(k, at) PROVE LInv'
  BY <1>1, GetKeepsInv
<1>2. ASSUME NEW at \in 1..MaxTime, NEW k \in Keys, NEW v \in Values, Set(k, v, at) PROVE LInv'
  BY <1>2, SetKeepsInv
<1>3. ASSUME NEW at \in 1..MaxTime, Clear(at) PROVE LInv'
  BY <1>3, ClearKeepsInv
<1>4. CASE UNCHANGED lvars
  BY <1>4 DEF lvars, LInv, LTypeOK, SameKeys, UsesAreDistinct
<1>5. QED BY <1>1, <1>2, <1>3, <1>4 DEF LNext

\* LRUCache: the two dictionaries always have the same keys, never more than
\* maxsize of them, and no two keys were used at the same time.
THEOREM CacheInvariant == LSpec => []LInv
<1>1. LInit => LInv
  BY LInitInv
<1>2. LInv /\ [LNext]_lvars => LInv'
  BY LNextInv
<1>3. QED BY <1>1, <1>2, PTL DEF LSpec

\* What eviction and expiry rely on (`del self._access[key]' raises no
\* KeyError): _cache and _access have the same keys, through expiry, eviction
\* and clear.
THEOREM CacheKeepsSameKeys == LSpec => []SameKeys
BY CacheInvariant, PTL DEF LInv

\* The dictionaries as one list (module RecencyList).  s lists the entries of
\* dictionaries c and a, the one used last in front.
Item == [key : Keys, value : Values, since : 0..MaxTime]

Listing(s, c, a) ==
    /\ s \in Seq(Item)
    /\ \A i \in 1..Len(s) : s[i].key \in DOMAIN c /\ s[i] = Listed(s[i].key, c)
    /\ \A k \in DOMAIN c : \E i \in 1..Len(s) : s[i].key = k
    /\ \A k \in DOMAIN c : a[k] \in Nat
    /\ \A i, j \in 1..Len(s) : i < j => a[s[i].key] > a[s[j].key]

LEMMA KeysAreDistinct ==
    ASSUME NEW s, NEW c, NEW a, Listing(s, c, a),
           NEW i \in 1..Len(s), NEW j \in 1..Len(s), s[i].key = s[j].key
    PROVE  i = j
<1>1. /\ a[s[i].key] \in Nat /\ a[s[j].key] \in Nat
      /\ i < j => a[s[i].key] > a[s[j].key]
      /\ j < i => a[s[j].key] > a[s[i].key]
  BY DEF Listing
<1>2. ~(i < j) /\ ~(j < i)
  BY <1>1
<1>3. QED BY <1>2 DEF Listing

\* The first n entries have n keys.
LEMMA KeysAreCounted ==
    ASSUME NEW s, NEW c, NEW a, Listing(s, c, a), NEW n \in 0..Len(s),
           NEW T, T = {s[m].key : m \in 1..n}
    PROVE  IsFiniteSet(T) /\ Cardinality(T) = n
<1> DEFINE f == [m \in 1..n |-> s[m].key]
<1>1. n \in Nat /\ \A m \in 1..n : m \in 1..Len(s)
  BY DEF Listing
<1>2. f \in [1..n -> T] /\ \A t \in T : \E m \in 1..n : f[m] = t
  OBVIOUS
<1>3. \A m, p \in 1..n : f[m] = f[p] => m = p
  BY <1>1, KeysAreDistinct
<1> HIDE DEF f
<1>4. f \in Injection(1..n, T)
  BY <1>2, <1>3, Fun_IsInj
<1>5. f \in Surjection(1..n, T)
  BY <1>2, Fun_IsSurj
<1>6. IsFiniteSet(1..n) /\ Cardinality(1..n) = n
  <2>1. Cardinality(1..n) = n - 1 + 1 /\ IsFiniteSet(1..n)
    BY <1>1, NumbersBetween
  <2>2. QED BY <1>1, <2>1
<1>7. QED BY <1>4, <1>5, <1>6, FS_Surjection

\* So a key's place is where it is listed,
LEMMA PlaceIsIndex ==
    ASSUME NEW s, NEW c, NEW a, Listing(s, c, a), NEW i \in 1..Len(s)
    PROVE  Place(s[i].key, c, a) = i
<1> DEFINE T == {j \in DOMAIN c : a[j] > a[s[i].key]}
<1>1. i \in Nat \ {0} /\ i - 1 \in 0..Len(s) /\ s[i].key \in DOMAIN c
  BY DEF Listing
<1>2. ASSUME NEW m \in 1..(i-1) PROVE s[m].key \in T
  BY <1>1, <1>2 DEF Listing
<1>3. ASSUME NEW k \in T PROVE \E m \in 1..(i-1) : s[m].key = k
  <2>1. PICK m \in 1..Len(s) : s[m].key = k
    BY <1>3 DEF Listing
  <2>2. a[k] \in Nat /\ a[s[i].key] \in Nat /\ a[k] > a[s[i].key]
    BY <1>1, <1>3 DEF Listing
  <2>3. i < m => a[s[i].key] > a[k]
    BY <2>1 DEF Listing
  <2>4. m # i /\ ~(i < m)
    BY <2>1, <2>2, <2>3
  <2>5. m \in 1..(i-1)
    BY <1>1, <2>4
  <2>6. QED BY <2>1, <2>5
<1>4. T = {s[m].key : m \in 1..(i-1)}
  BY <1>2, <1>3
<1> HIDE DEF T
<1>5. Cardinality(T) = i - 1
  BY <1>1, <1>4, KeysAreCounted
<1>6. QED BY <1>1, <1>5 DEF Place, T

LEMMA LengthIsNumber ==
    ASSUME NEW s, NEW c, NEW a, Listing(s, c, a)
    PROVE  /\ IsFiniteSet(DOMAIN c) /\ Cardinality(DOMAIN c) = Len(s)
           /\ Len(s) \in Nat
<1>1. s \in Seq(Item) /\ Len(s) \in Nat
  BY DEF Listing
<1>2. Len(s) \in 0..Len(s)
  BY <1>1
<1>3. /\ \A m \in 1..Len(s) : s[m].key \in DOMAIN c
      /\ \A k \in DOMAIN c : \E m \in 1..Len(s) : s[m].key = k
  BY DEF Listing
<1>4. DOMAIN c = {s[m].key : m \in 1..Len(s)}
  BY <1>3
<1>5. QED BY <1>1, <1>2, <1>4, KeysAreCounted

\* and there is but one such list.
LEMMA ListingIsList ==
    ASSUME NEW s, NEW c, NEW a, Listing(s, c, a)
    PROVE  ListOf(c, a) = s
<1>1. Cardinality(DOMAIN c) = Len(s) /\ s \in Seq(Item) /\ Len(s) \in Nat
  BY LengthIsNumber DEF Listing
<1>2. ASSUME NEW i \in 1..Len(s)
      PROVE  Listed(CHOOSE k \in DOMAIN c : Place(k, c, a) = i, c) = s[i]
  <2>1. s[i].key \in DOMAIN c /\ Place(s[i].key, c, a) = i
    BY PlaceIsIndex DEF Listing
  <2>2. ASSUME NEW k \in DOMAIN c, Place(k, c, a) = i PROVE k = s[i].key
    <3>1. PICK m \in 1..Len(s) : s[m].key = k
      BY DEF Listing
    <3>2. Place(k, c, a) = m
      BY <3>1, PlaceIsIndex
    <3>3. QED BY <2>2, <3>1, <3>2
  <2>3. (CHOOSE k \in DOMAIN c : Place(k, c, a) = i) = s[i].key
    BY <2>1, <2>2
  <2>4. QED BY <2>3 DEF Listing
<1>3. ListOf(c, a) = [i \in 1..Len(s) |-> s[i]]
  BY <1>1, <1>2 DEF ListOf
<1>4. s = [i \in 1..Len(s) |-> s[i]]
  BY <1>1
<1>5. QED BY <1>3, <1>4

\* The list without a key lists the dictionaries without it;
LEMMA WithoutListed ==
    ASSUME NEW s, NEW c, NEW a, Listing(s, c, a), DOMAIN a = DOMAIN c, NEW k
    PROVE  /\ Listing(R!Without(s, k), Del(c, k), Del(a, k))
           /\ \A p \in 1..Len(s) : s[p].key = k =>
                R!Without(s, k) =
                  [i \in 1..(Len(s) - 1) |-> IF i < p THEN s[i] ELSE s[i + 1]]
<1> DEFINE found == {i \in 1..Len(s) : s[i].key = k}
           c2 == Del(c, k)  a2 == Del(a, k)
<1>1. /\ s \in Seq(Item) /\ Len(s) \in Nat
      /\ \A i \in 1..Len(s) : s[i] \in Item
      /\ \A i \in 1..Len(s) : s[i].key \in DOMAIN c /\ s[i] = Listed(s[i].key, c)
      /\ \A j \in DOMAIN c : \E i \in 1..Len(s) : s[i].key = j
      /\ \A j \in DOMAIN c : a[j] \in Nat
      /\ \A i, j \in 1..Len(s) : i < j => a[s[i].key] > a[s[j].key]
  BY DEF Listing
<1>2. /\ DOMAIN c2 = DOMAIN c \ {k} /\ \A j \in DOMAIN c \ {k} : c2[j] = c[j]
      /\ \A j \in DOMAIN c \ {k} : a2[j] = a[j]
  BY DelKey
<1>3. \A j \in DOMAIN c \ {k} : Listed(j, c2) = Listed(j, c)
  BY <1>2 DEF Listed
<1> HIDE DEF c2, a2
<1>4. CASE found = {}
  <2>1. R!Without(s, k) = s /\ \A i \in 1..Len(s) : s[i].key # k
    BY <1>4 DEF R!Without
  <2>2. Listing(s, c2, a2)
    BY <1>1, <1>2, <1>3, <2>1 DEF Listing
  <2>3. QED BY <2>1, <2>2 DEF c2, a2
<1>5. CASE found # {}
  <2>1. PICK p \in 1..Len(s) : s[p].key = k
    BY <1>5
  <2>2. \A q \in 1..Len(s) : s[q].key = k => q = p
    BY <2>1, KeysAreDistinct
  <2>3. found = {p}
    BY <2>1, <2>2
  <2> DEFINE r == [i \in 1..(Len(s) - 1) |-> IF i < p THEN s[i] ELSE s[i + 1]]
  <2>4. R!Without(s, k) = r
    BY <2>3 DEF R!Without
  <2> DEFINE from(i) == IF i < p THEN i ELSE i + 1
  <2>5. /\ Len(s) - 1 \in Nat
        /\ \A i \in 1..(Len(s) - 1) : from(i) \in 1..Len(s) /\ from(i) # p
        /\ \A i, j \in 1..(Len(s) - 1) : i < j => from(i) < from(j)
        /\ \A m \in 1..Len(s) : m # p => \E i \in 1..(Len(s) - 1) : from(i) = m
    <3>1. p \in Nat /\ 1 <= p /\ p <= Len(s)
      BY <1>1, <2>1
    <3>2. ASSUME NEW m \in 1..Len(s), m # p
          PROVE  \E i \in 1..(Len(s) - 1) : from(i) = m
      <4>1. CASE m < p
        <5>1. m \in 1..(Len(s) - 1) /\ from(m) = m
          BY <1>1, <3>1, <3>2, <4>1
        <5>2. QED BY <5>1
      <4>2. CASE m > p
        <5>1. m - 1 \in 1..(Len(s) - 1) /\ from(m - 1) = m
          BY <1>1, <3>1, <3>2, <4>2
        <5>2. QED BY <5>1
      <4>3. QED BY <1>1, <3>1, <3>2, <4>1, <4>2
    <3>3. QED BY <1>1, <3>1, <3>2
  <2>6. \A i \in 1..(Len(s) - 1) : r[i] = s[from(i)]
    OBVIOUS
  <2>7. r \in Seq(Item) /\ Len(r) = Len(s) - 1
    <3>1. \A i \in 1..(Len(s) - 1) : r[i] \in Item
      BY <1>1, <2>5, <2>6
    <3>2. r = [i \in 1..(Len(s) - 1) |-> r[i]]
      OBVIOUS
    <3> HIDE DEF r
    <3>3. QED BY <2>5, <3>1, <3>2
  <2> HIDE DEF r, from
  <2>8. ASSUME NEW i \in 1..Len(r)
        PROVE  /\ r[i].key \in DOMAIN c \ {k}
               /\ r[i] = Listed(r[i].key, c2)
    <3>1. i \in 1..(Len(s) - 1)
      BY <2>7
    <3>2. from(i) \in 1..Len(s) /\ from(i) # p /\ r[i] = s[from(i)]
      BY <2>5, <2>6, <3>1
    <3>3. s[from(i)].key # k
      BY <2>2, <3>2
    <3>4. s[from(i)].key \in DOMAIN c /\ s[from(i)] = Listed(s[from(i)].key, c)
      BY <1>1, <3>2
    <3>5. QED BY <1>3, <3>2, <3>3, <3>4
  <2>9. ASSUME NEW j \in DOMAIN c \ {k} PROVE \E i \in 1..Len(r) : r[i].key = j
    <3>1. PICK m \in 1..Len(s) : s[m].key = j
      BY <1>1
    <3>2. m # p
      BY <2>1, <2>9, <3>1
    <3>3. QED BY <2>5, <2>6, <2>7, <3>1, <3>2
  <2>10. ASSUME NEW i \in 1..Len(r), NEW j \in 1..Len(r), i < j
         PROVE  a2[r[i].key] > a2[r[j].key]
    <3>1. a[s[from(i)].key] > a[s[from(j)].key]
      BY <1>1, <2>5, <2>7, <2>10
    <3>2. QED BY <1>2, <2>6, <2>7, <2>8, <3>1
  <2>11. Listing(r, c2, a2)
    BY <1>1, <1>2, <2>7, <2>8, <2>9, <2>10 DEF Listing
  <2>12. QED BY <2>2, <2>4, <2>11 DEF c2, a2, r
<1>6. QED BY <1>4, <1>5

\* with an entry in front, the dictionaries with a key used later than any.
LEMMA FrontListed ==
    ASSUME NEW s, NEW c, NEW a, Listing(s, c, a), NEW k, k \notin DOMAIN c,
           NEW c2, DOMAIN c2 = DOMAIN c \cup {k}, \A j \in DOMAIN c : c2[j] = c[j],
           NEW a2, \A j \in DOMAIN c : a2[j] = a[j] /\ a2[j] < a2[k],
           a2[k] \in Nat, Listed(k, c2) \in Item
    PROVE  Listing(<<Listed(k, c2)>> \o s, c2, a2)
<1> DEFINE e == Listed(k, c2)  t == <<e>> \o s
<1>1. /\ s \in Seq(Item) /\ Len(s) \in Nat
      /\ \A i \in 1..Len(s) : s[i].key \in DOMAIN c /\ s[i] = Listed(s[i].key, c)
      /\ \A j \in DOMAIN c : \E i \in 1..Len(s) : s[i].key = j
      /\ \A j \in DOMAIN c : a[j] \in Nat
      /\ \A i, j \in 1..Len(s) : i < j => a[s[i].key] > a[s[j].key]
  BY DEF Listing
<1>2. e \in Item /\ e.key = k
  BY DEF Listed
<1> HIDE DEF e
<1>3. /\ t \in Seq(Item) /\ Len(t) = Len(s) + 1 /\ t[1] = e
      /\ \A i \in 1..Len(s) : t[i + 1] = s[i]
  BY <1>1, <1>2
<1> HIDE DEF t
<1>4. \A i \in 1..Len(t) : i = 1 \/ (i - 1 \in 1..Len(s) /\ t[i] = s[i - 1])
  <2>1. ASSUME NEW i \in 1..Len(t), i # 1
        PROVE  i - 1 \in 1..Len(s) /\ t[i] = s[i - 1]
    <3>1. i - 1 \in 1..Len(s) /\ (i - 1) + 1 = i
      BY <1>1, <1>3, <2>1
    <3>2. QED BY <1>3, <3>1
  <2>2. QED BY <2>1
<1>5. \A j \in DOMAIN c : Listed(j, c2) = Listed(j, c)
  BY DEF Listed
<1>6. ASSUME NEW i \in 1..Len(t)
      PROVE  t[i].key \in DOMAIN c2 /\ t[i] = Listed(t[i].key, c2)
  <2>1. CASE i = 1
    BY <1>2, <1>3, <2>1 DEF e
  <2>2. CASE i # 1
    BY <1>1, <1>4, <1>5, <2>2
  <2>3. QED BY <2>1, <2>2
<1>7. ASSUME NEW j \in DOMAIN c2 PROVE \E i \in 1..Len(t) : t[i].key = j
  <2>1. CASE j = k
    <3>1. 1 \in 1..Len(t)
      BY <1>1, <1>3
    <3>2. QED BY <1>2, <1>3, <2>1, <3>1
  <2>2. CASE j \in DOMAIN c
    <3>1. PICK m \in 1..Len(s) : s[m].key = j
      BY <1>1, <2>2
    <3>2. m + 1 \in 1..Len(t) /\ t[m + 1].key = j
      BY <1>1, <1>3, <3>1
    <3>3. QED BY <3>2
  <2>3. QED BY <2>1, <2>2
<1>8. ASSUME NEW i \in 1..Len(t), NEW j \in 1..Len(t), i < j
      PROVE  a2[t[i].key] > a2[t[j].key]
  <2>1. j # 1 /\ j - 1 \in 1..Len(s) /\ t[j] = s[j - 1] /\ s[j - 1].key \in DOMAIN c
    <3>1. j # 1
      BY <1>1, <1>3, <1>8
    <3>2. j - 1 \in 1..Len(s) /\ t[j] = s[j - 1]
      BY <1>4, <3>1
    <3>3. QED BY <1>1, <3>1, <3>2
  <2>2. CASE i = 1
    BY <1>1, <1>2, <1>3, <2>1, <2>2
  <2>3. CASE i # 1
    <3>1. i - 1 \in 1..Len(s) /\ i - 1 < j - 1 /\ t[i] = s[i - 1]
      BY <1>1, <1>3, <1>4, <1>8, <2>3
    <3>2. a[s[i - 1].key] > a[s[j - 1].key] /\ s[i - 1].key \in DOMAIN c
      BY <1>1, <2>1, <3>1
    <3>3. QED BY <2>1, <3>1, <3>2
  <2>4. QED BY <2>2, <2>3
<1>9. \A j \in DOMAIN c2 : a2[j] \in Nat
  BY <1>1
<1>10. Listing(t, c2, a2)
  BY <1>3, <1>6, <1>7, <1>8, <1>9 DEF Listing
<1>11. QED BY <1>10 DEF t, e

\* The last entry of a list is the oldest; a list cut before it is the list
\* without its key.
LEMMA OldestIsLast ==
    ASSUME NEW s, NEW c, NEW a, Listing(s, c, a), DOMAIN a = DOMAIN c, Len(s) # 0
    PROVE  /\ Oldest(a) = s[Len(s)].key
           /\ R!Without(s, Oldest(a)) = SubSeq(s, 1, Len(s) - 1)
<1> DEFINE n == Len(s)  k == s[n].key
<1>1. /\ s \in Seq(Item) /\ n \in Nat /\ n \in 1..n /\ k \in DOMAIN c
  BY DEF Listing
<1>2. ASSUME NEW j \in DOMAIN a, j # k PROVE a[k] < a[j]
  <2>1. PICK m \in 1..n : s[m].key = j
    BY <1>2 DEF Listing
  <2>2. m < n
    BY <1>1, <1>2, <2>1
  <2>3. QED BY <1>1, <2>1, <2>2 DEF Listing
<1>3. \A j \in DOMAIN a : a[j] \in Nat
  BY DEF Listing
<1> HIDE DEF k
<1>4. \A j \in DOMAIN a : a[k] <= a[j]
  <2>1. ASSUME NEW j \in DOMAIN a PROVE a[k] <= a[j]
    BY <1>1, <1>2, <1>3
  <2>2. QED BY <2>1
<1>5. \A x \in DOMAIN a : (\A j \in DOMAIN a : a[x] <= a[j]) => x = k
  <2>1. ASSUME NEW x \in DOMAIN a, a[x] <= a[k], x # k PROVE FALSE
    BY <1>1, <1>2, <1>3, <2>1
  <2>2. QED BY <1>1, <2>1
<1>6. Oldest(a) = k
  BY <1>1, <1>4, <1>5 DEF Oldest
<1>7. R!Without(s, k) = [i \in 1..(n - 1) |-> IF i < n THEN s[i] ELSE s[i + 1]]
  BY <1>1, WithoutListed DEF k
<1>8. SubSeq(s, 1, n - 1) = [i \in 1..(n - 1) |-> s[i]]
  BY <1>1
<1>9. \A i \in 1..(n - 1) : i < n
  BY <1>1
<1>10. QED BY <1>6, <1>7, <1>8, <1>9 DEF k

\* What the two dictionaries of a cache have to do with each other.
LEMMA KeysOfPaired ==
    ASSUME NEW c, NEW a, NEW time \in 0..MaxTime, Paired(c, a, time)
    PROVE  /\ DOMAIN a = DOMAIN c /\ DOMAIN c \subseteq Keys
           /\ \A k \in DOMAIN c : /\ a[k] \in Nat /\ a[k] <= time
                                  /\ Listed(k, c) \in Item
<1>1. /\ DOMAIN a = DOMAIN c /\ DOMAIN c \subseteq Keys /\ c \in [DOMAIN c -> Entries]
      /\ a \in [DOMAIN a -> 0..MaxTime] /\ \A k \in DOMAIN c : a[k] <= time
  BY DEF Paired
<1>2. ASSUME NEW k \in DOMAIN c PROVE a[k] \in Nat /\ Listed(k, c) \in Item
  <2>1. c[k] \in Entries /\ a[k] \in 0..MaxTime /\ k \in Keys
    BY <1>1
  <2>2. QED BY <2>1, CacheBounds DEF Entries, Listed, Item
<1>3. QED BY <1>1, <1>2

\* A use: the key is taken out of the list and put in front.
LEMMA UseListed ==
    ASSUME NEW s, NEW c, NEW a, Listing(s, c, a), DOMAIN a = DOMAIN c,
           NEW k, NEW c2, DOMAIN c2 = DOMAIN c \cup {k},
           \A j \in DOMAIN c \ {k} : c2[j] = c[j],
           NEW at \in Nat, \A j \in DOMAIN c : a[j] < at, Listed(k, c2) \in Item
    PROVE  Listing(<<Listed(k, c2)>> \o R!Without(s, k), c2, With(a, k, at))
<1> DEFINE d == Del(c, k)  b == Del(a, k)  a2 == With(a, k, at)  rest == R!Without(s, k)
<1>1. Listing(rest, d, b)
  BY WithoutListed
<1>2. /\ DOMAIN d = DOMAIN c \ {k} /\ \A j \in DOMAIN d : d[j] = c[j]
      /\ \A j \in DOMAIN d : b[j] = a[j]
  <2>1. DOMAIN d = DOMAIN c \ {k} /\ \A j \in DOMAIN c \ {k} : d[j] = c[j]
    BY DelKey
  <2>2. \A j \in DOMAIN a \ {k} : b[j] = a[j]
    BY DelKey
  <2>3. QED BY <2>1, <2>2
<1>3. a2[k] = at /\ \A j \in DOMAIN d : a2[j] = a[j]
  BY <1>2 DEF With
<1> HIDE DEF d, b, a2, rest
<1>4. /\ k \notin DOMAIN d /\ DOMAIN c2 = DOMAIN d \cup {k}
      /\ \A j \in DOMAIN d : c2[j] = d[j] /\ a2[j] = b[j] /\ a2[j] < a2[k]
  BY <1>2, <1>3
<1>5. Listing(<<Listed(k, c2)>> \o rest, c2, a2)
  BY <1>1, <1>3, <1>4, FrontListed
<1>6. QED BY <1>5 DEF a2, rest

\* The invariant under which the cache is a list, and what it says.
ListInv == LInv /\ Listing(ByRecency, cache, access)

LEMMA ListInvSays ==
    ASSUME ListInv
    PROVE  /\ Paired(cache, access, used) /\ used \in 0..MaxTime
           /\ Listing(ByRecency, cache, access)
           /\ DOMAIN access = DOMAIN cache
           /\ \A k \in DOMAIN cache : access[k] \in Nat /\ access[k] <= used
           /\ Cardinality(DOMAIN cache) <= MaxSize
<1>1. Paired(cache, access, used) /\ used \in 0..MaxTime /\ Cardinality(DOMAIN cache) <= MaxSize
  BY LInvIsPaired DEF ListInv
<1>2. QED BY <1>1, KeysOfPaired DEF ListInv

\* A step that leaves a list of its dictionaries leaves them as that list.
LEMMA ListedLater ==
    ASSUME NEW s, Listing(s, cache', access')
    PROVE  ByRecency' = s /\ Listing(ByRecency, cache, access)'
<1>1. ListOf(cache', access') = s
  BY ListingIsList
<1>2. ByRecency' = s
  BY <1>1 DEF ByRecency
<1>3. QED BY <1>2

\* get looks an entry up in the list.
LEMMA GetLooks ==
    ASSUME ListInv, NEW k \in Keys, NEW at \in 1..MaxTime, Get(k, at)
    PROVE  R!Look(k, at) /\ Listing(ByRecency, cache, access)'
<1> DEFINE s == ByRecency
<1>1. /\ Listing(s, cache, access) /\ DOMAIN access = DOMAIN cache
      /\ \A j \in DOMAIN cache : access[j] \in Nat /\ access[j] <= used
      /\ Paired(cache, access, used) /\ used \in 0..MaxTime
  BY ListInvSays
<1>2. used < at /\ at \in Nat
  BY <1>1, CacheBounds DEF Get, Reads
<1> HIDE DEF s
<1>3. CASE k \notin DOMAIN cache
  <2>1. UNCHANGED <<cache, access>>
    BY <1>3 DEF Get
  <2>2. s' = s /\ Listing(s, cache', access')
    BY <1>1, <2>1 DEF s, ByRecency
  <2>3. \A i \in 1..Len(s) : s[i].key # k
    BY <1>1, <1>3 DEF Listing
  <2>4. Listing(ByRecency, cache, access)'
    BY <2>2 DEF s
  <2>5. QED BY <2>2, <2>3, <2>4 DEF s, R!Look
<1>4. CASE k \in DOMAIN cache
  <2>1. PICK i \in 1..Len(s) : s[i].key = k
    BY <1>1, <1>4 DEF Listing
  <2>2. s[i] = Listed(k, cache)
    BY <1>1, <2>1 DEF Listing
  <2>3. s[i].since = cache[k].since
    BY <2>2 DEF Listed
  <2>4. CASE Ttl > 0 /\ at - cache[k].since > Ttl
    <3>1. cache' = Del(cache, k) /\ access' = Del(access, k)
      BY <1>4, <2>4 DEF Get
    <3>2. Listing(R!Without(s, k), cache', access')
      BY <1>1, <3>1, WithoutListed
    <3>3. ByRecency' = R!Without(s, k) /\ Listing(ByRecency, cache, access)'
      BY <3>2, ListedLater
    <3>4. R!Expired(s[i], at)
      BY <2>3, <2>4 DEF R!Expired
    <3>5. QED BY <2>1, <3>3, <3>4 DEF s, R!Look
  <2>5. CASE ~(Ttl > 0 /\ at - cache[k].since > Ttl)
    <3>1. access' = With(access, k, at) /\ cache' = cache
      BY <1>4, <2>5 DEF Get
    <3>2. Listed(k, cache) \in Item /\ DOMAIN cache = DOMAIN cache \cup {k}
      BY <1>1, <1>4, KeysOfPaired
    <3>3. \A j \in DOMAIN cache : access[j] < at
      BY <1>1, <1>2
    <3>4. Listing(<<Listed(k, cache)>> \o R!Without(s, k), cache, With(access, k, at))
      BY <1>1, <1>2, <3>2, <3>3, UseListed
    <3>5. Listing(<<s[i]>> \o R!Without(s, s[i].key), cache', access')
      BY <2>1, <2>2, <3>1, <3>4
    <3>6. /\ ByRecency' = <<s[i]>> \o R!Without(s, s[i].key)
          /\ Listing(ByRecency, cache, access)'
      BY <3>5, ListedLater
    <3>7. ~R!Expired(s[i], at) /\ R!Use(s[i])
      BY <2>3, <2>5, <3>6 DEF s, R!Expired, R!Use
    <3>8. QED BY <2>1, <3>6, <3>7 DEF s, R!Look
  <2>6. QED BY <2>4, <2>5
<1>5. QED BY <1>3, <1>4

\* set puts an entry in front of the list, whose last one may fall off.
LEMMA SetPuts ==
    ASSUME ListInv, NEW k \in Keys, NEW v \in Values, NEW at \in 1..MaxTime, Set(k, v, at)
    PROVE  R!Put(k, v, at) /\ Listing(ByRecency, cache, access)'
<1> DEFINE c == With(cache, k, Entry(v, at))  a == With(access, k, at)
           e == [key |-> k, value |-> v, since |-> at]
           s == <<e>> \o R!Without(ByRecency, k)
<1>1. /\ Listing(ByRecency, cache, access) /\ DOMAIN access = DOMAIN cache
      /\ \A j \in DOMAIN cache : access[j] \in Nat /\ access[j] <= used
      /\ Paired(cache, access, used) /\ used \in 0..MaxTime
      /\ Cardinality(DOMAIN cache) <= MaxSize
  BY ListInvSays
<1>2. /\ used < at /\ at \in Nat /\ at \in 0..MaxTime
      /\ IF Cardinality(DOMAIN c) > MaxSize
         THEN cache' = Del(c, Oldest(a)) /\ access' = Del(a, Oldest(a))
         ELSE cache' = c /\ access' = a
  BY <1>1, CacheBounds DEF Set, Reads
<1>3. /\ DOMAIN c = DOMAIN cache \cup {k} /\ DOMAIN a = DOMAIN c
      /\ \A j \in DOMAIN cache \ {k} : c[j] = cache[j]
      /\ Listed(k, c) = e /\ e \in Item
  BY <1>1, <1>2 DEF With, Entry, Listed, Item
<1>4. \A j \in DOMAIN cache : access[j] < at
  BY <1>1, <1>2
<1> HIDE DEF c, e
<1>5. Listing(s, c, a)
  BY <1>1, <1>2, <1>3, <1>4, UseListed
<1> HIDE DEF a
<1>6. /\ Cardinality(DOMAIN c) = Len(s) /\ Len(s) \in Nat /\ s \in Seq(Item)
  BY <1>5, LengthIsNumber DEF Listing
<1>7. Len(s) <= MaxSize + 1 /\ MaxSize \in Nat \ {0}
  <2>1. /\ IsFiniteSet(DOMAIN cache) /\ Cardinality(DOMAIN cache) \in Nat
        /\ Cardinality(DOMAIN c) =
             IF k \in DOMAIN cache THEN Cardinality(DOMAIN cache)
                                   ELSE Cardinality(DOMAIN cache) + 1
    BY <1>1, <1>3, LengthIsNumber, FS_AddElement, FS_CardinalityType
  <2>2. QED BY <1>1, <1>6, <2>1, CacheBounds
<1> HIDE DEF s
<1>8. CASE ~(Len(s) > MaxSize)
  <2>1. R!Truncated(s) = s
    <3>1. Len(s) <= MaxSize
      BY <1>6, <1>7, <1>8
    <3>2. SubSeq(s, 1, Len(s)) = s
      BY <1>6
    <3>3. (IF Len(s) < MaxSize THEN Len(s) ELSE MaxSize) = Len(s)
      BY <1>6, <1>7, <3>1
    <3>4. QED BY <3>2, <3>3 DEF R!Truncated
  <2>2. ByRecency' = s /\ Listing(ByRecency, cache, access)'
    BY <1>2, <1>5, <1>6, <1>8, ListedLater
  <2>3. QED BY <2>1, <2>2 DEF R!Put, s, e
<1>9. CASE Len(s) > MaxSize
  <2>1. cache' = Del(c, Oldest(a)) /\ access' = Del(a, Oldest(a))
    BY <1>2, <1>6, <1>9
  <2>2. Len(s) # 0 /\ Len(s) - 1 = MaxSize
    BY <1>6, <1>7, <1>9
  <2>3. R!Without(s, Oldest(a)) = SubSeq(s, 1, MaxSize)
    BY <1>3, <1>5, <2>2, OldestIsLast
  <2>4. R!Truncated(s) = SubSeq(s, 1, MaxSize)
    <3>1. (IF Len(s) < MaxSize THEN Len(s) ELSE MaxSize) = MaxSize
      BY <1>6, <1>7, <1>9
    <3>2. QED BY <3>1 DEF R!Truncated
  <2>5. Listing(R!Without(s, Oldest(a)), cache', access')
    BY <1>3, <1>5, <2>1, WithoutListed
  <2>6. ByRecency' = R!Truncated(s) /\ Listing(ByRecency, cache, access)'
    BY <2>3, <2>4, <2>5, ListedLater
  <2>7. QED BY <2>6 DEF R!Put, s, e
<1>10. QED BY <1>8, <1>9

LEMMA NothingListed ==
    ASSUME NEW c, NEW a, DOMAIN c = {}
    PROVE  Listing(<<>>, c, a)
BY DEF Listing

LEMMA ListStep == ListInv /\ [LNext]_lvars => ListInv' /\ [R!RNext]_<<ByRecency, used>>
<1> SUFFICES ASSUME ListInv, [LNext]_lvars
             PROVE  ListInv' /\ [R!RNext]_<<ByRecency, used>>
  OBVIOUS
<1>1. LInv'
  BY LNextInv DEF ListInv
<1>2. ASSUME NEW at \in 1..MaxTime, NEW k \in Keys, Get(k, at)
      PROVE  ListInv' /\ R!RNext
  <2>1. R!Look(k, at) /\ Listing(ByRecency, cache, access)'
    BY <1>2, GetLooks
  <2>2. used' = at /\ at > used
    BY <1>2, ListInvSays, CacheBounds DEF Get, Reads
  <2>3. QED BY <1>1, <2>1, <2>2 DEF ListInv, R!RNext
<1>3. ASSUME NEW at \in 1..MaxTime, NEW k \in Keys, NEW v \in Values, Set(k, v, at)
      PROVE  ListInv' /\ R!RNext
  <2>1. R!Put(k, v, at) /\ Listing(ByRecency, cache, access)'
    BY <1>3, SetPuts
  <2>2. used' = at /\ at > used
    BY <1>3, ListInvSays, CacheBounds DEF Set, Reads
  <2>3. QED BY <1>1, <2>1, <2>2 DEF ListInv, R!RNext
<1>4. ASSUME NEW at \in 1..MaxTime, Clear(at)
      PROVE  ListInv' /\ R!RNext
  <2>1. cache' = <<>> /\ used' = at /\ at > used
    BY <1>4, ListInvSays, CacheBounds DEF Clear, Reads
  <2>2. DOMAIN cache' = {}
    BY <2>1
  <2>3. ByRecency' = <<>> /\ Listing(ByRecency, cache, access)'
    BY <2>2, NothingListed, ListedLater
  <2>4. QED BY <1>1, <2>1, <2>3 DEF ListInv, R!RNext
<1>5. CASE UNCHANGED lvars
  <2>1. UNCHANGED <<cache, access, used>>
    BY <1>5 DEF lvars
  <2>2. UNCHANGED <<ByRecency, used>>
    BY <2>1 DEF ByRecency
  <2>3. QED BY <1>1, <2>1, <2>2 DEF ListInv
<1>6. QED BY <1>2, <1>3, <1>4, <1>5 DEF LNext

\* The two dictionaries behave as one list by recency of use: a hit is the
\* value set last, and what is evicted the entry whose last use is longest ago.
THEOREM CacheImplementsList == LSpec => IsRecencyList
<1>1. LInit => ListInv /\ R!RInit
  <2> SUFFICES ASSUME LInit PROVE ListInv /\ R!RInit
    OBVIOUS
  <2>1. DOMAIN cache = {} /\ used = 0
    BY DEF LInit
  <2>2. Listing(<<>>, cache, access)
    BY <2>1, NothingListed
  <2>3. ByRecency = <<>>
    BY <2>2, ListingIsList DEF ByRecency
  <2>4. QED BY <2>1, <2>2, <2>3, LInitInv DEF ListInv, R!RInit
<1>2. ListInv /\ [LNext]_lvars => ListInv' /\ [R!RNext]_<<ByRecency, used>>
  BY ListStep
<1>3. QED BY <1>1, <1>2, PTL DEF LSpec, IsRecencyList, R!RSpec

-----------------------------------------------------------------------------
(* The rate limiter                                                        *)

\* What is remembered of a client are places of its admissions, finitely many.
LEMMA RecentIsFinite ==
    ASSUME LimInv, NEW c \in Clients
    PROVE  /\ Recent(c) \subseteq 1..Len(admitted[c])
           /\ IsFiniteSet(Recent(c)) /\ Cardinality(Recent(c)) \in Nat
           /\ admitted[c] \in Seq(Nat) /\ Len(admitted[c]) \in Nat
<1>1. admitted[c] \in Seq(Nat) /\ Len(admitted[c]) \in Nat
  BY DEF LimInv, LimTypeOK
<1>2. Recent(c) \subseteq 1..Len(admitted[c])
  BY DEF LimInv, RecentAreKept, Recent
<1>3. IsFiniteSet(1..Len(admitted[c]))
  BY <1>1, FS_Interval
<1>4. IsFiniteSet(Recent(c))
  BY <1>2, <1>3, FS_Subset
<1>5. QED BY <1>1, <1>2, <1>4, FS_CardinalityType

\* A request within the window is followed by requests within the window only:
\* when one is admitted, fewer than MaxRequests of them are.
LEMMA AdmittedApart ==
    ASSUME LimInv, NEW c \in Clients, Cardinality(Recent(c)) < MaxRequests,
           NEW i \in 1..Len(admitted[c]), i + MaxRequests = Len(admitted[c]) + 1
    PROVE  now - admitted[c][i] >= Window
<1> DEFINE n == Len(admitted[c])
<1>1. /\ MaxRequests \in Nat \ {0} /\ Window \in Nat /\ now \in Nat /\ n \in Nat
      /\ admitted[c] \in Seq(Nat) /\ admitted[c][i] \in Nat
  BY LimitBounds, RecentIsFinite DEF LimInv, LimTypeOK
<1>2. SUFFICES ASSUME admitted[c][i] + Window > now PROVE FALSE
  BY <1>1
<1>3. ASSUME NEW j \in i..n PROVE j \in Recent(c)
  <2>1. j \in 1..n /\ admitted[c][j] \in Nat /\ admitted[c][i] <= admitted[c][j]
    BY <1>1, <1>3 DEF LimInv, AdmittedInOrder
  <2>2. \A x, y, w, t \in Nat : x + w > t /\ x <= y => y + w > t /\ ~(y + w <= t)
    OBVIOUS
  <2>4. admitted[c][j] + Window > now /\ ~(admitted[c][j] + Window <= now)
    BY <1>1, <1>2, <2>1, <2>2
  <2>5. QED BY <2>1, <2>4 DEF LimInv, RecentAreKept, Recent
<1>4. Cardinality(i..n) <= Cardinality(Recent(c))
  BY <1>3, RecentIsFinite, FS_Subset
<1>5. Cardinality(i..n) = MaxRequests
  <2>1. i \in Nat /\ i <= n + 1 /\ n - i + 1 = MaxRequests
    BY <1>1
  <2> HIDE DEF n
  <2>2. QED BY <1>1, <2>1, NumbersBetween
<1>6. QED BY <1>1, <1>4, <1>5, RecentIsFinite

\* A client that is refused has had MaxRequests within the window.
LEMMA RefusedIsFull ==
    ASSUME LimInv, NEW c \in Clients, Cardinality(Recent(c)) >= MaxRequests
    PROVE  \E i \in 1..Len(admitted[c]) :
             /\ i + MaxRequests - 1 <= Len(admitted[c])
             /\ admitted[c][i] + Window > now
             /\ admitted[c][i + MaxRequests - 1] <= now
<1> DEFINE n == Len(admitted[c])
<1>1. MaxRequests \in Nat \ {0} /\ n \in Nat /\ Recent(c) \subseteq 1..n
  BY LimitBounds, RecentIsFinite
<1>2. Recent(c) # {} /\ Recent(c) \subseteq Nat
  BY <1>1, FS_EmptySet
<1>3. PICK i \in Recent(c) : \A j \in Recent(c) : i <= j
  BY <1>2, LeastTime
<1>4. Recent(c) \subseteq i..n /\ i \in 1..n
  BY <1>1, <1>3
<1>5. Cardinality(Recent(c)) <= n - i + 1
  <2>1. i \in Nat /\ i <= n + 1
    BY <1>1, <1>4
  <2> HIDE DEF n
  <2>2. IsFiniteSet(i..n) /\ Cardinality(i..n) = n - i + 1
    BY <1>1, <2>1, NumbersBetween
  <2>3. QED BY <1>4, <2>2, FS_Subset
<1>6. i + MaxRequests - 1 <= n /\ i + MaxRequests - 1 \in 1..n
  BY <1>1, <1>4, <1>5, RecentIsFinite
<1>7. admitted[c][i] + Window > now /\ admitted[c][i + MaxRequests - 1] <= now
  BY <1>3, <1>6 DEF Recent, LimInv, AdmittedInOrder
<1>8. QED BY <1>4, <1>6, <1>7

LEMMA AdmitKeepsInv ==
    ASSUME LimInv, NEW c \in Clients, Admit(c)
    PROVE  LimInv'
<1> DEFINE n == Len(admitted[c])  new == Append(admitted[c], now)
<1>1. /\ n \in Nat /\ admitted[c] \in Seq(Nat) /\ now \in Nat
      /\ MaxRequests \in Nat \ {0} /\ Window \in Nat \ {0}
      /\ stamps \in [Clients -> SUBSET (Nat \ {0})]
      /\ admitted \in [Clients -> Seq(Nat)]
  BY LimitBounds, RecentIsFinite DEF LimInv, LimTypeOK
<1>2. /\ Cardinality(Recent(c)) < MaxRequests
      /\ stamps' = [stamps EXCEPT ![c] = Recent(c) \cup {n + 1}]
      /\ admitted' = [admitted EXCEPT ![c] = new]
      /\ UNCHANGED <<refused, now>>
  BY DEF Admit
<1>3. /\ new \in Seq(Nat) /\ Len(new) = n + 1 /\ new[n + 1] = now
      /\ \A i \in 1..n : new[i] = admitted[c][i]
  BY <1>1
<1> HIDE DEF new
<1>4. /\ admitted'[c] = new /\ stamps'[c] = Recent(c) \cup {n + 1}
      /\ \A d \in Clients \ {c} : admitted'[d] = admitted[d] /\ stamps'[d] = stamps[d]
  BY <1>1, <1>2
<1>5. LimTypeOK'
  <2>1. Recent(c) \cup {n + 1} \subseteq Nat \ {0}
    BY <1>1, RecentIsFinite
  <2>2. QED BY <1>1, <1>2, <1>3, <2>1 DEF LimInv, LimTypeOK
<1>6. AdmittedInOrder'
  <2>1. ASSUME NEW i \in 1..(n+1), NEW j \in 1..(n+1), i <= j
        PROVE  new[i] <= new[j] /\ new[j] <= now
    <3>1. CASE j \in 1..n
      <4>1. i \in 1..n
        BY <1>1, <2>1, <3>1
      <4>2. admitted[c][i] <= admitted[c][j] /\ admitted[c][j] <= now
        BY <2>1, <3>1, <4>1 DEF LimInv, AdmittedInOrder
      <4>3. QED BY <1>3, <3>1, <4>1, <4>2
    <3>2. CASE j = n + 1 /\ i \in 1..n
      BY <1>1, <1>3, <2>1, <3>2 DEF LimInv, AdmittedInOrder
    <3>3. CASE j = n + 1 /\ i = n + 1
      BY <1>1, <1>3, <3>3
    <3>4. QED BY <1>1, <2>1, <3>1, <3>2, <3>3
  <2>2. QED BY <1>2, <1>3, <1>4, <2>1 DEF LimInv, AdmittedInOrder
<1>7. RecentAreKept'
  <2>1. Recent(c) \cup {n + 1} \subseteq 1..(n + 1)
    BY <1>1, RecentIsFinite
  <2>2. ASSUME NEW i \in 1..(n+1)
        PROVE  i \in Recent(c) \cup {n + 1} \/ new[i] + Window <= now
    <3>1. CASE i \in 1..n
      <4>1. admitted[c][i] \in Nat
        BY <1>1, <3>1
      <4>2. QED BY <1>1, <1>3, <3>1, <4>1 DEF LimInv, RecentAreKept, Recent
    <3>2. QED BY <1>1, <2>2, <3>1
  <2>3. QED BY <1>2, <1>3, <1>4, <2>1, <2>2 DEF LimInv, RecentAreKept
<1>8. LimitHolds'
  <2>1. ASSUME NEW i \in 1..(n+1), i + MaxRequests <= n + 1
        PROVE  new[i + MaxRequests] - new[i] >= Window
    <3>1. i \in 1..n
      BY <1>1, <2>1
    <3>2. CASE i + MaxRequests <= n
      <4>1. i + MaxRequests \in 1..n
        BY <1>1, <3>1, <3>2
      <4>2. QED BY <1>3, <3>1, <3>2, <4>1 DEF LimInv, LimitIsExact, LimitHolds
    <3>3. CASE i + MaxRequests = n + 1
      <4>1. now - admitted[c][i] >= Window
        BY <1>2, <3>1, <3>3, AdmittedApart
      <4>2. new[i + MaxRequests] = now /\ new[i] = admitted[c][i]
        BY <1>3, <3>1, <3>3
      <4>3. QED BY <4>1, <4>2
    <3>4. i + MaxRequests <= n \/ i + MaxRequests = n + 1
      <4>1. \A x, y \in Nat : x <= y + 1 => x <= y \/ x = y + 1
        OBVIOUS
      <4>2. i + MaxRequests \in Nat
        BY <1>1, <3>1
      <4>3. QED BY <1>1, <2>1, <4>1, <4>2
    <3>5. QED BY <3>2, <3>3, <3>4
  <2>2. QED BY <1>3, <1>4, <2>1 DEF LimInv, LimitIsExact, LimitHolds
<1>9. RefusedWhenFull'
  <2>1. SUFFICES ASSUME refused # NobodyYet
                 PROVE  LET d == refused[1]  t == refused[2] IN
                        \E i \in 1..Len(admitted'[d]) :
                          /\ i + MaxRequests - 1 <= Len(admitted'[d])
                          /\ admitted'[d][i] + Window > t
                          /\ admitted'[d][i + MaxRequests - 1] <= t
    BY <1>2 DEF RefusedWhenFull
  <2> DEFINE d == refused[1]  t == refused[2]
  <2>2. d \in Clients
    BY <2>1 DEF LimInv, LimTypeOK
  <2>3. PICK i \in 1..Len(admitted[d]) :
          /\ i + MaxRequests - 1 <= Len(admitted[d])
          /\ admitted[d][i] + Window > t /\ admitted[d][i + MaxRequests - 1] <= t
    BY <2>1 DEF LimInv, LimitIsExact, RefusedWhenFull
  <2> HIDE DEF d, t
  <2>4. CASE d = c
    <3>1. i \in 1..n /\ i + MaxRequests - 1 \in 1..n
      BY <1>1, <2>3, <2>4
    <3>2. /\ i \in 1..Len(new) /\ i + MaxRequests - 1 <= Len(new)
          /\ new[i] = admitted[d][i]
          /\ new[i + MaxRequests - 1] = admitted[d][i + MaxRequests - 1]
      <4> DEFINE last == i + MaxRequests - 1
      <4>1. last \in 1..n
        BY <3>1
      <4>2. new[last] = admitted[c][last] /\ new[i] = admitted[c][i]
        BY <1>3, <3>1, <4>1
      <4>3. i \in 1..Len(new) /\ last <= Len(new)
        BY <1>1, <1>3, <3>1, <4>1
      <4>4. QED BY <2>4, <4>2, <4>3
    <3>3. /\ i \in 1..Len(admitted'[d]) /\ i + MaxRequests - 1 <= Len(admitted'[d])
          /\ admitted'[d][i] + Window > t /\ admitted'[d][i + MaxRequests - 1] <= t
      BY <1>4, <2>3, <2>4, <3>2
    <3>4. QED BY <3>3 DEF d, t
  <2>5. CASE d # c
    BY <1>4, <2>2, <2>3, <2>5 DEF d, t
  <2>6. QED BY <2>4, <2>5
<1>10. QED BY <1>5, <1>6, <1>7, <1>8, <1>9 DEF LimInv, LimitIsExact

LEMMA RefuseKeepsInv ==
    ASSUME LimInv, NEW c \in Clients, Refuse(c)
    PROVE  LimInv'
<1>1. /\ Cardinality(Recent(c)) >= MaxRequests
      /\ stamps' = [stamps EXCEPT ![c] = Recent(c)]
      /\ refused' = <<c, now>> /\ UNCHANGED <<admitted, now>>
  BY DEF Refuse
<1>2. /\ stamps \in [Clients -> SUBSET (Nat \ {0})] /\ now \in Nat
      /\ admitted[c] \in Seq(Nat) /\ Window \in Nat
  BY LimitBounds DEF LimInv, LimTypeOK
<1>3. stamps'[c] = Recent(c) /\ \A d \in Clients \ {c} : stamps'[d] = stamps[d]
  BY <1>1, <1>2
<1>4. LimTypeOK'
  <2>1. Recent(c) \subseteq Nat \ {0}
    BY <1>2 DEF Recent
  <2>2. QED BY <1>1, <1>2, <2>1 DEF LimInv, LimTypeOK
<1>5. AdmittedInOrder' /\ LimitHolds'
  BY <1>1 DEF LimInv, LimitIsExact, AdmittedInOrder, LimitHolds
<1>6. RecentAreKept'
  <2>1. ASSUME NEW i \in 1..Len(admitted[c])
        PROVE  i \in Recent(c) \/ admitted[c][i] + Window <= now
    <3>1. admitted[c][i] \in Nat
      BY <1>2
    <3>2. QED BY <1>2, <3>1 DEF LimInv, RecentAreKept, Recent
  <2>2. QED BY <1>1, <1>3, <2>1, RecentIsFinite DEF LimInv, RecentAreKept
<1>7. RefusedWhenFull'
  BY <1>1, RefusedIsFull DEF RefusedWhenFull
<1>8. QED BY <1>4, <1>5, <1>6, <1>7 DEF LimInv, LimitIsExact

LEMMA PassesKeepsInv ==
    ASSUME LimInv, Passes
    PROVE  LimInv'
<1>1. /\ now \in Nat /\ now' = now + 1 /\ UNCHANGED <<stamps, admitted, refused>>
      /\ Window \in Nat
  BY LimitBounds DEF LimInv, LimTypeOK, Passes
<1>2. \A c \in Clients : admitted[c] \in Seq(Nat)
  BY DEF LimInv, LimTypeOK
<1>3. \A c \in Clients : \A i \in 1..Len(admitted[c]) : admitted[c][i] \in Nat
  BY <1>2
<1>4. LimTypeOK'
  BY <1>1 DEF LimInv, LimTypeOK
<1>5. AdmittedInOrder' /\ RecentAreKept'
  BY <1>1, <1>3 DEF LimInv, AdmittedInOrder, RecentAreKept
<1>6. LimitHolds' /\ RefusedWhenFull'
  BY <1>1 DEF LimInv, LimitIsExact, LimitHolds, RefusedWhenFull
<1>7. QED BY <1>4, <1>5, <1>6 DEF LimInv, LimitIsExact

THEOREM LimiterInvariant == LimSpec => []LimInv
<1>1. LimInit => LimInv
  <2> SUFFICES ASSUME LimInit PROVE LimInv
    OBVIOUS
  <2>1. \A c \in Clients : stamps[c] = {} /\ Len(admitted[c]) = 0
    BY DEF LimInit
  <2>2. LimTypeOK
    BY DEF LimInit, LimTypeOK
  <2>3. AdmittedInOrder /\ RecentAreKept /\ LimitHolds
    BY <2>1 DEF AdmittedInOrder, RecentAreKept, LimitHolds
  <2>4. RefusedWhenFull
    BY DEF LimInit, RefusedWhenFull
  <2>5. QED BY <2>2, <2>3, <2>4 DEF LimInv, LimitIsExact
<1>2. LimInv /\ [LimNext]_limvars => LimInv'
  <2> SUFFICES ASSUME LimInv, [LimNext]_limvars PROVE LimInv'
    OBVIOUS
  <2>1. CASE UNCHANGED limvars
    BY <2>1 DEF limvars, LimInv, LimTypeOK, AdmittedInOrder, RecentAreKept,
                LimitIsExact, LimitHolds, RefusedWhenFull
  <2>2. QED
    BY <2>1, AdmitKeepsInv, RefuseKeepsInv, PassesKeepsInv DEF LimNext
<1>3. QED BY <1>1, <1>2, PTL DEF LimSpec

\* RateLimiter.check lets no more than max_requests of a client through in any
\* window, and refuses none that is below them.
THEOREM LimitIsAlwaysExact == LimSpec => []LimitIsExact
BY LimiterInvariant, PTL DEF LimInv

-----------------------------------------------------------------------------
(* The notification sockets                                                *)

\* A table with the set under one user replaced is a table, and has the
\* others' sets as before.
LEMMA UnderIsTable ==
    ASSUME WTypeOK, NEW u \in Users, NEW set \in SUBSET Sockets, table' = Under(u, set)
    PROVE  /\ DOMAIN table' = DOMAIN table \cup {u} /\ DOMAIN table' \subseteq Users
           /\ table' \in [DOMAIN table' -> SUBSET Sockets]
           /\ \A v \in DOMAIN table' : table'[v] = IF v = u THEN set ELSE table[v]
BY DEF WTypeOK, Under

\* TableFollowsHandlers by the sets alone.
LEMMA FollowsByOf ==
    ASSUME WTypeOK
    PROVE  TableFollowsHandlers <=>
             \A w \in Sockets :
               /\ handler[w] = "looping" /\ w \notin left => w \in Of(owner[w])
               /\ \A u \in Users : w \in Of(u) => handler[w] = "looping" /\ owner[w] = u
BY DEF WTypeOK, TableFollowsHandlers, Of

LEMMA FollowsByOfLater ==
    ASSUME WTypeOK'
    PROVE  TableFollowsHandlers' <=>
             \A w \in Sockets :
               /\ handler'[w] = "looping" /\ w \notin left' => w \in Of(owner[w])'
               /\ \A u \in Users : w \in Of(u)' => handler'[w] = "looping" /\ owner'[w] = u
BY DEF WTypeOK, TableFollowsHandlers, Of

LEMMA WithoutIsTable ==
    ASSUME WTypeOK, NEW u, table' = [v \in DOMAIN table \ {u} |-> table[v]]
    PROVE  /\ DOMAIN table' = DOMAIN table \ {u} /\ DOMAIN table' \subseteq Users
           /\ table' \in [DOMAIN table' -> SUBSET Sockets]
           /\ \A v \in DOMAIN table' : table'[v] = table[v]
BY DEF WTypeOK

LEMMA WInitInv == WInit => WInv
<1> SUFFICES ASSUME WInit PROVE WInv
  OBVIOUS
<1>1. DOMAIN table = {} /\ table = [u \in {} |-> table[u]]
  BY DEF WInit
<1>2. WTypeOK
  BY <1>1 DEF WInit, WTypeOK, Handler, NotSent
<1>3. TableFollowsHandlers /\ SendsAreOfUser
  BY <1>1 DEF WInit, TableFollowsHandlers, SendsAreOfUser, Open, NotSent
<1>4. QED BY <1>2, <1>3 DEF WInv


\* A handler moves on, or its client leaves: table and sends as they are.
LEMMA HandshakeKeepsInv ==
    ASSUME WInv, NEW w \in Sockets, NEW u \in Users, Handshake(w, u)
    PROVE  WInv'
<1>1. WTypeOK'
  BY DEF WInv, WTypeOK, Handshake, Handler
<1>2. TableFollowsHandlers'
  BY DEF WInv, WTypeOK, TableFollowsHandlers, SendsAreOfUser, Open, Handshake, Of
<1>3. SendsAreOfUser'
  BY NobodyIsNoUser DEF WInv, WTypeOK, SendsAreOfUser, Open, Handshake
<1>4. QED BY <1>1, <1>2, <1>3 DEF WInv

LEMMA LeavingKeepsInv ==
    ASSUME WInv, NEW w \in Sockets, AcceptFails(w) \/ ClientLeaves(w)
    PROVE  WInv'
<1>1. WTypeOK'
  BY DEF WInv, WTypeOK, AcceptFails, ClientLeaves, Handler
<1>2. TableFollowsHandlers'
  BY DEF WInv, WTypeOK, TableFollowsHandlers, AcceptFails, ClientLeaves, Of
<1>3. SendsAreOfUser'
  BY DEF WInv, WTypeOK, SendsAreOfUser, Open, AcceptFails, ClientLeaves
<1>4. QED BY <1>1, <1>2, <1>3 DEF WInv

LEMMA ConnectKeepsInv ==
    ASSUME WInv, NEW w \in Sockets, Connect(w)
    PROVE  WInv'
<1> DEFINE u == owner[w]  set == Of(owner[w]) \cup {w}
<1>1. u \in Users
  BY DEF WInv, WTypeOK, SendsAreOfUser, Open, Connect
<1>2. set \in SUBSET Sockets /\ table' = Under(u, set) /\ WTypeOK
  BY DEF WInv, WTypeOK, Connect, Of
<1>3. set = Of(u) \cup {w}
  OBVIOUS
<1> HIDE DEF set, u
<1>4. /\ DOMAIN table' = DOMAIN table \cup {u} /\ DOMAIN table' \subseteq Users
      /\ table' \in [DOMAIN table' -> SUBSET Sockets]
      /\ \A v \in DOMAIN table' : table'[v] = IF v = u THEN set ELSE table[v]
  BY <1>1, <1>2, UnderIsTable
<1>5. WTypeOK'
  BY <1>4 DEF WInv, WTypeOK, Connect, Handler
<1>6. TableFollowsHandlers'
  <2>1. \A v \in Users : Of(v)' = IF v = u THEN Of(u) \cup {w} ELSE Of(v)
    BY <1>3, <1>4 DEF Of
  <2>2. \A v \in Sockets : /\ owner'[v] = owner[v] /\ owner[w] = u
                           /\ handler'[v] = IF v = w THEN "looping" ELSE handler[v]
    BY DEF WInv, WTypeOK, Connect, u
  <2>3. left' = left /\ handler[w] # "looping" /\ owner' = owner
    BY DEF Connect
  <2>4. \A v \in Sockets : v \notin left /\ handler[v] = "looping" => v \in Of(owner[v])
    BY DEF WInv, TableFollowsHandlers
  <2>5. \A v \in Sockets, t \in Users : v \in Of(t) => handler[v] = "looping" /\ owner[v] = t
    BY FollowsByOf DEF WInv
  <2>6. \A v \in Sockets : handler[v] = "looping" => owner[v] \in Users
    BY NobodyIsNoUser DEF WInv, WTypeOK, SendsAreOfUser, Open
  <2>7. ASSUME NEW v \in Sockets, handler'[v] = "looping", v \notin left'
        PROVE  v \in Of(owner[v])'
    BY <1>1, <2>1, <2>2, <2>3, <2>4, <2>6, <2>7 DEF Of
  <2>8. ASSUME NEW v \in Sockets, NEW t \in Users, v \in Of(t)'
        PROVE  handler'[v] = "looping" /\ owner'[v] = t
    BY <2>1, <2>2, <2>5, <2>8
  <2>9. QED BY <1>5, <2>7, <2>8, FollowsByOfLater
<1>7. SendsAreOfUser'
  BY DEF WInv, WTypeOK, SendsAreOfUser, Open, Connect
<1>8. QED BY <1>5, <1>6, <1>7 DEF WInv

LEMMA DisconnectKeepsInv ==
    ASSUME WInv, NEW w \in Sockets, Disconnect(w)
    PROVE  WInv'
<1> DEFINE u == owner[w]  others == Of(owner[w]) \ {w}
<1>1. u \in Users
  BY DEF WInv, WTypeOK, SendsAreOfUser, Open, Disconnect
<1>2. others \in SUBSET Sockets /\ WTypeOK /\ others = Of(u) \ {w}
  BY DEF WInv, WTypeOK, Of
<1>3. table' = IF others = {} THEN [v \in DOMAIN table \ {u} |-> table[v]]
                              ELSE Under(u, others)
  BY DEF Disconnect
<1> HIDE DEF others
\* A user without a key has no socket, and neither has one with an empty set.
<1>4. /\ DOMAIN table' \subseteq Users /\ table' \in [DOMAIN table' -> SUBSET Sockets]
      /\ DOMAIN table' = IF others = {} THEN DOMAIN table \ {u} ELSE DOMAIN table \cup {u}
      /\ \A v \in DOMAIN table' : table'[v] = IF v = u THEN others ELSE table[v]
  <2>1. CASE others = {}
    BY <1>2, <1>3, <2>1, WithoutIsTable
  <2>2. CASE others # {}
    BY <1>1, <1>2, <1>3, <2>2, UnderIsTable
  <2>3. QED BY <2>1, <2>2
<1>5. WTypeOK'
  BY <1>4 DEF WInv, WTypeOK, Disconnect, Handler
<1>6. TableFollowsHandlers'
  <2>1. \A v \in Users : Of(v)' = IF v = u THEN Of(u) \ {w} ELSE Of(v)
    BY <1>2, <1>4 DEF Of
  <2>2. \A v \in Sockets : /\ owner'[v] = owner[v] /\ owner[w] = u
                           /\ handler'[v] = IF v = w THEN "ended" ELSE handler[v]
    BY DEF WInv, WTypeOK, Disconnect, u
  <2>3. left' = left /\ owner' = owner
    BY DEF Disconnect
  <2>4. \A v \in Sockets : v \notin left /\ handler[v] = "looping" => v \in Of(owner[v])
    BY DEF WInv, TableFollowsHandlers
  <2>5. \A v \in Sockets, t \in Users : v \in Of(t) => handler[v] = "looping" /\ owner[v] = t
    BY FollowsByOf DEF WInv
  <2>6. \A v \in Sockets : handler[v] = "looping" => owner[v] \in Users
    BY NobodyIsNoUser DEF WInv, WTypeOK, SendsAreOfUser, Open
  <2>7. ASSUME NEW v \in Sockets, handler'[v] = "looping", v \notin left'
        PROVE  v \in Of(owner[v])'
    BY <2>1, <2>2, <2>3, <2>4, <2>6, <2>7 DEF Of
  <2>8. ASSUME NEW v \in Sockets, NEW t \in Users, v \in Of(t)'
        PROVE  handler'[v] = "looping" /\ owner'[v] = t
    BY <2>1, <2>2, <2>5, <2>8
  <2>9. QED BY <1>5, <2>7, <2>8, FollowsByOfLater
<1>7. SendsAreOfUser'
  BY DEF WInv, WTypeOK, SendsAreOfUser, Open, Disconnect
<1>8. QED BY <1>5, <1>6, <1>7 DEF WInv

LEMMA SendBeginsKeepsInv ==
    ASSUME WInv, NEW x \in Sends, NEW u \in Users, SendBegins(x, u)
    PROVE  WInv'
<1> DEFINE s == [stage |-> IF Of(u) = {} THEN "done" ELSE "sending",
                 user |-> u, all |-> Of(u), rest |-> Of(u)]
<1>1. Of(u) \in SUBSET Sockets
  BY DEF WInv, WTypeOK, Of
<1>2. /\ s \in [stage : {"idle", "sending", "done"}, user : Users \cup {Nobody},
                all : SUBSET Sockets, rest : SUBSET Sockets]
      /\ s.user = u /\ s.all = Of(u) /\ s.rest = Of(u)
      /\ s.rest # {} <=> s.stage = "sending"
  BY <1>1
<1>3. send' = [send EXCEPT ![x] = s]
  BY DEF SendBegins
<1> HIDE DEF s
<1>4. send' \in [Sends -> [stage : {"idle", "sending", "done"}, user : Users \cup {Nobody},
                           all : SUBSET Sockets, rest : SUBSET Sockets]]
  BY <1>2, <1>3 DEF WInv, WTypeOK
<1>5. WTypeOK'
  BY <1>4 DEF WInv, WTypeOK, SendBegins
<1>6. TableFollowsHandlers'
  BY DEF WInv, TableFollowsHandlers, SendBegins, Of
<1>7. \A w \in Of(u) : handler[w] = "looping" /\ owner[w] = u
  BY DEF WInv, WTypeOK, TableFollowsHandlers, Of
<1>8. SendsAreOfUser'
  BY <1>1, <1>2, <1>3, <1>7 DEF WInv, WTypeOK, SendsAreOfUser, Open, SendBegins
<1>9. QED BY <1>5, <1>6, <1>8 DEF WInv

\* What a round of a send leaves of it.
LEMMA OnwardIsSend ==
    ASSUME WInv, NEW x \in Sends, NEW w \in send[x].rest, send' = Onward(x, w)
    PROVE  /\ send' \in [Sends -> [stage : {"idle", "sending", "done"},
                                   user : Users \cup {Nobody},
                                   all : SUBSET Sockets, rest : SUBSET Sockets]]
           /\ \A y \in Sends : /\ send'[y].user = send[y].user /\ send'[y].all = send[y].all
                               /\ y # x => send'[y] = send[y]
           /\ send'[x].rest = send[x].rest \ {w}
           /\ send'[x].rest # {} <=> send'[x].stage = "sending"
           /\ w \in Sockets /\ w \in send[x].all /\ send[x].user \in Users
<1>1. /\ send \in [Sends -> [stage : {"idle", "sending", "done"}, user : Users \cup {Nobody},
                             all : SUBSET Sockets, rest : SUBSET Sockets]]
      /\ send[x].rest \subseteq send[x].all /\ send[x].stage = "sending"
  BY DEF WInv, WTypeOK, SendsAreOfUser, Open
<1>2. w \in Sockets /\ w \in send[x].all
  BY <1>1
<1>3. send[x].user \in Users
  BY <1>2 DEF WInv, WTypeOK, SendsAreOfUser, Open
<1>4. QED BY <1>1, <1>2, <1>3 DEF Onward

LEMMA SentKeepsInv ==
    ASSUME WInv, NEW x \in Sends, NEW w \in Sockets, Sent(x, w)
    PROVE  WInv'
<1>1. w \in send[x].rest /\ send' = Onward(x, w)
  BY DEF Sent
<1>2. /\ send' \in [Sends -> [stage : {"idle", "sending", "done"}, user : Users \cup {Nobody},
                              all : SUBSET Sockets, rest : SUBSET Sockets]]
      /\ \A y \in Sends : /\ send'[y].user = send[y].user /\ send'[y].all = send[y].all
                          /\ y # x => send'[y] = send[y]
      /\ send'[x].rest = send[x].rest \ {w}
      /\ send'[x].rest # {} <=> send'[x].stage = "sending"
  BY <1>1, OnwardIsSend
<1>3. WTypeOK'
  BY <1>2 DEF WInv, WTypeOK, Sent
<1>4. TableFollowsHandlers'
  BY DEF WInv, TableFollowsHandlers, Sent, Of
<1>5. SendsAreOfUser'
  BY <1>2 DEF WInv, WTypeOK, SendsAreOfUser, Open, Sent
<1>6. QED BY <1>3, <1>4, <1>5 DEF WInv

LEMMA SendFailsKeepsInv ==
    ASSUME WInv, NEW x \in Sends, NEW w \in Sockets, SendFails(x, w)
    PROVE  WInv'
<1> DEFINE u == send[x].user  set == Of(send[x].user) \ {w}
<1>1. w \in send[x].rest /\ send' = Onward(x, w)
  BY DEF SendFails
<1>2. /\ send' \in [Sends -> [stage : {"idle", "sending", "done"}, user : Users \cup {Nobody},
                              all : SUBSET Sockets, rest : SUBSET Sockets]]
      /\ \A y \in Sends : /\ send'[y].user = send[y].user /\ send'[y].all = send[y].all
                          /\ y # x => send'[y] = send[y]
      /\ send'[x].rest = send[x].rest \ {w}
      /\ send'[x].rest # {} <=> send'[x].stage = "sending"
      /\ u \in Users
  BY <1>1, OnwardIsSend
<1>3. set \in SUBSET Sockets /\ WTypeOK /\ set = Of(u) \ {w} /\ table' = Under(u, set)
  BY DEF WInv, WTypeOK, Of, SendFails
<1> HIDE DEF set, u
<1>4. /\ DOMAIN table' = DOMAIN table \cup {u} /\ DOMAIN table' \subseteq Users
      /\ table' \in [DOMAIN table' -> SUBSET Sockets]
      /\ \A v \in DOMAIN table' : table'[v] = IF v = u THEN set ELSE table[v]
  BY <1>2, <1>3, UnderIsTable
<1>5. WTypeOK'
  BY <1>2, <1>4 DEF WInv, WTypeOK, SendFails
<1>6. TableFollowsHandlers'
  <2>1. \A v \in Users : Of(v)' = IF v = u THEN Of(u) \ {w} ELSE Of(v)
    BY <1>3, <1>4 DEF Of
  <2>2. (w \in left \/ handler[w] = "ended") /\ UNCHANGED <<owner, handler, left>>
    BY DEF SendFails
  <2>3. \A v \in Sockets : v \notin left /\ handler[v] = "looping" => v \in Of(owner[v])
    BY DEF WInv, TableFollowsHandlers
  <2>4. \A v \in Sockets, t \in Users : v \in Of(t) => handler[v] = "looping" /\ owner[v] = t
    BY FollowsByOf DEF WInv
  <2>5. \A v \in Sockets : handler[v] = "looping" => owner[v] \in Users
    BY NobodyIsNoUser DEF WInv, WTypeOK, SendsAreOfUser, Open
  <2>6. ASSUME NEW v \in Sockets, handler'[v] = "looping", v \notin left'
        PROVE  v \in Of(owner[v])'
    BY <2>1, <2>2, <2>3, <2>5, <2>6 DEF Of
  <2>7. ASSUME NEW v \in Sockets, NEW t \in Users, v \in Of(t)'
        PROVE  handler'[v] = "looping" /\ owner'[v] = t
    BY <2>1, <2>2, <2>4, <2>7
  <2>8. QED BY <1>5, <2>6, <2>7, FollowsByOfLater
<1>7. SendsAreOfUser'
  BY <1>2 DEF WInv, WTypeOK, SendsAreOfUser, Open, SendFails
<1>8. QED BY <1>5, <1>6, <1>7 DEF WInv

LEMMA WNextInv ==
    ASSUME WInv, [WNext]_wvars
    PROVE  WInv'
<1>1. ASSUME NEW w \in Sockets, NEW u \in Users, Handshake(w, u) PROVE WInv'
  BY <1>1, HandshakeKeepsInv
<1>2. ASSUME NEW w \in Sockets, AcceptFails(w) \/ ClientLeaves(w) PROVE WInv'
  BY <1>2, LeavingKeepsInv
<1>3. ASSUME NEW w \in Sockets, Connect(w) PROVE WInv'
  BY <1>3, ConnectKeepsInv
<1>4. ASSUME NEW w \in Sockets, Disconnect(w) PROVE WInv'
  BY <1>4, DisconnectKeepsInv
<1>5. ASSUME NEW x \in Sends, NEW u \in Users, SendBegins(x, u) PROVE WInv'
  BY <1>5, SendBeginsKeepsInv
<1>6. ASSUME NEW x \in Sends, NEW w \in Sockets, Sent(x, w) PROVE WInv'
  BY <1>6, SentKeepsInv
<1>7. ASSUME NEW x \in Sends, NEW w \in Sockets, SendFails(x, w) PROVE WInv'
  BY <1>7, SendFailsKeepsInv
<1>8. CASE UNCHANGED wvars
  <2>1. UNCHANGED <<table, owner, handler, left, send, reached>>
    BY <1>8 DEF wvars
  <2>2. WTypeOK' /\ TableFollowsHandlers' /\ SendsAreOfUser'
    BY <2>1 DEF WInv, WTypeOK, TableFollowsHandlers, SendsAreOfUser, Open, Of
  <2>3. QED BY <2>2 DEF WInv
<1>9. QED BY <1>1, <1>2, <1>3, <1>4, <1>5, <1>6, <1>7, <1>8 DEF WNext

\* The sockets registered, the handlers and the sends under way always agree.
THEOREM SocketsInvariant == WSpec => []WInv
<1>1. WInit => WInv
  BY WInitInv
<1>2. WInv /\ [WNext]_wvars => WInv'
  BY WNextInv
<1>3. QED BY <1>1, <1>2, PTL DEF WSpec

\* ConnectionManager: the table holds every open socket under its own user,
\* and none whose handler has ended, by whatever exception, and whatever sends
\* discard meanwhile.
THEOREM TableAlwaysFollows == WSpec => []TableFollowsHandlers
<1>1. WInv => TableFollowsHandlers
  BY DEF WInv
<1>2. QED BY <1>1, SocketsInvariant, PTL

\* send_to_user: when a call ends, every socket the user had when it began and
\* that is still open, its handler looping and its client there, has been sent
\* the message.
THEOREM SendsReachAll == WSpec => []SendReachesAll
<1>1. WInv => SendReachesAll
  BY DEF WInv, SendsAreOfUser, Open, SendReachesAll
<1>2. QED BY <1>1, SocketsInvariant, PTL
=============================================================================
