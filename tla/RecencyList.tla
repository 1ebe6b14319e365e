----------------------------- MODULE RecencyList -----------------------------
(***************************************************************************)
(* What a least-recently-used cache promises: it is a list of entries, the *)
(* one used last in front, no longer than its capacity.                    *)
(***************************************************************************)
EXTENDS Naturals, Sequences

CONSTANTS Keys, Values, MaxSize, Ttl

VARIABLES
    entries,   \* sequence of [key, value, since], each key at most once
    time       \* when the cache was last used

\* s without the entry of key k, if it has one.
Without(s, k) ==
    LET found == {i \in 1..Len(s) : s[i].key = k}
        p == CHOOSE i \in found : TRUE IN
    IF found = {} THEN s
    ELSE [i \in 1..(Len(s) - 1) |-> IF i < p THEN s[i] ELSE s[i + 1]]

Truncated(s) == SubSeq(s, 1, IF Len(s) < MaxSize THEN Len(s) ELSE MaxSize)

RInit == entries = <<>> /\ time = 0

\* A use puts the entry in front; what falls off the end is forgotten.
Put(k, v, t) ==
    entries' = Truncated(<<[key |-> k, value |-> v, since |-> t]>> \o Without(entries, k))

Use(e) == entries' = <<e>> \o Without(entries, e.key)

\* An entry older than Ttl is not found, and dropped.
Expired(e, t) == Ttl > 0 /\ t - e.since > Ttl

Look(k, t) ==
    LET found == {i \in 1..Len(entries) : entries[i].key = k} IN
    \/ found = {} /\ UNCHANGED entries
    \/ \E i \in found : IF Expired(entries[i], t) THEN entries' = Without(entries, k)
                                                  ELSE Use(entries[i])

RNext ==
    /\ time' > time
    /\ \/ \E k \in Keys, v \in Values : Put(k, v, time')
       \/ \E k \in Keys : Look(k, time')
       \/ entries' = <<>>

RSpec == RInit /\ [][RNext]_<<entries, time>>
=============================================================================
