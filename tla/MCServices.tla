----------------------------- MODULE MCServices -----------------------------
(***************************************************************************)
(* WriteCoalescer, LRUCache, RateLimiter and Sockets for TLC.  They share  *)
(* no state, so a behaviour takes the steps of one of them, `part', and    *)
(* the others stay in their initial state.                                 *)
(*                                                                         *)
(* Three sessions, a threshold of three and two Timer threads let a Timer  *)
(* that has fired and one that is armed coexist with a nested flush of the *)
(* event loop; three keys in a cache of two, and a lifetime of two, let    *)
(* eviction and expiry meet; a send to a user with up to three sockets     *)
(* overlaps with the sockets coming and going.                             *)
(***************************************************************************)
EXTENDS WriteCoalescer, LRUCache, RateLimiter, Sockets

VARIABLE part

mvars == <<cvars, lvars, limvars, wvars, part>>

MInit ==
    /\ part \in {"coalescer", "cache", "limiter", "sockets"}
    /\ CInit /\ LInit /\ LimInit /\ WInit

MNext ==
    /\ UNCHANGED part
    /\ \/ part = "coalescer" /\ CNext /\ UNCHANGED <<lvars, limvars, wvars>>
       \/ part = "cache" /\ LNext /\ UNCHANGED <<cvars, limvars, wvars>>
       \/ part = "limiter" /\ LimNext /\ UNCHANGED <<cvars, lvars, wvars>>
       \/ part = "sockets" /\ WNext /\ UNCHANGED <<cvars, lvars, limvars>>

MSpec == MInit /\ [][MNext]_mvars
=============================================================================
