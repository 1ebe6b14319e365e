------------------------------ MODULE SaveQueue ------------------------------
(***************************************************************************)
(* What WriteCoalescer (backend/cache.py) promises its callers, without    *)
(* timers, threads or locks: a session handed to mark_dirty stays          *)
(* outstanding until save_fn has been called for it, and nothing but the   *)
(* death of the process makes it forgotten.                                *)
(***************************************************************************)
EXTENDS Naturals

CONSTANT Sessions     \* session identifiers

VARIABLES
    pending,          \* the sessions with an outstanding request to save
    process           \* the process that holds them: 0, the next one 1, 0, ...

QInit == pending = {} /\ process = 0

\* A caller asks for s to be saved.
Request(s) == /\ pending' = pending \cup {s}
              /\ UNCHANGED process

\* save_fn(s) returned.  Another request for s may have arrived since this
\* one was taken, and then s stays outstanding.
Save(s) == /\ s \in pending
           /\ pending' \in {pending, pending \ {s}}
           /\ UNCHANGED process

\* The process dies: the requests lived in its memory.
Lose == pending' = {} /\ process' = 1 - process

QNext == \/ \E s \in Sessions : Request(s) \/ Save(s)
         \/ Lose

QSpec == QInit /\ [][QNext]_<<pending, process>>
=============================================================================
