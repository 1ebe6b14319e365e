-------------------------- MODULE MCSessionMemory --------------------------
(***************************************************************************)
(* SessionMemory for TLC: two sessions, of which one has an id that        *)
(* _load_sessions finds again, a store that holds one or both, histories   *)
(* of one exchange (so that the second question truncates), and a batch    *)
(* threshold of two (so that both ways of flushing happen).                *)
(***************************************************************************)
EXTENDS SessionMemory, TLC

\* Timer threads are interchangeable: no definition names one of them.
TimerSymmetry == Permutations(Timers)
=============================================================================
