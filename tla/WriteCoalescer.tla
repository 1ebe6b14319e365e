--------------------------- MODULE WriteCoalescer ---------------------------
(***************************************************************************)
(* The class WriteCoalescer of backend/cache.py: requests to save a        *)
(* session are collected in `dirty' and handed to save_fn in batches, by a *)
(* threading.Timer thread when flush_interval has passed, or by the thread *)
(* that calls mark_dirty when batch_threshold sessions are dirty.          *)
(*                                                                         *)
(* Main is the one thread that calls the object's methods (the event       *)
(* loop).  Timers are the threading.Timer threads; one that has ended can  *)
(* be used again for a new Timer object, so the size of Timers bounds how  *)
(* many are alive at a time.  The RLock `_lock' is held across steps only  *)
(* by a flush nested in mark_dirty (its saves run under the lock): every   *)
(* other critical section is a single action.                              *)
(***************************************************************************)
EXTENDS Naturals, FiniteSets

CONSTANTS Sessions,        \* session identifiers
          Timers,          \* threads that can run a threading.Timer
          Main,            \* the event-loop thread
          NoTimer,         \* None
          BatchThreshold   \* batch_threshold

ASSUME MainIsNoTimer == Main \notin Timers
ASSUME NoTimerIsNone == NoTimer \notin Timers \cup {Main}
ASSUME ThresholdPositive == BatchThreshold \in Nat \ {0}

Threads == Timers \cup {Main}

VARIABLES
    dirty,    \* _dirty
    timer,    \* _timer: the Timer the object refers to, or NoTimer
    pc,       \* what each thread is doing, see Phase
    batch,    \* batch[t]: the copy of _dirty that t's _flush still has to save
    nested,   \* Main's flush runs inside mark_dirty, holding _lock
    process   \* which process this is: 0, after a restart 1, then 0, ...

cvars == <<dirty, timer, pc, batch, nested, process>>

\* "off"    not started, ended, or (Main) outside the object
\* "armed"  a Timer waiting for its interval
\* "fired"  a Timer past its interval, at the entry of _flush
\* "flush"  Main between the two halves of shutdown
\* "saving" in the loop over its batch
Phase == {"off", "armed", "fired", "flush", "saving"}

CTypeOK ==
    /\ dirty \in SUBSET Sessions
    /\ timer \in Timers \cup {NoTimer}
    /\ pc \in [Threads -> Phase]
    /\ batch \in [Threads -> SUBSET Sessions]
    /\ nested \in BOOLEAN
    /\ process \in {0, 1}

CInit ==
    /\ dirty = {}
    /\ timer = NoTimer
    /\ pc = [t \in Threads |-> "off"]
    /\ batch = [t \in Threads |-> {}]
    /\ nested = FALSE
    /\ process = 0

-----------------------------------------------------------------------------
\* Timer.cancel() on the Timer `_timer' refers to: a Timer still waiting
\* ends, one already past its interval goes on regardless.
Cancelled(p) ==
    IF timer # NoTimer /\ p[timer] = "armed" THEN [p EXCEPT ![timer] = "off"]
                                             ELSE p

\* The critical section of _flush as thread t runs it, d being _dirty: the
\* loop over the batch follows unless there is nothing to save.
TakeKeepingTimer(t, d) ==      \* mutant: `self._timer = None' forgotten
    /\ dirty' = {}
    /\ batch' = [batch EXCEPT ![t] = d]
    /\ pc' = Cancelled([pc EXCEPT ![t] = IF d = {} THEN "off" ELSE "saving"])
    /\ UNCHANGED timer

TakeWithoutClear(t, d) ==      \* mutant: `self._dirty.clear()' forgotten
    /\ dirty' = d
    /\ timer' = NoTimer
    /\ batch' = [batch EXCEPT ![t] = d]
    /\ pc' = Cancelled([pc EXCEPT ![t] = IF d = {} THEN "off" ELSE "saving"])

TakeAliased(t, d) ==           \* mutant: no copy() before clear()
    /\ dirty' = {}
    /\ timer' = NoTimer
    /\ pc' = Cancelled([pc EXCEPT ![t] = "off"])
    /\ UNCHANGED batch

Take(t, d) ==
    /\ dirty' = {}
    /\ timer' = NoTimer
    /\ batch' = [batch EXCEPT ![t] = d]
    /\ pc' = Cancelled([pc EXCEPT ![t] = IF d = {} THEN "off" ELSE "saving"])

\* mark_dirty(s): the threshold flushes at once, under the lock; otherwise
\* the first dirty session starts a Timer.
MarkFlushes(s) ==
    /\ Cardinality(dirty \cup {s}) >= BatchThreshold
    /\ Take(Main, dirty \cup {s})
    /\ nested' = TRUE
    /\ UNCHANGED process

MarkArms(s) ==
    /\ Cardinality(dirty \cup {s}) < BatchThreshold
    /\ timer = NoTimer
    /\ \E t \in Timers :
         /\ pc[t] = "off"
         /\ timer' = t
         /\ pc' = [pc EXCEPT ![t] = "armed"]
    /\ dirty' = dirty \cup {s}
    /\ UNCHANGED <<batch, nested, process>>

MarkOnly(s) ==
    /\ Cardinality(dirty \cup {s}) < BatchThreshold
    /\ timer # NoTimer
    /\ dirty' = dirty \cup {s}
    /\ UNCHANGED <<timer, pc, batch, nested, process>>

MarkDirty(s) ==
    /\ pc[Main] = "off"
    /\ MarkFlushes(s) \/ MarkArms(s) \/ MarkOnly(s)

\* flush_interval has passed: Timer t leaves its wait and calls _flush.
TimerFires(t) ==
    /\ pc[t] = "armed"
    /\ pc' = [pc EXCEPT ![t] = "fired"]
    /\ UNCHANGED <<dirty, timer, batch, nested, process>>

\* Timer t enters _flush; the lock must not be held by a nested flush.
TimerTakes(t) ==
    /\ pc[t] = "fired"
    /\ ~nested
    /\ Take(t, dirty)
    /\ UNCHANGED <<nested, process>>

\* One round of the loop in _flush: save_fn(s) has returned or raised (an
\* exception is logged and the loop goes on).  After the last one the thread
\* leaves _flush, and a nested flush releases the lock.
SaveRaises(t, s) ==            \* mutant: the exception ends the thread
    /\ pc[t] = "saving"
    /\ s \in batch[t]
    /\ pc' = [pc EXCEPT ![t] = "off"]
    /\ nested' = IF t = Main THEN FALSE ELSE nested
    /\ UNCHANGED <<dirty, timer, batch, process>>

SaveReturns(t, s) ==
    /\ pc[t] = "saving"
    /\ s \in batch[t]
    /\ batch' = [batch EXCEPT ![t] = @ \ {s}]
    /\ pc' = IF batch[t] = {s} THEN [pc EXCEPT ![t] = "off"] ELSE pc
    /\ nested' = IF t = Main /\ batch[t] = {s} THEN FALSE ELSE nested
    /\ UNCHANGED <<dirty, timer, process>>

\* flush_now(): _flush in the caller's thread, outside the lock.
FlushNow ==
    /\ pc[Main] = "off"
    /\ Take(Main, dirty)
    /\ UNCHANGED <<nested, process>>

\* shutdown(): cancel the Timer under the lock, release it, then _flush.
ShutdownCancels ==
    /\ pc[Main] = "off"
    /\ timer' = NoTimer
    /\ pc' = Cancelled([pc EXCEPT ![Main] = "flush"])
    /\ UNCHANGED <<dirty, batch, nested, process>>

ShutdownFlushes ==
    /\ pc[Main] = "flush"
    /\ Take(Main, dirty)
    /\ UNCHANGED <<nested, process>>

\* The process ends, in whatever state it is (Timer threads are daemons),
\* and another one builds a new object.
NewProcess ==
    /\ dirty' = {}
    /\ timer' = NoTimer
    /\ pc' = [t \in Threads |-> "off"]
    /\ batch' = [t \in Threads |-> {}]
    /\ nested' = FALSE
    /\ process' = 1 - process

-----------------------------------------------------------------------------
TimerStep(t) ==
    \/ TimerFires(t)
    \/ TimerTakes(t)

CNext ==
    \/ \E s \in Sessions : MarkDirty(s)
    \/ \E t \in Timers : TimerStep(t)
    \/ \E t \in Threads, s \in Sessions : SaveReturns(t, s)
    \/ FlushNow
    \/ ShutdownCancels
    \/ ShutdownFlushes
    \/ NewProcess

CSpec == CInit /\ [][CNext]_cvars

\* Threads that have something to do run: a Timer's interval passes, it gets
\* the lock when that is free, a save comes to an end.  Nothing is assumed
\* of the callers.
CFairness ==
    /\ \A t \in Timers : WF_cvars(TimerFires(t)) /\ WF_cvars(TimerTakes(t))
    /\ \A t \in Threads : WF_cvars(\E s \in Sessions : SaveReturns(t, s))
    /\ WF_cvars(ShutdownFlushes)

CFairSpec == CSpec /\ CFairness

-----------------------------------------------------------------------------
\* A dirty session is never stranded: a Timer the object knows is on its way
\* to flush it, or the calling thread is about to (mark_dirty arms a Timer
\* only when _timer is None, so a stale reference would stop all saving).
DirtyIsScheduled ==
    dirty # {} => \/ timer # NoTimer
                  \/ pc[Main] = "flush"

\* The Timer `_timer' refers to is alive and has not taken its batch yet, and
\* no other Timer is waiting: cancel() and re-arming never leave a second one.
TimerIsLive ==
    /\ timer # NoTimer => pc[timer] \in {"armed", "fired"}
    /\ \A t \in Timers : pc[t] = "armed" => timer = t

\* A thread has a batch exactly while it is in the save loop, and the lock is
\* kept across steps only by Main's own loop.
BatchesAreLive ==
    /\ \A t \in Threads : batch[t] # {} <=> pc[t] = "saving"
    /\ nested => pc[Main] = "saving"
    /\ \A t \in Timers : pc[t] # "flush"
    /\ pc[Main] \in {"off", "flush", "saving"}

\* The inductive invariant: with these, no order of marks, expiries, flushes
\* and shutdowns leaves the object's fields and its threads disagreeing.
CInv == CTypeOK /\ DirtyIsScheduled /\ TimerIsLive /\ BatchesAreLive

\* Whatever the order of marks, expiries, flushes and shutdowns, a request is
\* dropped only by calling save_fn for it or by the process ending.
Outstanding == dirty \cup UNION {batch[t] : t \in Threads}

Queue == INSTANCE SaveQueue WITH pending <- Outstanding

NoRequestLost == Queue!QSpec

\* Every dirty session is eventually taken from the dirty set, the callers
\* doing nothing more.
DirtyIsFlushed ==
    \A s \in Sessions : s \in dirty ~> s \notin dirty

\* Every batch a thread has taken reaches save_fn to its last session.
TakenIsSaved ==
    \A t \in Threads, s \in Sessions : s \in batch[t] ~> s \notin batch[t]
=============================================================================
