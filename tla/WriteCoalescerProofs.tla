------------------------ MODULE WriteCoalescerProofs ------------------------
(***************************************************************************)
(* For every set of sessions and Timers and every threshold: WriteCoalescer*)
(* never strands a dirty session, and it implements SaveQueue.             *)
(***************************************************************************)
EXTENDS WriteCoalescer, TLAPS

USE MainIsNoTimer, NoTimerIsNone DEF Threads

\* Cancelling leaves the other threads alone, and only ever ends a Timer.
LEMMA CancelledType ==
    ASSUME NEW p \in [Threads -> Phase], timer \in Timers \cup {NoTimer}
    PROVE  /\ Cancelled(p) \in [Threads -> Phase]
           /\ \A t \in Threads : t # timer => Cancelled(p)[t] = p[t]
           /\ \A t \in Threads : p[t] # "armed" => Cancelled(p)[t] = p[t]
           /\ \A t \in Threads : t = timer => Cancelled(p)[t] # "armed"
           /\ \A t \in Threads : Cancelled(p)[t] \in {p[t], "off"}
BY DEF Cancelled, Phase

\* What every use of the critical section of _flush does: it preserves CInv
\* as soon as the thread is not already in a save loop.
LEMMA TakePreserves ==
    ASSUME CInv, NEW t \in Threads, NEW d \in SUBSET Sessions,
           pc[t] # "saving", pc[t] # "armed", Take(t, d),
           ~nested,
           \/ UNCHANGED nested
           \/ t = Main /\ d # {} /\ nested' = TRUE,
           UNCHANGED process
    PROVE  CInv'
<1> DEFINE q == [pc EXCEPT ![t] = IF d = {} THEN "off" ELSE "saving"]
<1>0. CTypeOK /\ DirtyIsScheduled /\ TimerIsLive /\ BatchesAreLive
  BY DEF CInv
<1>1. q \in [Threads -> Phase]
  BY <1>0 DEF CTypeOK, Phase
<1>2. timer \in Timers \cup {NoTimer}
  BY <1>0 DEF CTypeOK
<1>3. /\ pc' = Cancelled(q)
      /\ dirty' = {}
      /\ timer' = NoTimer
      /\ batch' = [batch EXCEPT ![t] = d]
  BY DEF Take
<1>4. /\ pc' \in [Threads -> Phase]
      /\ \A u \in Threads : u # timer => pc'[u] = q[u]
      /\ \A u \in Threads : q[u] # "armed" => pc'[u] = q[u]
      /\ \A u \in Threads : u = timer => pc'[u] # "armed"
      /\ \A u \in Threads : pc'[u] \in {q[u], "off"}
  BY <1>1, <1>2, <1>3, CancelledType
<1>5. CTypeOK'
  BY <1>0, <1>3, <1>4 DEF CTypeOK
<1>6. DirtyIsScheduled'
  BY <1>3 DEF DirtyIsScheduled
<1>7. /\ q[t] = IF d = {} THEN "off" ELSE "saving"
      /\ \A u \in Threads \ {t} : q[u] = pc[u]
  BY <1>0 DEF CTypeOK
<1>8. TimerIsLive'
  <2>1. \A u \in Timers : pc'[u] # "armed"
    BY <1>0, <1>4, <1>7 DEF TimerIsLive
  <2>2. QED BY <2>1, <1>3 DEF TimerIsLive
<1>9. BatchesAreLive'
  <2>1. \A u \in Threads : batch'[u] # {} <=> pc'[u] = "saving"
    <3>1. batch'[t] # {} <=> pc'[t] = "saving"
      BY <1>0, <1>3, <1>4, <1>7 DEF CTypeOK
    <3>2. ASSUME NEW u \in Threads \ {t}
          PROVE  batch'[u] # {} <=> pc'[u] = "saving"
      <4>1. batch'[u] = batch[u] /\ q[u] = pc[u]
        BY <1>0, <1>3, <1>7 DEF CTypeOK
      <4>2. CASE pc[u] = "armed"
        BY <4>1, <4>2, <1>0, <1>4 DEF BatchesAreLive
      <4>3. CASE pc[u] # "armed"
        BY <4>1, <4>3, <1>0, <1>4 DEF BatchesAreLive
      <4>4. QED BY <4>2, <4>3
    <3>3. QED BY <3>1, <3>2
  <2>2. nested' => pc'[Main] = "saving"
    <3>1. nested' => t = Main /\ d # {}
      OBVIOUS
    <3>2. t = Main /\ d # {} => pc'[Main] = "saving"
      BY <1>4, <1>7
    <3>3. QED BY <3>1, <3>2
  <2>3. \A u \in Timers : pc'[u] # "flush"
    BY <1>0, <1>4, <1>7 DEF BatchesAreLive
  <2>4. pc'[Main] \in {"off", "flush", "saving"}
    BY <1>0, <1>4, <1>7 DEF BatchesAreLive
  <2>5. QED BY <2>1, <2>2, <2>3, <2>4 DEF BatchesAreLive
<1>10. QED BY <1>5, <1>6, <1>8, <1>9 DEF CInv

LEMMA InitInv == CInit => CInv
BY DEF CInit, CInv, CTypeOK, DirtyIsScheduled, TimerIsLive, BatchesAreLive,
       Phase

\* mark_dirty, in each of its three outcomes.
LEMMA MarkDirtyPreserves ==
    ASSUME CInv, NEW s \in Sessions, MarkDirty(s)
    PROVE  CInv'
<1> USE DEF CInv
<1>1. pc[Main] = "off" /\ ~nested
  BY DEF MarkDirty, BatchesAreLive
<1>2. CASE MarkFlushes(s)
  <2>1. (dirty \cup {s}) \in SUBSET Sessions /\ dirty \cup {s} # {}
    BY DEF CTypeOK
  <2>2. QED BY <1>1, <1>2, <2>1, TakePreserves DEF MarkFlushes
<1>3. CASE MarkArms(s)
  <2> PICK t \in Timers : /\ pc[t] = "off"
                          /\ timer' = t
                          /\ pc' = [pc EXCEPT ![t] = "armed"]
    BY <1>3 DEF MarkArms
  <2>1. dirty' = dirty \cup {s} /\ UNCHANGED <<batch, nested, process>> /\ timer = NoTimer
    BY <1>3 DEF MarkArms
  <2>2. CTypeOK'
    BY <2>1 DEF CTypeOK, Phase
  <2>3. DirtyIsScheduled'
    BY DEF DirtyIsScheduled
  <2>4. TimerIsLive'
    BY <2>1 DEF TimerIsLive, CTypeOK
  <2>5. BatchesAreLive'
    BY <2>1 DEF BatchesAreLive, CTypeOK
  <2>6. QED BY <2>2, <2>3, <2>4, <2>5
<1>4. CASE MarkOnly(s)
  BY <1>4 DEF MarkOnly, CTypeOK, DirtyIsScheduled, TimerIsLive, BatchesAreLive
<1>5. QED BY <1>2, <1>3, <1>4 DEF MarkDirty

LEMMA SaveReturnsPreserves ==
    ASSUME CInv, NEW t \in Threads, NEW s \in Sessions, SaveReturns(t, s)
    PROVE  CInv'
<1> USE DEF CInv, SaveReturns
<1>1. CTypeOK'
  BY DEF CTypeOK, Phase
<1>2. DirtyIsScheduled'
  BY DEF DirtyIsScheduled, CTypeOK
<1>3. TimerIsLive'
  BY DEF TimerIsLive, CTypeOK
<1>4. BatchesAreLive'
  <2>1. batch'[t] = batch[t] \ {s} /\ \A u \in Threads \ {t} : batch'[u] = batch[u]
    BY DEF CTypeOK
  <2>2. CASE batch[t] = {s}
    BY <2>1, <2>2 DEF BatchesAreLive, CTypeOK
  <2>3. CASE batch[t] # {s}
    <3>1. batch'[t] # {}
      BY <2>1, <2>3
    <3>2. QED BY <2>1, <2>3, <3>1 DEF BatchesAreLive, CTypeOK
  <2>4. QED BY <2>2, <2>3
<1>5. QED BY <1>1, <1>2, <1>3, <1>4

LEMMA NextInv == CInv /\ [CNext]_cvars => CInv'
<1> SUFFICES ASSUME CInv, [CNext]_cvars PROVE CInv'
  OBVIOUS
<1> USE DEF CInv
<1>1. ASSUME NEW s \in Sessions, MarkDirty(s) PROVE CInv'
  BY <1>1, MarkDirtyPreserves
<1>2. ASSUME NEW t \in Timers, TimerFires(t) PROVE CInv'
  <2>1. CTypeOK'
    BY <1>2 DEF TimerFires, CTypeOK, Phase
  <2>2. DirtyIsScheduled'
    BY <1>2 DEF TimerFires, DirtyIsScheduled, CTypeOK
  <2>3. TimerIsLive'
    BY <1>2 DEF TimerFires, TimerIsLive, CTypeOK
  <2>4. BatchesAreLive'
    BY <1>2 DEF TimerFires, BatchesAreLive, CTypeOK
  <2>5. QED BY <2>1, <2>2, <2>3, <2>4
<1>3. ASSUME NEW t \in Timers, TimerTakes(t) PROVE CInv'
  BY <1>3, TakePreserves DEF TimerTakes, CTypeOK
<1>4. ASSUME NEW t \in Threads, NEW s \in Sessions, SaveReturns(t, s)
      PROVE  CInv'
  BY <1>4, SaveReturnsPreserves
<1>5. CASE FlushNow
  BY <1>5, TakePreserves DEF FlushNow, CTypeOK, BatchesAreLive
<1>6. CASE ShutdownCancels
  <2> DEFINE q == [pc EXCEPT ![Main] = "flush"]
  <2>1. /\ pc[Main] = "off" /\ timer' = NoTimer /\ pc' = Cancelled(q)
        /\ UNCHANGED <<dirty, batch, nested, process>>
    BY <1>6 DEF ShutdownCancels
  <2>2. q \in [Threads -> Phase] /\ timer \in Timers \cup {NoTimer}
    BY DEF CTypeOK, Phase
  <2>3. /\ pc' \in [Threads -> Phase]
        /\ \A u \in Threads : u # timer => pc'[u] = q[u]
        /\ \A u \in Threads : u = timer => pc'[u] # "armed"
        /\ \A u \in Threads : q[u] # "armed" => pc'[u] = q[u]
        /\ \A u \in Threads : pc'[u] \in {q[u], "off"}
    BY <2>1, <2>2, CancelledType
  <2>4. q[Main] = "flush" /\ \A u \in Timers : q[u] = pc[u]
    BY DEF CTypeOK
  <2>5. CTypeOK'
    BY <2>1, <2>3 DEF CTypeOK
  <2>6. pc'[Main] = "flush"
    BY <2>3, <2>4
  <2>7. DirtyIsScheduled'
    BY <2>6 DEF DirtyIsScheduled
  <2>8. TimerIsLive'
    <3>1. \A u \in Timers : pc'[u] # "armed"
      BY <2>3, <2>4 DEF TimerIsLive
    <3>2. QED BY <2>1, <3>1 DEF TimerIsLive
  <2>9. BatchesAreLive'
    <3>1. \A u \in Timers : pc'[u] = "saving" <=> pc[u] = "saving"
      BY <2>3, <2>4
    <3>2. \A u \in Timers : pc'[u] # "flush"
      BY <2>3, <2>4 DEF BatchesAreLive
    <3>3. QED BY <2>1, <2>6, <3>1, <3>2 DEF BatchesAreLive
  <2>10. QED BY <2>5, <2>7, <2>8, <2>9
<1>7. CASE ShutdownFlushes
  BY <1>7, TakePreserves DEF ShutdownFlushes, CTypeOK, BatchesAreLive
<1>8. CASE NewProcess
  <2>1. CTypeOK'
    <3>1. process' \in {0, 1}
      <4>1. process = 0 \/ process = 1
        BY DEF CTypeOK
      <4>2. process' = 1 - process
        BY <1>8 DEF NewProcess
      <4>3. QED BY <4>1, <4>2
    <3>2. /\ dirty' = {} /\ timer' = NoTimer /\ nested' = FALSE
          /\ pc' \in [Threads -> Phase]
          /\ batch' \in [Threads -> SUBSET Sessions]
      BY <1>8 DEF NewProcess, Phase
    <3>3. QED BY <3>1, <3>2 DEF CTypeOK
  <2>2. DirtyIsScheduled' /\ TimerIsLive' /\ BatchesAreLive'
    BY <1>8 DEF NewProcess, DirtyIsScheduled, TimerIsLive, BatchesAreLive
  <2>3. QED BY <2>1, <2>2
<1>9. CASE UNCHANGED cvars
  BY <1>9 DEF cvars, CTypeOK, DirtyIsScheduled, TimerIsLive, BatchesAreLive
<1>10. QED
  BY <1>1, <1>2, <1>3, <1>4, <1>5, <1>6, <1>7, <1>8, <1>9
  DEF CNext, TimerStep

-----------------------------------------------------------------------------
\* The inductive invariant holds of every behaviour of the coalescer.
THEOREM CoalescerInvariant == CSpec => []CInv
<1>1. CInit => CInv
  BY InitInv
<1>2. CInv /\ [CNext]_cvars => CInv'
  BY NextInv
<1>3. QED BY <1>1, <1>2, PTL DEF CSpec

\* mark_dirty never leaves a dirty session that no Timer and no caller is
\* about to flush.
THEOREM NeverStranded == CSpec => []DirtyIsScheduled
<1>1. CInv => DirtyIsScheduled
  BY DEF CInv
<1>2. QED BY <1>1, CoalescerInvariant, PTL

-----------------------------------------------------------------------------
\* The critical section of _flush moves the dirty sessions into a batch:
\* nothing stops being outstanding.
LEMMA TakeKeepsOutstanding ==
    ASSUME CInv, NEW t \in Threads, pc[t] # "saving",
           NEW d \in SUBSET Sessions, dirty \subseteq d, Take(t, d)
    PROVE  Outstanding' = Outstanding \cup d
<1>1. /\ dirty' = {}
      /\ batch' = [batch EXCEPT ![t] = d]
      /\ batch[t] = {}
      /\ batch \in [Threads -> SUBSET Sessions]
  BY DEF Take, CInv, CTypeOK, BatchesAreLive
<1>2. batch'[t] = d /\ \A u \in Threads \ {t} : batch'[u] = batch[u]
  BY <1>1
<1>3. ASSUME NEW x PROVE x \in Outstanding' <=> x \in Outstanding \cup d
  <2>1. x \in Outstanding' => x \in Outstanding \cup d
    BY <1>1, <1>2 DEF Outstanding
  <2>2. x \in Outstanding => x \in Outstanding'
    BY <1>1, <1>2 DEF Outstanding
  <2>3. x \in d => x \in Outstanding'
    BY <1>1, <1>2 DEF Outstanding
  <2>4. QED BY <2>1, <2>2, <2>3
<1>4. QED BY <1>3

LEMMA InitRefines == CInit => Queue!QInit
BY DEF CInit, Queue!QInit, Outstanding

\* mark_dirty is a request, whichever of its outcomes it has.
LEMMA MarkDirtyRefines ==
    ASSUME CInv, NEW s \in Sessions, MarkDirty(s)
    PROVE  Queue!Request(s)
<1>1. CASE MarkFlushes(s)
  <2>1. (dirty \cup {s}) \in SUBSET Sessions /\ pc[Main] # "saving"
    BY DEF CInv, CTypeOK, MarkDirty
  <2>2. Outstanding' = Outstanding \cup (dirty \cup {s})
    BY <1>1, <2>1, TakeKeepsOutstanding DEF MarkFlushes
  <2>3. QED BY <1>1, <2>2 DEF Outstanding, Queue!Request, MarkFlushes
<1>2. CASE MarkArms(s)
  BY <1>2 DEF MarkArms, Outstanding, Queue!Request
<1>3. CASE MarkOnly(s)
  BY <1>3 DEF MarkOnly, Outstanding, Queue!Request
<1>4. QED BY <1>1, <1>2, <1>3 DEF MarkDirty

\* The return of save_fn(s) removes s and nothing else, and leaves s
\* outstanding when it is dirty again or in another thread's batch.
LEMMA SaveReturnsRefines ==
    ASSUME CInv, NEW t \in Threads, NEW s \in Sessions, SaveReturns(t, s)
    PROVE  Queue!Save(s)
<1>1. /\ s \in batch[t]
      /\ batch' = [batch EXCEPT ![t] = batch[t] \ {s}]
      /\ dirty' = dirty /\ process' = process
      /\ batch \in [Threads -> SUBSET Sessions]
  BY DEF SaveReturns, CInv, CTypeOK
<1>2. batch'[t] = batch[t] \ {s} /\ \A u \in Threads \ {t} : batch'[u] = batch[u]
  BY <1>1
<1>3. s \in Outstanding
  BY <1>1 DEF Outstanding
<1>4. ASSUME NEW x PROVE x \in Outstanding' => x \in Outstanding
  BY <1>1, <1>2 DEF Outstanding
<1>5. ASSUME NEW x, x # s PROVE x \in Outstanding => x \in Outstanding'
  BY <1>1, <1>2, <1>5 DEF Outstanding
<1>6. CASE s \in Outstanding'
  <2>1. Outstanding' = Outstanding
    BY <1>3, <1>4, <1>5, <1>6
  <2>2. QED BY <1>1, <1>3, <2>1 DEF Queue!Save
<1>7. CASE s \notin Outstanding'
  <2>1. Outstanding' = Outstanding \ {s}
    BY <1>4, <1>5, <1>7
  <2>2. QED BY <1>1, <1>3, <2>1 DEF Queue!Save
<1>8. QED BY <1>6, <1>7

LEMMA StepRefines == CInv /\ [CNext]_cvars => [Queue!QNext]_<<Outstanding, process>>
<1> SUFFICES ASSUME CInv, [CNext]_cvars
             PROVE  Queue!QNext \/ UNCHANGED <<Outstanding, process>>
  OBVIOUS
<1>0. dirty \in SUBSET Sessions
  BY DEF CInv, CTypeOK
<1>1. ASSUME NEW s \in Sessions, MarkDirty(s) PROVE Queue!QNext
  BY <1>1, MarkDirtyRefines DEF Queue!QNext
<1>2. ASSUME NEW t \in Timers, TimerFires(t) PROVE UNCHANGED <<Outstanding, process>>
  BY <1>2 DEF TimerFires, Outstanding
<1>3. ASSUME NEW t \in Timers, TimerTakes(t) PROVE UNCHANGED <<Outstanding, process>>
  <2>1. Outstanding' = Outstanding \cup dirty
    BY <1>0, <1>3, TakeKeepsOutstanding DEF TimerTakes
  <2>2. QED BY <1>3, <2>1 DEF Outstanding, TimerTakes
<1>4. ASSUME NEW t \in Threads, NEW s \in Sessions, SaveReturns(t, s)
      PROVE  Queue!QNext
  BY <1>4, SaveReturnsRefines DEF Queue!QNext
<1>5. CASE FlushNow \/ ShutdownFlushes
  <2>1. Outstanding' = Outstanding \cup dirty
    BY <1>0, <1>5, TakeKeepsOutstanding DEF FlushNow, ShutdownFlushes
  <2>2. QED BY <1>5, <2>1 DEF Outstanding, FlushNow, ShutdownFlushes
<1>6. CASE ShutdownCancels
  BY <1>6 DEF ShutdownCancels, Outstanding
<1>7. CASE NewProcess
  BY <1>7 DEF NewProcess, Outstanding, Queue!QNext, Queue!Lose
<1>8. CASE UNCHANGED cvars
  BY <1>8 DEF cvars, Outstanding
<1>9. QED
  BY <1>1, <1>2, <1>3, <1>4, <1>5, <1>6, <1>7, <1>8 DEF CNext, TimerStep

\* WriteCoalescer implements SaveQueue: a request to save a session is only
\* ever dropped by calling save_fn for it or by the end of the process.
THEOREM CoalescerImplementsQueue == CSpec => NoRequestLost
<1>1. CInit => Queue!QInit
  BY InitRefines
<1>2. CInv /\ [CNext]_cvars => [Queue!QNext]_<<Outstanding, process>>
  BY StepRefines
<1>3. QED
  BY <1>1, <1>2, CoalescerInvariant, PTL DEF CSpec, NoRequestLost, Queue!QSpec
=============================================================================
