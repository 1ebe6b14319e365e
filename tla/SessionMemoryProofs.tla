------------------------- MODULE SessionMemoryProofs -------------------------
(***************************************************************************)
(* For every choice of the constants.  First: whatever the event loop and  *)
(* the Timers do to the sessions and their files, what the write coalescer *)
(* under them does is a behaviour of WriteCoalescer, so that what is       *)
(* proved of that module holds of the composed system.  Then, what memory, *)
(* files and saves hold: histories in which answers follow their           *)
(* questions, and which are not too long when they are used.  Last, for a  *)
(* disk on which no save fails and no flush starts before the last one has *)
(* ended: what is in memory reaches the disk, and what is on disk survives *)
(* a restart.                                                              *)
(***************************************************************************)
EXTENDS SessionMemory, WriteCoalescerProofs, SequenceTheorems

\* A handler that is between two steps works on a session.
HandlerHasSession ==
    at \in {"cut", "mark", "answer", "reply", "create"} => cur \in Sessions

SInv == CInv /\ HandlerHasSession

\* What a step has to do for SInv to be kept: leave the coalescer alone or
\* take a step of it, and not lose the handler's session.
LEMMA HandlerKeepsSession ==
    ASSUME HandlerHasSession, Handler \/ HandlerGoesOn
    PROVE  HandlerHasSession'
<1> USE DEF HandlerHasSession, Then, ThenMark, WaitsForItself
<1>1. ASSUME NEW s \in Sessions, NEW role, NEW q, NEW next, AddTurn(s, role, q, next)
      PROVE  HandlerHasSession'
  BY <1>1 DEF AddTurn
<1>2. ASSUME NEW s \in Sessions,
             \/ Query(s) \/ CreateSession(s) \/ ReadSession(s) \/ DeleteSession(s)
             \/ ClearMemory(s) \/ ClearHistory(s)
      PROVE  HandlerHasSession'
  <2>1. CASE Query(s)
    BY <2>1, <1>1 DEF Query
  <2>2. CASE CreateSession(s) \/ ReadSession(s) \/ ClearHistory(s)
    BY <2>2 DEF CreateSession, ReadSession, ClearHistory
  <2>3. CASE DeleteSession(s) \/ ClearMemory(s)
    BY <2>3 DEF DeleteSession, ClearMemory
  <2>4. QED BY <1>2, <2>1, <2>2, <2>3
<1>3. CASE ListSessions \/ CleanupExpired
  BY <1>3 DEF ListSessions, CleanupExpired
<1>4. CASE HandlerGoesOn
  <2>1. CASE Cut \/ UpdateState \/ NoEntities
    BY <2>1 DEF Cut, UpdateState, NoEntities
  <2>2. CASE Reply
    BY <2>2, <1>1 DEF Reply
  <2>3. CASE Mark
    BY <2>3 DEF Mark
  <2>4. CASE CreateAgain
    BY <2>4 DEF CreateAgain
  <2>5. QED BY <1>4, <2>1, <2>2, <2>3, <2>4 DEF HandlerGoesOn
<1>5. QED BY <1>2, <1>3, <1>4 DEF Handler

\* A handler touches the coalescer by mark_dirty only.
LEMMA HandlerImplements ==
    ASSUME HandlerHasSession, Handler \/ HandlerGoesOn
    PROVE  [CNext]_cvars
<1> USE DEF Then, ThenMark, WaitsForItself
<1>1. ASSUME NEW s, NEW role, NEW q, NEW next, AddTurn(s, role, q, next)
      PROVE  UNCHANGED cvars
  BY <1>1 DEF AddTurn
<1>2. CASE Handler
  <2>1. ASSUME NEW s \in Sessions,
               \/ Query(s) \/ CreateSession(s) \/ ReadSession(s) \/ DeleteSession(s)
               \/ ClearMemory(s) \/ ClearHistory(s)
        PROVE  UNCHANGED cvars
    BY <2>1, <1>1 DEF Query, CreateSession, ReadSession, DeleteSession, ClearMemory,
                     ClearHistory
  <2>2. CASE ListSessions \/ CleanupExpired
    BY <2>2 DEF ListSessions, CleanupExpired
  <2>3. QED BY <1>2, <2>1, <2>2 DEF Handler
<1>3. CASE Mark
  <2>1. cur \in Sessions /\ MarkDirty(cur)
    BY <1>3 DEF Mark, HandlerHasSession
  <2>2. QED BY <2>1 DEF CNext
<1>4. CASE Cut \/ UpdateState \/ NoEntities \/ Reply \/ CreateAgain
  BY <1>4, <1>1 DEF Cut, UpdateState, NoEntities, Reply, CreateAgain
<1>5. QED BY <1>2, <1>3, <1>4 DEF HandlerGoesOn

\* The steps of a save end in a return of save_fn, or leave the coalescer
\* alone; they never touch the handler.
LEMMA SaveImplements ==
    ASSUME CInv, NEW t \in Threads, SaveStep(t)
    PROVE  [CNext]_cvars /\ UNCHANGED <<at, cur>>
<1>1. ASSUME NEW s, SaveReturns(t, s) PROVE CNext
  <2>1. s \in Sessions
    BY <1>1 DEF SaveReturns, CInv, CTypeOK
  <2>2. QED BY <1>1, <2>1 DEF CNext
<1>2. ASSUME NEW s \in Sessions, SaveSkips(t, s) \/ SaveLooksUp(t, s)
      PROVE  [CNext]_cvars /\ UNCHANGED <<at, cur>>
  BY <1>1, <1>2 DEF SaveSkips, SaveLooksUp, mvars
<1>3. CASE SaveOpens(t) \/ SaveCloses(t) \/ SaveFails(t)
  BY <1>1, <1>3 DEF SaveOpens, SaveCloses, SaveFails
<1>4. QED BY <1>2, <1>3 DEF SaveStep

\* Every step of memory is a step of the coalescer or leaves it alone.
LEMMA MemoryStep ==
    SInv /\ [MNext]_vars => [CNext]_cvars /\ HandlerHasSession'
<1> SUFFICES ASSUME SInv, [MNext]_vars
             PROVE  [CNext]_cvars /\ HandlerHasSession'
  OBVIOUS
<1> USE DEF SInv
<1>1. CASE Handler \/ HandlerGoesOn
  BY <1>1, HandlerKeepsSession, HandlerImplements
<1>2. CASE Tick
  BY <1>2 DEF Tick, HandlerHasSession
<1>3. CASE Restart
  BY <1>3 DEF Restart, CNext, HandlerHasSession
<1>4. ASSUME NEW t \in Timers, Fires(t) \/ Takes(t)
      PROVE  [CNext]_cvars /\ HandlerHasSession'
  BY <1>4 DEF Fires, Takes, CNext, TimerStep, mvars, HandlerHasSession
<1>5. ASSUME NEW t \in Threads, SaveStep(t)
      PROVE  [CNext]_cvars /\ HandlerHasSession'
  BY <1>5, SaveImplements DEF HandlerHasSession
<1>6. CASE UNCHANGED vars
  BY <1>6 DEF vars, mvars, HandlerHasSession
<1>7. QED BY <1>1, <1>2, <1>3, <1>4, <1>5, <1>6 DEF MNext

-----------------------------------------------------------------------------
\* The inductive invariant: the coalescer's own, and a handler that has begun
\* knows its session.
THEOREM MemoryInvariant == MSpec => []SInv
<1>1. MInit => SInv
  BY InitInv DEF MInit, SInv, HandlerHasSession
<1>2. SInv /\ [MNext]_vars => SInv'
  BY MemoryStep, NextInv DEF SInv
<1>3. QED BY <1>1, <1>2, PTL DEF MSpec

\* The memory adapters, their callers and the disk drive the coalescer only
\* through mark_dirty and save_fn: what is proved of it holds here.
LEMMA MemoryImplementsCoalescer == MSpec => CSpec
<1>1. MInit => CInit
  BY DEF MInit
<1>2. SInv /\ [MNext]_vars => [CNext]_cvars
  BY MemoryStep
<1>3. QED BY <1>1, <1>2, MemoryInvariant, PTL DEF MSpec, CSpec

\* Therefore no session stays dirty with no Timer to flush it, whatever the
\* handlers do and however the process is restarted.
THEOREM MemoryNeverStranded == MSpec => []DirtyIsScheduled
<1>1. SInv => DirtyIsScheduled
  BY DEF SInv, CInv
<1>2. QED BY <1>1, MemoryInvariant, PTL

\* And a request to save a session is dropped only by save_fn or by the end of
\* the process.
THEOREM MemoryLosesNoRequest == MSpec => NoRequestLost
BY MemoryImplementsCoalescer, CoalescerImplementsQueue, PTL

-----------------------------------------------------------------------------
\* What memory, files and saves hold.
USE BoundsAreNat

\* Each answer follows its question, unless that has been cut off.
Paired(m) ==
    \A i \in 2..Len(m) :
      m[i].role = "assistant" => m[i-1] = [role |-> "user", q |-> m[i].q]

\* A session's dictionary, however long its history.
Stored == {c \in Content : Paired(c.msgs)}

EndsWith(m, turn) == m # <<>> /\ m[Len(m)] = turn

Asking == at \in {"answer", "reply"} \/ (at \in {"cut", "mark"} /\ after # "idle")

\* Where the event loop is.  While a question is being answered its number is
\* one that has been asked, and the session is there (the JSON backend ignores
\* a question for one that is not) and ends with it; a session about to be cut
\* or marked is there too.  From mark_dirty to the answer its history is short.
ControlOK ==
    /\ at \in {"idle", "cut", "mark", "answer", "reply", "create", "stuck"}
    /\ after \in {"idle", "answer", "reply"}
    /\ cur \in Sessions \cup {Absent}
    /\ clock \in 0..MaxClock /\ query \in 0..MaxQueries
    /\ failures \in 0..MaxFailures
    /\ HandlerHasSession
    /\ Asking => query \in 1..MaxQueries
    /\ Asking /\ mem[cur] # Absent =>
         EndsWith(mem[cur].msgs, [role |-> "user", q |-> query])
    /\ \/ at \in {"cut", "mark"}
       \/ Backend = "langgraph" /\ at \in {"answer", "reply"}
       => mem[cur] # Absent
    /\ at \in {"mark", "answer", "reply"} /\ mem[cur] # Absent =>
         Len(mem[cur].msgs) <= MaxMessages

SaveRecord ==
    [st : {"none", "got", "open", "orphan"}, sid : Sessions \cup {Absent},
     ref : Stored \cup {Absent}]

\* The sessions, their files, and the saves: a thread in _save_session is in
\* the save loop, for a session of its batch, and the dictionary it has looked
\* up is either still the session's or the one it keeps.
DataOK ==
    /\ mem \in [Sessions -> Stored \cup {Absent}]
    /\ file \in [Sessions -> Stored \cup {Absent, Torn}]
    /\ save \in [Threads -> SaveRecord]
    /\ \A t \in Threads : save[t].st # "none" =>
         pc[t] = "saving" /\ save[t].sid \in batch[t]
    /\ \A t \in Threads : save[t].st = "got" /\ save[t].ref = Absent =>
         mem[save[t].sid] # Absent

DInv == CInv /\ ControlOK /\ DataOK

-----------------------------------------------------------------------------
\* The slice [-max_messages:] is a history, and not longer than that; it ends
\* as the whole does, and answers still follow their questions.
LEMMA TruncatedType ==
    ASSUME NEW m \in Seq(Turn), Paired(m)
    PROVE  /\ Truncated(m) \in Seq(Turn) /\ Len(Truncated(m)) <= MaxMessages
           /\ m # <<>> => EndsWith(Truncated(m), m[Len(m)])
           /\ Paired(Truncated(m))
<1>1. MaxMessages \in Nat \ {0} /\ Len(m) \in Nat
  BY EmptySeq DEF MaxMessages
<1>2. CASE Len(m) > MaxMessages
  <2> DEFINE k == Len(m) - MaxMessages + 1
             t == SubSeq(m, k, Len(m))
  <2>1. k \in Int /\ Len(m) \in Int /\ k >= 1 /\ k <= Len(m) /\ Len(m) - k + 1 = MaxMessages
    BY <1>1, <1>2
  <2>2. \A i \in k..Len(m) : m[i] \in Turn
    BY <1>1, <2>1, ElementOfSeq
  <2>3. /\ t \in Seq(Turn) /\ Len(t) = MaxMessages
        /\ \A i \in 1..MaxMessages : t[i] = m[k + i - 1]
    <3> HIDE DEF k
    <3>1. QED BY <2>1, <2>2, SubSeqProperties
  <2>4. Truncated(m) = t
    BY <1>2 DEF Truncated
  <2>5. EndsWith(t, m[Len(m)])
    <3>1. MaxMessages \in 1..MaxMessages /\ k + MaxMessages - 1 = Len(m)
      BY <1>1, <2>1
    <3> HIDE DEF k, t
    <3>2. t # <<>>
      BY <1>1, <2>3, EmptySeq
    <3>3. QED BY <2>3, <3>1, <3>2 DEF EndsWith
  <2>6. Paired(t)
    <3>1. SUFFICES ASSUME NEW i \in 2..MaxMessages, t[i].role = "assistant"
                   PROVE  t[i-1] = [role |-> "user", q |-> t[i].q]
      BY <2>3 DEF Paired
    <3>2. /\ t[i] = m[k + i - 1] /\ t[i-1] = m[k + i - 2]
          /\ k + i - 1 \in 2..Len(m) /\ (k + i - 1) - 1 = k + i - 2
      <4>1. i \in 1..MaxMessages /\ i - 1 \in 1..MaxMessages
        BY <1>1, <3>1
      <4>2. k + (i - 1) - 1 = k + i - 2 /\ k + i - 1 \in 2..Len(m)
        BY <1>1, <2>1, <3>1
      <4> HIDE DEF k, t
      <4>3. QED BY <2>1, <2>3, <4>1, <4>2
    <3> HIDE DEF k, t
    <3>3. QED BY <3>1, <3>2 DEF Paired
  <2> HIDE DEF t
  <2>7. QED BY <1>1, <2>3, <2>4, <2>5, <2>6
<1>3. CASE ~(Len(m) > MaxMessages)
  BY <1>1, <1>3 DEF Truncated, EndsWith
<1>4. QED BY <1>2, <1>3

\* What create_session, add_turn, update_state and clear_history leave in the dictionary is a session's again.
LEMMA FreshType ==
    ASSUME ControlOK PROVE Fresh \in Stored /\ Len(Fresh.msgs) <= MaxMessages
<1>1. <<>> \in Seq(Turn) /\ Len(<<>>) = 0
  BY EmptySeq
<1>2. clock \in 0..MaxClock /\ 0 \in 0..MaxQueries /\ 0 <= MaxMessages
  BY DEF ControlOK, MaxMessages
<1>3. Paired(<<>>)
  BY <1>1 DEF Paired
<1>4. QED BY <1>1, <1>2, <1>3 DEF Fresh, Stored, Content

LEMMA FirstTurnType ==
    ASSUME ControlOK, NEW role \in {"user", "assistant"}, NEW q \in 1..MaxQueries
    PROVE  LET new == [Fresh EXCEPT !.msgs = <<[role |-> role, q |-> q]>>] IN
           /\ new \in Stored /\ EndsWith(new.msgs, [role |-> role, q |-> q])
           /\ Len(new.msgs) <= MaxMessages
<1> DEFINE m == [role |-> role, q |-> q]
<1>1. m \in Turn
  BY DEF Turn
<1>2. <<m>> \in Seq(Turn) /\ Len(<<m>>) = 1 /\ EndsWith(<<m>>, m) /\ Paired(<<m>>)
  <2> HIDE DEF m
  <2>1. QED BY <1>1 DEF EndsWith, Paired
<1>3. clock \in 0..MaxClock /\ 0 \in 0..MaxQueries /\ 1 <= MaxMessages
  BY DEF ControlOK, MaxMessages
<1>4. [Fresh EXCEPT !.msgs = <<m>>] =
        [msgs |-> <<m>>, state |-> 0, last |-> clock]
  <2> HIDE DEF m
  <2>1. QED BY DEF Fresh
<1>5. QED
  <2> HIDE DEF m
  <2>1. [msgs |-> <<m>>, state |-> 0, last |-> clock] \in Stored
    BY <1>2, <1>3 DEF Stored, Content
  <2>2. /\ [Fresh EXCEPT !.msgs = <<m>>] \in Stored
        /\ [Fresh EXCEPT !.msgs = <<m>>].msgs = <<m>>
    BY <1>4, <2>1
  <2>3. Len(<<m>>) <= MaxMessages
    BY <1>2, <1>3
  <2>4. QED BY <1>2, <2>2, <2>3 DEF m

LEMMA NextTurnType ==
    ASSUME ControlOK, NEW c \in Stored,
           NEW role \in {"user", "assistant"}, NEW q \in 1..MaxQueries,
           role = "assistant" => EndsWith(c.msgs, [role |-> "user", q |-> q])
    PROVE  LET new == [c EXCEPT !.msgs = Append(@, [role |-> role, q |-> q]),
                                !.last = clock]
           IN  /\ new \in Stored /\ EndsWith(new.msgs, [role |-> role, q |-> q])
               /\ Len(new.msgs) = Len(c.msgs) + 1 /\ Len(c.msgs) \in Nat
<1> DEFINE m == [role |-> role, q |-> q]
<1>1. m \in Turn
  BY DEF Turn
<1>2. c.msgs \in Seq(Turn) /\ Len(c.msgs) \in Nat /\ Paired(c.msgs)
  BY DEF Stored, Content
<1> DEFINE a == Append(c.msgs, m)
<1>3. /\ a \in Seq(Turn) /\ a # <<>> /\ Len(a) = Len(c.msgs) + 1 /\ a[Len(a)] = m
      /\ \A i \in 1..Len(c.msgs) : a[i] = c.msgs[i]
  <2> HIDE DEF m
  <2>1. QED BY <1>1, <1>2, AppendProperties
<1>7. Paired(a)
  <2>1. SUFFICES ASSUME NEW i \in 2..Len(a), a[i].role = "assistant"
                 PROVE  a[i-1] = [role |-> "user", q |-> a[i].q]
    BY DEF Paired
  <2>2. i - 1 \in 1..Len(c.msgs) /\ (i \in 2..Len(c.msgs) \/ i = Len(a))
    BY <1>2, <1>3
  <2>3. CASE i \in 2..Len(c.msgs)
    <3>1. a[i] = c.msgs[i] /\ a[i-1] = c.msgs[i-1]
      BY <1>2, <1>3, <2>2, <2>3
    <3> HIDE DEF a
    <3>2. QED BY <1>2, <2>1, <2>3, <3>1 DEF Paired
  <2>4. CASE i = Len(a)
    <3>1. a[i] = m /\ a[i-1] = c.msgs[Len(c.msgs)]
      BY <1>2, <1>3, <2>2, <2>4
    <3> HIDE DEF a
    <3>2. QED BY <2>1, <3>1 DEF EndsWith
  <2>5. QED BY <2>2, <2>3, <2>4
<1>5. clock \in 0..MaxClock
  BY DEF ControlOK
<1>6. QED
  <2> SUFFICES LET new == [c EXCEPT !.msgs = a, !.last = clock]
               IN  /\ new \in Stored /\ EndsWith(new.msgs, m)
                   /\ Len(new.msgs) = Len(c.msgs) + 1
    BY <1>2
  <2>1. EndsWith(a, m)
    <3> HIDE DEF a, m
    <3>1. QED BY <1>3 DEF EndsWith
  <2> HIDE DEF a, m
  <2>2. QED BY <1>3, <1>5, <1>7, <2>1 DEF Stored, Content

\* The cut leaves a session, whose history is short and ends as it did.
LEMMA CutType ==
    ASSUME NEW c \in Stored
    PROVE  LET new == [c EXCEPT !.msgs = Truncated(@)] IN
           /\ new \in Stored /\ Len(new.msgs) <= MaxMessages
           /\ \A m : EndsWith(c.msgs, m) => EndsWith(new.msgs, m)
<1> DEFINE n == Truncated(c.msgs)
<1>1. c.msgs \in Seq(Turn) /\ Paired(c.msgs)
  BY DEF Stored, Content
<1>2. /\ n \in Seq(Turn) /\ Len(n) <= MaxMessages /\ Paired(n)
      /\ c.msgs # <<>> => EndsWith(n, c.msgs[Len(c.msgs)])
  BY <1>1, TruncatedType
<1>3. \A m : EndsWith(c.msgs, m) => EndsWith(n, m)
  BY <1>2 DEF EndsWith
<1> HIDE DEF n
<1>4. [c EXCEPT !.msgs = n] \in Stored /\ [c EXCEPT !.msgs = n].msgs = n
  BY <1>2 DEF Stored, Content
<1>5. QED BY <1>2, <1>3, <1>4 DEF n

LEMMA WrittenType ==
    ASSUME ControlOK, NEW c \in Stored
    PROVE  /\ [c EXCEPT !.state = query] \in Stored
           /\ [c EXCEPT !.msgs = <<>>, !.last = clock] \in Stored
           /\ Len(<<>>) <= MaxMessages
<1>1. query \in 0..MaxQueries /\ clock \in 0..MaxClock /\ 0 \in 0..MaxQueries
  BY DEF ControlOK
<1>2. <<>> \in Seq(Turn) /\ Len(<<>>) <= MaxMessages /\ Paired(<<>>)
  BY EmptySeq DEF MaxMessages, Paired
<1>3. QED BY <1>1, <1>2 DEF Stored, Content

LEMMA StoredIsPresent == Absent \notin Stored
BY AbsentIsNone DEF Stored

-----------------------------------------------------------------------------
\* The steps of the event loop, by what they do to sessions and files: nothing,
\* one session written and about to be cut or marked, or some sessions removed;
\* and mark_dirty itself.
Changed == {"cut", "mark"}

Quiet ==
    /\ at \notin Changed /\ at' \notin Changed
    /\ UNCHANGED <<cvars, mem, file, save>>

Writes(s, v) ==
    /\ at \notin Changed \/ (at = "cut" /\ cur = s)
    /\ at' \in Changed /\ cur' = s
    /\ mem' = [mem EXCEPT ![s] = v]
    /\ UNCHANGED <<cvars, file, save>>

Removes(D) ==
    /\ at \notin Changed /\ at' \notin Changed
    /\ Remove(D)
    /\ UNCHANGED cvars

HandlerStep ==
    \/ Quiet
    \/ \E s \in Sessions, v \in Stored : Writes(s, v)
    \/ \E D \in SUBSET Sessions : Removes(D)
    \/ Mark

LEMMA AddTurnStep ==
    ASSUME DInv, at \notin Changed, NEW s \in Sessions, NEW role \in {"user", "assistant"},
           NEW q \in 1..MaxQueries, NEW next \in {"idle", "answer"},
           role = "assistant" /\ mem[s] # Absent =>
             EndsWith(mem[s].msgs, [role |-> "user", q |-> q]),
           next # "idle" => role = "user",
           AddTurn(s, role, q, next)
    PROVE  HandlerStep /\ ControlOK'
<1> DEFINE v == [mem[s] EXCEPT !.msgs = Append(@, [role |-> role, q |-> q]),
                               !.last = clock]
           w == [Fresh EXCEPT !.msgs = <<[role |-> role, q |-> q]>>]
<1>0. ControlOK /\ mem \in [Sessions -> Stored \cup {Absent}]
  BY DEF DInv, DataOK
<1>1. CASE WaitsForItself
  BY <1>0, <1>1 DEF WaitsForItself, HandlerStep, Quiet, Changed, ControlOK, Asking, HandlerHasSession
<1>2. CASE mem[s] # Absent /\ ~Expired(s)
  <2> DEFINE first == IF Len(mem[s].msgs) >= MaxMessages THEN "cut" ELSE "mark"
  <2>1. /\ v \in Stored /\ EndsWith(v.msgs, [role |-> role, q |-> q])
        /\ Len(v.msgs) = Len(mem[s].msgs) + 1 /\ Len(mem[s].msgs) \in Nat
    BY <1>0, <1>2, NextTurnType
  <2>2. mem' = [mem EXCEPT ![s] = v] /\ query' = q /\ Then(first, s, next)
    BY <1>2 DEF AddTurn, WaitsForItself
  <2>6. first \in Changed /\ (first = "mark" => Len(v.msgs) <= MaxMessages)
    BY <2>1 DEF Changed, MaxMessages
  <2> HIDE DEF v, first
  <2>3. HandlerStep
    BY <2>1, <2>2, <2>6 DEF HandlerStep, Writes, Changed, Then, ThenMark
  <2>4. ControlOK'
    BY <1>0, <2>1, <2>2, <2>6, StoredIsPresent DEF Changed, ControlOK, Asking, Then, ThenMark, HandlerHasSession
  <2>5. QED BY <2>3, <2>4
<1>3. CASE mem[s] = Absent /\ Backend = "langgraph" /\ ~Full
  <2>1. w \in Stored /\ EndsWith(w.msgs, [role |-> role, q |-> q])
        /\ Len(w.msgs) <= MaxMessages
    BY <1>0, FirstTurnType
  <2>2. mem' = [mem EXCEPT ![s] = w] /\ query' = q /\ ThenMark(s, next)
    BY <1>3 DEF AddTurn
  <2> HIDE DEF w
  <2>3. HandlerStep
    BY <2>1, <2>2 DEF HandlerStep, Writes, Changed, Then, ThenMark
  <2>4. ControlOK'
    BY <1>0, <2>1, <2>2, StoredIsPresent DEF ControlOK, Asking, Then, ThenMark, HandlerHasSession
  <2>5. QED BY <2>3, <2>4
<1>4. CASE /\ mem[s] = Absent
           /\ Backend = "json" /\ at' = next /\ cur' = s /\ query' = q
           /\ UNCHANGED <<cvars, mem, file, after, save, clock, failures>>
  <2>1. Backend # "langgraph"
    BY <1>4
  <2>2. QED BY <1>0, <1>4, <2>1 DEF HandlerStep, Quiet, Changed, ControlOK, Asking, HandlerHasSession
<1>5. QED BY <1>1, <1>2, <1>3, <1>4 DEF AddTurn

LEMMA QueryStep ==
    ASSUME DInv, NEW s \in Sessions, Query(s)
    PROVE  HandlerStep /\ ControlOK'
<1>1. query + 1 \in 1..MaxQueries /\ at \notin Changed
  BY DEF Changed, Query, DInv, ControlOK
<1>2. QED BY <1>1, AddTurnStep DEF Query

LEMMA RequestStep ==
    ASSUME DInv, NEW s \in Sessions,
           \/ CreateSession(s) \/ ReadSession(s) \/ DeleteSession(s)
           \/ ClearMemory(s) \/ ClearHistory(s)
    PROVE  HandlerStep /\ ControlOK'
<1>0. /\ ControlOK /\ mem \in [Sessions -> Stored \cup {Absent}] /\ Fresh \in Stored
      /\ Len(Fresh.msgs) <= MaxMessages
  BY FreshType DEF DInv, DataOK
<1>1. CASE at = "idle" /\ WaitsForItself
  BY <1>0, <1>1 DEF WaitsForItself, HandlerStep, Quiet, Changed, ControlOK, Asking, HandlerHasSession
<1>2. CASE /\ at = "idle" /\ mem' = [mem EXCEPT ![s] = Fresh]
           /\ UNCHANGED query /\ ThenMark(s, "idle")
  <2>1. HandlerStep
    BY <1>0, <1>2 DEF HandlerStep, Writes, Changed, Then, ThenMark
  <2>2. ControlOK'
    BY <1>0, <1>2, StoredIsPresent DEF ControlOK, Asking, Then, ThenMark, HandlerHasSession
  <2>3. QED BY <2>1, <2>2
<1>3. CASE DeleteSession(s)
  <2>1. HandlerStep
    BY <1>3 DEF DeleteSession, HandlerStep, Removes, Changed
  <2>2. ControlOK'
    BY <1>0, <1>3 DEF DeleteSession, ControlOK, Asking, HandlerHasSession
  <2>3. QED BY <2>1, <2>2
<1>4. CASE /\ at = "idle" /\ Remove({s}) /\ at' = "create" /\ cur' = s
           /\ UNCHANGED <<cvars, after, clock, query, failures>>
  <2>1. HandlerStep
    BY <1>4 DEF HandlerStep, Removes, Changed
  <2>2. ControlOK'
    BY <1>0, <1>4 DEF ControlOK, Asking, HandlerHasSession
  <2>3. QED BY <2>1, <2>2
<1>5. CASE /\ at = "idle" /\ mem[s] # Absent
           /\ mem' = [mem EXCEPT ![s].msgs = <<>>, ![s].last = clock]
           /\ UNCHANGED query /\ ThenMark(s, "idle")
  <2> DEFINE v == [mem[s] EXCEPT !.msgs = <<>>, !.last = clock]
  <2>1. v \in Stored /\ Len(v.msgs) <= MaxMessages
    BY <1>0, <1>5, WrittenType DEF Stored, Content
  <2>2. mem' = [mem EXCEPT ![s] = v]
    BY <1>0, <1>5
  <2> HIDE DEF v
  <2>3. HandlerStep
    BY <1>5, <2>1, <2>2 DEF HandlerStep, Writes, Changed, Then, ThenMark
  <2>4. ControlOK'
    BY <1>0, <1>5, <2>1, <2>2, StoredIsPresent DEF ControlOK, Asking, Then, ThenMark, HandlerHasSession
  <2>5. QED BY <2>3, <2>4
<1>6. QED
  BY <1>1, <1>2, <1>3, <1>4, <1>5
  DEF CreateSession, ReadSession, ClearMemory, ClearHistory

LEMMA SweepStep ==
    ASSUME DInv, ListSessions \/ CleanupExpired
    PROVE  HandlerStep /\ ControlOK'
<1>0. ControlOK
  BY DEF DInv
<1>1. CASE at = "idle" /\ WaitsForItself
  BY <1>0, <1>1 DEF WaitsForItself, HandlerStep, Quiet, Changed, ControlOK, Asking, HandlerHasSession
<1>2. CASE /\ at = "idle" /\ Remove({s \in Live : Expired(s)})
           /\ UNCHANGED <<cvars, at, after, cur, clock, query, failures>>
  <2>1. {s \in Live : Expired(s)} \in SUBSET Sessions
    BY DEF Live
  <2>2. HandlerStep
    BY <1>2, <2>1 DEF HandlerStep, Removes, Changed
  <2>3. ControlOK'
    BY <1>0, <1>2 DEF ControlOK, Asking, HandlerHasSession
  <2>4. QED BY <2>2, <2>3
<1>3. QED BY <1>1, <1>2 DEF ListSessions, CleanupExpired

LEMMA GoesOnStep ==
    ASSUME DInv, HandlerGoesOn
    PROVE  HandlerStep /\ ControlOK'
<1>0. /\ ControlOK /\ mem \in [Sessions -> Stored \cup {Absent}] /\ Fresh \in Stored
      /\ Len(Fresh.msgs) <= MaxMessages
  BY FreshType DEF DInv, DataOK
<1>1. CASE Cut
  <2>1. cur \in Sessions /\ mem[cur] \in Stored
    BY <1>0, <1>1 DEF Cut, ControlOK, HandlerHasSession
  <2> DEFINE v == [mem[cur] EXCEPT !.msgs = Truncated(@)]
  <2>2. /\ v \in Stored /\ Len(v.msgs) <= MaxMessages
        /\ \A m : EndsWith(mem[cur].msgs, m) => EndsWith(v.msgs, m)
    BY <2>1, CutType
  <2>3. /\ at = "cut" /\ at' = "mark" /\ mem' = [mem EXCEPT ![cur] = v]
        /\ UNCHANGED <<cvars, file, after, cur, save, clock, query, failures>>
    BY <1>0, <1>1 DEF Cut
  <2> HIDE DEF v
  <2>4. HandlerStep
    BY <2>1, <2>2, <2>3 DEF HandlerStep, Writes, Changed
  <2>5. ControlOK'
    BY <1>0, <2>1, <2>2, <2>3, StoredIsPresent DEF ControlOK, Asking, HandlerHasSession
  <2>6. QED BY <2>4, <2>5
<1>2. CASE UpdateState
  <2>1. cur \in Sessions
    BY <1>0, <1>2 DEF UpdateState, ControlOK, HandlerHasSession
  <2>2. mem[cur] \in Stored
    BY <1>0, <1>2, <2>1 DEF UpdateState, ControlOK
  <2> DEFINE v == [mem[cur] EXCEPT !.state = query]
  <2>3. v \in Stored /\ v.msgs = mem[cur].msgs
    BY <1>0, <2>2, WrittenType DEF Stored, Content
  <2>4. /\ at = "answer" /\ UNCHANGED query /\ ThenMark(cur, "reply")
        /\ mem' = [mem EXCEPT ![cur] = v]
    BY <1>0, <1>2 DEF UpdateState
  <2> HIDE DEF v
  <2>5. HandlerStep
    BY <2>1, <2>3, <2>4 DEF HandlerStep, Writes, Changed, Then, ThenMark
  <2>8. /\ query \in 1..MaxQueries /\ EndsWith(v.msgs, [role |-> "user", q |-> query])
        /\ Len(v.msgs) <= MaxMessages
    BY <1>0, <2>2, <2>3, <2>4, StoredIsPresent DEF ControlOK, Asking
  <2>9. mem'[cur'] = v /\ query' = query /\ at' = "mark" /\ after' = "reply" /\ cur' = cur
    BY <1>0, <2>1, <2>4 DEF Then, ThenMark
  <2>6. ControlOK'
    BY <1>0, <2>1, <2>3, <2>4, <2>8, <2>9, StoredIsPresent
    DEF ControlOK, Asking, Then, ThenMark, HandlerHasSession
  <2>7. QED BY <2>5, <2>6
<1>3. CASE NoEntities
  BY <1>0, <1>3 DEF NoEntities, HandlerStep, Quiet, Changed, ControlOK, Asking, HandlerHasSession
<1>4. CASE Reply
  <2>1. cur \in Sessions /\ query \in 1..MaxQueries /\ at \notin Changed
    BY <1>0, <1>4 DEF Changed, Reply, ControlOK, Asking, HandlerHasSession
  <2>3. mem[cur] # Absent => EndsWith(mem[cur].msgs, [role |-> "user", q |-> query])
    BY <1>0, <1>4 DEF Reply, ControlOK, Asking
  <2>2. QED BY <1>4, <2>1, <2>3, AddTurnStep DEF Reply
<1>5. CASE Mark
  BY <1>0, <1>5 DEF Mark, HandlerStep, ControlOK, Asking, HandlerHasSession
<1>6. CASE CreateAgain
  <2>1. cur \in Sessions /\ at = "create"
    BY <1>0, <1>6 DEF CreateAgain, ControlOK, HandlerHasSession
  <2>2. CASE WaitsForItself
    BY <1>0, <2>1, <2>2
    DEF WaitsForItself, HandlerStep, Quiet, Changed, ControlOK, Asking, HandlerHasSession
  <2>3. CASE ~WaitsForItself
    <3>1. mem' = [mem EXCEPT ![cur] = Fresh] /\ UNCHANGED query /\ ThenMark(cur, "idle")
      BY <1>6, <2>3 DEF CreateAgain
    <3>2. HandlerStep
      BY <1>0, <2>1, <3>1 DEF HandlerStep, Writes, Changed, Then, ThenMark
    <3>3. ControlOK'
      BY <1>0, <2>1, <3>1, StoredIsPresent
         DEF ControlOK, Asking, Then, ThenMark, HandlerHasSession
    <3>4. QED BY <3>2, <3>3
  <2>4. QED BY <2>2, <2>3
<1>7. QED BY <1>1, <1>2, <1>3, <1>4, <1>5, <1>6 DEF HandlerGoesOn

-----------------------------------------------------------------------------
\* mark_dirty and the Timers never touch a batch that is being saved.
LEMMA TakeKeepsSavers ==
    ASSUME CInv, NEW t \in Threads, pc[t] # "saving", NEW d, Take(t, d)
    PROVE  /\ \A u \in Threads : pc[u] = "saving" =>
                pc'[u] = "saving" /\ batch'[u] = batch[u]
           /\ \A u \in Threads : pc'[u] = "saving" => u = t \/ pc[u] = "saving"
<1> DEFINE q == [pc EXCEPT ![t] = IF d = {} THEN "off" ELSE "saving"]
<1>0. pc \in [Threads -> Phase] /\ batch \in [Threads -> SUBSET Sessions]
      /\ timer \in Timers \cup {NoTimer}
  BY DEF CInv, CTypeOK
<1>1. q \in [Threads -> Phase]
  BY <1>0 DEF Phase
<1>2. \A u \in Threads : u # t => q[u] = pc[u]
  BY <1>0
<1>3. pc' = Cancelled(q) /\ batch' = [batch EXCEPT ![t] = d]
  BY DEF Take
<1>4. /\ \A u \in Threads : q[u] # "armed" => pc'[u] = q[u]
      /\ \A u \in Threads : pc'[u] \in {q[u], "off"}
  <2> HIDE DEF q
  <2>1. QED BY <1>0, <1>1, <1>3, CancelledType
<1> HIDE DEF q
<1>5. QED BY <1>0, <1>2, <1>3, <1>4

LEMMA OthersKeepSavers ==
    ASSUME CInv,
           \/ \E s \in Sessions : MarkDirty(s)
           \/ \E t \in Timers : TimerTakes(t) \/ TimerFires(t)
    PROVE  \A u \in Threads : pc[u] = "saving" =>
             pc'[u] = "saving" /\ batch'[u] = batch[u]
<1>0. pc \in [Threads -> Phase] /\ batch \in [Threads -> SUBSET Sessions]
  BY DEF CInv, CTypeOK
<1>1. ASSUME NEW s \in Sessions, MarkDirty(s)
      PROVE  \A u \in Threads : pc[u] = "saving" =>
               pc'[u] = "saving" /\ batch'[u] = batch[u]
  <2>0. pc[Main] = "off"
    BY <1>1 DEF MarkDirty
  <2>1. CASE MarkFlushes(s)
    <3>1. Main \in Threads /\ pc[Main] # "saving" /\ Take(Main, dirty \cup {s})
      BY <2>0, <2>1 DEF MarkFlushes, Threads
    <3>2. QED BY <3>1, TakeKeepsSavers
  <2>2. CASE MarkArms(s)
    BY <1>0, <2>2 DEF MarkArms
  <2>3. CASE MarkOnly(s)
    BY <2>3 DEF MarkOnly
  <2>4. QED BY <1>1, <2>1, <2>2, <2>3 DEF MarkDirty
<1>2. ASSUME NEW t \in Timers, TimerTakes(t)
      PROVE  \A u \in Threads : pc[u] = "saving" =>
               pc'[u] = "saving" /\ batch'[u] = batch[u]
  <2>1. t \in Threads /\ pc[t] # "saving" /\ Take(t, dirty)
    BY <1>2 DEF TimerTakes, Threads
  <2>2. QED BY <2>1, TakeKeepsSavers
<1>3. ASSUME NEW t \in Timers, TimerFires(t)
      PROVE  \A u \in Threads : pc[u] = "saving" =>
               pc'[u] = "saving" /\ batch'[u] = batch[u]
  BY <1>0, <1>3 DEF TimerFires
<1>4. QED BY <1>1, <1>2, <1>3

\* What a save that ends does to the other threads: nothing.
LEMMA SaveReturnsFrame ==
    ASSUME CInv, NEW t \in Threads, NEW s, SaveReturns(t, s)
    PROVE  /\ s \in Sessions /\ pc[t] = "saving"
           /\ batch'[t] = batch[t] \ {s}
           /\ \A u \in Threads : u # t => pc'[u] = pc[u] /\ batch'[u] = batch[u]
           /\ dirty' = dirty
BY DEF SaveReturns, CInv, CTypeOK

-----------------------------------------------------------------------------
LEMMA QuietKeepsData ==
    ASSUME DInv, Quiet PROVE DataOK'
BY DEF DInv, DataOK, Quiet, cvars

LEMMA WriteKeepsData ==
    ASSUME DInv, NEW s \in Sessions, NEW v \in Stored, Writes(s, v)
    PROVE  DataOK'
<1>1. \A x \in Sessions : mem'[x] = IF x = s THEN v ELSE mem[x]
  BY DEF DInv, DataOK, Writes
<1>2. mem' \in [Sessions -> Stored \cup {Absent}]
  BY DEF DInv, DataOK, Writes
<1>3. ASSUME NEW t \in Threads, save[t].st = "got", save[t].ref = Absent
      PROVE  mem'[save[t].sid] # Absent
  <2>1. save[t].sid \in Sessions
    BY <1>3 DEF DInv, DataOK, CInv, CTypeOK
  <2>2. QED BY <1>1, <1>3, <2>1, StoredIsPresent DEF DInv, DataOK
<1>4. QED BY <1>2, <1>3 DEF DInv, DataOK, Writes, cvars

LEMMA RemoveKeepsData ==
    ASSUME DInv, NEW D \in SUBSET Sessions, Removes(D)
    PROVE  DataOK'
<1>0. DataOK /\ CInv
  BY DEF DInv
<1>1. /\ mem' \in [Sessions -> Stored \cup {Absent}]
      /\ \A x \in Sessions : mem'[x] = IF x \in D THEN Absent ELSE mem[x]
  BY <1>0 DEF DataOK, Removes, Remove
<1>2. file' \in [Sessions -> Stored \cup {Absent, Torn}]
  BY <1>0 DEF DataOK, Removes, Remove
<1>3. ASSUME NEW t \in Threads
      PROVE  /\ save'[t] \in SaveRecord
             /\ save'[t].sid = save[t].sid
             /\ save'[t].st # "none" => save[t].st # "none"
             /\ save'[t].st = "got" /\ save'[t].ref = Absent =>
                  /\ save[t].st = "got" /\ save[t].ref = Absent
                  /\ save[t].sid \notin D
  <2>1. save[t] \in SaveRecord
    BY <1>0 DEF DataOK
  <2>2. CASE save[t].sid \notin D
    <3>1. save'[t] = save[t]
      BY <2>2 DEF Removes, Remove
    <3>2. QED BY <2>1, <2>2, <3>1
  <2>3. CASE save[t].sid \in D /\ save[t].st = "open"
    <3>1. save'[t] = [save[t] EXCEPT !.st = "orphan"]
      BY <2>3 DEF Removes, Remove
    <3>2. QED BY <2>1, <2>3, <3>1 DEF SaveRecord
  <2>4. CASE save[t].sid \in D /\ save[t].st = "got" /\ save[t].ref = Absent
    <3>1. save'[t] = [save[t] EXCEPT !.ref = mem[save[t].sid]]
      BY <2>4 DEF Removes, Remove
    <3>2. mem[save[t].sid] \in Stored
      BY <1>0, <2>4 DEF DataOK
    <3>3. QED BY <2>1, <2>4, <3>1, <3>2, StoredIsPresent DEF SaveRecord
  <2>5. CASE save[t].sid \in D /\ save[t].st # "open"
             /\ ~(save[t].st = "got" /\ save[t].ref = Absent)
    <3>1. save'[t] = save[t]
      BY <2>5 DEF Removes, Remove
    <3>2. QED BY <2>1, <2>5, <3>1
  <2>6. QED BY <2>2, <2>3, <2>4, <2>5
<1>4. save' \in [Threads -> SaveRecord]
  <2>1. save' = [t \in Threads |-> save'[t]]
    BY DEF Removes, Remove
  <2>2. QED BY <1>3, <2>1
<1>5. \A t \in Threads : save'[t].st # "none" =>
        pc'[t] = "saving" /\ save'[t].sid \in batch'[t]
  BY <1>0, <1>3 DEF DataOK, Removes, cvars
<1>6. \A t \in Threads : save'[t].st = "got" /\ save'[t].ref = Absent =>
        mem'[save'[t].sid] # Absent
  <2>1. SUFFICES ASSUME NEW t \in Threads, save'[t].st = "got", save'[t].ref = Absent
                 PROVE  mem'[save'[t].sid] # Absent
    OBVIOUS
  <2>2. save[t].st = "got" /\ save[t].ref = Absent /\ save[t].sid \notin D
        /\ save'[t].sid = save[t].sid
    BY <1>3, <2>1
  <2>3. save[t].sid \in Sessions
    BY <1>0, <2>2 DEF DataOK, CInv, CTypeOK
  <2>4. QED BY <1>0, <1>1, <2>2, <2>3 DEF DataOK
<1>7. QED BY <1>1, <1>2, <1>4, <1>5, <1>6 DEF DataOK

LEMMA MarkKeepsData ==
    ASSUME DInv, Mark PROVE DataOK'
<1>1. /\ DataOK /\ CInv
      /\ cur \in Sessions /\ MarkDirty(cur) /\ UNCHANGED <<mem, file, save>>
  BY DEF DInv, ControlOK, HandlerHasSession, Mark
<1>2. \A u \in Threads : pc[u] = "saving" => pc'[u] = "saving" /\ batch'[u] = batch[u]
  BY <1>1, OthersKeepSavers
<1>3. QED BY <1>1, <1>2 DEF DataOK

LEMMA TimerKeepsData ==
    ASSUME DInv, NEW t \in Timers, Fires(t) \/ Takes(t)
    PROVE  DataOK'
<1>1. /\ DataOK /\ CInv /\ UNCHANGED <<mem, file, save>>
      /\ TimerTakes(t) \/ TimerFires(t)
  BY DEF DInv, Fires, Takes, mvars
<1>2. \A u \in Threads : pc[u] = "saving" => pc'[u] = "saving" /\ batch'[u] = batch[u]
  BY <1>1, OthersKeepSavers
<1>3. QED BY <1>1, <1>2 DEF DataOK

LEMMA SaveKeepsData ==
    ASSUME DInv, NEW t \in Threads, SaveStep(t)
    PROVE  DataOK'
<1>0. DataOK /\ CInv
  BY DEF DInv
<1>1. ASSUME NEW s \in Sessions, SaveSkips(t, s) PROVE DataOK'
  <2>1. save[t] = NoSave /\ SaveReturns(t, s) /\ UNCHANGED <<mem, file, save>>
    BY <1>1 DEF SaveSkips, mvars
  <2>2. \A u \in Threads : u # t => pc'[u] = pc[u] /\ batch'[u] = batch[u]
    BY <1>0, <2>1, SaveReturnsFrame
  <2>3. QED BY <1>0, <2>1, <2>2 DEF DataOK, NoSave
<1>2. ASSUME NEW s \in Sessions, SaveLooksUp(t, s) PROVE DataOK'
  <2> DEFINE r == [st |-> "got", sid |-> s, ref |-> Absent]
  <2>1. /\ pc[t] = "saving" /\ s \in batch[t] /\ mem[s] # Absent
        /\ save' = [save EXCEPT ![t] = r]
        /\ UNCHANGED <<cvars, mem, file>>
    BY <1>2 DEF SaveLooksUp
  <2>2. r \in SaveRecord /\ r.st = "got" /\ r.sid = s
    BY DEF SaveRecord
  <2> HIDE DEF r
  <2>3. QED BY <1>0, <2>1, <2>2 DEF DataOK, cvars
<1>3. CASE SaveOpens(t)
  <2> DEFINE s == save[t].sid
             r == [save[t] EXCEPT !.st = "open",
                                  !.ref = IF @ = Absent THEN mem[s] ELSE @]
  <2>1. /\ save[t].st = "got" /\ file' = [file EXCEPT ![s] = Torn]
        /\ save' = [save EXCEPT ![t] = r]
        /\ UNCHANGED <<cvars, mem>>
    BY <1>0, <1>3 DEF SaveOpens, DataOK
  <2>2. s \in Sessions /\ save[t] \in SaveRecord
    BY <1>0, <2>1 DEF DataOK, CInv, CTypeOK
  <2>3. r \in SaveRecord /\ r.st = "open" /\ r.sid = s
    BY <1>0, <2>2 DEF DataOK, SaveRecord
  <2>4. file' \in [Sessions -> Stored \cup {Absent, Torn}]
    BY <1>0, <2>1 DEF DataOK
  <2> HIDE DEF r
  <2>5. QED BY <1>0, <2>1, <2>3, <2>4 DEF DataOK, cvars
<1>4. CASE SaveCloses(t) \/ SaveFails(t)
  <2> DEFINE s == save[t].sid
  <2>1. /\ SaveReturns(t, s) /\ save' = [save EXCEPT ![t] = NoSave]
        /\ UNCHANGED mem
        /\ \/ UNCHANGED file
           \/ file' = [file EXCEPT ![s] = save[t].ref]
           \/ file' = [file EXCEPT ![s] = Torn]
    BY <1>4 DEF SaveCloses, SaveFails
  <2>2. \A u \in Threads : u # t => pc'[u] = pc[u] /\ batch'[u] = batch[u]
    BY <1>0, <2>1, SaveReturnsFrame
  <2>3. NoSave \in SaveRecord /\ NoSave.st = "none" /\ save[t] \in SaveRecord
    BY <1>0 DEF NoSave, SaveRecord, DataOK
  <2>4. save[t].ref \in Stored \cup {Absent}
    BY <2>3 DEF SaveRecord
  <2>5. file' \in [Sessions -> Stored \cup {Absent, Torn}]
    BY <1>0, <2>1, <2>4 DEF DataOK
  <2>6. QED BY <1>0, <2>1, <2>2, <2>3, <2>5 DEF DataOK
<1>5. QED BY <1>1, <1>2, <1>3, <1>4 DEF SaveStep

LEMMA RestartKeepsData ==
    ASSUME DInv, Restart PROVE DataOK' /\ ControlOK'
<1>1. \A s \in Sessions : Loaded(s) \in Stored \cup {Absent}
  BY DEF DInv, DataOK, Loaded
<1>2. NoSave \in SaveRecord /\ NoSave.st = "none"
  BY DEF NoSave, SaveRecord
<1>3. DataOK'
  BY <1>1, <1>2 DEF Restart, DInv, DataOK
<1>4. ControlOK'
  BY DEF Restart, DInv, ControlOK, Asking, HandlerHasSession
<1>5. QED BY <1>3, <1>4

\* The saves leave the handler where it is; only a failure is counted.
LEMMA SaveKeepsControl ==
    ASSUME DInv, NEW t \in Threads, SaveStep(t)
    PROVE  ControlOK'
<1>1. UNCHANGED <<mem, at, after, cur, clock, query>> /\ failures' \in 0..MaxFailures
  BY DEF SaveStep, SaveSkips, SaveLooksUp, SaveOpens, SaveCloses, SaveFails,
         mvars, DInv, ControlOK
<1>2. QED BY <1>1 DEF DInv, ControlOK, Asking, HandlerHasSession

LEMMA DataInit == MInit => DInv
<1> SUFFICES ASSUME MInit PROVE DInv
  OBVIOUS
<1>1. CInv
  BY InitInv DEF MInit
<1>2. NoSave \in SaveRecord /\ NoSave.st = "none"
  BY DEF NoSave, SaveRecord
<1>3. DataOK
  BY <1>2 DEF MInit, DataOK
<1>4. ControlOK
  BY DEF MInit, ControlOK, Asking, HandlerHasSession
<1>5. QED BY <1>1, <1>3, <1>4 DEF DInv

LEMMA DataNext == DInv /\ [MNext]_vars => DInv'
<1> SUFFICES ASSUME DInv, [MNext]_vars PROVE DInv'
  OBVIOUS
<1>0. CInv'
  BY MemoryStep, NextInv DEF DInv, SInv, ControlOK
<1>1. CASE Handler \/ HandlerGoesOn
  <2>1. HandlerStep /\ ControlOK'
    BY <1>1, QueryStep, RequestStep, SweepStep, GoesOnStep DEF Handler
  <2>2. DataOK'
    BY <2>1, QuietKeepsData, WriteKeepsData, RemoveKeepsData, MarkKeepsData
    DEF HandlerStep
  <2>3. QED BY <1>0, <2>1, <2>2 DEF DInv
<1>2. CASE Tick
  <2>1. clock' \in 0..MaxClock
    BY <1>2 DEF Tick, DInv, ControlOK
  <2>2. QED BY <1>0, <1>2, <2>1 DEF Tick, DInv, ControlOK, Asking, DataOK, HandlerHasSession, cvars
<1>3. CASE Restart
  BY <1>0, <1>3, RestartKeepsData DEF DInv
<1>4. ASSUME NEW t \in Timers, Fires(t) \/ Takes(t) PROVE DInv'
  <2>1. ControlOK'
    BY <1>4 DEF Fires, Takes, mvars, DInv, ControlOK, Asking, HandlerHasSession
  <2>2. QED BY <1>0, <1>4, <2>1, TimerKeepsData DEF DInv
<1>5. ASSUME NEW t \in Threads, SaveStep(t) PROVE DInv'
  BY <1>0, <1>5, SaveKeepsData, SaveKeepsControl DEF DInv
<1>6. CASE UNCHANGED vars
  BY <1>0, <1>6 DEF vars, mvars, cvars, DInv, ControlOK, Asking, DataOK, HandlerHasSession
<1>7. QED BY <1>1, <1>2, <1>3, <1>4, <1>5, <1>6 DEF MNext

\* The inductive invariant of memory, files and saves.
THEOREM MemoryData == MSpec => []DInv
BY DataInit, DataNext, PTL DEF MSpec

\* Type correctness: from add_turn's mark_dirty to the answer, a session's history
\* is within 2 * max_turns messages, also when the one that was loaded from a
\* file written between append and cut was longer.
THEOREM MemoryTypes == MSpec => []MTypeOK
<1>1. DInv => MTypeOK
  <2> SUFFICES ASSUME DInv PROVE MTypeOK
    OBVIOUS
  <2>1. ASSUME NEW t \in Threads
        PROVE  save[t].st \in {"none", "got", "open", "orphan"}
    BY DEF DInv, DataOK, SaveRecord
  <2>2. ASSUME NEW s \in Sessions
        PROVE  /\ mem[s] # Absent => mem[s] \in Content
               /\ file[s] \notin {Absent, Torn} => file[s] \in Content
    BY DEF DInv, DataOK, Stored
  <2>3. QED BY <2>1, <2>2 DEF DInv, ControlOK, CInv, MTypeOK
<1>2. QED BY <1>1, MemoryData, PTL

\* While a question is being answered the history ends with it, and every
\* answer follows its own question: also in a session that another process has
\* saved and this one has loaded.
THEOREM AnswersAlwaysFollow == MSpec => []AnswersFollowQuestions
<1>1. DInv => AnswersFollowQuestions
  <2> SUFFICES ASSUME DInv, NEW s \in Live
      PROVE  LET m == mem[s].msgs IN
             /\ cur = s /\ (at \in {"answer", "reply"} \/ (Unmarked(s) /\ after # "idle"))
                  => m # <<>> /\ m[Len(m)] = [role |-> "user", q |-> query]
             /\ \A i \in 2..Len(m) :
                  m[i].role = "assistant" => m[i-1] = [role |-> "user", q |-> m[i].q]
    BY DEF AnswersFollowQuestions
  <2>1. mem[s] # Absent /\ mem[s] \in Stored
    BY DEF Live, DInv, DataOK
  <2>2. QED BY <2>1 DEF Stored, Paired, DInv, ControlOK, Asking, EndsWith, Unmarked
<1>2. QED BY <1>1, MemoryData, PTL

-----------------------------------------------------------------------------
\* The sessions that have been changed since they were last taken into a batch.
Pending == dirty \cup (IF at \in Changed THEN {cur} ELSE {})

OneSaver ==
    \A t, u \in Threads : pc[t] = "saving" /\ pc[u] = "saving" => t = u

\* What a save is going to write is what the session is now, or the session is
\* gone, or it has been changed since and will be saved again.
SavesAreCurrent ==
    \A t \in Threads :
      LET s == save[t].sid IN
      /\ save[t].st = "got" => mem[s] = Absent \/ save[t].ref = Absent \/ s \in Pending
      /\ save[t].st = "open" =>
           file[s] = Torn /\ (mem[s] \in {Absent, save[t].ref} \/ s \in Pending)
      /\ save[t].st = "orphan" => mem[s] = Absent \/ s \in Pending

WInv == OneSaver /\ SavesAreCurrent /\ NoLostWrite

LEMMA OutstandingHas ==
    /\ dirty \subseteq Outstanding
    /\ \A t \in Threads : batch[t] \subseteq Outstanding
BY DEF Outstanding

\* The end of a save takes only its own session off the outstanding ones.
LEMMA ReturnTakesOff ==
    ASSUME CInv, NEW t \in Threads, NEW s \in Sessions, SaveReturns(t, s)
    PROVE  \A x \in Outstanding : x # s => x \in Outstanding'
BY SaveReturnsRefines DEF Queue!Save

LEMMA HandlerKeepsWrites ==
    ASSUME DInv, WInv, Quiet \/ (\E s \in Sessions, v \in Stored : Writes(s, v))
    PROVE  WInv'
<1>0. UNCHANGED <<dirty, pc, batch, file, save>>
  BY DEF Quiet, Writes, cvars
<1>1. Outstanding' = Outstanding
  BY <1>0 DEF Outstanding
<1>2. CASE Quiet
  BY <1>0, <1>1, <1>2 DEF Quiet, WInv, OneSaver, SavesAreCurrent, NoLostWrite, Unmarked, Changed, Pending
<1>3. ASSUME NEW s \in Sessions, NEW v \in Stored, Writes(s, v) PROVE WInv'
  <2>1. \A x \in Sessions : x # s => mem'[x] = mem[x]
    BY <1>3 DEF Writes, DInv, DataOK
  <2>2. s \in Pending' /\ Pending \subseteq Pending'
    BY <1>0, <1>3 DEF Writes, Pending, Changed
  <2>3. NoLostWrite'
    BY <1>0, <1>1, <1>3, <2>1 DEF Writes, WInv, NoLostWrite, Unmarked, Changed
  <2>4. SavesAreCurrent'
    <3>1. SUFFICES ASSUME NEW t \in Threads, save[t].st # "none"
                   PROVE  /\ save[t].st = "got" =>
                               \/ mem'[save[t].sid] = Absent
                               \/ save[t].ref = Absent \/ save[t].sid \in Pending'
                          /\ save[t].st = "open" =>
                               /\ file[save[t].sid] = Torn
                               /\ \/ mem'[save[t].sid] \in {Absent, save[t].ref}
                                  \/ save[t].sid \in Pending'
                          /\ save[t].st = "orphan" =>
                               mem'[save[t].sid] = Absent \/ save[t].sid \in Pending'
      BY <1>0 DEF SavesAreCurrent
    <3>2. save[t].sid \in Sessions
      BY <3>1 DEF DInv, DataOK, CInv, CTypeOK
    <3>3. CASE save[t].sid = s
      BY <2>2, <3>3 DEF WInv, SavesAreCurrent
    <3>4. CASE save[t].sid # s
      BY <2>1, <2>2, <3>2, <3>4 DEF WInv, SavesAreCurrent
    <3>5. QED BY <3>3, <3>4
  <2>5. QED BY <1>0, <2>3, <2>4 DEF WInv, OneSaver
<1>4. QED BY <1>2, <1>3

LEMMA RemoveKeepsWrites ==
    ASSUME DInv, WInv, NEW D \in SUBSET Sessions, Removes(D)
    PROVE  WInv'
<1>0. UNCHANGED <<dirty, pc, batch>> /\ at \notin Changed /\ at' \notin Changed
  BY DEF Removes, cvars
<1>1. Outstanding' = Outstanding /\ Pending' = Pending
  BY <1>0 DEF Outstanding, Pending, Changed
<1>2. \A x \in Sessions : /\ mem'[x] = IF x \in D THEN Absent ELSE mem[x]
                          /\ x \notin D => file'[x] = file[x]
  BY DEF Removes, Remove
<1>3. NoLostWrite'
  BY <1>0, <1>1, <1>2 DEF WInv, NoLostWrite, Unmarked, Changed
<1>4. ASSUME NEW t \in Threads
      PROVE  LET s == save'[t].sid IN
             /\ save'[t].st = "got" =>
                  mem'[s] = Absent \/ save'[t].ref = Absent \/ s \in Pending'
             /\ save'[t].st = "open" =>
                  file'[s] = Torn /\ (mem'[s] \in {Absent, save'[t].ref} \/ s \in Pending')
             /\ save'[t].st = "orphan" => mem'[s] = Absent \/ s \in Pending'
  <2>0. save[t] \in SaveRecord
    BY DEF DInv, DataOK
  <2>1. CASE save[t].sid \notin D
    <3>1. save'[t] = save[t]
      BY <2>1 DEF Removes, Remove
    <3>2. save[t].st # "none" => save[t].sid \in Sessions
      BY DEF DInv, DataOK, CInv, CTypeOK
    <3>3. QED BY <1>1, <1>2, <2>1, <3>1, <3>2 DEF WInv, SavesAreCurrent
  <2>2. CASE save[t].sid \in D
    <3>1. mem'[save[t].sid] = Absent
      BY <1>2, <2>2
    <3>2. save'[t].sid = save[t].sid /\ save'[t].st # "open"
      BY <2>0, <2>2 DEF Removes, Remove, SaveRecord
    <3>3. QED BY <3>1, <3>2
  <2>3. QED BY <2>1, <2>2
<1>5. SavesAreCurrent'
  BY <1>4 DEF SavesAreCurrent
<1>6. QED BY <1>0, <1>3, <1>5 DEF WInv, OneSaver

\* A batch is taken when nobody is saving: everything that was pending is
\* outstanding afterwards, and the one saver is the thread that took it.
LEMMA TakeKeepsWrites ==
    ASSUME DInv, WInv, UNCHANGED <<mem, file, save, cur>>,
           \A u \in Threads : pc[u] # "saving",
           NEW t \in Threads, NEW d \in SUBSET Sessions, dirty \subseteq d, Take(t, d),
           at \in Changed => cur \in d \/ at' \in Changed
    PROVE  WInv'
<1>1. Outstanding' = Outstanding \cup d
  BY TakeKeepsOutstanding DEF DInv
<1>2. OneSaver'
  BY TakeKeepsSavers DEF DInv, OneSaver
<1>3. NoLostWrite'
  BY <1>1 DEF WInv, NoLostWrite, Unmarked, Changed
<1>4. \A u \in Threads : save[u].st = "none"
  BY DEF DInv, DataOK
<1>5. SavesAreCurrent'
  BY <1>4 DEF SavesAreCurrent
<1>6. QED BY <1>2, <1>3, <1>5 DEF WInv

LEMMA MarkKeepsWrites ==
    ASSUME ~SlowDisk, DInv, WInv, Mark
    PROVE  WInv'
<1>0. /\ CInv /\ DataOK /\ cur \in Sessions /\ at = "mark" /\ MarkDirty(cur)
      /\ UNCHANGED <<mem, file, save, cur>>
      /\ pc'[Main] = "saving" => \A u \in Threads : pc[u] # "saving"
  BY DEF DInv, ControlOK, HandlerHasSession, Mark, MayFlush
<1>1. CASE MarkFlushes(cur)
  <2>1. /\ Take(Main, dirty \cup {cur}) /\ (dirty \cup {cur}) \in SUBSET Sessions
        /\ Main \in Threads
    BY <1>0, <1>1 DEF MarkFlushes, CInv, CTypeOK, Threads
  <2>2. CInv'
    <3>1. CNext
      BY <1>0 DEF CNext
    <3>2. QED BY <1>0, <3>1, NextInv
  <2>3. batch'[Main] = dirty \cup {cur}
    BY <1>0, <2>1 DEF Take, CInv, CTypeOK
  <2>4. pc'[Main] = "saving"
    BY <2>1, <2>2, <2>3 DEF CInv, BatchesAreLive
  <2>5. QED BY <1>0, <2>1, <2>4, TakeKeepsWrites
<1>2. CASE MarkArms(cur) \/ MarkOnly(cur)
  <2>1. dirty' = dirty \cup {cur} /\ batch' = batch
    BY <1>2 DEF MarkArms, MarkOnly
  <2>2. \A u \in Threads : pc'[u] = "saving" => pc[u] = "saving"
    BY <1>0, <1>2 DEF MarkArms, MarkOnly, CInv, CTypeOK
  <2>3. \A x \in Outstanding \cup {cur} : x \in Outstanding'
    BY <2>1 DEF Outstanding
  <2>4. Pending \subseteq Pending'
    BY <1>0, <2>1 DEF Pending, Changed
  <2>5. OneSaver'
    BY <2>2 DEF WInv, OneSaver
  <2>6. NoLostWrite'
    BY <1>0, <2>3 DEF WInv, NoLostWrite, Unmarked, Changed
  <2>7. SavesAreCurrent'
    BY <1>0, <2>4 DEF WInv, SavesAreCurrent
  <2>8. QED BY <2>5, <2>6, <2>7 DEF WInv
<1>3. QED BY <1>0, <1>1, <1>2 DEF MarkDirty

LEMMA TimerKeepsWrites ==
    ASSUME ~SlowDisk, DInv, WInv, NEW t \in Timers, Fires(t) \/ Takes(t)
    PROVE  WInv'
<1>0. UNCHANGED <<mem, file, save, at, cur>> /\ t \in Threads /\ CInv
  BY DEF Fires, Takes, mvars, DInv, Threads
<1>1. CASE Fires(t)
  <2>1. UNCHANGED <<dirty, batch>> /\ \A u \in Threads : pc'[u] = "saving" => pc[u] = "saving"
    BY <1>0, <1>1 DEF Fires, TimerFires, CInv, CTypeOK
  <2>2. Outstanding' = Outstanding /\ Pending' = Pending
    BY <1>0, <2>1 DEF Outstanding, Pending, Changed
  <2>3. QED BY <1>0, <2>1, <2>2 DEF WInv, OneSaver, NoLostWrite, Unmarked, Changed, SavesAreCurrent
<1>2. CASE Takes(t)
  <2>1. /\ \A u \in Threads : pc[u] # "saving"
        /\ Take(t, dirty) /\ dirty \in SUBSET Sessions
    BY <1>0, <1>2 DEF Takes, MayFlush, TimerTakes, CInv, CTypeOK
  <2>2. QED BY <1>0, <2>1, TakeKeepsWrites
<1>3. QED BY <1>1, <1>2

LEMMA SaveKeepsWrites ==
    ASSUME MaxFailures = 0, DInv, WInv, NEW t \in Threads, SaveStep(t)
    PROVE  WInv'
<1>0. DataOK /\ CInv /\ UNCHANGED <<at, cur, mem>>
  BY DEF DInv, SaveStep, SaveSkips, SaveLooksUp, SaveOpens, SaveCloses, SaveFails, mvars
<1>1. ASSUME NEW u \in Threads, u # t, pc[t] = "saving"
      PROVE  save[u].st = "none"
  BY <1>0, <1>1 DEF DataOK, WInv, OneSaver
<1>2. ASSUME NEW s \in Sessions, SaveReturns(t, s) PROVE OneSaver' /\ dirty' = dirty
  <2>1. pc[t] = "saving" /\ dirty' = dirty /\ \A u \in Threads : u # t => pc'[u] = pc[u]
    BY <1>0, <1>2, SaveReturnsFrame
  <2>2. QED BY <2>1 DEF WInv, OneSaver
<1>3. ASSUME NEW s \in Sessions, SaveSkips(t, s) PROVE WInv'
  <2>1. SaveReturns(t, s) /\ UNCHANGED <<mem, file, save, at, cur>> /\ mem[s] = Absent
    BY <1>3 DEF SaveSkips, mvars
  <2>2. OneSaver' /\ dirty' = dirty
    BY <1>2, <2>1
  <2>3. NoLostWrite'
    BY <1>0, <2>1, ReturnTakesOff DEF WInv, NoLostWrite, Unmarked, Changed
  <2>4. SavesAreCurrent'
    BY <2>1, <2>2 DEF WInv, SavesAreCurrent, Pending, Changed
  <2>5. QED BY <2>2, <2>3, <2>4 DEF WInv
<1>4. ASSUME NEW s \in Sessions, SaveLooksUp(t, s) PROVE WInv'
  <2> DEFINE r == [st |-> "got", sid |-> s, ref |-> Absent]
  <2>1. save' = [save EXCEPT ![t] = r] /\ UNCHANGED <<cvars, mem, file, at, cur>>
    BY <1>4 DEF SaveLooksUp
  <2>2. save'[t] = r /\ \A u \in Threads : u # t => save'[u] = save[u]
    BY <1>0, <2>1 DEF DataOK
  <2>3. SavesAreCurrent'
    BY <2>1, <2>2 DEF WInv, SavesAreCurrent, Pending, Changed, cvars
  <2>4. OneSaver' /\ NoLostWrite'
    BY <2>1 DEF WInv, OneSaver, NoLostWrite, Unmarked, Changed, Outstanding, cvars
  <2>5. QED BY <2>3, <2>4 DEF WInv
<1>5. CASE SaveOpens(t)
  <2> DEFINE s == save[t].sid
             r == [save[t] EXCEPT !.st = "open",
                                  !.ref = IF @ = Absent THEN mem[s] ELSE @]
  <2>1. /\ save[t].st = "got" /\ file' = [file EXCEPT ![s] = Torn]
        /\ save' = [save EXCEPT ![t] = r]
        /\ UNCHANGED <<cvars, mem, at, cur>>
    BY <1>0, <1>5 DEF SaveOpens, DataOK
  <2>2. /\ s \in Sessions /\ s \in batch[t] /\ pc[t] = "saving"
        /\ save[t] \in SaveRecord
    BY <1>0, <2>1 DEF DataOK, CInv, CTypeOK
  <2>3. save'[t] = r /\ \A u \in Threads : u # t => save'[u].st = "none"
    BY <1>0, <1>1, <2>1, <2>2 DEF DataOK
  <2>4. /\ r.st = "open" /\ r.sid = s
        /\ r.ref = IF save[t].ref = Absent THEN mem[s] ELSE save[t].ref
    BY <2>2 DEF SaveRecord
  <2>5. file'[s] = Torn /\ \A x \in Sessions : x # s => file'[x] = file[x]
    BY <1>0, <2>1, <2>2 DEF DataOK
  <2>6. Outstanding' = Outstanding /\ s \in Outstanding
        /\ Pending' = Pending
    BY <2>1, <2>2, OutstandingHas DEF Outstanding, Pending, Changed, cvars
  <2>7. NoLostWrite'
    BY <2>1, <2>5, <2>6 DEF WInv, NoLostWrite, Unmarked, Changed
  <2>8. mem[s] \in {Absent, r.ref} \/ s \in Pending
    BY <2>1, <2>4 DEF WInv, SavesAreCurrent
  <2> HIDE DEF r
  <2>9. SavesAreCurrent'
    BY <2>1, <2>3, <2>4, <2>5, <2>6, <2>8 DEF SavesAreCurrent
  <2>10. QED BY <2>1, <2>7, <2>9 DEF WInv, OneSaver, cvars
<1>6. CASE SaveCloses(t)
  <2> DEFINE s == save[t].sid
  <2>1. /\ save[t].st \in {"open", "orphan"}
        /\ SaveReturns(t, s) /\ save' = [save EXCEPT ![t] = NoSave]
    BY <1>6 DEF SaveCloses
  <2>2. s \in Sessions /\ pc[t] = "saving"
    BY <1>0, <2>1 DEF DataOK, CInv, CTypeOK
  <2>3. OneSaver' /\ dirty' = dirty
    BY <1>2, <2>1, <2>2
  <2>4. Pending' = Pending
    BY <1>0, <2>3 DEF Pending, Changed
  <2>5. \A u \in Threads : save'[u].st = "none"
    BY <1>0, <1>1, <2>1, <2>2 DEF DataOK, NoSave
  <2>6. \A x \in Outstanding : x # s => x \in Outstanding'
    BY <1>0, <2>1, <2>2, ReturnTakesOff
  <2>7. CASE save[t].st = "open"
    <3>1. file[s] = Torn /\ (mem[s] \in {Absent, save[t].ref} \/ s \in Pending)
      BY <2>7 DEF WInv, SavesAreCurrent
    <3>2. file' = [file EXCEPT ![s] = save[t].ref]
      BY <1>6, <2>7, <3>1 DEF SaveCloses
    <3>3. file'[s] = save[t].ref /\ \A x \in Sessions : x # s => file'[x] = file[x]
      BY <1>0, <2>2, <3>2 DEF DataOK
    <3>4. s \in Pending => s \in Outstanding' \/ (at' \in Changed /\ cur' = s)
      BY <1>0, <2>3 DEF Pending, Changed, Outstanding
    <3>5. QED BY <1>0, <2>6, <3>1, <3>3, <2>3, <2>5, <3>4
          DEF WInv, NoLostWrite, Unmarked, Changed, SavesAreCurrent
  <2>8. CASE save[t].st = "orphan"
    <3>1. mem[s] = Absent \/ s \in Pending
      BY <2>8 DEF WInv, SavesAreCurrent
    <3>2. file' = file
      BY <1>6, <2>8 DEF SaveCloses
    <3>3. s \in Pending => s \in Outstanding' \/ (at' \in Changed /\ cur' = s)
      BY <1>0, <2>3 DEF Pending, Changed, Outstanding
    <3>4. QED BY <1>0, <2>3, <2>5, <2>6, <3>1, <3>2, <3>3 DEF WInv, NoLostWrite, Unmarked, Changed, SavesAreCurrent
  <2>9. QED BY <2>1, <2>7, <2>8
<1>7. CASE SaveFails(t)
  <2>1. failures < 0 /\ failures \in 0..0
    BY <1>7 DEF SaveFails, DInv, ControlOK
  <2>2. QED BY <2>1
<1>8. QED BY <1>3, <1>4, <1>5, <1>6, <1>7 DEF SaveStep

LEMMA RestartKeepsWrites ==
    ASSUME DInv, WInv, Restart PROVE WInv'
<1>1. \A t \in Threads : pc'[t] = "off" /\ save'[t].st = "none"
  BY DEF Restart, NewProcess, NoSave
<1>2. \A s \in Sessions : mem'[s] \in {Absent, file[s]} /\ file'[s] = file[s]
  BY DEF Restart, Loaded
<1>3. QED BY <1>1, <1>2 DEF WInv, OneSaver, SavesAreCurrent, NoLostWrite, Unmarked, Changed

\* With a disk that keeps up and does not fail, whatever is newer in memory
\* than on disk is on its way there.
THEOREM NothingIsLost ==
    ASSUME ~SlowDisk, MaxFailures = 0
    PROVE  MSpec => []NoLostWrite
<1>1. MInit => WInv
  <2> SUFFICES ASSUME MInit PROVE WInv
    OBVIOUS
  <2>1. \A t \in Threads : pc[t] = "off" /\ save[t].st = "none"
    BY DEF MInit, CInit, NoSave
  <2>2. \A s \in Sessions : mem[s] = Absent
    BY DEF MInit
  <2>3. QED BY <2>1, <2>2 DEF WInv, OneSaver, SavesAreCurrent, NoLostWrite, Unmarked, Changed
<1>2. DInv /\ WInv /\ [MNext]_vars => WInv'
  <2> SUFFICES ASSUME DInv, WInv, [MNext]_vars PROVE WInv'
    OBVIOUS
  <2>1. CASE Handler \/ HandlerGoesOn
    <3>1. HandlerStep
      BY <2>1, QueryStep, RequestStep, SweepStep, GoesOnStep DEF Handler
    <3>2. QED BY <3>1, HandlerKeepsWrites, RemoveKeepsWrites, MarkKeepsWrites
              DEF HandlerStep
  <2>2. CASE Tick \/ UNCHANGED vars
    BY <2>2 DEF Tick, vars, mvars, cvars, WInv, OneSaver, SavesAreCurrent, NoLostWrite, Unmarked, Changed,
                Pending, Outstanding
  <2>3. CASE Restart
    BY <2>3, RestartKeepsWrites
  <2>4. ASSUME NEW t \in Timers, Fires(t) \/ Takes(t) PROVE WInv'
    BY <2>4, TimerKeepsWrites
  <2>5. ASSUME NEW t \in Threads, SaveStep(t) PROVE WInv'
    BY <2>5, SaveKeepsWrites
  <2>6. QED BY <2>1, <2>2, <2>3, <2>4, <2>5 DEF MNext
<1>3. WInv => NoLostWrite
  BY DEF WInv
<1>4. QED BY <1>1, <1>2, <1>3, MemoryData, PTL DEF MSpec

\* With such a disk a session that nothing is outstanding for is found again,
\* as it was, by the process that loads the files.
THEOREM RestartFindsSaved ==
    ASSUME ~SlowDisk, MaxFailures = 0
    PROVE  MSpec => RestartKeepsSaved
<1> DEFINE Found ==
      \A s \in Loadable :
         Restart /\ mem[s] # Absent /\ s \notin Outstanding
                 /\ ~Unmarked(s)
         => mem'[s] = mem[s]
<1>1. DInv /\ NoLostWrite => [Found]_vars
  <2> SUFFICES ASSUME DInv, NoLostWrite, NEW s \in Loadable, Restart,
                      mem[s] # Absent, s \notin Outstanding,
                      ~Unmarked(s)
               PROVE  mem'[s] = mem[s]
    OBVIOUS
  <2>1. s \in Sessions /\ mem[s] \in Stored
    BY LoadableSessions DEF DInv, DataOK
  <2>2. file[s] = mem[s]
    BY <2>1 DEF NoLostWrite, Unmarked, Changed
  <2>3. file[s] # Torn
    BY <2>1, <2>2, TornIsNone DEF Stored
  <2>4. QED BY <2>1, <2>2, <2>3 DEF Restart, Loaded
<1>2. QED BY <1>1, MemoryData, NothingIsLost, PTL DEF RestartKeepsSaved
=============================================================================
