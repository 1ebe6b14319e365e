---------------------------- MODULE SessionMemory ----------------------------
(***************************************************************************)
(* Conversation memory: the two memory adapters                            *)
(* (backend/adapters/memory/langgraph_memory.py, the default, and          *)
(* json_file_memory.py), the write coalescer under them, the session files *)
(* on disk, and the callers that drive them from the event loop            *)
(* (backend/orchestration/graph.py SupportGraph.query, the session routes  *)
(* of backend/api/routes.py).                                              *)
(*                                                                         *)
(* The event loop is one thread (Main) and a handler that touches memory   *)
(* has no await in it, so handlers do not interleave with each other: they *)
(* interleave with the Timer threads, which read the session dictionary    *)
(* and write the files without the memory lock.  A mutation and the        *)
(* mark_dirty call that follows it are therefore two steps here, the       *)
(* append and the cut of a history are two, and a save is three: look the  *)
(* session up, open and serialise, close.                                  *)
(*                                                                         *)
(* The memory lock is a plain threading.Lock: a method that holds it and   *)
(* calls delete_session waits for itself.  That is the event loop's phase  *)
(* "stuck": the server answers nothing more, the Timer threads go on.      *)
(***************************************************************************)
EXTENDS WriteCoalescer, Sequences

CONSTANTS
    Backend,       \* memory_backend: "langgraph" or "json"
    Loadable,      \* the sessions whose id matches the glob session_*.json
    Absent,        \* no entry in the dictionary; no file
    Torn,          \* a file whose text is not a complete JSON object
    MaxTurns,      \* memory_max_turns
    MaxSessions,   \* _max_sessions
    Timeout,       \* session_timeout_minutes, in ticks; 0 disables expiry
    MaxClock,      \* bound: ticks of the clock
    MaxQueries,    \* bound: questions asked
    SlowDisk,      \* may one flush start while another is still writing?
    MaxFailures    \* bound: saves that raise

ASSUME BackendKnown == Backend \in {"langgraph", "json"}
ASSUME LoadableSessions == Loadable \subseteq Sessions
ASSUME BoundsAreNat ==
    /\ {MaxSessions, MaxClock, MaxQueries, Timeout, MaxFailures} \subseteq Nat
    /\ MaxTurns \in Nat \ {0}
    /\ SlowDisk \in BOOLEAN

VARIABLES
    mem,       \* _sessions: mem[s] is the session's dictionary, or Absent
    file,      \* file[s]: what sessions/<s>.json holds, Torn, or Absent
    at,        \* where the event loop is in its current handler
    after,     \* where it goes when mark_dirty has returned
    cur,       \* the session the handler works on
    save,      \* save[t]: how far thread t is in _save_session
    clock,     \* the time, in ticks
    query,     \* questions asked so far; a turn carries its question's number
    failures   \* saves that have raised so far

mvars == <<mem, file, at, after, cur, save, clock, query, failures>>
vars == <<cvars, mvars>>

\* A message: who spoke, in which question-and-answer exchange.
Turn == [role : {"user", "assistant"}, q : 1..MaxQueries]

\* A session's dictionary: `state' carries the number of the question that last
\* wrote it (0: empty).
Content == [msgs : Seq(Turn), state : 0..MaxQueries, last : 0..MaxClock]

ASSUME AbsentIsNone == Absent \notin Content
ASSUME TornIsNone == Torn \notin Content

Fresh == [msgs |-> <<>>, state |-> 0, last |-> clock]

\* "none" not saving, "got" holds the dictionary, "open" the file is
\* truncated and the text serialised, "orphan" the open file was unlinked.
\* ref: the text to write; in phase "got", the dictionary itself when it has
\* been dropped from _sessions meanwhile, else Absent (it is still mem[sid]).
NoSave == [st |-> "none", sid |-> Absent, ref |-> Absent]

Idle == pc[Main] = "off"
Live == {s \in Sessions : mem[s] # Absent}
MaxMessages == MaxTurns * 2

\* s has been changed, and mark_dirty(s) not yet called.
Unmarked(s) == at \in {"cut", "mark"} /\ cur = s

\* The type invariant.  A history may be longer than 2 * max_turns: a save can
\* write it after the append and before the cut, and the next process loads
\* what was written.  But none goes into a prompt, or is left by add_turn, that
\* is: whatever was loaded, it is cut before mark_dirty is called.
MTypeOK ==
    /\ CTypeOK
    /\ \A s \in Sessions :
         /\ mem[s] # Absent => mem[s] \in Content
         /\ file[s] \notin {Absent, Torn} => file[s] \in Content
    /\ at \in {"idle", "cut", "mark", "answer", "reply", "create", "stuck"}
    /\ after \in {"idle", "answer", "reply"}
    /\ cur \in Sessions \cup {Absent}
    /\ at \in {"mark", "answer", "reply"} /\ mem[cur] # Absent =>
         Len(mem[cur].msgs) <= MaxMessages
    /\ \A t \in Threads : save[t].st \in {"none", "got", "open", "orphan"}
    /\ clock \in 0..MaxClock /\ query \in 0..MaxQueries
    /\ failures \in 0..MaxFailures

MInit ==
    /\ CInit
    /\ mem = [s \in Sessions |-> Absent]
    /\ file = [s \in Sessions |-> Absent]
    /\ at = "idle" /\ after = "idle" /\ cur = Absent
    /\ save = [t \in Threads |-> NoSave]
    /\ clock = 0 /\ query = 0 /\ failures = 0

-----------------------------------------------------------------------------
\* _is_expired
Expired(s) == Timeout > 0 /\ clock - mem[s].last > Timeout

\* len(self._sessions) >= self._max_sessions
Full == Cardinality(Live) >= MaxSessions

\* The handler calls delete_session while it holds the memory lock.
WaitsForItself ==
    /\ at' = "stuck"
    /\ UNCHANGED <<cvars, mem, file, after, cur, save, clock, query, failures>>

\* The handler has changed s: phase `first' is next, to the call of mark_dirty;
\* then phase `next'.
Then(first, s, next) ==
    /\ at' = first /\ after' = next /\ cur' = s
    /\ UNCHANGED <<cvars, file, save, clock, failures>>

ThenMark(s, next) == Then("mark", s, next)

\* the slice [-max_messages:]
KeepAll(msgs) == msgs          \* mutant: the slice forgotten

KeepFirst(msgs) ==             \* mutant: [:max_messages]
    SubSeq(msgs, 1, IF Len(msgs) > MaxMessages THEN MaxMessages ELSE Len(msgs))

Truncated(msgs) ==
    IF Len(msgs) > MaxMessages
    THEN SubSeq(msgs, Len(msgs) - MaxMessages + 1, Len(msgs))
    ELSE msgs

\* add_turn(s, role, ...): a missing session is created by the LangGraph
\* backend and ignored by the JSON one; an expired one, or a full store, ends
\* in delete_session under the lock.  The message is appended; a history that is
\* then too long is cut in a step of its own.
AddTurn(s, role, q, next) ==
    \/ /\ mem[s] # Absent /\ Expired(s)
       /\ WaitsForItself
    \/ /\ mem[s] # Absent /\ ~Expired(s)
       /\ mem' = [mem EXCEPT ![s].msgs = Append(@, [role |-> role, q |-> q]),
                             ![s].last = clock]
       /\ query' = q
       /\ Then(IF Len(mem[s].msgs) >= MaxMessages THEN "cut" ELSE "mark", s, next)
    \/ /\ mem[s] = Absent /\ Backend = "langgraph" /\ Full
       /\ WaitsForItself
    \/ /\ mem[s] = Absent /\ Backend = "langgraph" /\ ~Full
       /\ mem' = [mem EXCEPT ![s] =
                    [Fresh EXCEPT !.msgs = <<[role |-> role, q |-> q]>>]]
       /\ query' = q
       /\ ThenMark(s, next)
    \/ /\ mem[s] = Absent /\ Backend = "json"
       /\ at' = next /\ cur' = s /\ query' = q
       /\ UNCHANGED <<cvars, mem, file, after, save, clock, failures>>

Cut ==
    /\ at = "cut"
    /\ mem' = [mem EXCEPT ![cur].msgs = Truncated(@)]
    /\ at' = "mark"
    /\ UNCHANGED <<cvars, file, after, cur, save, clock, query, failures>>

\* SupportGraph.query, first half: the question is stored, then history and
\* state are read (the session was touched in this instant: not expired).
Query(s) ==
    /\ at = "idle" /\ Idle
    /\ query < MaxQueries
    /\ AddTurn(s, "user", query + 1, "answer")

\* graph.invoke: the LLM may be called, meanwhile Timers run; query then stores
\* discussed_entities if there are any (the JSON backend has no update_state).
UpdateStateUnmarked ==         \* mutant: mark_dirty forgotten
    /\ at = "answer" /\ Idle
    /\ Backend = "langgraph"
    /\ mem' = [mem EXCEPT ![cur].state = query]
    /\ at' = "reply"
    /\ UNCHANGED <<cvars, file, after, cur, save, clock, query, failures>>

UpdateState ==
    /\ at = "answer" /\ Idle
    /\ Backend = "langgraph"
    /\ mem' = [mem EXCEPT ![cur].state = query]
    /\ UNCHANGED query
    /\ ThenMark(cur, "reply")

NoEntities ==
    /\ at = "answer" /\ Idle
    /\ at' = "reply"
    /\ UNCHANGED <<cvars, mem, file, after, cur, save, clock, query, failures>>

\* SupportGraph.query, second half: the answer, or the apology that stands in
\* for it when graph.invoke raised, is stored.
Reply ==
    /\ at = "reply" /\ Idle
    /\ AddTurn(cur, "assistant", query, "idle")

\* The mark_dirty call that ends every mutation.
MayFlush == SlowDisk \/ \A t \in Threads : pc[t] # "saving"

Mark ==
    /\ at = "mark"
    /\ MarkDirty(cur)
    /\ pc'[Main] = "saving" => MayFlush
    /\ at' = after
    /\ UNCHANGED <<mem, file, after, cur, save, clock, query, failures>>

\* POST /sessions
CreateSession(s) ==
    /\ at = "idle" /\ Idle
    /\ \/ /\ mem[s] # Absent /\ Expired(s)
          /\ WaitsForItself
       \/ /\ mem[s] = Absent /\ Full
          /\ WaitsForItself
       \/ /\ mem[s] = Absent /\ ~Full
          /\ mem' = [mem EXCEPT ![s] = Fresh]
          /\ UNCHANGED query
          /\ ThenMark(s, "idle")

\* GET /sessions/{id}, POST /sessions/{id}/history: they change nothing,
\* unless the session has expired.
ReadSession(s) ==
    /\ at = "idle" /\ Idle
    /\ mem[s] # Absent /\ Expired(s)
    /\ WaitsForItself

\* What is left of the sessions in D, in the dictionary and on disk.  A save
\* that has looked one of them up keeps the dictionary it found; one that
\* has its file open goes on writing to the unlinked file.
Remove(D) ==
    /\ mem' = [s \in Sessions |-> IF s \in D THEN Absent ELSE mem[s]]
    /\ file' = [s \in Sessions |-> IF s \in D THEN Absent ELSE file[s]]
    /\ save' = [t \in Threads |->
                  IF save[t].sid \notin D THEN save[t]
                  ELSE IF save[t].st = "open" THEN [save[t] EXCEPT !.st = "orphan"]
                  ELSE IF save[t].st = "got" /\ save[t].ref = Absent
                       THEN [save[t] EXCEPT !.ref = mem[save[t].sid]]
                  ELSE save[t]]

\* DELETE /sessions/{id}
DeleteSession(s) ==
    /\ at = "idle" /\ Idle
    /\ mem[s] # Absent
    /\ Remove({s})
    /\ UNCHANGED <<cvars, at, after, cur, clock, query, failures>>

\* POST /sessions/{id}/memory/clear: get_session_info, delete, create
ClearMemory(s) ==
    /\ at = "idle" /\ Idle
    /\ mem[s] # Absent
    /\ \/ /\ Expired(s)
          /\ WaitsForItself
       \/ /\ ~Expired(s)
          /\ Remove({s})
          /\ at' = "create" /\ cur' = s
          /\ UNCHANGED <<cvars, after, clock, query, failures>>

\* The store can be full still: files are loaded however many there are.
CreateAgain ==
    /\ at = "create" /\ Idle
    /\ \/ /\ Full
          /\ WaitsForItself
       \/ /\ ~Full
          /\ mem' = [mem EXCEPT ![cur] = Fresh]
          /\ UNCHANGED query
          /\ ThenMark(cur, "idle")

\* POST /sessions/{id}/history/clear
ClearHistory(s) ==
    /\ at = "idle" /\ Idle
    /\ mem[s] # Absent
    /\ \/ /\ Expired(s)
          /\ WaitsForItself
       \/ /\ ~Expired(s)
          /\ mem' = [mem EXCEPT ![s].msgs = <<>>, ![s].last = clock]
          /\ UNCHANGED query
          /\ ThenMark(s, "idle")

\* GET /sessions: the LangGraph backend removes what has expired in place,
\* the JSON backend calls delete_session for it.
ListSessions ==
    /\ at = "idle" /\ Idle
    /\ \E s \in Live : Expired(s)
    /\ \/ /\ Backend = "langgraph"
          /\ Remove({s \in Live : Expired(s)})
          /\ UNCHANGED <<cvars, at, after, cur, clock, query, failures>>
       \/ /\ Backend = "json"
          /\ WaitsForItself

\* POST /memory/cleanup
CleanupExpired ==
    /\ at = "idle" /\ Idle
    /\ \E s \in Live : Expired(s)
    /\ WaitsForItself

\* Time passes between requests; a handler is over within a tick.
Tick ==
    /\ at \in {"idle", "stuck"} /\ clock < MaxClock
    /\ clock' = clock + 1
    /\ UNCHANGED <<cvars, mem, file, at, after, cur, save, query, failures>>

-----------------------------------------------------------------------------
\* Timer threads reach _flush and the save loop.
Fires(t) ==
    /\ TimerFires(t)
    /\ UNCHANGED mvars

Takes(t) ==
    /\ MayFlush
    /\ TimerTakes(t)
    /\ UNCHANGED mvars

\* _save_session(s), first line: no entry, nothing to write.
SaveSkips(t, s) ==
    /\ save[t] = NoSave
    /\ mem[s] = Absent
    /\ SaveReturns(t, s)
    /\ UNCHANGED mvars

SaveLooksUp(t, s) ==
    /\ pc[t] = "saving" /\ s \in batch[t] /\ save[t] = NoSave
    /\ mem[s] # Absent
    /\ save' = [save EXCEPT ![t] = [st |-> "got", sid |-> s, ref |-> Absent]]
    /\ UNCHANGED <<cvars, mem, file, at, after, cur, clock, query, failures>>

\* open(path, "w") truncates the file, json.dump reads the dictionary the
\* thread holds, at whatever point of a handler this is; the text stays in the
\* buffer until the file is closed.
SaveOpens(t) ==
    LET s == save[t].sid IN
    /\ save[t].st = "got"
    /\ file' = [file EXCEPT ![s] = Torn]
    /\ save' = [save EXCEPT ![t].st = "open",
                            ![t].ref = IF @ = Absent THEN mem[s] ELSE @]
    /\ UNCHANGED <<cvars, mem, at, after, cur, clock, query, failures>>

\* The buffer is written from offset 0.  If another thread has closed the
\* same file since, what is left is this text or a mixture of both.
SaveCloses(t) ==
    LET s == save[t].sid IN
    /\ save[t].st \in {"open", "orphan"}
    /\ \/ /\ save[t].st = "open"
          /\ file' = [file EXCEPT ![s] = save[t].ref]
       \/ /\ save[t].st = "open" /\ file[s] \notin {Torn, save[t].ref}
          /\ file' = [file EXCEPT ![s] = Torn]
       \/ /\ save[t].st = "orphan"
          /\ UNCHANGED file
    /\ save' = [save EXCEPT ![t] = NoSave]
    /\ SaveReturns(t, s)
    /\ UNCHANGED <<mem, at, after, cur, clock, query, failures>>

\* open or json.dump raises (disk full): logged, and the file is left as it is.
SaveFails(t) ==
    /\ failures < MaxFailures
    /\ save[t].st # "none"
    /\ failures' = failures + 1
    /\ save' = [save EXCEPT ![t] = NoSave]
    /\ SaveReturns(t, save[t].sid)
    /\ UNCHANGED <<mem, file, at, after, cur, clock, query>>

\* The process ends, by a crash or in order (nothing is flushed then), and a
\* new one runs _load_sessions.
LoadedActive(s) ==             \* mutant: expired sessions are not loaded
    IF s \in Loadable /\ file[s] \notin {Torn, Absent}
    THEN IF Timeout > 0 /\ clock - file[s].last > Timeout THEN Absent ELSE file[s]
    ELSE Absent

Loaded(s) == IF s \in Loadable /\ file[s] # Torn THEN file[s] ELSE Absent

Restart ==
    /\ NewProcess
    /\ mem' = [s \in Sessions |-> Loaded(s)]
    /\ at' = "idle" /\ after' = "idle" /\ cur' = Absent
    /\ save' = [t \in Threads |-> NoSave]
    /\ UNCHANGED <<file, clock, query, failures>>

-----------------------------------------------------------------------------
Handler ==
    \/ \E s \in Sessions :
         \/ Query(s) \/ CreateSession(s) \/ ReadSession(s) \/ DeleteSession(s)
         \/ ClearMemory(s) \/ ClearHistory(s)
    \/ ListSessions \/ CleanupExpired

HandlerGoesOn ==
    \/ Cut \/ Mark \/ UpdateState \/ NoEntities \/ Reply \/ CreateAgain

SaveStep(t) ==
    \/ \E s \in Sessions : SaveSkips(t, s) \/ SaveLooksUp(t, s)
    \/ SaveOpens(t) \/ SaveCloses(t) \/ SaveFails(t)

MNext ==
    \/ Handler \/ HandlerGoesOn \/ Tick \/ Restart
    \/ \E t \in Timers : Fires(t) \/ Takes(t)
    \/ \E t \in Threads : SaveStep(t)

MSpec == MInit /\ [][MNext]_vars

\* A handler that has begun goes on to its end, Timers fire, saves end.
MFairness ==
    /\ WF_vars(HandlerGoesOn)
    /\ \A t \in Timers : WF_vars(Fires(t)) /\ WF_vars(Takes(t))
    /\ \A t \in Threads : WF_vars(SaveStep(t))

MFairSpec == MSpec /\ MFairness

-----------------------------------------------------------------------------
\* Whatever is newer in memory than on disk is on its way to disk: in the
\* dirty set, in a batch not yet written, or about to be marked.
NoLostWrite ==
    \A s \in Sessions :
      mem[s] # Absent /\ file[s] # mem[s] =>
        s \in Outstanding \/ Unmarked(s)

\* While a question is being answered, the history that goes into the prompt
\* ends with that question; every other answer in memory directly follows its
\* own question, unless truncation has cut the question off.
AnswersFollowQuestions ==
    \A s \in Live :
      LET m == mem[s].msgs IN
      /\ cur = s /\ (at \in {"answer", "reply"} \/ (Unmarked(s) /\ after # "idle"))
           => m # <<>> /\ m[Len(m)] = [role |-> "user", q |-> query]
      /\ \A i \in 2..Len(m) :
           m[i].role = "assistant" => m[i-1] = [role |-> "user", q |-> m[i].q]

\* A session nobody is writing survives a restart: what the process knew is
\* what the next one finds.
RestartKeepsSaved ==
    [][\A s \in Loadable :
         Restart /\ mem[s] # Absent /\ s \notin Outstanding /\ ~Unmarked(s)
         => mem'[s] = mem[s]]_vars

-----------------------------------------------------------------------------
\* Claims of the documentation that the code does not keep.

\* README.md:351 and routes.py:332: expired sessions are pruned.  (The event
\* loop must survive meeting one.)
NeverStuck == at # "stuck"

\* README.md:12: the conversation persists across restarts.  Here: when the
\* server is stopped between two requests.
StoppedBetweenRequests == Restart /\ at = "idle" /\ pc[Main] = "off"

StopKeepsSessions ==
    [][StoppedBetweenRequests => \A s \in Loadable : mem'[s] = mem[s]]_vars
=============================================================================
