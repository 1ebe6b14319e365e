# Verification of the GigaCorp customer support agent

TLA+ models of the backend in `backend/` (Python, FastAPI), checked with TLC on
small instances and, for the properties that matter most, proved with TLAPS for
every value of the constants. Source paths below are relative to the repository.

## 1. The system

One process runs one asyncio event loop. Handlers are `async def`; they interleave
where they await, which in this code means at the database. Everything about a
conversation (`SupportGraph.query`, the memory adapters, the LLM call) is plain
synchronous code inside one handler, so those parts of two handlers never
interleave. The only other threads are `threading.Timer` threads that write session
files. PostgreSQL runs at READ COMMITTED; each request has one transaction, which
FastAPI commits before it sends the response. A page in the browser is a process of its own: its
clicks run to their first await and go on when the server answers.

| Part | State it keeps | Operations | Hard behaviour |
|---|---|---|---|
| Write coalescer (`cache.py`) | dirty set, reference to a Timer, lock | `mark_dirty`, `_flush`, `flush_now`, `shutdown` | Timers that fire while they are cancelled; a flush nested under the lock; a request between copy and save |
| Conversation memory (`adapters/memory/`) | dictionary of sessions, one JSON file per session | create, add turn, update state, clear, delete, expire, evict, save, load | saves without the memory lock, restarts, a plain lock taken twice |
| Session API and chat (`api/routes.py`, `orchestration/graph.py`) | none of its own | question, session routes | the order of the writes around the LLM call |
| Database unit of work (`auth/database.py`) | a transaction per request | commit, rollback | partial UPDATEs, stale reads |
| Orders, returns, exchanges (`customer/service.py`, `admin/router.py`) | rows of `orders`, `order_status_logs`, `return_requests`, `exchange_requests` | cancel, return, exchange, two status updates, approve, reject | requests decide on a row that another is about to change |
| Tickets (same files) | rows of `support_tickets`, `ticket_comments` | create, status, comment, escalate, reopen, admin update, admin comment | numbers from a count, races of partial UPDATEs |
| Shipments (`customer/tracker.py`, `admin/router.py`) | shipment and its events | track, create, two updates | reading writes: tracking advances a simulated courier by the shipment's age, while the administrator sets any status |
| Knowledge base (`knowledge_base/`, `adapters/vector_store/`) | index, two lists, three files | ingest, rebuild, delete, search, load | crash between files, ids reused |
| Accounts (`auth/`, `main.py`) | users, refresh tokens, the seeded profile | register, login, refresh, logout, password change, start | racing registrations; which rows a condition written in Python selects; restarts in between |
| Caches and limiter (`cache.py`, `security.py`) | two dictionaries per cache, time stamps per client | get, set, evict, clear, check | two dictionaries that must agree through expiry and eviction; the edge of a sliding window |
| Answering (`orchestration/`) | state of one question, entities under discussion | classify, retrieve, route, answer, generate | what one question leaves behind decides how the next is read |
| Sockets, notifications (`enterprise/websocket/`, `enterprise/routes.py`) | connection tables | connect, send, disconnect | the table changes while a send awaits |
| Chat page (`react-frontend/`, `useChat`, `streamChat`) | session shown, messages, one stream | send, new, switch, delete, events of a stream | clicks and chunks between two awaits |

Interactions: the chat handler calls memory, memory marks sessions dirty in its
coalescer, the coalescer calls back `_save_session` from Timer threads. Customer and
administrator handlers meet only in the database. PROJECT.json lists every
component with what is modelled of it, and every hazard with the line where it bites.

What makes each part correct, in one line: the coalescer forgets no request; memory
newer than disk is on its way to disk and comes back after a restart; the history
of an order agrees with the order; ticket numbers are unique and, within a year,
without gaps; a finished ticket says when; a request takes effect as a whole; a hit of a
search is answered with the text it was embedded from; a shipment's status is one its timeline tells
of; accounts are distinct and come with a token; both dictionaries of a cache have the same keys; a
notification reaches every open socket; an answer is about the asking customer's things and the one
named; a message holds no words of another session.

## 2. Modules

```
SaveQueue            what the coalescer promises
  ^ implemented by (WriteCoalescer!Queue)
WriteCoalescer       backend/cache.py, class WriteCoalescer
  ^ extended by
SessionMemory        memory adapters, files, chat and session handlers
UnitOfWork           what an UPDATE sends and does (operators only)
  ^ extended by
OrderLifecycle, TicketLifecycle, ShipmentTracker, Accounts
TicketNumbers        create_ticket
VectorStore          KnowledgeBaseManager over the FAISS or the Chroma adapter
RecencyList          what an LRU cache promises
  ^ implemented by (LRUCache!R)
LRUCache             backend/cache.py, class LRUCache
RateLimiter          backend/security.py, class RateLimiter
Sockets              the notification sockets and sends to them
Answering            the graph of nodes a question passes through
ChatClient           the chat of the React page

MCServices      = WriteCoalescer | LRUCache | RateLimiter | Sockets
MCRecords       = TicketNumbers | TicketLifecycle | ShipmentTracker | Accounts
MCConversation  = Answering | ChatClient
MCOrderLifecycle, MCSessionMemory, MCVectorStore
```

The modules of one `MC` module in the last group but one share no state and do not wait for each
other, so all their interleavings follow from each alone: a behaviour chooses its `part` at the
beginning and takes the steps of that. Where one run asks about requests side by side and in turn,
`serving` is the set of requests in use, chosen at the beginning.

The theorems are in `WriteCoalescerProofs` and `SessionMemoryProofs` (memory), `OrderLifecycleProofs`,
`TicketProofs` (both ticket modules), `RecordProofs` (shipments, accounts), `ServiceProofs` (caches,
limiter, sockets), `VectorStoreProofs` and `ConversationProofs` (answering, chat page). What is proved of requests
in turn is about `serving`, so `OrderLifecycleProofs` and `RecordProofs` extend the `MC` modules that declare it; their
theorems, too, are for every value of the constants. Operators whose comment begins with
"mutant" are deliberately wrong variants of the definition after them; no
specification uses them. Each property is seen to fail when a definition of the
model is exchanged for its mutant.

### WriteCoalescer

`dirty` and `timer` are `_dirty` and `_timer`; `pc` says what each thread is doing
(`armed`: a Timer waits; `fired`: it is past its interval and at the entry of
`_flush`; `saving`: in the loop over its batch); `batch[t]` is the local copy that
thread `t` still has to save. `mark_dirty` is `MarkDirty`, with its three branches as
actions of their own; the critical section of `_flush` is `Take`, one round of the
loop is `SaveReturns`, which stands for a `save_fn` that returned and for one that raised.
`_lock` is held across steps only when `mark_dirty` flushes (`nested`): a Timer
then waits, and the other critical sections are atomic. `NewProcess` ends the process
in any state.

### SessionMemory

`mem` is `_sessions`, `file` the directory of session files. `at`, `after` and `cur` are
the program counter of the event loop: between the append of a message and the cut of the history, between the
change of a session and its `mark_dirty`, between question and answer, between the deletion and the re-creation of
`memory/clear`, or `stuck`. `save[t]` is how far a thread is in `_save_session`: it has
looked the session up, or it has the file open (then the file is truncated on
disk), or that file has been unlinked. A message carries who spoke and the number of the question it
belongs to; `state` carries the number of the question that wrote it. `add_turn` appends (`AddTurn`), then replaces the list by its
last messages (`Cut`), and a Timer thread that saves takes no memory lock: it can read the session between the
two, so a file, and after a restart the dictionary, may hold a longer history than `2 * max_turns`.
What is bounded (`MTypeOK`) is the history that a handler works with from `mark_dirty` on, the one that a prompt gets.
`Backend` chooses the adapter: the JSON one ignores a turn for an unknown session, has
no state, and calls `delete_session` when it purges.

Abstractions:

- A handler is over within a tick of the clock, so a session does not expire between
  two steps of one handler (the unit is the minute, `session_timeout_minutes`).
- `json.dump` reads the session in one step when the file has been opened, at any point of a handler. (It
  walks the dictionary in Python; a walk that raises is `SaveFails`.)
- The `summary` of a session stays empty: only `_build_history` writes one, which no path reaches (section 6).
- A new session always has a new dictionary; a save that holds a deleted one keeps
  what it had (`ref`).
- `SlowDisk = FALSE` assumes that a flush is over before the next one starts (two seconds
  later); `SlowDisk = TRUE` drops that. `MaxFailures` bounds the saves that raise.
- Eviction appears only as what it does: it waits for its own lock. `CreateAgain` meets it too, because files are loaded
  however many there are: the store can be over-full when a session's place has been freed.

### UnitOfWork, OrderLifecycle, TicketLifecycle

Every handler loads a row and decides (an action named for the handler), flushes
(UPDATE of the columns that differ from those loaded, INSERTs), and is committed or rolled
back by `get_db`. `Changes` and `Updated` of `UnitOfWork` say what SQLAlchemy sends
and what PostgreSQL does with it; an UPDATE holds its row until the transaction ends, and a
request with no UPDATE waits for nobody. These are the modules' external assumptions, written from how the code
uses the libraries. A refusal (`ValueError`, 400, 404) changes nothing and is not a step.

One order, or one ticket, is modelled: no handler touches two. Of a time stamp the models
keep whether it is NULL. `OrderLifecycle` lets time pass for the return window and
for RMA numbers, which hold the time. `log` holds the entries in the order of
`created_at` (assigned at the flush), which is how `get_order_status_log` sorts them; rows
inserted by a request are `pending` until it commits and `gone` when it is rolled back.

### TicketNumbers

`creating[r]` has read the count, or has inserted and not yet committed. An INSERT waits for
an uncommitted one of the same number, and fails on a committed one. The year is read after
the count, so it may be a later one. `Seeded` tickets of `seed.py` have numbers in another
format: they count and never collide.

### VectorStore

`mem` is the index and the two lists of `FAISSAdapter`, `disk` its three files, `collection` the
documents of Chroma's collection by number of id; `backend` is fixed at the start. A request adds the sources in
`req.todo` in any order (a rebuild sorts its files; no property depends on it) and ends with `result`,
the reply; `result.ok` means that nothing was skipped, which is more than the status "success" of a rebuild, or the "deleted" of a deletion, says. `reported` are the chunks that
any reply has called ingested and that are not cleared since, whether or not the request missed others; `unsaved` says that the last save begun did not end. `at` is the step of the process: between two requests, unlinking the old files (`clear`), between two
sources (`next`), or about to write one of the three files. Handlers call all of this without an await, so
there is one request at a time; but a process may end between any two steps (`Crash`), and an
unlink, a write, a reading or an embedding may fail (`Cleared`, `WriteFails`, `NotAdded`). A file whose write was cut short is
`Torn`: `_load` fails on it and starts with an empty store.

Of a chunk the model keeps its source, which content of the source it was cut from (`version`, the number of
the upload) and its place; `Size` says how many chunks a source has. Scores and the threshold of a search are left out:
`Search` is what the loop makes of one hit. `scripts/ingest.py` is a request
served while no server runs. That `Collection.add` leaves existing ids alone (`Merged`) is an external assumption.

### ShipmentTracker

`Track` is a reading that writes: `_simulate_progress` compares the shipment's age with the table of
its courier (`Patterns`, `Stage`), and when the stage differs from the status loaded, sends status, event and, for
a delivery, the time. `CreateShipment`, `UpdateShipment` and `UpdateDetails` are the administrator's;
`refresh_shipment` is a `Track`. As for orders a request is loaded, flushed (where it waits for another's
UPDATE, or for an INSERT of the same tracking number) and committed or rolled back. `timeline` holds who wrote
an event, which the table does not: the properties speak of it. `Moments` are the minutes at which something
happens, on both sides of the thresholds.

### Accounts

`users` and `tokens` are committed rows; `call[r]` is a request. Registration inserts a user and a token in one
transaction, and waits for an uncommitted user of the same e-mail or username. `NotRevoked` is what
`not RefreshToken.revoked` is in a WHERE clause: Python evaluates the `not`, of a column object, to `False`, so
the queries of refresh, of logout from all devices and of password changes select no row. Login, password
change, the other changes of a user (`ChangeDetails`, one action: nothing here reads those columns) and logout are
requests; `held` is the token in the page, which is set when a reply arrives, and cleared when a logout ends in whatever way. `Restart` ends every
transaction, and may seed the profile of the user created first.

### LRUCache, RecencyList, RateLimiter

Each method runs under a lock (or without an await) and is one action. `cache` and `access` are the two
dictionaries, as functions from the keys that are there; `now` is a reading of `time.monotonic()`, later
than the one before. `RecencyList` is the list that a cache promises to be: `LRUCache` maps its dictionaries
to it by giving each key its place (`Place`), which is one more than the number of keys used later. The caches for embeddings, responses and tokens add a key function
each, and nothing to the state. `RateLimiter` keeps the times of admitted requests; `admitted` remembers all of
them, to say what the code should do without its own pruning, and `stamps` holds the times that the code still has by their
places in `admitted`: of its list only the times and their number are asked for, and two equal times stay two.

### Sockets

`table` is `_connections`, a `defaultdict`: `Under` makes a key when it is missing, and `Disconnect` removes it with the
last socket. `handler[w]` is how far the handler of socket `w` is (accept is awaited; then registration is not interrupted);
`send[x]` is a call of `send_to_user`, over the copy of the set that it made. A round of its loop sends
(`Sent`) or finds that the client has left (`SendFails`), and then discards the socket from the table itself.
A handler ends when its client has left or when any other exception ends its loop (routes.py:57-60; JSON that is a list has no `get`): then the
client is there still, and the server closes the socket. The chat sockets, their table and the sends to it are not modelled.

### Answering

One action is one node of the graph: `Classify`, `RespondGreeting`, `Retrieve`, `Route`, `AnswerNode`, `Generate`; `Ask` and `Finish` are what
`SupportGraph.query` does before and after, and `GraphFails` is a node that raises. A question is a record of what the keyword tables and
regular expressions of the code find in its text; the seventeen questions in `MCConversation` are texts
for which the record was computed by the code's own tables. An answer is a kind and the set of things it tells
about. `hints` are the last messages, by the intent that `_find_last_intent_in_history` finds in their
words (`HintsOf`, from the texts of the answers; `Suggested` are the intents that words of an LLM or of a ticket may suggest). A
word of a question is taken for a tracking number when it is part of one, so `shipments` is the set of those. Answers about the account tell of payment methods, plans
or the tier; the customer's name and default address are left out. Entities are saved only when some are set (`Finish`), as in the code: an answer that ends what
was discussed leaves nothing to save, and the next question finds the old entities.

### ChatClient

A click runs to its first await (`Send`, `SwitchSession`, `NewSession`, `DeleteSession`) and goes on when the server
answers (`SendGoesOn`, `HistoryComes`, ...), whatever has been clicked meanwhile; a stream fetches, reads chunks and
ends. `shown` are the messages of the page, with the session each belongs to and the streams whose words it
holds. `disturbed` becomes true, and stays so, when the customer leaves a session while an answer is coming or a click is
waiting, or when a stream breaks after its `done`: in all three the code mixes sessions, and `ShownIsOwn` and `StreamingIsKnown` speak of the rest.
`LockIsOfLatest` speaks of all behaviours: `isStreaming`, which refuses the next question, is never true of a stream that
has reported its end. That it becomes false is not claimed, because it need not (section 3).

## 3. What is checked

The runs with bounded counters (questions, requests, clock) stop when the bound is
reached, so they say `CHECK_DEADLOCK FALSE`; that something goes on is a matter of the liveness properties.

| Run | Instance | Shows |
|---|---|---|
| `services` | coalescer: 3 sessions, 2 Timers, threshold 3, restarts, no other bound; cache: 3 keys in 2 places, lifetime 2, 6 readings of the clock; limiter: 2 clients, 2 requests in 3 ticks; sockets: 3 of 2 users, one send | no dirty session is stranded (`DirtyIsScheduled`), the coalescer implements `SaveQueue` (`NoRequestLost`); the two dictionaries of a cache are one list by recency of use (`IsRecencyList`); a client is let through exactly as often as it may be (`LimitIsExact`); the table follows the handlers and a send reaches all who stay |
| `session_memory` | LangGraph, 2 sessions (one loadable), store of 1, 2 Timers, histories of 2 messages, 2 questions, 2 ticks, timeout 1 | types and the bound on histories in prompts, `NoLostWrite`, `AnswersFollowQuestions`, `RestartKeepsSaved` |
| `session_liveness` | JSON backend, 2 loadable sessions, overlapping flushes, a failing save, 1 question | what is dirty is taken (`DirtyIsFlushed`), what is taken is handed to `save_fn` (`TakenIsSaved`), also while the event loop is stuck |
| `order_lifecycle` | three seeded orders; 2 requests side by side and 3 served, or one at a time and 4 served | the history ends in the order's status and is rooted, requests take effect as a whole; in turn, the history is a chain, delivered orders are not cancelled and decided refunds stay decided |
| `records` | 3 concurrent creations of tickets, 5 in all, 2 New Years; 2 requests on each of three seeded tickets, one agent; 2 requests on each seeded shipment or a new one, 4 moments, every courier, or one at a time; 2 requests on accounts with 2 e-mails and usernames, 3 days, restarts | numbers are consecutive in the first year, creations fail only when overtaken; times match a ticket's status, escalations are told, assignments are kept; a shipment's status and delivery are those of its timeline, and in turn a courier only goes forward; registrations are whole, the profile is the first user's |
| `vector_store` | 3 files (2 Markdown, one of 2 chunks), inline texts, both backends, 4 requests, 2 failing operations, 2 crashes, restarts at any time | hits are answered rightly (`SearchIsSound`), one crash does no harm (`FirstCrashIsHarmless`), rebuilds repair the lists (`RebuildHeals`), every chunk that any reply has called ingested is in the next process if the last save begun was completed and no rebuild came since, through whatever failed before (`RestartKeepsSuccess`) |
| `conversation` | 17 questions of 3 customers, 3 asked in a session, an LLM, failures anywhere; 2 sessions, 2 streams and 2 waiting clicks of a page | answers are there and about the asker's things (`AnswersAreOwn`); an order named in a question about order status, a ticket in one about tickets and a shipment in one about tracking is what is told of (`NamedIsAnswered`); "it" does not drift to another order (`PronounKeepsOrder`); undisturbed, a message shown is of the current session and holds its own words, and `isStreaming` is true while an answer comes; always, it is that of the latest stream (`LockIsOfLatest`) |

Why the bounds are enough: two Timers give one armed and one fired at once; a third
would repeat the second. Two sessions and a store of one reach eviction, a full and an empty store, and a
batch over the threshold. Histories of one exchange make the second question truncate, and let a save read three messages before the cut; a question put to
such a history after a restart would be a third one and is left to the theorems (`MemoryTypes`). Two ticks with
a timeout of one make a session expire and leave it expired. Two requests
give every interleaving of a pair, and a third lets one of them be followed up; all
properties of orders and tickets relate an order to one or two requests. The theorems
lift the most important ones to every instance. For the knowledge base, a document of two chunks and
one of one tell lengths of lists apart, and two crashes are what it takes to pair files of two stores: the first leaves a
new index with old lists or without any, the second meets it. A cache of two and three keys evicts, and a lifetime
of two within six readings lets an entry expire before and after it was used. The window of a limiter of two is
seen full, sliding by one, and empty again. Three sockets let one leave, one stay and one come while a send is at a
fourth moment. Three questions are what it takes to name an order, to say "it", and to see what is left; two
waiting clicks are a click and one that overtakes it. The largest instances are `vector_store` (6.2 million states) and `conversation` (2.4 million); each takes under two minutes.

Runs that end in a counterexample, each against a statement of the repository that the code
does not keep (PROJECT.json quotes them under "findings"):

| Run | What happens |
|---|---|
| `session_stuck` | an expired session, a full store or a cleanup makes the event loop wait for a lock it holds |
| `session_stop` | an orderly stop loses what is dirty: nobody calls `shutdown` |
| `vector_store_chroma` | the second document is reported as ingested and is not in the collection |
| `refresh_refused` | a refresh token given on the same day and never revoked is refused: the query selects no token |
| `llm_unused` | a support question with relevant documents and an LLM is answered from a template: the answer node comes first |

The same models show more disagreements that need no run of their own: a delivered order is cancelled by a request that read it
before (`DeliveredIsKept` with two requests; service.py:931); two flushes write one file
when a save takes longer than the flush interval, and the older text stays (`NoLostWrite` under `SlowDisk = TRUE`;
README.md:349); a session whose
id does not begin with `session_` is saved and never loaded again (`Loaded`; README.md:350); a
save that began before a deletion writes the file again, and a restart brings the session back
(`SaveOpens` after `DeleteSession`; routes.py:243); approval and rejection of one refund both succeed
when both load it undecided (`DecisionIsKept` with two requests;
admin/router.py:539); a late chunk or history is shown in another session when the customer clicks while
one is awaited (`ShownIsOwn` without `~disturbed`; useChat.ts:97); of two requests to reopen a ticket the second commits on an open one
(service.py:631); a question about tracking that names an order is answered about the order under discussion, or else about the first shipment
(`AnswerTracking`; answers.py:413-436); an answer that should end the discussion of an order leaves it, because an empty dictionary is not saved
(`Finish`; graph.py:214); the page refuses every further question once a stream has ended without `done`, or has been left by
the customer (`Closes`, `FetchReturns`; client.ts:285); a session file can hold one message more than the bound (`SaveOpens` between `AddTurn` and
`Cut`; langgraph_memory.py:90); and a save of the index that fails or is cut short makes the next process begin with an empty store, also without what was reported
before, while a rebuild still replies "success" and a deletion "deleted" (`Torn`; store.py:162, admin/router.py:707). Outside the models:
README.md:15 and :238 say that the documents are ingested when the server starts, and nothing in `main.py` does that.

### Fairness

`CFairness` and `MFairness`, used by `session_liveness` only: a Timer's interval passes, a Timer that waits for the lock gets it
when it is free (weak fairness is enough, because the lock is held only by the event loop's own
save loop, which ends), and a thread that saves goes on. `MFairness` adds that a handler which has begun goes on to its
end: the event loop runs it without a break. Nothing is assumed of callers: no request need
ever arrive, and a handler that waits for its own lock stays where it is. The other modules assume no
fairness and claim no liveness: a client may stop, a transaction may be rolled back, and the page's requests and reads have no
timeout, so a stream may stay for ever without an event (as it does when the event loop is stuck).

## 4. What is proved

Theorems hold for all constants that satisfy the modules' named assumptions. Those are
about kinds (`Main` is not a Timer, `NoRequest` is not a request, a torn file is not a session's content (`TornIsNone`) and not a missing one
(`MarksDiffer`), `NoCall` is not a call (`NoCallIsNone`), bounds are numbers), a positive
threshold or capacity, and seeded rows that are legal (`SeedsAreOrders`: no seeded order
has its payment cancelled; `SeedsAreTickets`: finished ones have their times).

- **Coalescer.** `CInv` is inductive as it stands: types, `DirtyIsScheduled`,
  `TimerIsLive` (the Timer referred to is armed or fired, and no other is armed) and `BatchesAreLive`.
  `DirtyIsScheduled` alone is not inductive: a stale reference to an ended Timer would satisfy it and
  never flush. `CoalescerImplementsQueue` is the refinement, step by step.
- **Memory.** `SInv` adds that a handler between two steps has a session. With it every step of
  memory is a step of the coalescer, by construction but for the handlers' `mark_dirty`, which needs a session; that carries `DirtyIsScheduled` and
  `NoRequestLost` over. `DInv` adds what each phase implies (`ControlOK`) and what
  sessions, files and saves may hold (`DataOK`), and gives `MTypeOK` (`MemoryTypes`), with the bound on
  histories in prompts, whatever was loaded: a history in memory or in a file can have any length that restarts between append and cut make, and `Cut` restores the bound
  from all of them. It needs that a file only ever holds a session or a torn text. What a file holds
  is also a history in which answers follow their questions (`Paired`), and while a question is answered its session
  ends with it; without the first, a restart could bring back a history in which they do not. That is `AnswersAlwaysFollow`.
- **No write is lost.** `NothingIsLost` assumes `~SlowDisk` and no failing save, and is false
  without the first (section 3). Its invariant `WInv` says that only one thread saves
  at a time (`OneSaver`) and that what it is about to write is current, or stale and queued again
  (`SavesAreCurrent`). `RestartFindsSaved` follows from it under the same two assumptions: a session that is neither
  queued nor being saved has its memory on disk.
- **Orders.** `OInv`: a row is held by one request (`LocksAreExclusive`); what a request
  will send and record are the same transition, from a status known to the history
  (`RequestsAreSound`); an uncommitted entry is the latest transition (`PendingIsLatest`); one entry
  per request (`OneEntryEach`). From it `HistoryEndsInStatus` and `HistoryIsRooted`.
  The point is that an UPDATE without a change of status does not hold the row.
  `HistoryChains` and `DecisionsSettle` are about requests one at a time, where `TurnInv` adds that the one request
  still finds the order, or the return, as it has loaded it (`LoadedIsPresent`), that the last visible entry leads to the
  order's status even when it is no transition (`LastLeads`), and that only the last entry may be pending
  (`PendingIsLast`). `LastLeads` is false of requests side by side: a transition that records a status kept, committed
  late, would then be last.
  `RequestsAreWhole` (`AllOrNothing`) rests on `InsertInv`, which adds what a request sends of the payment
  (`PaymentsAreSound`) and which return request it has inserted and not yet committed (`InsertsArePaired`): the two
  cardinalities change together because exactly one row of each becomes visible, or neither.
- **Ticket numbers.** `NInv`: numbers in use are at most the count (`NumbersAreBounded`), those being created at
  most one more (`CreationsAreBounded`), and an inserted one is free (`InsertedIsFree`).
- **Knowledge base.** `VInv`: a file follows its list as soon as it is written, and when something has been reported or stored and no save
  has begun without ending since, disk and memory are equal (`SavesInOrder`); what was reported, or will be by the request under way, is in the lists in memory
  (`ReportedIsHeld`), and the two give `RestartKeepsSuccess`, however many requests and failures lie between report and restart; until the first failure or crash the lists
  agree (`SoundSoFar`, which needs that a rebuild's lists are empty while it unlinks); and while a rebuild runs, whatever the store was before,
  the lists hold exactly the chunks of the files it has finished, and those of all but the missed and the remaining ones
  (`RebuildsAreExact`). The last one is what makes `RebuildHeals` inductive: adding a source keeps chunks
  distinct only because none of its chunks can be there yet. Chroma has its own conjunct, `ChromaIsApart`.
  `CrashIsHarmless` needs one more, `FilesAgree`: until the first failure or crash each file holds a beginning of its
  list, so any two agree as far as both go, and still do while a rebuild unlinks them one by one.
- **Tickets.** `TInv`: the changes a request holds send a time with a finishing status and clear
  times only with the status open (`ChangesAreStamped`).
- **Shipments.** `ShInv`: a request sends a status together with its event, and a time of delivery together with the
  courier's event (`ReadingsAreTold`); at most one has flushed; nothing is told of a shipment that is not there. So what
  two requests write over each other is always told of, although which of the two the row shows is open.
  `CourierGoesOn` is about requests one at a time. Its `CourierInv` says of every event of the courier that it is the stage its
  pattern gives for the age it was written at (`EventsAreStages`), that the last event has the shipment's status
  (`LastIsShown`), and that a reading under way will add a later one (`ReadingIsPresent`): stages are monotone in the age, and the
  code writes only when the stage differs from the status, so equal stages are not told twice.
- **Accounts.** `AInv`: a user inserted and not committed clashes with none, committed or not
  (`InsertedAreDistinct`); requests are about rows that exist; nobody is created in the future. From it
  `RegistrationsAreWhole` and `ProfileIsFirst`, at any number of requests and restarts.
- **Caches.** `LInv`: both dictionaries have the same keys, at most `MaxSize`; uses are distinct. A `set` keeps it
  because the key evicted is one of those that are there (`OldestIsThere`, by well-founded order of times).
  `CacheImplementsList` is the refinement of `RecencyList`. Its `ListInv` says that `ByRecency` lists the dictionaries
  (`Listing`): their entries, each once, by falling time of use. There is only one such list (`ListingIsList`: the place of a
  key is its index, because the keys before it are counted by an injection), so it is enough to show, step by step, that what the
  abstract list becomes lists what the dictionaries become: without a key (`WithoutListed`), with one in front
  (`FrontListed`, `UseListed`), and without the last, which is the oldest (`OldestIsLast`).
- **Rate limiter.** `LimInv`: requests are admitted in the order of their times (`AdmittedInOrder`), and none that is
  still in the window is forgotten, by whichever earlier calls have pruned (`RecentAreKept`). So the remembered ones in the
  window are a last stretch of the admitted ones, and their number tells how long it is; from that `LimitIsAlwaysExact`.
- **Sockets.** `WInv`: the table follows the handlers, and a send has reached, or has yet to reach, every socket
  of its copy that is still open, whether the others were left by their clients or by their handlers. `SendReachesAll` is what is left of it when nothing is yet to be reached.
- **Chat page.** `HInv`: as long as nothing disturbs the chat, at most one click is waiting, with no stream on, and it is
  about the session the customer is in (`ClicksInTurn`); and a stream that is on was made for the last message
  shown, which is where its words go (`WritesToItsOwn`). From it `ShownIsOwn` and `StreamingIsKnown`, for any numbers of
  sessions, clicks and streams. A stream that breaks after its `done` is where both end (`disturbed`).
  `LockAlwaysOfLatest` holds of disturbed behaviours too. Its `LockInv` adds that a stream not yet begun has told nothing: every
  `Starts` makes such a stream the one referred to, and a stream is told in the step in which `isStreaming` becomes false.
- **Answering.** `AnInv`: an answer node is entered with the intent the question was routed by, and `respond_greeting` only with
  a greeting (`RoutedAsAsked`); from `generate` on, an answer tells only of the asking customer's things, names what was
  named, under the kinds that `NamedIsAnswered` lists, and stays with the order under discussion. That is one lemma for each node (`TrackingTells`,
  `OrderStatusTells`, `TicketTells`, `ListsAreOwn`), whatever the session had discussed before. It needs `TalkIsTyped`: questions and
  customers are of their types, in which no order or ticket has the number "none", and `SuggestedAreIntents`. `TalkKeepsTypes` is its part about types.

Every safety property that a passing run checks, invariant, action property or refinement, is stated by one of the theorems. Only
model-checked are the liveness properties (`DirtyIsFlushed`, `TakenIsSaved`), because
TLAPS proves no liveness and no ENABLED. Induction over data and RECURSIVE operators are out of the prover's reach; the modules
use neither. What the theorems do not reach is what the models leave out (section 6 and the abstractions above).

## 5. Plan

Done: SaveQueue, WriteCoalescer, SessionMemory, UnitOfWork, OrderLifecycle, TicketNumbers, TicketLifecycle,
VectorStore, ShipmentTracker, Accounts, LRUCache with RecencyList, RateLimiter, Sockets, Answering,
ChatClient, each with its safety properties proved. Components that share no state share a run, so that the number of runs stays one for
each distinct question. Left:

1. `VectorStore` with a second process (`scripts/ingest.py` beside a server), and a bag of chunks that a
   search draws from as its abstract specification.
2. Access tokens, roles and permissions on top of `Accounts`; the older page (`frontend/js/app.js`) beside `ChatClient`.

## 6. Not modelled

- **Event bus and registry**: nothing publishes or subscribes, and the registry is filled once. `broadcast` and
  `send_chat_*` of the sockets have no caller either, and `_user_sessions` is written and never read.
- **Texts** (answers, prompts, e-mails, logs) and their formatting; `_build_rag_prompt` with `_build_history` and the summary it stores, which no path reaches because an answer
  node, or the greeting, has answered before; ranking and thresholds of a search; text splitting and cleaning, which are pure functions of libraries.
- **Services outside**: LLM and embedding adapters, Redis, background workers, the file store and e-mail. What they
  answer is nondeterministic to the models that call them; the clients keep no state that another part reads.
- **Rows that are only appended or read**: audit log, feedback, analytics, notifications, invoices,
  subscriptions, loyalty; metrics and middleware, which change nothing that is modelled.
- **Configuration and wiring**, migrations, the pages that show data.

PROJECT.json says the same component by component.
