----------------------------- MODULE VectorStore -----------------------------
(***************************************************************************)
(* The knowledge base: KnowledgeBaseManager (knowledge_base/store.py) over *)
(* one of two vector stores, and the administrator's routes that drive it. *)
(*                                                                         *)
(* FAISSAdapter holds an index and two lists that belong to it position by *)
(* position, and writes them to three files, one after the other, each     *)
(* time a document has been added.  It unlinks them one by one.  The       *)
(* process may end between any two of these steps, and any write or unlink *)
(* may fail.  Handlers call all this without an await, so requests do not  *)
(* interleave.                                                             *)
(*                                                                         *)
(* ChromaDBAdapter has a collection of its own on disk, addressed by the   *)
(* ids chunk_0, chunk_1, ... that each call of add gives to its texts.     *)
(***************************************************************************)
EXTENDS Naturals, Sequences, FiniteSets

CONSTANTS
    Files,         \* names of files in the knowledge base's directory
    Markdown,      \* those that match *.md
    Inline,        \* the source of a text posted to /ingest
    Size,          \* Size[s]: how many chunks the source s is split into
    Backends,      \* which of "faiss" and "chromadb" may be configured
    None, Torn,    \* no such file; a file whose write was cut short
    NoRequest,
    MaxRequests, MaxFaults, MaxCrashes    \* bounds

Sources == Files \cup {Inline}

ASSUME SourcesAreKnown == Markdown \subseteq Files /\ Inline \notin Files
ASSUME SizesArePositive == Size \in [Sources -> Nat \ {0}]
ASSUME BackendsAreKnown == Backends \subseteq {"faiss", "chromadb"}
ASSUME BoundsAreNat ==
    MaxRequests \in Nat /\ MaxFaults \in Nat /\ MaxCrashes \in Nat

\* A chunk: the part-th of what the source held at a version of it.
Chunk == [src : Sources, version : Nat, part : Nat]

ASSUME MarksAreNoData == None \notin Seq(Chunk) /\ Torn \notin Seq(Chunk)
ASSUME MarksDiffer == None # Torn

Parts == {"index", "chunks", "metadata"}
Ops == {"upload", "ingest", "rebuild", "delete"}

\* A request in progress: the sources it has still to add, the one whose
\* files it is writing, those added and written, and those it reports as failed.
Request == [op : Ops, todo : SUBSET Sources, src : Sources,
            stored : SUBSET Sources, missed : SUBSET Sources]

ASSUME NoRequestIsNoRequest == NoRequest \notin Request

VARIABLES
    backend,       \* settings.vector_store_type
    dir,           \* dir[f]: version of file f, 0 when there is none
    mem,           \* FAISSAdapter: _index, _chunks and _metadata
    disk,          \* faiss_index.bin, faiss_chunks.pkl, faiss_metadata.pkl
    collection,    \* ChromaDBAdapter: what chunk_<i-1> stands for
    at,            \* what the process does next
    req,           \* the request it serves
    result,        \* the last reply
    reported,      \* the chunks that replies since the last clearing of the
                   \* store have called ingested (not a variable of the code)
    unsaved,       \* a _save has begun and none has been completed since
                   \* (nor is this)
    served, faults, crashes

store == <<mem, disk, collection>>
promises == <<reported, unsaved>>
kvars == <<backend, dir, mem, disk, collection, at, req, result,
           reported, unsaved, served, faults, crashes>>

Result == [op : Ops \cup {"none"}, ok : BOOLEAN, srcs : SUBSET Sources]
NoResult == [op |-> "none", ok |-> FALSE, srcs |-> {}]

VTypeOK ==
    /\ backend \in {"faiss", "chromadb"}
    /\ dir \in [Files -> Nat]
    /\ mem \in [Parts -> Seq(Chunk)]
    /\ disk \in [Parts -> Seq(Chunk) \cup {None, Torn}]
    /\ collection \in Seq(Chunk)
    /\ at \in {"idle", "clear", "next"} \cup Parts
    /\ req \in Request \cup {NoRequest}
    /\ at = "idle" <=> req = NoRequest
    /\ result \in Result
    /\ reported \subseteq Chunk /\ unsaved \in BOOLEAN
    /\ served \in Nat /\ faults \in Nat /\ crashes \in Nat

Empty == [p \in Parts |-> <<>>]
NoFiles == [p \in Parts |-> None]

VInit ==
    /\ backend \in Backends
    /\ dir = [f \in Files |-> 0]
    /\ mem = Empty /\ disk = NoFiles /\ collection = <<>>
    /\ at = "idle" /\ req = NoRequest /\ result = NoResult
    /\ reported = {} /\ unsaved = FALSE
    /\ served = 0 /\ faults = 0 /\ crashes = 0

-----------------------------------------------------------------------------
\* A text posted to /ingest is new each time.
Version(s) == IF s \in Files THEN dir[s] ELSE served

Chunks(s) ==
    [i \in 1..Size[s] |-> [src |-> s, version |-> Version(s), part |-> i]]

ChunksOf(S) == UNION {{Chunks(s)[i] : i \in 1..Size[s]} : s \in S}

\* The loop of search for the hit at position i of the index; None stands
\* for the IndexError that makes the whole search fail.
Search(m, i) ==
    IF i \in DOMAIN m["chunks"] /\ i \in DOMAIN m["metadata"]
    THEN [content |-> m["chunks"][i], source |-> m["metadata"][i]]
    ELSE None

\* A request begins.
Begin(op, sources) ==
    /\ at = "idle" /\ served < MaxRequests
    /\ served' = served + 1
    /\ req' = [op |-> op, todo |-> sources, src |-> Inline,
               stored |-> {}, missed |-> {}]
    /\ result' = NoResult

\* POST /admin/knowledge-base/upload: the file is written, or written over,
\* and added.
Upload(f) ==
    /\ Begin("upload", {f})
    /\ dir' = [dir EXCEPT ![f] = served + 1]
    /\ at' = "next"
    /\ UNCHANGED <<backend, store, promises, faults, crashes>>

\* POST /ingest: a file, the first file, or a text.
Ingest(s) ==
    /\ s \in Files => dir[s] # 0
    /\ Begin("ingest", {s})
    /\ at' = "next"
    /\ UNCHANGED <<backend, dir, store, promises, faults, crashes>>

Present(d) == {f \in Markdown : d[f] # 0}

KeepsMetadata(m) ==            \* mutant: delete forgets one of the lists
    [Empty EXCEPT !["metadata"] = m["metadata"]]

EmptiedNot(m) == m             \* mutant: delete only removes the files

\* What delete leaves of the lists in memory.
Emptied(m) == Empty

\* KnowledgeBaseManager.rebuild: the store is cleared, then every Markdown
\* file there is gets added.  FAISS empties its lists first and unlinks the
\* files after that (Unlink); Chroma drops the collection, and when that
\* fails, only a warning says so.
BeginRebuild(op) ==
    /\ Begin(op, Present(dir'))
    /\ \/ /\ backend = "faiss"
          /\ mem' = Emptied(mem) /\ at' = "clear"
          /\ UNCHANGED <<collection, faults>>
       \/ /\ backend = "chromadb" /\ at' = "next"
          /\ UNCHANGED mem
          /\ \/ collection' = <<>> /\ UNCHANGED faults
             \/ /\ faults < MaxFaults /\ faults' = faults + 1
                /\ UNCHANGED collection
    /\ reported' = {}
    /\ UNCHANGED <<backend, disk, unsaved, crashes>>

Rebuild == UNCHANGED dir /\ BeginRebuild("rebuild")

\* DELETE /admin/knowledge-base/{filename}
DeleteFile(f) ==
    /\ dir[f] # 0
    /\ dir' = [dir EXCEPT ![f] = 0]
    /\ BeginRebuild("delete")

-----------------------------------------------------------------------------
\* FAISSAdapter.delete unlinks what matches faiss_*, in the order the
\* directory gives; an unlink that fails ends the loop with a warning.
Unlink(p) ==
    /\ at = "clear" /\ disk[p] # None
    /\ disk' = [disk EXCEPT ![p] = None]
    /\ UNCHANGED <<backend, dir, mem, collection, at, req, result,
                   promises, served, faults, crashes>>

NothingUnlinked ==             \* mutant: the pattern matches no file
    /\ at = "clear" /\ at' = "next"
    /\ UNCHANGED <<backend, dir, store, req, result, promises,
                   served, faults, crashes>>

Cleared ==
    /\ at = "clear"
    /\ \/ disk = NoFiles /\ UNCHANGED faults
       \/ /\ disk # NoFiles
          /\ faults < MaxFaults /\ faults' = faults + 1
    /\ at' = "next"
    /\ UNCHANGED <<backend, dir, store, req, result, promises,
                   served, crashes>>

\* The source cannot be read, holds no chunk, or cannot be embedded: nothing
\* is stored.  (A rebuild does not report a file without chunks.)
NotAdded(s) ==
    /\ at = "next" /\ s \in req.todo
    /\ req' = [req EXCEPT !.todo = @ \ {s},
                          !.missed = @ \cup {s}]
    /\ UNCHANGED <<backend, dir, store, at, result, promises,
                   served, faults, crashes>>

\* The order in which _save writes the files.
SaveOrder == <<"index", "chunks", "metadata">>

SkipsMetadata(p) ==            \* mutant: the third file is forgotten
    IF p = SaveOrder[1] THEN SaveOrder[2] ELSE "next"

AfterWriting(p) ==
    IF p = SaveOrder[1] THEN SaveOrder[2]
    ELSE IF p = SaveOrder[2] THEN SaveOrder[3] ELSE "next"

\* FAISSAdapter.add up to its call of _save
Add(s) ==
    /\ at = "next" /\ backend = "faiss" /\ s \in req.todo
    /\ mem' = [p \in Parts |-> mem[p] \o Chunks(s)]
    /\ req' = [req EXCEPT !.todo = @ \ {s}, !.src = s]
    /\ at' = SaveOrder[1] /\ unsaved' = TRUE
    /\ UNCHANGED <<backend, dir, disk, collection, result, reported,
                   served, faults, crashes>>

\* _save: one file
Write(p) ==
    /\ at = p
    /\ disk' = [disk EXCEPT ![p] = mem[p]]
    /\ at' = AfterWriting(p)
    /\ req' = IF at' = "next"
              THEN [req EXCEPT !.stored = @ \cup {req.src}] ELSE req
    /\ unsaved' = (at' # "next")
    /\ UNCHANGED <<backend, dir, mem, collection, result, reported,
                   served, faults, crashes>>

\* A file cannot be opened, or not written to its end.  The document is
\* reported as failed, and stays in memory.
WriteFails(p) ==
    /\ at = p
    /\ faults < MaxFaults /\ faults' = faults + 1
    /\ \E left \in {disk[p], Torn} : disk' = [disk EXCEPT ![p] = left]
    /\ req' = [req EXCEPT !.missed = @ \cup {req.src}]
    /\ at' = "next"
    /\ UNCHANGED <<backend, dir, mem, collection, result, promises,
                   served, crashes>>

\* Collection.add keeps what an id stands for already.
Merged(c, t) ==
    c \o SubSeq(t, Len(c) + 1, Len(t))

\* ChromaDBAdapter.add
AddToCollection(s) ==
    /\ at = "next" /\ backend = "chromadb" /\ s \in req.todo
    /\ collection' = Merged(collection, Chunks(s))
    /\ req' = [req EXCEPT !.todo = @ \ {s},
                          !.stored = @ \cup {s}]
    /\ UNCHANGED <<backend, dir, mem, disk, at, result, promises,
                   served, faults, crashes>>

\* The reply.  ok is stricter than the reply's own words: it says that every
\* source was stored.  A rebuild that missed files still says "success" and
\* lists them in file_errors (all but those without chunks); one that finds no
\* file at all is an error.  DELETE says "deleted" whatever the rebuild after
\* it returned.  reported takes what was stored, ok or not.
Finish ==
    /\ at = "next" /\ req.todo = {}
    /\ at' = "idle" /\ req' = NoRequest
    /\ result' = [op |-> req.op, srcs |-> req.stored,
                  ok |-> req.missed = {} /\ req.stored # {}]
    /\ reported' = reported \cup ChunksOf(req.stored)
    /\ UNCHANGED <<backend, dir, store, unsaved, served, faults, crashes>>

-----------------------------------------------------------------------------
\* FAISSAdapter._load: all three files, or an empty store.
Loaded(d) ==
    IF \A p \in Parts : d[p] \notin {None, Torn} THEN d ELSE Empty

\* (A process that starts after an unfinished save is held to no promise.)
NextProcess ==
    /\ mem' = Loaded(disk')
    /\ reported' = IF unsaved THEN {} ELSE reported
    /\ unsaved' = FALSE
    /\ at' = "idle" /\ req' = NoRequest /\ result' = NoResult
    /\ UNCHANGED <<backend, dir, collection, served, faults>>

\* The process ends between two requests and another one starts.
Restart ==
    /\ at = "idle"
    /\ UNCHANGED <<disk, crashes>>
    /\ NextProcess

\* It ends in the middle of one: the file being written may be cut short.
Crash ==
    /\ at # "idle"
    /\ crashes < MaxCrashes /\ crashes' = crashes + 1
    /\ \/ disk' = disk
       \/ at \in Parts /\ disk' = [disk EXCEPT ![at] = Torn]
    /\ NextProcess

VNext ==
    \/ \E f \in Files : Upload(f) \/ DeleteFile(f)
    \/ \E s \in Sources :
         Ingest(s) \/ NotAdded(s) \/ Add(s) \/ AddToCollection(s)
    \/ Rebuild \/ Cleared \/ Finish
    \/ \E p \in Parts : Unlink(p) \/ Write(p) \/ WriteFails(p)
    \/ Restart \/ Crash

VSpec == VInit /\ [][VNext]_kvars

-----------------------------------------------------------------------------
\* The three lists belong to each other position by position.
Aligned(m) == m["index"] = m["chunks"] /\ m["chunks"] = m["metadata"]

Right(m, i) ==
    Search(m, i) = [content |-> m["index"][i], source |-> m["index"][i]]

\* Through ingestions, rebuilds, deletions and restarts, every hit of a
\* search is answered with the text, and attributed to the source, that was
\* embedded there; only a failing disk or a crash can change that.
SearchIsSound ==
    faults = 0 /\ crashes = 0 => \A i \in DOMAIN mem["index"] : Right(mem, i)

\* One crash while a document is saved does no harm yet: what the next
\* process loads answers a hit rightly or not at all.
FirstCrashIsHarmless ==
    [][Crash /\ faults = 0 /\ crashes = 0 =>
         \A i \in DOMAIN mem'["index"] :
           Right(mem', i) \/ Search(mem', i) = None]_kvars

\* Every chunk of the sources S is found at a position where the lists agree.
AllFound(S) ==
    \A s \in S : \A i \in 1..Size[s] :
      \E j \in DOMAIN mem["index"] :
        Right(mem, j) /\ mem["index"][j] = Chunks(s)[i]

\* The lists agree, and hold chunks of current Markdown files outside of
\* rest, each once.
Exact(rest) ==
    /\ Aligned(mem)
    /\ \A i \in DOMAIN mem["chunks"] :
         LET c == mem["chunks"][i] IN
           c.src \in Present(dir) \ rest /\ c.version = dir[c.src]
    /\ \A i, j \in DOMAIN mem["chunks"] :
         mem["chunks"][i] = mem["chunks"][j] => i = j

Rebuilds == {"rebuild", "delete"}

\* Whatever crashes and failing disks have left behind, a rebuild ends with
\* lists that agree and hold chunks of current Markdown files only, each
\* once; and with those of every such file when it reports success.  So a
\* deleted or overwritten file is found no more.
RebuildHeals ==
    at = "idle" /\ backend = "faiss" /\ result.op \in Rebuilds =>
      Exact({}) /\ (result.ok => AllFound(Present(dir)))

\* Every chunk of C is in each of the three lists.
Held(m, C) == \A c \in C, p \in Parts : \E i \in DOMAIN m[p] : m[p][i] = c

\* What any reply of FAISSAdapter's has called ingested, through later
\* requests and failing saves, is there in the next process, however the last
\* one ended, if the save begun last was completed (add calls _save only at
\* its end) and the store has not been cleared since.  Nothing is promised
\* after a save that failed or was cut short: a torn file makes the next
\* process begin with an empty store, whatever was reported before.
RestartKeepsSuccess ==
    [][(Restart \/ Crash) /\ backend = "faiss" /\ ~unsaved =>
         Held(mem', reported)]_kvars

-----------------------------------------------------------------------------
\* The inductive invariant.  The Chroma adapter has no lists and no files.
ChromaIsApart ==
    backend = "chromadb" =>
      mem = Empty /\ disk = NoFiles /\ at \in {"idle", "next"}

\* A file follows the list in memory as soon as _save has written it, and
\* once a source has been stored and no save begun since, all of them do.
SavesInOrder ==
    /\ at \in {"chunks", "metadata"} => disk["index"] = mem["index"]
    /\ at = "metadata" => disk["chunks"] = mem["chunks"]
    /\ at \in Parts => unsaved
    /\ at = "clear" => req.stored = {} /\ reported = {}
    /\ ~unsaved /\ (reported # {} \/ (at = "next" /\ req.stored # {})) =>
         Loaded(disk) = mem

\* What has been reported, or will be by the request in progress, is in memory.
ReportedIsHeld ==
    backend = "faiss" =>
      /\ Held(mem, reported)
      /\ at # "idle" => Held(mem, ChunksOf(req.stored))
      /\ at \in Parts => Held(mem, ChunksOf({req.src}))

\* Until the disk fails or the process crashes, the lists agree and are
\* those on disk, except while they are saved or cleared.
SoundSoFar ==
    faults = 0 /\ crashes = 0 =>
      /\ Aligned(mem)
      /\ at \in {"idle", "next"} => Loaded(disk) = mem
      /\ at = "clear" => mem = Empty

RebuildsAreExact ==
    at # "idle" /\ backend = "faiss" /\ req.op \in Rebuilds =>
      /\ req.todo \subseteq Present(dir)
      /\ Exact(req.todo)
      /\ AllFound(Present(dir) \ (req.todo \cup req.missed))

VInv ==
    /\ VTypeOK /\ ChromaIsApart /\ SavesInOrder /\ SoundSoFar
    /\ ReportedIsHeld /\ RebuildsAreExact /\ RebuildHeals

\* Until then, what a file holds is also the beginning of its list, so that
\* two files agree as far as both go; while files are unlinked those that are
\* left still do.
Begins(p) ==
    \A i \in DOMAIN disk[p] : i \in DOMAIN mem[p] /\ disk[p][i] = mem[p][i]

Agree(p, q) ==
    \A i \in DOMAIN disk[p] \cap DOMAIN disk[q] : disk[p][i] = disk[q][i]

FilesAgree ==
    faults = 0 /\ crashes = 0 =>
      /\ \A p \in Parts : disk[p] # Torn
      /\ at # "clear" => \A p \in Parts : disk[p] # None => Begins(p)
      /\ \A p, q \in Parts : None \notin {disk[p], disk[q]} => Agree(p, q)

-----------------------------------------------------------------------------
\* README.md:310 and the reply "Successfully ingested ... chunks": what was
\* ingested can be found.
Contents == IF backend = "faiss" THEN mem["chunks"] ELSE collection

IngestedIsFound ==
    result.ok =>
      \A s \in result.srcs : \A i \in 1..Size[s] :
        \E j \in DOMAIN Contents : Contents[j] = Chunks(s)[i]
=============================================================================
