-------------------------- MODULE VectorStoreProofs --------------------------
(***************************************************************************)
(* The inductive invariant of VectorStore and what follows from it, for    *)
(* any files, any sizes and any bounds.                                    *)
(***************************************************************************)
EXTENDS VectorStore, TLAPS

\* A source is split into a sequence of chunks of its own.
LEMMA ChunksType ==
    ASSUME VTypeOK, NEW s \in Sources
    PROVE  /\ Chunks(s) \in Seq(Chunk)
           /\ Len(Chunks(s)) = Size[s]
           /\ \A i \in 1..Size[s] :
                Chunks(s)[i] = [src |-> s, version |-> Version(s), part |-> i]
  <1>1. Version(s) \in Nat /\ Size[s] \in Nat
    BY SizesArePositive DEF Version, VTypeOK, Sources
  <1>2. Chunks(s) \in [1..Size[s] -> Chunk]
    BY <1>1 DEF Chunks, Chunk
  <1> QED  BY <1>1, <1>2 DEF Chunks

\* The chunks of known sources are chunks.
LEMMA ChunksOfType ==
    ASSUME VTypeOK, NEW S \in SUBSET Sources
    PROVE  ChunksOf(S) \subseteq Chunk
  <1>1. ASSUME NEW s \in Sources, NEW i \in 1..Size[s]
        PROVE  Chunks(s)[i] \in Chunk
    <2>1. Chunks(s) \in Seq(Chunk) /\ Len(Chunks(s)) = Size[s]
      BY ChunksType
    <2> QED  BY <2>1
  <1>2. \A c \in ChunksOf(S) : \E t \in S : \E i \in 1..Size[t] : c = Chunks(t)[i]
    BY DEF ChunksOf
  <1> QED  BY <1>1, <1>2

LEMMA NoChunks == <<>> \in Seq(Chunk)
  OBVIOUS

LEMMA EmptyType == Empty \in [Parts -> Seq(Chunk)]
  BY DEF Empty

LEMMA LoadedType ==
    ASSUME NEW d \in [Parts -> Seq(Chunk) \cup {None, Torn}]
    PROVE  Loaded(d) \in [Parts -> Seq(Chunk)]
  BY EmptyType DEF Loaded

\* Files written from lists are loaded as these lists.
LEMMA LoadedIsWritten ==
    ASSUME NEW m \in [Parts -> Seq(Chunk)]
    PROVE  Loaded(m) = m
  BY MarksAreNoData DEF Loaded

LEMMA LoadedOfNothing == Loaded(NoFiles) = Empty
  BY DEF Loaded, NoFiles, Parts

LEMMA BeginTypes ==
    ASSUME VTypeOK, NEW op \in Ops, NEW S \in SUBSET Sources, Begin(op, S)
    PROVE  req' \in Request /\ result' \in Result /\ served' \in Nat
  BY DEF VTypeOK, Begin, Request, Result, NoResult, Ops, Sources

\* A version is a number, so a directory of files stays one.
LEMMA TypeStep == VTypeOK /\ [VNext]_kvars => VTypeOK'
  <1> SUFFICES ASSUME VTypeOK, [VNext]_kvars PROVE VTypeOK'
    OBVIOUS
  <1> USE NoRequestIsNoRequest, EmptyType DEF VTypeOK, store, promises
  <1>1. ASSUME NEW f \in Files, Upload(f) PROVE VTypeOK'
    <2>1. req' \in Request /\ result' \in Result /\ served' \in Nat
      BY <1>1, BeginTypes DEF Upload, Ops, Sources
    <2> QED  BY <1>1, <2>1 DEF Upload
  <1>2. ASSUME NEW s \in Sources, Ingest(s) PROVE VTypeOK'
    <2>1. req' \in Request /\ result' \in Result /\ served' \in Nat
      BY <1>2, BeginTypes DEF Ingest, Ops
    <2> QED  BY <1>2, <2>1 DEF Ingest
  <1>3. ASSUME NEW op \in Ops, BeginRebuild(op), dir' \in [Files -> Nat]
        PROVE  VTypeOK'
    <2>1. Present(dir') \in SUBSET Sources
      BY SourcesAreKnown DEF Present, Sources
    <2>2. req' \in Request /\ result' \in Result /\ served' \in Nat
      BY <1>3, <2>1, BeginTypes DEF BeginRebuild
    <2>3. mem' \in [Parts -> Seq(Chunk)]
      BY <1>3 DEF BeginRebuild, Emptied
    <2>4. faults' \in Nat
      BY <1>3 DEF BeginRebuild
    <2>5. collection' \in Seq(Chunk)
      <3>1. collection' = <<>> \/ collection' = collection
        BY <1>3 DEF BeginRebuild
      <3> QED  BY <3>1, NoChunks
    <2>6. at' \in {"clear", "next"} /\ req' # NoRequest /\ reported' \subseteq Chunk
      BY <1>3, <2>2 DEF BeginRebuild
    <2> QED  BY <1>3, <2>2, <2>3, <2>4, <2>5, <2>6 DEF BeginRebuild
  <1>4. CASE Rebuild
    BY <1>3, <1>4 DEF Rebuild, Ops
  <1>5. ASSUME NEW f \in Files, DeleteFile(f) PROVE VTypeOK'
    BY <1>3, <1>5 DEF DeleteFile, Ops
  <1>6. ASSUME NEW p \in Parts, Unlink(p) PROVE VTypeOK'
    BY <1>6 DEF Unlink
  <1>7. CASE Cleared
    <2>1. faults' \in Nat
      BY <1>7 DEF Cleared
    <2>2. at # "idle" /\ at' # "idle" /\ at' = "next" /\ req' = req
          /\ result' = result /\ served' = served /\ crashes' = crashes
          /\ reported' = reported /\ unsaved' = unsaved
      BY <1>7 DEF Cleared
    <2>3. UNCHANGED <<backend, dir, mem, disk, collection>>
      BY <1>7 DEF Cleared
    <2> QED  BY <2>1, <2>2, <2>3
  <1>8. ASSUME NEW s \in Sources, NotAdded(s) PROVE VTypeOK'
    <2>1. req \in Request
      BY <1>8 DEF NotAdded
    <2>2. req' \in Request
      BY <1>8, <2>1 DEF NotAdded, Request
    <2> QED  BY <1>8, <2>2 DEF NotAdded
  <1>9. ASSUME NEW s \in Sources, Add(s) PROVE VTypeOK'
    <2>1. mem' \in [Parts -> Seq(Chunk)]
      BY <1>9, ChunksType DEF Add
    <2>2. req' \in Request /\ at' \in Parts /\ at # "idle" /\ at' # "idle"
      BY <1>9 DEF Add, Request, SaveOrder, Parts
    <2> QED  BY <1>9, <2>1, <2>2 DEF Add
  <1>10. ASSUME NEW p \in Parts, Write(p) PROVE VTypeOK'
    <2>1. at' \in Parts \cup {"next"} /\ at # "idle" /\ at' # "idle"
      BY <1>10 DEF Write, AfterWriting, SaveOrder, Parts
    <2>2. req' \in Request
      BY <1>10, <2>1 DEF Write, Request
    <2>3. disk' \in [Parts -> Seq(Chunk) \cup {None, Torn}]
      BY <1>10 DEF Write
    <2> QED  BY <1>10, <2>1, <2>2, <2>3 DEF Write
  <1>11. ASSUME NEW p \in Parts, WriteFails(p) PROVE VTypeOK'
    <2>1. req' \in Request /\ at # "idle" /\ at' = "next"
      BY <1>11 DEF WriteFails, Request, Parts
    <2>2. disk' \in [Parts -> Seq(Chunk) \cup {None, Torn}]
      BY <1>11 DEF WriteFails
    <2>3. faults' \in Nat
      BY <1>11 DEF WriteFails
    <2> QED  BY <1>11, <2>1, <2>2, <2>3 DEF WriteFails
  <1>12. ASSUME NEW s \in Sources, AddToCollection(s) PROVE VTypeOK'
    <2>1. collection' \in Seq(Chunk)
      <3>1. Len(collection) + 1 \in 1..(Len(collection) + 1)
            /\ Chunks(s) \in Seq(Chunk)
        BY ChunksType
      <3>2. SubSeq(Chunks(s), Len(collection) + 1, Len(Chunks(s)))
              \in Seq(Chunk)
        BY <3>1
      <3> QED  BY <1>12, <3>2 DEF AddToCollection, Merged
    <2>2. req' \in Request
      BY <1>12 DEF AddToCollection, Request
    <2> QED  BY <1>12, <2>1, <2>2 DEF AddToCollection
  <1>13. CASE Finish
    <2>1. req \in Request
      BY <1>13 DEF Finish
    <2>2. result' \in Result
      BY <1>13, <2>1 DEF Finish, Result, Request
    <2>3. reported' \subseteq Chunk
      <3>1. req.stored \in SUBSET Sources
        BY <2>1 DEF Request
      <3> QED  BY <1>13, <3>1, ChunksOfType DEF Finish
    <2> QED  BY <1>13, <2>2, <2>3 DEF Finish
  <1>14. ASSUME disk' \in [Parts -> Seq(Chunk) \cup {None, Torn}],
                crashes' \in Nat, NextProcess
         PROVE  VTypeOK'
    BY <1>14, LoadedType DEF NextProcess, NoResult, Result
  <1>15. CASE Restart
    BY <1>14, <1>15 DEF Restart
  <1>16. CASE Crash
    <2>1. disk' \in [Parts -> Seq(Chunk) \cup {None, Torn}]
      BY <1>16 DEF Crash
    <2>2. crashes' \in Nat
      BY <1>16 DEF Crash
    <2> QED  BY <1>14, <1>16, <2>1, <2>2 DEF Crash
  <1>17. CASE UNCHANGED kvars
    BY <1>17 DEF kvars
  <1> QED
    BY <1>1, <1>2, <1>4, <1>5, <1>6, <1>7, <1>8, <1>9, <1>10, <1>11, <1>12,
       <1>13, <1>15, <1>16, <1>17 DEF VNext

-----------------------------------------------------------------------------
LEMMA ChromaStep ==
    VTypeOK /\ ChromaIsApart /\ [VNext]_kvars => ChromaIsApart'
  <1> SUFFICES ASSUME VTypeOK, ChromaIsApart, [VNext]_kvars,
                      backend' = "chromadb"
               PROVE  mem' = Empty /\ disk' = NoFiles /\ at' \in {"idle", "next"}
    BY DEF ChromaIsApart
  <1>0. backend' = backend
    BY DEF VNext, kvars, Upload, Ingest, Rebuild, DeleteFile, BeginRebuild,
           Unlink, Cleared, NotAdded, Add, Write, WriteFails,
           AddToCollection, Finish, Restart, Crash, NextProcess
  <1>1. backend = "chromadb" /\ mem = Empty /\ disk = NoFiles
        /\ at \in {"idle", "next"}
    BY <1>0 DEF ChromaIsApart
  <1>2. at \notin Parts /\ at # "clear"
    BY <1>1 DEF Parts
  <1>3. CASE \E f \in Files : Upload(f) \/ DeleteFile(f)
    BY <1>1, <1>3 DEF Upload, DeleteFile, BeginRebuild, store
  <1>4. CASE Rebuild \/ Cleared \/ Finish
    BY <1>1, <1>4 DEF Rebuild, BeginRebuild, Cleared, Finish, store
  <1>5. CASE \E s \in Sources :
               Ingest(s) \/ NotAdded(s) \/ Add(s) \/ AddToCollection(s)
    BY <1>1, <1>5 DEF Ingest, NotAdded, Add, AddToCollection, store
  <1>6. CASE \E p \in Parts : Unlink(p) \/ Write(p) \/ WriteFails(p)
    BY <1>2, <1>6 DEF Unlink, Write, WriteFails
  <1>7. CASE Restart \/ Crash
    BY <1>1, <1>2, <1>7, LoadedOfNothing DEF Restart, Crash, NextProcess
  <1>8. CASE UNCHANGED kvars
    BY <1>1, <1>8 DEF kvars
  <1> QED  BY <1>3, <1>4, <1>5, <1>6, <1>7, <1>8 DEF VNext

\* When the third file has been written, disk and memory are the same.
LEMMA WriteEnds ==
    ASSUME VTypeOK, SavesInOrder, NEW p \in Parts, Write(p), at' = "next"
    PROVE  Loaded(disk') = mem'
  <1>1. p = "metadata" /\ at = "metadata"
    BY DEF Write, AfterWriting, SaveOrder, Parts
  <1>2. \A q \in Parts : disk'[q] = mem[q]
    BY <1>1 DEF Write, SavesInOrder, VTypeOK, Parts
  <1>3. disk' = mem
    BY <1>2 DEF Write, VTypeOK
  <1> QED  BY <1>3, LoadedIsWritten DEF Write, VTypeOK

LEMMA SavesStep ==
    VTypeOK /\ ChromaIsApart /\ SavesInOrder /\ [VNext]_kvars => SavesInOrder'
  <1> SUFFICES ASSUME VTypeOK, ChromaIsApart, SavesInOrder, [VNext]_kvars
               PROVE  SavesInOrder'
    OBVIOUS
  <1>1. ASSUME NEW op, BeginRebuild(op) PROVE SavesInOrder'
    BY <1>1 DEF BeginRebuild, Begin, Parts, SavesInOrder
  <1>2. CASE \E f \in Files : Upload(f)
    BY <1>2 DEF Upload, Begin, store, promises, Parts, SavesInOrder
  <1>3. CASE \E s \in Sources : Ingest(s)
    BY <1>3 DEF Ingest, Begin, store, promises, Parts, SavesInOrder
  <1>4. CASE Cleared
    BY <1>4 DEF Cleared, store, promises, Parts, SavesInOrder
  <1>5. CASE Finish
    <2>1. ASSUME reported' # {} PROVE reported # {} \/ req.stored # {}
      BY <1>5, <2>1 DEF Finish, ChunksOf
    <2> QED  BY <1>5, <2>1 DEF Finish, store, Parts, SavesInOrder
  <1>6. ASSUME NEW s \in Sources, NotAdded(s) PROVE SavesInOrder'
    <2>1. req \in Request /\ at' = "next"
      BY <1>6 DEF NotAdded, VTypeOK
    <2>2. req'.stored = req.stored
      BY <1>6, <2>1 DEF NotAdded, Request
    <2> QED  BY <1>6, <2>1, <2>2 DEF NotAdded, store, promises, Parts, SavesInOrder
  <1>7. ASSUME NEW s \in Sources, Add(s) PROVE SavesInOrder'
    BY <1>7 DEF Add, SaveOrder, Parts, SavesInOrder
  <1>8. ASSUME NEW s \in Sources, AddToCollection(s) PROVE SavesInOrder'
    <2>1. Loaded(disk') = mem' /\ at' = "next"
      BY <1>8, LoadedOfNothing DEF AddToCollection, ChromaIsApart
    <2> QED  BY <2>1 DEF Parts, SavesInOrder
  <1>9. ASSUME NEW p \in Parts, Unlink(p) PROVE SavesInOrder'
    BY <1>9 DEF Unlink, promises, Parts, SavesInOrder
  <1>10. ASSUME NEW p \in Parts, Write(p) PROVE SavesInOrder'
    <2>1. CASE p = "index"
      BY <1>10, <2>1 DEF Write, AfterWriting, SaveOrder, SavesInOrder, VTypeOK
    <2>2. CASE p = "chunks"
      <3>1. at = "chunks" /\ at' = "metadata" /\ unsaved' = TRUE /\ mem' = mem
            /\ disk' = [disk EXCEPT !["chunks"] = mem["chunks"]]
        BY <1>10, <2>2 DEF Write, AfterWriting, SaveOrder
      <3>2. disk'["index"] = mem'["index"] /\ disk'["chunks"] = mem'["chunks"]
        BY <3>1 DEF SavesInOrder, VTypeOK, Parts
      <3> QED  BY <3>1, <3>2 DEF SavesInOrder
    <2>3. CASE p = "metadata"
      <3>1. at' = "next"
        BY <1>10, <2>3 DEF Write, AfterWriting, SaveOrder
      <3> QED  BY <1>10, <3>1, WriteEnds DEF Parts, SavesInOrder
    <2> QED  BY <2>1, <2>2, <2>3 DEF Parts
  <1>11. ASSUME NEW p \in Parts, WriteFails(p) PROVE SavesInOrder'
    <2>1. unsaved' /\ at' = "next"
      BY <1>11 DEF WriteFails, promises, SavesInOrder
    <2> QED  BY <2>1 DEF Parts, SavesInOrder
  <1>12. CASE Restart \/ Crash
    <2>1. mem' = Loaded(disk') /\ at' = "idle"
      BY <1>12 DEF Restart, Crash, NextProcess
    <2> QED  BY <2>1 DEF Parts, SavesInOrder
  <1>13. CASE UNCHANGED kvars
    BY <1>13 DEF kvars, SavesInOrder
  <1>14. CASE Rebuild \/ \E f \in Files : DeleteFile(f)
    BY <1>1, <1>14 DEF Rebuild, DeleteFile
  <1> QED
    BY <1>14, <1>2, <1>3, <1>4, <1>5, <1>6, <1>7, <1>8, <1>9, <1>10, <1>11, <1>12,
       <1>13 DEF VNext

\* Lists that agree, and are appended to alike, agree.
LEMMA AddAligns ==
    ASSUME VTypeOK, Aligned(mem), NEW s \in Sources, Add(s)
    PROVE  Aligned(mem')
  BY DEF Add, Aligned, VTypeOK, Parts

LEMMA SoundStep ==
    VTypeOK /\ ChromaIsApart /\ SavesInOrder /\ SoundSoFar /\ [VNext]_kvars
      => SoundSoFar'
  <1> SUFFICES ASSUME VTypeOK, ChromaIsApart, SavesInOrder, SoundSoFar,
                      [VNext]_kvars, faults' = 0, crashes' = 0
               PROVE  /\ Aligned(mem')
                      /\ at' \in {"idle", "next"} => Loaded(disk') = mem'
                      /\ at' = "clear" => mem' = Empty
    BY DEF SoundSoFar
  <1> DEFINE Goal == /\ Aligned(mem')
                     /\ at' \in {"idle", "next"} => Loaded(disk') = mem'
                     /\ at' = "clear" => mem' = Empty
  <1>0. faults = 0 /\ crashes = 0 /\ faults' # faults + 1
        /\ crashes' # crashes + 1
    <2>1. faults' = faults \/ faults' = faults + 1
      BY DEF VNext, kvars, Upload, Ingest, Rebuild, DeleteFile, BeginRebuild,
             Unlink, Cleared, NotAdded, Add, Write, WriteFails,
             AddToCollection, Finish, Restart, Crash, NextProcess
    <2>2. crashes' = crashes \/ crashes' = crashes + 1
      BY DEF VNext, kvars, Upload, Ingest, Rebuild, DeleteFile, BeginRebuild,
             Unlink, Cleared, NotAdded, Add, Write, WriteFails,
             AddToCollection, Finish, Restart, Crash, NextProcess
    <2> QED  BY <2>1, <2>2 DEF VTypeOK
  <1>1. /\ Aligned(mem)
        /\ at \in {"idle", "next"} => Loaded(disk) = mem
        /\ at = "clear" => mem = Empty
    BY <1>0 DEF SoundSoFar
  <1>2. Aligned(Empty)
    BY DEF Aligned, Empty, Parts
  <1>3. CASE \E f \in Files : Upload(f)
    BY <1>1, <1>3 DEF Upload, Begin, store
  <1>4. CASE \E s \in Sources : Ingest(s) \/ NotAdded(s)
    BY <1>1, <1>4 DEF Ingest, NotAdded, Begin, store
  <1>5. ASSUME NEW op, BeginRebuild(op) PROVE Goal
    <2>1. CASE backend = "faiss"
      BY <1>2, <1>5, <2>1 DEF BeginRebuild, Emptied
    <2>2. CASE backend = "chromadb"
      BY <1>1, <1>5, <2>2, LoadedOfNothing DEF BeginRebuild, ChromaIsApart
    <2> QED  BY <2>1, <2>2 DEF VTypeOK
  <1>6. CASE Rebuild \/ \E f \in Files : DeleteFile(f)
    BY <1>5, <1>6 DEF Rebuild, DeleteFile
  <1>7. CASE Cleared
    BY <1>0, <1>1, <1>7, LoadedOfNothing DEF Cleared, store
  <1>8. CASE Finish
    BY <1>1, <1>8 DEF Finish, store
  <1>9. ASSUME NEW s \in Sources, Add(s) PROVE Goal
    BY <1>1, <1>9, AddAligns DEF Add, SaveOrder
  <1>10. ASSUME NEW s \in Sources, AddToCollection(s) PROVE Goal
    BY <1>1, <1>10 DEF AddToCollection
  <1>11. ASSUME NEW p \in Parts, Unlink(p) PROVE Goal
    BY <1>1, <1>11 DEF Unlink
  <1>12. ASSUME NEW p \in Parts, Write(p) PROVE Goal
    <2>1. Aligned(mem')
      BY <1>1, <1>12 DEF Write
    <2>2. at' \in Parts \cup {"next"}
      BY <1>12 DEF Write, AfterWriting, SaveOrder, Parts
    <2>3. at' # "idle" /\ at' # "clear"
      BY <2>2 DEF Parts
    <2> QED  BY <1>12, <2>1, <2>3, WriteEnds
  <1>13. ASSUME NEW p \in Parts, WriteFails(p) PROVE Goal
    BY <1>0, <1>13 DEF WriteFails
  <1>14. CASE Restart
    BY <1>1, <1>14 DEF Restart, NextProcess
  <1>15. CASE Crash
    BY <1>0, <1>15 DEF Crash
  <1>16. CASE UNCHANGED kvars
    BY <1>1, <1>16 DEF kvars
  <1> QED
    BY <1>3, <1>4, <1>6, <1>7, <1>8, <1>9, <1>10, <1>11, <1>12, <1>13,
       <1>14, <1>15, <1>16 DEF VNext

-----------------------------------------------------------------------------
\* An element of a concatenation comes from one of the two sequences.
LEMMA ConcatAt ==
    ASSUME NEW T, NEW a \in Seq(T), NEW b \in Seq(T), NEW i \in DOMAIN (a \o b)
    PROVE  \/ i \in DOMAIN a /\ (a \o b)[i] = a[i]
           \/ /\ i \notin DOMAIN a
              /\ i - Len(a) \in 1..Len(b)
              /\ (a \o b)[i] = b[i - Len(a)]
  <1>1. Len(a) \in Nat /\ Len(b) \in Nat /\ i \in 1..(Len(a) + Len(b))
        /\ DOMAIN a = 1..Len(a)
    OBVIOUS
  <1>2. CASE i <= Len(a)
    BY <1>1, <1>2
  <1>3. CASE i > Len(a)
    BY <1>1, <1>3
  <1> QED  BY <1>1, <1>2, <1>3

LEMMA ConcatKeeps ==
    ASSUME NEW T, NEW a \in Seq(T), NEW b \in Seq(T), NEW i \in DOMAIN a
    PROVE  i \in DOMAIN (a \o b) /\ (a \o b)[i] = a[i]
  OBVIOUS

\* What a document's chunks add to lists that agree.
LEMMA AddKeepsExact ==
    ASSUME VTypeOK, NEW rest, rest \subseteq Present(dir), Exact(rest),
           NEW s \in rest, Add(s)
    PROVE  Exact(rest \ {s})'
  <1> DEFINE L == mem["chunks"]
             C == Chunks(s)
             N == L \o C
  <1>1. s \in Files /\ s \in Sources /\ s \in Present(dir)
    BY SourcesAreKnown DEF Present, Sources
  <1>2. /\ L \in Seq(Chunk) /\ C \in Seq(Chunk) /\ N = mem'["chunks"]
        /\ Len(C) = Size[s]
        /\ \A i \in 1..Size[s] :
              C[i] = [src |-> s, version |-> dir[s], part |-> i]
        /\ dir' = dir
    BY <1>1, ChunksType DEF VTypeOK, Parts, Add, Version
  <1>3. \A i \in DOMAIN N : \/ i \in DOMAIN L /\ N[i] = L[i]
                            \/ /\ i \notin DOMAIN L
                               /\ i - Len(L) \in 1..Size[s]
                               /\ N[i] = C[i - Len(L)]
    <2> TAKE i \in DOMAIN N
    <2>1. \/ i \in DOMAIN L /\ (L \o C)[i] = L[i]
          \/ /\ i \notin DOMAIN L
             /\ i - Len(L) \in 1..Len(C)
             /\ (L \o C)[i] = C[i - Len(L)]
      <3>1. L \in Seq(Chunk) /\ C \in Seq(Chunk) /\ i \in DOMAIN (L \o C)
        BY <1>2
      <3> HIDE DEF L, C
      <3> QED  BY <3>1, ConcatAt
    <2> QED  BY <1>2, <2>1
  <1>4. \A i \in DOMAIN L : L[i].src \in Present(dir) \ rest
                            /\ L[i].version = dir[L[i].src]
    BY DEF Exact
  <1>5. ASSUME NEW i \in DOMAIN N
        PROVE  /\ N[i].src \in Present(dir) \ (rest \ {s})
               /\ N[i].version = dir[N[i].src]
    <2>1. CASE i \in DOMAIN L
      BY <1>3, <1>4, <2>1
    <2>2. CASE i \notin DOMAIN L
      <3>1. N[i] = [src |-> s, version |-> dir[s], part |-> i - Len(L)]
        BY <1>2, <1>3, <2>2
      <3> QED  BY <1>1, <3>1
    <2> QED  BY <2>1, <2>2
  <1>6. ASSUME NEW i \in DOMAIN N, NEW j \in DOMAIN N, N[i] = N[j]
        PROVE  i = j
    <2>1. CASE i \in DOMAIN L /\ j \in DOMAIN L
      BY <1>3, <1>6, <2>1 DEF Exact
    <2>2. CASE i \notin DOMAIN L /\ j \notin DOMAIN L
      <3>1. /\ N[i] = [src |-> s, version |-> dir[s], part |-> i - Len(L)]
            /\ N[j] = [src |-> s, version |-> dir[s], part |-> j - Len(L)]
        BY <1>2, <1>3, <2>2
      <3>2. N[i].part = i - Len(L) /\ N[j].part = j - Len(L)
        BY <3>1
      <3>3. i \in Nat /\ j \in Nat /\ Len(L) \in Nat
        BY <1>2
      <3> QED  BY <1>6, <3>2, <3>3
    <2>3. ASSUME NEW k \in DOMAIN N, NEW l \in DOMAIN N,
                 k \in DOMAIN L, l \notin DOMAIN L
          PROVE  N[k] # N[l]
      <3>1. N[l] = [src |-> s, version |-> dir[s], part |-> l - Len(L)]
        BY <1>2, <1>3, <2>3
      <3>2. N[k].src # s
        BY <1>3, <1>4, <2>3
      <3> QED  BY <3>1, <3>2
    <2> QED  BY <1>6, <2>1, <2>2, <2>3
  <1>7. Aligned(mem)
    BY DEF Exact
  <1>8. Aligned(mem')
    BY <1>1, <1>7, AddAligns
  <1> QED  BY <1>2, <1>5, <1>6, <1>8 DEF Exact

\* What was found stays found, and the added source is found too.
LEMMA AddKeepsFound ==
    ASSUME VTypeOK, Aligned(mem), NEW s \in Files, Add(s),
           NEW S \in SUBSET Files, AllFound(S)
    PROVE  AllFound(S \cup {s})'
  <1> DEFINE I == mem["index"]
             C == Chunks(s)
             N == I \o C
  <1>1. s \in Sources /\ dir' = dir /\ served' = served
    BY DEF Add, Sources
  <1>2. /\ I \in Seq(Chunk) /\ C \in Seq(Chunk) /\ N = mem'["index"]
        /\ Len(C) = Size[s] /\ Size[s] \in Nat
    BY <1>1, ChunksType, SizesArePositive DEF VTypeOK, Parts, Add
  <1>3. Aligned(mem')
    BY <1>1, AddAligns
  <1>4. \A j \in DOMAIN N : Right(mem', j)
    BY <1>2, <1>3 DEF Right, Search, Aligned
  <1>5. \A t \in Files : Chunks(t)' = Chunks(t)
    BY <1>1 DEF Chunks, Version
  <1>6. ASSUME NEW t \in S, NEW i \in 1..Size[t]
        PROVE  \E j \in DOMAIN N : N[j] = Chunks(t)[i]
    <2>1. PICK j \in DOMAIN I : I[j] = Chunks(t)[i]
      BY DEF AllFound
    <2>2. j \in DOMAIN N /\ N[j] = I[j]
      BY <1>2, ConcatKeeps
    <2> QED  BY <2>1, <2>2
  <1>7. ASSUME NEW i \in 1..Size[s]
        PROVE  \E j \in DOMAIN N : N[j] = C[i]
    <2>1. Len(I) + i \in DOMAIN N /\ N[Len(I) + i] = C[i]
      BY <1>2
    <2> QED  BY <2>1
  <1>8. ASSUME NEW t \in S \cup {s}, NEW i \in 1..Size[t]
        PROVE  \E j \in DOMAIN mem'["index"] :
                 Right(mem', j) /\ mem'["index"][j] = Chunks(t)'[i]
    BY <1>2, <1>4, <1>5, <1>6, <1>7
  <1> QED  BY <1>8 DEF AllFound

-----------------------------------------------------------------------------
\* What lists hold they hold when they grow.
LEMMA AddKeepsHeld ==
    ASSUME VTypeOK, NEW s \in Sources, Add(s), NEW C, Held(mem, C)
    PROVE  Held(mem', C)
  <1> SUFFICES ASSUME NEW c \in C, NEW p \in Parts
               PROVE  \E i \in DOMAIN mem'[p] : mem'[p][i] = c
    BY DEF Held
  <1>1. PICK i \in DOMAIN mem[p] : mem[p][i] = c
    BY DEF Held
  <1>2. mem[p] \in Seq(Chunk) /\ Chunks(s) \in Seq(Chunk)
        /\ mem'[p] = mem[p] \o Chunks(s)
    BY ChunksType DEF VTypeOK, Add
  <1>3. i \in DOMAIN mem'[p] /\ mem'[p][i] = mem[p][i]
    BY <1>2, ConcatKeeps
  <1> QED  BY <1>1, <1>3

\* And they hold what has been added.
LEMMA AddIsHeld ==
    ASSUME VTypeOK, NEW s \in Sources, Add(s)
    PROVE  Held(mem', ChunksOf({s}))
  <1> SUFFICES ASSUME NEW c \in ChunksOf({s}), NEW p \in Parts
               PROVE  \E i \in DOMAIN mem'[p] : mem'[p][i] = c
    BY DEF Held
  <1>1. PICK i \in 1..Size[s] : c = Chunks(s)[i]
    BY DEF ChunksOf
  <1> DEFINE L == mem[p]
             C == Chunks(s)
  <1>2. L \in Seq(Chunk) /\ C \in Seq(Chunk) /\ mem'[p] = L \o C
        /\ Len(C) = Size[s] /\ Size[s] \in Nat
    BY ChunksType, SizesArePositive DEF VTypeOK, Add
  <1>3. c = C[i]
    BY <1>1
  <1> HIDE DEF L, C
  <1>4. Len(L) + i \in DOMAIN (L \o C) /\ (L \o C)[Len(L) + i] = C[i]
    BY <1>2
  <1> QED  BY <1>2, <1>3, <1>4

LEMMA HeldStep ==
    VTypeOK /\ SavesInOrder /\ ReportedIsHeld /\ [VNext]_kvars => ReportedIsHeld'
  <1> SUFFICES ASSUME VTypeOK, SavesInOrder, ReportedIsHeld, [VNext]_kvars,
                      backend' = "faiss"
               PROVE  /\ Held(mem', reported')
                      /\ at' # "idle" => Held(mem', ChunksOf(req.stored)')
                      /\ at' \in Parts => Held(mem', ChunksOf({req.src})')
    BY DEF ReportedIsHeld
  <1> DEFINE Goal == /\ Held(mem', reported')
                     /\ at' # "idle" => Held(mem', ChunksOf(req.stored)')
                     /\ at' \in Parts => Held(mem', ChunksOf({req.src})')
  <1>1. backend = "faiss"
    BY DEF VNext, kvars, Upload, Ingest, Rebuild, DeleteFile, BeginRebuild,
           Unlink, Cleared, NotAdded, Add, Write, WriteFails,
           AddToCollection, Finish, Restart, Crash, NextProcess
  <1>2. /\ Held(mem, reported)
        /\ at # "idle" => Held(mem, ChunksOf(req.stored))
        /\ at \in Parts => Held(mem, ChunksOf({req.src}))
    BY <1>1 DEF ReportedIsHeld
  <1>3. \A m : Held(m, {}) /\ Held(m, ChunksOf({})) /\ Held(m, ChunksOf({})')
    BY DEF Held, ChunksOf
  <1>4. CASE \E f \in Files : Upload(f)
    <2>1. /\ UNCHANGED <<mem, reported>> /\ at' = "next" /\ req'.stored = {}
      BY <1>4 DEF Upload, Begin, store, promises
    <2>2. Held(mem', ChunksOf(req.stored)')
      BY <2>1 DEF Held, ChunksOf
    <2> QED  BY <1>2, <2>1, <2>2 DEF Parts
  <1>5. CASE \E s \in Sources : Ingest(s)
    <2>1. /\ UNCHANGED <<mem, reported>> /\ at' = "next" /\ req'.stored = {}
      BY <1>5 DEF Ingest, Begin, store, promises
    <2>2. Held(mem', ChunksOf(req.stored)')
      BY <2>1 DEF Held, ChunksOf
    <2> QED  BY <1>2, <2>1, <2>2 DEF Parts
  <1>6. ASSUME NEW op, BeginRebuild(op) PROVE Goal
    <2>1. /\ reported' = {} /\ at' \notin Parts /\ req'.stored = {}
      BY <1>6 DEF BeginRebuild, Begin, Parts
    <2>2. Held(mem', ChunksOf(req.stored)')
      BY <2>1 DEF Held, ChunksOf
    <2> QED  BY <1>3, <2>1, <2>2
  <1>7. CASE Rebuild \/ \E f \in Files : DeleteFile(f)
    BY <1>6, <1>7 DEF Rebuild, DeleteFile
  <1>8. ASSUME UNCHANGED <<mem, reported, dir, served>>, at # "idle",
               req'.stored = req.stored, at' \notin Parts
        PROVE  Goal
    <2>1. ChunksOf(req.stored)' = ChunksOf(req.stored)
      BY <1>8 DEF ChunksOf, Chunks, Version
    <2> QED  BY <1>2, <1>8, <2>1
  <1>9. CASE Cleared
    BY <1>8, <1>9 DEF Cleared, store, promises, Parts
  <1>10. ASSUME NEW p \in Parts, Unlink(p) PROVE Goal
    BY <1>8, <1>10 DEF Unlink, promises, Parts
  <1>11. ASSUME NEW s \in Sources, NotAdded(s) PROVE Goal
    <2>1. req'.stored = req.stored
      BY <1>11 DEF NotAdded, VTypeOK, Request
    <2> QED  BY <1>8, <1>11, <2>1 DEF NotAdded, store, promises, Parts
  <1>12. ASSUME NEW p \in Parts, WriteFails(p) PROVE Goal
    <2>1. req'.stored = req.stored /\ at # "idle"
      BY <1>12 DEF WriteFails, VTypeOK, Request, Parts
    <2> QED  BY <1>8, <1>12, <2>1 DEF WriteFails, promises, Parts
  <1>13. ASSUME NEW s \in Sources, Add(s) PROVE Goal
    <2>1. /\ req'.stored = req.stored /\ req'.src = s
          /\ UNCHANGED <<dir, served, reported>> /\ at = "next"
      BY <1>13 DEF Add, VTypeOK, Request
    <2>2. /\ ChunksOf(req.stored)' = ChunksOf(req.stored)
          /\ ChunksOf({req.src})' = ChunksOf({s})
      BY <2>1 DEF ChunksOf, Chunks, Version
    <2>3. Held(mem', reported) /\ Held(mem', ChunksOf(req.stored))
      BY <1>2, <1>13, <2>1, AddKeepsHeld
    <2>4. Held(mem', ChunksOf({s}))
      BY <1>13, AddIsHeld
    <2> QED  BY <2>1, <2>2, <2>3, <2>4
  <1>14. ASSUME NEW p \in Parts, Write(p) PROVE Goal
    <2>1. /\ UNCHANGED <<mem, reported, dir, served>> /\ at \in Parts
          /\ req'.src = req.src /\ req'.stored \subseteq req.stored \cup {req.src}
      BY <1>14 DEF Write, VTypeOK, Request, Parts
    <2>2. /\ ChunksOf({req.src})' = ChunksOf({req.src})
          /\ ChunksOf(req.stored)' \subseteq
               ChunksOf(req.stored) \cup ChunksOf({req.src})
      BY <2>1 DEF ChunksOf, Chunks, Version
    <2>3. Held(mem, ChunksOf(req.stored)) /\ Held(mem, ChunksOf({req.src}))
      BY <1>2, <2>1 DEF Parts
    <2> QED  BY <1>2, <2>1, <2>2, <2>3 DEF Held
  <1>15. CASE \E s \in Sources : AddToCollection(s)
    BY <1>1, <1>15 DEF AddToCollection
  <1>16. CASE Finish
    <2>1. /\ reported' = reported \cup ChunksOf(req.stored) /\ at # "idle"
          /\ mem' = mem /\ at' = "idle"
      BY <1>16 DEF Finish, store
    <2>2. Held(mem', reported')
      BY <1>2, <2>1 DEF Held
    <2> QED  BY <2>1, <2>2 DEF Parts
  <1>17. CASE Restart \/ Crash
    <2>1. /\ mem' = Loaded(disk') /\ at' = "idle"
          /\ reported' = IF unsaved THEN {} ELSE reported
      BY <1>17 DEF Restart, Crash, NextProcess
    <2>2. CASE reported' = {}
      BY <1>3, <2>1, <2>2 DEF Parts
    <2>3. CASE reported' # {}
      <3>1. ~unsaved /\ reported' = reported /\ reported # {}
        BY <2>1, <2>3
      <3>2. disk' = disk /\ Loaded(disk) = mem
        BY <1>17, <3>1 DEF Restart, Crash, SavesInOrder
      <3> QED  BY <1>2, <2>1, <3>1, <3>2 DEF Parts
    <2> QED  BY <2>2, <2>3
  <1>18. CASE UNCHANGED kvars
    <2>1. /\ UNCHANGED <<mem, reported, at>>
          /\ ChunksOf(req.stored)' = ChunksOf(req.stored)
          /\ ChunksOf({req.src})' = ChunksOf({req.src})
      BY <1>18 DEF kvars, ChunksOf, Chunks, Version
    <2> QED  BY <1>2, <2>1
  <1> QED
    BY <1>4, <1>5, <1>7, <1>9, <1>10, <1>11, <1>12, <1>13, <1>14, <1>15,
       <1>16, <1>17, <1>18 DEF VNext

-----------------------------------------------------------------------------
\* A step of a rebuild that adds nothing keeps what it has established, when
\* the sources it drops are reported as failed.
LEMMA RebuildKept ==
    ASSUME VTypeOK, RebuildsAreExact,
           at # "idle", backend = "faiss", req.op \in Rebuilds,
           UNCHANGED <<mem, dir, served>>,
           req'.todo \subseteq req.todo,
           req.todo \ req'.todo \subseteq req'.missed,
           req.missed \subseteq req'.missed
    PROVE  /\ req'.todo \subseteq Present(dir')
           /\ Exact(req.todo)'
           /\ AllFound(Present(dir) \ (req.todo \cup req.missed))'
  <1>1. /\ req.todo \subseteq Present(dir)
        /\ Exact(req.todo)
        /\ AllFound(Present(dir) \ (req.todo \cup req.missed))
    BY DEF RebuildsAreExact
  <1>2. req'.todo \subseteq Present(dir')
    BY <1>1
  <1>3. Exact(req.todo)'
    BY <1>1 DEF Exact, Present
  <1>4. Present(dir) \ (req'.todo \cup req'.missed)
          \subseteq Present(dir) \ (req.todo \cup req.missed)
    OBVIOUS
  <1>5. \A s \in Sources : Chunks(s)' = Chunks(s)
    BY DEF Chunks, Version
  <1>6. Present(dir) \subseteq Sources
    BY SourcesAreKnown DEF Present, Sources
  <1>7. AllFound(Present(dir) \ (req.todo \cup req.missed))'
    BY <1>1, <1>4, <1>5, <1>6 DEF AllFound
  <1> QED  BY <1>2, <1>3, <1>7

LEMMA RebuildStep ==
    VTypeOK /\ RebuildsAreExact /\ [VNext]_kvars => RebuildsAreExact'
  <1> SUFFICES ASSUME VTypeOK, RebuildsAreExact, [VNext]_kvars,
                      at' # "idle", backend' = "faiss", req'.op \in Rebuilds
               PROVE  /\ req'.todo \subseteq Present(dir')
                      /\ Exact(req.todo)'
                      /\ AllFound(Present(dir) \ (req.todo \cup req.missed))'
    BY DEF RebuildsAreExact
  <1> DEFINE Goal == /\ req'.todo \subseteq Present(dir')
                     /\ Exact(req.todo)'
                     /\ AllFound(Present(dir) \ (req.todo \cup req.missed))'
  <1>1. CASE \E f \in Files : Upload(f)
    BY <1>1 DEF Upload, Begin, Rebuilds
  <1>2. CASE \E s \in Sources : Ingest(s)
    BY <1>2 DEF Ingest, Begin, Rebuilds
  <1>3. ASSUME NEW op, BeginRebuild(op) PROVE Goal
    <2>1. mem' = Empty
      BY <1>3 DEF BeginRebuild, Emptied
    <2>2. req'.todo = Present(dir') /\ req'.missed = {}
      BY <1>3 DEF BeginRebuild, Begin
    <2>3. Exact(req.todo)'
      BY <2>1 DEF Exact, Aligned, Empty, Parts
    <2>4. AllFound(Present(dir) \ (req.todo \cup req.missed))'
      BY <2>2 DEF AllFound
    <2> QED  BY <2>2, <2>3, <2>4
  <1>4. CASE Rebuild \/ \E f \in Files : DeleteFile(f)
    BY <1>3, <1>4 DEF Rebuild, DeleteFile
  <1>5. CASE Cleared
    BY <1>5, RebuildKept DEF Cleared, store
  <1>6. ASSUME NEW s \in Sources, NotAdded(s) PROVE Goal
    <2>1. /\ req'.todo = req.todo \ {s} /\ req'.missed = req.missed \cup {s}
          /\ req'.op = req.op
      BY <1>6 DEF NotAdded, VTypeOK, Request
    <2> QED  BY <1>6, <2>1, RebuildKept DEF NotAdded, store
  <1>7. ASSUME NEW s \in Sources, Add(s) PROVE Goal
    <2>1. PICK rest : rest = req.todo
      OBVIOUS
    <2>2. PICK done : done = Present(dir) \ (req.todo \cup req.missed)
      OBVIOUS
    <2>3. /\ req'.todo = rest \ {s} /\ req'.missed = req.missed
          /\ req'.op = req.op /\ s \in rest
      BY <1>7, <2>1 DEF Add, VTypeOK, Request
    <2>4. at # "idle" /\ backend = "faiss" /\ dir' = dir
      BY <1>7 DEF Add
    <2>5. rest \subseteq Present(dir) /\ Exact(rest) /\ AllFound(done)
      BY <2>1, <2>2, <2>3, <2>4 DEF RebuildsAreExact
    <2>6. s \in Files /\ done \in SUBSET Files
      BY <2>2, <2>3, <2>5, SourcesAreKnown DEF Present
    <2>7. Exact(rest \ {s})'
      BY <1>7, <2>3, <2>5, AddKeepsExact
    <2>8. Aligned(mem)
      BY <2>5 DEF Exact
    <2>9. AllFound(done \cup {s})'
      BY <1>7, <2>5, <2>6, <2>8, AddKeepsFound
    <2>10. Exact(req.todo)'
      BY <2>3, <2>7 DEF Exact
    <2>11. Present(dir') \ (req'.todo \cup req'.missed) \subseteq done \cup {s}
      BY <2>1, <2>2, <2>3, <2>4
    <2>12. AllFound(Present(dir) \ (req.todo \cup req.missed))'
      BY <2>9, <2>11 DEF AllFound
    <2> QED  BY <2>3, <2>4, <2>5, <2>10, <2>12
  <1>8. CASE \E s \in Sources : AddToCollection(s)
    BY <1>8 DEF AddToCollection
  <1>9. ASSUME NEW p \in Parts, Unlink(p) PROVE Goal
    BY <1>9, RebuildKept DEF Unlink
  <1>10. ASSUME NEW p \in Parts, Write(p) PROVE Goal
    <2>1. /\ req'.todo = req.todo /\ req'.missed = req.missed
          /\ req'.op = req.op /\ at # "idle"
      BY <1>10 DEF Write, VTypeOK, Request, Parts
    <2> QED  BY <1>10, <2>1, RebuildKept DEF Write
  <1>11. ASSUME NEW p \in Parts, WriteFails(p) PROVE Goal
    <2>1. /\ req'.todo = req.todo /\ req.missed \subseteq req'.missed
          /\ req'.op = req.op /\ at # "idle"
      BY <1>11 DEF WriteFails, VTypeOK, Request, Parts
    <2> QED  BY <1>11, <2>1, RebuildKept DEF WriteFails
  <1>12. CASE Finish \/ Restart \/ Crash
    BY <1>12 DEF Finish, Restart, Crash, NextProcess
  <1>13. CASE UNCHANGED kvars
    BY <1>13, RebuildKept DEF kvars
  <1> QED
    BY <1>1, <1>2, <1>4, <1>5, <1>6, <1>7, <1>8, <1>9, <1>10, <1>11, <1>12,
       <1>13 DEF VNext

LEMMA HealStep ==
    VTypeOK /\ RebuildsAreExact /\ RebuildHeals /\ [VNext]_kvars
      => RebuildHeals'
  <1> SUFFICES ASSUME VTypeOK, RebuildsAreExact, RebuildHeals, [VNext]_kvars,
                      at' = "idle", backend' = "faiss", result'.op \in Rebuilds
               PROVE  /\ Exact({})'
                      /\ result'.ok => AllFound(Present(dir))'
    BY DEF RebuildHeals
  <1>1. CASE Finish
    <2>1. /\ at # "idle" /\ backend = "faiss" /\ req.op \in Rebuilds
          /\ req.todo = {}
          /\ result'.ok => req.missed = {}
      BY <1>1 DEF Finish
    <2>2. Exact({}) /\ AllFound(Present(dir) \ req.missed)
      <3>1. Exact(req.todo) /\ AllFound(Present(dir) \ (req.todo \cup req.missed))
        BY <2>1 DEF RebuildsAreExact
      <3>2. Present(dir) \ (req.todo \cup req.missed) = Present(dir) \ req.missed
        BY <2>1
      <3> QED  BY <2>1, <3>1, <3>2
    <2>3. UNCHANGED <<mem, dir, served>>
      BY <1>1 DEF Finish, store
    <2>4. Exact({})'
      BY <2>2, <2>3 DEF Exact, Present
    <2>5. ASSUME result'.ok PROVE AllFound(Present(dir))'
      <3>0. Present(dir) \ req.missed = Present(dir)
        BY <2>1, <2>5
      <3>1. AllFound(Present(dir))
        BY <2>2, <3>0
      <3> QED  BY <2>3, <3>1 DEF AllFound, Chunks, Version, Present, Right,
                                Search
    <2> QED  BY <2>4, <2>5
  <1>2. CASE Restart \/ Crash
    BY <1>2 DEF Restart, Crash, NextProcess, NoResult, Rebuilds
  <1>3. CASE UNCHANGED kvars
    <2>1. at = "idle" /\ backend = "faiss" /\ result.op \in Rebuilds
          /\ UNCHANGED <<mem, dir, served, result>>
      BY <1>3 DEF kvars
    <2>2. Exact({}) /\ (result.ok => AllFound(Present(dir)))
      BY <2>1 DEF RebuildHeals
    <2>3. Exact({})'
      BY <2>1, <2>2 DEF Exact, Present
    <2> QED
      BY <2>1, <2>2, <2>3 DEF AllFound, Chunks, Version, Present, Right, Search
  <1>4. ASSUME NEW p \in Parts, Write(p) PROVE FALSE
    BY <1>4 DEF Write, AfterWriting, SaveOrder, Parts
  <1>5. CASE \E f \in Files : Upload(f) \/ DeleteFile(f)
    BY <1>5 DEF Upload, DeleteFile, BeginRebuild
  <1>6. CASE \E s \in Sources :
               Ingest(s) \/ NotAdded(s) \/ Add(s) \/ AddToCollection(s)
    BY <1>6 DEF Ingest, NotAdded, Add, AddToCollection, SaveOrder
  <1>7. CASE Rebuild \/ Cleared
    BY <1>7 DEF Rebuild, BeginRebuild, Cleared
  <1>8. CASE \E p \in Parts : Unlink(p) \/ WriteFails(p)
    BY <1>8 DEF Unlink, WriteFails
  <1> QED
    BY <1>1, <1>2, <1>3, <1>4, <1>5, <1>6, <1>7, <1>8 DEF VNext

-----------------------------------------------------------------------------
LEMMA InitIsSound == VInit => VInv
  <1> SUFFICES ASSUME VInit PROVE VInv
    OBVIOUS
  <1>1. /\ backend \in {"faiss", "chromadb"}
        /\ dir = [f \in Files |-> 0] /\ mem = Empty /\ disk = NoFiles
        /\ collection = <<>> /\ at = "idle" /\ req = NoRequest
        /\ result = NoResult /\ served = 0 /\ faults = 0 /\ crashes = 0
    BY BackendsAreKnown DEF VInit
  <1>2. VTypeOK
    <2>1. reported \subseteq Chunk /\ unsaved \in BOOLEAN
      BY DEF VInit
    <2> QED
      BY <1>1, <2>1, EmptyType, NoChunks DEF VTypeOK, NoFiles, NoResult, Result
  <1>3. ChromaIsApart /\ RebuildsAreExact
    BY <1>1 DEF ChromaIsApart, RebuildsAreExact
  <1>4. SavesInOrder /\ RebuildHeals /\ ReportedIsHeld
    <2>1. reported = {} /\ unsaved = FALSE
      BY DEF VInit
    <2> QED  BY <1>1, <2>1 DEF SavesInOrder, RebuildHeals, ReportedIsHeld, Held,
                                NoResult, Rebuilds, Parts
  <1>5. SoundSoFar
    BY <1>1, LoadedOfNothing DEF SoundSoFar, Aligned, Empty, Parts
  <1> QED  BY <1>2, <1>3, <1>4, <1>5 DEF VInv

\* Whatever requests, failing writes, crashes and restarts a process of
\* KnowledgeBaseManager goes through, its lists, its files and the request it
\* serves keep the relations of VInv.
THEOREM VectorStoreInvariant == VSpec => []VInv
  <1>1. VInv /\ [VNext]_kvars => VInv'
    BY TypeStep, ChromaStep, SavesStep, SoundStep, HeldStep, RebuildStep, HealStep
       DEF VInv
  <1> QED  BY <1>1, InitIsSound, PTL DEF VSpec

\* Until a disk fails or a process crashes, search of FAISSAdapter answers
\* every hit with the text and the source that were embedded there.
THEOREM SearchesAreSound == VSpec => []SearchIsSound
  <1>1. VInv => SearchIsSound
    <2> SUFFICES ASSUME VInv, faults = 0, crashes = 0,
                        NEW i \in DOMAIN mem["index"]
                 PROVE  Right(mem, i)
      BY DEF SearchIsSound
    <2>1. Aligned(mem)
      BY DEF VInv, SoundSoFar
    <2> QED  BY <2>1 DEF Aligned, Right, Search
  <1> QED  BY <1>1, VectorStoreInvariant, PTL

\* A rebuild makes good whatever a crash or a failing disk has left behind,
\* and leaves nothing of a file that is gone.
THEOREM RebuildsHeal == VSpec => []RebuildHeals
  <1>1. VInv => RebuildHeals
    BY DEF VInv
  <1> QED  BY <1>1, VectorStoreInvariant, PTL

\* What any reply has called ingested is there in the next process, unless the
\* save begun last has failed or was cut short, or the store has been cleared.
THEOREM SuccessSurvivesRestart == VSpec => RestartKeepsSuccess
  <1> DEFINE kept == (Restart \/ Crash) /\ backend = "faiss" /\ ~unsaved =>
                       Held(mem', reported)
  <1>1. VInv /\ [VNext]_kvars => [kept]_kvars
    <2> SUFFICES ASSUME VInv, Restart \/ Crash, backend = "faiss", ~unsaved
                 PROVE  Held(mem', reported)
      OBVIOUS
    <2>1. SavesInOrder /\ ReportedIsHeld
      BY DEF VInv
    <2>2. disk' = disk /\ mem' = Loaded(disk)
      BY <2>1 DEF Restart, Crash, NextProcess, SavesInOrder
    <2>3. CASE reported = {}
      BY <2>3 DEF Held
    <2>4. CASE reported # {}
      <3>1. mem' = mem
        BY <2>1, <2>2, <2>4 DEF SavesInOrder
      <3> QED  BY <2>1, <3>1 DEF ReportedIsHeld
    <2> QED  BY <2>3, <2>4
  <1> QED
    BY <1>1, VectorStoreInvariant, PTL DEF VSpec, RestartKeepsSuccess

-----------------------------------------------------------------------------
\* Files that begin lists that agree, agree.
LEMMA BeginningsAgree ==
    ASSUME Aligned(mem), \A p \in Parts : disk[p] # None => Begins(p)
    PROVE  \A p, q \in Parts : None \notin {disk[p], disk[q]} => Agree(p, q)
  BY DEF Aligned, Begins, Agree, Parts

LEMMA FilesStep ==
    VInv /\ VInv' /\ FilesAgree /\ [VNext]_kvars => FilesAgree'
  <1> SUFFICES ASSUME VInv, VInv', FilesAgree, [VNext]_kvars, faults' = 0, crashes' = 0
               PROVE  /\ \A p \in Parts : disk'[p] # Torn
                      /\ at' # "clear" => \A p \in Parts : disk'[p] # None => Begins(p)'
                      /\ \A p, q \in Parts : None \notin {disk'[p], disk'[q]} => Agree(p, q)'
    BY DEF FilesAgree
  <1> DEFINE whole == \A p \in Parts : disk'[p] # Torn
             begins == \A p \in Parts : disk'[p] # None => Begins(p)'
             agree == \A p, q \in Parts : None \notin {disk'[p], disk'[q]} => Agree(p, q)'
  <1>0. VTypeOK /\ VTypeOK' /\ SoundSoFar
    BY DEF VInv
  <1>1. faults = 0 /\ crashes = 0
    <2>1. faults \in Nat /\ crashes \in Nat
      BY <1>0 DEF VTypeOK
    <2>2. CASE \E f \in Files : Upload(f) \/ DeleteFile(f)
      BY <2>1, <2>2 DEF Upload, DeleteFile, BeginRebuild
    <2>3. CASE \E t \in Sources :
                 Ingest(t) \/ NotAdded(t) \/ Add(t) \/ AddToCollection(t)
      BY <2>3 DEF Ingest, NotAdded, Add, AddToCollection
    <2>4. CASE Rebuild \/ Cleared \/ Finish \/ Restart \/ Crash
      BY <2>1, <2>4 DEF Rebuild, BeginRebuild, Cleared, Finish, Restart, Crash, NextProcess
    <2>5. CASE \E p \in Parts : Unlink(p) \/ Write(p) \/ WriteFails(p)
      BY <2>1, <2>5 DEF Unlink, Write, WriteFails
    <2>6. CASE UNCHANGED kvars
      BY <2>6 DEF kvars
    <2> QED  BY <2>2, <2>3, <2>4, <2>5, <2>6 DEF VNext
  <1>2. /\ \A p \in Parts : disk[p] # Torn
        /\ at # "clear" => \A p \in Parts : disk[p] # None => Begins(p)
        /\ \A p, q \in Parts : None \notin {disk[p], disk[q]} => Agree(p, q)
        /\ Aligned(mem)
    BY <1>0, <1>1 DEF FilesAgree, SoundSoFar
  <1>3. Aligned(mem')
    <2>1. SoundSoFar'
      BY DEF VInv
    <2> QED  BY <2>1 DEF SoundSoFar, Aligned
  <1>4. ASSUME UNCHANGED disk PROVE whole /\ agree
    BY <1>2, <1>4 DEF Agree
  <1>5. ASSUME UNCHANGED <<disk, mem>>, at # "clear" PROVE begins
    BY <1>2, <1>5 DEF Begins
  <1>6. CASE \/ \E f \in Files : Upload(f)
             \/ \E s \in Sources : Ingest(s) \/ NotAdded(s) \/ AddToCollection(s)
             \/ Finish \/ UNCHANGED kvars
    <2>1. UNCHANGED <<disk, mem>> /\ (at # "clear" \/ at' = at)
      BY <1>6 DEF Upload, Ingest, NotAdded, AddToCollection, Finish, Begin, store, kvars
    <2> QED  BY <1>4, <1>5, <2>1
  <1>7. ASSUME NEW op, BeginRebuild(op) PROVE whole /\ agree /\ (at' # "clear" => begins)
    <2>1. UNCHANGED disk /\ at = "idle" /\ (at' # "clear" => UNCHANGED mem)
      BY <1>7 DEF BeginRebuild, Begin
    <2> QED  BY <1>4, <1>5, <2>1
  <1>8. ASSUME NEW p \in Parts, Unlink(p) PROVE whole /\ agree /\ at' = "clear"
    <2>1. disk' = [disk EXCEPT ![p] = None] /\ at' = "clear"
      BY <1>8 DEF Unlink
    <2>2. \A q \in Parts : disk'[q] = None \/ disk'[q] = disk[q]
      BY <1>0, <2>1 DEF VTypeOK
    <2> QED  BY <1>2, <2>1, <2>2, MarksDiffer DEF Agree
  <1>9. CASE Cleared
    <2>1. disk' = NoFiles /\ disk = NoFiles
      BY <1>0, <1>1, <1>9 DEF Cleared, VTypeOK, store
    <2>2. \A p \in Parts : disk'[p] = None /\ disk[p] = None
      BY <2>1 DEF NoFiles
    <2> QED  BY <1>2, <2>2
  <1>10. ASSUME NEW s \in Sources, Add(s) PROVE whole /\ agree /\ begins
    <2>1. UNCHANGED disk /\ mem' = [p \in Parts |-> mem[p] \o Chunks(s)] /\ at # "clear"
      BY <1>10 DEF Add
    <2>2. ASSUME NEW p \in Parts, disk[p] # None PROVE Begins(p)'
      <3>1. Begins(p) /\ mem[p] \in Seq(Chunk) /\ Chunks(s) \in Seq(Chunk)
        BY <1>0, <1>2, <2>1, <2>2, ChunksType DEF VTypeOK
      <3>2. \A i \in DOMAIN mem[p] : i \in DOMAIN mem'[p] /\ mem'[p][i] = mem[p][i]
        BY <2>1, <3>1, ConcatKeeps
      <3> QED  BY <2>1, <3>1, <3>2 DEF Begins
    <2> QED  BY <1>4, <2>1, <2>2
  <1>11. ASSUME NEW p \in Parts, Write(p) PROVE whole /\ agree /\ begins
    <2>1. UNCHANGED mem /\ disk' = [disk EXCEPT ![p] = mem[p]] /\ at # "clear"
      BY <1>11 DEF Write, Parts
    <2>2. mem[p] \in Seq(Chunk)
      BY <1>0 DEF VTypeOK
    <2>3. \A q \in Parts : disk'[q] = IF q = p THEN mem[p] ELSE disk[q]
      BY <1>0, <2>1 DEF VTypeOK
    <2>4. whole
      BY <1>2, <2>2, <2>3, MarksAreNoData
    <2>5. begins
      BY <1>2, <2>1, <2>3 DEF Begins
    <2> QED  BY <1>3, <2>4, <2>5, BeginningsAgree DEF Aligned, Begins, Agree, Parts
  <1>12. CASE Restart
    <2>1. UNCHANGED disk /\ mem' = Loaded(disk) /\ at = "idle"
      BY <1>12 DEF Restart, NextProcess
    <2>2. mem' = mem
      BY <1>0, <1>1, <2>1 DEF SoundSoFar
    <2> QED  BY <1>4, <1>5, <2>1, <2>2
  <1>13. \A p \in Parts : ~WriteFails(p)
    BY <1>0, <1>1 DEF WriteFails, VTypeOK
  <1>14. ~Crash
    BY <1>0, <1>1 DEF Crash, VTypeOK
  <1> QED
    BY <1>6, <1>7, <1>8, <1>9, <1>10, <1>11, <1>12, <1>13, <1>14
       DEF VNext, Rebuild, DeleteFile

\* The first crash, if no disk has failed, leaves files of which the next
\* process makes an index that answers rightly or not at all.
THEOREM CrashIsHarmless == VSpec => FirstCrashIsHarmless
  <1> DEFINE harmless == Crash /\ faults = 0 /\ crashes = 0 =>
                           \A i \in DOMAIN mem'["index"] :
                             Right(mem', i) \/ Search(mem', i) = None
  <1>1. VInit => FilesAgree
    <2> SUFFICES ASSUME VInit, NEW p \in Parts
                 PROVE  disk[p] = None /\ disk[p] # Torn
      BY DEF FilesAgree
    <2> QED  BY MarksDiffer DEF VInit, NoFiles
  <1>2. VInv /\ FilesAgree => [harmless]_kvars
    <2> SUFFICES ASSUME VInv, FilesAgree, Crash, faults = 0, crashes = 0,
                        NEW i \in DOMAIN mem'["index"]
                 PROVE  Right(mem', i) \/ Search(mem', i) = None
      OBVIOUS
    <2>1. mem' = Loaded(disk')
      BY DEF Crash, NextProcess
    <2>2. CASE mem' = Empty
      <3>1. DOMAIN mem'["index"] = {}
        BY <2>2 DEF Empty, Parts
      <3> QED  BY <3>1
    <2>3. CASE mem' # Empty
      <3>1. mem' = disk' /\ \A p \in Parts : disk'[p] \notin {None, Torn}
        BY <2>1, <2>3 DEF Loaded
      <3>2. disk' = disk
        BY <3>1 DEF Crash, VInv, VTypeOK
      <3>3. Agree("index", "chunks") /\ Agree("index", "metadata")
        BY <3>1, <3>2 DEF FilesAgree, Parts
      <3> QED  BY <3>1, <3>2, <3>3 DEF Agree, Right, Search
    <2> QED  BY <2>2, <2>3
  <1> QED  BY <1>1, <1>2, VectorStoreInvariant, FilesStep, PTL DEF VSpec, FirstCrashIsHarmless
=============================================================================
