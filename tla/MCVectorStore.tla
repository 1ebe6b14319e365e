---------------------------- MODULE MCVectorStore ----------------------------
(***************************************************************************)
(* VectorStore for TLC: the first file has two chunks, any other source one. *)
(***************************************************************************)
EXTENDS VectorStore

CONSTANT Long

OneIsLong == [s \in Sources |-> IF s = Long THEN 2 ELSE 1]
=============================================================================
