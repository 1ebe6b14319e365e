----------------------------- MODULE UnitOfWork -----------------------------
(***************************************************************************)
(* How a request handler changes a database row: get_db                    *)
(* (backend/auth/database.py) gives it an SQLAlchemy session, the handler  *)
(* loads the row, decides on what it loaded, assigns to columns and        *)
(* flushes; get_db commits when it returns and rolls back when it raises.  *)
(*                                                                         *)
(* Two facts about the library and the database matter to the modules that *)
(* use these operators.  The flush sends an UPDATE of the columns whose    *)
(* value differs from the one loaded, and of no other: a column assigned   *)
(* the value it had is left alone, whatever another request has written to *)
(* it meanwhile.  And PostgreSQL at READ COMMITTED lets a request load a   *)
(* row that another one is writing, in its last committed version; only    *)
(* the second UPDATE waits, for the first one's transaction to end.        *)
(***************************************************************************)

CONSTANTS
    Requests,      \* requests that can be in progress at a time
    NoRequest      \* what a request that is free is doing

Keep == "keep"      \* stands for the value of a column that is not sent

\* What the UPDATE sends for a row loaded as `saw' and assigned `want'.  The
\* columns of `stamped' are assigned a timestamp of this instant, which
\* always differs from the one loaded.
AllColumns(saw, want, stamped) == want      \* mutant: the whole row

Changes(saw, want, stamped) ==
    [c \in DOMAIN saw |-> IF want[c] # saw[c] \/ c \in stamped THEN want[c] ELSE Keep]

\* Nothing has changed: there is no UPDATE at all.
NothingIn(changes) == \A c \in DOMAIN changes : changes[c] = Keep

\* The row after the UPDATE, as committed: the columns sent are overwritten.
Updated(row, changes) ==
    [c \in DOMAIN row |-> IF changes[c] = Keep THEN row[c] ELSE changes[c]]
=============================================================================
