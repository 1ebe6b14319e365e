--------------------------- MODULE TicketLifecycle ---------------------------
(***************************************************************************)
(* One support ticket, its comments, and the requests that change them:    *)
(* the customer's status update, comment, escalation and reopening         *)
(* (backend/customer/service.py) and the administrator's update and        *)
(* comment (backend/admin/router.py).                                      *)
(*                                                                         *)
(* As in OrderLifecycle every handler is one transaction (UnitOfWork): it  *)
(* loads the row and assigns columns, flushes, and is committed or rolled  *)
(* back.  Each handler assigns updated_at, so each flush sends an UPDATE   *)
(* and holds the row until the transaction ends.                           *)
(***************************************************************************)
EXTENDS Naturals, UnitOfWork

CONSTANTS
    Seeds,         \* the tickets there are to begin with
    Agents,        \* whom an administrator may assign the ticket to
    MaxServed      \* bound: requests served

TicketStatus ==
    {"open", "in_progress", "waiting_customer", "escalated", "resolved", "closed"}

\* The columns of support_tickets; of a timestamp, only whether it is NULL.
\* Of the escalation, its time stands for its reason too.
Ticket ==
    [status : TicketStatus, assigned_to : Agents \cup {"null"},
     resolved_at : {"null", "set"}, closed_at : {"null", "set"},
     closed_by : {"null", "Customer", "admin"},
     escalated_at : {"null", "set"}, updated_at : {"set"}]

\* The tickets of seed_customer_data: all but the open one are assigned.
NewTicket ==
    [status |-> "open", assigned_to |-> "null", resolved_at |-> "null",
     closed_at |-> "null", closed_by |-> "null", escalated_at |-> "null",
     updated_at |-> "set"]

SeededTickets ==
    {NewTicket} \cup
    UNION {{[NewTicket EXCEPT !.status = "in_progress", !.assigned_to = a],
            [NewTicket EXCEPT !.status = "resolved", !.resolved_at = "set", !.assigned_to = a],
            [NewTicket EXCEPT !.status = "escalated", !.escalated_at = "set",
                              !.assigned_to = a]} : a \in Agents}

Changeset ==
    [status : TicketStatus \cup {Keep}, assigned_to : Agents \cup {"null", Keep},
     resolved_at : {"null", "set", Keep}, closed_at : {"null", "set", Keep},
     closed_by : {"null", "Customer", "admin", Keep},
     escalated_at : {"null", "set", Keep}, updated_at : {"set", Keep}]

Operations == {"status", "comment", "escalate", "reopen", "admin", "admin_comment"}

\* A request between its SELECT and its end, with the columns it will send.
Request == [op : Operations, st : {"loaded", "flushed"}, changes : Changeset,
            writes : Nat]

\* Seeded tickets carry the timestamps of their status.
Stamped(t) ==
    /\ t.status = "resolved" => t.resolved_at = "set"
    /\ t.status = "closed" => t.closed_at = "set"

ASSUME NoRequestIsNoTicketRequest == NoRequest \notin Request
ASSUME SeedsAreTickets == Seeds \subseteq {t \in Ticket : Stamped(t)}
ASSUME AgentsAreNames == Agents \cap {"null", Keep} = {}
ASSUME ServedIsBounded == MaxServed \in Nat

VARIABLES
    ticket,        \* the committed row of the ticket
    seed,          \* the row it began as
    comments,      \* comments[op]: committed comments that op has written
    req,           \* req[r]: what request r is doing
    served

tvars == <<ticket, seed, comments, req, served>>

TTypeOK ==
    /\ ticket \in Ticket /\ seed \in Seeds
    /\ comments \in [Operations -> Nat]
    /\ req \in [Requests -> Request \cup {NoRequest}]
    /\ served \in Nat

TInit ==
    /\ ticket \in Seeds /\ seed = ticket
    /\ comments = [op \in Operations |-> 0]
    /\ req = [r \in Requests |-> NoRequest]
    /\ served = 0

-----------------------------------------------------------------------------
\* A handler has loaded the ticket and assigned its columns; it will write
\* `writes' comments.
Assigns(r, op, want, stamped, writes) ==
    /\ req[r] = NoRequest /\ served < MaxServed
    /\ served' = served + 1
    /\ req' = [req EXCEPT ![r] =
                 [op |-> op, st |-> "loaded", writes |-> writes,
                  changes |-> Changes(ticket, want, stamped \cup {"updated_at"})]]
    /\ UNCHANGED <<ticket, seed, comments>>

\* Assigning status s: what goes with it, for both routers.
WithStatus(t, s, who) ==
    IF s = "resolved" THEN [t EXCEPT !.status = s, !.resolved_at = "set"]
    ELSE IF s = "closed"
         THEN [t EXCEPT !.status = s, !.closed_at = "set", !.closed_by = who]
         ELSE [t EXCEPT !.status = s]

StampIfNull(s) ==              \* mutant: `if not t.closed_at', so for resolved
    (IF s = "resolved" /\ ticket.resolved_at = "null" THEN {"resolved_at"} ELSE {})
    \cup (IF s = "closed" /\ ticket.closed_at = "null" THEN {"closed_at"} ELSE {})

StampOf(s) ==
    (IF s = "resolved" THEN {"resolved_at"} ELSE {})
    \cup (IF s = "closed" THEN {"closed_at"} ELSE {})

\* update_ticket_status: one comment, a note or the system's own
UpdateTicketStatus(r, s) ==
    Assigns(r, "status", WithStatus(ticket, s, "Customer"), StampOf(s), 1)

\* add_ticket_comment of the customer service
AddTicketComment(r, is_internal) ==
    Assigns(r, "comment",
            IF is_internal THEN [ticket EXCEPT !.status = "in_progress"] ELSE ticket,
            {}, 1)

\* escalate_ticket: a comment, and an internal one
EscalateTicket(r) ==
    Assigns(r, "escalate",
            [ticket EXCEPT !.status = "escalated", !.escalated_at = "set"],
            {"escalated_at"}, 2)

\* reopen_ticket
ReopenTicket(r) ==
    /\ ticket.status \in {"resolved", "closed"}
    /\ Assigns(r, "reopen",
               [ticket EXCEPT !.status = "open", !.resolved_at = "null",
                              !.closed_at = "null", !.closed_by = "null"], {}, 1)

\* update_ticket of the admin router: a status, an assignee, a note, or some
\* of them
UpdateTicket(r, agent, writes) ==
    \/ Assigns(r, "admin", [ticket EXCEPT !.assigned_to = agent], {}, writes)
    \/ \E s \in TicketStatus :
         Assigns(r, "admin", [WithStatus(ticket, s, "admin") EXCEPT
                                !.assigned_to = agent], StampOf(s), writes)

AdminUpdate(r) ==
    \E agent \in Agents \cup {ticket.assigned_to}, writes \in {0, 1} :
      UpdateTicket(r, agent, writes)

\* add_ticket_comment of the admin router
AdminComment(r) == Assigns(r, "admin_comment", ticket, {}, 1)

-----------------------------------------------------------------------------
Flushed(r) == req[r] # NoRequest /\ req[r].st = "flushed"

\* The UPDATE waits while another request's is uncommitted.
FlushTicket(r) ==
    /\ req[r] # NoRequest /\ req[r].st = "loaded"
    /\ \A q \in Requests : ~Flushed(q)
    /\ req' = [req EXCEPT ![r].st = "flushed"]
    /\ UNCHANGED <<ticket, seed, comments, served>>

CommitTicket(r) ==
    /\ Flushed(r)
    /\ ticket' = Updated(ticket, req[r].changes)
    /\ comments' = [comments EXCEPT ![req[r].op] = @ + req[r].writes]
    /\ req' = [req EXCEPT ![r] = NoRequest]
    /\ UNCHANGED <<seed, served>>

KeepsComments(r) ==            \* mutant: the comments committed on their own
    /\ req[r] # NoRequest
    /\ comments' = [comments EXCEPT ![req[r].op] = @ + req[r].writes]
    /\ req' = [req EXCEPT ![r] = NoRequest]
    /\ UNCHANGED <<ticket, seed, served>>

RollbackTicket(r) ==
    /\ req[r] # NoRequest
    /\ req' = [req EXCEPT ![r] = NoRequest]
    /\ UNCHANGED <<ticket, seed, comments, served>>

\* A customer's request that changes a ticket: refused with 400 or 404, and so
\* no step, when the service raises or finds nothing.
CustomerTicketRoutes(r) ==
    \/ \E s \in TicketStatus : UpdateTicketStatus(r, s)
    \/ \E is_internal \in BOOLEAN : AddTicketComment(r, is_internal)
    \/ EscalateTicket(r) \/ ReopenTicket(r)

TNext ==
    \E r \in Requests :
      \/ CustomerTicketRoutes(r) \/ AdminUpdate(r) \/ AdminComment(r)
      \/ FlushTicket(r) \/ CommitTicket(r) \/ RollbackTicket(r)

TSpec == TInit /\ [][TNext]_tvars

-----------------------------------------------------------------------------
\* However partial UPDATEs interleave, a resolved or closed ticket has the
\* time of it: reopen_ticket clears the times only together with the status,
\* and an UPDATE that sends one of these statuses sends its time.
StampsMatchStatus == Stamped(ticket)

\* What makes it inductive: the changes a request holds keep that promise.
ChangesAreStamped ==
    \A r \in Requests : req[r] # NoRequest =>
      LET c == req[r].changes IN
      /\ c.status = "resolved" => c.resolved_at = "set"
      /\ c.status = "closed" => c.closed_at = "set"
      /\ c.resolved_at = "null" \/ c.closed_at = "null" => c.status = "open"
      /\ req[r].op # "admin" => c.assigned_to = Keep
      /\ c.escalated_at = IF req[r].op = "escalate" THEN "set" ELSE Keep
      /\ req[r].op = "escalate" => req[r].writes = 2

\* A ticket has an escalation time and reason exactly when its conversation
\* holds an escalation: both come from one transaction, and nothing clears
\* either.  (A status update to "escalated" sets neither.)
EscalationIsTold ==
    seed.escalated_at = "null" =>
      (ticket.escalated_at = "set" <=> comments["escalate"] > 0)

\* The inductive invariant of the ticket.
TInv == TTypeOK /\ StampsMatchStatus /\ ChangesAreStamped /\ EscalationIsTold

\* What an administrator assigned is never undone by a customer's request
\* that loaded the ticket before: it sends only the columns it changed.
AssignmentIsKept ==
    [][ticket'.assigned_to # ticket.assigned_to =>
         \E r \in Requests : CommitTicket(r) /\ req[r].op = "admin"]_tvars
=============================================================================
