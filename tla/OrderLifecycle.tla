--------------------------- MODULE OrderLifecycle ---------------------------
(***************************************************************************)
(* One order, its status history, its return and exchange requests, and    *)
(* the requests that change them: the customer's cancel, return, exchange  *)
(* and status update (backend/customer/service.py) and the administrator's *)
(* status update, refund approval and refund rejection                     *)
(* (backend/admin/router.py).                                              *)
(*                                                                         *)
(* Every handler is one transaction (module UnitOfWork) and awaits the     *)
(* database between its steps, so the steps of two requests interleave:    *)
(* it loads the row and decides (an action named for the handler), it      *)
(* sends its UPDATE and INSERTs (Flush), get_db commits or rolls back.     *)
(***************************************************************************)
EXTENDS Naturals, Sequences, FiniteSets, UnitOfWork

CONSTANTS
    Seeds,         \* the orders there are to begin with
    Targets,       \* statuses that status updates ask for
    WindowEnd,     \* return_window_end, in ticks
    MaxClock,      \* bound: ticks of the clock
    MaxServed      \* bound: requests served

OrderStatus ==
    {"pending", "confirmed", "processing", "shipped", "delivered", "cancelled",
     "refunded", "return_requested", "return_approved", "return_received",
     "exchange_requested", "exchange_approved"}

PaymentStatus ==
    {"pending", "paid", "partially_refunded", "refunded", "failed", "cancelled"}

ReturnStatus ==
    {"requested", "approved", "rejected", "label_sent", "item_received",
     "refund_processed", "closed"}

\* The columns of a row of orders; of a timestamp, only whether it is NULL.
Order == [status : OrderStatus, payment_status : PaymentStatus,
          delivered_at : {"null", "set"}, cancelled_at : {"null", "set"},
          updated_at : {"set"}]

Row(s, payment, delivered, cancelled) ==
    [status |-> s, payment_status |-> payment, delivered_at |-> delivered,
     cancelled_at |-> cancelled, updated_at |-> "set"]

\* The orders of seed_customer_data.
SeededOrders ==
    {Row("delivered", "paid", "set", "null"), Row("shipped", "paid", "null", "null"),
     Row("confirmed", "paid", "null", "null"), Row("pending", "pending", "null", "null"),
     Row("refunded", "refunded", "set", "set")}

\* What an UPDATE of an order, or of a return (its status), can send.
Changeset ==
    [status : OrderStatus \cup ReturnStatus \cup {Keep},
     payment_status : PaymentStatus \cup {Keep},
     delivered_at : {"null", "set", Keep}, cancelled_at : {"null", "set", Keep},
     updated_at : {"set", Keep}]

StatusOnly(s) ==
    [status |-> s, payment_status |-> Keep, delivered_at |-> Keep,
     cancelled_at |-> Keep, updated_at |-> "set"]

Operations == {"cancel", "return", "exchange", "patch", "decide"}

\* A request between its SELECT and its end: `row' is the row it updates, 0
\* for the order or the number of a return; `from' and `to' are the statuses
\* it has loaded and assigned, `at' the time, `changes' what it will send.
Request ==
    [op : Operations, st : {"loaded", "flushed"}, row : Nat,
     from : OrderStatus \cup ReturnStatus, to : OrderStatus \cup ReturnStatus,
     at : 0..MaxClock, changes : Changeset]

ASSUME NoRequestIsNone == NoRequest \notin Request
ASSUME SeedsAreOrders ==
    Seeds \subseteq {o \in Order : o.payment_status # "cancelled"}
ASSUME TargetsAreStatuses == Targets \subseteq OrderStatus
ASSUME OrderBounds ==
    WindowEnd \in Nat /\ MaxClock \in Nat /\ MaxServed \in Nat

VARIABLES
    order,       \* the committed row of the order
    seed,        \* the row it began as
    log,         \* rows of order_status_logs by created_at, see Entry
    returns,     \* rows of return_requests, in the order of insertion
    exchanges,   \* number of committed rows of exchange_requests
    req,         \* req[r]: what request r is doing
    clock, served

ovars == <<order, seed, log, returns, exchanges, req, clock, served>>

\* A row of a table is written by a flush and seen by others once committed;
\* a rolled-back one is never seen.
Visibility == {"pending", "visible", "gone"}

Entry == [op : Operations, from : OrderStatus, to : OrderStatus, by : Requests,
          st : Visibility]

Return == [rma : 0..MaxClock, status : ReturnStatus, by : Requests, st : Visibility]

Busy == {r \in Requests : req[r] # NoRequest}

Flushed(r) == req[r] # NoRequest /\ req[r].st = "flushed"

\* r has sent an UPDATE: it keeps the row from others until it ends.
Holds(r, row) == Flushed(r) /\ ~NothingIn(req[r].changes) /\ req[r].row = row

OTypeOK ==
    /\ order \in Order /\ seed \in Seeds
    /\ log \in Seq(Entry)
    /\ returns \in Seq(Return)
    /\ exchanges \in Nat
    /\ req \in [Requests -> Request \cup {NoRequest}]
    /\ \A r \in Busy : req[r].row \in 0..Len(returns)
    /\ clock \in 0..MaxClock /\ served \in Nat

OInit ==
    /\ order \in Seeds /\ seed = order
    /\ log = <<>> /\ returns = <<>> /\ exchanges = 0
    /\ req = [r \in Requests |-> NoRequest]
    /\ clock = 0 /\ served = 0

-----------------------------------------------------------------------------
\* A handler has loaded the order, found it fit, and assigned its columns.
\* A refusal (ValueError, HTTP 400) changes nothing and is not a step.
AssignsFirst(r, op, want, stamped) ==     \* mutant: old_status read too late
    /\ req[r] = NoRequest /\ served < MaxServed
    /\ served' = served + 1
    /\ req' = [req EXCEPT ![r] =
                 [op |-> op, st |-> "loaded", row |-> 0, from |-> want.status,
                  to |-> want.status, at |-> clock,
                  changes |-> Changes(order, want, stamped)]]
    /\ UNCHANGED <<order, seed, log, returns, exchanges, clock>>

Assigns(r, op, want, stamped) ==
    /\ req[r] = NoRequest /\ served < MaxServed
    /\ served' = served + 1
    /\ req' = [req EXCEPT ![r] =
                 [op |-> op, st |-> "loaded", row |-> 0, from |-> order.status,
                  to |-> want.status, at |-> clock,
                  changes |-> Changes(order, want, stamped)]]
    /\ UNCHANGED <<order, seed, log, returns, exchanges, clock>>

\* cancel_order
CancelAnything(r) ==           \* mutant: the check of the state forgotten
    Assigns(r, "cancel",
            [order EXCEPT !.status = "cancelled", !.payment_status = "cancelled",
                          !.cancelled_at = "set"], {"cancelled_at"})

CancelOrder(r) ==
    /\ order.status \notin {"cancelled", "refunded", "delivered"}
    /\ Assigns(r, "cancel",
               [order EXCEPT !.status = "cancelled", !.payment_status = "cancelled",
                             !.cancelled_at = "set"], {"cancelled_at"})

\* request_return; the RMA number is made of the order's number and the time.
RequestReturn(r) ==
    /\ order.status \in {"delivered", "shipped"}
    /\ clock <= WindowEnd
    /\ Assigns(r, "return", [order EXCEPT !.status = "return_requested"], {})

\* request_exchange
RequestExchange(r) ==
    /\ order.status \in {"delivered", "shipped"}
    /\ Assigns(r, "exchange", [order EXCEPT !.status = "exchange_requested"], {})

\* update_order_status of the customer service: any status to any other
UpdateOrderStatus(r, s) ==
    IF s = "delivered"
    THEN Assigns(r, "patch", [order EXCEPT !.status = s, !.delivered_at = "set"],
                 {"delivered_at"})
    ELSE Assigns(r, "patch", [order EXCEPT !.status = s], {})

\* update_order_status of the admin router
AdminUpdateOrderStatus(r, s) ==
    Assigns(r, "patch", [order EXCEPT !.status = s], {"updated_at"})

\* approve_refund, reject_refund: the row of the return, and no log entry
DecideOn(r, i, s) ==
    /\ req[r] = NoRequest /\ served < MaxServed
    /\ i \in 1..Len(returns) /\ returns[i].st = "visible"
    /\ served' = served + 1
    /\ req' = [req EXCEPT ![r] =
                 [op |-> "decide", st |-> "loaded", row |-> i,
                  from |-> returns[i].status, to |-> s, at |-> clock,
                  changes |-> StatusOnly(s)]]
    /\ UNCHANGED <<order, seed, log, returns, exchanges, clock>>

Decide(r, i, s) == DecideOn(r, i, s) /\ returns[i].status = "requested"

ApproveRefund(r, i) == Decide(r, i, "approved")
RejectRefund(r, i) == Decide(r, i, "rejected")

-----------------------------------------------------------------------------
\* The flush begins with the UPDATE, if any column changed: it waits while
\* another request's UPDATE of the same row is uncommitted.
MaySend(r) ==
    /\ req[r] # NoRequest /\ req[r].st = "loaded"
    /\ ~NothingIn(req[r].changes) => \A q \in Requests : ~Holds(q, req[r].row)

RmaExists(rma) ==
    \E i \in 1..Len(returns) : returns[i].st = "visible" /\ returns[i].rma = rma

\* It goes on with the INSERTs of the log entry and of the return.
FlushOrder(r) ==
    /\ MaySend(r) /\ req[r].row = 0
    /\ req[r].op = "return" => ~RmaExists(req[r].at)
    /\ log' = Append(log, [op |-> req[r].op, from |-> req[r].from,
                           to |-> req[r].to, by |-> r, st |-> "pending"])
    /\ returns' = IF req[r].op = "return"
                  THEN Append(returns, [rma |-> req[r].at, status |-> "requested",
                                        by |-> r, st |-> "pending"])
                  ELSE returns
    /\ req' = [req EXCEPT ![r].st = "flushed"]
    /\ UNCHANGED <<order, seed, exchanges, clock, served>>

FlushDecision(r) ==
    /\ MaySend(r) /\ req[r].row # 0
    /\ req' = [req EXCEPT ![r].st = "flushed"]
    /\ UNCHANGED <<order, seed, log, returns, exchanges, clock, served>>

\* Two returns with one RMA number: the second INSERT violates the unique
\* constraint on rma_number, the exception rolls the request back.
RmaTaken(r) ==
    /\ MaySend(r) /\ req[r].op = "return" /\ RmaExists(req[r].at)
    /\ req' = [req EXCEPT ![r] = NoRequest]
    /\ UNCHANGED <<order, seed, log, returns, exchanges, clock, served>>

\* The rows r has inserted become visible, or are gone.
Settled(rows, r, st) ==
    [i \in 1..Len(rows) |->
       IF rows[i].by = r /\ rows[i].st = "pending" THEN [rows[i] EXCEPT !.st = st]
                                                   ELSE rows[i]]

\* get_db, when the handler has returned
CommitOrder(r) ==
    /\ Flushed(r) /\ req[r].row = 0
    /\ order' = Updated(order, req[r].changes)
    /\ log' = Settled(log, r, "visible")
    /\ returns' = Settled(returns, r, "visible")
    /\ exchanges' = IF req[r].op = "exchange" THEN exchanges + 1 ELSE exchanges
    /\ req' = [req EXCEPT ![r] = NoRequest]
    /\ UNCHANGED <<seed, clock, served>>

CommitDecision(r) ==
    /\ Flushed(r) /\ req[r].row # 0
    /\ returns' = [returns EXCEPT ![req[r].row].status = req[r].to]
    /\ req' = [req EXCEPT ![r] = NoRequest]
    /\ UNCHANGED <<order, seed, log, exchanges, clock, served>>

\* The handler raises, the connection is lost, the server dies: rolled back.
KeepsEntry(r) ==               \* mutant: the log entry committed on its own
    /\ req[r] # NoRequest
    /\ log' = Settled(log, r, "visible")
    /\ returns' = Settled(returns, r, "gone")
    /\ req' = [req EXCEPT ![r] = NoRequest]
    /\ UNCHANGED <<order, seed, exchanges, clock, served>>

KeepsReturn(r) ==              \* mutant: the return committed on its own
    /\ req[r] # NoRequest
    /\ log' = Settled(log, r, "gone")
    /\ returns' = Settled(returns, r, "visible")
    /\ req' = [req EXCEPT ![r] = NoRequest]
    /\ UNCHANGED <<order, seed, exchanges, clock, served>>

Rollback(r) ==
    /\ req[r] # NoRequest
    /\ log' = Settled(log, r, "gone")
    /\ returns' = Settled(returns, r, "gone")
    /\ req' = [req EXCEPT ![r] = NoRequest]
    /\ UNCHANGED <<order, seed, exchanges, clock, served>>

OTick ==
    /\ clock < MaxClock
    /\ clock' = clock + 1
    /\ UNCHANGED <<order, seed, log, returns, exchanges, req, served>>

-----------------------------------------------------------------------------
\* A customer's request that changes an order: refused with 400 or 404, and so
\* no step, when the service raises or finds nothing.
CustomerOrderRoutes(r) ==
    \/ CancelOrder(r) \/ RequestReturn(r) \/ RequestExchange(r)
    \/ \E s \in Targets : UpdateOrderStatus(r, s)

Load(r) ==
    \/ CustomerOrderRoutes(r)
    \/ \E s \in Targets : AdminUpdateOrderStatus(r, s)
    \/ \E i \in 1..Len(returns) : ApproveRefund(r, i) \/ RejectRefund(r, i)

Finish(r) ==
    \/ FlushOrder(r) \/ FlushDecision(r) \/ RmaTaken(r)
    \/ CommitOrder(r) \/ CommitDecision(r) \/ Rollback(r)

ONext ==
    \/ \E r \in Requests : Load(r) \/ Finish(r)
    \/ OTick

OSpec == OInit /\ [][ONext]_ovars

-----------------------------------------------------------------------------
Visible(i) == i \in 1..Len(log) /\ log[i].st = "visible"

\* A transition: an entry that records a change of status.
Transition(i) == Visible(i) /\ log[i].from # log[i].to

\* The history agrees with the order, however requests interleave: its last
\* transition leads to the order's present status.
HistoryEndsInStatus ==
    \/ \E i \in 1..Len(log) :
         /\ Transition(i)
         /\ \A j \in 1..Len(log) : Transition(j) => j <= i
         /\ log[i].to = order.status
    \/ /\ \A i \in 1..Len(log) : ~Transition(i)
       /\ order.status = seed.status

\* s is a status that the order has had before entry i: the seeded one or
\* the end of an earlier transition.
Known(s, i) ==
    \/ s = seed.status
    \/ \E j \in 1..Len(log) : j < i /\ Transition(j) /\ log[j].to = s

\* Every entry starts from a status the order has really had before it.
HistoryIsRooted == \A i \in 1..Len(log) : Visible(i) => Known(log[i].from, i)

\* What makes these two inductive.  Two requests never hold one row:
LocksAreExclusive ==
    \A q, r \in Requests, row \in 0..Len(returns) :
      Holds(q, row) /\ Holds(r, row) => q = r

\* a request on the order sends a status exactly when it changes the one it
\* has loaded, and one on a return assigns it a status of returns;
RequestsAreSound ==
    \A r \in Busy :
      LET q == req[r] IN
      /\ q.row = 0 => /\ {q.from, q.to} \subseteq OrderStatus
                      /\ q.changes.status = IF q.from = q.to THEN Keep ELSE q.to
                      /\ Known(q.from, Len(log) + 1)
      /\ q.row # 0 => q.to \in ReturnStatus

\* a pending entry is that of a flushed request, and when it is a transition
\* it comes after every visible one;
PendingEntry(i) ==
    LET r == log[i].by IN
    /\ Flushed(r) /\ req[r].row = 0
    /\ log[i].from = req[r].from /\ log[i].to = req[r].to
    /\ Known(log[i].from, i)
    /\ log[i].from # log[i].to => \A j \in 1..Len(log) : Transition(j) => j < i

PendingIsLatest ==
    \A i \in 1..Len(log) : log[i].st = "pending" => PendingEntry(i)

\* and each flushed request on the order has exactly one.
OneEntryEach ==
    /\ \A i, j \in 1..Len(log) :
         log[i].st = "pending" /\ log[j].st = "pending" /\ log[i].by = log[j].by
           => i = j
    /\ \A r \in Requests :
         Flushed(r) /\ req[r].row = 0 =>
           \E i \in 1..Len(log) : log[i].st = "pending" /\ log[i].by = r

\* The inductive invariant of the order and its history.
OInv ==
    /\ OTypeOK
    /\ LocksAreExclusive
    /\ RequestsAreSound
    /\ PendingIsLatest
    /\ OneEntryEach
    /\ HistoryEndsInStatus
    /\ HistoryIsRooted

\* A request takes effect as a whole or not at all: there are as many returns
\* and exchanges as log entries that announce one, and the payment is
\* cancelled when, and only when, a cancellation is in the history.
VisibleReturns == {i \in 1..Len(returns) : returns[i].st = "visible"}

EntriesOf(op) == {i \in 1..Len(log) : Visible(i) /\ log[i].op = op}

AllOrNothing ==
    /\ Cardinality(VisibleReturns) = Cardinality(EntriesOf("return"))
    /\ exchanges = Cardinality(EntriesOf("exchange"))
    /\ order.payment_status = "cancelled" <=> EntriesOf("cancel") # {}

\* What makes it inductive.  Only a request on the order has an op of the
\* order, and only a cancellation sends a payment status: not even that one,
\* when the payment it has loaded was cancelled already, and so still is.
PaymentsAreSound ==
    \A r \in Busy :
      LET sent == req[r].changes.payment_status IN
      /\ req[r].op = "decide" <=> req[r].row # 0
      /\ req[r].op # "cancel" => sent = Keep
      /\ req[r].op = "cancel" =>
           sent = "cancelled" \/ (sent = Keep /\ order.payment_status = "cancelled")

\* A pending entry is of its request's op; each flushed return request has
\* exactly one pending return, and no other request has any.
ReturnOf(r) == {i \in 1..Len(returns) : returns[i].st = "pending" /\ returns[i].by = r}

InsertsArePaired ==
    /\ \A i \in 1..Len(log) : log[i].st = "pending" => log[i].op = req[log[i].by].op
    /\ \A r \in Requests :
         IF Flushed(r) /\ req[r].op = "return"
         THEN \E i \in 1..Len(returns) : ReturnOf(r) = {i}
         ELSE ReturnOf(r) = {}

\* The inductive invariant of the order and what its requests have inserted.
InsertInv == OInv /\ PaymentsAreSound /\ InsertsArePaired /\ AllOrNothing

\* With requests served one at a time, each entry takes up where the last one
\* left off;
HistoryIsChain ==
    \A i, j \in 1..Len(log) :
      Visible(i) /\ Visible(j) /\ i < j
        /\ (\A k \in (i+1)..(j-1) : ~Visible(k))
      => log[j].from = log[i].to

\* a delivered order is not cancelled (service.py:932, test_order_mgmt.py:70-74);
DeliveredIsKept ==
    \A r \in Requests :
      CommitOrder(r) /\ req[r].op = "cancel" => order.status # "delivered"

\* and a refund that has been approved or rejected stays so ("Refund is already
\* ...", admin/router.py:538 and :555).
DecisionIsKept ==
    \A i \in 1..Len(returns) :
      returns[i].status # "requested" => returns'[i].status = returns[i].status
=============================================================================
