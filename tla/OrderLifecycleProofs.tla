------------------------ MODULE OrderLifecycleProofs ------------------------
(***************************************************************************)
(* For every number of requests, every order to begin with and every set   *)
(* of status updates: the status history of an order agrees with its       *)
(* status, each of its entries starts from a status the order has had, and *)
(* a request takes effect as a whole or not at all.  Served one at a time, *)
(* requests chain the history and undo no decision.                        *)
(***************************************************************************)
EXTENDS MCOrderLifecycle, SequenceTheorems, FiniteSetTheorems, TLAPS

USE NoRequestIsNone, SeedsAreOrders, TargetsAreStatuses, OrderBounds

\* A request that assigns columns of the order sends its status exactly when
\* it has changed it.
LEMMA ChangesAreTyped ==
    ASSUME NEW saw \in Order, NEW want \in Order, NEW stamped
    PROVE  /\ Changes(saw, want, {}) \in Changeset
           /\ Changes(saw, want, {"cancelled_at"}) \in Changeset
           /\ Changes(saw, want, {"delivered_at"}) \in Changeset
           /\ Changes(saw, want, {"updated_at"}) \in Changeset
BY DEF Changes, Changeset, Order, Keep

LEMMA ChangesOfStatus ==
    ASSUME NEW saw \in Order, NEW want \in Order, NEW stamped,
           "status" \notin stamped
    PROVE  Changes(saw, want, stamped).status =
             IF saw.status = want.status THEN Keep ELSE want.status
BY DEF Changes, Order

\* The row after the UPDATE is an order, and has the status sent.
LEMMA UpdatedIsOrder ==
    ASSUME NEW row \in Order, NEW ch \in Changeset,
           ch.status \in OrderStatus \cup {Keep}
    PROVE  /\ Updated(row, ch) \in Order
           /\ Updated(row, ch).status = IF ch.status = Keep THEN row.status
                                                            ELSE ch.status
BY DEF Updated, Order, Changeset

\* Settling keeps every row in its place and changes only its visibility.
LEMMA SettledEntries ==
    ASSUME log \in Seq(Entry), NEW r, NEW st \in {"visible", "gone"}
    PROVE  /\ Settled(log, r, st) \in Seq(Entry)
           /\ Len(Settled(log, r, st)) = Len(log)
           /\ \A i \in 1..Len(log) :
                LET e == Settled(log, r, st)[i] IN
                /\ e.op = log[i].op /\ e.from = log[i].from
                /\ e.to = log[i].to /\ e.by = log[i].by
                /\ e.st = IF log[i].by = r /\ log[i].st = "pending"
                          THEN st ELSE log[i].st
<1> DEFINE s == Settled(log, r, st)
<1>1. ASSUME NEW i \in 1..Len(log)
      PROVE  /\ s[i] \in Entry
             /\ s[i].op = log[i].op /\ s[i].from = log[i].from
             /\ s[i].to = log[i].to /\ s[i].by = log[i].by
             /\ s[i].st = IF log[i].by = r /\ log[i].st = "pending"
                          THEN st ELSE log[i].st
  <2>1. log[i] \in Entry
    OBVIOUS
  <2>2. QED BY <2>1 DEF Settled, Entry, Visibility
<1>2. s = [i \in 1..Len(log) |-> s[i]]
  BY DEF Settled
<1>3. Len(log) \in Nat
  OBVIOUS
<1>4. s \in Seq(Entry) /\ Len(s) = Len(log)
  BY <1>1, <1>2, <1>3
<1>5. QED BY <1>1, <1>4

LEMMA SettledReturns ==
    ASSUME returns \in Seq(Return), NEW r, NEW st \in {"visible", "gone"}
    PROVE  /\ Settled(returns, r, st) \in Seq(Return)
           /\ Len(Settled(returns, r, st)) = Len(returns)
           /\ \A i \in 1..Len(returns) :
                LET e == Settled(returns, r, st)[i] IN
                /\ e.by = returns[i].by
                /\ e.st = IF returns[i].by = r /\ returns[i].st = "pending"
                          THEN st ELSE returns[i].st
<1> DEFINE s == Settled(returns, r, st)
<1>1. ASSUME NEW i \in 1..Len(returns)
      PROVE  /\ s[i] \in Return
             /\ s[i].by = returns[i].by
             /\ s[i].st = IF returns[i].by = r /\ returns[i].st = "pending"
                          THEN st ELSE returns[i].st
  <2>1. returns[i] \in Return
    OBVIOUS
  <2>2. QED BY <2>1 DEF Settled, Return, Visibility
<1>2. s = [i \in 1..Len(returns) |-> s[i]]
  BY DEF Settled
<1>3. Len(returns) \in Nat
  OBVIOUS
<1>4. s \in Seq(Return) /\ Len(s) = Len(returns)
  BY <1>1, <1>2, <1>3
<1>5. QED BY <1>1, <1>4

LEMMA InitOInv == OInit => OInv
<1> SUFFICES ASSUME OInit PROVE OInv
  OBVIOUS
<1>1. Len(log) = 0 /\ Len(returns) = 0
  BY DEF OInit
<1>2. OTypeOK
  BY DEF OInit, OTypeOK, Busy
<1>3. LocksAreExclusive /\ RequestsAreSound /\ PendingIsLatest /\ OneEntryEach
  BY <1>1 DEF OInit, LocksAreExclusive, RequestsAreSound, PendingIsLatest,
             OneEntryEach, Holds, Flushed, Busy
<1>4. HistoryEndsInStatus /\ HistoryIsRooted
  BY <1>1 DEF OInit, HistoryEndsInStatus, HistoryIsRooted
<1>5. QED BY <1>2, <1>3, <1>4 DEF OInv

\* A step that leaves the order and its log alone keeps what is said of them.
LEMMA HistoryUnchanged ==
    ASSUME UNCHANGED <<order, seed, log>>
    PROVE  /\ HistoryEndsInStatus => HistoryEndsInStatus'
           /\ HistoryIsRooted => HistoryIsRooted'
           /\ \A s, i : Known(s, i)' <=> Known(s, i)
           /\ \A i : Transition(i)' <=> Transition(i)
BY DEF HistoryEndsInStatus, HistoryIsRooted, Known, Transition, Visible

\* The present status of the order is one that a new log entry may start from.
LEMMA StatusIsKnown ==
    ASSUME OTypeOK, HistoryEndsInStatus
    PROVE  Known(order.status, Len(log) + 1)
<1>1. Len(log) \in Nat
  BY DEF OTypeOK
<1>2. QED BY <1>1 DEF HistoryEndsInStatus, Known

LEMMA ByIsRequest ==
    ASSUME OTypeOK
    PROVE  \A i \in 1..Len(log) : log[i] \in Entry /\ log[i].by \in Requests
<1>1. \A i \in 1..Len(log) : log[i] \in Entry
  BY DEF OTypeOK
<1>2. QED BY <1>1 DEF Entry

\* A request that begins, on the order or on a return, disturbs nothing: it
\* holds no row and has no entry yet.
LEMMA BeginPreserves ==
    ASSUME OInv, NEW r \in Requests, NEW new \in Request,
           req[r] = NoRequest, new.st = "loaded", new.row \in 0..Len(returns),
           new.row = 0 =>
             /\ {new.from, new.to} \subseteq OrderStatus
             /\ new.changes.status = IF new.from = new.to THEN Keep ELSE new.to
             /\ new.from = order.status,
           new.row # 0 => new.to \in ReturnStatus,
           req' = [req EXCEPT ![r] = new], served' = served + 1,
           UNCHANGED <<order, seed, log, returns, exchanges, clock>>
    PROVE  OInv'
<1> USE DEF OInv
<1>1. req'[r] = new /\ \A q \in Requests \ {r} : req'[q] = req[q]
  BY DEF OTypeOK
<1>2. OTypeOK'
  BY <1>1 DEF OTypeOK, Busy
<1>3. /\ \A q \in Requests : Flushed(q)' <=> Flushed(q)
      /\ \A q \in Requests : Flushed(q) => req'[q] = req[q]
  BY <1>1 DEF Flushed
<1>4. LocksAreExclusive'
  BY <1>3 DEF LocksAreExclusive, Holds
<1>5. RequestsAreSound'
  <2>1. ASSUME NEW q \in Busy'
        PROVE  /\ req'[q].row = 0 =>
                    /\ {req'[q].from, req'[q].to} \subseteq OrderStatus
                    /\ req'[q].changes.status = IF req'[q].from = req'[q].to
                                                THEN Keep ELSE req'[q].to
                    /\ Known(req'[q].from, Len(log) + 1)
               /\ req'[q].row # 0 => req'[q].to \in ReturnStatus
    <3>1. CASE q = r
      BY <1>1, <2>1, <3>1, StatusIsKnown
    <3>2. CASE q # r
      BY <1>1, <2>1, <3>2 DEF RequestsAreSound, Busy
    <3>3. QED BY <3>1, <3>2
  <2>2. QED BY <2>1, HistoryUnchanged DEF RequestsAreSound
<1>6. PendingIsLatest' /\ OneEntryEach'
  BY <1>3, ByIsRequest, HistoryUnchanged
  DEF PendingIsLatest, PendingEntry, OneEntryEach
<1>7. HistoryEndsInStatus' /\ HistoryIsRooted'
  BY HistoryUnchanged
<1>8. QED BY <1>2, <1>4, <1>5, <1>6, <1>7

LEMMA AssignsPreserves ==
    ASSUME OInv, NEW r \in Requests, NEW op \in Operations, NEW want \in Order,
           NEW stamped \in {{}, {"cancelled_at"}, {"delivered_at"}, {"updated_at"}},
           Assigns(r, op, want, stamped)
    PROVE  OInv'
<1> DEFINE new == [op |-> op, st |-> "loaded", row |-> 0, from |-> order.status,
                   to |-> want.status, at |-> clock,
                   changes |-> Changes(order, want, stamped)]
<1>1. order \in Order /\ clock \in 0..MaxClock
  BY DEF OInv, OTypeOK
<1>2. Changes(order, want, stamped) \in Changeset
  BY <1>1, ChangesAreTyped
<1>3. Changes(order, want, stamped).status =
        IF order.status = want.status THEN Keep ELSE want.status
  BY <1>1, ChangesOfStatus
<1>4. order.status \in OrderStatus /\ want.status \in OrderStatus
  BY <1>1 DEF Order
<1>5. new \in Request
  BY <1>1, <1>2, <1>4 DEF Request
<1>6. 0 \in 0..Len(returns)
  BY DEF OInv, OTypeOK
<1>7. QED BY <1>3, <1>4, <1>5, <1>6, BeginPreserves DEF Assigns

\* The handlers that load the order, and those that load a return.
LEMMA LoadPreserves ==
    ASSUME OInv, NEW r \in Requests, Load(r)
    PROVE  OInv'
<1>1. order \in Order
  BY DEF OInv, OTypeOK
<1>2. CASE CancelOrder(r)
  <2>1. [order EXCEPT !.status = "cancelled", !.payment_status = "cancelled",
                      !.cancelled_at = "set"] \in Order
    BY <1>1 DEF Order, OrderStatus, PaymentStatus
  <2>2. QED BY <1>2, <2>1, AssignsPreserves DEF CancelOrder, Operations
<1>3. CASE RequestReturn(r)
  <2>1. [order EXCEPT !.status = "return_requested"] \in Order
    BY <1>1 DEF Order, OrderStatus
  <2>2. QED BY <1>3, <2>1, AssignsPreserves DEF RequestReturn, Operations
<1>4. CASE RequestExchange(r)
  <2>1. [order EXCEPT !.status = "exchange_requested"] \in Order
    BY <1>1 DEF Order, OrderStatus
  <2>2. QED BY <1>4, <2>1, AssignsPreserves DEF RequestExchange, Operations
<1>5. ASSUME NEW s \in Targets, UpdateOrderStatus(r, s) PROVE OInv'
  <2>1. [order EXCEPT !.status = s] \in Order
    BY <1>1 DEF Order
  <2>2. [order EXCEPT !.status = s, !.delivered_at = "set"] \in Order
    BY <1>1 DEF Order
  <2>3. QED BY <1>5, <2>1, <2>2, AssignsPreserves DEF UpdateOrderStatus, Operations
<1>6. ASSUME NEW s \in Targets, AdminUpdateOrderStatus(r, s) PROVE OInv'
  <2>1. [order EXCEPT !.status = s] \in Order
    BY <1>1 DEF Order
  <2>2. QED BY <1>6, <2>1, AssignsPreserves DEF AdminUpdateOrderStatus, Operations
<1>7. ASSUME NEW i \in 1..Len(returns), NEW s \in {"approved", "rejected"},
             DecideOn(r, i, s)
      PROVE  OInv'
  <2> DEFINE new == [op |-> "decide", st |-> "loaded", row |-> i,
                     from |-> returns[i].status, to |-> s, at |-> clock,
                     changes |-> StatusOnly(s)]
  <2>1. returns[i].status \in ReturnStatus
    <3>1. returns[i] \in Return
      BY DEF OInv, OTypeOK
    <3>2. QED BY <3>1 DEF Return
  <2>2. StatusOnly(s) \in Changeset
    BY DEF StatusOnly, Changeset, ReturnStatus, Keep
  <2>3. /\ new \in Request /\ s \in ReturnStatus
        /\ i \in 0..Len(returns) /\ i # 0
    BY <2>1, <2>2 DEF OInv, OTypeOK, Request, Operations, ReturnStatus
  <2>4. QED BY <1>7, <2>3, BeginPreserves DEF DecideOn
<1>8. QED
  BY <1>2, <1>3, <1>4, <1>5, <1>6, <1>7
  DEF Load, CustomerOrderRoutes, ApproveRefund, RejectRefund, Decide

\* A request that ends without a visible entry of its own: refused by the
\* database, rolled back, or a decision on a return.
LEMMA EndPreserves ==
    ASSUME OInv, NEW r \in Requests, req[r] # NoRequest,
           req' = [req EXCEPT ![r] = NoRequest],
           log' \in Seq(Entry), Len(log') = Len(log),
           \A i \in 1..Len(log) :
             /\ log'[i].from = log[i].from /\ log'[i].to = log[i].to
             /\ log'[i].by = log[i].by
             /\ log'[i].st = "visible" <=> log[i].st = "visible"
             /\ log'[i].st = "pending" <=> log[i].st = "pending" /\ log[i].by # r,
           returns' \in Seq(Return), Len(returns') = Len(returns),
           UNCHANGED <<order, seed, exchanges, clock, served>>
    PROVE  OInv'
<1> USE DEF OInv
<1>1. req'[r] = NoRequest /\ \A q \in Requests \ {r} : req'[q] = req[q]
  BY DEF OTypeOK
<1>2. OTypeOK'
  BY <1>1 DEF OTypeOK, Busy
<1>3. /\ ~Flushed(r)'
      /\ \A q \in Requests \ {r} : Flushed(q)' <=> Flushed(q)
  BY <1>1 DEF Flushed
<1>4. \A i : Transition(i)' <=> Transition(i)
  BY DEF Transition, Visible
<1>5. \A s, i : Known(s, i)' <=> Known(s, i)
  BY <1>4 DEF Known, Transition, Visible
<1>6. LocksAreExclusive'
  BY <1>1, <1>3 DEF LocksAreExclusive, Holds
<1>7. RequestsAreSound'
  BY <1>1, <1>5 DEF RequestsAreSound, Busy
<1>8. PendingIsLatest'
  <2>1. SUFFICES ASSUME NEW i \in 1..Len(log), log'[i].st = "pending"
                 PROVE  PendingEntry(i)'
    BY DEF PendingIsLatest
  <2>2. PendingEntry(i) /\ log[i].by \in Requests \ {r}
    BY <2>1, ByIsRequest DEF PendingIsLatest
  <2>3. /\ log'[i].from = log[i].from /\ log'[i].to = log[i].to
        /\ log'[i].by = log[i].by /\ req'[log[i].by] = req[log[i].by]
    BY <1>1, <2>2
  <2>4. QED BY <1>3, <1>4, <1>5, <2>2, <2>3 DEF PendingEntry
<1>12. OneEntryEach'
  <2>1. ASSUME NEW i \in 1..Len(log), NEW j \in 1..Len(log),
               log'[i].st = "pending", log'[j].st = "pending",
               log'[i].by = log'[j].by
        PROVE  i = j
    BY <2>1 DEF OneEntryEach
  <2>2. ASSUME NEW q \in Requests, Flushed(q)', req'[q].row = 0
        PROVE  \E i \in 1..Len(log) : log'[i].st = "pending" /\ log'[i].by = q
    BY <1>1, <1>3, <2>2 DEF OneEntryEach
  <2>3. QED BY <2>1, <2>2 DEF OneEntryEach
<1>9. HistoryEndsInStatus'
  BY <1>4 DEF HistoryEndsInStatus
<1>10. HistoryIsRooted'
  BY <1>5 DEF HistoryIsRooted, Visible
<1>11. QED BY <1>2, <1>6, <1>7, <1>8, <1>9, <1>10, <1>12

\* Only a flushed request on the order has a pending entry.
LEMMA NoPendingEntry ==
    ASSUME OInv, NEW r \in Requests, ~Flushed(r) \/ req[r].row # 0
    PROVE  \A i \in 1..Len(log) : log[i].st = "pending" => log[i].by # r
BY DEF OInv, PendingIsLatest, PendingEntry

LEMMA RollbackPreserves ==
    ASSUME OInv, NEW r \in Requests, Rollback(r)
    PROVE  OInv'
<1>1. log \in Seq(Entry) /\ returns \in Seq(Return)
  BY DEF OInv, OTypeOK
<1>2. log' = Settled(log, r, "gone") /\ returns' = Settled(returns, r, "gone")
  BY DEF Rollback
<1>3. /\ log' \in Seq(Entry) /\ Len(log') = Len(log)
      /\ \A i \in 1..Len(log) :
           /\ log'[i].from = log[i].from /\ log'[i].to = log[i].to
           /\ log'[i].by = log[i].by
           /\ log'[i].st = IF log[i].by = r /\ log[i].st = "pending"
                           THEN "gone" ELSE log[i].st
  BY <1>1, <1>2, SettledEntries
<1>4. returns' \in Seq(Return) /\ Len(returns') = Len(returns)
  BY <1>1, <1>2, SettledReturns
<1>5. QED BY <1>3, <1>4, EndPreserves DEF Rollback

LEMMA RmaTakenPreserves ==
    ASSUME OInv, NEW r \in Requests, RmaTaken(r)
    PROVE  OInv'
<1>1. log \in Seq(Entry) /\ returns \in Seq(Return)
  BY DEF OInv, OTypeOK
<1>2. \A i \in 1..Len(log) : log[i].st = "pending" => log[i].by # r
  BY NoPendingEntry DEF RmaTaken, MaySend, Flushed
<1>3. QED BY <1>1, <1>2, EndPreserves DEF RmaTaken, MaySend

LEMMA CommitDecisionPreserves ==
    ASSUME OInv, NEW r \in Requests, CommitDecision(r)
    PROVE  OInv'
<1>1. log \in Seq(Entry) /\ returns \in Seq(Return)
  BY DEF OInv, OTypeOK
<1>2. \A i \in 1..Len(log) : log[i].st = "pending" => log[i].by # r
  BY NoPendingEntry DEF CommitDecision
<1>3. returns' \in Seq(Return) /\ Len(returns') = Len(returns)
  <2>1. /\ req[r].row \in 1..Len(returns)
        /\ req[r].to \in ReturnStatus
    BY DEF CommitDecision, Flushed, OInv, OTypeOK, RequestsAreSound, Busy
  <2>2. returns[req[r].row] \in Return
    BY <1>1, <2>1
  <2>3. [returns[req[r].row] EXCEPT !.status = req[r].to] \in Return
    BY <2>1, <2>2 DEF Return
  <2>4. QED BY <1>1, <2>1, <2>3 DEF CommitDecision
<1>4. QED BY <1>1, <1>2, <1>3, EndPreserves DEF CommitDecision, Flushed

\* r goes from loaded to flushed.
LEMMA FlushedBecomes ==
    ASSUME OTypeOK, NEW r \in Requests, MaySend(r),
           req' = [req EXCEPT ![r].st = "flushed"]
    PROVE  /\ req' \in [Requests -> Request \cup {NoRequest}]
           /\ \A q \in Requests \ {r} : req'[q] = req[q]
           /\ ~Flushed(r) /\ Flushed(r)' /\ req[r] \in Request
           /\ \A q \in Requests \ {r} : Flushed(q)' <=> Flushed(q)
           /\ req'[r] = [req[r] EXCEPT !.st = "flushed"]
           /\ Busy' = Busy
<1>1. req[r] \in Request /\ req[r].st = "loaded"
  BY DEF OTypeOK, MaySend
<1>2. [req[r] EXCEPT !.st = "flushed"] \in Request
  BY <1>1 DEF Request
<1>3. /\ req'[r] = [req[r] EXCEPT !.st = "flushed"]
      /\ \A q \in Requests \ {r} : req'[q] = req[q]
      /\ req' \in [Requests -> Request \cup {NoRequest}]
  BY <1>1, <1>2 DEF OTypeOK
<1>4. req'[r].st = "flushed" /\ req'[r] # NoRequest
  BY <1>1, <1>2, <1>3 DEF Request
<1>5. QED BY <1>1, <1>3, <1>4 DEF Flushed, Busy

\* The row r sends its UPDATE to was held by nobody.
LEMMA FlushKeepsLocks ==
    ASSUME OInv, NEW r \in Requests, MaySend(r), OTypeOK',
           req' = [req EXCEPT ![r].st = "flushed"]
    PROVE  LocksAreExclusive'
<1>1. OTypeOK /\ LocksAreExclusive
  BY DEF OInv
<1>2. /\ \A q \in Requests \ {r} : req'[q] = req[q]
      /\ \A q \in Requests \ {r} : Flushed(q)' <=> Flushed(q)
      /\ req'[r].row = req[r].row /\ req'[r].changes = req[r].changes
  BY <1>1, FlushedBecomes DEF Request
<1>3. ASSUME NEW q \in Requests \ {r}, NEW row, Holds(q, row)'
      PROVE  Holds(q, row) /\ row \in 0..Len(returns)
  BY <1>1, <1>2, <1>3 DEF Holds, Flushed, OTypeOK, Busy
<1>4. ASSUME NEW q \in Requests \ {r}, NEW row, Holds(q, row)', Holds(r, row)'
      PROVE  FALSE
  <2>1. Holds(q, row)
    BY <1>3, <1>4
  <2>2. row = req[r].row /\ ~NothingIn(req[r].changes)
    BY <1>2, <1>4 DEF Holds, NothingIn
  <2>3. QED BY <2>1, <2>2 DEF MaySend
<1>5. QED BY <1>1, <1>3, <1>4 DEF LocksAreExclusive

LEMMA FlushDecisionPreserves ==
    ASSUME OInv, NEW r \in Requests, FlushDecision(r)
    PROVE  OInv'
<1> USE DEF OInv
<1>1. /\ MaySend(r) /\ req[r].row # 0
      /\ req' = [req EXCEPT ![r].st = "flushed"]
      /\ UNCHANGED <<order, seed, log, returns, exchanges, clock, served>>
  BY DEF FlushDecision
<1>2. /\ req' \in [Requests -> Request \cup {NoRequest}]
      /\ \A q \in Requests \ {r} : req'[q] = req[q]
      /\ \A q \in Requests \ {r} : Flushed(q)' <=> Flushed(q)
      /\ ~Flushed(r) /\ Busy' = Busy
      /\ req'[r].row = req[r].row /\ req'[r].to = req[r].to
  BY <1>1, FlushedBecomes DEF Request
<1>3. OTypeOK'
  BY <1>1, <1>2 DEF OTypeOK, Busy
<1>4. LocksAreExclusive'
  BY <1>1, <1>3, FlushKeepsLocks
<1>5. RequestsAreSound'
  <2>1. \A s, i : Known(s, i)' <=> Known(s, i)
    BY <1>1, HistoryUnchanged
  <2>2. QED BY <1>1, <1>2, <2>1 DEF RequestsAreSound, Busy
<1>6. PendingIsLatest'
  <2>1. SUFFICES ASSUME NEW i \in 1..Len(log), log[i].st = "pending"
                 PROVE  PendingEntry(i)'
    BY <1>1 DEF PendingIsLatest
  <2>2. PendingEntry(i) /\ log[i].by \in Requests \ {r}
    BY <1>2, <2>1, ByIsRequest DEF PendingIsLatest, PendingEntry
  <2>3. QED BY <1>1, <1>2, <2>2, HistoryUnchanged DEF PendingEntry
<1>7. OneEntryEach'
  BY <1>1, <1>2 DEF OneEntryEach
<1>8. HistoryEndsInStatus' /\ HistoryIsRooted'
  BY <1>1, HistoryUnchanged
<1>9. QED BY <1>3, <1>4, <1>5, <1>6, <1>7, <1>8

\* The flush of a request on the order appends its entry, pending.
LEMMA FlushOrderPreserves ==
    ASSUME OInv, NEW r \in Requests, FlushOrder(r)
    PROVE  OInv'
<1> USE DEF OInv
<1> DEFINE e == [op |-> req[r].op, from |-> req[r].from, to |-> req[r].to,
                 by |-> r, st |-> "pending"]
           new == [rma |-> req[r].at, status |-> "requested", by |-> r,
                   st |-> "pending"]
<1>1. /\ MaySend(r) /\ req[r].row = 0
      /\ req' = [req EXCEPT ![r].st = "flushed"]
      /\ log' = Append(log, e)
      /\ returns' \in {returns, Append(returns, new)}
      /\ UNCHANGED <<order, seed, exchanges, clock, served>>
  BY DEF FlushOrder
<1>2. /\ req' \in [Requests -> Request \cup {NoRequest}]
      /\ \A q \in Requests \ {r} : req'[q] = req[q]
      /\ \A q \in Requests \ {r} : Flushed(q)' <=> Flushed(q)
      /\ ~Flushed(r) /\ Flushed(r)' /\ Busy' = Busy /\ req[r] \in Request
      /\ req'[r] = [req[r] EXCEPT !.st = "flushed"]
  BY <1>1, FlushedBecomes
<1>3. /\ req'[r].row = 0 /\ req'[r].from = req[r].from
      /\ req'[r].to = req[r].to /\ req'[r].changes = req[r].changes
  BY <1>1, <1>2 DEF Request
<1>4. /\ {req[r].from, req[r].to} \subseteq OrderStatus
      /\ Known(req[r].from, Len(log) + 1)
  BY <1>1 DEF RequestsAreSound, Busy, MaySend
<1>5. e \in Entry /\ new \in Return
  BY <1>2, <1>4 DEF Entry, Return, Request, Visibility, ReturnStatus
<1>6. /\ log' \in Seq(Entry) /\ Len(log') = Len(log) + 1 /\ Len(log) \in Nat
      /\ \A i \in 1..Len(log) : log'[i] = log[i]
      /\ log'[Len(log) + 1] = e
  BY <1>1, <1>5 DEF OTypeOK
<1>7. /\ returns' \in Seq(Return) /\ Len(returns) \in Nat
      /\ Len(returns') \in {Len(returns), Len(returns) + 1}
  <2>1. returns \in Seq(Return) /\ Len(returns) \in Nat
    BY DEF OTypeOK
  <2>2. CASE returns' = returns
    BY <2>1, <2>2
  <2>3. CASE returns' = Append(returns, new)
    <3> HIDE DEF new
    <3>1. Append(returns, new) \in Seq(Return)
      BY <1>5, <2>1
    <3>2. Len(Append(returns, new)) = Len(returns) + 1
      BY <1>5, <2>1
    <3>3. QED BY <2>1, <2>3, <3>1, <3>2
  <2>4. QED BY <1>1, <2>2, <2>3
<1>8. OTypeOK'
  <2>1. ASSUME NEW q \in Busy PROVE req'[q].row \in 0..Len(returns')
    <3>1. req[q].row \in 0..Len(returns) /\ q \in Requests
      BY <2>1 DEF OTypeOK, Busy
    <3>2. req'[q].row = req[q].row
      BY <1>1, <1>2, <1>3, <3>1
    <3>3. QED BY <1>7, <3>1, <3>2
  <2>2. QED BY <1>1, <1>2, <1>6, <1>7, <2>1 DEF OTypeOK
<1> PICK n \in Nat : n = Len(log)
  BY <1>6
<1>9. \A i : Transition(i)' <=> Transition(i)
  <2>1. ~Transition(n + 1)' /\ ~Transition(n + 1)
    BY <1>6 DEF Transition, Visible
  <2>2. \A i \in 1..(Len(log) + 1) : i \in 1..Len(log) \/ i = Len(log) + 1
    BY <1>6
  <2>3. QED BY <1>6, <2>1, <2>2 DEF Transition, Visible
<1>10. \A s, i : Known(s, i) => Known(s, i)'
  BY <1>1, <1>6, <1>9 DEF Known
<1>11. LocksAreExclusive'
  BY <1>1, <1>8, FlushKeepsLocks
<1>12. RequestsAreSound'
  <2>1. ASSUME NEW s, Known(s, n + 1) PROVE Known(s, n + 2)'
    <3>1. Known(s, n + 1)'
      BY <1>10, <2>1
    <3>2. QED BY <3>1 DEF Known
  <2>2. Len(log) + 1 = n + 1 /\ Len(log') + 1 = n + 2
    BY <1>6
  <2>3. SUFFICES ASSUME NEW q \in Busy
        PROVE /\ req'[q].row = 0 =>
                   /\ {req'[q].from, req'[q].to} \subseteq OrderStatus
                   /\ req'[q].changes.status =
                        IF req'[q].from = req'[q].to THEN Keep ELSE req'[q].to
                   /\ Known(req[q].from, Len(log) + 1)'
              /\ req'[q].row # 0 => req'[q].to \in ReturnStatus
    BY <1>2 DEF RequestsAreSound
  <2>4. /\ req'[q].row = req[q].row /\ req'[q].from = req[q].from
        /\ req'[q].to = req[q].to /\ req'[q].changes = req[q].changes
    BY <1>1, <1>2, <1>3 DEF Busy
  <2>5. req[q].row = 0 => Known(req[q].from, n + 1)
    BY <2>2 DEF RequestsAreSound
  <2>6. ASSUME req[q].row = 0 PROVE Known(req[q].from, Len(log) + 1)'
    <3>1. PICK f : f = req[q].from /\ f = req'[q].from
      BY <2>4
    <3>2. Known(f, n + 2)'
      BY <2>1, <2>5, <2>6, <3>1
    <3>3. QED BY <2>2, <3>1, <3>2 DEF Known
  <2>7. QED BY <2>4, <2>6 DEF RequestsAreSound
<1>13. PendingIsLatest'
  <2>1. ASSUME NEW i \in 1..Len(log), log[i].st = "pending"
        PROVE  PendingEntry(i)'
    <3>1. PendingEntry(i) /\ log[i].by \in Requests \ {r}
      BY <1>2, <2>1, ByIsRequest DEF PendingIsLatest, PendingEntry
    <3>2. log[i].from # log[i].to => \A j \in 1..Len(log') : Transition(j)' => j < i
      BY <1>6, <1>9, <3>1 DEF PendingEntry, Transition, Visible
    <3>3. PICK f : f = log[i].from /\ f = log'[i].from
      BY <1>6
    <3>4. Known(f, i)'
      BY <1>10, <3>1, <3>3 DEF PendingEntry
    <3>5. Known(log[i].from, i)' /\ log'[i] = log[i]
      BY <1>6, <3>3, <3>4 DEF Known
    <3>6. QED BY <1>2, <3>1, <3>2, <3>5 DEF PendingEntry
  <2>2. PendingEntry(n + 1)'
    <3>1. PICK f : f = req[r].from
      OBVIOUS
    <3>2. Known(f, n + 1)'
      BY <1>4, <1>10, <3>1
    <3>3. \A j : Transition(j)' => j < n + 1
      BY <1>6, <1>9 DEF Transition, Visible
    <3>4. log'[n + 1].from = f /\ log'[n + 1].by = r /\ log'[n + 1].to = req[r].to
      BY <1>6, <3>1
    <3>5. Known(log[n + 1].from, n + 1)'
      BY <3>2, <3>4 DEF Known
    <3>6. QED BY <1>2, <1>3, <3>1, <3>3, <3>4, <3>5 DEF PendingEntry
  <2>3. \A i \in 1..Len(log') : i \in 1..Len(log) \/ i = n + 1
    BY <1>6
  <2>4. QED BY <1>6, <2>1, <2>2, <2>3 DEF PendingIsLatest
<1>14. OneEntryEach'
  <2>1. \A i \in 1..Len(log) : log[i].st = "pending" => log[i].by # r
    BY <1>2, NoPendingEntry
  <2>2. \A i \in 1..Len(log') : i \in 1..Len(log) \/ i = Len(log) + 1
    BY <1>6
  <2>3. ASSUME NEW i \in 1..Len(log'), NEW j \in 1..Len(log'),
               log'[i].st = "pending", log'[j].st = "pending",
               log'[i].by = log'[j].by
        PROVE  i = j
    BY <1>6, <2>1, <2>2, <2>3 DEF OneEntryEach
  <2>4. ASSUME NEW q \in Requests, Flushed(q)', req'[q].row = 0
        PROVE  \E i \in 1..Len(log') : log'[i].st = "pending" /\ log'[i].by = q
    <3>1. CASE q = r
      <4>1. Len(log) + 1 \in 1..Len(log')
        BY <1>6
      <4>2. QED BY <1>6, <3>1, <4>1
    <3>2. CASE q # r
      <4>1. PICK i \in 1..Len(log) : log[i].st = "pending" /\ log[i].by = q
        BY <1>2, <2>4, <3>2 DEF OneEntryEach
      <4>2. i \in 1..Len(log')
        BY <1>6
      <4>3. QED BY <1>6, <4>1, <4>2
    <3>3. QED BY <3>1, <3>2
  <2>5. QED BY <2>3, <2>4 DEF OneEntryEach
<1>15. HistoryEndsInStatus'
  <2>1. CASE \E i \in 1..Len(log) :
               /\ Transition(i)
               /\ \A j \in 1..Len(log) : Transition(j) => j <= i
               /\ log[i].to = order.status
    <3>1. PICK i \in 1..Len(log) :
               /\ Transition(i)
               /\ \A j \in 1..Len(log) : Transition(j) => j <= i
               /\ log[i].to = order.status
      BY <2>1
    <3>2. /\ i \in 1..Len(log') /\ Transition(i)'
          /\ \A j \in 1..Len(log') : Transition(j)' => j <= i
          /\ log'[i].to = order'.status
      BY <1>1, <1>6, <1>9, <3>1 DEF Transition, Visible
    <3>3. QED BY <3>2 DEF HistoryEndsInStatus
  <2>2. CASE (\A i \in 1..Len(log) : ~Transition(i)) /\ order.status = seed.status
    BY <1>1, <1>9, <2>2 DEF HistoryEndsInStatus, Transition, Visible
  <2>3. QED BY <2>1, <2>2 DEF HistoryEndsInStatus
<1>16. HistoryIsRooted'
  <2>1. SUFFICES ASSUME NEW i \in 1..Len(log'), Visible(i)'
                 PROVE  Known(log[i].from, i)'
    BY DEF HistoryIsRooted
  <2>2. i \in 1..Len(log) /\ Visible(i)
    BY <1>6, <2>1 DEF Visible
  <2>3. PICK f : f = log[i].from
    OBVIOUS
  <2>4. Known(f, i)' /\ log'[i].from = f
    BY <1>6, <1>10, <2>2, <2>3 DEF HistoryIsRooted
  <2>5. QED BY <2>4 DEF Known
<1>17. QED BY <1>8, <1>11, <1>12, <1>13, <1>14, <1>15, <1>16

\* The commit of a request on the order: its entry becomes visible and its
\* columns are written, together.
LEMMA CommitOrderPreserves ==
    ASSUME OInv, NEW r \in Requests, CommitOrder(r)
    PROVE  OInv'
<1> USE DEF OInv
<1>1. /\ Flushed(r) /\ req[r].row = 0 /\ r \in Busy
      /\ order' = Updated(order, req[r].changes)
      /\ log' = Settled(log, r, "visible")
      /\ returns' = Settled(returns, r, "visible")
      /\ exchanges' \in {exchanges, exchanges + 1}
      /\ req' = [req EXCEPT ![r] = NoRequest]
      /\ UNCHANGED <<seed, clock, served>>
  BY DEF CommitOrder, Flushed, Busy
<1>2. /\ log \in Seq(Entry) /\ returns \in Seq(Return) /\ Len(log) \in Nat
      /\ order \in Order /\ req[r] \in Request
  BY <1>1 DEF OTypeOK, Flushed
<1>3. req'[r] = NoRequest /\ \A q \in Requests \ {r} : req'[q] = req[q]
  BY <1>1 DEF OTypeOK
<1>4. /\ ~Flushed(r)'
      /\ \A q \in Requests \ {r} : Flushed(q)' <=> Flushed(q)
  BY <1>3 DEF Flushed
<1>5. /\ log' \in Seq(Entry) /\ Len(log') = Len(log)
      /\ \A i \in 1..Len(log) :
           /\ log'[i].from = log[i].from /\ log'[i].to = log[i].to
           /\ log'[i].by = log[i].by
           /\ log'[i].st = IF log[i].by = r /\ log[i].st = "pending"
                           THEN "visible" ELSE log[i].st
  BY <1>1, <1>2, SettledEntries
<1>6. returns' \in Seq(Return) /\ Len(returns') = Len(returns)
  BY <1>1, <1>2, SettledReturns
<1>7. PICK k \in 1..Len(log) : log[k].st = "pending" /\ log[k].by = r
  BY <1>1 DEF OneEntryEach
<1>8. /\ PendingEntry(k)
      /\ \A i \in 1..Len(log) : log[i].st = "pending" /\ log[i].by = r => i = k
      /\ log[k].from = req[r].from /\ log[k].to = req[r].to
  BY <1>7 DEF PendingIsLatest, PendingEntry, OneEntryEach
<1>9. /\ req[r].from \in OrderStatus /\ req[r].to \in OrderStatus
      /\ req[r].changes.status = IF req[r].from = req[r].to THEN Keep ELSE req[r].to
      /\ req[r].changes \in Changeset
  BY <1>1, <1>2 DEF RequestsAreSound, Request
<1>10. Keep \notin OrderStatus
  BY DEF Keep, OrderStatus
<1>11. /\ order' \in Order
       /\ order'.status = IF req[r].from = req[r].to THEN order.status ELSE req[r].to
  <2>1. req[r].changes.status \in OrderStatus \cup {Keep}
    BY <1>9
  <2>2. QED BY <1>1, <1>2, <1>9, <1>10, <2>1, UpdatedIsOrder
<1>12. \A i : Transition(i)' <=> Transition(i) \/ (i = k /\ log[k].from # log[k].to)
  BY <1>5, <1>7, <1>8 DEF Transition, Visible
<1>13. \A s, i : Known(s, i) => Known(s, i)'
  BY <1>1, <1>5, <1>12 DEF Known, Transition, Visible
<1>14. OTypeOK'
  BY <1>1, <1>3, <1>5, <1>6, <1>11 DEF OTypeOK, Busy
<1>15. LocksAreExclusive'
  BY <1>3, <1>4, <1>6 DEF LocksAreExclusive, Holds
<1>16. RequestsAreSound'
  BY <1>3, <1>5, <1>13 DEF RequestsAreSound, Busy
<1>17. PendingIsLatest'
  <2>1. SUFFICES ASSUME NEW i \in 1..Len(log), log'[i].st = "pending"
                 PROVE  PendingEntry(i)'
    BY <1>5 DEF PendingIsLatest
  <2>2. log[i].st = "pending" /\ log[i].by \in Requests \ {r}
    BY <1>5, <2>1, ByIsRequest
  <2>3. PendingEntry(i)
    BY <2>2 DEF PendingIsLatest
  <2>4. /\ log'[i].from = log[i].from /\ log'[i].to = log[i].to
        /\ log'[i].by = log[i].by /\ req'[log[i].by] = req[log[i].by]
    BY <1>3, <1>5, <2>2
  <2>5. ASSUME log[i].from # log[i].to, NEW j \in 1..Len(log), Transition(j)'
        PROVE  j < i
    <3>1. CASE Transition(j)
      BY <2>3, <2>5, <3>1 DEF PendingEntry
    <3>2. CASE j = k /\ log[k].from # log[k].to
      <4> DEFINE q == log[i].by
      <4>1. /\ Flushed(q) /\ req[q].row = 0 /\ q \in Busy
            /\ req[q].from # req[q].to /\ req[r].from # req[r].to
        BY <1>8, <2>2, <2>3, <2>5, <3>2 DEF PendingEntry, Flushed, Busy
      <4>2. ASSUME NEW u \in Busy, req[u].row = 0, req[u].from # req[u].to, Flushed(u)
            PROVE  Holds(u, 0)
        <5>1. req[u].changes \in Changeset /\ req[u].to \in OrderStatus
              /\ req[u].changes.status = req[u].to
          BY <4>2 DEF RequestsAreSound, OTypeOK, Busy, Request
        <5>2. "status" \in DOMAIN req[u].changes
          BY <5>1 DEF Changeset
        <5>3. QED BY <1>10, <4>2, <5>1, <5>2 DEF Holds, NothingIn
      <4>3. Holds(q, 0) /\ Holds(r, 0)
        BY <1>1, <4>1, <4>2
      <4>4. 0 \in 0..Len(returns)
        BY <1>2
      <4>5. q = r
        BY <2>2, <4>3, <4>4 DEF LocksAreExclusive
      <4>6. QED BY <2>2, <4>5
    <3>3. QED BY <1>12, <2>5, <3>1, <3>2
  <2>6. QED BY <1>4, <1>5, <1>13, <2>2, <2>3, <2>4, <2>5 DEF PendingEntry
<1>18. OneEntryEach'
  <2>1. ASSUME NEW i \in 1..Len(log), NEW j \in 1..Len(log),
               log'[i].st = "pending", log'[j].st = "pending",
               log'[i].by = log'[j].by
        PROVE  i = j
    BY <1>5, <2>1 DEF OneEntryEach
  <2>2. ASSUME NEW q \in Requests, Flushed(q)', req'[q].row = 0
        PROVE  \E i \in 1..Len(log) : log'[i].st = "pending" /\ log'[i].by = q
    <3>1. q # r /\ Flushed(q) /\ req[q].row = 0
      BY <1>3, <1>4, <2>2
    <3>2. PICK i \in 1..Len(log) : log[i].st = "pending" /\ log[i].by = q
      BY <3>1 DEF OneEntryEach
    <3>3. QED BY <1>5, <3>1, <3>2
  <2>3. QED BY <1>5, <2>1, <2>2 DEF OneEntryEach
<1>19. HistoryEndsInStatus'
  <2>1. CASE req[r].from # req[r].to
    <3>1. /\ Transition(k)'
          /\ \A j \in 1..Len(log') : Transition(j)' => j <= k
          /\ log'[k].to = order'.status
      BY <1>5, <1>8, <1>11, <1>12, <2>1 DEF PendingEntry
    <3>2. QED BY <1>5, <3>1 DEF HistoryEndsInStatus
  <2>2. CASE req[r].from = req[r].to
    <3>1. \A i : Transition(i)' <=> Transition(i)
      BY <1>8, <1>12, <2>2
    <3>2. order'.status = order.status
      BY <1>11, <2>2
    <3>3. QED BY <1>1, <1>5, <3>1, <3>2 DEF HistoryEndsInStatus
  <2>3. QED BY <2>1, <2>2
<1>20. HistoryIsRooted'
  <2>1. SUFFICES ASSUME NEW i \in 1..Len(log), Visible(i)'
                 PROVE  Known(log[i].from, i)
    BY <1>5, <1>13 DEF HistoryIsRooted
  <2>2. Visible(i) \/ i = k
    BY <1>5, <1>8, <2>1 DEF Visible
  <2>3. QED BY <1>8, <2>2 DEF HistoryIsRooted, PendingEntry
<1>21. QED BY <1>14, <1>15, <1>16, <1>17, <1>18, <1>19, <1>20

LEMMA NextOInv == OInv /\ [ONext]_ovars => OInv'
<1> SUFFICES ASSUME OInv, [ONext]_ovars PROVE OInv'
  OBVIOUS
<1>1. ASSUME NEW r \in Requests, Load(r) PROVE OInv'
  BY <1>1, LoadPreserves
<1>2. ASSUME NEW r \in Requests, Finish(r) PROVE OInv'
  <2>1. CASE Rollback(r)
    BY <2>1, RollbackPreserves
  <2>2. CASE FlushOrder(r)
    BY <2>2, FlushOrderPreserves
  <2>3. CASE FlushDecision(r)
    BY <2>3, FlushDecisionPreserves
  <2>4. CASE RmaTaken(r)
    BY <2>4, RmaTakenPreserves
  <2>5. CASE CommitOrder(r)
    BY <2>5, CommitOrderPreserves
  <2>6. CASE CommitDecision(r)
    BY <2>6, CommitDecisionPreserves
  <2>7. QED BY <1>2, <2>1, <2>2, <2>3, <2>4, <2>5, <2>6 DEF Finish
<1>3. ASSUME UNCHANGED <<order, seed, log, returns, exchanges, req, served>>,
             clock' \in 0..MaxClock
      PROVE  OInv'
  <2>1. OTypeOK'
    BY <1>3 DEF OInv, OTypeOK, Busy
  <2>2. HistoryEndsInStatus' /\ HistoryIsRooted'
    BY <1>3, HistoryUnchanged DEF OInv
  <2>3. LocksAreExclusive' /\ OneEntryEach'
    BY <1>3 DEF OInv, LocksAreExclusive, OneEntryEach, Holds, Flushed
  <2>4. RequestsAreSound'
    BY <1>3, HistoryUnchanged DEF OInv, RequestsAreSound, Busy
  <2>5. PendingIsLatest'
    BY <1>3, HistoryUnchanged DEF OInv, PendingIsLatest, PendingEntry, Flushed
  <2>6. QED BY <2>1, <2>2, <2>3, <2>4, <2>5 DEF OInv
<1>4. CASE OTick
  BY <1>3, <1>4 DEF OTick, OInv, OTypeOK
<1>5. CASE UNCHANGED ovars
  BY <1>3, <1>5 DEF ovars, OInv, OTypeOK
<1>6. QED BY <1>1, <1>2, <1>4, <1>5 DEF ONext

-----------------------------------------------------------------------------
\* The inductive invariant holds of every behaviour.
THEOREM OrderInvariant == OSpec => []OInv
<1>1. OInit => OInv
  BY InitOInv
<1>2. OInv /\ [ONext]_ovars => OInv'
  BY NextOInv
<1>3. QED BY <1>1, <1>2, PTL DEF OSpec

\* However requests interleave, fail or are rolled back, the last transition
\* in the status history of an order leads to the status the order has.
THEOREM HistoryAgreesWithOrder == OSpec => []HistoryEndsInStatus
<1>1. OInv => HistoryEndsInStatus
  BY DEF OInv
<1>2. QED BY <1>1, OrderInvariant, PTL

\* No entry of the history starts from a status that the order never had.
THEOREM HistoryHasRoots == OSpec => []HistoryIsRooted
<1>1. OInv => HistoryIsRooted
  BY DEF OInv
<1>2. QED BY <1>1, OrderInvariant, PTL

-----------------------------------------------------------------------------
(***************************************************************************)
(* A request takes effect as a whole or not at all.                        *)
(***************************************************************************)

\* Only a cancellation assigns the payment status.
LEMMA PaymentSent ==
    ASSUME NEW saw \in Order, NEW want \in Order, NEW stamped,
           "payment_status" \notin stamped
    PROVE  Changes(saw, want, stamped).payment_status =
             IF saw.payment_status = want.payment_status THEN Keep
                                                         ELSE want.payment_status
BY DEF Changes, Order

LEMMA PaymentWritten ==
    ASSUME NEW row \in Order, NEW ch \in Changeset
    PROVE  Updated(row, ch).payment_status =
             IF ch.payment_status = Keep THEN row.payment_status
                                         ELSE ch.payment_status
BY DEF Updated, Order

\* A step that shows no new row keeps the counts.
LEMMA NothingShown ==
    ASSUME AllOrNothing, VisibleReturns' = VisibleReturns,
           \A op \in Operations : EntriesOf(op)' = EntriesOf(op),
           order' = order, exchanges' = exchanges
    PROVE  AllOrNothing'
<1>1. /\ EntriesOf("return")' = EntriesOf("return")
      /\ EntriesOf("exchange")' = EntriesOf("exchange")
      /\ EntriesOf("cancel")' = EntriesOf("cancel")
  BY DEF Operations
<1>2. QED BY <1>1 DEF AllOrNothing

LEMMA SameRows ==
    ASSUME log' = log, returns' = returns
    PROVE  /\ VisibleReturns' = VisibleReturns
           /\ \A op : EntriesOf(op)' = EntriesOf(op)
           /\ \A r : ReturnOf(r)' = ReturnOf(r)
BY DEF VisibleReturns, EntriesOf, Visible, ReturnOf

\* A request that begins has inserted nothing.
LEMMA BeginInserts ==
    ASSUME InsertInv, NEW r \in Requests, NEW new,
           req[r] = NoRequest, new.st = "loaded",
           new.op = "decide" <=> new.row # 0,
           new.op # "cancel" => new.changes.payment_status = Keep,
           new.op = "cancel" =>
             \/ new.changes.payment_status = "cancelled"
             \/ new.changes.payment_status = Keep /\ order.payment_status = "cancelled",
           req' = [req EXCEPT ![r] = new],
           UNCHANGED <<order, log, returns, exchanges>>
    PROVE  PaymentsAreSound' /\ InsertsArePaired' /\ AllOrNothing'
<1> USE DEF InsertInv, OInv
<1>1. req'[r] = new /\ \A q \in Requests \ {r} : req'[q] = req[q]
  BY DEF OTypeOK
<1>2. ~Flushed(r) /\ ~Flushed(r)'
  BY <1>1 DEF Flushed
<1>3. \A q \in Requests \ {r} : Flushed(q)' <=> Flushed(q)
  BY <1>1 DEF Flushed
<1>4. PaymentsAreSound'
  BY <1>1 DEF PaymentsAreSound, Busy
<1>5. InsertsArePaired'
  <2>1. ASSUME NEW i \in 1..Len(log), log[i].st = "pending"
        PROVE  log[i].op = req'[log[i].by].op
    <3>1. log[i].by \in Requests \ {r}
      BY <1>2, <2>1, NoPendingEntry, ByIsRequest
    <3>2. QED BY <1>1, <2>1, <3>1 DEF InsertsArePaired
  <2>2. ASSUME NEW q \in Requests
        PROVE  IF Flushed(q)' /\ req'[q].op = "return"
               THEN \E i \in 1..Len(returns) : ReturnOf(q) = {i}
               ELSE ReturnOf(q) = {}
    <3>1. CASE q = r
      BY <1>2, <3>1 DEF InsertsArePaired
    <3>2. CASE q # r
      BY <1>1, <1>3, <3>2 DEF InsertsArePaired
    <3>3. QED BY <3>1, <3>2
  <2>3. QED BY <2>1, <2>2, SameRows DEF InsertsArePaired
<1>6. AllOrNothing'
  BY SameRows, NothingShown
<1>7. QED BY <1>4, <1>5, <1>6

LEMMA AssignsInserts ==
    ASSUME InsertInv, NEW r \in Requests, NEW op \in Operations \ {"decide"},
           NEW want \in Order,
           NEW stamped \in {{}, {"cancelled_at"}, {"delivered_at"}, {"updated_at"}},
           want.payment_status = IF op = "cancel" THEN "cancelled"
                                                  ELSE order.payment_status,
           Assigns(r, op, want, stamped)
    PROVE  PaymentsAreSound' /\ InsertsArePaired' /\ AllOrNothing'
<1> DEFINE new == [op |-> op, st |-> "loaded", row |-> 0, from |-> order.status,
                   to |-> want.status, at |-> clock,
                   changes |-> Changes(order, want, stamped)]
<1>1. order \in Order
  BY DEF InsertInv, OInv, OTypeOK
<1>2. new.changes.payment_status = IF order.payment_status = want.payment_status
                                   THEN Keep ELSE want.payment_status
  BY <1>1, PaymentSent
<1>3. QED BY <1>2, BeginInserts DEF Assigns

LEMMA LoadInserts ==
    ASSUME InsertInv, NEW r \in Requests, Load(r)
    PROVE  PaymentsAreSound' /\ InsertsArePaired' /\ AllOrNothing'
<1> DEFINE goal == PaymentsAreSound' /\ InsertsArePaired' /\ AllOrNothing'
<1>1. order \in Order
  BY DEF InsertInv, OInv, OTypeOK
<1>2. CASE CancelOrder(r)
  <2> DEFINE want == [order EXCEPT !.status = "cancelled",
                                   !.payment_status = "cancelled",
                                   !.cancelled_at = "set"]
  <2>1. want \in Order /\ want.payment_status = "cancelled"
    BY <1>1 DEF Order, OrderStatus, PaymentStatus
  <2>2. QED BY <1>2, <2>1, AssignsInserts DEF CancelOrder, Operations
<1>3. CASE RequestReturn(r)
  <2> DEFINE want == [order EXCEPT !.status = "return_requested"]
  <2>1. want \in Order /\ want.payment_status = order.payment_status
    BY <1>1 DEF Order, OrderStatus
  <2>2. QED BY <1>3, <2>1, AssignsInserts DEF RequestReturn, Operations
<1>4. CASE RequestExchange(r)
  <2> DEFINE want == [order EXCEPT !.status = "exchange_requested"]
  <2>1. want \in Order /\ want.payment_status = order.payment_status
    BY <1>1 DEF Order, OrderStatus
  <2>2. QED BY <1>4, <2>1, AssignsInserts DEF RequestExchange, Operations
<1>5. ASSUME NEW s \in Targets, UpdateOrderStatus(r, s) PROVE goal
  <2> DEFINE plain == [order EXCEPT !.status = s]
             dated == [order EXCEPT !.status = s, !.delivered_at = "set"]
  <2>1. /\ plain \in Order /\ plain.payment_status = order.payment_status
        /\ dated \in Order /\ dated.payment_status = order.payment_status
    BY <1>1 DEF Order
  <2>2. QED BY <1>5, <2>1, AssignsInserts DEF UpdateOrderStatus, Operations
<1>6. ASSUME NEW s \in Targets, AdminUpdateOrderStatus(r, s) PROVE goal
  <2> DEFINE want == [order EXCEPT !.status = s]
  <2>1. want \in Order /\ want.payment_status = order.payment_status
    BY <1>1 DEF Order
  <2>2. QED BY <1>6, <2>1, AssignsInserts DEF AdminUpdateOrderStatus, Operations
<1>7. ASSUME NEW i \in 1..Len(returns), NEW s \in {"approved", "rejected"},
             DecideOn(r, i, s)
      PROVE  goal
  <2> DEFINE new == [op |-> "decide", st |-> "loaded", row |-> i,
                     from |-> returns[i].status, to |-> s, at |-> clock,
                     changes |-> StatusOnly(s)]
  <2>1. new.changes.payment_status = Keep /\ new.row # 0
    BY DEF StatusOnly
  <2>2. QED BY <1>7, <2>1, BeginInserts DEF DecideOn
<1>8. QED
  BY <1>2, <1>3, <1>4, <1>5, <1>6, <1>7
  DEF Load, CustomerOrderRoutes, ApproveRefund, RejectRefund, Decide

\* A request that ends and shows nothing takes its pending rows with it.
LEMMA EndInserts ==
    ASSUME InsertInv, NEW r \in Requests,
           req' = [req EXCEPT ![r] = NoRequest],
           Len(log') = Len(log), Len(returns') = Len(returns),
           \A i \in 1..Len(log) :
             /\ log'[i].op = log[i].op /\ log'[i].by = log[i].by
             /\ log'[i].st = "visible" <=> log[i].st = "visible"
             /\ log'[i].st = "pending" <=> log[i].st = "pending" /\ log[i].by # r,
           \A i \in 1..Len(returns) :
             /\ returns'[i].by = returns[i].by
             /\ returns'[i].st = "visible" <=> returns[i].st = "visible"
             /\ returns'[i].st = "pending" <=>
                  returns[i].st = "pending" /\ returns[i].by # r,
           order' = order, exchanges' = exchanges
    PROVE  PaymentsAreSound' /\ InsertsArePaired' /\ AllOrNothing'
<1> USE DEF InsertInv, OInv
<1>1. req'[r] = NoRequest /\ \A q \in Requests \ {r} : req'[q] = req[q]
  BY DEF OTypeOK
<1>2. /\ ~Flushed(r)'
      /\ \A q \in Requests \ {r} : Flushed(q)' <=> Flushed(q)
  BY <1>1 DEF Flushed
<1>3. PaymentsAreSound'
  BY <1>1 DEF PaymentsAreSound, Busy
<1>4. InsertsArePaired'
  <2>1. ASSUME NEW i \in 1..Len(log), log'[i].st = "pending"
        PROVE  log'[i].op = req'[log'[i].by].op
    <3>1. log[i].st = "pending" /\ log[i].by \in Requests \ {r}
      BY <2>1, ByIsRequest
    <3>2. QED BY <1>1, <3>1 DEF InsertsArePaired
  <2>2. ReturnOf(r)' = {}
    BY DEF ReturnOf
  <2>3. \A q \in Requests \ {r} : ReturnOf(q)' = ReturnOf(q)
    BY DEF ReturnOf
  <2>4. ASSUME NEW q \in Requests
        PROVE  IF Flushed(q)' /\ req'[q].op = "return"
               THEN \E i \in 1..Len(returns') : ReturnOf(q)' = {i}
               ELSE ReturnOf(q)' = {}
    <3>1. CASE q = r
      BY <1>2, <2>2, <3>1
    <3>2. CASE q # r
      BY <1>1, <1>2, <2>3, <3>2 DEF InsertsArePaired
    <3>3. QED BY <3>1, <3>2
  <2>5. QED BY <2>1, <2>4 DEF InsertsArePaired
<1>5. AllOrNothing'
  <2>1. VisibleReturns' = VisibleReturns
    BY DEF VisibleReturns
  <2>2. \A op \in Operations : EntriesOf(op)' = EntriesOf(op)
    BY DEF EntriesOf, Visible
  <2>3. QED BY <2>1, <2>2, NothingShown
<1>6. QED BY <1>3, <1>4, <1>5

\* A request that has not flushed a return has no pending one.
LEMMA NoPendingReturn ==
    ASSUME InsertInv, NEW r \in Requests, ~Flushed(r) \/ req[r].op # "return"
    PROVE  \A i \in 1..Len(returns) : returns[i].st = "pending" => returns[i].by # r
<1>1. ReturnOf(r) = {}
  BY DEF InsertInv, InsertsArePaired
<1>2. QED BY <1>1 DEF ReturnOf

LEMMA RollbackInserts ==
    ASSUME InsertInv, NEW r \in Requests, Rollback(r)
    PROVE  PaymentsAreSound' /\ InsertsArePaired' /\ AllOrNothing'
<1>1. log \in Seq(Entry) /\ returns \in Seq(Return)
  BY DEF InsertInv, OInv, OTypeOK
<1>2. log' = Settled(log, r, "gone") /\ returns' = Settled(returns, r, "gone")
  BY DEF Rollback
<1>3. /\ Len(log') = Len(log)
      /\ \A i \in 1..Len(log) :
           /\ log'[i].op = log[i].op /\ log'[i].by = log[i].by
           /\ log'[i].st = IF log[i].by = r /\ log[i].st = "pending"
                           THEN "gone" ELSE log[i].st
  BY <1>1, <1>2, SettledEntries
<1>4. /\ Len(returns') = Len(returns)
      /\ \A i \in 1..Len(returns) :
           /\ returns'[i].by = returns[i].by
           /\ returns'[i].st = IF returns[i].by = r /\ returns[i].st = "pending"
                               THEN "gone" ELSE returns[i].st
  BY <1>1, <1>2, SettledReturns
<1>5. QED BY <1>3, <1>4, EndInserts DEF Rollback

LEMMA RmaTakenInserts ==
    ASSUME InsertInv, NEW r \in Requests, RmaTaken(r)
    PROVE  PaymentsAreSound' /\ InsertsArePaired' /\ AllOrNothing'
<1>1. ~Flushed(r)
  BY DEF RmaTaken, MaySend, Flushed
<1>2. \A i \in 1..Len(log) : log[i].st = "pending" => log[i].by # r
  BY <1>1, NoPendingEntry DEF InsertInv
<1>3. \A i \in 1..Len(returns) : returns[i].st = "pending" => returns[i].by # r
  BY <1>1, NoPendingReturn
<1>4. QED BY <1>2, <1>3, EndInserts DEF RmaTaken

LEMMA CommitDecisionInserts ==
    ASSUME InsertInv, NEW r \in Requests, CommitDecision(r)
    PROVE  PaymentsAreSound' /\ InsertsArePaired' /\ AllOrNothing'
<1>1. /\ r \in Busy /\ req[r].row # 0
      /\ returns \in Seq(Return) /\ req[r].row \in 1..Len(returns)
  BY DEF CommitDecision, Flushed, InsertInv, OInv, OTypeOK, Busy
<1>2. req[r].op = "decide"
  BY <1>1 DEF InsertInv, PaymentsAreSound
<1>3. \A i \in 1..Len(log) : log[i].st = "pending" => log[i].by # r
  BY <1>1, NoPendingEntry DEF InsertInv
<1>4. \A i \in 1..Len(returns) : returns[i].st = "pending" => returns[i].by # r
  BY <1>2, NoPendingReturn
<1>5. /\ Len(returns') = Len(returns)
      /\ \A i \in 1..Len(returns) : /\ returns'[i].by = returns[i].by
                                    /\ returns'[i].st = returns[i].st
  <2>1. returns' = [returns EXCEPT ![req[r].row].status = req[r].to]
    BY DEF CommitDecision
  <2>2. \A i \in 1..Len(returns) : returns[i] \in Return
    BY <1>1
  <2>3. QED BY <1>1, <2>1, <2>2 DEF Return
<1>6. QED BY <1>3, <1>4, <1>5, EndInserts DEF CommitDecision

LEMMA FlushDecisionInserts ==
    ASSUME InsertInv, NEW r \in Requests, FlushDecision(r)
    PROVE  PaymentsAreSound' /\ InsertsArePaired' /\ AllOrNothing'
<1> USE DEF InsertInv, OInv
<1>1. /\ MaySend(r) /\ req[r].row # 0 /\ r \in Busy
      /\ req' = [req EXCEPT ![r].st = "flushed"]
      /\ UNCHANGED <<order, seed, log, returns, exchanges, clock, served>>
  BY DEF FlushDecision, MaySend, Busy
<1>2. /\ \A q \in Requests \ {r} : req'[q] = req[q]
      /\ \A q \in Requests \ {r} : Flushed(q)' <=> Flushed(q)
      /\ ~Flushed(r) /\ Busy' = Busy
      /\ req'[r].row = req[r].row /\ req'[r].op = req[r].op
      /\ req'[r].changes = req[r].changes
  BY <1>1, FlushedBecomes DEF Request
<1>3. PaymentsAreSound'
  BY <1>1, <1>2 DEF PaymentsAreSound, Busy
<1>4. req[r].op = "decide"
  BY <1>1 DEF PaymentsAreSound
<1>5. InsertsArePaired'
  <2>1. ASSUME NEW i \in 1..Len(log), log[i].st = "pending"
        PROVE  log[i].op = req'[log[i].by].op
    BY <1>2, <2>1, ByIsRequest DEF InsertsArePaired
  <2>2. ASSUME NEW q \in Requests
        PROVE  IF Flushed(q)' /\ req'[q].op = "return"
               THEN \E i \in 1..Len(returns) : ReturnOf(q) = {i}
               ELSE ReturnOf(q) = {}
    <3>1. CASE q = r
      BY <1>2, <1>4, <3>1 DEF InsertsArePaired
    <3>2. CASE q # r
      BY <1>2, <3>2 DEF InsertsArePaired
    <3>3. QED BY <3>1, <3>2
  <2>3. QED BY <1>1, <2>1, <2>2, SameRows DEF InsertsArePaired
<1>6. AllOrNothing'
  BY <1>1, SameRows, NothingShown
<1>7. QED BY <1>3, <1>5, <1>6

\* The flush inserts the entry and, for a return, the return, both pending.
LEMMA FlushOrderInserts ==
    ASSUME InsertInv, NEW r \in Requests, FlushOrder(r)
    PROVE  PaymentsAreSound' /\ InsertsArePaired' /\ AllOrNothing'
<1> USE DEF InsertInv, OInv
<1> DEFINE e == [op |-> req[r].op, from |-> req[r].from, to |-> req[r].to,
                 by |-> r, st |-> "pending"]
           new == [rma |-> req[r].at, status |-> "requested", by |-> r,
                   st |-> "pending"]
<1>1. /\ MaySend(r) /\ req[r].row = 0 /\ r \in Busy
      /\ req' = [req EXCEPT ![r].st = "flushed"]
      /\ log' = Append(log, e)
      /\ returns' = IF req[r].op = "return" THEN Append(returns, new) ELSE returns
      /\ order' = order /\ exchanges' = exchanges
  BY DEF FlushOrder, MaySend, Busy
<1>2. /\ \A q \in Requests \ {r} : req'[q] = req[q]
      /\ \A q \in Requests \ {r} : Flushed(q)' <=> Flushed(q)
      /\ ~Flushed(r) /\ Flushed(r)' /\ Busy' = Busy
      /\ req'[r].row = req[r].row /\ req'[r].op = req[r].op
      /\ req'[r].changes = req[r].changes
  BY <1>1, FlushedBecomes DEF Request
<1>3. /\ log \in Seq(Entry) /\ returns \in Seq(Return)
      /\ Len(log) \in Nat /\ Len(returns) \in Nat
  BY DEF OTypeOK
<1>4. /\ Len(log') = Len(log) + 1
      /\ \A i \in 1..Len(log) : log'[i] = log[i]
      /\ log'[Len(log) + 1].by = r /\ log'[Len(log) + 1].op = req[r].op
      /\ log'[Len(log) + 1].st = "pending"
      /\ \A i \in 1..Len(log') : i \in 1..Len(log) \/ i = Len(log) + 1
  BY <1>1, <1>3
<1>5. PaymentsAreSound'
  BY <1>1, <1>2 DEF PaymentsAreSound, Busy
<1>6. ReturnOf(r) = {}
  BY <1>2 DEF InsertsArePaired
<1>7. /\ VisibleReturns' = VisibleReturns
      /\ \A q \in Requests \ {r} : ReturnOf(q)' = ReturnOf(q)
      /\ Len(returns') >= Len(returns) /\ Len(returns') \in Nat
      /\ IF req[r].op = "return"
         THEN \E i \in 1..Len(returns') : ReturnOf(r)' = {i}
         ELSE ReturnOf(r)' = {}
  <2>1. CASE req[r].op # "return"
    BY <1>1, <1>3, <1>6, <2>1 DEF VisibleReturns, ReturnOf
  <2>2. CASE req[r].op = "return"
    <3> DEFINE n == Len(returns) + 1
    <3>1. /\ Len(returns') = n /\ n \in 1..Len(returns') /\ n \notin 1..Len(returns)
          /\ \A i \in 1..Len(returns) : returns'[i] = returns[i]
          /\ returns'[n].by = r /\ returns'[n].st = "pending"
          /\ \A i : i \in 1..Len(returns') <=> i \in 1..Len(returns) \/ i = n
      BY <1>1, <1>3, <2>2
    <3> HIDE DEF n
    <3>2. VisibleReturns' = VisibleReturns
      BY <3>1 DEF VisibleReturns
    <3>3. \A q \in Requests \ {r} : ReturnOf(q)' = ReturnOf(q)
      BY <3>1 DEF ReturnOf
    <3>4. ReturnOf(r)' = {n}
      BY <1>6, <3>1 DEF ReturnOf
    <3>5. Len(returns') >= Len(returns) /\ Len(returns') \in Nat
      BY <1>3, <3>1 DEF n
    <3>6. QED BY <2>2, <3>1, <3>2, <3>3, <3>4, <3>5
  <2>3. QED BY <2>1, <2>2
<1>8. InsertsArePaired'
  <2>1. ASSUME NEW i \in 1..Len(log'), log'[i].st = "pending"
        PROVE  log'[i].op = req'[log'[i].by].op
    <3>1. CASE i \in 1..Len(log)
      BY <1>2, <1>4, <2>1, <3>1, ByIsRequest DEF InsertsArePaired
    <3>2. CASE i = Len(log) + 1
      BY <1>2, <1>4, <3>2
    <3>3. QED BY <1>4, <3>1, <3>2
  <2>2. ASSUME NEW q \in Requests
        PROVE  IF Flushed(q)' /\ req'[q].op = "return"
               THEN \E i \in 1..Len(returns') : ReturnOf(q)' = {i}
               ELSE ReturnOf(q)' = {}
    <3>1. CASE q = r
      BY <1>2, <1>7, <3>1
    <3>2. CASE q # r
      <4>1. /\ Flushed(q)' <=> Flushed(q)
            /\ req'[q].op = req[q].op /\ ReturnOf(q)' = ReturnOf(q)
        BY <1>2, <1>7, <3>2
      <4>2. \A i \in 1..Len(returns) : i \in 1..Len(returns')
        BY <1>3, <1>7
      <4>3. QED BY <4>1, <4>2 DEF InsertsArePaired
    <3>3. QED BY <3>1, <3>2
  <2>3. QED BY <2>1, <2>2 DEF InsertsArePaired
<1>9. AllOrNothing'
  <2>1. \A op \in Operations : EntriesOf(op)' = EntriesOf(op)
    <3>1. \A i \in 1..Len(log) : i \in 1..Len(log')
      BY <1>3, <1>4
    <3>2. ~Visible(Len(log) + 1)' /\ ~Visible(Len(log) + 1)
      BY <1>3, <1>4 DEF Visible
    <3>3. QED BY <1>4, <3>1, <3>2 DEF EntriesOf, Visible
  <2>2. QED BY <1>1, <1>7, <2>1, NothingShown
<1>10. QED BY <1>5, <1>8, <1>9

\* The rows of a table are finitely many.
LEMMA CountsAreNumbers ==
    ASSUME OTypeOK
    PROVE  /\ IsFiniteSet(VisibleReturns)
           /\ \A op : IsFiniteSet(EntriesOf(op))
<1>1. Len(log) \in Nat /\ Len(returns) \in Nat
  BY DEF OTypeOK
<1>2. IsFiniteSet(1..Len(log)) /\ IsFiniteSet(1..Len(returns))
  BY <1>1, FS_Interval
<1>3. VisibleReturns \in SUBSET (1..Len(returns))
  BY DEF VisibleReturns
<1>4. \A op : EntriesOf(op) \in SUBSET (1..Len(log))
  BY DEF EntriesOf
<1>5. QED BY <1>2, <1>3, <1>4, FS_Subset

\* The commit shows the entry and the return, and writes the payment, together.
LEMMA CommitOrderInserts ==
    ASSUME InsertInv, NEW r \in Requests, CommitOrder(r)
    PROVE  PaymentsAreSound' /\ InsertsArePaired' /\ AllOrNothing'
<1> USE DEF InsertInv, OInv
<1>1. /\ Flushed(r) /\ req[r].row = 0 /\ r \in Busy
      /\ order' = Updated(order, req[r].changes)
      /\ log' = Settled(log, r, "visible")
      /\ returns' = Settled(returns, r, "visible")
      /\ exchanges' = IF req[r].op = "exchange" THEN exchanges + 1 ELSE exchanges
      /\ req' = [req EXCEPT ![r] = NoRequest]
  BY DEF CommitOrder, Flushed, Busy
<1>2. /\ log \in Seq(Entry) /\ returns \in Seq(Return) /\ exchanges \in Nat
      /\ order \in Order /\ req[r].changes \in Changeset /\ req[r].op \in Operations
  BY <1>1 DEF OTypeOK, Flushed, Request
<1>3. req'[r] = NoRequest /\ \A q \in Requests \ {r} : req'[q] = req[q]
  BY <1>1 DEF OTypeOK
<1>4. /\ ~Flushed(r)'
      /\ \A q \in Requests \ {r} : Flushed(q)' <=> Flushed(q)
  BY <1>3 DEF Flushed
<1>5. /\ Len(log') = Len(log)
      /\ \A i \in 1..Len(log) :
           /\ log'[i].op = log[i].op /\ log'[i].by = log[i].by
           /\ log'[i].st = IF log[i].by = r /\ log[i].st = "pending"
                           THEN "visible" ELSE log[i].st
  BY <1>1, <1>2, SettledEntries
<1>6. /\ Len(returns') = Len(returns)
      /\ \A i \in 1..Len(returns) :
           /\ returns'[i].by = returns[i].by
           /\ returns'[i].st = IF returns[i].by = r /\ returns[i].st = "pending"
                               THEN "visible" ELSE returns[i].st
  BY <1>1, <1>2, SettledReturns
<1>7. PICK k \in 1..Len(log) : log[k].st = "pending" /\ log[k].by = r
  BY <1>1 DEF OneEntryEach
<1>8. /\ \A i \in 1..Len(log) : log[i].st = "pending" /\ log[i].by = r => i = k
      /\ log[k].op = req[r].op
  BY <1>7 DEF OneEntryEach, InsertsArePaired
<1>9. /\ req[r].op # "cancel" => order'.payment_status = order.payment_status
      /\ req[r].op = "cancel" => order'.payment_status = "cancelled"
  <2>1. order'.payment_status = IF req[r].changes.payment_status = Keep
                                THEN order.payment_status
                                ELSE req[r].changes.payment_status
    BY <1>1, <1>2, PaymentWritten
  <2>2. QED BY <1>1, <2>1 DEF PaymentsAreSound, Keep
<1>10. order.payment_status = "cancelled" => order'.payment_status = "cancelled"
  BY <1>9
<1>11. PaymentsAreSound'
  BY <1>3, <1>10 DEF PaymentsAreSound, Busy
<1>12. InsertsArePaired'
  <2>1. ASSUME NEW i \in 1..Len(log), log'[i].st = "pending"
        PROVE  log'[i].op = req'[log'[i].by].op
    <3>1. log[i].st = "pending" /\ log[i].by \in Requests \ {r}
      BY <1>5, <2>1, ByIsRequest
    <3>2. QED BY <1>3, <1>5, <2>1, <3>1 DEF InsertsArePaired
  <2>2. ReturnOf(r)' = {}
    BY <1>6 DEF ReturnOf
  <2>3. \A q \in Requests \ {r} : ReturnOf(q)' = ReturnOf(q)
    BY <1>6 DEF ReturnOf
  <2>4. ASSUME NEW q \in Requests
        PROVE  IF Flushed(q)' /\ req'[q].op = "return"
               THEN \E i \in 1..Len(returns') : ReturnOf(q)' = {i}
               ELSE ReturnOf(q)' = {}
    <3>1. CASE q = r
      BY <1>4, <2>2, <3>1
    <3>2. CASE q # r
      BY <1>3, <1>4, <1>6, <2>3, <3>2 DEF InsertsArePaired
    <3>3. QED BY <3>1, <3>2
  <2>5. QED BY <1>5, <2>1, <2>4 DEF InsertsArePaired
<1>13. \A op : /\ EntriesOf(op)' = IF op = req[r].op THEN EntriesOf(op) \cup {k}
                                                    ELSE EntriesOf(op)
               /\ k \notin EntriesOf(op)
  <2>1. \A i : Visible(i)' <=> Visible(i) \/ i = k
    BY <1>5, <1>7, <1>8 DEF Visible
  <2>2. ~Visible(k)
    BY <1>7 DEF Visible
  <2>3. QED BY <1>5, <1>7, <1>8, <2>1, <2>2 DEF EntriesOf, Visible
<1>14. /\ req[r].op # "return" => VisibleReturns' = VisibleReturns
       /\ req[r].op = "return" =>
            \E m : m \notin VisibleReturns /\ VisibleReturns' = VisibleReturns \cup {m}
  <2>1. VisibleReturns' = VisibleReturns \cup ReturnOf(r)
    BY <1>6 DEF VisibleReturns, ReturnOf
  <2>2. VisibleReturns \cap ReturnOf(r) = {}
    BY DEF VisibleReturns, ReturnOf
  <2>3. CASE req[r].op # "return"
    BY <2>1, <2>3 DEF InsertsArePaired
  <2>4. CASE req[r].op = "return"
    <3>1. PICK m : ReturnOf(r) = {m}
      BY <1>1, <2>4 DEF InsertsArePaired
    <3>2. QED BY <2>1, <2>2, <2>4, <3>1
  <2>5. QED BY <2>3, <2>4
<1>15. AllOrNothing'
  <2>1. /\ IsFiniteSet(VisibleReturns) /\ Cardinality(VisibleReturns) \in Nat
        /\ \A op : IsFiniteSet(EntriesOf(op)) /\ Cardinality(EntriesOf(op)) \in Nat
    BY CountsAreNumbers, FS_CardinalityType
  <2>2. Cardinality(VisibleReturns)' = Cardinality(EntriesOf("return"))'
    <3>1. CASE req[r].op = "return"
      <4>1. PICK m : m \notin VisibleReturns /\ VisibleReturns' = VisibleReturns \cup {m}
        BY <1>14, <3>1
      <4>2. Cardinality(VisibleReturns') = Cardinality(VisibleReturns) + 1
        BY <2>1, <4>1, FS_AddElement
      <4>3. EntriesOf("return")' = EntriesOf("return") \cup {k}
        BY <1>13, <3>1
      <4>4. k \notin EntriesOf("return") /\ IsFiniteSet(EntriesOf("return"))
        BY <1>13, <2>1
      <4>5. Cardinality(EntriesOf("return")') = Cardinality(EntriesOf("return")) + 1
        BY <4>3, <4>4, FS_AddElement
      <4>6. QED BY <4>2, <4>5 DEF AllOrNothing
    <3>2. CASE req[r].op # "return"
      BY <1>13, <1>14, <3>2 DEF AllOrNothing
    <3>3. QED BY <3>1, <3>2
  <2>3. exchanges' = Cardinality(EntriesOf("exchange"))'
    <3>1. CASE req[r].op = "exchange"
      <4>1. EntriesOf("exchange")' = EntriesOf("exchange") \cup {k}
        BY <1>13, <3>1
      <4>2. k \notin EntriesOf("exchange") /\ IsFiniteSet(EntriesOf("exchange"))
        BY <1>13, <2>1
      <4>3. Cardinality(EntriesOf("exchange")') = Cardinality(EntriesOf("exchange")) + 1
        BY <4>1, <4>2, FS_AddElement
      <4>4. QED BY <1>1, <3>1, <4>3 DEF AllOrNothing
    <3>2. CASE req[r].op # "exchange"
      BY <1>1, <1>13, <3>2 DEF AllOrNothing
    <3>3. QED BY <3>1, <3>2
  <2>4. order'.payment_status = "cancelled" <=> EntriesOf("cancel")' # {}
    <3>1. CASE req[r].op = "cancel"
      <4>1. EntriesOf("cancel")' = EntriesOf("cancel") \cup {k}
        BY <1>13, <3>1
      <4>2. QED BY <1>9, <3>1, <4>1
    <3>2. CASE req[r].op # "cancel"
      BY <1>9, <1>13, <3>2 DEF AllOrNothing
    <3>3. QED BY <3>1, <3>2
  <2>5. QED BY <2>2, <2>3, <2>4 DEF AllOrNothing
<1>16. QED BY <1>11, <1>12, <1>15

LEMMA NextInsertInv == InsertInv /\ [ONext]_ovars => InsertInv'
<1> SUFFICES ASSUME InsertInv, [ONext]_ovars
             PROVE  PaymentsAreSound' /\ InsertsArePaired' /\ AllOrNothing'
  BY NextOInv DEF InsertInv
<1> DEFINE goal == PaymentsAreSound' /\ InsertsArePaired' /\ AllOrNothing'
<1>1. ASSUME NEW r \in Requests, Finish(r) PROVE goal
  <2>1. CASE Rollback(r)
    BY <2>1, RollbackInserts
  <2>2. CASE FlushOrder(r)
    BY <2>2, FlushOrderInserts
  <2>3. CASE FlushDecision(r)
    BY <2>3, FlushDecisionInserts
  <2>4. CASE RmaTaken(r)
    BY <2>4, RmaTakenInserts
  <2>5. CASE CommitOrder(r)
    BY <2>5, CommitOrderInserts
  <2>6. CASE CommitDecision(r)
    BY <2>6, CommitDecisionInserts
  <2>7. QED BY <1>1, <2>1, <2>2, <2>3, <2>4, <2>5, <2>6 DEF Finish
<1>2. ASSUME UNCHANGED <<order, log, returns, exchanges, req>> PROVE goal
  <2>1. PaymentsAreSound'
    BY <1>2 DEF InsertInv, PaymentsAreSound, Busy
  <2>2. InsertsArePaired'
    BY <1>2, SameRows DEF InsertInv, InsertsArePaired, Flushed
  <2>3. AllOrNothing'
    BY <1>2, SameRows, NothingShown DEF InsertInv
  <2>4. QED BY <2>1, <2>2, <2>3
<1>3. CASE OTick
  BY <1>2, <1>3 DEF OTick
<1>4. CASE UNCHANGED ovars
  BY <1>2, <1>4 DEF ovars
<1>5. ASSUME NEW r \in Requests, Load(r) PROVE goal
  BY <1>5, LoadInserts
<1>6. QED BY <1>1, <1>3, <1>4, <1>5 DEF ONext

LEMMA InitInsertInv == OInit => InsertInv
<1> SUFFICES ASSUME OInit PROVE InsertInv
  OBVIOUS
<1>1. Len(log) = 0 /\ Len(returns) = 0 /\ Busy = {}
  BY DEF OInit, Busy
<1>2. /\ VisibleReturns = {} /\ \A op : EntriesOf(op) = {}
      /\ \A r : ReturnOf(r) = {}
  BY <1>1 DEF VisibleReturns, EntriesOf, Visible, ReturnOf
<1>3. order.payment_status # "cancelled"
  BY DEF OInit
<1>4. AllOrNothing
  BY <1>2, <1>3, FS_EmptySet DEF AllOrNothing, OInit
<1>5. \A r \in Requests : ~Flushed(r)
  BY DEF OInit, Flushed
<1>6. PaymentsAreSound /\ InsertsArePaired
  BY <1>1, <1>2, <1>5 DEF PaymentsAreSound, InsertsArePaired
<1>7. QED BY <1>4, <1>6, InitOInv DEF InsertInv

\* The log entry, the return or exchange and the payment of a request are all
\* committed or none is, whatever fails and however requests interleave.
THEOREM RequestsAreWhole == OSpec => []AllOrNothing
<1>1. OInit => InsertInv
  BY InitInsertInv
<1>2. InsertInv /\ [ONext]_ovars => InsertInv'
  BY NextInsertInv
<1>3. InsertInv => AllOrNothing
  BY DEF InsertInv
<1>4. QED BY <1>1, <1>2, <1>3, PTL DEF OSpec
-----------------------------------------------------------------------------
(***************************************************************************)
(* Requests served in turn (module MCOrderLifecycle): the request that is  *)
(* alone finds the order as it has loaded it.                              *)
(***************************************************************************)

\* Requests in turn take the steps of requests side by side.
LEMMA TurnStep == [OWNext]_owvars => [ONext]_ovars /\ UNCHANGED serving
BY DEF OWNext, owvars

LEMMA NobodyElse ==
    ASSUME Busy \subseteq serving, ServedInTurn, NEW r \in Busy, NEW q \in Busy
    PROVE  q = r
BY DEF ServedInTurn

\* A request that begins has just loaded the row it decides on.
LEMMA BeginInTurn ==
    ASSUME OInv, InTurn, NEW r \in Requests, NEW new,
           req' = [req EXCEPT ![r] = new],
           UNCHANGED <<order, log, returns>>,
           new.row = 0 => new.from = order.status,
           new.op = "cancel" => new.from \notin {"cancelled", "refunded", "delivered"},
           new.row # 0 => returns[new.row].status = "requested"
    PROVE  InTurn'
<1>1. \A q \in Requests : req'[q] = IF q = r THEN new ELSE req[q]
  BY DEF OInv, OTypeOK
<1>2. LoadedIsPresent'
  BY <1>1 DEF InTurn, LoadedIsPresent, Busy
<1>3. (LastLeads /\ PendingIsLast /\ HistoryIsChain)'
  BY DEF InTurn, LastLeads, PendingIsLast, HistoryIsChain, Visible
<1>4. QED BY <1>2, <1>3 DEF InTurn

LEMMA AssignsInTurn ==
    ASSUME OInv, InTurn, NEW r \in Requests, NEW op \in Operations, NEW want, NEW stamped,
           Assigns(r, op, want, stamped),
           op = "cancel" => order.status \notin {"cancelled", "refunded", "delivered"}
    PROVE  InTurn'
<1> DEFINE new == [op |-> op, st |-> "loaded", row |-> 0, from |-> order.status,
                   to |-> want.status, at |-> clock,
                   changes |-> Changes(order, want, stamped)]
<1>1. /\ req' = [req EXCEPT ![r] = new]
      /\ UNCHANGED <<order, log, returns>>
      /\ new.row = 0 /\ new.from = order.status /\ new.op = op
  BY DEF Assigns
<1> HIDE DEF new
<1>2. QED BY <1>1, BeginInTurn

LEMMA LoadInTurn ==
    ASSUME OInv, InTurn, NEW r \in Requests, Load(r)
    PROVE  InTurn'
<1>1. CASE CancelOrder(r)
  BY <1>1, AssignsInTurn DEF CancelOrder, Operations
<1>2. CASE RequestReturn(r)
  BY <1>2, AssignsInTurn DEF RequestReturn, Operations
<1>3. CASE RequestExchange(r)
  BY <1>3, AssignsInTurn DEF RequestExchange, Operations
<1>4. ASSUME NEW s \in Targets, UpdateOrderStatus(r, s) PROVE InTurn'
  BY <1>4, AssignsInTurn DEF UpdateOrderStatus, Operations
<1>5. ASSUME NEW s \in Targets, AdminUpdateOrderStatus(r, s) PROVE InTurn'
  BY <1>5, AssignsInTurn DEF AdminUpdateOrderStatus, Operations
<1>6. ASSUME NEW i \in 1..Len(returns), NEW s, Decide(r, i, s) PROVE InTurn'
  <2> DEFINE new == [op |-> "decide", st |-> "loaded", row |-> i,
                     from |-> returns[i].status, to |-> s, at |-> clock,
                     changes |-> StatusOnly(s)]
  <2>1. /\ req' = [req EXCEPT ![r] = new]
        /\ UNCHANGED <<order, log, returns>>
        /\ new.row = i /\ new.op = "decide"
        /\ returns[i].status = "requested"
    BY <1>6 DEF Decide, DecideOn
  <2>2. i # 0
    BY DEF OInv, OTypeOK
  <2> HIDE DEF new
  <2>3. QED BY <2>1, <2>2, BeginInTurn
<1>7. QED
  BY <1>1, <1>2, <1>3, <1>4, <1>5, <1>6
  DEF Load, CustomerOrderRoutes, ApproveRefund, RejectRefund

\* When it ends, nobody is busy.
LEMMA NobodyAfter ==
    ASSUME OInv, Busy \subseteq serving, ServedInTurn, NEW r \in Busy,
           req' = [req EXCEPT ![r] = NoRequest]
    PROVE  Busy' = {}
BY NobodyElse DEF Busy, OInv, OTypeOK

\* Without a new entry that is visible, the history stays a chain.
LEMMA RollbackInTurn ==
    ASSUME OInv, InTurn, Busy \subseteq serving, ServedInTurn,
           NEW r \in Requests, Rollback(r)
    PROVE  InTurn'
<1>1. /\ r \in Busy /\ req' = [req EXCEPT ![r] = NoRequest]
      /\ log' = Settled(log, r, "gone") /\ order' = order
  BY DEF Rollback, Busy
<1>2. log \in Seq(Entry) /\ Len(log) \in Nat
  BY DEF OInv, OTypeOK
<1>3. /\ Len(log') = Len(log)
      /\ \A i \in 1..Len(log) :
           /\ log'[i].from = log[i].from /\ log'[i].to = log[i].to
           /\ log'[i].st = IF log[i].by = r /\ log[i].st = "pending"
                           THEN "gone" ELSE log[i].st
  BY <1>1, <1>2, SettledEntries
<1>4. \A i : Visible(i)' <=> Visible(i)
  BY <1>3 DEF Visible
<1>5. LoadedIsPresent'
  BY <1>1, NobodyAfter DEF LoadedIsPresent
<1>6. LastLeads'
  BY <1>1, <1>2, <1>3, <1>4 DEF InTurn, LastLeads
<1>7. PendingIsLast'
  BY <1>2, <1>3 DEF InTurn, PendingIsLast
<1>8. HistoryIsChain'
  BY <1>2, <1>3, <1>4 DEF InTurn, HistoryIsChain
<1>9. QED BY <1>5, <1>6, <1>7, <1>8 DEF InTurn

LEMMA EndInTurn ==
    ASSUME OInv, InTurn, Busy \subseteq serving, ServedInTurn,
           NEW r \in Requests, RmaTaken(r) \/ CommitDecision(r)
    PROVE  InTurn'
<1>1. r \in Busy /\ req' = [req EXCEPT ![r] = NoRequest] /\ log' = log /\ order' = order
  BY DEF RmaTaken, CommitDecision, MaySend, Flushed, Busy
<1>2. LoadedIsPresent'
  BY <1>1, NobodyAfter DEF LoadedIsPresent
<1>3. (LastLeads /\ PendingIsLast /\ HistoryIsChain)'
  BY <1>1 DEF InTurn, LastLeads, PendingIsLast, HistoryIsChain, Visible
<1>4. QED BY <1>2, <1>3 DEF InTurn

\* The flush of the one request finds no pending entry and adds one.
LEMMA FlushInTurn ==
    ASSUME OInv, InTurn, Busy \subseteq serving, ServedInTurn,
           NEW r \in Requests, FlushOrder(r) \/ FlushDecision(r)
    PROVE  InTurn'
<1>1. /\ r \in Busy /\ req[r].st = "loaded" /\ order' = order
      /\ req' = [req EXCEPT ![r].st = "flushed"]
  BY DEF FlushOrder, FlushDecision, MaySend, Busy
<1>2. log \in Seq(Entry) /\ Len(log) \in Nat /\ req[r] \in Request
  BY <1>1 DEF OInv, OTypeOK, Busy
<1>3. /\ req'[r].row = req[r].row /\ req'[r].from = req[r].from
      /\ req'[r].op = req[r].op
      /\ \A q \in Busy' : q = r
  BY <1>1, <1>2, NobodyElse DEF Busy, OInv, OTypeOK, Request
<1>4. LoadedIsPresent'
  <2>1. CASE req[r].row = 0
    BY <1>1, <1>3, <2>1 DEF LoadedIsPresent, InTurn
  <2>2. CASE req[r].row # 0
    <3>1. returns' = returns
      BY <2>2 DEF FlushOrder, FlushDecision
    <3>2. QED BY <1>1, <1>3, <2>2, <3>1 DEF LoadedIsPresent, InTurn
  <2>3. QED BY <2>1, <2>2
<1>5. CASE FlushDecision(r)
  <2>1. log' = log
    BY <1>5 DEF FlushDecision
  <2>2. (LastLeads /\ PendingIsLast /\ HistoryIsChain)'
    BY <1>1, <2>1 DEF InTurn, LastLeads, PendingIsLast, HistoryIsChain, Visible
  <2>3. QED BY <1>4, <2>2 DEF InTurn
<1>6. CASE FlushOrder(r)
  <2> DEFINE e == [op |-> req[r].op, from |-> req[r].from,
                   to |-> req[r].to, by |-> r, st |-> "pending"]
             n == Len(log) + 1
  <2>1. log' = Append(log, e) /\ e.st = "pending"
    BY <1>6 DEF FlushOrder
  <2> HIDE DEF e
  <2>2. /\ Len(log') = n /\ log'[n] = e
        /\ \A i \in 1..Len(log) : log'[i] = log[i]
    BY <1>2, <2>1
  <2>3. \A i : Visible(i)' <=> Visible(i)
    BY <1>2, <2>1, <2>2 DEF Visible
  <2>4. \A i \in 1..Len(log) : log[i].st # "pending"
    <3>1. SUFFICES ASSUME NEW i \in 1..Len(log), log[i].st = "pending" PROVE FALSE
      OBVIOUS
    <3>2. log[i].by \in Busy /\ req[log[i].by].st = "flushed"
      BY <3>1, ByIsRequest DEF OInv, PendingIsLatest, PendingEntry, Flushed, Busy
    <3>3. QED BY <1>1, <3>2, NobodyElse
  <2>5. PendingIsLast'
    BY <1>2, <2>2, <2>4 DEF PendingIsLast
  <2>6. LastLeads'
    <3>1. SUFFICES ASSUME NEW i \in 1..Len(log'), Visible(i)',
                          \A j \in (i+1)..Len(log') : ~Visible(j)'
                   PROVE  log'[i].to = order'.status
      BY DEF LastLeads
    <3>2. Visible(i) /\ i \in 1..Len(log) /\ \A j \in (i+1)..Len(log) : ~Visible(j)
      BY <1>2, <2>2, <2>3, <3>1 DEF Visible
    <3>3. QED BY <1>1, <2>2, <3>2 DEF InTurn, LastLeads
  <2>7. HistoryIsChain'
    <3>1. SUFFICES ASSUME NEW i \in 1..Len(log'), NEW j \in 1..Len(log'),
                          Visible(i)', Visible(j)', i < j,
                          \A k \in (i+1)..(j-1) : ~Visible(k)'
                   PROVE  log'[j].from = log'[i].to
      BY DEF HistoryIsChain
    <3>2. /\ Visible(i) /\ Visible(j) /\ i \in 1..Len(log) /\ j \in 1..Len(log)
          /\ \A k \in (i+1)..(j-1) : ~Visible(k)
      BY <2>3, <3>1 DEF Visible
    <3>3. QED BY <2>2, <3>1, <3>2 DEF InTurn, HistoryIsChain
  <2>8. QED BY <1>4, <2>5, <2>6, <2>7 DEF InTurn
<1>7. QED BY <1>5, <1>6

\* The commit makes the last entry visible; it starts where the order was.
LEMMA CommitInTurn ==
    ASSUME OInv, InTurn, Busy \subseteq serving, ServedInTurn,
           NEW r \in Requests, CommitOrder(r)
    PROVE  InTurn'
<1>1. /\ Flushed(r) /\ req[r].row = 0 /\ r \in Busy
      /\ order' = Updated(order, req[r].changes)
      /\ log' = Settled(log, r, "visible")
      /\ req' = [req EXCEPT ![r] = NoRequest]
  BY DEF CommitOrder, Flushed, Busy
<1>2. /\ log \in Seq(Entry) /\ Len(log) \in Nat
      /\ order \in Order /\ req[r] \in Request
  BY <1>1 DEF OInv, OTypeOK, Flushed
<1>3. /\ Len(log') = Len(log)
      /\ \A i \in 1..Len(log) :
           /\ log'[i].from = log[i].from /\ log'[i].to = log[i].to
           /\ log'[i].st = IF log[i].by = r /\ log[i].st = "pending"
                           THEN "visible" ELSE log[i].st
  BY <1>1, <1>2, SettledEntries
<1>4. PICK k \in 1..Len(log) : log[k].st = "pending" /\ log[k].by = r
  BY <1>1 DEF OInv, OneEntryEach
<1>5. /\ k = Len(log)
      /\ log[k].from = req[r].from /\ log[k].to = req[r].to
      /\ req[r].from = order.status
  BY <1>1, <1>4 DEF OInv, PendingIsLatest, PendingEntry, InTurn, PendingIsLast,
                    LoadedIsPresent
<1>6. \A i : Visible(i)' <=> Visible(i) \/ i = k
  BY <1>2, <1>3, <1>4, <1>5 DEF InTurn, PendingIsLast, Visible
<1>7. order'.status = req[r].to
  <2>1. /\ req[r].changes \in Changeset
        /\ req[r].from \in OrderStatus /\ req[r].to \in OrderStatus
        /\ req[r].changes.status = IF req[r].from = req[r].to THEN Keep ELSE req[r].to
    BY <1>1, <1>2 DEF OInv, RequestsAreSound, Request
  <2>2. Keep \notin OrderStatus
    BY DEF Keep, OrderStatus
  <2>3. req[r].changes.status \in OrderStatus \cup {Keep}
    BY <2>1
  <2>4. QED BY <1>1, <1>2, <1>5, <2>1, <2>2, <2>3, UpdatedIsOrder
<1>8. LoadedIsPresent'
  BY <1>1, NobodyAfter DEF LoadedIsPresent
<1>9. PendingIsLast'
  BY <1>2, <1>3 DEF InTurn, PendingIsLast
<1>10. LastLeads'
  BY <1>2, <1>3, <1>5, <1>6, <1>7 DEF LastLeads
<1>11. HistoryIsChain'
  <2>1. SUFFICES ASSUME NEW i \in 1..Len(log), NEW j \in 1..Len(log),
                        Visible(i)', Visible(j)', i < j,
                        \A m \in (i+1)..(j-1) : ~Visible(m)'
                 PROVE  log[j].from = log[i].to
    BY <1>3 DEF HistoryIsChain
  <2>2. Visible(i) /\ \A m \in (i+1)..(j-1) : ~Visible(m)
    BY <1>2, <1>5, <1>6, <2>1
  <2>3. CASE j # k
    BY <1>6, <2>1, <2>2, <2>3 DEF InTurn, HistoryIsChain
  <2>4. CASE j = k
    <3>1. \A m \in (i+1)..Len(log) : ~Visible(m)
      BY <1>2, <1>4, <1>5, <2>2, <2>4 DEF Visible
    <3>2. log[i].to = order.status
      BY <2>2, <3>1 DEF InTurn, LastLeads
    <3>3. QED BY <1>5, <2>4, <3>2
  <2>5. QED BY <2>3, <2>4
<1>12. QED BY <1>8, <1>9, <1>10, <1>11 DEF InTurn

LEMMA InitTurn == OWInit => OInv /\ TurnInv
<1> SUFFICES ASSUME OWInit PROVE OInv /\ TurnInv
  OBVIOUS
<1>1. OInv /\ Len(log) = 0 /\ Busy = {}
  BY InitOInv DEF OWInit, OInit, Busy
<1>2. InTurn
  BY <1>1 DEF InTurn, LoadedIsPresent, LastLeads, PendingIsLast, HistoryIsChain
<1>3. QED BY <1>1, <1>2 DEF TurnInv

LEMMA NextTurn == OInv /\ TurnInv /\ [OWNext]_owvars => OInv' /\ TurnInv'
<1> SUFFICES ASSUME OInv, TurnInv, [OWNext]_owvars PROVE OInv' /\ TurnInv'
  OBVIOUS
<1>1. OInv' /\ serving' = serving
  BY NextOInv, TurnStep
<1>2. Busy' \subseteq serving'
  BY <1>1 DEF TurnInv, OWNext, owvars, ovars, Busy
<1>3. ASSUME ServedInTurn PROVE InTurn'
  <2>1. InTurn /\ Busy \subseteq serving
    BY <1>3 DEF TurnInv
  <2>2. ASSUME NEW r \in Requests, Load(r) \/ Finish(r) PROVE InTurn'
    BY <1>3, <2>1, <2>2, LoadInTurn, RollbackInTurn, EndInTurn, FlushInTurn,
       CommitInTurn DEF Finish
  <2>3. CASE OTick \/ UNCHANGED ovars
    <3>1. UNCHANGED <<order, log, returns, req>>
      BY <2>3 DEF OTick, ovars
    <3>2. QED
      BY <2>1, <3>1 DEF InTurn, LoadedIsPresent, LastLeads, PendingIsLast,
                        HistoryIsChain, Visible, Busy
  <2>4. QED BY <2>2, <2>3, TurnStep DEF ONext
<1>4. QED BY <1>1, <1>2, <1>3 DEF TurnInv, ServedInTurn

THEOREM TurnInvariant == OWSpec => [](OInv /\ TurnInv)
<1>1. OWInit => OInv /\ TurnInv
  BY InitTurn
<1>2. (OInv /\ TurnInv) /\ [OWNext]_owvars => (OInv /\ TurnInv)'
  BY NextTurn
<1>3. QED BY <1>1, <1>2, PTL DEF OWSpec

\* With requests served one at a time, each entry of the status history takes
\* up where the last one left off, roll-backs included.
THEOREM HistoryChains == OWSpec => []ChainWhenInTurn
<1>1. TurnInv => ChainWhenInTurn
  BY DEF TurnInv, InTurn, ChainWhenInTurn
<1>2. QED BY <1>1, TurnInvariant, PTL

\* With requests served one at a time, no cancellation takes effect on a
\* delivered order, and an approved or rejected refund stays so.
THEOREM DecisionsSettle == OWSpec => SettledWhenInTurn
<1>1. ASSUME OInv, TurnInv, OWNext, ServedInTurn
      PROVE  DeliveredIsKept /\ DecisionIsKept
  <2>1. InTurn
    BY <1>1 DEF TurnInv
  <2>2. ASSUME NEW r \in Requests, CommitOrder(r), req[r].op = "cancel"
        PROVE  order.status # "delivered"
    BY <2>1, <2>2 DEF CommitOrder, Flushed, InTurn, LoadedIsPresent, Busy
  <2>3. returns \in Seq(Return) /\ Len(returns) \in Nat
    BY <1>1 DEF OInv, OTypeOK
  <2>4. ASSUME NEW r, NEW st, NEW i \in 1..Len(returns)
        PROVE  Settled(returns, r, st)[i].status = returns[i].status
    <3>1. returns[i] \in Return
      BY <2>3
    <3>2. QED BY <3>1 DEF Settled, Return
  <2>5. ASSUME NEW i \in 1..Len(returns), returns[i].status # "requested"
        PROVE  returns'[i].status = returns[i].status
    <3>1. ASSUME NEW r \in Requests, Load(r)
          PROVE  returns' = returns
      BY <3>1 DEF Load, CustomerOrderRoutes, CancelOrder, RequestReturn,
           RequestExchange, UpdateOrderStatus, AdminUpdateOrderStatus, Assigns,
           ApproveRefund, RejectRefund, Decide, DecideOn
    <3>2. ASSUME NEW r \in Requests, CommitOrder(r) \/ Rollback(r)
          PROVE  returns'[i].status = returns[i].status
      BY <2>4, <3>2 DEF CommitOrder, Rollback
    <3>3. ASSUME NEW r \in Requests, FlushOrder(r)
          PROVE  returns'[i] = returns[i]
      BY <2>3, <3>3 DEF FlushOrder
    <3>4. ASSUME NEW r \in Requests, FlushDecision(r) \/ RmaTaken(r)
          PROVE  returns' = returns
      BY <3>4 DEF FlushDecision, RmaTaken
    <3>5. ASSUME NEW r \in Requests, CommitDecision(r)
          PROVE  returns'[i].status = returns[i].status
      <4>1. returns[req[r].row].status = "requested"
        BY <2>1, <3>5 DEF CommitDecision, Flushed, InTurn, LoadedIsPresent, Busy
      <4>2. returns'[i] = returns[i]
        BY <2>3, <2>5, <3>5, <4>1 DEF CommitDecision
      <4>3. QED BY <4>2
    <3>6. CASE OTick
      BY <3>6 DEF OTick
    <3>7. QED
      BY <1>1, <3>1, <3>2, <3>3, <3>4, <3>5, <3>6 DEF OWNext, ONext, Finish
  <2>6. QED BY <2>2, <2>5 DEF DeliveredIsKept, DecisionIsKept
<1>2. (OInv /\ TurnInv) /\ [OWNext]_owvars
        => [ServedInTurn => DeliveredIsKept /\ DecisionIsKept]_owvars
  BY <1>1
<1>3. QED BY <1>2, TurnInvariant, PTL DEF OWSpec, SettledWhenInTurn
=============================================================================
