---------------------------- MODULE TicketProofs ----------------------------
(***************************************************************************)
(* Proofs about the numbers of tickets and about a ticket's life, for any  *)
(* number of requests in progress, any seeded tickets and any bounds.      *)
(***************************************************************************)
EXTENDS TicketNumbers, TicketLifecycle, TLAPS

-----------------------------------------------------------------------------
(* Ticket numbers                                                          *)

LEMMA InitNInv == NInit => NInv
<1> SUFFICES ASSUME NInit PROVE NInv
  OBVIOUS
<1>1. tickets = <<>> /\ \A r \in Requests : creating[r] = NoRequest
  BY DEF NInit
<1>2. NTypeOK
  BY YearsAreBounded DEF NInit, NTypeOK
<1>3. CreationsAreBounded /\ InsertedIsFree
  BY <1>1 DEF CreationsAreBounded, InsertedIsFree
<1>4. 1..Len(tickets) = {}
  BY <1>1
<1>5. NumbersAreUnique /\ NumbersAreBounded /\ NumbersAreConsecutive
      /\ \A i \in 1..Len(tickets) : tickets[i].n > Seeded
  BY <1>4 DEF NumbersAreUnique, NumbersAreBounded, NumbersAreConsecutive
<1>6. QED BY <1>2, <1>3, <1>5 DEF NInv

\* Steps that leave the tickets alone and end requests: none begins, none
\* inserts.
LEMMA EndPreserves ==
    ASSUME NInv, UNCHANGED <<tickets, begun>>, year' \in 0..MaxYear,
           creating' \in [Requests -> Creation \cup {NoRequest}],
           \A q \in Requests : creating'[q] \in {creating[q], NoRequest}
    PROVE  NInv'
<1>1. NTypeOK'
  BY DEF NInv, NTypeOK
<1>2. CreationsAreBounded'
  BY DEF NInv, CreationsAreBounded, Count
<1>3. InsertedIsFree'
  <2>1. SUFFICES ASSUME NEW q \in Requests, NEW r \in Requests,
                        creating'[r] # NoRequest, creating'[r].st = "inserted"
                 PROVE  (LET number == Numbered(creating[r].year, creating[r].n) IN
                         /\ ~Taken(number)
                         /\ creating[q] # NoRequest /\ creating[q].st = "inserted"
                              /\ Numbered(creating[q].year, creating[q].n) = number
                            => q = r)'
    BY DEF InsertedIsFree
  <2>2. creating'[r] = creating[r]
    BY <2>1
  <2>3. QED BY <2>1, <2>2 DEF NInv, InsertedIsFree, Taken, Numbered
<1>4. NumbersAreUnique' /\ NumbersAreBounded' /\ NumbersAreConsecutive'
      /\ (\A i \in 1..Len(tickets) : tickets[i].n > Seeded)'
  BY DEF NInv, NumbersAreUnique, NumbersAreBounded, NumbersAreConsecutive
<1>5. QED BY <1>1, <1>2, <1>3, <1>4 DEF NInv

\* Steps of one request that leave the tickets alone.
LEMMA CountPreserves ==
    ASSUME NInv, NEW r \in Requests, CountTickets(r)
    PROVE  NInv'
<1> DEFINE new == [st |-> "counted", year |-> year, n |-> Count + 1]
<1>0. Len(tickets) \in Nat /\ Count \in Nat
  BY SeededIsNat DEF NInv, NTypeOK, Count
<1>1. /\ creating' = [creating EXCEPT ![r] = new]
      /\ UNCHANGED <<tickets, year>> /\ begun' = begun + 1
      /\ new \in Creation /\ new # NoRequest
  BY <1>0, NoRequestIsNoCreation DEF CountTickets, Creation, NInv, NTypeOK
<1>2. /\ creating' \in [Requests -> Creation \cup {NoRequest}]
      /\ creating'[r] = new
      /\ \A q \in Requests \ {r} : creating'[q] = creating[q]
  BY <1>1 DEF NInv, NTypeOK
<1>3. NTypeOK'
  BY <1>1, <1>2 DEF NInv, NTypeOK
<1>4. CreationsAreBounded'
  <2>1. new.n \in (Seeded + 1)..(Count + 1)
    BY <1>0, SeededIsNat DEF Count
  <2>2. Count' = Count
    BY <1>1 DEF Count
  <2>3. QED BY <1>2, <2>1, <2>2 DEF NInv, CreationsAreBounded
<1>5. InsertedIsFree'
  BY <1>1, <1>2 DEF NInv, InsertedIsFree, Taken, Numbered
<1>6. NumbersAreUnique' /\ NumbersAreBounded' /\ NumbersAreConsecutive'
      /\ (\A i \in 1..Len(tickets) : tickets[i].n > Seeded)'
  BY <1>1 DEF NInv, NumbersAreUnique, NumbersAreBounded, NumbersAreConsecutive
<1>7. QED BY <1>3, <1>4, <1>5, <1>6 DEF NInv

LEMMA InsertPreserves ==
    ASSUME NInv, NEW r \in Requests, NEW y \in 0..MaxYear, InsertTicket(r, y)
    PROVE  NInv'
<1>1. /\ creating[r] # NoRequest /\ creating[r] \in Creation
      /\ UNCHANGED <<tickets, year, begun>>
      /\ ~Taken(Numbered(y, creating[r].n)) /\ ~InFlight(Numbered(y, creating[r].n))
  BY DEF InsertTicket, Counts, NInv, NTypeOK
<1>2. /\ creating' \in [Requests -> Creation \cup {NoRequest}]
      /\ creating'[r] = [st |-> "inserted", year |-> y, n |-> creating[r].n]
      /\ creating'[r] # NoRequest
      /\ \A q \in Requests \ {r} : creating'[q] = creating[q]
  BY <1>1, NoRequestIsNoCreation DEF InsertTicket, NInv, NTypeOK, Creation
<1>3. NTypeOK'
  BY <1>1, <1>2 DEF NInv, NTypeOK
<1>4. CreationsAreBounded'
  BY <1>1, <1>2 DEF NInv, CreationsAreBounded, Count
<1>5. InsertedIsFree'
  <2>1. ASSUME NEW q \in Requests \ {r}, creating[q] # NoRequest,
               creating[q].st = "inserted"
        PROVE  Numbered(creating[q].year, creating[q].n) # Numbered(y, creating[r].n)
    BY <1>1, <2>1 DEF InFlight
  <2>2. QED BY <1>1, <1>2, <2>1 DEF NInv, InsertedIsFree, Taken
<1>6. NumbersAreUnique' /\ NumbersAreBounded' /\ NumbersAreConsecutive'
      /\ (\A i \in 1..Len(tickets) : tickets[i].n > Seeded)'
  BY <1>1 DEF NInv, NumbersAreUnique, NumbersAreBounded, NumbersAreConsecutive
<1>7. QED BY <1>3, <1>4, <1>5, <1>6 DEF NInv
\* The commit appends one ticket.  If every ticket so far is of one year and
\* so is the new one, its number is the next: a smaller one would be taken.
LEMMA CommitCreationPreserves ==
    ASSUME NInv, NEW r \in Requests, CommitCreation(r)
    PROVE  NInv'
<1> DEFINE new == Numbered(creating[r].year, creating[r].n)
<1>1. /\ creating[r] \in Creation /\ creating[r] # NoRequest
      /\ creating[r].st = "inserted" /\ UNCHANGED <<year, begun>>
      /\ tickets' = Append(tickets, new)
      /\ creating' = [creating EXCEPT ![r] = NoRequest]
  BY DEF CommitCreation, NInv, NTypeOK
<1>2. new \in Number /\ new.n = creating[r].n /\ ~Taken(new)
  BY <1>1 DEF NInv, InsertedIsFree, Numbered, Number, Creation
<1>3. tickets \in Seq(Number) /\ Len(tickets) \in Nat
  BY DEF NInv, NTypeOK
<1>4. /\ tickets' \in Seq(Number) /\ Len(tickets') = Len(tickets) + 1
      /\ \A i \in 1..Len(tickets) : tickets'[i] = tickets[i]
      /\ tickets'[Len(tickets) + 1] = new
  <2> HIDE DEF new
  <2>1. QED BY <1>1, <1>2, <1>3
<1>5. \A i \in 1..Len(tickets') : i \in 1..Len(tickets) \/ i = Len(tickets) + 1
  BY <1>3, <1>4
<1>6. new.n \in (Seeded + 1)..(Seeded + Len(tickets) + 1)
  BY <1>1, <1>2 DEF NInv, CreationsAreBounded, Count
<1>7. /\ creating' \in [Requests -> Creation \cup {NoRequest}]
      /\ creating'[r] = NoRequest
      /\ \A q \in Requests \ {r} : creating'[q] = creating[q]
  BY <1>1 DEF NInv, NTypeOK
<1>8. NTypeOK'
  BY <1>1, <1>4, <1>7 DEF NInv, NTypeOK
<1> HIDE DEF new
<1>9. NumbersAreUnique'
  <2>1. \A i \in 1..Len(tickets) : tickets[i] # new
    BY <1>2 DEF Taken
  <2>2. QED BY <1>4, <1>5, <2>1 DEF NInv, NumbersAreUnique
<1>10. NumbersAreBounded' /\ (\A i \in 1..Len(tickets) : tickets[i].n > Seeded)'
  <2>1. new.n <= Seeded + (Len(tickets) + 1) /\ new.n > Seeded
    BY <1>3, <1>6, SeededIsNat
  <2>2. QED BY <1>4, <1>5, <2>1 DEF NInv, NumbersAreBounded
<1>11. CreationsAreBounded'
  <2>1. Count' = Count + 1 /\ Count \in Nat
    BY <1>3, <1>4, SeededIsNat DEF Count
  <2>2. SUFFICES ASSUME NEW q \in Requests, creating'[q] # NoRequest
                 PROVE  creating'[q].n \in (Seeded + 1)..(Count' + 1)
    BY DEF CreationsAreBounded
  <2>3. creating'[q] = creating[q] /\ creating[q].n \in (Seeded + 1)..(Count + 1)
    BY <1>7, <2>2 DEF NInv, CreationsAreBounded
  <2>4. QED BY <2>1, <2>3, SeededIsNat
<1>12. InsertedIsFree'
  <2>1. SUFFICES ASSUME NEW q \in Requests, NEW p \in Requests,
                        creating'[p] # NoRequest, creating'[p].st = "inserted"
                 PROVE  (LET number == Numbered(creating[p].year, creating[p].n) IN
                         /\ ~Taken(number)
                         /\ creating[q] # NoRequest /\ creating[q].st = "inserted"
                              /\ Numbered(creating[q].year, creating[q].n) = number
                            => q = p)'
    BY DEF InsertedIsFree
  <2>2. p # r /\ creating'[p] = creating[p]
    BY <1>7, <2>1
  <2>3. PICK number : number = Numbered(creating[p].year, creating[p].n)
    OBVIOUS
  <2>4. ~Taken(number) /\ number # new
    BY <1>1, <2>1, <2>2, <2>3 DEF NInv, InsertedIsFree, new
  <2>5. ~Taken(number)'
    BY <1>4, <1>5, <2>4 DEF Taken
  <2>6. creating'[q] # NoRequest /\ creating'[q].st = "inserted"
          /\ Numbered(creating'[q].year, creating'[q].n) = number => q = p
    BY <1>7, <2>1, <2>2, <2>3 DEF NInv, InsertedIsFree
  <2>7. QED BY <2>2, <2>3, <2>5, <2>6 DEF Taken, Numbered
<1>13. NumbersAreConsecutive'
  <2>1. SUFFICES ASSUME NEW i \in 1..Len(tickets'),
                        \A j \in 1..i : tickets'[j].year = tickets'[1].year
                 PROVE  tickets'[i].n = Seeded + i
    BY DEF NumbersAreConsecutive
  <2>2. CASE i \in 1..Len(tickets)
    <3>1. \A j \in 1..i : j \in 1..Len(tickets) /\ 1 \in 1..Len(tickets)
      BY <1>3, <2>2
    <3>2. \A j \in 1..i : tickets[j].year = tickets[1].year
      BY <1>4, <2>1, <3>1
    <3>3. tickets[i].n = Seeded + i
      BY <2>2, <3>2 DEF NInv, NumbersAreConsecutive
    <3>4. QED BY <1>4, <2>2, <3>3
  <2>3. CASE i = Len(tickets) + 1
    <3>1. ASSUME NEW k \in 1..Len(tickets)
          PROVE  tickets[k].n = Seeded + k /\ tickets[k].year = new.year
      <4>1. \A j \in 1..k : /\ j \in 1..Len(tickets) /\ 1 \in 1..Len(tickets)
                            /\ j \in 1..i /\ k \in 1..i /\ i \in 1..i
        BY <1>3, <2>3
      <4>2. \A j \in 1..k : tickets[j].year = tickets[1].year
        BY <1>4, <2>1, <4>1
      <4>3. tickets[k].n = Seeded + k
        BY <4>2 DEF NInv, NumbersAreConsecutive
      <4>4. k \in 1..k
        BY <1>3
      <4>5. tickets'[k].year = tickets'[1].year /\ tickets'[i].year = tickets'[1].year
        BY <2>1, <4>1, <4>4
      <4>6. QED BY <1>4, <2>3, <4>3, <4>5
    <3>2. ASSUME new.n # Seeded + i PROVE FALSE
      <4>1. PICK k \in 1..Len(tickets) : new.n = Seeded + k
        <5>1. new.n - Seeded \in 1..Len(tickets)
          BY <1>3, <1>6, <2>3, <3>2, SeededIsNat
        <5>2. new.n = Seeded + (new.n - Seeded)
          BY <1>3, <1>6, SeededIsNat
        <5>3. QED BY <5>1, <5>2
      <4>2. tickets[k].n = new.n /\ tickets[k].year = new.year
        BY <3>1, <4>1
      <4>3. tickets[k] \in Number /\ new \in Number
        BY <1>2, <1>3
      <4>4. tickets[k] = new
        BY <4>2, <4>3 DEF Number
      <4>5. QED BY <1>2, <4>4 DEF Taken
    <3>3. QED BY <1>4, <2>3, <3>2
  <2>4. QED BY <1>5, <2>2, <2>3
<1>14. QED BY <1>8, <1>9, <1>10, <1>11, <1>12, <1>13 DEF NInv

LEMMA NextNInv == NInv /\ [NNext]_nvars => NInv'
<1> SUFFICES ASSUME NInv, [NNext]_nvars PROVE NInv'
  OBVIOUS
<1>1. ASSUME NEW r \in Requests, NumberTaken(r) \/ RollbackCreation(r) PROVE NInv'
  BY <1>1, EndPreserves DEF NumberTaken, RollbackCreation, NInv, NTypeOK
<1>2. CASE NewYear \/ UNCHANGED nvars
  BY <1>2, YearsAreBounded, EndPreserves DEF NewYear, nvars, NInv, NTypeOK
<1>3. QED
  BY <1>1, <1>2, CountPreserves, InsertPreserves, CommitCreationPreserves DEF NNext

\* The inductive invariant of ticket numbering holds for any number of
\* concurrent create_ticket requests.
THEOREM NumberingInvariant == NSpec => []NInv
<1>1. QED BY InitNInv, NextNInv, PTL DEF NSpec

\* No two tickets ever share a number.
THEOREM NumbersUnique == NSpec => []NumbersAreUnique
<1>1. NInv => NumbersAreUnique
  BY DEF NInv
<1>2. QED BY <1>1, NumberingInvariant, PTL

\* Tickets created up to the first New Year are numbered without gaps.
THEOREM NumbersConsecutive == NSpec => []NumbersAreConsecutive
<1>1. NInv => NumbersAreConsecutive
  BY DEF NInv
<1>2. QED BY <1>1, NumberingInvariant, PTL

\* A create_ticket request that fails has been overtaken: another ticket was
\* committed after it read the count.
THEOREM FailureMeansOvertaken == NSpec => FailsOnlyWhenOvertaken
<1>1. ASSUME NInv, NEW r \in Requests, NumberTaken(r) PROVE creating[r].n <= Count
  <2>1. PICK y : Taken(Numbered(y, creating[r].n))
    BY <1>1 DEF NumberTaken
  <2>2. PICK i \in 1..Len(tickets) : tickets[i] = Numbered(y, creating[r].n)
    BY <2>1 DEF Taken
  <2>3. tickets[i].n = creating[r].n
    BY <2>2 DEF Numbered
  <2>4. tickets[i].n <= Seeded + i
    BY <1>1 DEF NInv, NumbersAreBounded
  <2>5. tickets[i].n \in Nat /\ Len(tickets) \in Nat
    <3>1. tickets \in Seq(Number)
      BY <1>1 DEF NInv, NTypeOK
    <3>2. tickets[i] \in Number /\ Len(tickets) \in Nat
      BY <3>1
    <3>3. QED BY <3>2 DEF Number
  <2>6. QED BY <2>3, <2>4, <2>5, SeededIsNat DEF Count
<1>2. NInv /\ [NNext]_nvars
        => [\A r \in Requests : NumberTaken(r) => creating[r].n <= Count]_nvars
  BY <1>1
<1>3. QED BY <1>2, NumberingInvariant, PTL DEF NSpec, FailsOnlyWhenOvertaken

-----------------------------------------------------------------------------
(* The life of a ticket                                                    *)

\* What Changes sends for a ticket, column by column.
LEMMA ChangesOfTicket ==
    ASSUME NEW want \in Ticket, ticket \in Ticket, NEW stamped
    PROVE  /\ Changes(ticket, want, stamped) \in Changeset
           /\ \A c \in DOMAIN ticket :
                Changes(ticket, want, stamped)[c] =
                  IF want[c] # ticket[c] \/ c \in stamped THEN want[c] ELSE Keep
<1> DEFINE ch == Changes(ticket, want, stamped)
           columns == {"status", "assigned_to", "resolved_at", "closed_at",
                       "closed_by", "escalated_at", "updated_at"}
<1>1. DOMAIN ticket = columns
  BY DEF Ticket
<1>2. ch = [c \in columns |->
              IF want[c] # ticket[c] \/ c \in stamped THEN want[c] ELSE Keep]
  BY <1>1 DEF Changes
<1>3. ch \in Changeset
  BY <1>2 DEF Changeset, Ticket
<1>4. QED BY <1>1, <1>2, <1>3

\* A handler that loads the ticket and assigns columns preserves the
\* invariant if what it assigns keeps times and statuses together.
LEMMA AssignsPreserves ==
    ASSUME TInv, NEW r \in Requests, NEW op \in Operations, NEW want \in Ticket,
           NEW stamped \in SUBSET {"resolved_at", "closed_at", "escalated_at"},
           NEW writes \in Nat,
           Assigns(r, op, want, stamped, writes),
           want.status = "resolved" /\ want.status # ticket.status
             => want.resolved_at = "set" /\ "resolved_at" \in stamped,
           want.status = "closed" /\ want.status # ticket.status
             => want.closed_at = "set" /\ "closed_at" \in stamped,
           \/ want.resolved_at = ticket.resolved_at
           \/ want.resolved_at = "set"
           \/ want.status = "open" /\ want.status # ticket.status,
           \/ want.closed_at = ticket.closed_at
           \/ want.closed_at = "set"
           \/ want.status = "open" /\ want.status # ticket.status,
           "resolved_at" \in stamped => want.resolved_at = "set",
           "closed_at" \in stamped => want.closed_at = "set",
           op # "admin" => want.assigned_to = ticket.assigned_to,
           IF op = "escalate"
           THEN want.escalated_at = "set" /\ "escalated_at" \in stamped /\ writes = 2
           ELSE want.escalated_at = ticket.escalated_at /\ "escalated_at" \notin stamped
    PROVE  TInv'
<1> DEFINE all == stamped \cup {"updated_at"}
           ch == Changes(ticket, want, all)
           new == [op |-> op, st |-> "loaded", writes |-> writes, changes |-> ch]
<1>1. ticket \in Ticket
  BY DEF TInv, TTypeOK
<1>2. /\ ch \in Changeset
      /\ \A c \in DOMAIN ticket :
           ch[c] = IF want[c] # ticket[c] \/ c \in all THEN want[c] ELSE Keep
  BY <1>1, ChangesOfTicket
<1>3. {"status", "assigned_to", "resolved_at", "closed_at", "escalated_at"}
        \subseteq DOMAIN ticket
  BY <1>1 DEF Ticket
<1>4. /\ ch.status = IF want.status # ticket.status \/ "status" \in all
                     THEN want.status ELSE Keep
      /\ ch.resolved_at = IF want.resolved_at # ticket.resolved_at
                               \/ "resolved_at" \in all
                          THEN want.resolved_at ELSE Keep
      /\ ch.closed_at = IF want.closed_at # ticket.closed_at \/ "closed_at" \in all
                        THEN want.closed_at ELSE Keep
      /\ ch.assigned_to = IF want.assigned_to # ticket.assigned_to
                               \/ "assigned_to" \in all
                          THEN want.assigned_to ELSE Keep
      /\ ch.escalated_at = IF want.escalated_at # ticket.escalated_at
                                \/ "escalated_at" \in all
                           THEN want.escalated_at ELSE Keep
  BY <1>2, <1>3
<1> HIDE DEF ch
<1>5. new \in Request /\ new # NoRequest
  BY <1>2, NoRequestIsNoTicketRequest DEF Request
<1>6. /\ req' = [req EXCEPT ![r] = new]
      /\ UNCHANGED <<ticket, seed, comments>> /\ served' = served + 1
  BY DEF Assigns, ch
<1>7. /\ req' \in [Requests -> Request \cup {NoRequest}] /\ req'[r] = new
      /\ \A q \in Requests \ {r} : req'[q] = req[q]
  BY <1>5, <1>6 DEF TInv, TTypeOK
<1>8. TTypeOK'
  BY <1>6, <1>7 DEF TInv, TTypeOK
<1>9. StampsMatchStatus' /\ EscalationIsTold'
  BY <1>6 DEF TInv, StampsMatchStatus, Stamped, EscalationIsTold
<1>10. /\ ch.status = "resolved" => ch.resolved_at = "set"
       /\ ch.status = "closed" => ch.closed_at = "set"
       /\ ch.resolved_at = "null" \/ ch.closed_at = "null" => ch.status = "open"
       /\ op # "admin" => ch.assigned_to = Keep
       /\ ch.escalated_at = IF op = "escalate" THEN "set" ELSE Keep
       /\ op = "escalate" => writes = 2
  BY <1>1, <1>4 DEF Ticket, TicketStatus, Keep
<1>11. ChangesAreStamped'
  <2>1. SUFFICES ASSUME NEW q \in Requests, req'[q] # NoRequest
                 PROVE  LET c == req'[q].changes IN
      /\ c.status = "resolved" => c.resolved_at = "set"
      /\ c.status = "closed" => c.closed_at = "set"
      /\ c.resolved_at = "null" \/ c.closed_at = "null" => c.status = "open"
      /\ req'[q].op # "admin" => c.assigned_to = Keep
      /\ c.escalated_at = IF req'[q].op = "escalate" THEN "set" ELSE Keep
      /\ req'[q].op = "escalate" => req'[q].writes = 2
    BY DEF ChangesAreStamped
  <2>2. CASE q = r
    BY <1>7, <1>10, <2>2
  <2>3. CASE q # r
    BY <1>7, <2>1, <2>3 DEF TInv, ChangesAreStamped
  <2>4. QED BY <2>2, <2>3
<1>12. QED
  BY <1>8, <1>9, <1>11 DEF TInv

\* A status update of either router, with an assignee that may be the old one.
LEMMA StatusPreserves ==
    ASSUME TInv, NEW r \in Requests, NEW s \in TicketStatus,
           NEW who \in {"Customer", "admin"}, NEW agent \in Agents \cup {"null"},
           NEW op \in {"status", "admin"}, NEW writes \in Nat,
           op = "status" => agent = ticket.assigned_to,
           Assigns(r, op, [WithStatus(ticket, s, who) EXCEPT !.assigned_to = agent],
                   StampOf(s), writes)
    PROVE  TInv'
<1> DEFINE want == [WithStatus(ticket, s, who) EXCEPT !.assigned_to = agent]
<1>1. ticket \in Ticket
  BY DEF TInv, TTypeOK
<1>2. want \in Ticket
  BY <1>1 DEF WithStatus, Ticket
<1>3. StampOf(s) \in SUBSET {"resolved_at", "closed_at", "escalated_at"}
  BY DEF StampOf
<1>4. /\ want.status = s /\ want.assigned_to = agent
      /\ want.escalated_at = ticket.escalated_at
      /\ want.resolved_at = IF s = "resolved" THEN "set" ELSE ticket.resolved_at
      /\ want.closed_at = IF s = "closed" THEN "set" ELSE ticket.closed_at
  BY <1>1 DEF WithStatus, Ticket
<1>5. /\ "resolved_at" \in StampOf(s) <=> s = "resolved"
      /\ "closed_at" \in StampOf(s) <=> s = "closed"
      /\ "escalated_at" \notin StampOf(s)
  BY DEF StampOf
<1> HIDE DEF want
<1>6. op \in Operations
  BY DEF Operations
<1>7. QED
  BY <1>2, <1>3, <1>4, <1>5, <1>6, AssignsPreserves DEF want

LEMMA LoadPreserves ==
    ASSUME TInv, NEW r \in Requests,
           \/ \E s \in TicketStatus : UpdateTicketStatus(r, s)
           \/ \E is_internal \in BOOLEAN : AddTicketComment(r, is_internal)
           \/ EscalateTicket(r) \/ ReopenTicket(r) \/ AdminUpdate(r) \/ AdminComment(r)
    PROVE  TInv'
<1>1. ticket \in Ticket /\ ticket.assigned_to \in Agents \cup {"null"}
  BY DEF TInv, TTypeOK, Ticket
<1>2. CASE \E s \in TicketStatus : UpdateTicketStatus(r, s)
  <2>1. PICK s \in TicketStatus : UpdateTicketStatus(r, s)
    BY <1>2
  <2>2. [WithStatus(ticket, s, "Customer") EXCEPT !.assigned_to = ticket.assigned_to]
          = WithStatus(ticket, s, "Customer")
    BY <1>1 DEF WithStatus, Ticket
  <2>3. QED BY <1>1, <2>1, <2>2, StatusPreserves DEF UpdateTicketStatus
<1>3. CASE \E is_internal \in BOOLEAN : AddTicketComment(r, is_internal)
  <2>1. PICK want : /\ want \in {ticket, [ticket EXCEPT !.status = "in_progress"]}
                    /\ Assigns(r, "comment", want, {}, 1)
    BY <1>3 DEF AddTicketComment
  <2>2. /\ want \in Ticket /\ want.status \in {ticket.status, "in_progress"}
        /\ want.resolved_at = ticket.resolved_at /\ want.closed_at = ticket.closed_at
        /\ want.assigned_to = ticket.assigned_to
        /\ want.escalated_at = ticket.escalated_at
    BY <1>1, <2>1 DEF Ticket, TicketStatus
  <2>3. QED BY <2>1, <2>2, AssignsPreserves DEF Operations
<1>4. CASE EscalateTicket(r)
  <2> DEFINE want == [ticket EXCEPT !.status = "escalated", !.escalated_at = "set"]
  <2>1. /\ want \in Ticket /\ want.status = "escalated"
        /\ want.resolved_at = ticket.resolved_at /\ want.closed_at = ticket.closed_at
        /\ want.assigned_to = ticket.assigned_to /\ want.escalated_at = "set"
    BY <1>1 DEF Ticket, TicketStatus
  <2>2. Assigns(r, "escalate", want, {"escalated_at"}, 2)
    BY <1>4 DEF EscalateTicket
  <2> HIDE DEF want
  <2>3. QED BY <2>1, <2>2, AssignsPreserves DEF Operations
<1>5. CASE ReopenTicket(r)
  <2> DEFINE want == [ticket EXCEPT !.status = "open", !.resolved_at = "null",
                                    !.closed_at = "null", !.closed_by = "null"]
  <2>1. /\ want \in Ticket /\ want.status = "open"
        /\ want.assigned_to = ticket.assigned_to
        /\ want.escalated_at = ticket.escalated_at
    BY <1>1 DEF Ticket, TicketStatus
  <2>2. Assigns(r, "reopen", want, {}, 1) /\ ticket.status # "open"
    BY <1>5 DEF ReopenTicket
  <2> HIDE DEF want
  <2>3. QED BY <2>1, <2>2, AssignsPreserves DEF Operations
<1>6. CASE AdminUpdate(r)
  <2>1. PICK agent \in Agents \cup {"null"}, writes \in {0, 1} :
          UpdateTicket(r, agent, writes)
    BY <1>1, <1>6 DEF AdminUpdate
  <2>2. CASE Assigns(r, "admin", [ticket EXCEPT !.assigned_to = agent], {}, writes)
    <3> DEFINE want == [ticket EXCEPT !.assigned_to = agent]
    <3>1. /\ want \in Ticket /\ want.status = ticket.status
          /\ want.resolved_at = ticket.resolved_at
          /\ want.closed_at = ticket.closed_at
          /\ want.escalated_at = ticket.escalated_at
      BY <1>1, <2>1 DEF Ticket
    <3> HIDE DEF want
    <3>2. QED BY <2>2, <3>1, AssignsPreserves DEF Operations, want
  <2>3. CASE \E s \in TicketStatus :
               Assigns(r, "admin", [WithStatus(ticket, s, "admin") EXCEPT
                                      !.assigned_to = agent], StampOf(s), writes)
    BY <2>3, StatusPreserves
  <2>4. QED BY <2>1, <2>2, <2>3 DEF UpdateTicket
<1>7. CASE AdminComment(r)
  BY <1>1, <1>7, AssignsPreserves DEF AdminComment, Operations
<1>8. QED BY <1>2, <1>3, <1>4, <1>5, <1>6, <1>7

\* The end of a request: its columns are written and its comments appear, or
\* neither does.
LEMMA CommitPreserves ==
    ASSUME TInv, NEW r \in Requests, CommitTicket(r)
    PROVE  TInv'
<1> DEFINE c == req[r].changes
<1>1. /\ req[r] \in Request /\ req[r] # NoRequest /\ ticket \in Ticket
      /\ ticket' = Updated(ticket, c) /\ UNCHANGED <<seed, served>>
      /\ comments' = [comments EXCEPT ![req[r].op] = @ + req[r].writes]
      /\ req' = [req EXCEPT ![r] = NoRequest]
  BY DEF CommitTicket, Flushed, TInv, TTypeOK
<1>2. c \in Changeset /\ req[r].op \in Operations /\ req[r].writes \in Nat
  BY <1>1 DEF Request
<1> HIDE DEF c
<1>3. ticket' \in Ticket
  BY <1>1, <1>2, AgentsAreNames DEF Updated, Ticket, Changeset, TicketStatus, Keep
<1>4. /\ ticket'.status = IF c.status = Keep THEN ticket.status ELSE c.status
      /\ ticket'.resolved_at =
           IF c.resolved_at = Keep THEN ticket.resolved_at ELSE c.resolved_at
      /\ ticket'.closed_at =
           IF c.closed_at = Keep THEN ticket.closed_at ELSE c.closed_at
      /\ ticket'.escalated_at =
           IF c.escalated_at = Keep THEN ticket.escalated_at ELSE c.escalated_at
  BY <1>1 DEF Updated, Ticket
<1>5. /\ req' \in [Requests -> Request \cup {NoRequest}] /\ req'[r] = NoRequest
      /\ \A q \in Requests \ {r} : req'[q] = req[q]
  BY <1>1 DEF TInv, TTypeOK
<1>6. TTypeOK'
  BY <1>1, <1>2, <1>3, <1>5 DEF TInv, TTypeOK
<1>7. /\ c.status = "resolved" => c.resolved_at = "set"
      /\ c.status = "closed" => c.closed_at = "set"
      /\ c.resolved_at = "null" \/ c.closed_at = "null" => c.status = "open"
      /\ c.escalated_at = IF req[r].op = "escalate" THEN "set" ELSE Keep
      /\ req[r].op = "escalate" => req[r].writes = 2
  BY <1>1 DEF TInv, ChangesAreStamped, c
<1>8. StampsMatchStatus'
  BY <1>2, <1>3, <1>4, <1>7
     DEF TInv, StampsMatchStatus, Stamped, Ticket, Changeset, Keep
<1>9. ChangesAreStamped'
  BY <1>5 DEF TInv, ChangesAreStamped
<1>10. EscalationIsTold'
  <2>1. comments["escalate"] \in Nat /\ comments \in [Operations -> Nat]
    BY DEF TInv, TTypeOK, Operations
  <2>2. CASE req[r].op = "escalate"
    <3>1. comments'["escalate"] = comments["escalate"] + 2
      BY <1>1, <1>2, <1>7, <2>1, <2>2
    <3>2. ticket'.escalated_at = "set"
      BY <1>4, <1>7, <2>2 DEF Keep
    <3>3. QED BY <2>1, <3>1, <3>2 DEF EscalationIsTold
  <2>3. CASE req[r].op # "escalate"
    <3>1. comments'["escalate"] = comments["escalate"]
      BY <1>1, <1>2, <2>1, <2>3
    <3>2. ticket'.escalated_at = ticket.escalated_at
      BY <1>4, <1>7, <2>3
    <3>3. QED BY <1>1, <3>1, <3>2 DEF TInv, EscalationIsTold
  <2>4. QED BY <2>2, <2>3
<1>11. QED BY <1>6, <1>8, <1>9, <1>10 DEF TInv

LEMMA NextTInv == TInv /\ [TNext]_tvars => TInv'
<1> SUFFICES ASSUME TInv, [TNext]_tvars PROVE TInv'
  OBVIOUS
<1>1. ASSUME NEW r \in Requests, FlushTicket(r) PROVE TInv'
  <2>1. /\ req' = [req EXCEPT ![r] = [req[r] EXCEPT !.st = "flushed"]]
        /\ req[r] \in Request /\ req[r] # NoRequest
        /\ UNCHANGED <<ticket, seed, comments, served>>
    BY <1>1 DEF FlushTicket, TInv, TTypeOK
  <2>2. /\ req'[r] = [req[r] EXCEPT !.st = "flushed"] /\ req'[r] \in Request
        /\ \A q \in Requests \ {r} : req'[q] = req[q]
        /\ req' \in [Requests -> Request \cup {NoRequest}]
    <3>1. req \in [Requests -> Request \cup {NoRequest}]
      BY <1>1 DEF TInv, TTypeOK
    <3>2. [req[r] EXCEPT !.st = "flushed"] \in Request
      <4>1. ASSUME NEW old \in Request
            PROVE  [old EXCEPT !.st = "flushed"] \in Request
        BY DEF Request
      <4>2. QED BY <2>1, <4>1
    <3>3. QED BY <2>1, <3>1, <3>2
  <2>3. /\ req'[r].changes = req[r].changes /\ req'[r].op = req[r].op
        /\ req'[r].writes = req[r].writes
    <3>1. ASSUME NEW old \in Request, NEW new, new = [old EXCEPT !.st = "flushed"]
          PROVE  /\ new.changes = old.changes /\ new.op = old.op
                 /\ new.writes = old.writes
      BY <3>1 DEF Request
    <3>2. QED BY <2>1, <2>2, <3>1
  <2>4. ChangesAreStamped'
    BY <2>1, <2>2, <2>3 DEF TInv, ChangesAreStamped
  <2>5. TTypeOK' /\ StampsMatchStatus' /\ EscalationIsTold'
    BY <2>1, <2>2 DEF TInv, TTypeOK, StampsMatchStatus, Stamped, EscalationIsTold
  <2>6. QED BY <2>4, <2>5 DEF TInv
<1>2. ASSUME NEW r \in Requests, RollbackTicket(r) PROVE TInv'
  <2>1. /\ req' = [req EXCEPT ![r] = NoRequest]
        /\ UNCHANGED <<ticket, seed, comments, served>>
    BY <1>2 DEF RollbackTicket
  <2>2. /\ \A q \in Requests : req'[q] \in {req[q], NoRequest}
        /\ req' \in [Requests -> Request \cup {NoRequest}]
    BY <2>1 DEF TInv, TTypeOK
  <2>3. TTypeOK' /\ StampsMatchStatus' /\ EscalationIsTold'
    BY <2>1, <2>2 DEF TInv, TTypeOK, StampsMatchStatus, Stamped, EscalationIsTold
  <2>4. ChangesAreStamped'
    BY <2>2 DEF TInv, ChangesAreStamped
  <2>5. QED BY <2>3, <2>4 DEF TInv
<1>3. CASE UNCHANGED tvars
  BY <1>3 DEF tvars, TInv, TTypeOK, StampsMatchStatus, Stamped, EscalationIsTold,
              ChangesAreStamped
<1>4. QED
  BY <1>1, <1>2, <1>3, LoadPreserves, CommitPreserves DEF TNext, CustomerTicketRoutes

\* The inductive invariant of a ticket, for any number of concurrent requests.
THEOREM TicketInvariant == TSpec => []TInv
<1>1. TInit => TInv
  BY SeedsAreTickets
     DEF TInit, TInv, TTypeOK, StampsMatchStatus, ChangesAreStamped,
         EscalationIsTold, Ticket, Operations
<1>2. QED BY <1>1, NextTInv, PTL DEF TSpec

\* A resolved or closed ticket always has the time of it.
THEOREM StampsAlwaysMatch == TSpec => []StampsMatchStatus
<1>1. TInv => StampsMatchStatus
  BY DEF TInv
<1>2. QED BY <1>1, TicketInvariant, PTL

\* A ticket has an escalation time exactly when its conversation holds the
\* escalation.
THEOREM EscalationAlwaysTold == TSpec => []EscalationIsTold
<1>1. TInv => EscalationIsTold
  BY DEF TInv
<1>2. QED BY <1>1, TicketInvariant, PTL

\* An assignment changes only when an administrator's update is committed.
THEOREM AssignmentsAreKept == TSpec => AssignmentIsKept
<1>1. ASSUME TInv, [TNext]_tvars, ticket'.assigned_to # ticket.assigned_to
      PROVE  \E r \in Requests : CommitTicket(r) /\ req[r].op = "admin"
  <2>1. PICK r \in Requests : CommitTicket(r)
    BY <1>1 DEF TNext, tvars, CustomerTicketRoutes, UpdateTicketStatus, AddTicketComment, EscalateTicket,
                ReopenTicket, AdminUpdate, UpdateTicket, AdminComment, Assigns,
                FlushTicket, RollbackTicket
  <2>2. /\ req[r] # NoRequest /\ ticket' = Updated(ticket, req[r].changes)
        /\ ticket \in Ticket
    BY <1>1, <2>1 DEF CommitTicket, Flushed, TInv, TTypeOK
  <2>3. req[r].changes.assigned_to = Keep => ticket'.assigned_to = ticket.assigned_to
    BY <2>2 DEF Updated, Ticket
  <2>4. req[r].op = "admin"
    BY <1>1, <2>2, <2>3 DEF TInv, ChangesAreStamped
  <2>5. QED BY <2>1, <2>4
<1>2. TInv /\ [TNext]_tvars =>
        [ticket'.assigned_to # ticket.assigned_to =>
           \E r \in Requests : CommitTicket(r) /\ req[r].op = "admin"]_tvars
  BY <1>1
<1>3. QED BY <1>2, TicketInvariant, PTL DEF TSpec, AssignmentIsKept
=============================================================================
