---------------------------- MODULE TicketNumbers ----------------------------
(***************************************************************************)
(* How support tickets get their numbers: create_ticket of                 *)
(* backend/customer/service.py counts the tickets of all customers and     *)
(* calls the new one TKT-<year>-<count + 1>.  The count is read in one     *)
(* statement and used in a later one, so requests may read the same count; *)
(* ticket_number is unique, and no ticket is ever deleted.                 *)
(*                                                                         *)
(* The ticket and its welcome comment are inserted in one transaction: the *)
(* ticket stands for both.                                                 *)
(***************************************************************************)
EXTENDS Naturals, Sequences, UnitOfWork

CONSTANTS
    Seeded,        \* number of tickets of seed.py (named in another format)
    MaxYear,       \* bound: the last year
    MaxCreations   \* bound: requests begun

ASSUME SeededIsNat == Seeded \in Nat
ASSUME YearsAreBounded == MaxYear \in Nat /\ MaxCreations \in Nat

\* A request that has read the count (its year is then that of the reading)
\* or has inserted its ticket, not committed yet.
Creation == [st : {"counted", "inserted"}, year : 0..MaxYear, n : Nat]

ASSUME NoRequestIsNoCreation == NoRequest \notin Creation

VARIABLES
    tickets,       \* numbers of the created tickets, in the order of commits
    creating,      \* creating[r]: what request r is doing
    year,
    begun          \* requests begun so far

nvars == <<tickets, creating, year, begun>>

Number == [year : 0..MaxYear, n : Nat]

NTypeOK ==
    /\ tickets \in Seq(Number)
    /\ creating \in [Requests -> Creation \cup {NoRequest}]
    /\ year \in 0..MaxYear /\ begun \in Nat

NInit ==
    /\ tickets = <<>>
    /\ creating = [r \in Requests |-> NoRequest]
    /\ year = 0 /\ begun = 0

-----------------------------------------------------------------------------
\* SELECT count(id): what is committed, of whatever year
Count == Seeded + Len(tickets)

Numbered(y, n) == [year |-> y, n |-> n]

Taken(number) == \E i \in 1..Len(tickets) : tickets[i] = number

InFlight(number) ==
    \E q \in Requests : /\ creating[q] # NoRequest
                        /\ creating[q].st = "inserted"
                        /\ Numbered(creating[q].year, creating[q].n) = number

Counts(r) == creating[r] # NoRequest /\ creating[r].st = "counted"

CountUncommitted(r) ==        \* mutant: tickets in flight are counted too
    /\ creating[r] = NoRequest /\ begun < MaxCreations
    /\ begun' = begun + 1
    /\ creating' = [creating EXCEPT ![r] =
         [st |-> "counted", year |-> year,
          n |-> Count + (IF \E n \in 0..(Count + 1) : InFlight(Numbered(year, n))
                         THEN 2 ELSE 1)]]
    /\ UNCHANGED <<tickets, year>>

CountTickets(r) ==
    /\ creating[r] = NoRequest /\ begun < MaxCreations
    /\ begun' = begun + 1
    /\ creating' = [creating EXCEPT ![r] =
         [st |-> "counted", year |-> year, n |-> Count + 1]]
    /\ UNCHANGED <<tickets, year>>

\* The year is read after the count and before the INSERT.  The INSERT waits
\* while another request's ticket of that number is uncommitted.
InsertUnchecked(r, y) ==      \* mutant: ticket_number is not unique
    /\ Counts(r)
    /\ y \in {creating[r].year, year}
    /\ creating' = [creating EXCEPT ![r].st = "inserted", ![r].year = y]
    /\ UNCHANGED <<tickets, year, begun>>

InsertTicket(r, y) ==
    LET number == Numbered(y, creating[r].n) IN
    /\ Counts(r)
    /\ y \in {creating[r].year, year}
    /\ ~Taken(number) /\ ~InFlight(number)
    /\ creating' = [creating EXCEPT ![r].st = "inserted", ![r].year = y]
    /\ UNCHANGED <<tickets, year, begun>>

\* IntegrityError: the request is rolled back and answered with an error.
NumberTaken(r) ==
    /\ Counts(r)
    /\ \E y \in {creating[r].year, year} : Taken(Numbered(y, creating[r].n))
    /\ creating' = [creating EXCEPT ![r] = NoRequest]
    /\ UNCHANGED <<tickets, year, begun>>

CommitCreation(r) ==
    /\ creating[r] # NoRequest /\ creating[r].st = "inserted"
    /\ tickets' = Append(tickets, Numbered(creating[r].year, creating[r].n))
    /\ creating' = [creating EXCEPT ![r] = NoRequest]
    /\ UNCHANGED <<year, begun>>

RollbackCreation(r) ==
    /\ creating[r] # NoRequest
    /\ creating' = [creating EXCEPT ![r] = NoRequest]
    /\ UNCHANGED <<tickets, year, begun>>

NewYear ==
    /\ year < MaxYear
    /\ year' = year + 1
    /\ UNCHANGED <<tickets, creating, begun>>

NNext ==
    \/ \E r \in Requests :
         \/ CountTickets(r) \/ NumberTaken(r) \/ CommitCreation(r) \/ RollbackCreation(r)
         \/ \E y \in 0..MaxYear : InsertTicket(r, y)
    \/ NewYear

NSpec == NInit /\ [][NNext]_nvars

-----------------------------------------------------------------------------
\* Two tickets never share a number.
NumbersAreUnique ==
    \A i, j \in 1..Len(tickets) : tickets[i] = tickets[j] => i = j

\* The number of a ticket is never beyond the count of tickets at its commit;
\* so a request that read the count after the last commit finds its number
\* free, and only a race makes create_ticket fail.
NumbersAreBounded ==
    \A i \in 1..Len(tickets) : tickets[i].n <= Seeded + i

\* Requests that have read the count hold a number at most one beyond it.
CreationsAreBounded ==
    \A r \in Requests : creating[r] # NoRequest =>
      creating[r].n \in (Seeded + 1)..(Count + 1)

\* A ticket inserted and not yet committed has a number that no other ticket
\* has, committed or not.
InsertedIsFree ==
    \A q, r \in Requests :
      creating[r] # NoRequest /\ creating[r].st = "inserted" =>
        LET number == Numbered(creating[r].year, creating[r].n) IN
        /\ ~Taken(number)
        /\ creating[q] # NoRequest /\ creating[q].st = "inserted"
             /\ Numbered(creating[q].year, creating[q].n) = number => q = r

\* Tickets created up to the first New Year are numbered one after the other,
\* without gaps, whichever requests raced, failed or were rolled back.
NumbersAreConsecutive ==
    \A i \in 1..Len(tickets) :
      (\A j \in 1..i : tickets[j].year = tickets[1].year) =>
        tickets[i].n = Seeded + i

\* The inductive invariant of the numbering.
NInv ==
    /\ NTypeOK
    /\ NumbersAreUnique
    /\ NumbersAreBounded
    /\ CreationsAreBounded
    /\ InsertedIsFree
    /\ \A i \in 1..Len(tickets) : tickets[i].n > Seeded
    /\ NumbersAreConsecutive

\* create_ticket fails only when another ticket has been committed since it
\* read the count: trying again succeeds unless it is overtaken again.
FailsOnlyWhenOvertaken ==
    [][\A r \in Requests : NumberTaken(r) => creating[r].n <= Count]_nvars
=============================================================================
