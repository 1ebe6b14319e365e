------------------------------ MODULE MCRecords ------------------------------
(***************************************************************************)
(* TicketNumbers, TicketLifecycle, ShipmentTracker and Accounts for TLC.   *)
(* No row of one is written by a request of another, so a behaviour takes  *)
(* the steps of one of them, chosen at the beginning, and the others rest  *)
(* in one of their initial states.                                         *)
(***************************************************************************)
EXTENDS TicketNumbers, TicketLifecycle, ShipmentTracker, Accounts, FiniteSets, TLC

VARIABLES
    part,    \* the module that takes steps
    serving  \* the request objects in use: one alone is served in turn

rvars == <<nvars, tvars, svars, avars, part, serving>>

\* Any of the seeded shipments, with any courier, or none.
AnyShipment == {SeededShipments[c] : c \in DOMAIN SeededShipments} \cup {NoShipment}

Widths == [numbers |-> {3}, ticket |-> {2}, shipment |-> {1, 2}, accounts |-> {2}]

RInit ==
    /\ part \in DOMAIN Widths
    /\ serving \in {s \in SUBSET Requests : Cardinality(s) \in Widths[part]}
    /\ NInit /\ TInit /\ ShInit /\ AInit
    /\ part # "ticket" => ticket = NewTicket
    /\ part # "shipment" => shipment = NoShipment /\ courier = "ups"

InProgress ==
    {r \in Requests : \/ creating[r] # NoRequest \/ req[r] # NoRequest
                      \/ reading[r] # NoRequest \/ call[r] # NoRequest}

RNext ==
    /\ UNCHANGED <<part, serving>>
    /\ \/ part = "numbers" /\ NNext /\ UNCHANGED <<tvars, svars, avars>>
       \/ part = "ticket" /\ TNext /\ UNCHANGED <<nvars, svars, avars>>
       \/ part = "shipment" /\ ShNext /\ UNCHANGED <<nvars, tvars, avars>>
       \/ part = "accounts" /\ ANext /\ UNCHANGED <<nvars, tvars, svars>>
    /\ InProgress' \subseteq serving

RSpec == RInit /\ [][RNext]_rvars

RequestSymmetry == Permutations(Requests)

ServedInTurn == \A q, r \in serving : q = r

\* With one request at a time, the courier
\* (CourierTracker._simulate_progress) never goes back or repeats itself,
\* unless an administrator has come between.
CourierWhenInTurn == ServedInTurn => CourierGoesForward

\* What makes it inductive, beside ShInv.  The seeded event and a label's come
\* first, and the courier's are what its pattern says of their time;
EventsAreStages ==
    \A i \in 1..Len(timeline) :
      LET e == timeline[i] IN
      /\ e.by \in {"seed", "label"} => i = 1
      /\ e.by = "courier" =>
           e.at <= minute /\ e.status = Stage(courier, e.at - since)

\* the last event has the status of the shipment;
LastIsShown == timeline # <<>> => timeline[Len(timeline)].status = shipment.status

\* and a request that is alone still finds the status it has loaded, which the
\* courier only advances, and no event later than its own.
ReadingIsPresent(reads) ==
    LET e == reads.event[1] IN
    reads.event # <<>> =>
      /\ reads.creates => e.by = "label"
      /\ ~reads.creates =>
           /\ e.by \in {"courier", "admin"}
           /\ reads.changes.status = Keep => e.status = shipment.status
      /\ e.by = "courier" =>
           /\ e.status # shipment.status /\ e.status = Stage(courier, e.at - since)
           /\ e.at <= minute
           /\ \A i \in 1..Len(timeline) : timeline[i].by = "courier" => timeline[i].at <= e.at

Tracking == {r \in Requests : reading[r] # NoRequest}

InTurn ==
    /\ EventsAreStages /\ LastIsShown /\ CourierGoesForward
    /\ \A r \in Tracking : ReadingIsPresent(reading[r])

\* The inductive invariant of requests on a shipment that are served in turn.
CourierInv == Tracking \subseteq serving /\ (ServedInTurn => InTurn)
=============================================================================
