--------------------------- MODULE ShipmentTracker ---------------------------
(***************************************************************************)
(* One shipment and its timeline (shipment_events).  Two things change     *)
(* them: reading, because CourierTracker (backend/customer/tracker.py)     *)
(* advances a shipment to where its age says it should be when a customer  *)
(* tracks it, and the administrator (backend/admin/router.py), who may set *)
(* any status.                                                             *)
(*                                                                         *)
(* As in OrderLifecycle every request is one transaction (UnitOfWork): it  *)
(* loads the row and assigns columns, flushes its UPDATE and its event,    *)
(* and is committed or rolled back by get_db, a reading one too.           *)
(***************************************************************************)
EXTENDS Naturals, Sequences, UnitOfWork

CONSTANTS
    Consignments,  \* the shipments there are to begin with, or NoShipment
    NoShipment,    \* there is none of this tracking number yet
    AdminStatuses, \* statuses an administrator asks for
    Moments,       \* the minutes at which something happens
    MaxReadings    \* bound: requests begun

ShipmentStatus ==
    {"pre_transit", "in_transit", "out_for_delivery", "delivered", "exception",
     "returned", "available_for_pickup"}

\* TRACKING_STATUS_PATTERNS: from which minute on a courier has a parcel in
\* transit, out for delivery and delivered.  (The stages of in_transit differ
\* in their text.)  From Horizon on no pattern matches.
Patterns ==
    [ups   |-> [in_transit |-> 30, out_for_delivery |-> 2000, delivered |-> 3000],
     usps  |-> [in_transit |-> 60, out_for_delivery |-> 1500, delivered |-> 2500],
     dhl   |-> [in_transit |-> 60, out_for_delivery |-> 2000, delivered |-> 3000],
     fedex |-> [in_transit |-> 45, out_for_delivery |-> 1800, delivered |-> 2800]]

Couriers == DOMAIN Patterns
Horizon == 99999

StageReversed(courier, age) ==     \* mutant: the last pattern that matches
    LET p == Patterns[courier] IN
    CASE age < p.in_transit -> "delivered"
      [] age >= p.in_transit /\ age < p.out_for_delivery -> "out_for_delivery"
      [] age >= p.out_for_delivery /\ age < p.delivered -> "in_transit"
      [] OTHER -> "pre_transit"

\* The status of the first pattern that matches.
Stage(courier, age) ==
    LET p == Patterns[courier] IN
    CASE age < p.in_transit -> "pre_transit"
      [] age >= p.in_transit /\ age < p.out_for_delivery -> "in_transit"
      [] age >= p.out_for_delivery /\ age < p.delivered -> "out_for_delivery"
      [] OTHER -> "delivered"

\* The columns of shipments that change; of a timestamp, only whether it is
\* NULL.  Locations are left out.
Shipment == [status : ShipmentStatus, delivered_at : {"null", "set"},
             updated_at : {"set"}]

ShipmentChange ==
    [status : ShipmentStatus \cup {Keep}, delivered_at : {"null", "set", Keep},
     updated_at : {"set", Keep}]

\* The shipments of seed_customer_data, each by its courier.
SeededShipments ==
    [ups |-> [status |-> "delivered", delivered_at |-> "set", updated_at |-> "set"],
     usps |-> [status |-> "in_transit", delivered_at |-> "null", updated_at |-> "set"],
     dhl |-> [status |-> "pre_transit", delivered_at |-> "null", updated_at |-> "set"]]

\* A row of shipment_events, with the handler that wrote it.
Writers == {"seed", "label", "courier", "admin"}
Event == [status : ShipmentStatus, by : Writers, at : Moments]

\* A request between its SELECT and its end.  `event' is what it adds to the
\* timeline: nothing, or one event.
Reading == [st : {"loaded", "flushed"}, creates : BOOLEAN,
            changes : ShipmentChange, event : {<<>>} \cup (Seq(Event) \ {<<>>})]

ASSUME MomentsAreMinutes == Moments \subseteq Nat /\ 0 \in Moments
ASSUME NoShipmentIsNone == NoShipment \notin Shipment
ASSUME NoRequestIsNoReading == NoRequest \notin Reading
ASSUME ConsignmentsAreShipments ==
    Consignments \subseteq {s \in Shipment : s.delivered_at = "set" <=> s.status = "delivered"}
                    \cup {NoShipment}
ASSUME AdminStatusesAreStatuses == AdminStatuses \subseteq ShipmentStatus
ASSUME ReadingsAreBounded == MaxReadings \in Nat

VARIABLES
    shipment,      \* the committed row
    courier,       \* its courier_code
    since,         \* shipped_at, or created_at when there is none
    timeline,      \* committed events, in the order of their commits
    reading,       \* reading[r]: what request r is doing
    minute, read   \* the time; requests begun so far

svars == <<shipment, courier, since, timeline, reading, minute, read>>

ShTypeOK ==
    /\ shipment \in Shipment \cup {NoShipment}
    /\ courier \in Couriers
    /\ since \in Moments /\ minute \in Moments
    /\ timeline \in Seq(Event)
    /\ reading \in [Requests -> Reading \cup {NoRequest}]
    /\ read \in Nat

\* seed_customer_data inserts a shipment whose last event has its status.
ShInit ==
    /\ shipment \in Consignments
    /\ courier \in Couriers
    /\ since = 0 /\ minute = 0
    /\ timeline = IF shipment = NoShipment THEN <<>>
                  ELSE <<[status |-> shipment.status, by |-> "seed", at |-> 0]>>
    /\ reading = [r \in Requests |-> NoRequest]
    /\ read = 0

-----------------------------------------------------------------------------
Begins(r, creates, changes, event) ==
    /\ reading[r] = NoRequest /\ read < MaxReadings
    /\ read' = read + 1
    /\ reading' = [reading EXCEPT ![r] =
                     [st |-> "loaded", creates |-> creates, changes |-> changes,
                      event |-> event]]
    /\ UNCHANGED <<shipment, courier, since, timeline, minute>>

EventOf(s, who) == <<[status |-> s, by |-> who, at |-> minute]>>

\* create_shipment of the admin router; of its row nothing is loaded.
Label(s) == [status |-> s, delivered_at |-> "null", updated_at |-> "set"]

CreateShipment(r, s) ==
    Begins(r, TRUE, Label(s), EventOf(s, "label"))

\* track and refresh_shipment: a reading that advances the shipment.  Any
\* other reading changes nothing and is not a step.
AdvancesAgain(r) ==            \* mutant: no check of a delivered shipment, or
    LET s == Stage(courier, minute - since) IN      \* of the same status
    /\ shipment # NoShipment
    /\ minute - since < Horizon
    /\ Begins(r, FALSE,
              Changes(shipment, [shipment EXCEPT !.status = s], {"updated_at"}),
              EventOf(s, "courier"))

Track(r) ==
    LET s == Stage(courier, minute - since) IN
    /\ shipment # NoShipment
    /\ shipment.status # "delivered"
    /\ minute - since < Horizon
    /\ s # shipment.status
    /\ Begins(r, FALSE,
              Changes(shipment,
                      [shipment EXCEPT !.status = s,
                         !.delivered_at = IF s = "delivered" THEN "set" ELSE @],
                      {"updated_at"} \cup (IF s = "delivered" THEN {"delivered_at"} ELSE {})),
              EventOf(s, "courier"))

\* update_shipment of the admin router, with a status or without.
UpdateShipment(r, s) ==
    /\ shipment # NoShipment
    /\ Begins(r, FALSE, Changes(shipment, [shipment EXCEPT !.status = s],
                                {"updated_at"}), EventOf(s, "admin"))

UpdateDetails(r) ==
    /\ shipment # NoShipment
    /\ Begins(r, FALSE, Changes(shipment, shipment, {"updated_at"}), <<>>)

-----------------------------------------------------------------------------
InTransaction(r) == reading[r] # NoRequest /\ reading[r].st = "flushed"

\* The UPDATE waits for another request's; so does the INSERT of a shipment
\* with the same tracking number.
FlushShipment(r) ==
    /\ reading[r] # NoRequest /\ reading[r].st = "loaded"
    /\ \A q \in Requests : ~InTransaction(q)
    /\ reading[r].creates => shipment = NoShipment
    /\ reading' = [reading EXCEPT ![r].st = "flushed"]
    /\ UNCHANGED <<shipment, courier, since, timeline, minute, read>>

\* tracking_number is unique: IntegrityError, rolled back.
TrackingNumberTaken(r) ==
    /\ reading[r] # NoRequest /\ reading[r].st = "loaded"
    /\ reading[r].creates /\ shipment # NoShipment
    /\ reading' = [reading EXCEPT ![r] = NoRequest]
    /\ UNCHANGED <<shipment, courier, since, timeline, minute, read>>

\* A created shipment has no shipped_at: its age counts from created_at, the
\* time of its first event.
CommitShipment(r) ==
    /\ InTransaction(r)
    /\ shipment' = IF reading[r].creates THEN reading[r].changes
                   ELSE Updated(shipment, reading[r].changes)
    /\ since' = IF reading[r].creates THEN reading[r].event[1].at ELSE since
    /\ timeline' = timeline \o reading[r].event
    /\ reading' = [reading EXCEPT ![r] = NoRequest]
    /\ UNCHANGED <<courier, minute, read>>

RollbackShipment(r) ==
    /\ reading[r] # NoRequest
    /\ reading' = [reading EXCEPT ![r] = NoRequest]
    /\ UNCHANGED <<shipment, courier, since, timeline, minute, read>>

Later(m) ==
    /\ m > minute
    /\ minute' = m
    /\ UNCHANGED <<shipment, courier, since, timeline, reading, read>>

ShNext ==
    \/ \E r \in Requests :
         \/ Track(r) \/ UpdateDetails(r)
         \/ \E s \in AdminStatuses : CreateShipment(r, s) \/ UpdateShipment(r, s)
         \/ FlushShipment(r) \/ TrackingNumberTaken(r)
         \/ CommitShipment(r) \/ RollbackShipment(r)
    \/ \E m \in Moments : Later(m)

ShSpec == ShInit /\ [][ShNext]_svars

-----------------------------------------------------------------------------
Told(s, who) ==
    \E i \in 1..Len(timeline) : timeline[i].status = s /\ timeline[i].by \in who

\* Whatever readers and the administrator write over each other, the status a
\* shipment shows is one its timeline tells of: a status is only sent
\* together with its event.
StatusIsTold == shipment # NoShipment => Told(shipment.status, Writers)

\* A shipment has a delivery time exactly when the courier, or the seed, has
\* told of the delivery: the administrator sets "delivered" without one, and
\* nothing takes the time back.
DeliveryIsTold ==
    shipment # NoShipment =>
      (shipment.delivered_at = "set" <=> Told("delivered", {"seed", "courier"}))

\* What makes these two inductive: a request sends a status together with an
\* event of it, and a delivery time together with the courier's delivery; and
\* a shipment is only created where there is none.
Tells(reads) ==
    LET c == reads.changes  e == reads.event IN
    /\ Len(e) <= 1
    /\ c.status # Keep => e # <<>> /\ e[1].status = c.status
    /\ e # <<>> => e[1].by \in {"label", "courier", "admin"}
    /\ c.delivered_at = "set" <=>
         e # <<>> /\ e[1].status = "delivered" /\ e[1].by = "courier"
    /\ reads.creates => c \in Shipment /\ e # <<>>
    /\ ~reads.creates => c.delivered_at # "null"

ReadingsAreTold ==
    \A r \in Requests : reading[r] # NoRequest =>
      /\ Tells(reading[r])
      /\ ~reading[r].creates => shipment # NoShipment
      /\ reading[r].creates /\ InTransaction(r) => shipment = NoShipment

OneFlushed == \A q, r \in Requests : InTransaction(q) /\ InTransaction(r) => q = r

\* The inductive invariant of the shipment.
ShInv ==
    /\ ShTypeOK /\ StatusIsTold /\ DeliveryIsTold /\ ReadingsAreTold /\ OneFlushed
    /\ shipment = NoShipment => timeline = <<>>

\* What the customer is shown agrees with the timeline beside it
\* (CourierTracker._build_response): status and time of delivery.
TimelineTells == StatusIsTold /\ DeliveryIsTold

Rank == [pre_transit |-> 0, in_transit |-> 1, out_for_delivery |-> 2,
         delivered |-> 3]

\* With requests served one at a time, the courier never goes back or repeats
\* itself, as long as no administrator has come between.
CourierGoesForward ==
    \A i, j \in 1..Len(timeline) :
      /\ i < j
      /\ timeline[i].by \in {"courier", "label"} /\ timeline[j].by = "courier"
      /\ timeline[i].by = "label" => timeline[i].status = "pre_transit"
      /\ \A k \in i..j : timeline[k].by # "admin"
      => Rank[timeline[i].status] < Rank[timeline[j].status]
=============================================================================
