---------------------------- MODULE RecordProofs ----------------------------
(***************************************************************************)
(* Proofs about shipments and accounts, for any number of requests in      *)
(* progress, any shipment to begin with, and any bounds.                   *)
(***************************************************************************)
EXTENDS MCRecords, SequenceTheorems, TLAPS

-----------------------------------------------------------------------------
(* Shipments: what a request sends, and what its commit leaves.            *)

LEMMA KeepIsNoStatus == Keep \notin ShipmentStatus /\ Keep \notin {"null", "set"}
BY DEF Keep, ShipmentStatus

\* A column is sent exactly when it was assigned another value, or a time.
LEMMA ChangesOfShipment ==
    ASSUME NEW saw \in Shipment, NEW want \in Shipment, NEW stamped
    PROVE  LET c == Changes(saw, want, stamped) IN
           /\ c \in ShipmentChange
           /\ \A k \in {"status", "delivered_at", "updated_at"} :
                c[k] = IF want[k] # saw[k] \/ k \in stamped THEN want[k] ELSE Keep
<1>1. DOMAIN saw = {"status", "delivered_at", "updated_at"}
  BY DEF Shipment
<1>2. /\ saw = [status |-> saw.status, delivered_at |-> saw.delivered_at,
                updated_at |-> saw.updated_at]
      /\ want.status \in ShipmentStatus /\ want.delivered_at \in {"null", "set"}
      /\ want.updated_at = "set"
  BY DEF Shipment
<1>3. DEFINE c == Changes(saw, want, stamped)
<1>4. c = [status |-> c.status, delivered_at |-> c.delivered_at, updated_at |-> c.updated_at]
  BY <1>1 DEF Changes
<1>5. \A k \in {"status", "delivered_at", "updated_at"} :
        c[k] = IF want[k] # saw[k] \/ k \in stamped THEN want[k] ELSE Keep
  BY <1>1 DEF Changes
<1>6. c \in ShipmentChange
  BY <1>2, <1>4, <1>5 DEF ShipmentChange
<1>7. QED BY <1>5, <1>6

\* The row after an UPDATE.
LEMMA UpdatedShipment ==
    ASSUME NEW row \in Shipment, NEW c \in ShipmentChange
    PROVE  /\ Updated(row, c) \in Shipment
           /\ Updated(row, c).status = IF c.status = Keep THEN row.status ELSE c.status
           /\ Updated(row, c).delivered_at =
                IF c.delivered_at = Keep THEN row.delivered_at ELSE c.delivered_at
<1>1. DOMAIN row = {"status", "delivered_at", "updated_at"}
  BY DEF Shipment
<1>2. DEFINE u == Updated(row, c)
<1>3. u = [status |-> u.status, delivered_at |-> u.delivered_at, updated_at |-> u.updated_at]
  BY <1>1 DEF Updated
<1>4. /\ u.status = IF c.status = Keep THEN row.status ELSE c.status
      /\ u.delivered_at = IF c.delivered_at = Keep THEN row.delivered_at ELSE c.delivered_at
      /\ u.updated_at = IF c.updated_at = Keep THEN row.updated_at ELSE c.updated_at
  BY <1>1 DEF Updated
<1>5. u \in Shipment
  BY <1>3, <1>4 DEF Shipment, ShipmentChange
<1>6. QED BY <1>4, <1>5

\* A timeline of at most one event more tells what it told, and that event.
LEMMA ToldWithOneMore ==
    ASSUME NEW t \in Seq(Event), NEW e \in Seq(Event), Len(e) <= 1, NEW s, NEW who
    PROVE  (\E i \in 1..Len(t \o e) : (t \o e)[i].status = s /\ (t \o e)[i].by \in who)
             <=> \/ \E i \in 1..Len(t) : t[i].status = s /\ t[i].by \in who
                 \/ e # <<>> /\ e[1].status = s /\ e[1].by \in who
<1>1. CASE e = <<>>
  BY <1>1
<1>2. CASE e # <<>>
  <2>1. Len(e) = 1 /\ Len(t \o e) = Len(t) + 1
    <3>1. Len(e) \in Nat /\ Len(e) # 0
      BY <1>2, EmptySeq
    <3>2. \A n \in Nat : n # 0 /\ n <= 1 => n = 1
      OBVIOUS
    <3>5. Len(e) = 1
      BY <3>1, <3>2
    <3>3. Len(t \o e) = Len(t) + Len(e)
      OBVIOUS
    <3>4. QED BY <3>5, <3>3
  <2>2. \A i \in 1..Len(t) : (t \o e)[i] = t[i]
    OBVIOUS
  <2>3. (t \o e)[Len(t) + 1] = e[1]
    BY <2>1
  <2>4. 1..Len(t \o e) = 1..Len(t) \cup {Len(t) + 1}
    BY <2>1
  <2>5. QED BY <1>2, <2>2, <2>3, <2>4
<1>3. QED BY <1>1, <1>2

\* A request that begins changes no row, and tells what it sends.
LEMMA BeginsPreserves ==
    ASSUME ShInv, NEW r \in Requests, NEW new \in Reading, new.st = "loaded", Tells(new),
           ~new.creates => shipment # NoShipment,
           reading' = [reading EXCEPT ![r] = new], read' = read + 1,
           UNCHANGED <<shipment, courier, since, timeline, minute>>
    PROVE  ShInv'
<1>1. reading \in [Requests -> Reading \cup {NoRequest}] /\ read \in Nat
  BY DEF ShInv, ShTypeOK
<1>2. /\ reading'[r] = new /\ \A q \in Requests \ {r} : reading'[q] = reading[q]
      /\ reading' \in [Requests -> Reading \cup {NoRequest}]
  BY <1>1
<1>3. ShTypeOK'
  BY <1>1, <1>2 DEF ShInv, ShTypeOK
<1>4. StatusIsTold' /\ DeliveryIsTold' /\ (shipment' = NoShipment => timeline' = <<>>)
  BY DEF ShInv, StatusIsTold, DeliveryIsTold, Told
<1>5. ASSUME NEW q \in Requests, InTransaction(q)' PROVE q # r /\ InTransaction(q)
  BY <1>2, <1>5 DEF InTransaction
<1>6. OneFlushed'
  BY <1>5 DEF ShInv, OneFlushed
<1>7. ReadingsAreTold'
  BY <1>2, <1>5 DEF ShInv, ReadingsAreTold
<1>8. QED BY <1>3, <1>4, <1>6, <1>7 DEF ShInv

LEMMA EventsOfNow ==
    ASSUME minute \in Moments, NEW s \in ShipmentStatus, NEW who \in Writers
    PROVE  /\ EventOf(s, who) \in Seq(Event) /\ Len(EventOf(s, who)) <= 1
           /\ EventOf(s, who) # <<>>
           /\ EventOf(s, who)[1].status = s /\ EventOf(s, who)[1].by = who
<1>1. [status |-> s, by |-> who, at |-> minute] \in Event
  BY DEF Event
<1>2. QED BY <1>1 DEF EventOf

LEMMA StagesAreStatuses == ASSUME NEW age PROVE Stage(courier, age) \in ShipmentStatus
BY DEF Stage, ShipmentStatus

\* A reading, a label, and the administrator's updates.
LEMMA BeginningPreserves ==
    ASSUME ShInv, NEW r \in Requests,
           \/ Track(r) \/ UpdateDetails(r)
           \/ \E s \in AdminStatuses : CreateShipment(r, s) \/ UpdateShipment(r, s)
    PROVE  ShInv'
<1>1. /\ shipment \in Shipment \cup {NoShipment} /\ minute \in Moments
      /\ AdminStatuses \subseteq ShipmentStatus
  BY AdminStatusesAreStatuses DEF ShInv, ShTypeOK
<1>2. ASSUME NEW creates \in BOOLEAN, NEW c \in ShipmentChange, NEW e \in Seq(Event),
             Begins(r, creates, c, e), Len(e) <= 1,
             c.status # Keep => e # <<>> /\ e[1].status = c.status,
             e # <<>> => e[1].by \in {"label", "courier", "admin"},
             c.delivered_at = "set" <=>
               e # <<>> /\ e[1].status = "delivered" /\ e[1].by = "courier",
             creates => c \in Shipment /\ e # <<>>,
             ~creates => c.delivered_at # "null" /\ shipment # NoShipment
      PROVE  ShInv'
  <2>1. DEFINE new == [st |-> "loaded", creates |-> creates, changes |-> c, event |-> e]
  <2>2. /\ new \in Reading /\ new.st = "loaded" /\ new.creates = creates
        /\ new.changes = c /\ new.event = e
    BY DEF Reading
  <2>3. /\ reading' = [reading EXCEPT ![r] = new] /\ read' = read + 1
        /\ UNCHANGED <<shipment, courier, since, timeline, minute>>
    BY <1>2 DEF Begins
  <2> HIDE DEF new
  <2>4. Tells(new)
    BY <1>2, <2>2 DEF Tells
  <2>5. QED BY <1>2, <2>2, <2>3, <2>4, BeginsPreserves
<1>8. ASSUME NEW c \in ShipmentChange, NEW e \in Seq(Event),
             Begins(r, FALSE, c, e), Len(e) <= 1, shipment # NoShipment,
             c.status # Keep => e # <<>> /\ e[1].status = c.status,
             e # <<>> => e[1].by \in {"label", "courier", "admin"},
             c.delivered_at = "set" <=>
               e # <<>> /\ e[1].status = "delivered" /\ e[1].by = "courier",
             c.delivered_at # "null"
      PROVE  ShInv'
  <2>1. FALSE \in BOOLEAN
    OBVIOUS
  <2>2. QED BY <1>2, <1>8, <2>1, Zenon
<1>3. CASE Track(r)
  <2>1. DEFINE s == Stage(courier, minute - since)
               want == [shipment EXCEPT !.status = s,
                          !.delivered_at = IF s = "delivered" THEN "set" ELSE @]
               stamped == {"updated_at"} \cup (IF s = "delivered" THEN {"delivered_at"} ELSE {})
  <2>2. /\ shipment # NoShipment /\ shipment \in Shipment
        /\ s \in ShipmentStatus /\ s # shipment.status
        /\ Begins(r, FALSE, Changes(shipment, want, stamped), EventOf(s, "courier"))
    BY <1>1, <1>3, StagesAreStatuses DEF Track
  <2>3. /\ want \in Shipment /\ want.status = s
        /\ want.delivered_at = IF s = "delivered" THEN "set" ELSE shipment.delivered_at
    BY <2>2 DEF Shipment
  <2>4. DEFINE c == Changes(shipment, want, stamped)  e == EventOf(s, "courier")
  <2>5. stamped = {"updated_at"} \cup (IF s = "delivered" THEN {"delivered_at"} ELSE {})
    OBVIOUS
  <2> HIDE DEF s, want, stamped
  <2>6. c \in ShipmentChange /\ c.status = s
    BY <2>2, <2>3, ChangesOfShipment
  <2>7. c.delivered_at = IF s = "delivered" THEN "set" ELSE Keep
    BY <2>2, <2>3, <2>5, ChangesOfShipment
  <2>8. c.delivered_at # "null" /\ (c.delivered_at = "set" <=> s = "delivered")
    BY <2>7, KeepIsNoStatus
  <2>9. e \in Seq(Event) /\ Len(e) <= 1 /\ e # <<>> /\ e[1].status = s /\ e[1].by = "courier"
    BY <1>1, <2>2, EventsOfNow DEF Writers
  <2>10. Begins(r, FALSE, c, e)
    BY <2>2
  <2> HIDE DEF c, e
  <2>11. QED BY <1>8, <2>2, <2>6, <2>8, <2>9, <2>10, KeepIsNoStatus
<1>4. CASE UpdateDetails(r)
  <2>1. DEFINE c == Changes(shipment, shipment, {"updated_at"})
  <2>2. shipment \in Shipment /\ shipment # NoShipment /\ Begins(r, FALSE, c, <<>>)
    BY <1>1, <1>4 DEF UpdateDetails
  <2>3. c \in ShipmentChange /\ c.status = Keep /\ c.delivered_at = Keep
    BY <2>2, ChangesOfShipment
  <2> HIDE DEF c
  <2>4. <<>> \in Seq(Event) /\ Len(<<>>) <= 1
    OBVIOUS
  <2>5. QED BY <1>8, <2>2, <2>3, <2>4, KeepIsNoStatus
<1>5. ASSUME NEW s \in AdminStatuses, UpdateShipment(r, s) PROVE ShInv'
  <2>1. DEFINE want == [shipment EXCEPT !.status = s]
               c == Changes(shipment, want, {"updated_at"})  e == EventOf(s, "admin")
  <2>2. /\ shipment \in Shipment /\ shipment # NoShipment /\ s \in ShipmentStatus
        /\ Begins(r, FALSE, c, e)
    BY <1>1, <1>5 DEF UpdateShipment
  <2>3. want \in Shipment /\ want.status = s /\ want.delivered_at = shipment.delivered_at
    BY <2>2 DEF Shipment
  <2>4. c \in ShipmentChange /\ c.status \in {s, Keep} /\ c.delivered_at = Keep
    BY <2>2, <2>3, ChangesOfShipment
  <2>5. e \in Seq(Event) /\ Len(e) <= 1 /\ e # <<>> /\ e[1].status = s /\ e[1].by = "admin"
    BY <1>1, <2>2, EventsOfNow DEF Writers
  <2> HIDE DEF c, e
  <2>6. QED BY <1>8, <2>2, <2>4, <2>5, KeepIsNoStatus
<1>6. ASSUME NEW s \in AdminStatuses, CreateShipment(r, s) PROVE ShInv'
  <2>1. DEFINE c == Label(s)  e == EventOf(s, "label")
  <2>2. s \in ShipmentStatus /\ Begins(r, TRUE, c, e)
    BY <1>1, <1>6 DEF CreateShipment
  <2>3. c \in Shipment /\ c \in ShipmentChange /\ c.status = s /\ c.delivered_at = "null"
    BY <2>2 DEF Label, Shipment, ShipmentChange
  <2>4. e \in Seq(Event) /\ Len(e) <= 1 /\ e # <<>> /\ e[1].status = s /\ e[1].by = "label"
    BY <1>1, <2>2, EventsOfNow DEF Writers
  <2> HIDE DEF c, e
  <2>5. QED BY <1>2, <2>2, <2>3, <2>4, KeepIsNoStatus
<1>7. QED BY <1>3, <1>4, <1>5, <1>6

\* A request that ends leaves the others as they are.
LEMMA EndingLeaves ==
    ASSUME ShInv, NEW r \in Requests, reading' = [reading EXCEPT ![r] = NoRequest]
    PROVE  /\ reading' \in [Requests -> Reading \cup {NoRequest}]
           /\ \A q \in Requests : reading'[q] # NoRequest => reading'[q] = reading[q] /\ q # r
           /\ OneFlushed'
<1>1. reading \in [Requests -> Reading \cup {NoRequest}]
  BY DEF ShInv, ShTypeOK
<1>2. /\ reading' \in [Requests -> Reading \cup {NoRequest}]
      /\ \A q \in Requests : reading'[q] # NoRequest => reading'[q] = reading[q] /\ q # r
  BY <1>1
<1>3. OneFlushed'
  BY <1>2 DEF ShInv, OneFlushed, InTransaction
<1>4. QED BY <1>2, <1>3

LEMMA RollbackPreserves ==
    ASSUME ShInv, NEW r \in Requests, RollbackShipment(r) \/ TrackingNumberTaken(r)
    PROVE  ShInv'
<1>1. /\ reading' = [reading EXCEPT ![r] = NoRequest]
      /\ UNCHANGED <<shipment, courier, since, timeline, minute, read>>
  BY DEF RollbackShipment, TrackingNumberTaken
<1>2. ShTypeOK' /\ OneFlushed'
  BY <1>1, EndingLeaves DEF ShInv, ShTypeOK
<1>3. ReadingsAreTold'
  BY <1>1, EndingLeaves DEF ShInv, ReadingsAreTold, InTransaction
<1>4. StatusIsTold' /\ DeliveryIsTold' /\ (shipment' = NoShipment => timeline' = <<>>)
  BY <1>1 DEF ShInv, StatusIsTold, DeliveryIsTold, Told
<1>5. QED BY <1>2, <1>3, <1>4 DEF ShInv

\* A flush waits until it is the only one, and for a new shipment until there
\* is none.
LEMMA FlushPreserves ==
    ASSUME ShInv, NEW r \in Requests, FlushShipment(r)
    PROVE  ShInv'
<1>1. reading \in [Requests -> Reading \cup {NoRequest}] /\ reading[r] \in Reading
  BY DEF ShInv, ShTypeOK, FlushShipment
<1>2. DEFINE new == [reading[r] EXCEPT !.st = "flushed"]
<1>3. /\ new \in Reading /\ new.creates = reading[r].creates
      /\ new.changes = reading[r].changes /\ new.event = reading[r].event
  BY <1>1 DEF Reading
<1>4. /\ reading' = [reading EXCEPT ![r] = new]
      /\ \A q \in Requests : ~InTransaction(q)
      /\ reading[r] # NoRequest /\ (reading[r].creates => shipment = NoShipment)
      /\ UNCHANGED <<shipment, courier, since, timeline, minute, read>>
  BY DEF FlushShipment
<1> HIDE DEF new
<1>5. /\ reading'[r] = new /\ \A q \in Requests \ {r} : reading'[q] = reading[q]
      /\ reading' \in [Requests -> Reading \cup {NoRequest}]
  BY <1>1, <1>3, <1>4
<1>6. ShTypeOK'
  BY <1>4, <1>5 DEF ShInv, ShTypeOK
<1>7. \A q \in Requests \ {r} : ~InTransaction(q)'
  BY <1>4, <1>5 DEF InTransaction
<1>8. OneFlushed'
  BY <1>7 DEF OneFlushed
<1>9. Tells(new)
  BY <1>3, <1>4 DEF ShInv, ReadingsAreTold, Tells
<1>10. ReadingsAreTold'
  <2>1. ASSUME NEW q \in Requests \ {r}, reading'[q] # NoRequest
        PROVE  /\ Tells(reading'[q])
               /\ ~reading'[q].creates => shipment' # NoShipment
               /\ ~InTransaction(q)'
    BY <1>4, <1>5, <1>7, <2>1 DEF ShInv, ReadingsAreTold
  <2>2. /\ Tells(reading'[r])
        /\ ~reading'[r].creates => shipment' # NoShipment
        /\ reading'[r].creates => shipment' = NoShipment
    BY <1>3, <1>4, <1>5, <1>9 DEF ShInv, ReadingsAreTold
  <2>3. QED BY <2>1, <2>2 DEF ReadingsAreTold
<1>11. StatusIsTold' /\ DeliveryIsTold' /\ (shipment' = NoShipment => timeline' = <<>>)
  BY <1>4 DEF ShInv, StatusIsTold, DeliveryIsTold, Told
<1>12. QED BY <1>6, <1>8, <1>10, <1>11 DEF ShInv

\* A commit: the row and the timeline take what the request tells.
LEMMA CommitShipmentPreserves ==
    ASSUME ShInv, NEW r \in Requests, CommitShipment(r)
    PROVE  ShInv'
<1>1. DEFINE old == reading[r]  c == old.changes  e == old.event
<1>2. /\ old \in Reading /\ c \in ShipmentChange /\ e \in Seq(Event)
      /\ shipment \in Shipment \cup {NoShipment} /\ timeline \in Seq(Event)
  <2>1. old \in Reading
    BY DEF CommitShipment, InTransaction, ShInv, ShTypeOK
  <2>2. c \in ShipmentChange /\ e \in Seq(Event)
    <3>1. c \in ShipmentChange /\ e \in {<<>>} \cup (Seq(Event) \ {<<>>})
      BY <2>1 DEF Reading
    <3>2. <<>> \in Seq(Event)
      OBVIOUS
    <3>3. QED BY <3>1, <3>2, Zenon
  <2>3. shipment \in Shipment \cup {NoShipment} /\ timeline \in Seq(Event)
    BY DEF ShInv, ShTypeOK
  <2>4. QED BY <2>1, <2>2, <2>3
<1>3. /\ Tells(old)
      /\ ~old.creates => shipment # NoShipment
      /\ old.creates => shipment = NoShipment
  BY DEF CommitShipment, InTransaction, ShInv, ReadingsAreTold
<1>4. /\ Len(e) <= 1
      /\ c.status # Keep => e # <<>> /\ e[1].status = c.status
      /\ e # <<>> => e[1].by \in {"label", "courier", "admin"}
      /\ c.delivered_at = "set" <=>
           e # <<>> /\ e[1].status = "delivered" /\ e[1].by = "courier"
      /\ old.creates => c \in Shipment /\ e # <<>>
      /\ ~old.creates => c.delivered_at # "null"
  BY <1>3 DEF Tells
<1>5. /\ shipment' = IF old.creates THEN c ELSE Updated(shipment, c)
      /\ since' = IF old.creates THEN e[1].at ELSE since
      /\ timeline' = timeline \o e
      /\ reading' = [reading EXCEPT ![r] = NoRequest]
      /\ UNCHANGED <<courier, minute, read>>
      /\ InTransaction(r)
  BY DEF CommitShipment
<1> HIDE DEF old, c, e
<1>6. \A s, who : Told(s, who)' <=>
        \/ Told(s, who)
        \/ e # <<>> /\ e[1].status = s /\ e[1].by \in who
  <2> SUFFICES ASSUME NEW s, NEW who
               PROVE  Told(s, who)' <=>
                        \/ Told(s, who)
                        \/ e # <<>> /\ e[1].status = s /\ e[1].by \in who
    OBVIOUS
  <2>1. (\E i \in 1..Len(timeline \o e) :
            (timeline \o e)[i].status = s /\ (timeline \o e)[i].by \in who)
          <=> \/ \E i \in 1..Len(timeline) : timeline[i].status = s /\ timeline[i].by \in who
              \/ e # <<>> /\ e[1].status = s /\ e[1].by \in who
    BY <1>2, <1>4, ToldWithOneMore
  <2>2. QED BY <1>5, <2>1 DEF Told
<1>7. e # <<>> => e[1] \in Event
  BY <1>2
<1>8. ASSUME old.creates
      PROVE  shipment' \in Shipment /\ since' \in Moments /\ StatusIsTold' /\ DeliveryIsTold'
  <2>1. shipment' = c /\ c \in Shipment /\ e # <<>> /\ shipment = NoShipment
    BY <1>3, <1>4, <1>5, <1>8
  <2>2. c.status # Keep /\ c.status \in ShipmentStatus /\ c.delivered_at \in {"null", "set"}
    BY <2>1, KeepIsNoStatus DEF Shipment
  <2>3. since' \in Moments
    BY <1>5, <1>7, <1>8, <2>1 DEF Event
  <2>4. StatusIsTold'
    BY <1>4, <1>6, <2>1, <2>2 DEF StatusIsTold, Writers
  <2>5. ~Told("delivered", {"seed", "courier"})
    BY <2>1 DEF ShInv, Told
  <2>6. Told("delivered", {"seed", "courier"})' <=> c.delivered_at = "set"
    BY <1>4, <1>6, <2>1, <2>5
  <2>7. DeliveryIsTold'
    BY <2>1, <2>6 DEF DeliveryIsTold
  <2>8. QED BY <2>1, <2>3, <2>4, <2>7
<1>9. ASSUME ~old.creates
      PROVE  shipment' \in Shipment /\ since' \in Moments /\ StatusIsTold' /\ DeliveryIsTold'
  <2>1. shipment' = Updated(shipment, c) /\ shipment \in Shipment /\ shipment # NoShipment
    BY <1>2, <1>3, <1>5, <1>9
  <2>2. /\ shipment' \in Shipment
        /\ shipment'.status = IF c.status = Keep THEN shipment.status ELSE c.status
        /\ shipment'.delivered_at =
             IF c.delivered_at = Keep THEN shipment.delivered_at ELSE c.delivered_at
    BY <1>2, <2>1, UpdatedShipment
  <2>3. since' \in Moments
    BY <1>5, <1>9 DEF ShInv, ShTypeOK
  <2>4. StatusIsTold'
    BY <1>4, <1>6, <2>1, <2>2 DEF ShInv, StatusIsTold, Writers
  <2>5. c.delivered_at \in {"set", Keep}
    BY <1>2, <1>4, <1>9 DEF ShipmentChange
  <2>6. shipment'.delivered_at = "set" <=> c.delivered_at = "set" \/ shipment.delivered_at = "set"
    BY <2>2, <2>5, KeepIsNoStatus
  <2>7. Told("delivered", {"seed", "courier"})' <=>
          Told("delivered", {"seed", "courier"}) \/ c.delivered_at = "set"
    BY <1>4, <1>6
  <2>8. DeliveryIsTold'
    BY <2>1, <2>6, <2>7 DEF ShInv, DeliveryIsTold
  <2>9. QED BY <2>2, <2>3, <2>4, <2>8
<1>10. shipment' \in Shipment /\ since' \in Moments /\ StatusIsTold' /\ DeliveryIsTold'
  BY <1>8, <1>9
<1>11. shipment' # NoShipment
  BY <1>10, NoShipmentIsNone
<1>12. ShTypeOK' /\ OneFlushed'
  <2>1. timeline' \in Seq(Event)
    BY <1>2, <1>5
  <2>2. reading' \in [Requests -> Reading \cup {NoRequest}] /\ OneFlushed'
    BY <1>5, EndingLeaves
  <2>3. courier' \in Couriers /\ minute' \in Moments /\ read' \in Nat
    BY <1>5 DEF ShInv, ShTypeOK
  <2>4. QED BY <1>10, <2>1, <2>2, <2>3 DEF ShTypeOK
<1>13. ReadingsAreTold'
  <2>1. ASSUME NEW q \in Requests, reading'[q] # NoRequest
        PROVE  reading'[q] = reading[q] /\ Tells(reading[q]) /\ ~InTransaction(q)'
    BY <1>5, <2>1, EndingLeaves DEF ShInv, ReadingsAreTold, OneFlushed, InTransaction
  <2>2. QED BY <1>11, <2>1 DEF ReadingsAreTold
<1>14. QED BY <1>10, <1>11, <1>12, <1>13 DEF ShInv

LEMMA NextShInv == ShInv /\ [ShNext]_svars => ShInv'
<1> SUFFICES ASSUME ShInv, [ShNext]_svars PROVE ShInv'
  OBVIOUS
<1>1. ASSUME NEW m \in Moments, Later(m) PROVE ShInv'
  BY <1>1 DEF Later, ShInv, ShTypeOK, StatusIsTold, DeliveryIsTold, Told,
              ReadingsAreTold, OneFlushed, InTransaction
<1>2. CASE UNCHANGED svars
  BY <1>2 DEF svars, ShInv, ShTypeOK, StatusIsTold, DeliveryIsTold, Told,
              ReadingsAreTold, OneFlushed, InTransaction
<1>3. QED
  BY <1>1, <1>2, BeginningPreserves, RollbackPreserves, FlushPreserves,
     CommitShipmentPreserves DEF ShNext

\* A shipment to begin with is told of by its one seeded event.
LEMMA InitShInv == ShInit => ShInv
<1> SUFFICES ASSUME ShInit PROVE ShInv
  OBVIOUS
<1>1. /\ shipment \in Shipment \cup {NoShipment}
      /\ shipment # NoShipment =>
           /\ shipment \in Shipment
           /\ shipment.delivered_at = "set" <=> shipment.status = "delivered"
  BY ConsignmentsAreShipments DEF ShInit
<1>2. reading = [r \in Requests |-> NoRequest] /\ minute = 0 /\ read = 0 /\ since = 0
      /\ courier \in Couriers
  BY DEF ShInit
<1>3. CASE shipment = NoShipment
  <2>1. timeline = <<>>
    BY <1>3 DEF ShInit
  <2>2. ShTypeOK
    BY <1>1, <1>2, <2>1, MomentsAreMinutes DEF ShTypeOK
  <2>3. QED BY <1>2, <1>3, <2>1, <2>2
    DEF ShInv, StatusIsTold, DeliveryIsTold, ReadingsAreTold, OneFlushed, InTransaction
<1>4. CASE shipment # NoShipment
  <2>1. timeline = <<[status |-> shipment.status, by |-> "seed", at |-> 0]>>
    BY <1>4 DEF ShInit
  <2>2. [status |-> shipment.status, by |-> "seed", at |-> 0] \in Event
    BY <1>1, <1>4, MomentsAreMinutes DEF Event, Writers, Shipment
  <2>3. timeline \in Seq(Event) /\ Len(timeline) = 1
        /\ timeline[1].status = shipment.status /\ timeline[1].by = "seed"
    BY <2>1, <2>2
  <2>4. ShTypeOK
    BY <1>1, <1>2, <2>3, MomentsAreMinutes DEF ShTypeOK
  <2>5. \A s, who : Told(s, who) <=> s = shipment.status /\ "seed" \in who
    BY <2>3 DEF Told
  <2>6. StatusIsTold /\ DeliveryIsTold
    BY <1>1, <1>4, <2>5 DEF StatusIsTold, DeliveryIsTold, Writers
  <2>7. QED BY <1>2, <1>4, <2>4, <2>6
    DEF ShInv, ReadingsAreTold, OneFlushed, InTransaction
<1>5. QED BY <1>3, <1>4

\* The inductive invariant of a shipment, for any number of concurrent requests.
THEOREM ShipmentInvariant == ShSpec => []ShInv
BY InitShInv, NextShInv, PTL DEF ShSpec

\* CourierTracker._build_response: the status a customer is shown is one that
\* the timeline tells of, and a time of delivery comes with the courier's.
THEOREM TimelineAlwaysTells == ShSpec => []TimelineTells
<1>1. ShInv => TimelineTells
  BY DEF ShInv, TimelineTells
<1>2. QED BY <1>1, ShipmentInvariant, PTL

-----------------------------------------------------------------------------
(***************************************************************************)
(* Requests on a shipment served in turn (module MCRecords): the courier   *)
(* goes forward.                                                           *)
(***************************************************************************)

\* A courier's pattern only goes forward as a parcel ages.
LEMMA StageGoesForward ==
    ASSUME courier \in Couriers, NEW a \in Int, NEW b \in Int, a <= b,
           Stage(courier, a) # Stage(courier, b)
    PROVE  Rank[Stage(courier, a)] < Rank[Stage(courier, b)]
<1>1. courier \in {"ups", "usps", "dhl", "fedex"}
  BY DEF Couriers, Patterns
<1> DEFINE p == Patterns[courier]
           t == p.in_transit  o == p.out_for_delivery  d == p.delivered
<1>2. t \in Nat /\ o \in Nat /\ d \in Nat /\ t < o /\ o < d
  BY <1>1 DEF Patterns
<1>3. ASSUME NEW x \in Int
      PROVE  /\ x < t => Stage(courier, x) = "pre_transit"
             /\ x >= t /\ x < o => Stage(courier, x) = "in_transit"
             /\ x >= o /\ x < d => Stage(courier, x) = "out_for_delivery"
             /\ x >= d => Stage(courier, x) = "delivered"
  <2> HIDE DEF p
  <2>1. Stage(courier, x) =
          CASE x < p.in_transit -> "pre_transit"
            [] x >= p.in_transit /\ x < p.out_for_delivery -> "in_transit"
            [] x >= p.out_for_delivery /\ x < p.delivered -> "out_for_delivery"
            [] OTHER -> "delivered"
    BY DEF Stage, p
  <2>2. QED BY <1>2, <2>1
<1> HIDE DEF t, o, d
<1>4. /\ Rank["pre_transit"] = 0 /\ Rank["in_transit"] = 1
      /\ Rank["out_for_delivery"] = 2 /\ Rank["delivered"] = 3
  BY DEF Rank
<1>5. QED BY <1>2, <1>3, <1>4

\* And a stage is never before pre_transit.
LEMMA StageAfterLabel ==
    ASSUME NEW c, NEW a, Stage(c, a) # "pre_transit"
    PROVE  Rank["pre_transit"] < Rank[Stage(c, a)]
<1>1. Stage(c, a) \in {"pre_transit", "in_transit", "out_for_delivery", "delivered"}
  BY DEF Stage
<1>2. QED BY <1>1 DEF Rank

LEMMA TrackStep == [RNext]_rvars => [ShNext]_svars /\ UNCHANGED serving
BY DEF RNext, rvars

LEMMA NobodyElse ==
    ASSUME Tracking \subseteq serving, ServedInTurn, NEW r \in Tracking, NEW q \in Tracking
    PROVE  q = r
BY DEF ServedInTurn

\* A request that begins sends what it tells, of the status it has loaded.
LEMMA BeginsInTurn ==
    ASSUME ShInv, InTurn, NEW r \in Requests, NEW creates \in BOOLEAN, NEW c, NEW e,
           Begins(r, creates, c, e),
           e # <<>> =>
             /\ creates => e[1].by = "label"
             /\ ~creates =>
                  /\ e[1].by \in {"courier", "admin"}
                  /\ c.status = Keep => e[1].status = shipment.status
             /\ e[1].by = "courier" =>
                  /\ e[1].at = minute /\ e[1].status # shipment.status
                  /\ e[1].status = Stage(courier, minute - since)
    PROVE  InTurn'
<1> DEFINE new == [st |-> "loaded", creates |-> creates, changes |-> c, event |-> e]
<1>1. /\ new.creates = creates /\ new.changes = c /\ new.event = e
      /\ reading' = [reading EXCEPT ![r] = new]
      /\ UNCHANGED <<shipment, courier, since, timeline, minute>>
  BY DEF Begins
<1> HIDE DEF new
<1>2. /\ reading'[r] = new /\ \A q \in Requests \ {r} : reading'[q] = reading[q]
      /\ minute \in Nat /\ timeline \in Seq(Event)
  BY <1>1, MomentsAreMinutes DEF ShInv, ShTypeOK
<1>3. (EventsAreStages /\ LastIsShown /\ CourierGoesForward)'
  BY <1>1 DEF InTurn, EventsAreStages, LastIsShown, CourierGoesForward
<1>4. ReadingIsPresent(new)'
  BY <1>1, <1>2 DEF InTurn, ReadingIsPresent, EventsAreStages
<1>5. ASSUME NEW q \in Tracking', q # r PROVE ReadingIsPresent(reading[q])'
  BY <1>1, <1>2, <1>5 DEF InTurn, ReadingIsPresent, Tracking
<1>6. ASSUME NEW q \in Tracking' PROVE ReadingIsPresent(reading[q])'
  <2>1. CASE q = r
    BY <1>2, <1>4, <2>1 DEF ReadingIsPresent
  <2>2. QED BY <1>5, <2>1
<1>7. QED BY <1>3, <1>6 DEF InTurn

LEMMA BeginningInTurn ==
    ASSUME ShInv, InTurn, NEW r \in Requests,
           \/ Track(r) \/ UpdateDetails(r)
           \/ \E s \in AdminStatuses : CreateShipment(r, s) \/ UpdateShipment(r, s)
    PROVE  InTurn'
<1>1. shipment \in Shipment \cup {NoShipment} /\ AdminStatuses \subseteq ShipmentStatus
  BY AdminStatusesAreStatuses DEF ShInv, ShTypeOK
<1>2. ASSUME NEW c, NEW s, NEW who, Begins(r, FALSE, c, EventOf(s, who)),
             who \in {"courier", "admin"}, c.status = Keep => s = shipment.status,
             who = "courier" =>
               s # shipment.status /\ s = Stage(courier, minute - since)
      PROVE  InTurn'
  <2> DEFINE e == EventOf(s, who)  creates == FALSE
  <2>1. /\ e[1].status = s /\ e[1].by = who /\ e[1].at = minute
        /\ creates \in BOOLEAN /\ ~creates
    BY DEF EventOf
  <2>2. Begins(r, creates, c, e)
    BY <1>2
  <2> HIDE DEF e, creates
  <2>3. QED BY <1>2, <2>1, <2>2, BeginsInTurn
<1>3. CASE Track(r)
  <2> DEFINE s == Stage(courier, minute - since)
             want == [shipment EXCEPT !.status = s,
                        !.delivered_at = IF s = "delivered" THEN "set" ELSE @]
             stamped == {"updated_at"} \cup (IF s = "delivered" THEN {"delivered_at"} ELSE {})
             c == Changes(shipment, want, stamped)
  <2>1. /\ shipment \in Shipment /\ s # shipment.status /\ s \in ShipmentStatus
        /\ Begins(r, FALSE, c, EventOf(s, "courier"))
    BY <1>1, <1>3, StagesAreStatuses DEF Track
  <2>2. want \in Shipment /\ want.status = s
    BY <2>1 DEF Shipment
  <2> HIDE DEF want, stamped
  <2>3. c.status = s
    BY <2>1, <2>2, ChangesOfShipment
  <2>4. c.status # Keep
    BY <2>1, <2>3, KeepIsNoStatus
  <2>5. s = Stage(courier, minute - since)
    OBVIOUS
  <2> HIDE DEF c, s
  <2>6. QED BY <1>2, <2>1, <2>4, <2>5
<1>4. CASE UpdateDetails(r)
  <2> DEFINE c == Changes(shipment, shipment, {"updated_at"})  creates == FALSE  e == <<>>
  <2>1. Begins(r, creates, c, e) /\ creates \in BOOLEAN /\ e = <<>>
    BY <1>4 DEF UpdateDetails
  <2> HIDE DEF c, creates, e
  <2>2. QED BY <2>1, BeginsInTurn
<1>5. ASSUME NEW s \in AdminStatuses, UpdateShipment(r, s) PROVE InTurn'
  <2> DEFINE want == [shipment EXCEPT !.status = s]
             c == Changes(shipment, want, {"updated_at"})
  <2>1. /\ shipment \in Shipment /\ s \in ShipmentStatus
        /\ Begins(r, FALSE, c, EventOf(s, "admin"))
    BY <1>1, <1>5 DEF UpdateShipment
  <2>2. want \in Shipment /\ want.status = s
    BY <2>1 DEF Shipment
  <2> HIDE DEF want
  <2>3. c.status = IF s # shipment.status THEN s ELSE Keep
    BY <2>1, <2>2, ChangesOfShipment
  <2>4. c.status = Keep => s = shipment.status
    BY <2>1, <2>3, KeepIsNoStatus
  <2> HIDE DEF c
  <2>5. QED BY <1>2, <2>1, <2>4
<1>6. ASSUME NEW s \in AdminStatuses, CreateShipment(r, s) PROVE InTurn'
  <2> DEFINE c == Label(s)  e == EventOf(s, "label")  creates == TRUE
  <2>1. Begins(r, creates, c, e) /\ creates \in BOOLEAN /\ creates /\ e[1].by = "label"
    BY <1>6 DEF CreateShipment, EventOf
  <2> HIDE DEF c, e, creates
  <2>2. QED BY <2>1, BeginsInTurn
<1>7. QED BY <1>3, <1>4, <1>5, <1>6

LEMMA EndingInTurn ==
    ASSUME ShInv, InTurn, NEW r \in Requests, RollbackShipment(r) \/ TrackingNumberTaken(r)
    PROVE  InTurn'
<1>1. /\ reading' = [reading EXCEPT ![r] = NoRequest]
      /\ UNCHANGED <<shipment, courier, since, timeline, minute>>
  BY DEF RollbackShipment, TrackingNumberTaken
<1>2. (EventsAreStages /\ LastIsShown /\ CourierGoesForward)'
  BY <1>1 DEF InTurn, EventsAreStages, LastIsShown, CourierGoesForward
<1>3. \A q \in Tracking' : q \in Tracking /\ reading'[q] = reading[q]
  BY <1>1, EndingLeaves DEF Tracking
<1>4. \A q \in Tracking' : ReadingIsPresent(reading[q])'
  BY <1>1, <1>3 DEF InTurn, ReadingIsPresent
<1>5. QED BY <1>2, <1>4 DEF InTurn

LEMMA FlushShipmentInTurn ==
    ASSUME ShInv, InTurn, NEW r \in Requests, FlushShipment(r)
    PROVE  InTurn'
<1>1. /\ reading \in [Requests -> Reading \cup {NoRequest}] /\ reading[r] \in Reading
      /\ r \in Tracking
  BY DEF ShInv, ShTypeOK, FlushShipment, Tracking
<1>2. /\ reading' = [reading EXCEPT ![r].st = "flushed"]
      /\ UNCHANGED <<shipment, courier, since, timeline, minute>>
  BY DEF FlushShipment
<1>3. (EventsAreStages /\ LastIsShown /\ CourierGoesForward)'
  BY <1>2 DEF InTurn, EventsAreStages, LastIsShown, CourierGoesForward
<1>4. \A q \in Tracking' :
        /\ q \in Tracking /\ reading'[q].event = reading[q].event
        /\ reading'[q].changes = reading[q].changes
        /\ reading'[q].creates = reading[q].creates
  BY <1>1, <1>2 DEF Tracking, Reading
<1>5. \A q \in Tracking' : ReadingIsPresent(reading[q])'
  BY <1>2, <1>4 DEF InTurn, ReadingIsPresent
<1>6. QED BY <1>3, <1>5 DEF InTurn

LEMMA EventsAreTimed == \A e \in Event : e.by \in Writers /\ e.at \in Nat
BY MomentsAreMinutes DEF Event

LEMMA OneEventMore ==
    ASSUME NEW t \in Seq(Event), NEW e \in Seq(Event)
    PROVE  Len(e) = 1 =>
             /\ Len(t \o e) = Len(t) + 1
             /\ \A i \in 1..Len(t) : (t \o e)[i] = t[i]
             /\ (t \o e)[Len(t) + 1] = e[1]
<1>1. Len(t \o e) = Len(t) + Len(e) /\ Len(t) \in Nat
  OBVIOUS
<1>2. \A i \in 1..Len(t) : (t \o e)[i] = t[i]
  OBVIOUS
<1>3. \A i \in 1..Len(e) : (t \o e)[Len(t) + i] = e[i]
  BY ConcatProperties
<1>4. QED BY <1>1, <1>2, <1>3

\* The last event is at most as far as the courier's next one.
LEMMA CourierAdvances ==
    ASSUME ShInv, InTurn, NEW e \in Event,
           e.by = "courier", e.status = Stage(courier, e.at - since),
           e.status # shipment.status,
           \A i \in 1..Len(timeline) : timeline[i].by = "courier" => timeline[i].at <= e.at,
           NEW i \in 1..Len(timeline),
           timeline[i].by \in {"courier", "label"},
           timeline[i].by = "label" => timeline[i].status = "pre_transit",
           \A k \in i..Len(timeline) : timeline[k].by # "admin"
    PROVE  Rank[timeline[i].status] < Rank[e.status]
<1> DEFINE n == Len(timeline)  last == timeline[n]
<1>1. /\ timeline \in Seq(Event) /\ n \in Nat /\ n \in 1..n
      /\ courier \in Couriers /\ since \in Int
  BY MomentsAreMinutes DEF ShInv, ShTypeOK
<1>2. \A k \in 1..n : timeline[k].by \in Writers /\ timeline[k].at \in Nat
  <2>1. \A k \in 1..n : timeline[k] \in Event
    BY <1>1
  <2>2. QED BY <2>1, EventsAreTimed
<1>3. e.at \in Nat
  BY EventsAreTimed
<1>4. last.status # e.status
  BY <1>1, EmptySeq DEF InTurn, LastIsShown
<1>5. CASE last.by = "courier"
  <2>1. /\ last.status = Stage(courier, last.at - since) /\ last.at <= e.at
    BY <1>1, <1>5 DEF InTurn, EventsAreStages
  <2>2. Rank[last.status] < Rank[e.status]
    <3> DEFINE a == last.at - since  b == e.at - since
    <3>1. a \in Int /\ b \in Int /\ a <= b
      <4>1. last.at \in Nat
        BY <1>1, <1>2
      <4> HIDE DEF last
      <4>2. QED BY <1>1, <1>3, <2>1, <4>1
    <3>2. Stage(courier, a) # Stage(courier, b)
      BY <1>4, <2>1
    <3> HIDE DEF a, b
    <3>3. Rank[Stage(courier, a)] < Rank[Stage(courier, b)]
      BY <1>1, <3>1, <3>2, StageGoesForward
    <3>4. QED BY <2>1, <3>3 DEF a, b
  <2>3. CASE i = n
    BY <2>2, <2>3
  <2>4. CASE i # n
    <3>1. Rank[timeline[i].status] < Rank[last.status]
      <4>1. i < n
        BY <1>1, <2>4
      <4>2. QED BY <1>1, <1>5, <4>1 DEF InTurn, CourierGoesForward
    <3>2. \A s \in {"pre_transit", "in_transit", "out_for_delivery", "delivered"} : Rank[s] \in Nat
      BY DEF Rank
    <3>3. \A a : Stage(courier, a) \in
            {"pre_transit", "in_transit", "out_for_delivery", "delivered"}
      BY DEF Stage
    <3>4. /\ Rank[last.status] \in Nat /\ Rank[e.status] \in Nat
          /\ Rank[timeline[i].status] \in Nat
      BY <2>1, <3>2, <3>3 DEF InTurn, EventsAreStages
    <3>5. QED BY <2>2, <3>1, <3>4
  <2>5. QED BY <2>3, <2>4
<1>6. CASE last.by = "label"
  <2>1. n = 1
    BY <1>1, <1>6 DEF InTurn, EventsAreStages
  <2>2. Stage(courier, e.at - since) # "pre_transit"
    <3>1. i = n
      BY <2>1
    <3>2. QED BY <1>4, <1>6, <3>1
  <2>3. i = n
    BY <2>1
  <2>4. QED BY <1>6, <2>2, <2>3, StageAfterLabel
<1>7. CASE last.by = "seed"
  <2>1. n = 1
    BY <1>1, <1>7 DEF InTurn, EventsAreStages
  <2>2. i = n
    BY <2>1
  <2>3. QED BY <1>7, <2>2
<1>8. QED BY <1>1, <1>2, <1>5, <1>6, <1>7 DEF Writers

LEMMA CommitShipmentInTurn ==
    ASSUME ShInv, InTurn, Tracking \subseteq serving, ServedInTurn,
           NEW r \in Requests, CommitShipment(r)
    PROVE  InTurn'
<1> DEFINE old == reading[r]  c == old.changes  e == old.event  n == Len(timeline)
<1>1. /\ old \in Reading /\ r \in Tracking
      /\ shipment \in Shipment \cup {NoShipment}
      /\ timeline \in Seq(Event) /\ n \in Nat /\ minute \in Nat
  BY MomentsAreMinutes DEF CommitShipment, InTransaction, ShInv, ShTypeOK, Tracking
<1>2. c \in ShipmentChange /\ e \in Seq(Event)
  <2>1. c \in ShipmentChange /\ e \in {<<>>} \cup (Seq(Event) \ {<<>>})
    BY <1>1 DEF Reading
  <2>2. <<>> \in Seq(Event)
    OBVIOUS
  <2>3. QED BY <2>1, <2>2, Zenon
<1>3. /\ shipment' = IF old.creates THEN c ELSE Updated(shipment, c)
      /\ since' = IF old.creates THEN e[1].at ELSE since
      /\ timeline' = timeline \o e
      /\ reading' = [reading EXCEPT ![r] = NoRequest]
      /\ UNCHANGED <<courier, minute>>
  BY DEF CommitShipment
<1>4. /\ Len(e) <= 1
      /\ c.status # Keep => e # <<>> /\ e[1].status = c.status
      /\ old.creates => c \in Shipment /\ e # <<>> /\ timeline = <<>>
      /\ ~old.creates => shipment # NoShipment
  BY DEF CommitShipment, InTransaction, ShInv, ReadingsAreTold, Tells
<1>5. ReadingIsPresent(old)
  BY <1>1 DEF InTurn
<1>6. Tracking' = {}
  <2>1. \A q \in Tracking' : q \in Tracking /\ q # r
    BY <1>3, EndingLeaves DEF Tracking
  <2>2. QED BY <1>1, <2>1, NobodyElse
<1>7. c.status = IF c.status = Keep THEN Keep ELSE e[1].status
  BY <1>4
<1>8. ~old.creates =>
        shipment'.status = IF c.status = Keep THEN shipment.status ELSE c.status
  BY <1>1, <1>2, <1>3, <1>4, UpdatedShipment
<1>9. CASE e = <<>>
  <2>1. ~old.creates /\ c.status = Keep /\ shipment'.status = shipment.status
    BY <1>4, <1>8, <1>9
  <2>2. timeline' = timeline /\ since' = since
    BY <1>1, <1>3, <1>9, <2>1
  <2>3. (EventsAreStages /\ CourierGoesForward)'
    BY <1>3, <2>2 DEF InTurn, EventsAreStages, CourierGoesForward
  <2>4. LastIsShown'
    BY <2>1, <2>2 DEF InTurn, LastIsShown
  <2>5. QED BY <1>6, <2>3, <2>4 DEF InTurn
<1>10. CASE e # <<>>
  <2> DEFINE new == e[1]
  <2>1. Len(e) = 1
    <3>1. Len(e) \in Nat /\ Len(e) # 0
      BY <1>2, <1>10, EmptySeq
    <3>2. \A m \in Nat : m # 0 /\ m <= 1 => m = 1
      OBVIOUS
    <3>3. QED BY <1>4, <3>1, <3>2
  <2>2. /\ new \in Event /\ Len(timeline') = n + 1
        /\ timeline'[n + 1] = new
        /\ \A i \in 1..n : timeline'[i] = timeline[i]
    <3>1. new \in Event
      BY <1>2, <2>1
    <3> HIDE DEF e
    <3>2. timeline' = timeline \o e
      BY <1>3
    <3>3. QED BY <1>1, <1>2, <2>1, <3>1, <3>2, OneEventMore
  <2>3. /\ old.creates => new.by = "label"
        /\ ~old.creates =>
             /\ new.by \in {"courier", "admin"}
             /\ c.status = Keep => new.status = shipment.status
        /\ new.by = "courier" =>
             /\ new.status # shipment.status /\ new.status = Stage(courier, new.at - since)
             /\ new.at <= minute
             /\ \A i \in 1..n : timeline[i].by = "courier" => timeline[i].at <= new.at
    BY <1>5, <1>10 DEF ReadingIsPresent
  <2>4. new.status = shipment'.status
    <3>1. CASE old.creates
      <4>1. c.status \in ShipmentStatus
        BY <1>4, <3>1 DEF Shipment
      <4>2. QED BY <1>3, <1>4, <3>1, <4>1, KeepIsNoStatus
    <3>2. CASE ~old.creates
      BY <1>4, <1>8, <2>3, <3>2
    <3>3. QED BY <3>1, <3>2
  <2>5. LastIsShown'
    BY <1>1, <2>2, <2>4 DEF LastIsShown
  <2> HIDE DEF new, e, c, old
  <2>6. EventsAreStages'
    <3>1. CASE old.creates
      <4>1. n = 0
        BY <1>4, <3>1
      <4>2. QED BY <1>3, <2>2, <2>3, <3>1, <4>1 DEF EventsAreStages
    <3>2. CASE ~old.creates
      <4>1. since' = since /\ new.by \in {"courier", "admin"}
        BY <1>3, <2>3, <3>2
      <4>2. ASSUME NEW i \in 1..n
            PROVE  /\ timeline'[i].by \in {"seed", "label"} => i = 1
                   /\ timeline'[i].by = "courier" =>
                        /\ timeline'[i].at <= minute'
                        /\ timeline'[i].status = Stage(courier', timeline'[i].at - since')
        BY <1>3, <2>2, <4>1 DEF InTurn, EventsAreStages
      <4>3. /\ new.by \notin {"seed", "label"}
            /\ new.by = "courier" =>
                 new.at <= minute' /\ new.status = Stage(courier', new.at - since')
        BY <1>3, <2>3, <4>1
      <4>4. QED BY <1>1, <2>2, <4>2, <4>3 DEF EventsAreStages
    <3>3. QED BY <3>1, <3>2
  <2>7. CourierGoesForward'
    <3>1. SUFFICES ASSUME NEW i \in 1..(n+1), NEW j \in 1..(n+1), i < j,
                          timeline'[i].by \in {"courier", "label"},
                          timeline'[j].by = "courier",
                          timeline'[i].by = "label" => timeline'[i].status = "pre_transit",
                          \A k \in i..j : timeline'[k].by # "admin"
                   PROVE  Rank[timeline'[i].status] < Rank[timeline'[j].status]
      BY <2>2 DEF CourierGoesForward
    <3>2. CASE j <= n
      <4>1. i \in 1..n /\ j \in 1..n /\ \A k \in i..j : k \in 1..n
        BY <1>1, <3>1, <3>2
      <4>2. QED BY <2>2, <3>1, <4>1 DEF InTurn, CourierGoesForward
    <3>3. CASE j = n + 1
      <4>1. i \in 1..n /\ \A k \in i..n : k \in 1..n /\ k \in i..j
        BY <1>1, <3>1, <3>3
      <4>2. /\ timeline[i].by \in {"courier", "label"}
            /\ timeline[i].by = "label" => timeline[i].status = "pre_transit"
            /\ \A k \in i..n : timeline[k].by # "admin"
        BY <2>2, <3>1, <4>1
      <4>3. new.by = "courier"
        BY <2>2, <3>1, <3>3
      <4>4. Rank[timeline[i].status] < Rank[new.status]
        BY <2>2, <2>3, <4>1, <4>2, <4>3, CourierAdvances
      <4>5. QED BY <2>2, <3>3, <4>1, <4>4
    <3>4. QED BY <1>1, <3>1, <3>2, <3>3
  <2>8. QED BY <1>6, <2>5, <2>6, <2>7 DEF InTurn
<1>11. QED BY <1>9, <1>10

LEMMA InitCourierInv == RInit => ShInv /\ CourierInv
<1> SUFFICES ASSUME RInit PROVE ShInv /\ CourierInv
  OBVIOUS
<1>1. ShInit
  BY DEF RInit
<1>2. ShInv
  BY <1>1, InitShInv
<1>3. Tracking = {}
  BY <1>1 DEF ShInit, Tracking
<1>4. shipment = NoShipment =>
        timeline = <<>> /\ Len(timeline) = 0
  BY <1>1 DEF ShInit
<1>5. shipment # NoShipment =>
        /\ Len(timeline) = 1 /\ timeline[1].by = "seed"
        /\ timeline[1].status = shipment.status
  BY <1>1 DEF ShInit
<1>6. EventsAreStages /\ LastIsShown /\ CourierGoesForward
  BY <1>4, <1>5 DEF EventsAreStages, LastIsShown, CourierGoesForward
<1>7. QED BY <1>2, <1>3, <1>6 DEF CourierInv, InTurn

LEMMA NextCourierInv == ShInv /\ CourierInv /\ [RNext]_rvars => ShInv' /\ CourierInv'
<1> SUFFICES ASSUME ShInv, CourierInv, [RNext]_rvars PROVE ShInv' /\ CourierInv'
  OBVIOUS
<1>1. ShInv' /\ serving' = serving /\ [ShNext]_svars
  BY NextShInv, TrackStep
<1>2. Tracking' \subseteq serving'
  BY <1>1 DEF CourierInv, RNext, rvars, svars, Tracking, InProgress
<1>3. ASSUME ServedInTurn PROVE InTurn'
  <2>1. InTurn /\ Tracking \subseteq serving
    BY <1>3 DEF CourierInv
  <2>2. ASSUME NEW r \in Requests,
               \/ Track(r) \/ UpdateDetails(r)
               \/ \E s \in AdminStatuses : CreateShipment(r, s) \/ UpdateShipment(r, s)
        PROVE  InTurn'
    BY <2>1, <2>2, BeginningInTurn
  <2>3. ASSUME NEW r \in Requests,
               \/ FlushShipment(r) \/ TrackingNumberTaken(r)
               \/ CommitShipment(r) \/ RollbackShipment(r)
        PROVE  InTurn'
    BY <1>3, <2>1, <2>3, FlushShipmentInTurn, EndingInTurn, CommitShipmentInTurn
  <2>4. CASE (\E m \in Moments : Later(m)) \/ UNCHANGED svars
    <3>1. /\ UNCHANGED <<shipment, courier, since, timeline, reading>>
          /\ minute \in Nat /\ minute' \in Nat /\ minute <= minute'
      BY <1>1, <2>4, MomentsAreMinutes DEF Later, svars, ShInv, ShTypeOK
    <3>2. \A a \in Nat : a <= minute => a <= minute'
      BY <3>1
    <3>3. \A i \in 1..Len(timeline) : timeline[i].at \in Nat
      <4>1. \A i \in 1..Len(timeline) : timeline[i] \in Event
        BY DEF ShInv, ShTypeOK
      <4>2. QED BY <4>1, EventsAreTimed
    <3>4. EventsAreStages'
      BY <2>1, <3>1, <3>2, <3>3 DEF InTurn, EventsAreStages
    <3>5. LastIsShown' /\ CourierGoesForward'
      BY <2>1, <3>1 DEF InTurn, LastIsShown, CourierGoesForward
    <3>6. ASSUME NEW r \in Tracking' PROVE ReadingIsPresent(reading[r])'
      <4>1. r \in Tracking /\ reading'[r] = reading[r] /\ reading[r] \in Reading
        BY <3>1 DEF Tracking, ShInv, ShTypeOK
      <4>2. ReadingIsPresent(reading[r])
        BY <2>1, <4>1 DEF InTurn
      <4>3. reading[r].event # <<>> => reading[r].event[1].at \in Nat
        <5>1. reading[r].event # <<>> => reading[r].event \in Seq(Event)
          BY <4>1 DEF Reading
        <5>2. reading[r].event # <<>> => reading[r].event[1] \in Event
          BY <5>1, EmptySeq
        <5>3. QED BY <5>2, MomentsAreMinutes DEF Event
      <4>4. QED BY <3>1, <3>2, <4>1, <4>2, <4>3 DEF ReadingIsPresent
    <3>7. QED BY <3>4, <3>5, <3>6 DEF InTurn
  <2>5. QED BY <1>1, <2>2, <2>3, <2>4 DEF ShNext
<1>4. QED BY <1>1, <1>2, <1>3 DEF CourierInv, ServedInTurn

\* With requests served one at a time, the courier's events in a timeline go
\* forward from a new label, unless an administrator has come between.
THEOREM CourierGoesOn == RSpec => []CourierWhenInTurn
<1>1. RInit => ShInv /\ CourierInv
  BY InitCourierInv
<1>2. (ShInv /\ CourierInv) /\ [RNext]_rvars => (ShInv /\ CourierInv)'
  BY NextCourierInv
<1>3. CourierInv => CourierWhenInTurn
  BY DEF CourierInv, InTurn, CourierWhenInTurn
<1>4. QED BY <1>1, <1>2, <1>3, PTL DEF RSpec

-----------------------------------------------------------------------------
(* Accounts: what a request leaves of the others' rows, and of names.      *)

\* Only the requests change.
LEMMA RowsUnchanged ==
    ASSUME AInv, UNCHANGED <<users, tokens, profile, day>>, held' \in {held, 0},
           call' \in [Requests -> Call \cup {NoRequest}], called' \in Nat,
           refused' \in 0..Len(tokens),
           InsertedAreDistinct', CallsAreSound'
    PROVE  AInv'
<1>0. Len(tokens) \in Nat /\ held' \in 0..Len(tokens)
  BY DEF AInv, ATypeOK
<1>1. ATypeOK'
  BY <1>0 DEF AInv, ATypeOK
<1>2. AccountsAreDistinct' /\ AccountsComeWithToken' /\ ProfileIsFirst' /\ CreatedInThePast'
  BY DEF AInv, AccountsAreDistinct, AccountsComeWithToken, ProfileIsFirst, CreatedInThePast
<1>3. QED BY <1>1, <1>2 DEF AInv

\* A request that ends leaves the others as they are.
LEMMA EndingLeavesCalls ==
    ASSUME AInv, NEW r \in Requests, call' = [call EXCEPT ![r] = NoRequest]
    PROVE  /\ call' \in [Requests -> Call \cup {NoRequest}]
           /\ \A q \in Requests : Calling(q)' => q # r /\ Calling(q) /\ call'[q] = call[q]
<1>1. call \in [Requests -> Call \cup {NoRequest}]
  BY DEF AInv, ATypeOK
<1>2. QED BY <1>1 DEF Calling

\* A request that begins is of its own kind, and has inserted nothing.
LEMMA CallsPreserves ==
    ASSUME AInv, NEW r \in Requests, NEW op, NEW of, Calls(r, op, of),
           \/ op = "register" /\ of \in Name
           \/ op \in {"login", "password", "details"} /\ of \in 1..Len(users)
           \/ op = "logout" /\ of \in 1..Len(tokens)
    PROVE  AInv'
<1>1. DEFINE new == [op |-> op, st |-> "loaded", of |-> of]
<1>2. /\ call \in [Requests -> Call \cup {NoRequest}] /\ called \in Nat
      /\ users \in Seq(User) /\ tokens \in Seq(Token)
      /\ refused \in 0..Len(tokens)
  BY DEF AInv, ATypeOK
<1>3. Len(users) \in Nat /\ Len(tokens) \in Nat
  BY <1>2
<1>4. new \in Call /\ new.op = op /\ new.st = "loaded" /\ new.of = of
  <2>1. of \in Name \/ of \in Nat
    BY <1>3
  <2>2. new \in Call
    BY <1>3 DEF Call
  <2>3. QED BY <2>2
<1>5. /\ call' = [call EXCEPT ![r] = new] /\ called' = called + 1
      /\ UNCHANGED <<users, tokens, profile, held, refused, day>>
  BY DEF Calls
<1> HIDE DEF new
<1>6. /\ call'[r] = new /\ \A q \in Requests \ {r} : call'[q] = call[q]
      /\ call' \in [Requests -> Call \cup {NoRequest}]
  BY <1>2, <1>4, <1>5
<1>7. ASSUME NEW q \in Requests, InCall(q)' PROVE q # r /\ InCall(q) /\ call'[q] = call[q]
  BY <1>4, <1>6, <1>7 DEF InCall, Calling
<1>8. InsertedAreDistinct'
  BY <1>5, <1>7 DEF AInv, InsertedAreDistinct, TakenName
<1>9. CallsAreSound'
  <2>1. ASSUME NEW q \in Requests \ {r}, Calling(q)'
        PROVE  /\ call'[q].op = "logout" => call'[q].of \in 1..Len(tokens')
               /\ call'[q].op \in {"login", "password", "details"} =>
                    call'[q].of \in 1..Len(users')
    BY <1>5, <1>6, <2>1 DEF AInv, CallsAreSound, Calling
  <2>2. /\ call'[r].op = "logout" => call'[r].of \in 1..Len(tokens')
        /\ call'[r].op \in {"login", "password", "details"} =>
             call'[r].of \in 1..Len(users')
    BY <1>4, <1>5, <1>6
  <2>3. QED BY <2>1, <2>2 DEF CallsAreSound
<1>10. QED BY <1>2, <1>5, <1>6, <1>8, <1>9, RowsUnchanged

LEMMA ClashIsSymmetric == \A n, m : Clash(n, m) <=> Clash(m, n)
BY DEF Clash

\* A registration is flushed when its names are nobody's.
LEMMA FlushCallPreserves ==
    ASSUME AInv, NEW r \in Requests, FlushCall(r)
    PROVE  AInv'
<1>1. /\ call \in [Requests -> Call \cup {NoRequest}] /\ call[r] \in Call
      /\ called \in Nat /\ refused \in 0..Len(tokens)
  BY DEF AInv, ATypeOK, FlushCall, Calling
<1>2. DEFINE new == [call[r] EXCEPT !.st = "flushed"]
<1>3. new \in Call /\ new.op = call[r].op /\ new.of = call[r].of
  <2>1. ASSUME NEW old \in Call
        PROVE  /\ [old EXCEPT !.st = "flushed"] \in Call
               /\ [old EXCEPT !.st = "flushed"].op = old.op
               /\ [old EXCEPT !.st = "flushed"].of = old.of
    BY DEF Call
  <2>2. QED BY <1>1, <2>1
<1>4. /\ call' = [call EXCEPT ![r] = new] /\ call[r] # NoRequest
      /\ call[r].op = "register" =>
           /\ ~TakenName(call[r].of)
           /\ \A q \in Requests :
                InCall(q) /\ call[q].op = "register" => ~Clash(call[q].of, call[r].of)
      /\ UNCHANGED <<users, tokens, profile, held, refused, day, called>>
  BY DEF FlushCall, Calling
<1> HIDE DEF new
<1>5. /\ call'[r] = new /\ \A q \in Requests \ {r} : call'[q] = call[q]
      /\ call' \in [Requests -> Call \cup {NoRequest}]
  BY <1>1, <1>3, <1>4
<1>6. \A q \in Requests : call'[q].op = call[q].op /\ call'[q].of = call[q].of
  BY <1>3, <1>5
<1>7. \A q \in Requests \ {r} : InCall(q)' => InCall(q)
  BY <1>5 DEF InCall, Calling
<1>8. \A p \in Requests : TakenName(call[p].of)' <=> TakenName(call[p].of)
  <2>1. ASSUME NEW p \in Requests PROVE TakenName(call[p].of)' <=> TakenName(call'[p].of)
    BY <1>4 DEF TakenName
  <2>2. QED BY <1>6, <2>1
<1>9. InsertedAreDistinct'
  <2> SUFFICES ASSUME NEW p \in Requests, NEW q \in Requests,
                      InCall(p)', call'[p].op = "register"
               PROVE  /\ ~TakenName(call[p].of)'
                      /\ InCall(q)' /\ call'[q].op = "register"
                           /\ Clash(call'[q].of, call'[p].of) => q = p
    BY DEF InsertedAreDistinct
  <2>1. CASE p = r
    BY <1>4, <1>6, <1>7, <1>8, <2>1
  <2>2. CASE p # r
    <3>1. InCall(p) /\ call[p].op = "register"
      BY <1>6, <1>7, <2>2
    <3>2. ~TakenName(call[p].of)'
      BY <1>6, <1>8, <3>1 DEF AInv, InsertedAreDistinct
    <3>3. ASSUME InCall(q)', call'[q].op = "register", Clash(call'[q].of, call'[p].of)
          PROVE  q = p
      <4>1. CASE q = r
        BY <1>4, <1>6, <3>1, <3>3, <4>1, ClashIsSymmetric
      <4>2. CASE q # r
        BY <1>6, <1>7, <3>1, <3>3, <4>2 DEF AInv, InsertedAreDistinct
      <4>3. QED BY <4>1, <4>2
    <3>4. QED BY <3>2, <3>3
  <2>3. QED BY <2>1, <2>2
<1>10. CallsAreSound'
  <2>1. \A q \in Requests : Calling(q)' => Calling(q)
    BY <1>4, <1>5 DEF Calling
  <2>2. QED BY <1>4, <1>6, <2>1 DEF AInv, CallsAreSound
<1>11. QED BY <1>1, <1>4, <1>5, <1>9, <1>10, RowsUnchanged

LEMMA RollbackCallPreserves ==
    ASSUME AInv, NEW r \in Requests,
           RollbackCall(r) \/ NameTaken(r) \/ CommitDetails(r)
    PROVE  AInv'
<1>1. /\ call' = [call EXCEPT ![r] = NoRequest]
      /\ UNCHANGED <<users, tokens, profile, refused, day, called>>
      /\ held' \in {held, 0}
  BY DEF RollbackCall, NameTaken, CommitDetails, HeldAfterFailure
<1>2. called \in Nat /\ refused \in 0..Len(tokens)
  BY DEF AInv, ATypeOK
<1>3. InsertedAreDistinct'
  BY <1>1, EndingLeavesCalls DEF AInv, InsertedAreDistinct, InCall, TakenName
<1>4. CallsAreSound'
  BY <1>1, EndingLeavesCalls DEF AInv, CallsAreSound
<1>5. QED BY <1>1, <1>2, <1>3, <1>4, EndingLeavesCalls, RowsUnchanged

\* Tokens are added, or some column of them changes, for users that exist.
LEMMA TokensChange ==
    ASSUME AInv, UNCHANGED <<users, profile, day>>, refused' = refused, called' = called,
           NEW r \in Requests, call' = [call EXCEPT ![r] = NoRequest],
           tokens' \in Seq(Token), 1..Len(tokens) \subseteq 1..Len(tokens'),
           \A t \in 1..Len(tokens) : tokens'[t].user = tokens[t].user,
           \A t \in 1..Len(tokens') : tokens'[t].user \in 1..Len(users),
           held' \in 0..Len(tokens')
    PROVE  AInv'
<1>1. /\ Len(tokens) \in Nat /\ Len(tokens') \in Nat
      /\ refused' \in 0..Len(tokens') /\ called' \in Nat
  <2>1. /\ Len(tokens) \in Nat /\ Len(tokens') \in Nat /\ called' \in Nat
        /\ refused \in 0..Len(tokens)
    BY DEF AInv, ATypeOK
  <2>2. refused = 0 \/ refused \in 1..Len(tokens')
    BY <2>1
  <2>3. QED BY <2>1, <2>2
<1>2. ATypeOK'
  BY <1>1, EndingLeavesCalls DEF AInv, ATypeOK
<1>3. AccountsAreDistinct' /\ ProfileIsFirst' /\ CreatedInThePast'
  BY DEF AInv, AccountsAreDistinct, ProfileIsFirst, CreatedInThePast
<1>4. AccountsComeWithToken'
  <2>1. ASSUME NEW u \in 1..Len(users) PROVE \E t \in 1..Len(tokens') : tokens'[t].user = u
    <3>1. PICK t \in 1..Len(tokens) : tokens[t].user = u
      BY DEF AInv, AccountsComeWithToken
    <3>2. t \in 1..Len(tokens') /\ tokens'[t].user = u
      BY <3>1
    <3>3. QED BY <3>2
  <2>2. QED BY <2>1 DEF AccountsComeWithToken
<1>5. InsertedAreDistinct'
  BY EndingLeavesCalls DEF AInv, InsertedAreDistinct, InCall, TakenName
<1>6. CallsAreSound'
  <2>1. ASSUME NEW q \in Requests, Calling(q)'
        PROVE  /\ call'[q].op = "logout" => call'[q].of \in 1..Len(tokens')
               /\ call'[q].op \in {"login", "password", "details"} =>
                    call'[q].of \in 1..Len(users')
    <3>1. Calling(q) /\ call'[q] = call[q]
      BY <2>1, EndingLeavesCalls
    <3>2. /\ call[q].op = "logout" => call[q].of \in 1..Len(tokens)
          /\ call[q].op \in {"login", "password", "details"} =>
               call[q].of \in 1..Len(users)
      BY <3>1 DEF AInv, CallsAreSound
    <3>3. QED BY <3>1, <3>2
  <2>2. QED BY <2>1 DEF CallsAreSound
<1>7. QED BY <1>2, <1>3, <1>4, <1>5, <1>6 DEF AInv

LEMMA CommitLoginPreserves ==
    ASSUME AInv, NEW r \in Requests, CommitLogin(r)
    PROVE  AInv'
<1>1. /\ tokens \in Seq(Token) /\ day \in Nat /\ Life \in Nat /\ Len(users) \in Nat
      /\ \A t \in 1..Len(tokens) : tokens[t].user \in 1..Len(users)
  BY AccountBounds DEF AInv, ATypeOK
<1>2. call[r].of \in 1..Len(users)
  BY DEF CommitLogin, InCall, AInv, CallsAreSound
<1>3. DEFINE new == NewToken(call[r].of)
<1>4. new \in Token /\ new.user = call[r].of
  BY <1>1, <1>2 DEF NewToken, Token
<1>5. /\ tokens' = Append(tokens, new) /\ held' = Len(tokens) + 1
      /\ call' = [call EXCEPT ![r] = NoRequest]
      /\ UNCHANGED <<users, profile, refused, day, called>>
  BY DEF CommitLogin
<1> HIDE DEF new
<1>6. /\ tokens' \in Seq(Token) /\ Len(tokens') = Len(tokens) + 1 /\ Len(tokens) \in Nat
      /\ \A t \in 1..Len(tokens) : tokens'[t] = tokens[t]
      /\ tokens'[Len(tokens) + 1] = new
  BY <1>1, <1>4, <1>5
<1>7. \A t \in 1..Len(tokens') : tokens'[t].user \in 1..Len(users)
  <2>1. \A t \in 1..Len(tokens') : t \in 1..Len(tokens) \/ t = Len(tokens) + 1
    BY <1>6
  <2>2. QED BY <1>1, <1>2, <1>4, <1>6, <2>1
<1>8. held' \in 0..Len(tokens') /\ 1..Len(tokens) \subseteq 1..Len(tokens')
  BY <1>5, <1>6
<1>9. \A t \in 1..Len(tokens) : tokens'[t].user = tokens[t].user
  BY <1>6
<1>10. QED BY <1>5, <1>6, <1>7, <1>8, <1>9, TokensChange

\* The query of change_password selects no token.
LEMMA CommitPasswordPreserves ==
    ASSUME AInv, NEW r \in Requests, CommitPassword(r)
    PROVE  AInv'
<1>1. /\ tokens \in Seq(Token) /\ held \in 0..Len(tokens)
      /\ \A t \in 1..Len(tokens) : tokens[t].user \in 1..Len(users)
  BY DEF AInv, ATypeOK
<1>2. tokens' = [t \in 1..Len(tokens) |-> tokens[t]]
  BY DEF CommitPassword, NotRevoked
<1>3. tokens' = tokens
  BY <1>1, <1>2
<1>4. /\ call' = [call EXCEPT ![r] = NoRequest]
      /\ UNCHANGED <<users, profile, held, refused, day, called>>
  BY DEF CommitPassword
<1>5. /\ tokens' \in Seq(Token) /\ held' \in 0..Len(tokens')
      /\ 1..Len(tokens) \subseteq 1..Len(tokens')
      /\ \A t \in 1..Len(tokens) : tokens'[t].user = tokens[t].user
      /\ \A t \in 1..Len(tokens') : tokens'[t].user \in 1..Len(users)
  BY <1>1, <1>3, <1>4
<1>6. QED BY <1>4, <1>5, TokensChange

LEMMA CommitLogoutPreserves ==
    ASSUME AInv, NEW r \in Requests, CommitLogout(r)
    PROVE  AInv'
<1>1. /\ tokens \in Seq(Token) /\ held \in 0..Len(tokens)
      /\ \A t \in 1..Len(tokens) : tokens[t].user \in 1..Len(users)
  BY DEF AInv, ATypeOK
<1>2. call[r].of \in 1..Len(tokens)
  BY DEF CommitLogout, InCall, AInv, CallsAreSound
<1>3. DEFINE i == call[r].of  new == [tokens[i] EXCEPT !.revoked = TRUE]
<1>4. new \in Token /\ new.user = tokens[i].user
  <2>1. tokens[i] \in Token
    BY <1>1, <1>2
  <2>2. QED BY <2>1 DEF Token
<1>5. /\ tokens' = [tokens EXCEPT ![i] = new] /\ held' = 0
      /\ call' = [call EXCEPT ![r] = NoRequest]
      /\ UNCHANGED <<users, profile, refused, day, called>>
  BY DEF CommitLogout
<1>6. i \in 1..Len(tokens)
  BY <1>2
<1> HIDE DEF i, new
<1>7. /\ tokens' \in Seq(Token) /\ Len(tokens') = Len(tokens) /\ Len(tokens) \in Nat
      /\ \A t \in 1..Len(tokens) : tokens'[t] = IF t = i THEN new ELSE tokens[t]
  BY <1>1, <1>4, <1>5, <1>6
<1>8. \A t \in 1..Len(tokens) : tokens'[t].user = tokens[t].user
  BY <1>4, <1>7
<1>9. held' \in 0..Len(tokens') /\ 1..Len(tokens) \subseteq 1..Len(tokens')
  BY <1>5, <1>7
<1>10. \A t \in 1..Len(tokens') : tokens'[t].user \in 1..Len(users)
  BY <1>1, <1>7, <1>8
<1>11. QED BY <1>5, <1>7, <1>8, <1>9, <1>10, TokensChange

\* A registration adds a user and a token of it: names that were nobody's.
LEMMA CommitRegisterPreserves ==
    ASSUME AInv, NEW r \in Requests, CommitRegister(r)
    PROVE  AInv'
<1>1. /\ users \in Seq(User) /\ tokens \in Seq(Token)
      /\ day \in 0..MaxDay /\ MaxDay \in Nat /\ Life \in Nat
      /\ Len(users) \in Nat /\ Len(tokens) \in Nat
      /\ \A t \in 1..Len(tokens) : tokens[t].user \in 1..Len(users)
      /\ profile \in 0..Len(users) /\ refused \in 0..Len(tokens) /\ called \in Nat
  BY AccountBounds DEF AInv, ATypeOK
<1>2. DEFINE n == call[r].of  u == Len(users) + 1
             newUser == [email |-> n[1], username |-> n[2], created |-> day]
             newToken == NewToken(u)
<1>3. n \in Name /\ ~TakenName(n)
  <2>1. call[r] \in Call /\ call[r].op = "register" /\ InCall(r)
    BY DEF CommitRegister, InCall, Calling, AInv, ATypeOK
  <2>2. n \in Name
    BY <2>1 DEF Call
  <2>3. QED BY <2>1, <2>2 DEF AInv, InsertedAreDistinct
<1>4. /\ newUser \in User /\ newUser.created = day
      /\ newUser.email = n[1] /\ newUser.username = n[2]
  BY <1>1, <1>3 DEF User, Name
<1>5. newToken \in Token /\ newToken.user = u
  BY <1>1 DEF NewToken, Token
<1>6. /\ users' = Append(users, newUser) /\ tokens' = Append(tokens, newToken)
      /\ held' = Len(tokens) + 1
      /\ call' = [call EXCEPT ![r] = NoRequest]
      /\ UNCHANGED <<profile, refused, day, called>>
  BY DEF CommitRegister
<1> HIDE DEF newUser, newToken
<1>7. /\ users' \in Seq(User) /\ Len(users') = u
      /\ \A v \in 1..Len(users) : users'[v] = users[v]
      /\ users'[u] = newUser
      /\ 1..Len(users') = 1..Len(users) \cup {u}
  BY <1>1, <1>4, <1>6
<1>8. /\ tokens' \in Seq(Token) /\ Len(tokens') = Len(tokens) + 1
      /\ \A t \in 1..Len(tokens) : tokens'[t] = tokens[t]
      /\ tokens'[Len(tokens) + 1] = newToken
      /\ 1..Len(tokens') = 1..Len(tokens) \cup {Len(tokens) + 1}
  BY <1>1, <1>5, <1>6
<1>9. /\ profile' \in 0..Len(users') /\ held' \in 0..Len(tokens')
      /\ refused' \in 0..Len(tokens')
  BY <1>1, <1>6, <1>7, <1>8
<1>10. \A t \in 1..Len(tokens') : tokens'[t].user \in 1..Len(users')
  BY <1>1, <1>5, <1>7, <1>8
<1>11. ATypeOK'
  <2>1. call' \in [Requests -> Call \cup {NoRequest}]
    BY <1>6, EndingLeavesCalls
  <2>2. day' \in 0..MaxDay /\ called' \in Nat
    BY <1>1, <1>6
  <2>3. QED BY <1>7, <1>8, <1>9, <1>10, <2>1, <2>2 DEF ATypeOK
<1>12. n = <<n[1], n[2]>>
  BY <1>3 DEF Name
<1>13. \A v \in 1..Len(users) : ~Clash(n, <<users[v].email, users[v].username>>)
  BY <1>3 DEF TakenName
<1> HIDE DEF n, u
<1>14. AccountsAreDistinct'
  <2> SUFFICES ASSUME NEW v \in 1..Len(users'), NEW w \in 1..Len(users'),
                      Clash(<<users'[v].email, users'[v].username>>,
                            <<users'[w].email, users'[w].username>>)
               PROVE  v = w
    BY DEF AccountsAreDistinct, Clash
  <2>1. <<users'[u].email, users'[u].username>> = n
    BY <1>4, <1>7, <1>12
  <2>2. CASE v \in 1..Len(users) /\ w \in 1..Len(users)
    BY <1>7, <2>2 DEF AInv, AccountsAreDistinct
  <2>3. CASE v = u /\ w \in 1..Len(users)
    BY <1>7, <1>13, <2>1, <2>3
  <2>4. CASE w = u /\ v \in 1..Len(users)
    BY <1>7, <1>13, <2>1, <2>4, ClashIsSymmetric
  <2>5. QED BY <1>7, <2>2, <2>3, <2>4
<1>15. AccountsComeWithToken'
  <2>1. ASSUME NEW v \in 1..Len(users') PROVE \E t \in 1..Len(tokens') : tokens'[t].user = v
    <3>1. CASE v = u
      BY <1>5, <1>8, <3>1
    <3>2. CASE v \in 1..Len(users)
      <4>1. PICK t \in 1..Len(tokens) : tokens[t].user = v
        BY <3>2 DEF AInv, AccountsComeWithToken
      <4>2. t \in 1..Len(tokens') /\ tokens'[t].user = v
        BY <1>8, <4>1
      <4>3. QED BY <4>2
    <3>3. QED BY <1>7, <3>1, <3>2
  <2>2. QED BY <2>1 DEF AccountsComeWithToken
<1>16. \A q \in Requests : Calling(q)' =>
         q # r /\ Calling(q) /\ call'[q] = call[q]
  BY <1>6, EndingLeavesCalls
<1>17. InsertedAreDistinct'
  <2> SUFFICES ASSUME NEW p \in Requests, NEW q \in Requests,
                      InCall(p)', call'[p].op = "register"
               PROVE  /\ ~TakenName(call[p].of)'
                      /\ InCall(q)' /\ call'[q].op = "register"
                           /\ Clash(call'[q].of, call'[p].of) => q = p
    BY DEF InsertedAreDistinct, Clash
  <2>1. p # r /\ InCall(p) /\ call'[p] = call[p] /\ call[p].op = "register"
    BY <1>16 DEF InCall
  <2>2. ~TakenName(call[p].of) /\ ~Clash(call[p].of, n)
    <3>1. InCall(r) /\ call[r].op = "register"
      BY DEF CommitRegister
    <3>2. QED BY <2>1, <3>1 DEF AInv, InsertedAreDistinct, n
  <2>3. ASSUME NEW v \in 1..Len(users')
        PROVE  ~Clash(call[p].of, <<users'[v].email, users'[v].username>>)
    <3>1. CASE v = u
      <4>1. <<users'[u].email, users'[u].username>> = n
        BY <1>4, <1>7, <1>12
      <4>2. QED BY <2>2, <3>1, <4>1
    <3>2. CASE v \in 1..Len(users)
      BY <1>7, <2>2, <3>2 DEF TakenName
    <3>3. QED BY <1>7, <3>1, <3>2
  <2>4. ~TakenName(call[p].of)'
    BY <2>1, <2>3 DEF TakenName, Clash
  <2>5. ASSUME InCall(q)', call'[q].op = "register", Clash(call'[q].of, call'[p].of)
        PROVE  q = p
    <3>1. InCall(q) /\ call'[q] = call[q]
      BY <1>16, <2>5 DEF InCall
    <3>2. QED BY <2>1, <2>5, <3>1 DEF AInv, InsertedAreDistinct
  <2>6. QED BY <2>4, <2>5
<1>18. CallsAreSound'
  BY <1>7, <1>8, <1>16 DEF AInv, CallsAreSound
<1>19. CreatedInThePast'
  BY <1>1, <1>4, <1>6, <1>7 DEF AInv, CreatedInThePast
<1>20. ProfileIsFirst'
  <2>1. CASE profile = 0
    BY <1>6, <2>1 DEF ProfileIsFirst
  <2>2. CASE profile # 0
    <3>1. profile \in 1..Len(users) /\ users'[profile] = users[profile]
      BY <1>1, <1>7, <2>2
    <3>2. users[profile].created <= day
      BY <3>1 DEF AInv, CreatedInThePast
    <3>3. ASSUME NEW v \in 1..Len(users') PROVE users'[profile].created <= users'[v].created
      BY <1>4, <1>7, <2>2, <3>1, <3>2, <3>3 DEF AInv, ProfileIsFirst
    <3>4. QED BY <1>6, <3>3 DEF ProfileIsFirst
  <2>3. QED BY <2>1, <2>2
<1>21. QED BY <1>11, <1>14, <1>15, <1>17, <1>18, <1>19, <1>20 DEF AInv

LEMMA RestartPreserves == ASSUME AInv, Restart PROVE AInv'
<1>1. /\ call' = [r \in Requests |-> NoRequest] /\ called' = called + 1
      /\ profile' = profile \/ \E u \in 1..Len(users) : SeedProfile(u)
      /\ UNCHANGED <<users, tokens, refused, day>> /\ held' \in {held, 0}
  BY DEF Restart, HeldAfterFailure
<1>2. profile' \in 0..Len(users) /\ ProfileIsFirst'
  <2>1. CASE profile' = profile
    BY <1>1, <2>1 DEF AInv, ATypeOK, ProfileIsFirst
  <2>2. ASSUME NEW u \in 1..Len(users), SeedProfile(u)
        PROVE  profile' \in 0..Len(users) /\ ProfileIsFirst'
    <3>1. users \in Seq(User) /\ profile' = u
          /\ \A v \in 1..Len(users) : users[u].created <= users[v].created
      BY <2>2 DEF SeedProfile, AInv, ATypeOK
    <3>2. Len(users) \in Nat
      BY <3>1
    <3>3. QED BY <1>1, <3>1, <3>2 DEF ProfileIsFirst
  <2>3. QED BY <1>1, <2>1, <2>2
<1>3. ATypeOK'
  <2>1. Len(tokens) \in Nat
    BY DEF AInv, ATypeOK
  <2>2. QED BY <1>1, <1>2, <2>1 DEF AInv, ATypeOK
<1>4. AccountsAreDistinct' /\ AccountsComeWithToken' /\ CreatedInThePast'
  BY <1>1 DEF AInv, AccountsAreDistinct, AccountsComeWithToken, CreatedInThePast
<1>5. InsertedAreDistinct' /\ CallsAreSound'
  BY <1>1 DEF InsertedAreDistinct, CallsAreSound, InCall, Calling
<1>6. QED BY <1>2, <1>3, <1>4, <1>5 DEF AInv

LEMMA DaysPreserve == ASSUME AInv, NextDay PROVE AInv'
<1>1. /\ day \in 0..MaxDay /\ MaxDay \in Nat /\ day < MaxDay /\ day' = day + 1
      /\ users \in Seq(User)
      /\ UNCHANGED <<users, tokens, profile, call, held, refused, called>>
  BY AccountBounds DEF NextDay, AInv, ATypeOK
<1>2. ATypeOK'
  BY <1>1 DEF AInv, ATypeOK
<1>3. CreatedInThePast'
  <2>1. ASSUME NEW u \in 1..Len(users) PROVE users[u].created <= day + 1
    <3>1. users[u] \in User /\ users[u].created <= day
      BY <1>1 DEF AInv, CreatedInThePast
    <3>2. users[u].created \in 0..MaxDay
      BY <3>1 DEF User
    <3>3. QED BY <1>1, <3>1, <3>2
  <2>2. QED BY <1>1, <2>1 DEF CreatedInThePast
<1>4. /\ AccountsAreDistinct' /\ AccountsComeWithToken' /\ ProfileIsFirst'
      /\ InsertedAreDistinct' /\ CallsAreSound'
  BY <1>1 DEF AInv, AccountsAreDistinct, AccountsComeWithToken, ProfileIsFirst,
              InsertedAreDistinct, CallsAreSound, InCall, Calling, TakenName
<1>5. QED BY <1>2, <1>3, <1>4 DEF AInv

LEMMA NextAInv == AInv /\ [ANext]_avars => AInv'
<1> SUFFICES ASSUME AInv, [ANext]_avars PROVE AInv'
  OBVIOUS
<1>1. ASSUME NEW r \in Requests, NEW n \in Name, Register(r, n) PROVE AInv'
  BY <1>1, CallsPreserves DEF Register
<1>2. ASSUME NEW r \in Requests, NEW u \in 1..Len(users),
             Login(r, u) \/ ChangePassword(r, u) \/ ChangeDetails(r, u)
      PROVE  AInv'
  BY <1>2, CallsPreserves DEF Login, ChangePassword, ChangeDetails
<1>3. ASSUME NEW r \in Requests, Logout(r) PROVE AInv'
  <2>1. held \in 1..Len(tokens)
    BY <1>3 DEF Logout, AInv, ATypeOK
  <2>2. QED BY <1>3, <2>1, CallsPreserves DEF Logout
<1>4. CASE RefuseRefresh
  <2>1. /\ refused' = held /\ held' = 0
        /\ UNCHANGED <<users, tokens, profile, call, day, called>>
    BY <1>4 DEF RefuseRefresh
  <2>2. ATypeOK'
    BY <2>1 DEF AInv, ATypeOK
  <2>3. QED
    BY <2>1, <2>2 DEF AInv, AccountsAreDistinct, AccountsComeWithToken, ProfileIsFirst,
                      CreatedInThePast, InsertedAreDistinct, CallsAreSound, InCall,
                      Calling, TakenName
<1>5. CASE UNCHANGED avars
  BY <1>5 DEF avars, AInv, ATypeOK, AccountsAreDistinct, AccountsComeWithToken,
              ProfileIsFirst, CreatedInThePast, InsertedAreDistinct, CallsAreSound,
              InCall, Calling, TakenName
<1>6. QED
  BY <1>1, <1>2, <1>3, <1>4, <1>5, FlushCallPreserves, RollbackCallPreserves,
     CommitRegisterPreserves, CommitLoginPreserves, CommitPasswordPreserves,
     CommitLogoutPreserves, RestartPreserves, DaysPreserve DEF ANext

\* The inductive invariant of the accounts, for any names and any number of
\* concurrent requests.
THEOREM AccountsInvariant == ASpec => []AInv
<1>1. AInit => AInv
  BY AccountBounds
     DEF AInit, AInv, ATypeOK, AccountsAreDistinct, AccountsComeWithToken,
         ProfileIsFirst, CreatedInThePast, InsertedAreDistinct, CallsAreSound,
         InCall, Calling, TakenName
<1>2. QED BY <1>1, NextAInv, PTL DEF ASpec

\* `register': no two accounts ever share an e-mail or a username, and whoever
\* has an account was given a token with it.
THEOREM RegistrationsStayWhole == ASpec => []RegistrationsAreWhole
<1>1. AInv => RegistrationsAreWhole
  BY DEF AInv, RegistrationsAreWhole
<1>2. QED BY <1>1, AccountsInvariant, PTL

\* The profile seeded is the first user's.
THEOREM ProfileStaysFirst == ASpec => []ProfileIsFirst
<1>1. AInv => ProfileIsFirst
  BY DEF AInv
<1>2. QED BY <1>1, AccountsInvariant, PTL
=============================================================================
