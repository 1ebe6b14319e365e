------------------------------ MODULE Answering ------------------------------
(***************************************************************************)
(* SupportGraph.query of orchestration/graph.py: a question goes through   *)
(* the nodes classify, retrieve, route, one answer node and generate, and  *)
(* leaves behind what the session is discussing, which the next question   *)
(* is read with.  One action is one node.                                  *)
(*                                                                         *)
(* Of a question's text only what the tables of keywords and the regular   *)
(* expressions find in it is kept, of an answer which of the customer's    *)
(* things it tells about and which intent its words suggest later on.      *)
(***************************************************************************)
EXTENDS Naturals, Sequences, FiniteSets, SequencesExt

CONSTANTS
    Questions,    \* what is found in each question, see Question
    Customers,    \* the data get_chat_context loads, see Customer
    HasLLM,       \* an LLM is configured
    Suggested,    \* the intents that words not of the code's own may suggest:
                  \* an LLM's, or those of a ticket
    HistoryTurns, \* how many messages the history of a question holds
    MaxQuestions  \* bound: questions asked

\* No intent, no entity, no number; the number of an order, a shipment or a
\* ticket, or another name of what a customer has, and what may be one.
None == "none"
Number == STRING \ {None}
OrNone == Number \cup {None}

\* The answer nodes, by name: those that choose among the customer's things,
\* those that list some of its orders, and those that tell of no order: of
\* something else it has, or of a policy only.
Choosing == {"tracking", "order_status", "ticket"}
Listing == {"shipping", "refund", "return_policy", "exchange", "invoice",
            "warranty", "licensing"}
Accounting == {"billing", "upgrade", "cancellation", "contact", "pricing", "loyalty"}
Policies == {"password", "trial", "privacy", "sla", "nonprofit"}
Intents == Choosing \cup Listing \cup Accounting \cup Policies \cup {"general"}

\* greeting: a GREETING_PATTERN matches.  db: some CUSTOMER_INTENT_PATTERN and
\* no POLICY_INTENT_PATTERN.  direct: the first match of INTENT_KEYWORDS.
\* followUps: all of FOLLOW_UP_KEYWORDS, in order.  pronoun, trackingLike:
\* PRONOUN_RE, TRACKING_RE.  order, ticket: the numbers named.  shipments: the
\* tracking numbers that a word of six or more letters and digits is part of
\* (in one question, one word at most is taken to be part of any).
Question == [greeting : BOOLEAN, db : BOOLEAN, direct : Intents \cup {None},
             followUps : Seq(Intents), pronoun : BOOLEAN, trackingLike : BOOLEAN,
             order : OrNone, shipments : SUBSET Number, ticket : OrNone]

\* Orders, shipments and tickets in the order they are loaded; the payment
\* methods, the active subscriptions, the loyalty tier.  (The default address
\* and the name are left out.)
CustomerOrder == [number : Number, status : STRING, category : STRING, warranty : BOOLEAN]
CustomerShipment == [number : Number, order : OrNone]
Customer == [orders : Seq(CustomerOrder), shipments : Seq(CustomerShipment),
             tickets : Seq(Number), methods : SUBSET Number,
             plans : SUBSET Number, tier : OrNone]

ASSUME TalkIsTyped == Questions \subseteq Question /\ Customers \subseteq Customer
ASSUME SuggestedAreIntents == Suggested \subseteq Intents \cup {None}
ASSUME AnswerBounds == HistoryTurns \in Nat /\ MaxQuestions \in Nat /\ HasLLM \in BOOLEAN

VARIABLES
    entities,  \* the session's discussed_entities, as saved
    hints,     \* the last messages of the session, by the intent they suggest
    node,      \* the node the question is at, "idle" between questions
    turn,      \* the ConversationState of the question
    asked      \* how many have been asked

anvars == <<entities, hints, node, turn, asked>>

Nothing == [order |-> None, tracking |-> None, ticket |-> None]

NoAnswer == [by |-> "nobody", kind |-> None, about |-> {}]

Node == {"idle", "classify", "respond_greeting", "retrieve", "route", "answer",
         "generate", "done"}

\* The ConversationState.  last: what the history suggests; before, entities:
\* what is discussed, before and after the answer.
Entities == [order : OrNone, tracking : OrNone, ticket : OrNone]

Turn == [question : Questions, customer : Customers, last : Intents \cup {None},
         before : Entities, entities : Entities, docs : BOOLEAN,
         intent : Intents \cup {None, "greeting"},
         answer : [by : {"nobody", "node", "llm", "fallback", "unavailable"},
                   kind : Intents \cup {None, "greeting", "no_info"},
                   about : SUBSET Number]]

AnTypeOK ==
    /\ entities \in Entities
    /\ hints \in Seq(Intents \cup {None}) /\ Len(hints) <= HistoryTurns
    /\ node \in Node
    /\ node # "idle" => turn \in Turn
    /\ asked \in 0..MaxQuestions

-----------------------------------------------------------------------------
\* The first of a sequence of records with that field; 0 when there is none.
FirstWith(s, P(_)) ==
    LET found == {i \in DOMAIN s : P(s[i])} IN
    IF found = {} THEN 0 ELSE CHOOSE i \in found : \A j \in found : i <= j

Numbers(s) == {s[i].number : i \in DOMAIN s}
FirstNumbers(s, n) == {s[i].number : i \in {j \in DOMAIN s : j <= n}}

\* The first n of the orders that are in one of these statuses.
FirstInStatus(c, statuses, n) ==
    LET in == {i \in DOMAIN c.orders : c.orders[i].status \in statuses} IN
    {c.orders[i].number : i \in {j \in in : Cardinality({k \in in : k < j}) < n}}

\* An answer node returns the answer and, three of them, new entities.
Told(kind, about, e) ==
    [answer |-> [by |-> "node", kind |-> kind, about |-> about], entities |-> e]

\* answer_tracking: the shipment named, else that of the order under
\* discussion, else the first one.  An order that is named is not looked at.
FirstShipment(q, c, e) ==      \* mutant: the order under discussion ignored
    IF Len(c.shipments) = 0 THEN Told("tracking", {}, e)
    ELSE LET named == FirstWith(c.shipments, LAMBDA s : s.number \in q.shipments)
             s == c.shipments[IF named # 0 THEN named ELSE 1] IN
         Told("tracking", {s.number}, [e EXCEPT !.tracking = s.number, !.order = s.order])

AnswerTracking(q, c, e) ==
    LET named == FirstWith(c.shipments, LAMBDA s : s.number \in q.shipments)
        discussed == FirstWith(c.shipments, LAMBDA s : s.order = e.order /\ e.order # None)
        i == IF named # 0 THEN named ELSE IF discussed # 0 THEN discussed ELSE 1
        s == c.shipments[i] IN
    IF Len(c.shipments) = 0 THEN Told("tracking", {}, e)
    ELSE Told("tracking", {s.number},
              [e EXCEPT !.tracking = s.number,
                        !.order = IF s.order # None THEN s.order ELSE @])

\* _resolve_order_number: the order named, else the one under discussion if
\* it is the customer's, else the only one.
ResolveDiscussedFirst(q, c, e) ==      \* mutant: the two swapped
    IF e.order \in Numbers(c.orders) THEN e.order
    ELSE IF q.order # None THEN q.order
    ELSE IF Len(c.orders) = 1 THEN c.orders[1].number ELSE None

ResolveOrderNumber(q, c, e) ==
    IF q.order # None THEN q.order
    ELSE IF e.order \in Numbers(c.orders) THEN e.order
    ELSE IF Len(c.orders) = 1 THEN c.orders[1].number ELSE None

\* answer_order_status: that order, or all of them
AnswersUnmatched(q, c, e) ==   \* mutant: the number not looked up
    LET o == ResolveOrderNumber(q, c, e) IN
    IF Len(c.orders) = 0 THEN Told("order_status", {}, e)
    ELSE Told("order_status", IF o # None THEN {o} ELSE Numbers(c.orders),
              [e EXCEPT !.order = o])

AnswerOrderStatus(q, c, e) ==
    LET o == ResolveOrderNumber(q, c, e) IN
    IF Len(c.orders) = 0 THEN Told("order_status", {}, e)
    ELSE Told("order_status",
              IF o \in Numbers(c.orders) THEN {o} ELSE Numbers(c.orders),
              [e EXCEPT !.order = o])

\* answer_ticket: the ticket named, else the one under discussion, else the
\* first five.
AnswerTicket(q, c, e) ==
    LET tickets == {c.tickets[i] : i \in DOMAIN c.tickets}
        wanted == IF q.ticket # None THEN q.ticket ELSE e.ticket IN
    IF tickets = {} THEN Told("ticket", {}, e)
    ELSE IF wanted \in tickets THEN Told("ticket", {wanted}, [e EXCEPT !.ticket = wanted])
    ELSE Told("ticket", {c.tickets[i] : i \in {j \in DOMAIN c.tickets : j <= 5}},
              [e EXCEPT !.ticket = None])

\* The answer nodes that list orders, and which.
AnswerShipping(c) == FirstInStatus(c, {"shipped", "confirmed", "processing"}, 2)
AnswerRefund(c) == FirstInStatus(c, {"delivered", "shipped"}, 2)
AnswerReturnPolicy(c) == FirstInStatus(c, {"delivered", "shipped"}, 2)
AnswerExchange(c) == {o.number : o \in {p \in ToSet(c.orders) : p.category = "Hardware"}}
AnswerLicensing(c) == {o.number : o \in {p \in ToSet(c.orders) : p.category = "Software"}}
AnswerWarranty(c) == {o.number : o \in {p \in ToSet(c.orders) : p.warranty}}
AnswerInvoice(c) == FirstNumbers(c.orders, 3)

\* Those that tell of something else.  (answer_cancellation asks whether a
\* subscription is active: get_chat_context loads no other.)
AnswerBilling(c) == c.methods \cup c.plans
AnswerUpgrade(c) == c.plans
AnswerCancellation(c) == c.plans
AnswerContact(c) == {c.tier} \ {None}
AnswerPricing(c) == {c.tier} \cap {"platinum", "gold", "silver"}
AnswerLoyalty(c) == {c.tier} \ {None}

\* INTENT_NODES
AnswerOf(intent, q, c, e) ==
    CASE intent = "tracking"      -> AnswerTracking(q, c, e)
      [] intent = "order_status"  -> AnswerOrderStatus(q, c, e)
      [] intent = "ticket"        -> AnswerTicket(q, c, e)
      [] intent = "shipping"      -> Told(intent, AnswerShipping(c), e)
      [] intent = "refund"        -> Told(intent, AnswerRefund(c), e)
      [] intent = "return_policy" -> Told(intent, AnswerReturnPolicy(c), e)
      [] intent = "exchange"      -> Told(intent, AnswerExchange(c), e)
      [] intent = "licensing"     -> Told(intent, AnswerLicensing(c), e)
      [] intent = "warranty"      -> Told(intent, AnswerWarranty(c), e)
      [] intent = "invoice"       -> Told(intent, AnswerInvoice(c), e)
      [] intent = "billing"       -> Told(intent, AnswerBilling(c), e)
      [] intent = "upgrade"       -> Told(intent, AnswerUpgrade(c), e)
      [] intent = "cancellation"  -> Told(intent, AnswerCancellation(c), e)
      [] intent = "contact"       -> Told(intent, AnswerContact(c), e)
      [] intent = "pricing"       -> Told(intent, AnswerPricing(c), e)
      [] intent = "loyalty"       -> Told(intent, AnswerLoyalty(c), e)
      [] intent \in Policies \cup {"general"} -> Told(intent, {}, e)

-----------------------------------------------------------------------------
\* The intents that an answer's text may suggest to
\* _find_last_intent_in_history, which reads its lines from the last: several,
\* where that depends on what else the text tells (an address, a delivery
\* date, a status, the words of a ticket).
HintsOf(a) ==
    CASE a.by = "fallback"                        -> {"contact"}
      [] a.by = "llm"                             -> Suggested
      [] a.by # "node"                            -> {None}
      [] a.kind \in {"greeting", "password", "invoice"} -> {"contact"}
      [] a.kind \in {"general", "no_info"}        -> {"refund"}
      [] a.kind = "order_status" /\ a.about = {}  -> {"contact"}
      [] a.kind = "order_status"                  -> {"shipping", None}
      [] a.kind = "tracking" /\ a.about = {}      -> {"order_status"}
      [] a.kind = "tracking"                      -> {"shipping", "tracking"}
      [] a.kind = "ticket" /\ a.about = {}        -> {"ticket"}
      [] a.kind = "ticket" /\ Cardinality(a.about) = 1 -> Suggested \cup {None}
      [] a.kind = "ticket"                        -> {"contact"}
      [] a.kind \in {"upgrade", "trial"}          -> {"billing"}
      [] a.kind = "cancellation"                  -> {IF a.about = {} THEN "privacy" ELSE "billing"}
      [] a.kind = "pricing"                       -> {IF a.about = {} THEN "pricing" ELSE "nonprofit"}
      [] a.kind = "nonprofit"                     -> {"pricing"}
      [] a.kind = "warranty" /\ a.about = {}      -> {"return_policy"}
      [] a.kind = "shipping" /\ a.about = {}      -> {"return_policy", "shipping"}
      [] a.kind = "licensing" /\ a.about = {}     -> {"billing"}
      [] OTHER                                    -> {a.kind}

RememberedAll(s, hint) == Append(s, hint)      \* mutant: no limit

Remembered(s, hint) ==
    LET t == Append(s, hint) IN
    IF Len(t) <= HistoryTurns THEN t ELSE Tail(t)

\* _find_last_intent_in_history
LastIntent(s) ==
    LET said == {i \in DOMAIN s : s[i] # None} IN
    IF said = {} THEN None ELSE s[CHOOSE i \in said : \A j \in said : j <= i]

\* _find_follow_up_match
FollowUp(q, last) ==
    IF q.followUps = <<>> THEN None
    ELSE IF Len(q.followUps) > 1 /\ last \in ToSet(q.followUps) THEN last
    ELSE q.followUps[1]

\* _resolve_intent_from_discussed
Discussed(e) ==
    IF e.order # None \/ e.tracking # None THEN "tracking"
    ELSE IF e.ticket # None THEN "ticket" ELSE None

\* What a question is taken for in the light of the conversation: the first
\* of these that is an intent.
FirstIntent(s) ==
    LET i == FirstWith(s, LAMBDA intent : intent # None) IN
    IF i = 0 THEN "general" ELSE s[i]

IntentOf(q, e, last) ==
    IF q.pronoun THEN FirstIntent(<<FollowUp(q, last), Discussed(e), last>>)
    ELSE FirstIntent(<<IF q.trackingLike THEN "tracking" ELSE None, q.direct,
                       IF Discussed(e) \in ToSet(q.followUps) THEN Discussed(e) ELSE None>>)

-----------------------------------------------------------------------------
AnInit ==
    /\ entities = Nothing /\ hints = <<>>
    /\ node = "idle" /\ turn = <<>> /\ asked = 0

\* query: the question is stored, then the history, which holds it, and the
\* session's state are read.  Each of them may fail, and is done without.
Ask(q, c) ==
    /\ node = "idle" /\ asked < MaxQuestions
    /\ asked' = asked + 1
    /\ hints' \in {hints, Remembered(hints, q.direct)}
    /\ \E last \in {LastIntent(hints'), None}, e \in {entities, Nothing} :
         turn' = [question |-> q, customer |-> c, last |-> last, before |-> e,
                  entities |-> e, docs |-> FALSE, intent |-> None, answer |-> NoAnswer]
    /\ node' = "classify"
    /\ UNCHANGED entities

Becomes(next, t) == node' = next /\ turn' = t /\ UNCHANGED <<entities, hints, asked>>

Classify ==
    /\ node = "classify"
    /\ IF turn.question.greeting
       THEN Becomes("respond_greeting", [turn EXCEPT !.intent = "greeting"])
       ELSE Becomes(IF turn.question.db THEN "route" ELSE "retrieve", turn)

\* respond_greeting: by the LLM, whose text may be empty, or a canned one when
\* there is none or it fails.
RespondGreeting ==
    /\ node = "respond_greeting"
    /\ \E a \in {[NoAnswer EXCEPT !.by = "node", !.kind = "greeting"]} \cup
                (IF HasLLM THEN {NoAnswer, [NoAnswer EXCEPT !.by = "llm"]} ELSE {}) :
         Becomes("generate", [turn EXCEPT !.answer = a])

\* retrieve: nothing may be relevant, and a failing search finds nothing.
Retrieve ==
    /\ node = "retrieve"
    /\ \E found \in BOOLEAN : Becomes("route", [turn EXCEPT !.docs = found])

Route ==
    /\ node = "route"
    /\ Becomes("answer",
         [turn EXCEPT !.intent = IntentOf(turn.question, turn.before, turn.last)])

\* The node of the intent; answer_general has what was retrieved, or says that
\* it has not enough information.
AnswerNode ==
    LET told == AnswerOf(turn.intent, turn.question, turn.customer, turn.before) IN
    /\ node = "answer"
    /\ Becomes("generate",
         [turn EXCEPT !.answer = IF turn.intent = "general" /\ ~turn.docs
                                 THEN [told.answer EXCEPT !.kind = "no_info"]
                                 ELSE told.answer,
                      !.entities = told.entities])

\* generate: the answer there is, or one of its own making.
Generate ==
    /\ node = "generate"
    /\ IF turn.answer # NoAnswer THEN Becomes("done", turn)
       ELSE \E a \in IF HasLLM /\ turn.docs
                     THEN {[NoAnswer EXCEPT !.by = "llm"], [NoAnswer EXCEPT !.by = "unavailable"]}
                     ELSE {[NoAnswer EXCEPT !.by = "fallback"]} :
              Becomes("done", [turn EXCEPT !.answer = a])

\* A node raises: the customer is told, and nothing is discussed.
GraphFails ==
    /\ node \in Node \ {"idle", "done"}
    /\ Becomes("done", [turn EXCEPT !.answer = [NoAnswer EXCEPT !.by = "unavailable"],
                                    !.entities = Nothing])

\* The end of query: the entities are saved unless there are none, and the
\* answer is stored, which may fail.
Finish ==
    /\ node = "done"
    /\ entities' = IF turn.entities = Nothing THEN entities ELSE turn.entities
    /\ \E hint \in HintsOf(turn.answer) : hints' \in {hints, Remembered(hints, hint)}
    /\ node' = "idle" /\ turn' = <<>> /\ UNCHANGED asked

AnNext ==
    \/ \E q \in Questions, c \in Customers : Ask(q, c)
    \/ Classify \/ RespondGreeting \/ Retrieve \/ Route \/ AnswerNode \/ Generate
    \/ GraphFails \/ Finish

AnSpec == AnInit /\ [][AnNext]_anvars

-----------------------------------------------------------------------------
\* What the graph makes of the question, when no node has raised.
HasAnswer == node \in {"generate", "done"} /\ turn.answer.by # "unavailable"
Answered == node = "done" /\ HasAnswer

Own(c) == Numbers(c.orders) \cup Numbers(c.shipments) \cup ToSet(c.tickets)
          \cup c.methods \cup c.plans \cup ({c.tier} \ {None})

\* Whatever fails on the way, the customer is told something: no answer
\* stored or streamed is empty.  And though the session may have discussed the
\* things of another customer (session ids are the client's choice), an answer
\* tells about those of the asking one.
AnswersAreOwn ==
    /\ node = "done" => turn.answer # NoAnswer
    /\ node \in {"generate", "done"} => turn.answer.about \subseteq Own(turn.customer)

\* What a question names is the one thing told about, and under discussion
\* next, whatever was discussed before: an order of the customer's, if the
\* question is taken for one about the status of orders, a ticket, if about
\* tickets, a shipment, if about tracking.  Nothing is said of an order that a
\* question about tracking names: answer_tracking (answers.py:413-436) tells of
\* the order under discussion, or of the first shipment.
NamedIsAnswered ==
    HasAnswer =>
      LET q == turn.question  c == turn.customer  a == turn.answer IN
      /\ a.kind = "order_status" /\ q.order \in Numbers(c.orders) =>
           a.about = {q.order} /\ turn.entities.order = q.order
      /\ a.kind = "ticket" /\ q.ticket \in ToSet(c.tickets) =>
           a.about = {q.ticket} /\ turn.entities.ticket = q.ticket
      /\ a.kind = "tracking" /\ q.shipments \cap Numbers(c.shipments) # {} =>
           /\ a.about = {turn.entities.tracking}
           /\ turn.entities.tracking \in q.shipments

\* "Where is it?" is about the order under discussion, when that has a
\* shipment, and leaves it under discussion: it does not drift to another order.
PronounKeepsOrder ==
    HasAnswer =>
      LET q == turn.question  e == turn.before
          own == {s \in ToSet(turn.customer.shipments) : s.order = e.order} IN
      q.pronoun /\ ~q.greeting /\ q.followUps = <<>> /\ q.shipments = {}
      /\ e.order # None /\ own # {} =>
        /\ turn.answer.about \subseteq {s.number : s \in own}
        /\ turn.answer.about # {} /\ turn.entities.order = e.order

\* What makes these inductive: at its node a question is a greeting or has the
\* intent it was routed by.
RoutedAsAsked ==
    /\ node = "respond_greeting" => turn.question.greeting
    /\ node = "answer" => turn.intent = IntentOf(turn.question, turn.before, turn.last)

AnInv ==
    /\ AnTypeOK /\ AnswersAreOwn /\ NamedIsAnswered /\ PronounKeepsOrder
    /\ RoutedAsAsked

\* What README.md says of a configured LLM: a support question, its prompt and
\* context are sent to it.  The answer node has always answered before.
LLMAnswersSupport ==
    Answered /\ HasLLM /\ turn.docs => turn.answer.by = "llm"
=============================================================================
