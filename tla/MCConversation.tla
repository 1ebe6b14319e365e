--------------------------- MODULE MCConversation ---------------------------
(***************************************************************************)
(* Answering and ChatClient for TLC: a behaviour takes the steps of one of *)
(* them, `part', for the browser sees of a question only that its answer   *)
(* comes.  The questions are those below, with what the tables of keywords *)
(* and the regular expressions of the code find in them.                   *)
(***************************************************************************)
EXTENDS Answering, ChatClient

Says == [greeting |-> FALSE, db |-> FALSE, direct |-> None, followUps |-> <<>>,
         pronoun |-> FALSE, trackingLike |-> FALSE,
         order |-> None, shipments |-> {}, ticket |-> None]

\* What the tables and expressions of the code find in:
Asked == {
    \* "Hi"
    [Says EXCEPT !.greeting = TRUE],
    \* "Where is it?"
    [Says EXCEPT !.pronoun = TRUE],
    \* "When will it arrive?"
    [Says EXCEPT !.db = TRUE, !.direct = "tracking", !.pronoun = TRUE],
    \* "How much does this cost?"
    [Says EXCEPT !.direct = "pricing", !.pronoun = TRUE,
                 !.followUps = <<"shipping", "pricing">>],
    \* "What is my order status?"
    [Says EXCEPT !.db = TRUE, !.direct = "order_status", !.followUps = <<"order_status">>],
    \* "Track <o2's shipment>", <a number of nobody's order>
    [Says EXCEPT !.trackingLike = TRUE, !.shipments = {"p2"},
                 !.followUps = <<"shipping", "order_status", "tracking">>],
    \* "Has my order shipped, <o2>?"
    [Says EXCEPT !.direct = "tracking", !.followUps = <<"shipping", "order_status">>,
                 !.order = "o2"],
    \* "My latest package?"
    [Says EXCEPT !.followUps = <<"tracking">>],
    \* "What is your refund policy?"
    [Says EXCEPT !.direct = "refund", !.followUps = <<"refund">>],
    \* "How do I pay my bill?"
    [Says EXCEPT !.direct = "billing", !.followUps = <<"invoice", "billing">>],
    \* "How many loyalty points do I have?"
    [Says EXCEPT !.db = TRUE, !.direct = "loyalty", !.followUps = <<"loyalty">>],
    \* "Tell me about the weather."
    Says}
    \cup \* "Order status of <order>"
    {[Says EXCEPT !.db = TRUE, !.direct = "order_status", !.followUps = <<"order_status">>,
                  !.order = o] : o \in {"o2", "o9"}}
    \cup \* "My ticket?", "My ticket <ticket>?"
    {[Says EXCEPT !.db = TRUE, !.direct = "ticket", !.ticket = t] : t \in {None, "t2", "t9"}}

Item(n, s, cat, w) == [number |-> n, status |-> s, category |-> cat, warranty |-> w]

\* A customer with two orders on their way, one with another order, and one
\* with nothing.
Alice == [orders |-> <<Item("o1", "shipped", "Hardware", TRUE),
                       Item("o2", "delivered", "Software", FALSE),
                       Item("o3", "pending", "Hardware", FALSE)>>,
          shipments |-> <<[number |-> "p1", order |-> "o1"],
                          [number |-> "p2", order |-> "o2"]>>,
          tickets |-> <<"t1", "t2">>,
          methods |-> {"visa"}, plans |-> {"pro"}, tier |-> "gold"]
Bob == [orders |-> <<Item("o9", "processing", "Software", FALSE)>>,
        shipments |-> <<>>, tickets |-> <<"t9">>,
        methods |-> {}, plans |-> {"basic"}, tier |-> "bronze"]
Visitor == [orders |-> <<>>, shipments |-> <<>>, tickets |-> <<>>,
            methods |-> {}, plans |-> {}, tier |-> None]

Known == {Alice, Bob, Visitor}

Wordings == {None, "billing"}

-----------------------------------------------------------------------------
\* The types of both.
TalkTypeOK == AnTypeOK /\ HTypeOK

VARIABLE part

TalkInit ==
    /\ part \in {"graph", "browser"}
    /\ AnInit /\ HInit
    /\ made = {CHOOSE s \in ChatSessions : TRUE}

TalkNext ==
    /\ UNCHANGED part
    /\ \/ part = "graph" /\ AnNext /\ UNCHANGED hvars
       \/ part = "browser" /\ HNext /\ UNCHANGED anvars

TalkSpec == TalkInit /\ [][TalkNext]_<<anvars, hvars, part>>
=============================================================================
