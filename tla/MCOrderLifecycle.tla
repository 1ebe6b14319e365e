-------------------------- MODULE MCOrderLifecycle --------------------------
(***************************************************************************)
(* OrderLifecycle for TLC: the orders of backend/customer/seed.py that     *)
(* differ in what may be done with them, and status updates to the states  *)
(* that open or close a path.                                              *)
(***************************************************************************)
EXTENDS OrderLifecycle, TLC

\* A confirmed order differs from a shipped one in nothing the handlers test,
\* a refunded one can do nothing that a shipped one cannot.
DifferentOrders == {o \in SeededOrders : o.status \in {"delivered", "shipped", "pending"}}

VARIABLE serving     \* the request objects in use: one alone is served in turn

owvars == <<ovars, serving>>

OWInit == OInit /\ serving \in SUBSET Requests \ {{}}

ServedInTurn == \A q, r \in serving : q = r

\* More requests are served one at a time than side by side.
OWNext ==
    /\ ONext /\ UNCHANGED serving
    /\ Busy' \subseteq serving
    /\ served' <= IF ServedInTurn THEN MaxServed ELSE MaxServed - 1

OWSpec == OWInit /\ [][OWNext]_owvars

RequestSymmetry == Permutations(Requests)

\* cancel_order, request_return and the rest one at a time: the status history
\* is a chain;
ChainWhenInTurn == ServedInTurn => HistoryIsChain

\* cancel_order spares a delivered order, and approve_refund and reject_refund
\* decide once.
SettledWhenInTurn == [][ServedInTurn => DeliveredIsKept /\ DecisionIsKept]_owvars

\* What makes these two inductive, beside OInv: a request that is alone finds
\* the order, or the return, as it has loaded it, and what it decided on true;
LoadedIsPresent ==
    \A r \in Busy :
      LET q == req[r] IN
      /\ q.row = 0 => q.from = order.status
      /\ q.op = "cancel" => q.from \notin {"cancelled", "refunded", "delivered"}
      /\ q.row # 0 => returns[q.row].status = "requested"

\* the last visible entry leads to the order's status, be it a transition or not;
LastLeads ==
    \A i \in 1..Len(log) :
      Visible(i) /\ (\A j \in (i+1)..Len(log) : ~Visible(j))
        => log[i].to = order.status

\* and only the last entry may be pending.
PendingIsLast == \A i \in 1..Len(log) : log[i].st = "pending" => i = Len(log)

InTurn == LoadedIsPresent /\ LastLeads /\ PendingIsLast /\ HistoryIsChain

\* The inductive invariant of requests on an order that are served in turn.
TurnInv == Busy \subseteq serving /\ (ServedInTurn => InTurn)
=============================================================================
