----------------------------- MODULE FakeBroker -----------------------------
(***************************************************************************)
(* DurableFakeBroker (execution/fake_broker.py): the persistent, fault-    *)
(* injecting broker behind the control plane.                              *)
(*                                                                         *)
(* Each method is one transaction and one action.  The scenario that the   *)
(* code pops from its scenario queue is a parameter: a run may have queued *)
(* any.  An event's broker_event_id is its position in the event log.      *)
(***************************************************************************)
EXTENDS ExecutionTypes, Sequences

VARIABLES
    orders,     \* broker_orders by client order key
    events,     \* broker_events in sequence order
    fence,      \* broker_meta.highest_fencing_token
    cash        \* broker_meta.cash, counted from starting_cash

brokerVars == <<orders, events, fence, cash>>

SubmitScenario ==
    {"ACCEPT", "ACCEPT_DROP_RESPONSE", "DUPLICATE_ACK", "REJECT", "PARTIAL_FILL",
     "MISSING_PROTECTION"}

CancelScenario == {"ACCEPT", "CANCEL_DROP_RESPONSE"}

NoOrder == [status |-> "ABSENT", filled |-> 0, protected |-> FALSE]

BrokerInit ==
    /\ orders = [k \in Keys |-> NoOrder]
    /\ events = <<>>
    /\ fence = 0
    /\ cash = 0

AtBroker == {k \in Keys : orders[k].status # "ABSENT"}

\* The protection quantity a snapshot reports for an order: capped by the fills.
protection_quantity(o) == IF o.protected THEN o.filled ELSE 0

ev(k, type, n) == [key |-> k, type |-> type, qty |-> n]

\* Positions in the event log of the events of an order (_events_for).
events_for(k) == {n \in 1 .. Len(events) : events[n].key = k}

-----------------------------------------------------------------------------
\* Mutant: the fence follows whoever calls, older tokens included.
accept_fencing_token_any(token) == fence' = token

\* _accept_fencing_token: a token below the highest one seen is refused.
accept_fencing_token(token) ==
    /\ token >= fence
    /\ fence' = token

advance_fence(token) ==
    /\ accept_fencing_token(token)
    /\ UNCHANGED <<orders, events, cash>>

\* Mutant: the requested quantity is filled whatever remains.
fill_amount_requested(o, n) == IF o.filled < Qty THEN n ELSE 0

\* What _fill makes of an order: at most the remaining quantity is filled.
fill_amount(o, n) == IF n < Qty - o.filled THEN n ELSE Qty - o.filled

filled_order(o, n) ==
    [o EXCEPT !.filled = o.filled + n,
              !.status = IF o.filled + n = Qty THEN "FILLED" ELSE "PARTIALLY_FILLED"]

fill_event(k, o, n) == ev(k, IF o.filled + n = Qty THEN "FILL" ELSE "PARTIAL_FILL", n)

\* Mutant: the lookup of an earlier submission always misses.
known_order_never(k) == FALSE /\ k \in AtBroker

\* submit looks the client order key up first: the order it finds is the answer.
known_order(k) == k \in AtBroker

\* A resubmitted key: the stored events of the order are answered, nothing changes.
submit_known(k, token) ==
    /\ known_order(k)
    /\ accept_fencing_token(token)
    /\ UNCHANGED <<orders, events, cash>>

\* max(1, quantity // 2), the first fill of a PARTIAL_FILL scenario.
partial_quantity == IF Qty \div 2 > 1 THEN Qty \div 2 ELSE 1

\* A new order; the answer (or its loss) is up to the scenario.
submit_new(k, token, scenario) ==
    LET o == [status |-> "ACCEPTED", filled |-> 0,
              protected |-> scenario # "MISSING_PROTECTION"]
    IN  /\ ~known_order(k)
        /\ accept_fencing_token(token)
        /\ \/ /\ scenario = "REJECT"
              /\ orders' = [orders EXCEPT ![k] = [o EXCEPT !.status = "REJECTED"]]
              /\ events' = Append(events, ev(k, "REJECTED", 0))
              /\ UNCHANGED cash
           \/ /\ scenario = "PARTIAL_FILL"
              /\ orders' = [orders EXCEPT ![k] = filled_order(o, partial_quantity)]
              /\ events' = Append(Append(events, ev(k, "ACKNOWLEDGED", 0)),
                                  fill_event(k, o, partial_quantity))
              /\ cash' = cash - partial_quantity
           \/ /\ scenario \notin {"REJECT", "PARTIAL_FILL"}
              /\ orders' = [orders EXCEPT ![k] = o]
              /\ events' = Append(events, ev(k, "ACKNOWLEDGED", 0))
              /\ UNCHANGED cash

\* fill: raises for an unknown or fully filled order.
fill(k, n) ==
    LET m == fill_amount(orders[k], n)
    IN  /\ k \in AtBroker
        /\ m > 0
        /\ orders' = [orders EXCEPT ![k] = filled_order(orders[k], m)]
        /\ events' = Append(events, fill_event(k, orders[k], m))
        /\ cash' = cash - m
        /\ UNCHANGED fence

\* cancel: an order that is not fully filled becomes CANCELLED and says so once more.
\* before is fill_before_cancel_quantity, the fill that slips in first.
cancel_order(k, token, before) ==
    LET m == IF before > 0 THEN fill_amount(orders[k], before) ELSE 0
        o == IF m > 0 THEN filled_order(orders[k], m) ELSE orders[k]
        es == IF m > 0 THEN Append(events, fill_event(k, orders[k], m)) ELSE events
    IN  /\ k \in AtBroker
        /\ accept_fencing_token(token)
        /\ cash' = cash - m
        /\ IF o.filled < Qty
           THEN /\ orders' = [orders EXCEPT ![k] = [o EXCEPT !.status = "CANCELLED"]]
                /\ events' = Append(es, ev(k, "CANCELLED", 0))
           ELSE /\ orders' = [orders EXCEPT ![k] = o]
                /\ events' = es

commission(k) ==
    /\ k \in AtBroker
    /\ events' = Append(events, ev(k, "COMMISSION", 0))
    /\ cash' = cash - 1
    /\ UNCHANGED <<orders, fence>>

\* An order placed at the broker behind the control plane's back: no event, no stop.
inject_broker_only_order(k) ==
    /\ k \notin AtBroker
    /\ orders' = [orders EXCEPT ![k] = [status |-> "ACCEPTED", filled |-> 0, protected |-> FALSE]]
    /\ UNCHANGED <<events, fence, cash>>

BrokerTypeOK ==
    /\ orders \in [Keys -> BrokerOrder]
    /\ events \in Seq(BrokerEvent)
    /\ fence \in Nat
    /\ cash \in Int
=============================================================================
