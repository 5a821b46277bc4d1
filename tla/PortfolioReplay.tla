--------------------------- MODULE PortfolioReplay ---------------------------
(***************************************************************************)
(* PortfolioReplayEngine.run over PortfolioLedger: the replay of a frozen  *)
(* snapshot frame by frame, with the order state machine                   *)
(* (simulation/orders.py) and the matching of HistoricalExchange           *)
(* (simulation/fills.py).                                                  *)
(*                                                                         *)
(* The engine is one thread; an action is one turn of its loops (a         *)
(* corporate action, an order offered to a bar, a proposal).  The frames   *)
(* and the policy's proposals are chosen from small sets as the replay     *)
(* goes.  Orders are numbered in the order they are accepted; the code's   *)
(* ids are hashes, so among orders of equal priority any may come first.   *)
(* An exception ends the replay: failure names its possible reasons.       *)
(***************************************************************************)
EXTENDS PortfolioLedger

CONSTANTS
    Bars,           \* first revisions of price bars, as the cursor delivers them
    Actions,        \* corporate actions of the snapshot
    Proposals,      \* what the candidate policy may propose
    SpreadTenths,   \* the cost adjustment of a price, in tenths of it
    PerShare,       \* commission_per_share
    MaxFrames,      \* bound: frames of the replay
    MaxBars,        \* bound: bars of a frame
    MaxActions,     \* bound: corporate actions of the replay
    MaxProposals    \* bound: proposals of the replay

Price == Nat \ {0}

\* What the models of bars, actions and proposals accept; 0 stands for a price that is not
\* given.
ASSUME ReplayAssumption ==
    /\ SpreadTenths \in 0..10 /\ PerShare \in Nat
    /\ Bars \subseteq [instrument : Instruments, open : Price, low : Price, high : Price,
                       close : Price, volume : Nat, halted : BOOLEAN, late : BOOLEAN]
    /\ Actions \subseteq [instrument : Instruments, type : STRING, amount : Nat,
                          announced : BOOLEAN]
    /\ \A a \in Actions : a.type = "SPLIT" => a.amount > 0
    /\ Proposals \subseteq
         [instrument : Instruments, side : {"BUY", "SELL"},
          kind : {"MARKET", "LIMIT", "STOP_MARKET", "STOP_LIMIT"}, quantity : Nat \ {0},
          planned : Price, limit : Nat, stop : Nat, protective_stop : Nat,
          protective_target : Nat, expires : Nat]

VARIABLES
    ledger,         \* PortfolioLedger
    orders,         \* the engine's TrackedOrders, numbered by acceptance
    failure,        \* reasons of the exception that ended the replay
    frame,          \* number of the current frame
    phase,          \* the loop the engine is in
    bar,            \* the bar being matched and the orders still to be offered it
    used            \* bars of this frame, actions and proposals so far

vars == <<ledger, orders, failure, frame, phase, bar, used>>

\* Decision times are eight apart; the bars of a frame become available between them.
\* One microsecond is 1.
Period == 8

as_of == frame * Period

NoBar == [none |-> TRUE]

Open == {"ACCEPTED", "PARTIALLY_FILLED"}

Init ==
    /\ ledger = NewLedger
    /\ orders = <<>>
    /\ failure = {}
    /\ frame = 1
    /\ phase = "actions"
    /\ bar = NoBar
    /\ used = [bars |-> 0, actions |-> 0, proposals |-> 0]

-----------------------------------------------------------------------------
(* The order state machine                                                 *)

remaining_quantity(o) == o.quantity - o.filled

accept(intent) == joined(intent, [state |-> "ACCEPTED", filled |-> 0, last |-> intent.submitted])

\* _require_state and the monotonic clock of _updated.
transition_refusals(o, at) ==
    when(o.state \notin Open, "illegal state") \union when(at < o.last, "not monotonic")

finish(o, state, at) == [o EXCEPT !.state = state, !.last = at]

order_fill(o, quantity, at) ==
    [o EXCEPT !.filled = @ + quantity,
              !.state = IF o.filled + quantity = o.quantity
                        THEN "FILLED" ELSE "PARTIALLY_FILLED",
              !.last = at]

-----------------------------------------------------------------------------
(* HistoricalExchange.match                                                *)

crosses(o, price, level) == IF o.side = "SELL" THEN price <= level ELSE price >= level

\* The extreme of the bar that can trigger a stop of this side, and that can reach a
\* limit of this side.
stop_side(o, b)  == IF o.side = "SELL" THEN b.low ELSE b.high
limit_side(o, b) == IF o.side = "SELL" THEN b.high ELSE b.low

at_limit(o, price) == IF o.side = "SELL" THEN price >= o.limit ELSE price <= o.limit

better(o, p, q) == IF o.side = "SELL" THEN Max({p, q}) ELSE Min({p, q})
worse(o, p, q)  == IF o.side = "SELL" THEN Min({p, q}) ELSE Max({p, q})

stop_gap(o, b) == b.open # o.stop /\ crosses(o, b.open, o.stop)

tradable(o, b) ==
    CASE o.kind = "MARKET"      -> TRUE
      [] o.kind = "LIMIT"       -> at_limit(o, limit_side(o, b))
      [] o.kind = "STOP_MARKET" -> crosses(o, stop_side(o, b), o.stop)
      [] o.kind = "STOP_LIMIT"  -> /\ crosses(o, stop_side(o, b), o.stop)
                                   /\ at_limit(o, IF stop_gap(o, b) THEN b.open
                                                  ELSE limit_side(o, b))

reference_price(o, b) ==
    CASE o.kind = "MARKET"      -> b.open
      [] o.kind = "LIMIT"       -> better(o, b.open, o.limit)
      [] o.kind = "STOP_MARKET" -> worse(o, b.open, o.stop)
      [] o.kind = "STOP_LIMIT"  -> IF stop_gap(o, b) THEN b.open ELSE o.limit

cost_adjusted(price, side) ==
    Max({1, (price * (IF side = "BUY" THEN 10 + SpreadTenths ELSE 10 - SpreadTenths)) \div 10})

fill_price(o, b) ==
    LET price == cost_adjusted(reference_price(o, b), o.side)
    IN  IF o.kind \in {"LIMIT", "STOP_LIMIT"} THEN better(o, price, o.limit) ELSE price

fill_quantity(o, b) == Min({remaining_quantity(o), b.volume})

\* A bar trades with an order that was submitted before the bar's market time; the
\* protection of a fill is offered the bar that filled it.
in_time(o, b, same_bar) ==
    /\ same_bar \/ (b.event >= o.submitted /\ b.available > o.submitted)
    /\ b.available >= o.earliest
    /\ o.expires = 0 \/ b.available <= o.expires

match(o, b, same_bar) ==
    /\ o.state \in Open
    /\ o.instrument = b.instrument
    /\ in_time(o, b, same_bar)
    /\ ~b.halted /\ fill_quantity(o, b) > 0
    /\ tradable(o, b)

fill_of(n, o, b) ==
    LET q == fill_quantity(o, b)
    IN  [order |-> n, instrument |-> o.instrument, side |-> o.side, quantity |-> q,
         price |-> fill_price(o, b), commission |-> Max({MinimumCommission, q * PerShare})]

-----------------------------------------------------------------------------
(* The engine's helpers, over s = [ledger, orders, failure]                *)

now == [ledger |-> ledger, orders |-> orders, failure |-> failure]

become(s) == ledger' = s.ledger /\ orders' = s.orders /\ failure' = s.failure

\* An exception of one call skips the calls after it.
then(s, t) == IF s.failure # {} THEN s ELSE t

fail(s, reasons) == [s EXCEPT !.failure = @ \union reasons]

end_orders(s, ids, state, at) ==
    fail([s EXCEPT !.orders = [n \in DOMAIN @ |->
                                 IF n \in ids THEN finish(@[n], state, at) ELSE @[n]],
                   !.ledger = release(@, ids)],
         UNION {transition_refusals(s.orders[n], at) : n \in ids})

open_on(s, x) == {n \in DOMAIN s.orders : /\ s.orders[n].instrument = x
                                          /\ s.orders[n].state \in Open}

\* Mutant: only untouched orders are cancelled.
cancel_orders_for_action_untouched(s, x) ==
    end_orders(s, {n \in open_on(s, x) : s.orders[n].state = "ACCEPTED"}, "CANCELLED", as_of)

cancel_orders_for_action(s, x) == end_orders(s, open_on(s, x), "CANCELLED", as_of)

siblings(s, n) ==
    {m \in DOMAIN s.orders \ {n} : /\ s.orders[m].group = s.orders[n].group
                                   /\ s.orders[n].group # 0
                                   /\ s.orders[m].state \in Open}

\* Mutant: the other leg stays open.
cancel_oco_siblings_kept(s, n, at) == s

cancel_oco_siblings(s, n, at) == end_orders(s, siblings(s, n), "CANCELLED", at)

\* ledger.reserve outside the loop over proposals: a refusal is not caught.
place(s, intent) ==
    fail([s EXCEPT !.orders = Append(@, accept(intent)),
                   !.ledger = reserve(@, Len(s.orders) + 1, intent)],
         reserve_refusals(s.ledger, intent))

protective(parent, kind, price, quantity, at, earliest, group) ==
    [instrument |-> parent.instrument, side |-> "SELL", kind |-> kind,
     quantity |-> quantity, planned |-> price,
     limit |-> IF kind = "LIMIT" THEN price ELSE 0,
     stop |-> IF kind = "STOP_MARKET" THEN price ELSE 0,
     protective_stop |-> 0, protective_target |-> 0, submitted |-> at,
     earliest |-> earliest, expires |-> 0, group |-> group, reduce_only |-> TRUE]

\* The group of an OCO pair is the number of its first order, the stop of the fill.
create_protection(s, n, quantity, at) ==
    LET parent == s.orders[n]
        group  == Len(s.orders) + 1
        child(kind, price) == protective(parent, kind, price, quantity, at, at, group)
        stopped == place(s, child("STOP_MARKET", parent.protective_stop))
    IN  IF parent.protective_target = 0 THEN stopped
        ELSE then(stopped, place(stopped, child("LIMIT", parent.protective_target)))

booked(s, n, b) ==
    LET o    == s.orders[n]
        fill == fill_of(n, o, b)
        reasons == fill_refusals(s.ledger, fill) \union transition_refusals(o, b.available)
    IN  IF reasons # {} THEN fail(s, reasons)
        ELSE [s EXCEPT !.ledger = apply_fill(@, fill),
                       !.orders[n] = order_fill(@, fill.quantity, b.available)]

\* Mutant: the reservation of a filled order stays.
released_never(s, n) == s

released(s, n) ==
    IF remaining_quantity(s.orders[n]) = 0
    THEN [s EXCEPT !.ledger = release(@, {n})] ELSE s

priority(o) == IF ~o.reduce_only THEN 2 ELSE IF o.kind = "STOP_MARKET" THEN 0 ELSE 1

\* The stop first, then the target; only one of them, and without a replacement of the
\* cancelled one when the fill is partial.
match_same_bar_protection(s, children, b) ==
    LET hit == {n \in children : match(s.orders[n], b, TRUE)}
    IN  IF hit = {} THEN s
        ELSE LET n == CHOOSE m \in hit :
                        \A k \in hit : priority(s.orders[m]) <= priority(s.orders[k])
                 t == cancel_oco_siblings(s, n, b.available)
                 u == then(t, booked(t, n, b))
             IN  then(u, released(u, n))

\* The price of the other leg, from any order the group ever had.
leg_price(s, group, kind) ==
    {IF kind = "LIMIT" THEN s.orders[m].limit ELSE s.orders[m].stop :
        m \in {k \in DOMAIN s.orders : /\ s.orders[k].group = group
                                       /\ s.orders[k].kind = kind}}

\* Mutant: a partial exit does not bring the other leg back.
replace_oco_sibling_forgotten(s, n, at) == s

replace_oco_sibling(s, n, at) ==
    LET o      == s.orders[n]
        kind   == IF o.kind = "STOP_MARKET" THEN "LIMIT" ELSE "STOP_MARKET"
        prices == IF o.group = 0 THEN {} ELSE leg_price(s, o.group, kind)
    IN  IF prices = {} THEN s
        ELSE place(s, protective(o, kind, CHOOSE p \in prices : TRUE,
                                 remaining_quantity(o), at, at + 1, o.group))

\* A fill of order n on bar b with everything the loop over orders does about it.
fill_order(s, n, b) ==
    LET at       == b.available
        t        == cancel_oco_siblings(s, n, at)
        u        == then(t, booked(t, n, b))
        o        == u.orders[n]
        children == (Len(u.orders) + 1)..(Len(u.orders) + 2)
        guarded  == create_protection(u, n, o.filled - s.orders[n].filled, at)
        v        == IF o.side = "BUY"
                    THEN then(guarded, match_same_bar_protection(
                                          guarded, children \intersect DOMAIN guarded.orders, b))
                    ELSE IF o.state = "PARTIALLY_FILLED"
                    THEN replace_oco_sibling(u, n, at) ELSE u
        w        == then(u, v)
    IN  then(w, released(w, n))

-----------------------------------------------------------------------------
(* The run                                                                 *)

running == failure = {}

expired == {n \in DOMAIN orders : /\ orders[n].expires # 0 /\ as_of > orders[n].expires
                                  /\ orders[n].state \in Open}

\* The first loop over the orders.  An order expires at its own expiry time.
Expire ==
    /\ running /\ phase = "actions" /\ expired # {}
    /\ \E n \in expired : become(end_orders(now, {n}, "EXPIRED", orders[n].expires))
    /\ UNCHANGED <<frame, phase, bar, used>>

effect(s, a) ==
    LET refusals == when(has_reservation(s.ledger, a.instrument), "reservations left") IN
    CASE a.type = "SPLIT"    -> fail([s EXCEPT !.ledger = apply_split(@, a.instrument, a.amount)],
                                     refusals)
      [] a.type = "DIVIDEND" -> [s EXCEPT !.ledger = apply_dividend(@, a.instrument, a.amount)]
      [] a.type = "DELIST"   -> fail([s EXCEPT !.ledger =
                                          apply_delisting(@, a.instrument, a.amount)], refusals)
      [] OTHER               -> s

\* An action in its effective phase; the announced ones are skipped.  A revision of an
\* action is knowledge only and reaches no part of this state.
CorporateAction(a) ==
    /\ running /\ phase = "actions" /\ expired = {}
    /\ used.actions < MaxActions
    /\ used' = [used EXCEPT !.actions = @ + 1]
    /\ IF a.announced THEN UNCHANGED <<ledger, orders, failure>>
       ELSE LET s == cancel_orders_for_action(now, a.instrument)
            IN  become(then(s, effect(s, a)))
    /\ UNCHANGED <<frame, phase, bar>>

\* The market time and the availability of the k-th bar of the frame; a late bar is of
\* a time before the previous decision.
delivered(b, k) ==
    joined(b, [event |-> IF b.late THEN as_of - Period - 1 ELSE as_of - Period + 3 * k - 2,
               available |-> as_of - Period + 3 * k - 1])

BeginBar(b) ==
    /\ running /\ phase \in {"actions", "bars"} /\ expired = {} /\ bar = NoBar
    /\ used.bars < MaxBars
    /\ used' = [used EXCEPT !.bars = @ + 1]
    /\ bar' = [at |-> delivered(b, used.bars + 1), todo |-> DOMAIN orders]
    /\ phase' = "bars"
    /\ UNCHANGED <<ledger, orders, failure, frame>>

matching == {n \in bar.todo : match(orders[n], bar.at, FALSE)}

\* The orders are offered the bar by priority.  One that does not match is passed over:
\* no fill makes it match later on the same bar.
MatchOrder(n) ==
    /\ running /\ bar # NoBar /\ n \in matching
    /\ \A m \in matching : priority(orders[n]) <= priority(orders[m])
    /\ bar' = [bar EXCEPT !.todo = @ \ {n}]
    /\ become(fill_order(now, n, bar.at))
    /\ UNCHANGED <<frame, phase, used>>

EndBar ==
    /\ running /\ bar # NoBar /\ matching = {}
    /\ ledger' = mark(ledger, bar.at.instrument, bar.at.close)
    /\ bar' = NoBar
    /\ UNCHANGED <<orders, failure, frame, phase, used>>

\* assert_conservation between the bars and the proposals.
conserved(L) ==
    /\ L.journal["CASH"] = L.cash
    /\ SumFunction(L.journal) = 0

StartProposals ==
    /\ running /\ phase \in {"actions", "bars"} /\ expired = {} /\ bar = NoBar
    /\ failure' = when(~conserved(ledger), "conservation")
    /\ phase' = "proposals"
    /\ UNCHANGED <<ledger, orders, frame, bar, used>>

intent_of(p) ==
    [instrument |-> p.instrument, side |-> p.side, kind |-> p.kind, quantity |-> p.quantity,
     planned |-> p.planned, limit |-> p.limit, stop |-> p.stop,
     protective_stop |-> p.protective_stop, protective_target |-> p.protective_target,
     submitted |-> as_of, earliest |-> as_of + 1,
     expires |-> IF p.expires = 0 THEN 0 ELSE as_of + p.expires,
     group |-> 0, reduce_only |-> FALSE]

\* A refused proposal is recorded and forgotten.
Propose(p) ==
    /\ running /\ phase = "proposals" /\ used.proposals < MaxProposals
    /\ used' = [used EXCEPT !.proposals = @ + 1]
    /\ IF reserve_refusals(ledger, intent_of(p)) = {}
       THEN become(place(now, intent_of(p)))
       ELSE UNCHANGED <<ledger, orders, failure>>
    /\ UNCHANGED <<frame, phase, bar>>

EndFrame ==
    /\ running /\ phase = "proposals" /\ frame < MaxFrames
    /\ frame' = frame + 1
    /\ phase' = "actions"
    /\ used' = [used EXCEPT !.bars = 0]
    /\ UNCHANGED <<ledger, orders, failure, bar>>

Next ==
    \/ Expire
    \/ \E a \in Actions : CorporateAction(a)
    \/ \E b \in Bars : BeginBar(b)
    \/ \E n \in DOMAIN orders : MatchOrder(n)
    \/ EndBar
    \/ StartProposals
    \/ \E p \in Proposals : Propose(p)
    \/ EndFrame

Spec == Init /\ [][Next]_vars

-----------------------------------------------------------------------------
(* Properties                                                              *)

\* Every entry balances, the journal's CASH is the cash, and realized_pnl is the journal's
\* profit and commission accounts.
EntriesBalance ==
    /\ conserved(ledger)
    /\ ledger.realized
         = -ledger.journal["REALIZED_PNL"] - ledger.journal["COMMISSION_EXPENSE"]

\* The FIFO lots are the journal's POSITIONS_AT_COST, and the entries balance: fills,
\* splits, dividends and delistings post to four separate records that nothing else ties
\* together.
BooksAgree ==
    /\ EntriesBalance
    /\ ledger.journal["POSITIONS_AT_COST"]
         = SumFunction([n \in DOMAIN ledger.lots |->
                          ledger.lots[n].quantity * ledger.lots[n].unit_cost])

\* The amounts are such that the divisions of the code leave no remainder: the cost per
\* share of a purchase the bar may fill, and the cost per share after a split.
CostsExact ==
    /\ \A n \in IF bar = NoBar THEN {} ELSE bar.todo :
         LET fill == fill_of(n, orders[n], bar.at)
         IN  (orders[n].side = "BUY" /\ match(orders[n], bar.at, FALSE))
               => (fill.price * fill.quantity + fill.commission) % fill.quantity = 0
    /\ used.actions < MaxActions
         => \A a \in Actions : (a.type = "SPLIT" /\ ~a.announced)
              => \A n \in DOMAIN ledger.lots :
                   ledger.lots[n].instrument = a.instrument
                     => ledger.lots[n].unit_cost % a.amount = 0

\* Reservations of open buy orders never exceed the cash, whatever gaps, commissions of
\* partial fills and dividends do to it: no order can count on cash another one spends.
NoOverdraft == available_cash(ledger) >= 0

\* A reservation lives exactly as long as its order is open and holds what is left of
\* it.
ReservationsMirrorOrders ==
    running =>
      /\ DOMAIN ledger.reservations = {n \in DOMAIN orders : orders[n].state \in Open}
      /\ \A n \in DOMAIN ledger.reservations :
           orders[n].side = "SELL"
             => ledger.reservations[n].quantity = remaining_quantity(orders[n])

\* What the orders of a group have sold.
group_filled(os, g) ==
    SumFunction([n \in DOMAIN os |-> IF os[n].group = g THEN os[n].filled ELSE 0])

\* "OCO cannot double exit": the shares promised to all OCO groups are held, and the
\* legs of a group with all their replacements sell, together, no more than the entry
\* fill they protect.
OcoExitsOnce ==
    running =>
      /\ \A x \in Instruments :
           reserved_sell_quantity(ledger, x) <= position_quantity(ledger, x)
      /\ \A g \in {orders[n].group : n \in DOMAIN orders} \ {0} :
           group_filled(orders, g) <= orders[g].quantity

\* A replay ends early only because an account limit or the cash is exceeded: no order
\* of events makes the engine break its own order and reservation protocol.
AbortsOnlyOnLimits ==
    failure \subseteq {"total risk limit", "gross exposure", "fill exceeds cash"}

live_stop(o, x) ==
    /\ o.instrument = x /\ o.kind = "STOP_MARKET" /\ o.reduce_only /\ o.state \in Open

\* Shares under a live protective stop.
stop_cover(os, x) ==
    SumFunction([n \in DOMAIN os |-> IF live_stop(os[n], x) THEN remaining_quantity(os[n]) ELSE 0])

\* Shares held without one.
unstopped(L, os, x) == position_quantity(L, x) - stop_cover(os, x)

entry_filled ==
    \E n \in DOMAIN orders : orders[n].side = "BUY" /\ orders'[n].filled > orders[n].filled

\* An exit, full or partial, of either leg and on any later bar never takes the stop
\* away from shares that remain.
ExitsKeepStops ==
    [][ (phase # "actions" /\ ~entry_filled /\ failure' = {})
          => \A x \in Instruments :
               unstopped(ledger', orders', x) <= Max({0, unstopped(ledger, orders, x)}) ]_vars

\* "Every filled long quantity has matching live stop protection": between two bars, all
\* shares held are under a live stop.
EveryShareStopped ==
    (running /\ bar = NoBar) => \A x \in Instruments : unstopped(ledger, orders, x) <= 0
=============================================================================
