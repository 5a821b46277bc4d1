--------------------------- MODULE SimulatedBroker ---------------------------
(***************************************************************************)
(* The in-memory paper broker (execution/simulated.py): limit orders, one  *)
(* stop/target protection per symbol, cancel_all and flatten_all.          *)
(*                                                                         *)
(* submit, process_quote and cancel_all hold the broker's lock and are     *)
(* steps; flatten_all copies the positions and then takes the lock once    *)
(* per symbol, so other calls come in between.  Average cost, marks and    *)
(* the account snapshot are left out.                                      *)
(***************************************************************************)
EXTENDS Integers, Sequences, SequencesExt, FiniteSetsExt, Functions, Tables

CONSTANTS
    SimSymbols,
    SimOrders,          \* the orders callers may submit
    SimQuotes,          \* bid and ask of a symbol
    SimCash,            \* starting cash
    SimSlippage,        \* adverse slippage of a market price, in tenths of it
    SimCommission,      \* minimum_commission
    MaxSimEvents        \* bound: quotes and flattenings

\* OrderRequest and Quote allow no price and no quantity of zero.
ASSUME SimAssumption ==
    /\ SimCash \in Nat /\ SimSlippage \in 0..9 /\ SimCommission \in Nat
    /\ \A o \in SimOrders :
         /\ o.symbol \in SimSymbols /\ o.side \in {"BUY", "SELL"}
         /\ {o.quantity, o.limit, o.stop, o.target} \subseteq Nat \ {0}
    /\ \A q \in SimQuotes : q.bid \in Nat \ {0} /\ q.ask \in Nat \ {0}

VARIABLES
    sim,                \* cash, positions, open_orders, protections, _idempotency
    flattening,         \* the running flatten_all: what is left of its loop
    simEvents           \* quotes and flattenings so far

simVars == <<sim, flattening, simEvents>>

NoFlatten == [todo |-> {}, copy |-> <<>>, quotes |-> <<>>]

SimInit ==
    /\ sim = [cash |-> SimCash, positions |-> [s \in SimSymbols |-> 0], open |-> {},
              protections |-> [s \in {} |-> {}], keys |-> {}, connected |-> TRUE]
    /\ flattening = NoFlatten
    /\ simEvents = 0

-----------------------------------------------------------------------------
commission(quantity) == Max({SimCommission, quantity})

slipped_price(q, o) ==
    IF o.side = "BUY" THEN Min({(q.ask * (10 + SimSlippage)) \div 10, o.limit})
                      ELSE Max({(q.bid * (10 - SimSlippage)) \div 10, o.limit})

marketable(o, q) == IF o.side = "BUY" THEN o.limit >= q.ask ELSE o.limit <= q.bid

notional(o, q) == slipped_price(q, o) * o.quantity

\* insufficient_cash_after_slippage, shorting_not_supported_or_insufficient_position
fill_rejected(b, o, q) ==
    IF o.side = "BUY" THEN notional(o, q) + commission(o.quantity) > b.cash
                      ELSE b.positions[o.symbol] < o.quantity

bought(b, o, q) ==
    [b EXCEPT !.positions[o.symbol] = @ + o.quantity,
              !.cash = @ - notional(o, q) - commission(o.quantity),
              !.protections = put(@, o.symbol, [quantity |-> o.quantity, stop |-> o.stop,
                                                target |-> o.target, entry |-> o.key])]

\* Mutant: the protection of a closed position is kept.
sold_keeps_protection(b, o, q) ==
    [b EXCEPT !.positions[o.symbol] = @ - o.quantity,
              !.cash = @ + notional(o, q) - commission(o.quantity)]

sold(b, o, q) ==
    LET remaining == b.positions[o.symbol] - o.quantity
    IN  [b EXCEPT !.positions[o.symbol] = remaining,
                  !.cash = @ + notional(o, q) - commission(o.quantity),
                  !.protections = IF remaining = 0
                                  THEN Restrict(@, DOMAIN @ \ {o.symbol}) ELSE @]

\* _try_fill: an order that is not marketable stays open, a rejected one does not.
try_fill(b, o, q) ==
    LET closed == [b EXCEPT !.open = @ \ {o}] IN
    IF ~marketable(o, q) THEN b
    ELSE IF fill_rejected(b, o, q) THEN closed
    ELSE IF o.side = "BUY" THEN bought(closed, o, q) ELSE sold(closed, o, q)

duplicate(b, o) == o.key \in b.keys

submitted(b, o, q) ==
    IF ~b.connected \/ duplicate(b, o) THEN b
    ELSE try_fill([b EXCEPT !.keys = @ \union {o.key}, !.open = @ \union {o}], o, q)

submit(o, q) ==
    /\ sim' = submitted(sim, o, q)
    /\ UNCHANGED <<flattening, simEvents>>

-----------------------------------------------------------------------------
(* process_quote: the open orders of the symbol, in the order they were    *)
(* submitted, and then the protection.                                     *)

exit_order(b, s, q) ==
    LET p == b.protections[s]
        reason == IF q.bid <= p.stop THEN "protective_stop" ELSE "profit_target"
    IN  [key |-> <<"exit", p.entry, reason>>, symbol |-> s, side |-> "SELL",
         quantity |-> Min({p.quantity, b.positions[s]}), limit |-> q.bid,
         stop |-> 0, target |-> 0]

protection_hit(b, s, q) ==
    /\ s \in DOMAIN b.protections /\ b.positions[s] > 0
    /\ q.bid <= b.protections[s].stop \/ q.bid >= b.protections[s].target

protected(b, s, q) ==
    IF ~protection_hit(b, s, q) THEN b
    ELSE LET o == exit_order(b, s, q)
         IN  try_fill([b EXCEPT !.keys = @ \union {o.key}, !.open = @ \union {o}], o, q)

\* Orders are filled in the order of submission; which one that is does not matter to
\* the properties, so any order of the open ones is allowed.
filled_in_order(b, os, q) ==
    LET after[n \in 0..Len(os)] == IF n = 0 THEN b ELSE try_fill(after[n - 1], os[n], q)
    IN  after[Len(os)]

process_quote(s, q) ==
    /\ simEvents < MaxSimEvents
    /\ simEvents' = simEvents + 1
    /\ \E os \in SetToSeqs({o \in sim.open : o.symbol = s}) :
         sim' = protected(filled_in_order(sim, os, q), s, q)
    /\ UNCHANGED flattening

cancel_all ==
    /\ sim.open # {}
    /\ sim' = [sim EXCEPT !.open = {}]
    /\ UNCHANGED <<flattening, simEvents>>

set_connected ==
    /\ simEvents < MaxSimEvents
    /\ simEvents' = simEvents + 1
    /\ sim' = [sim EXCEPT !.connected = ~@]
    /\ UNCHANGED flattening

-----------------------------------------------------------------------------
(* flatten_all                                                             *)

held_symbols(b) == {s \in SimSymbols : b.positions[s] > 0}

\* The caller's quotes may miss a symbol; no price is guessed for it.
flatten_all(quotes) ==
    /\ flattening = NoFlatten /\ held_symbols(sim) # {}
    /\ simEvents < MaxSimEvents
    /\ simEvents' = simEvents + 1
    /\ flattening' = [todo |-> held_symbols(sim), copy |-> sim.positions, quotes |-> quotes]
    /\ UNCHANGED sim

flatten_order(s) ==
    LET n == flattening.copy[s]
    IN  [key |-> <<"flatten", s, n>>, symbol |-> s, side |-> "SELL", quantity |-> n,
         limit |-> flattening.quotes[s].bid, stop |-> 0, target |-> 0]

rest_of(f, s) == IF f.todo = {s} THEN NoFlatten ELSE [f EXCEPT !.todo = @ \ {s}]

flatten_symbol(s) ==
    /\ s \in flattening.todo
    /\ flattening' = rest_of(flattening, s)
    /\ IF s \in DOMAIN flattening.quotes
       THEN sim' = submitted(sim, flatten_order(s), flattening.quotes[s])
       ELSE UNCHANGED sim
    /\ UNCHANGED simEvents

SimNext ==
    \/ \E o \in SimOrders, q \in SimQuotes : submit(o, q)
    \/ \E s \in SimSymbols, q \in SimQuotes : process_quote(s, q)
    \/ cancel_all
    \/ set_connected
    \/ \E S \in SUBSET SimSymbols : \E quotes \in [S -> SimQuotes] : flatten_all(quotes)
    \/ \E s \in SimSymbols : flatten_symbol(s)

SimSpec == SimInit /\ [][SimNext]_simVars

-----------------------------------------------------------------------------
(* Properties                                                              *)

\* A position has a protection exactly as long as it is held, and cash never goes
\* below zero: buys, partial sells, exits, rejected orders and flattening each update
\* the three dictionaries on their own.
HeldIsProtected ==
    DOMAIN sim.protections = held_symbols(sim) /\ sim.cash >= 0
=============================================================================
