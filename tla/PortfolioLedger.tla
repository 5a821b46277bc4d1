--------------------------- MODULE PortfolioLedger ---------------------------
(***************************************************************************)
(* The cash, lot, reservation and journal ledger of a portfolio replay     *)
(* (simulation/portfolio.py), as operators over a ledger value.            *)
(*                                                                         *)
(* Amounts are integers: an instance chooses prices, quantities and        *)
(* commissions so that the two divisions of the code (cost per share, and  *)
(* the restatement of a split) are exact, as Decimal makes them.  Limits   *)
(* are percentages.  The journal is its account balances (debits minus     *)
(* credits); a lot that is sold out stays, with no shares.                 *)
(***************************************************************************)
EXTENDS Integers, Sequences, FiniteSetsExt, Functions, Tables

CONSTANTS
    Instruments,
    StartingCash,
    MaxGrossExposure,   \* percent of net liquidation, as the four limits below
    MaxSymbolExposure,
    MaxRiskPerTrade,
    MaxTotalRisk,
    MaxPositions,       \* instruments held or about to be bought
    MinimumCommission   \* what a buy order reserves on top of its notional

ASSUME LedgerAssumption ==
    /\ StartingCash \in Nat \ {0}
    /\ MinimumCommission \in Nat
    /\ MaxPositions \in Nat \ {0}

Account ==
    {"CASH", "OPENING_EQUITY", "POSITIONS_AT_COST", "REALIZED_PNL",
     "COMMISSION_EXPENSE", "DIVIDEND_INCOME"}

NoReservation == [id \in {} |-> {}]

\* PortfolioLedger.__init__: the starting cash is the first journal entry.
NewLedger ==
    [cash |-> StartingCash, realized |-> 0, commissions |-> 0,
     journal |-> [a \in Account |-> CASE a = "CASH" -> StartingCash
                                      [] a = "OPENING_EQUITY" -> -StartingCash
                                      [] OTHER -> 0],
     lots |-> <<>>,
     marks |-> [x \in Instruments |-> 0],       \* 0: never marked
     reservations |-> NoReservation]

-----------------------------------------------------------------------------
(* What the ledger says of itself: snapshot and the reserved amounts       *)

sum_lots(L, amount(_), x) ==
    SumFunction([n \in DOMAIN L.lots |->
                    IF L.lots[n].instrument = x THEN amount(L.lots[n]) ELSE 0])

sum_reservations(L, amount(_)) ==
    SumFunction([id \in DOMAIN L.reservations |-> amount(L.reservations[id])])

position_quantity(L, x) == sum_lots(L, LAMBDA lot : lot.quantity, x)

cost_basis(L, x) == sum_lots(L, LAMBDA lot : lot.quantity * lot.unit_cost, x)

\* An instrument that was never marked is valued at its cost.
market_value(L, x) ==
    IF L.marks[x] = 0 THEN cost_basis(L, x) ELSE position_quantity(L, x) * L.marks[x]

held(L) == {x \in Instruments : position_quantity(L, x) > 0}

gross_value(L) == MapThenSumSet(LAMBDA x : market_value(L, x), held(L))

net_liquidation(L) == L.cash + gross_value(L)

open_risk(L) ==
    MapThenSumSet(LAMBDA x : sum_lots(L, LAMBDA lot : lot.quantity * lot.risk_per_share, x),
                  Instruments)

reserved_cash(L) == sum_reservations(L, LAMBDA i : i.cash)

available_cash(L) == L.cash - reserved_cash(L)

on_instrument(L, x, side) ==
    {id \in DOMAIN L.reservations : /\ L.reservations[id].instrument = x
                                    /\ L.reservations[id].side = side}

largest(L, ids) == Max({0} \union {L.reservations[id].quantity : id \in ids})

in_group(L, x, g) ==
    {id \in on_instrument(L, x, "SELL") : L.reservations[id].group = g}

\* The orders of one OCO group sell the same shares: the group counts once.
reserved_sell_quantity(L, x) ==
    LET selling == on_instrument(L, x, "SELL")
        groups  == {L.reservations[id].group : id \in selling}
    IN  SumFunction([g \in groups |-> largest(L, in_group(L, x, g))])

-----------------------------------------------------------------------------
(* reserve, release                                                        *)

risk_per_share(i) == IF i.side = "BUY" THEN i.planned - i.protective_stop ELSE 0

reserved_buy_symbols(L) ==
    {L.reservations[id].instrument :
        id \in {d \in DOMAIN L.reservations : L.reservations[d].side = "BUY"}}

over(amount, L, percent) == amount * 100 > net_liquidation(L) * percent

when(condition, reason) == IF condition THEN {reason} ELSE {}

\* The limits every order must pass: a sell adds neither risk nor exposure, and is
\* refused all the same when the account is beyond them already.
account_refusals(L, i) ==
    LET notional == IF i.side = "BUY" THEN i.planned * i.quantity ELSE 0
        risk     == risk_per_share(i) * i.quantity
        pending  == sum_reservations(L, LAMBDA v : v.risk)
        promised == sum_reservations(L, LAMBDA v : v.notional)
    IN  when(over(risk, L, MaxRiskPerTrade), "risk limit")
        \union when(over(open_risk(L) + pending + risk, L, MaxTotalRisk), "total risk limit")
        \union when(over(gross_value(L) + promised + notional, L, MaxGrossExposure),
                    "gross exposure")

buy_refusals(L, i) ==
    LET notional == i.planned * i.quantity
        symbols  == held(L) \union reserved_buy_symbols(L)
        promised == MapThenSumSet(LAMBDA id : L.reservations[id].notional,
                                  on_instrument(L, i.instrument, "BUY"))
    IN  when(over(market_value(L, i.instrument) + promised + notional, L,
                  MaxSymbolExposure), "symbol exposure")
        \union when(i.instrument \notin symbols /\ Cardinality(symbols) >= MaxPositions,
                    "position count")
        \union when(notional + MinimumCommission > available_cash(L), "insufficient cash")

\* Shares promised to other groups, and the part of this order that its own group has
\* not reserved yet.
sell_refusals(L, i) ==
    LET same_group == IF i.group = 0 THEN 0 ELSE largest(L, in_group(L, i.instrument, i.group))
    IN  when(reserved_sell_quantity(L, i.instrument) + Max({0, i.quantity - same_group})
               > position_quantity(L, i.instrument), "insufficient position")

\* Why reserve raises ReservationRejected; it names the first reason it meets.
reserve_refusals(L, i) ==
    account_refusals(L, i)
    \union (IF i.side = "BUY" THEN buy_refusals(L, i) ELSE sell_refusals(L, i))

reserve(L, id, i) ==
    LET buy      == i.side = "BUY"
        notional == i.planned * i.quantity
    IN  [L EXCEPT !.reservations = put(@, id,
           [instrument |-> i.instrument, side |-> i.side,
            cash       |-> IF buy THEN notional + MinimumCommission ELSE 0,
            notional   |-> IF buy THEN notional ELSE 0,
            quantity   |-> IF buy THEN 0 ELSE i.quantity,
            risk       |-> risk_per_share(i) * i.quantity,
            risk_per_share |-> risk_per_share(i),
            group      |-> IF i.group = 0 THEN id ELSE i.group])]

release(L, ids) ==
    [L EXCEPT !.reservations = Restrict(@, DOMAIN @ \ ids)]

-----------------------------------------------------------------------------
(* apply_fill                                                              *)

\* What a lot gives of the shares of x still to be sold.
consumed(lot, x, remaining) ==
    IF lot.instrument = x THEN Min({lot.quantity, remaining}) ELSE 0

\* _consume_fifo: the oldest lots of the instrument first.
consume_fifo(lots, x, quantity) ==
    LET remaining[n \in 0..Len(lots)] ==
            IF n = 0 THEN quantity
            ELSE remaining[n - 1] - consumed(lots[n], x, remaining[n - 1])
        taken(n) == consumed(lots[n], x, remaining[n - 1])
    IN  [cost |-> SumFunction([n \in DOMAIN lots |-> taken(n) * lots[n].unit_cost]),
         lots |-> [n \in DOMAIN lots |-> [lots[n] EXCEPT !.quantity = @ - taken(n)]]]

\* Mutant: a fill may use all the cash, reserved or not.
cash_for_fill_all(L, v) == L.cash

cash_for_fill(L, v) == v.cash + available_cash(L)

\* Why apply_fill raises; fill names its order, instrument, side, quantity, price and
\* commission.
fill_refusals(L, fill) ==
    IF fill.order \notin DOMAIN L.reservations THEN {"fill without reservation"}
    ELSE LET v    == L.reservations[fill.order]
             cost == fill.price * fill.quantity + fill.commission
         IN  when(v.instrument # fill.instrument \/ v.side # fill.side, "fill mismatch")
             \union when(fill.side = "BUY" /\ cost > cash_for_fill(L, v),
                         "fill exceeds cash")
             \union when(/\ fill.side = "SELL"
                         /\ fill.quantity > position_quantity(L, fill.instrument),
                         "sell exceeds held")
             \union when(/\ fill.side = "SELL"
                         /\ fill.price * fill.quantity < fill.commission,
                         "negative journal line")

spend(v, fill, cost) ==
    [v EXCEPT !.cash = Max({0, @ - cost}),
              !.risk = Max({0, @ - v.risk_per_share * fill.quantity}),
              !.notional = Max({0, @ - fill.price * fill.quantity})]

buy_fill(L, fill) ==
    LET cost == fill.price * fill.quantity + fill.commission
        v    == L.reservations[fill.order]
    IN  [L EXCEPT !.cash = @ - cost,
                  !.commissions = @ + fill.commission,
                  !.journal["CASH"] = @ - cost,
                  !.journal["POSITIONS_AT_COST"] = @ + cost,
                  !.lots = Append(@, [instrument |-> fill.instrument,
                                      quantity |-> fill.quantity,
                                      unit_cost |-> cost \div fill.quantity,
                                      risk_per_share |-> v.risk_per_share]),
                  !.reservations[fill.order] = spend(v, fill, cost)]

\* Mutant: the realized profit is the one before commission.
realized_gain_gross(fill, basis) == fill.price * fill.quantity - basis

realized_gain(fill, basis) == fill.price * fill.quantity - fill.commission - basis

sell_fill(L, fill) ==
    LET used     == consume_fifo(L.lots, fill.instrument, fill.quantity)
        proceeds == fill.price * fill.quantity - fill.commission
        gross    == fill.price * fill.quantity - used.cost
    IN  [L EXCEPT !.cash = @ + proceeds,
                  !.realized = @ + realized_gain(fill, used.cost),
                  !.commissions = @ + fill.commission,
                  !.journal["CASH"] = @ + proceeds,
                  !.journal["COMMISSION_EXPENSE"] = @ + fill.commission,
                  !.journal["POSITIONS_AT_COST"] = @ - used.cost,
                  !.journal["REALIZED_PNL"] = @ - gross,
                  !.lots = used.lots,
                  !.reservations[fill.order].quantity = @ - fill.quantity,
                  !.reservations[fill.order].notional =
                        Max({0, @ - fill.price * fill.quantity})]

apply_fill(L, fill) == IF fill.side = "BUY" THEN buy_fill(L, fill) ELSE sell_fill(L, fill)

-----------------------------------------------------------------------------
(* mark and the corporate actions                                          *)

mark(L, x, price) == [L EXCEPT !.marks[x] = price]

has_reservation(L, x) == \E id \in DOMAIN L.reservations : L.reservations[id].instrument = x

apply_split(L, x, ratio) ==
    LET restate(lot) == IF lot.instrument # x THEN lot
                        ELSE [lot EXCEPT !.quantity = @ * ratio,
                                         !.unit_cost = @ \div ratio,
                                         !.risk_per_share = @ \div ratio]
    IN  [L EXCEPT !.lots = [n \in DOMAIN @ |-> restate(@[n])],
                  !.marks[x] = @ \div ratio]

apply_dividend(L, x, cash_per_share) ==
    LET amount == position_quantity(L, x) * cash_per_share
    IN  [L EXCEPT !.cash = @ + amount,
                  !.journal["CASH"] = @ + amount,
                  !.journal["DIVIDEND_INCOME"] = @ - amount]

apply_delisting(L, x, cash_per_share) ==
    LET recovery == position_quantity(L, x) * cash_per_share
        basis    == cost_basis(L, x)
    IN  [L EXCEPT !.cash = @ + recovery,
                  !.realized = @ + recovery - basis,
                  !.journal["CASH"] = @ + recovery,
                  !.journal["POSITIONS_AT_COST"] = @ - basis,
                  !.journal["REALIZED_PNL"] = @ - (recovery - basis),
                  !.lots = [n \in DOMAIN @ |-> IF @[n].instrument = x
                                               THEN [@[n] EXCEPT !.quantity = 0] ELSE @[n]],
                  !.marks[x] = 0]
=============================================================================
