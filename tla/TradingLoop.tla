----------------------------- MODULE TradingLoop -----------------------------
(***************************************************************************)
(* TradingSystem.run_cycle with the risk engine, its kill switch, the      *)
(* audit ledger and the operator's endpoints.                              *)
(*                                                                         *)
(* The system lives in one asyncio process: the API, where several calls   *)
(* of run_cycle and of the operator interleave at every await, or the      *)
(* worker command, which runs one cycle after another.  A cycle copies the *)
(* account once and then awaits quotes, news and evidence symbol by        *)
(* symbol; from a signal to its staged intent there is no await.  The      *)
(* account and the execution of staged intents belong to other processes   *)
(* and change at any time.  Amounts are notionals; prices do not move.     *)
(***************************************************************************)
EXTENDS Integers, FiniteSets, FiniteSetsExt, Functions

CONSTANTS
    Symbols,            \* config.universe
    Strategies,         \* the strategies asked about every symbol
    Callers,            \* concurrent calls of run_cycle
    Capital,            \* net liquidation of the account
    GrossLimit,         \* max_gross_exposure, as a notional, as the two below
    SymbolLimit,        \* max_symbol_weight
    OrderLimit,         \* max_order_notional
    MaxHeld,            \* max_positions
    MaxCycles,          \* bound: cycles started
    MaxCrashes          \* bound: crashes of the process

ASSUME DeskAssumption ==
    /\ {Capital, GrossLimit, SymbolLimit, OrderLimit, MaxHeld} \subseteq Nat
    /\ GrossLimit <= Capital
    /\ IsFiniteSet(Symbols)

VARIABLES
    host,               \* the process the system lives in
    killSwitch,         \* KillSwitch._frozen
    manualTicket,       \* an open MANUAL_OPERATOR_FREEZE ticket in the execution store
    account,            \* cash, and the notional held of each symbol, at the broker
    staged,             \* execution intents with the status of their reservation
    recorded,           \* idempotency keys in the ledger
    cycle,              \* per caller: step, number, copied account, and the symbols and
                        \* strategies left to do
    started,            \* cycles started
    raced,              \* history: notional filled while some cycle held a copy
    crashes

deskVars == <<host, killSwitch, manualTicket, account, staged, recorded, cycle, started,
              raced, crashes>>

Idle == [step |-> "idle", number |-> 0, account |-> <<>>, todo |-> {}]

DeskInit ==
    /\ host \in {"api", "worker"}
    /\ killSwitch = FALSE
    /\ manualTicket = FALSE
    /\ account = [cash |-> Capital, held |-> [s \in Symbols |-> 0]]
    /\ staged = {}
    /\ recorded = {}
    /\ cycle = [c \in Callers |-> Idle]
    /\ started = 0
    /\ raced = 0
    /\ crashes = 0

gross(a) == SumFunction(a.held)

held_in(a) == {s \in Symbols : a.held[s] > 0}

\* The account after the positions in S are closed.
without(a, S) ==
    [cash |-> a.cash + SumFunction([s \in S |-> a.held[s]]),
     held |-> [s \in Symbols |-> IF s \in S THEN 0 ELSE a.held[s]]]

\* DurableExecutionStore.active_reserved_notional
reserved_notional ==
    SumFunction([i \in {j \in staged : j.status = "ACTIVE"} |-> i.amount])

-----------------------------------------------------------------------------
(* run_cycle                                                               *)

may_start(c) ==
    /\ cycle[c].step = "idle" /\ started < MaxCycles
    /\ host = "worker" => \A d \in Callers : cycle[d].step = "idle"

unhealthy(c) ==
    /\ may_start(c)
    /\ killSwitch' = TRUE
    /\ started' = started + 1
    /\ UNCHANGED <<host, manualTicket, account, staged, recorded, cycle, raced, crashes>>

run_cycle(c) ==
    /\ may_start(c)
    /\ started' = started + 1
    /\ cycle' = [cycle EXCEPT ![c] = [Idle EXCEPT !.step = "positions", !.number = started + 1]]
    /\ UNCHANGED <<host, killSwitch, manualTicket, account, staged, recorded, raced, crashes>>

\* The quotes of held symbols may hit a stop or a target and close the position.
process_existing_positions(c) ==
    /\ cycle[c].step = "positions"
    /\ \E S \in SUBSET held_in(account) :
         account' = without(account, S)
    /\ cycle' = [cycle EXCEPT ![c].step = "account"]
    /\ UNCHANGED <<host, killSwitch, manualTicket, staged, recorded, started, raced, crashes>>

get_account_snapshot(c) ==
    /\ cycle[c].step = "account"
    /\ cycle' = [cycle EXCEPT ![c].step = "symbols", ![c].account = account,
                              ![c].todo = Symbols \X Strategies]
    /\ UNCHANGED <<host, killSwitch, manualTicket, account, staged, recorded, started, raced,
                   crashes>>

\* RiskEngine.size_position: any amount the stop distance may yield up to the caps.
sizes(a) == 1..Min({SymbolLimit, OrderLimit, a.cash})

\* Mutant: the kill switch is not consulted.
risk_approves_frozen(a, s, amount, key) ==
    /\ key \notin recorded
    /\ s \notin held_in(a) /\ Cardinality(held_in(a)) < MaxHeld
    /\ amount <= OrderLimit /\ a.held[s] + amount <= SymbolLimit
    /\ gross(a) + amount <= GrossLimit

\* RiskEngine.evaluate; the reasons about quote, regime, liquidity and earnings are
\* the alternative of no signal.
risk_approves(a, s, amount, key) ==
    /\ ~killSwitch
    /\ key \notin recorded
    /\ s \notin held_in(a) /\ Cardinality(held_in(a)) < MaxHeld
    /\ amount <= OrderLimit /\ a.held[s] + amount <= SymbolLimit
    /\ gross(a) + amount <= GrossLimit

durable_capacity(a) ==
    Min({Max({0, a.cash - reserved_notional}), Max({0, GrossLimit - gross(a)})})

\* Mutant: the order is compared with the capacity alone.
stage_raises_uncounted(a, amount) == manualTicket \/ amount > durable_capacity(a)

\* DurableExecutionStore.stage: open tickets and the capacity of the reservation, which
\* counts every other active reservation once more.
stage_raises(a, amount) ==
    manualTicket \/ reserved_notional + amount > durable_capacity(a)

\* The signal's identity holds the time of the cycle, so no two cycles share a key.
key_of(c, d) == <<cycle[c].number, d>>

staged_intent(c, d, amount) ==
    [key |-> key_of(c, d), symbol |-> d[1], amount |-> amount, status |-> "ACTIVE"]

\* d is a symbol with a strategy that signals.
admitted(c, d, amount) ==
    /\ cycle[c].step = "symbols" /\ d \in cycle[c].todo
    /\ amount \in sizes(cycle[c].account)
    /\ risk_approves(cycle[c].account, d[1], amount, key_of(c, d))
    /\ amount <= durable_capacity(cycle[c].account)

\* No signal, an evidence veto, a size of zero, a risk or a capacity rejection: the
\* no-trade ledger gets a row that nothing reads back.
no_trade(c, d) ==
    /\ cycle[c].step = "symbols" /\ d \in cycle[c].todo
    /\ cycle' = [cycle EXCEPT ![c].todo = @ \ {d}]
    /\ UNCHANGED <<host, killSwitch, manualTicket, account, staged, recorded, started, raced,
                   crashes>>

recorded_with(key) == recorded \union {key}

\* stage commits in the execution database, record_order in the ledger.
stage_order(c, d, amount) ==
    /\ admitted(c, d, amount)
    /\ ~stage_raises(cycle[c].account, amount)
    /\ staged' = staged \union {staged_intent(c, d, amount)}
    /\ recorded' = recorded_with(key_of(c, d))
    /\ cycle' = [cycle EXCEPT ![c].todo = @ \ {d}]
    /\ UNCHANGED <<host, killSwitch, manualTicket, account, started, raced, crashes>>

\* An exception of stage leaves run_cycle; the worker command freezes on it.
abort_cycle(c, d, amount) ==
    /\ admitted(c, d, amount)
    /\ stage_raises(cycle[c].account, amount)
    /\ cycle' = [cycle EXCEPT ![c] = Idle]
    /\ killSwitch' = (killSwitch \/ host = "worker")
    /\ UNCHANGED <<host, manualTicket, account, staged, recorded, started, raced, crashes>>

end_cycle(c) ==
    /\ cycle[c].step = "symbols" /\ cycle[c].todo = {}
    /\ cycle' = [cycle EXCEPT ![c] = Idle]
    /\ UNCHANGED <<host, killSwitch, manualTicket, account, staged, recorded, started, raced,
                   crashes>>

-----------------------------------------------------------------------------
(* Crashes: the kill switch is memory, tickets and ledger are not          *)

restart ==
    /\ crashes < MaxCrashes
    /\ crashes' = crashes + 1
    /\ cycle' = [c \in Callers |-> Idle]
    /\ killSwitch' = FALSE

crash ==
    /\ restart
    /\ UNCHANGED <<host, manualTicket, account, staged, recorded, started, raced>>

\* Between the commit of stage and the one of record_order.
crash_after_stage(c, d, amount) ==
    /\ admitted(c, d, amount)
    /\ ~stage_raises(cycle[c].account, amount)
    /\ staged' = staged \union {staged_intent(c, d, amount)}
    /\ restart
    /\ UNCHANGED <<host, manualTicket, account, recorded, started, raced>>

-----------------------------------------------------------------------------
(* The operator's endpoints                                                *)

operator_freeze ==
    /\ host = "api" /\ ~manualTicket
    /\ killSwitch' = TRUE /\ manualTicket' = TRUE
    /\ UNCHANGED <<host, account, staged, recorded, cycle, started, raced, crashes>>

operator_unfreeze ==
    /\ host = "api" /\ killSwitch
    /\ manualTicket' = FALSE /\ killSwitch' = FALSE
    /\ UNCHANGED <<host, account, staged, recorded, cycle, started, raced, crashes>>

\* /orders/cancel-all and /positions/flatten-all freeze the switch alone.
cancel_or_flatten ==
    /\ host = "api" /\ ~killSwitch
    /\ killSwitch' = TRUE
    /\ \E S \in {{}, held_in(account)} :
         account' = without(account, S)
    /\ UNCHANGED <<host, manualTicket, staged, recorded, cycle, started, raced, crashes>>

-----------------------------------------------------------------------------
(* The execution of staged intents, elsewhere                              *)

in_flight == \E c \in Callers : cycle[c].step = "symbols"

fill_intent(i) ==
    /\ i.status = "ACTIVE" /\ i.amount <= account.cash
    /\ staged' = (staged \ {i}) \union {[i EXCEPT !.status = "CONSUMED"]}
    /\ account' = [account EXCEPT !.cash = @ - i.amount, !.held[i.symbol] = @ + i.amount]
    /\ raced' = IF in_flight THEN raced + i.amount ELSE raced
    /\ UNCHANGED <<host, killSwitch, manualTicket, recorded, cycle, started, crashes>>

release_intent(i) ==
    /\ i.status = "ACTIVE"
    /\ staged' = (staged \ {i}) \union {[i EXCEPT !.status = "RELEASED"]}
    /\ UNCHANGED <<host, killSwitch, manualTicket, account, recorded, cycle, started, raced,
                   crashes>>

DeskNext ==
    \/ \E c \in Callers :
         \/ unhealthy(c) \/ run_cycle(c)
         \/ process_existing_positions(c) \/ get_account_snapshot(c)
         \/ end_cycle(c)
         \/ \E d \in Symbols \X Strategies :
              \/ no_trade(c, d)
              \/ \E amount \in 1..OrderLimit :
                   stage_order(c, d, amount) \/ abort_cycle(c, d, amount)
                     \/ crash_after_stage(c, d, amount)
    \/ crash
    \/ operator_freeze \/ operator_unfreeze \/ cancel_or_flatten
    \/ \E i \in staged : fill_intent(i) \/ release_intent(i)

DeskSpec == DeskInit /\ [][DeskNext]_deskVars

-----------------------------------------------------------------------------
(* Properties                                                              *)

\* What is held and what is promised stays under the gross limit, except for what was
\* filled behind the back of a cycle that had already copied the account: such a fill
\* leaves the reservations before the copy shows it.
ExposureWithinLimit ==
    gross(account) + reserved_notional <= GrossLimit + raced

\* No intent is staged while the kill switch or a manual ticket is up, even by a cycle
\* that was under way when the operator froze, and across a restart that forgets the
\* switch but not the ticket.
FrozenStagesNothing ==
    [][ (killSwitch \/ manualTicket)
          => {i.key : i \in staged'} = {i.key : i \in staged} ]_deskVars
=============================================================================
