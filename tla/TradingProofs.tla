---------------------------- MODULE TradingProofs ----------------------------
(***************************************************************************)
(* The decision loop for any number of overlapping cycles, symbols and     *)
(* strategies, with fills and sales behind their back, an operator, and    *)
(* crashes: exposure stays within its limit, and nothing is staged while   *)
(* the system is frozen.  And the paper broker it trades with, for any     *)
(* orders and quotes: a held symbol has its protection.                    *)
(***************************************************************************)
EXTENDS TradingLoop, SimulatedBroker, SumProofs

USE DEF deskVars

-----------------------------------------------------------------------------
(* Types.                                                                  *)

Account == [cash : Nat, held : [Symbols -> Nat]]

Signal == Symbols \X Strategies

Intent == [key : Nat \X Signal, symbol : Symbols, amount : Nat,
           status : {"ACTIVE", "CONSUMED", "RELEASED"}]

CycleState == [step : {"idle", "positions", "account", "symbols"}, number : Nat,
               account : Account \union {<<>>}, todo : SUBSET Signal]

\* A cycle that goes through the symbols has copied an account.
DeskTypes ==
    /\ account \in Account
    /\ staged \in SUBSET Intent /\ IsFiniteSet(staged)
    /\ cycle \in [Callers -> CycleState]
    /\ \A c \in Callers : cycle[c].step = "symbols" => cycle[c].account \in Account
    /\ started \in Nat
    /\ raced \in Nat

active == {i \in staged : i.status = "ACTIVE"}
amounts == [i \in active |-> i.amount]

LEMMA GrossTyped == \A a \in Account : gross(a) \in Nat
  BY DeskAssumption, SumNatural DEF gross, Account

LEMMA ReservedTyped ==
  ASSUME DeskTypes
  PROVE  /\ reserved_notional = SumFunction(amounts) /\ reserved_notional \in Nat
         /\ IsFiniteSet(active) /\ active \subseteq Intent /\ amounts \in [active -> Nat]
<1>1. IsFiniteSet(active) /\ active \subseteq Intent
  BY FS_Subset DEF DeskTypes, active
<1>2. amounts \in [active -> Nat]
  BY <1>1 DEF amounts, Intent
<1>3. reserved_notional = SumFunction(amounts)
  BY DEF reserved_notional, amounts, active
<1> QED BY <1>1, <1>2, <1>3, SumNatural

LEMMA ReservedStaysTyped == ASSUME DeskTypes' PROVE reserved_notional' \in Nat
<1>1. IsFiniteSet(active') /\ active' \subseteq Intent
  BY FS_Subset DEF DeskTypes, active
<1>2. amounts' \in [active' -> Nat]
  BY <1>1 DEF amounts, Intent
<1>3. reserved_notional' = SumFunction(amounts')
  BY DEF reserved_notional, amounts, active
<1> HIDE DEF active, amounts
<1> QED BY <1>1, <1>2, <1>3, SumNatural

\* Closing positions gives an account that holds no more.
LEMMA WithoutLess ==
  ASSUME NEW a \in Account, NEW S \in SUBSET Symbols
  PROVE  without(a, S) \in Account /\ gross(without(a, S)) <= gross(a)
<1> DEFINE left == [s \in Symbols |-> IF s \in S THEN 0 ELSE a.held[s]]
           proceeds == [s \in S |-> a.held[s]]
<1>1. a.held \in [Symbols -> Nat] /\ a.cash \in Nat
  BY DEF Account
<1>2. left \in [Symbols -> Nat] /\ proceeds \in [S -> Nat] /\ \A s \in Symbols : left[s] <= a.held[s]
  BY <1>1
<1>3. without(a, S) = [cash |-> a.cash + SumFunction(proceeds), held |-> left]
  BY DEF without
<1> HIDE DEF left, proceeds
<1>4. IsFiniteSet(Symbols) /\ IsFiniteSet(S)
  BY DeskAssumption, FS_Subset
<1>5. SumFunction(proceeds) \in Nat
  BY <1>2, <1>4, SumNatural
<1>6. SumFunction(left) <= SumFunction(a.held)
  BY <1>1, <1>2, <1>4, SumBelow
<1> QED BY <1>1, <1>2, <1>3, <1>5, <1>6 DEF Account, gross

LEMMA HeldTyped == \A a \in Account : held_in(a) \in SUBSET Symbols
  BY DEF held_in

\* A filled intent.
LEMMA FillMore ==
  ASSUME NEW a \in Account, NEW s \in Symbols, NEW n \in Nat, n <= a.cash,
         NEW b, b = [cash |-> a.cash - n, held |-> [a.held EXCEPT ![s] = @ + n]]
  PROVE  b \in Account /\ gross(b) = gross(a) + n
<1>1. a.held \in [Symbols -> Nat] /\ a.cash \in Nat
  BY DEF Account
<1>3. a.cash - n \in Nat /\ [a.held EXCEPT ![s] = @ + n] \in [Symbols -> Nat]
  BY <1>1
<1>4. SumFunction([a.held EXCEPT ![s] = @ + n]) = SumFunction(a.held) + n
  BY <1>1, DeskAssumption, SumUpdate
<1> QED BY <1>3, <1>4 DEF Account, gross

\* An intent leaves the active reservations, ...
LEMMA ReservedLess ==
  ASSUME DeskTypes, DeskTypes', NEW i \in staged, i.status = "ACTIVE", NEW x \in {"CONSUMED", "RELEASED"},
         staged' = (staged \ {i}) \union {[i EXCEPT !.status = x]}
  PROVE  reserved_notional = i.amount + reserved_notional' /\ i.amount \in Nat
<1>1. /\ reserved_notional = SumFunction(amounts) /\ IsFiniteSet(active)
      /\ active \subseteq Intent /\ amounts \in [active -> Nat]
  BY ReservedTyped
<1>2. i \in Intent /\ [i EXCEPT !.status = x].status # "ACTIVE" /\ i.amount \in Nat
  BY DEF DeskTypes, Intent
<1>3. active' = active \ {i} /\ i \in active
  BY <1>2 DEF active
<1>4. reserved_notional' = SumFunction([j \in active \ {i} |-> j.amount])
  BY <1>3 DEF reserved_notional, active
<1> DEFINE rest == [j \in active \ {i} |-> amounts[j]]
<1>5. rest = [j \in active \ {i} |-> j.amount] /\ amounts[i] = i.amount
  BY <1>3 DEF amounts
<1>6. OneTermMore(amounts, rest, i)
  <2>1. IsFiniteSet(active \ {i}) /\ i \notin active \ {i} /\ (active \ {i}) \union {i} = active
    BY <1>1, <1>3, FS_Subset
  <2>2. amounts \in [(active \ {i}) \union {i} -> Int]
    BY <1>1, <2>1
  <2> HIDE DEF active, amounts
  <2> QED BY <2>1, <2>2 DEF OneTermMore
<1> HIDE DEF rest
<1>7. SumFunction(amounts) = amounts[i] + SumFunction(rest)
  BY <1>6, SumStep
<1> QED BY <1>1, <1>2, <1>4, <1>5, <1>7

\* ... or joins them.
LEMMA ReservedMore ==
  ASSUME DeskTypes, NEW i \in Intent, staged' = staged \union {i}, i.status = "ACTIVE"
  PROVE  reserved_notional' <= reserved_notional + i.amount
<1>1. /\ reserved_notional = SumFunction(amounts) /\ reserved_notional \in Nat
      /\ IsFiniteSet(active) /\ active \subseteq Intent /\ amounts \in [active -> Nat]
  BY ReservedTyped
<1>2. i.amount \in Nat
  BY DEF Intent
<1>3. active' = active \union {i}
  BY DEF active
<1>4. reserved_notional' = SumFunction([j \in active \union {i} |-> j.amount])
  BY <1>3 DEF reserved_notional, active
<1>5. CASE i \in active
  <2>1. active \union {i} = active
    BY <1>5
  <2>2. reserved_notional' = SumFunction(amounts)
    BY <1>4, <2>1 DEF amounts
  <2> QED BY <1>1, <1>2, <2>2
<1>6. CASE i \notin active
  <2> DEFINE more == [j \in active \union {i} |-> j.amount]
  <2>1. amounts = [j \in active |-> more[j]] /\ more[i] = i.amount
    BY DEF amounts
  <2>2. more \in [active \union {i} -> Int]
    BY <1>1, <1>2 DEF Intent
  <2> HIDE DEF more
  <2>3. OneTermMore(more, amounts, i)
    BY <1>1, <1>6, <2>1, <2>2 DEF OneTermMore
  <2>4. SumFunction(more) = more[i] + SumFunction(amounts)
    BY <2>3, SumStep
  <2> QED BY <1>1, <1>2, <1>4, <2>1, <2>4 DEF more
<1> QED BY <1>5, <1>6

-----------------------------------------------------------------------------
(* The account, the reservations and the copies.                           *)

\* The copy a cycle works with shows all that is held, but for what was filled since.
CopiesShow ==
    \A c \in Callers :
        cycle[c].step = "symbols" => gross(account) <= gross(cycle[c].account) + raced

DeskInv == DeskTypes /\ CopiesShow /\ ExposureWithinLimit

\* A cycle keeps its copy, or has just made it.
CyclesGo ==
    /\ cycle' \in [Callers -> CycleState]
    /\ \A c \in Callers : cycle'[c].step = "symbols" =>
         \/ cycle[c].step = "symbols" /\ cycle'[c].account = cycle[c].account
         \/ cycle'[c].account = account /\ account' = account /\ raced' = raced

\* The account and the reservations move: positions are closed, an intent is filled and
\* counted as raced while a cycle is under way, reservations are released.
BooksMove ==
    \/ /\ account' \in Account /\ gross(account') <= gross(account)
       /\ UNCHANGED <<raced, staged>>
    \/ \E i \in staged : fill_intent(i) \/ release_intent(i)

LEMMA CopiesKept ==
  ASSUME DeskTypes, CopiesShow, CyclesGo, account' \in Account, raced' \in Nat,
         \/ gross(account') <= gross(account) /\ raced' = raced
         \/ /\ raced' - raced = gross(account') - gross(account) /\ cycle' = cycle
         \/ ~in_flight /\ cycle' = cycle
  PROVE  CopiesShow'
<1> SUFFICES ASSUME NEW c \in Callers, cycle'[c].step = "symbols"
             PROVE  gross(account') <= gross(cycle'[c].account) + raced'
  BY DEF CopiesShow, gross
<1>1. account \in Account /\ raced \in Nat /\ gross(account) \in Nat /\ gross(account') \in Nat
  BY GrossTyped DEF DeskTypes
<1>2. CASE cycle[c].step = "symbols" /\ cycle'[c].account = cycle[c].account
  <2>1. gross(cycle[c].account) \in Nat
    BY <1>2, GrossTyped DEF DeskTypes
  <2>2. gross(account) <= gross(cycle[c].account) + raced /\ in_flight
    BY <1>2 DEF CopiesShow, in_flight
  <2> QED BY <1>1, <1>2, <2>1, <2>2
<1>3. CASE cycle'[c].account = account /\ account' = account /\ raced' = raced
  BY <1>1, <1>3
<1> QED BY <1>2, <1>3 DEF CyclesGo

\* Nothing is staged.
LEMMA BooksKeep ==
  ASSUME DeskInv, CyclesGo, BooksMove, started' \in Nat,
         cycle' = cycle \/ UNCHANGED staged
  PROVE  DeskInv'
<1> USE DEF DeskInv
<1>0. account \in Account /\ raced \in Nat /\ gross(account) \in Nat /\ reserved_notional \in Nat
      /\ GrossLimit \in Nat
  BY GrossTyped, ReservedTyped, DeskAssumption DEF DeskTypes
<1>1. \A c \in Callers : cycle'[c].step = "symbols" => cycle'[c].account \in Account
  BY DEF CyclesGo, DeskTypes
<1>2. ASSUME account' \in Account, gross(account') <= gross(account), UNCHANGED <<raced, staged>>
      PROVE  DeskInv'
  <2>1. DeskTypes'
    BY <1>1, <1>2 DEF DeskTypes, CyclesGo
  <2>2. CopiesShow'
    BY <1>0, <1>2, CopiesKept
  <2>3. reserved_notional' = reserved_notional
    BY <1>2 DEF reserved_notional
  <2>4. gross(account') \in Nat
    BY <1>2, GrossTyped
  <2>5. gross(account)' = gross(account')
    BY DEF gross
  <2>6. ExposureWithinLimit'
    BY <1>0, <1>2, <2>3, <2>4, <2>5 DEF ExposureWithinLimit
  <2> QED BY <2>1, <2>2, <2>6
<1>3. ASSUME NEW i \in staged, i.status = "ACTIVE", NEW x \in {"CONSUMED", "RELEASED"},
             staged' = (staged \ {i}) \union {[i EXCEPT !.status = x]}, account' \in Account, raced' \in Nat
      PROVE  /\ DeskTypes' /\ i \in Intent
             /\ reserved_notional = i.amount + reserved_notional' /\ reserved_notional' \in Nat
  <2>1. i \in Intent /\ [i EXCEPT !.status = x] \in Intent
    BY <1>3 DEF DeskTypes, Intent
  <2>2. staged' \in SUBSET Intent /\ IsFiniteSet(staged')
    <3>1. IsFiniteSet(staged \ {i}) /\ staged \in SUBSET Intent
      BY FS_Subset DEF DeskTypes
    <3> QED BY <1>3, <2>1, <3>1, FS_AddElement
  <2>3. DeskTypes'
    BY <1>1, <1>3, <2>2 DEF DeskTypes, CyclesGo
  <2>4. reserved_notional' \in Nat
    BY <2>3, ReservedStaysTyped
  <2> QED BY <1>3, <2>1, <2>3, <2>4, ReservedLess
<1>4. ASSUME NEW i \in staged, fill_intent(i) PROVE DeskInv'
  <2>1. /\ i.status = "ACTIVE" /\ i.amount <= account.cash
        /\ staged' = (staged \ {i}) \union {[i EXCEPT !.status = "CONSUMED"]}
        /\ account' = [account EXCEPT !.cash = @ - i.amount, !.held[i.symbol] = @ + i.amount]
        /\ raced' = IF in_flight THEN raced + i.amount ELSE raced
        /\ cycle' = cycle
    BY <1>4 DEF fill_intent
  <2>2. i.symbol \in Symbols /\ i.amount \in Nat
    BY <1>4 DEF DeskTypes, Intent
  <2>3. account' \in Account /\ gross(account') = gross(account) + i.amount
    <3>1. PICK s \in Symbols, n \in Nat : s = i.symbol /\ n = i.amount
      BY <2>2
    <3>2. PICK b : b = account'
      OBVIOUS
    <3>3. /\ b = [cash |-> account.cash - n, held |-> [account.held EXCEPT ![s] = @ + n]]
          /\ n <= account.cash
      BY <1>0, <2>1, <3>1, <3>2 DEF Account
    <3>4. b \in Account /\ gross(b) = gross(account) + n
      BY <1>0, <3>3, FillMore
    <3> QED BY <3>1, <3>2, <3>4
  <2>4. raced' \in Nat /\ raced' >= raced
    BY <1>0, <2>1, <2>2
  <2>5. /\ DeskTypes'
        /\ reserved_notional = i.amount + reserved_notional' /\ reserved_notional' \in Nat
    BY <1>3, <2>1, <2>3, <2>4
  <2>6. CopiesShow'
    <3>1. ~in_flight \/ raced' - raced = gross(account') - gross(account)
      BY <1>0, <2>1, <2>2, <2>3
    <3> QED BY <2>1, <2>3, <2>4, <3>1, CopiesKept
  <2>7. gross(account)' = gross(account')
    BY DEF gross
  <2>8. ExposureWithinLimit'
    BY <1>0, <2>2, <2>3, <2>4, <2>5, <2>7 DEF ExposureWithinLimit
  <2> QED BY <2>5, <2>6, <2>8
<1>5. ASSUME NEW i \in staged, release_intent(i) PROVE DeskInv'
  <2>1. /\ i.status = "ACTIVE"
        /\ staged' = (staged \ {i}) \union {[i EXCEPT !.status = "RELEASED"]}
        /\ account' = account /\ raced' = raced /\ cycle' = cycle
    BY <1>5 DEF release_intent
  <2>2. /\ DeskTypes' /\ i.amount \in Nat
        /\ reserved_notional = i.amount + reserved_notional' /\ reserved_notional' \in Nat
    BY <1>0, <1>3, <2>1 DEF Intent
  <2>3. CopiesShow'
    BY <1>0, <2>1, CopiesKept
  <2>4. gross(account)' = gross(account)
    BY <2>1 DEF gross
  <2>5. ExposureWithinLimit'
    BY <1>0, <2>1, <2>2, <2>4 DEF ExposureWithinLimit
  <2> QED BY <2>2, <2>3, <2>5
<1> QED BY <1>2, <1>4, <1>5 DEF BooksMove

\* What stage lets through fits under the limit beside all other reservations, as far as
\* the copy of the account shows.
LEMMA CapacityFits ==
  ASSUME NEW a \in Account, NEW n \in Nat, n > 0, reserved_notional \in Nat,
         ~stage_raises(a, n)
  PROVE  reserved_notional + n + gross(a) <= GrossLimit
<1> DEFINE x == Max({0, a.cash - reserved_notional})
           g == GrossLimit - gross(a)
           y == Max({0, g})
<1>0. a.cash \in Nat /\ gross(a) \in Nat /\ GrossLimit \in Nat /\ g \in Int
  BY GrossTyped, DeskAssumption DEF Account
<1>1. \A m \in Int : Max({0, m}) = (IF m > 0 THEN m ELSE 0)
  BY DEF Max
<1>2. x \in Int /\ y = (IF g > 0 THEN g ELSE 0) /\ y \in Int
  BY <1>0, <1>1
<1>3. durable_capacity(a) = Min({x, y})
  BY DEF durable_capacity
<1> HIDE DEF x, y
<1>4. Min({x, y}) <= y
  BY <1>2 DEF Min
<1>5. reserved_notional + n <= Min({x, y}) \/ Min({x, y}) \notin Int
  BY <1>0, <1>3 DEF stage_raises
<1>6. Min({x, y}) \in Int
  BY <1>2 DEF Min
<1>7. reserved_notional + n <= y
  BY <1>2, <1>4, <1>5, <1>6
<1> QED BY <1>0, <1>2, <1>7

-----------------------------------------------------------------------------
(* Steps.                                                                  *)

\* A cycle c that goes on with the state x.
LEMMA CycleGoes ==
  ASSUME DeskTypes, NEW c \in Callers, NEW x \in CycleState, cycle' = [cycle EXCEPT ![c] = x],
         \/ x.step # "symbols"
         \/ cycle[c].step = "symbols" /\ x.account = cycle[c].account
         \/ x.account = account /\ account' = account /\ raced' = raced
  PROVE  CyclesGo
  BY DEF DeskTypes, CyclesGo

LEMMA IdleTyped == Idle \in CycleState /\ Idle.step # "symbols"
  BY DEF Idle, CycleState

LEMMA CyclesStay == DeskTypes /\ cycle' = cycle => CyclesGo
  BY DEF DeskTypes, CyclesGo

\* Staging an intent.
LEMMA StageKeeps ==
  ASSUME DeskInv, NEW c \in Callers, NEW d \in Signal, NEW n \in 1 .. OrderLimit,
         admitted(c, d, n), ~stage_raises(cycle[c].account, n),
         staged' = staged \union {staged_intent(c, d, n)}, CyclesGo,
         UNCHANGED <<account, raced, started>>
  PROVE  DeskInv'
<1> USE DEF DeskInv
<1>0. /\ account \in Account /\ raced \in Nat /\ gross(account) \in Nat /\ reserved_notional \in Nat
      /\ GrossLimit \in Nat /\ OrderLimit \in Nat
  BY GrossTyped, ReservedTyped, DeskAssumption DEF DeskTypes
<1>1. cycle[c].step = "symbols" /\ cycle[c].account \in Account /\ gross(cycle[c].account) \in Nat
  BY GrossTyped DEF admitted, DeskTypes
<1>2. n \in Nat /\ n > 0
  BY <1>0
<1>3. PICK i \in Intent : i = staged_intent(c, d, n) /\ i.status = "ACTIVE" /\ i.amount = n
  <2>1. d[1] \in Symbols /\ <<cycle[c].number, d>> \in Nat \X Signal
    BY DEF Signal, DeskTypes, CycleState
  <2>2. PICK k \in Nat \X Signal, s \in Symbols : k = key_of(c, d) /\ s = d[1]
    BY <2>1 DEF key_of
  <2>3. [key |-> k, symbol |-> s, amount |-> n, status |-> "ACTIVE"] \in Intent
    BY <1>2 DEF Intent
  <2> QED BY <2>2, <2>3 DEF staged_intent
<1>4. staged' = staged \union {i}
  BY <1>3
<1>5. DeskTypes'
  <2>1. staged' \in SUBSET Intent /\ IsFiniteSet(staged')
    BY <1>4, FS_AddElement DEF DeskTypes
  <2>2. \A e \in Callers : cycle'[e].step = "symbols" => cycle'[e].account \in Account
    BY DEF CyclesGo, DeskTypes
  <2> QED BY <2>1, <2>2 DEF DeskTypes, CyclesGo
<1>6. CopiesShow'
  BY <1>0, CopiesKept
<1>7. reserved_notional' <= reserved_notional + n /\ reserved_notional' \in Nat
  BY <1>3, <1>4, <1>5, ReservedMore, ReservedStaysTyped
<1>8. reserved_notional + n + gross(cycle[c].account) <= GrossLimit
  BY <1>0, <1>1, <1>2, CapacityFits
<1>9. gross(account) <= gross(cycle[c].account) + raced
  BY <1>1 DEF CopiesShow
<1>10. gross(account)' = gross(account) /\ raced' = raced
  BY DEF gross
<1>11. ExposureWithinLimit'
  BY <1>0, <1>1, <1>2, <1>7, <1>8, <1>9, <1>10 DEF ExposureWithinLimit
<1> QED BY <1>5, <1>6, <1>11

LEMMA DeskStart == DeskInit => DeskInv
<1> SUFFICES ASSUME DeskInit PROVE DeskInv
  OBVIOUS
<1>1. account \in Account /\ staged = {} /\ raced = 0 /\ started = 0
  BY DeskAssumption DEF DeskInit, Account
<1>2. DeskTypes
  BY <1>1, IdleTyped, FS_EmptySet DEF DeskInit, DeskTypes
<1>3. CopiesShow
  BY IdleTyped DEF DeskInit, CopiesShow
<1>4. gross(account) = 0
  <2> DEFINE none == [s \in Symbols |-> 0]
  <2>2. gross(account) = SumFunction(none)
    BY DEF DeskInit, gross
  <2>3. SumFunction(none) = 0
    BY ZeroSum, DeskAssumption
  <2> QED BY <2>2, <2>3
<1>5. reserved_notional = 0
  <2>1. DOMAIN amounts = {}
    BY <1>1 DEF amounts, active
  <2> QED BY <1>2, <2>1, ReservedTyped, SumNothing
<1>6. ExposureWithinLimit
  BY <1>1, <1>4, <1>5, DeskAssumption DEF ExposureWithinLimit
<1> QED BY <1>2, <1>3, <1>6 DEF DeskInv

LEMMA DeskStep == DeskInv /\ [DeskNext]_deskVars => DeskInv'
<1> SUFFICES ASSUME DeskInv, [DeskNext]_deskVars PROVE DeskInv'
  OBVIOUS
<1>0. DeskTypes /\ account \in Account /\ gross(account) \in Nat /\ started \in Nat
      /\ cycle \in [Callers -> CycleState] /\ raced \in Nat
  BY GrossTyped DEF DeskInv, DeskTypes
<1>1. ASSUME UNCHANGED <<account, staged, raced>>, CyclesGo, started' \in Nat PROVE DeskInv'
  <2>1. BooksMove
    BY <1>0, <1>1 DEF BooksMove
  <2> QED BY <1>1, <2>1, BooksKeep
<1>2. CASE UNCHANGED deskVars
  BY <1>0, <1>1, <1>2, CyclesStay
<1>3. ASSUME NEW c \in Callers, unhealthy(c) PROVE DeskInv'
  BY <1>0, <1>1, <1>3, CyclesStay DEF unhealthy
<1>4. ASSUME NEW c \in Callers, run_cycle(c) PROVE DeskInv'
  <2>1. PICK x \in CycleState : x.step = "positions" /\ cycle' = [cycle EXCEPT ![c] = x]
    <3>1. \A r \in CycleState, m \in Nat :
            /\ [r EXCEPT !.step = "positions", !.number = m] \in CycleState
            /\ [r EXCEPT !.step = "positions", !.number = m].step = "positions"
      BY DEF CycleState
    <3>2. started + 1 \in Nat
      BY <1>0
    <3>3. cycle' = [cycle EXCEPT ![c] = [Idle EXCEPT !.step = "positions", !.number = started + 1]]
      BY <1>4 DEF run_cycle
    <3> QED BY <3>1, <3>2, <3>3, IdleTyped
  <2>2. CyclesGo
    BY <1>0, <2>1, CycleGoes
  <2> QED BY <1>0, <1>1, <1>4, <2>2 DEF run_cycle
<1>5. ASSUME NEW S \in SUBSET Symbols, account' = without(account, S), CyclesGo,
             UNCHANGED <<staged, raced, started>>
      PROVE  DeskInv'
  <2>1. BooksMove
    BY <1>0, <1>5, WithoutLess DEF BooksMove
  <2> QED BY <1>0, <1>5, <2>1, BooksKeep
<1>6. ASSUME NEW c \in Callers, process_existing_positions(c) PROVE DeskInv'
  <2>1. PICK x \in CycleState : x.step = "account" /\ cycle' = [cycle EXCEPT ![c] = x]
    <3>1. cycle' = [cycle EXCEPT ![c] = [cycle[c] EXCEPT !.step = "account"]] /\ cycle[c] \in CycleState
      BY <1>0, <1>6 DEF process_existing_positions
    <3> QED BY <3>1 DEF CycleState
  <2>2. CyclesGo
    BY <1>0, <2>1, CycleGoes
  <2> QED BY <1>0, <1>5, <1>6, <2>2, HeldTyped DEF process_existing_positions
<1>7. ASSUME NEW c \in Callers, get_account_snapshot(c) PROVE DeskInv'
  <2>1. PICK x \in CycleState : x.account = account /\ cycle' = [cycle EXCEPT ![c] = x]
    <3>1. /\ cycle' = [cycle EXCEPT ![c] = [cycle[c] EXCEPT !.step = "symbols", !.account = account,
                                                            !.todo = Symbols \X Strategies]]
          /\ cycle[c] \in CycleState
      BY <1>0, <1>7 DEF get_account_snapshot
    <3> QED BY <1>0, <3>1 DEF CycleState, Signal
  <2>2. CyclesGo
    BY <1>0, <1>7, <2>1, CycleGoes DEF get_account_snapshot
  <2> QED BY <1>0, <1>1, <1>7, <2>2 DEF get_account_snapshot
<1>8. ASSUME NEW c \in Callers, NEW d, cycle' = [cycle EXCEPT ![c].todo = @ \ {d}] PROVE CyclesGo
  <2>1. cycle' = [cycle EXCEPT ![c] = [cycle[c] EXCEPT !.todo = @ \ {d}]] /\ cycle[c] \in CycleState
    BY <1>0, <1>8
  <2>2. PICK x \in CycleState : /\ x.step = cycle[c].step /\ x.account = cycle[c].account
                                /\ cycle' = [cycle EXCEPT ![c] = x]
    BY <2>1 DEF CycleState
  <2> QED BY <1>0, <2>2, CycleGoes
<1>9. ASSUME NEW c \in Callers, cycle' = [cycle EXCEPT ![c] = Idle] PROVE CyclesGo
  BY <1>0, <1>9, CycleGoes, IdleTyped
<1>10. ASSUME restart PROVE CyclesGo
  BY <1>10, IdleTyped DEF restart, CyclesGo
<1>11. ASSUME NEW c \in Callers, NEW d \in Signal, no_trade(c, d) PROVE DeskInv'
  BY <1>0, <1>1, <1>8, <1>11 DEF no_trade
<1>12. ASSUME NEW c \in Callers, NEW d \in Signal, NEW n \in 1 .. OrderLimit, stage_order(c, d, n)
       PROVE  DeskInv'
  BY <1>8, <1>12, StageKeeps DEF stage_order
<1>13. ASSUME NEW c \in Callers, NEW d \in Signal, NEW n \in 1 .. OrderLimit, abort_cycle(c, d, n)
       PROVE  DeskInv'
  BY <1>0, <1>1, <1>9, <1>13 DEF abort_cycle
<1>14. ASSUME NEW c \in Callers, NEW d \in Signal, NEW n \in 1 .. OrderLimit,
              crash_after_stage(c, d, n)
       PROVE  DeskInv'
  BY <1>10, <1>14, StageKeeps DEF crash_after_stage
<1>15. ASSUME NEW c \in Callers, end_cycle(c) PROVE DeskInv'
  BY <1>0, <1>1, <1>9, <1>15 DEF end_cycle
<1>16. CASE crash
  BY <1>0, <1>1, <1>10, <1>16 DEF crash
<1>17. CASE operator_freeze \/ operator_unfreeze
  BY <1>0, <1>1, <1>17, CyclesStay DEF operator_freeze, operator_unfreeze
<1>18. CASE cancel_or_flatten
  <2>1. PICK S \in SUBSET Symbols : account' = without(account, S)
    BY <1>0, <1>18, HeldTyped DEF cancel_or_flatten
  <2> QED BY <1>0, <1>5, <1>18, <2>1, CyclesStay DEF cancel_or_flatten
<1>19. ASSUME NEW i \in staged, fill_intent(i) \/ release_intent(i) PROVE DeskInv'
  <2>1. BooksMove /\ cycle' = cycle /\ started' = started
    BY <1>19 DEF BooksMove, fill_intent, release_intent
  <2> QED BY <1>0, <2>1, BooksKeep, CyclesStay
<1> QED
  BY <1>2, <1>3, <1>4, <1>6, <1>7, <1>11, <1>12, <1>13, <1>14, <1>15, <1>16, <1>17, <1>18, <1>19
  DEF DeskNext, Signal

-----------------------------------------------------------------------------
(* Theorems.                                                               *)

\* However many cycles overlap, each with its copy of the account, what is held and what is
\* reserved stays under the gross limit, save for what was filled behind a cycle's back
\* (durable_capacity and the reservation check of stage).
THEOREM ExposureStaysWithinLimit == DeskSpec => []ExposureWithinLimit
<1>1. DeskInv => ExposureWithinLimit
  BY DEF DeskInv
<1> QED BY <1>1, DeskStart, DeskStep, PTL DEF DeskSpec

\* A cycle under way when the operator freezes stages nothing any more, nor does one after
\* a restart that has forgotten the switch but not the ticket (evaluate's kill switch and
\* stage's tickets, the only ways to an intent).
THEOREM FrozenStaysEmpty == DeskSpec => FrozenStagesNothing
<1>1. ASSUME DeskInv, [DeskNext]_deskVars, killSwitch \/ manualTicket
      PROVE  {i.key : i \in staged'} = {i.key : i \in staged}
  <2>1. CASE staged' = staged
    BY <2>1
  <2>2. ASSUME NEW i \in staged, NEW x, staged' = (staged \ {i}) \union {[i EXCEPT !.status = x]}
        PROVE  {j.key : j \in staged'} = {j.key : j \in staged}
    <3>1. i \in Intent
      BY <1>1 DEF DeskInv, DeskTypes
    <3>2. PICK y : y = [i EXCEPT !.status = x]
      OBVIOUS
    <3>4. y.key = i.key
      BY <3>1, <3>2 DEF Intent
    <3>3. staged' = (staged \ {i}) \union {y}
      BY <2>2, <3>2
    <3> QED BY <3>3, <3>4
  <2>3. ASSUME NEW c \in Callers, NEW d, NEW n,
               admitted(c, d, n), ~stage_raises(cycle[c].account, n)
        PROVE  FALSE
    BY <1>1, <2>3 DEF admitted, risk_approves, stage_raises
  <2>4. ASSUME NEW c \in Callers,
               \/ unhealthy(c) \/ run_cycle(c) \/ process_existing_positions(c)
               \/ get_account_snapshot(c) \/ end_cycle(c)
        PROVE  staged' = staged
    BY <2>4 DEF unhealthy, run_cycle, process_existing_positions, get_account_snapshot, end_cycle
  <2>5. ASSUME NEW c \in Callers, NEW d, NEW n, no_trade(c, d) \/ abort_cycle(c, d, n)
        PROVE  staged' = staged
    BY <2>5 DEF no_trade, abort_cycle
  <2>6. ASSUME NEW c \in Callers, NEW d, NEW n, stage_order(c, d, n) \/ crash_after_stage(c, d, n)
        PROVE  FALSE
    BY <2>3, <2>6 DEF stage_order, crash_after_stage
  <2>7. CASE crash \/ operator_freeze \/ operator_unfreeze \/ cancel_or_flatten \/ UNCHANGED deskVars
    BY <2>1, <2>7 DEF crash, operator_freeze, operator_unfreeze, cancel_or_flatten
  <2>8. ASSUME NEW i \in staged, fill_intent(i) \/ release_intent(i)
        PROVE  {j.key : j \in staged'} = {j.key : j \in staged}
    BY <2>2, <2>8 DEF fill_intent, release_intent
  <2>9. CASE \E c \in Callers :
                \/ unhealthy(c) \/ run_cycle(c) \/ process_existing_positions(c)
                \/ get_account_snapshot(c) \/ end_cycle(c)
                \/ \E d \in Symbols \X Strategies :
                     \/ no_trade(c, d)
                     \/ \E n \in 1 .. OrderLimit :
                          stage_order(c, d, n) \/ abort_cycle(c, d, n) \/ crash_after_stage(c, d, n)
    BY <2>1, <2>4, <2>5, <2>6, <2>9
  <2> QED BY <1>1, <2>7, <2>8, <2>9 DEF DeskNext
<1>2. DeskInv /\ [DeskNext]_deskVars
        => [(killSwitch \/ manualTicket)
              => {i.key : i \in staged'} = {i.key : i \in staged}]_deskVars
  BY <1>1
<1> QED BY <1>2, DeskStart, DeskStep, PTL DEF DeskSpec, FrozenStagesNothing

-----------------------------------------------------------------------------
(* The paper broker: what its orders and its state are.                    *)

\* The fields of an order the broker reads.
IsOrder(o) ==
    /\ o.symbol \in SimSymbols /\ o.side \in {"BUY", "SELL"}
    /\ o.quantity \in Nat \ {0} /\ o.limit \in Nat \ {0}

IsBroker(b) ==
    /\ {"cash", "positions", "open", "protections"} \subseteq DOMAIN b
    /\ b.positions \in [SimSymbols -> Nat]
    /\ IsFiniteSet(b.open) /\ \A o \in b.open : IsOrder(o)

\* A share sold at the bid brings in, after slippage, what the commission may take.
SalesPay ==
    \A q \in SimQuotes :
        LET price == (q.bid * (10 - SimSlippage)) \div 10
        IN  price >= 1 /\ price >= SimCommission

\* What the broker's three dictionaries have in common.
BrokerGood(b) ==
    /\ IsBroker(b)
    /\ b.cash \in Nat
    /\ DOMAIN b.protections = held_symbols(b)
    /\ \A s \in DOMAIN b.protections : b.protections[s].quantity \in Nat \ {0}

-----------------------------------------------------------------------------
(* One order.                                                              *)

\* The price of a fill, and for a sale what it brings in.
LEMMA NotionalTyped ==
  ASSUME NEW o, IsOrder(o), NEW q \in SimQuotes
  PROVE  /\ notional(o, q) \in Nat /\ commission(o.quantity) \in Nat
         /\ SalesPay /\ o.side = "SELL" => notional(o, q) >= commission(o.quantity)
<1>1. /\ q.bid \in Nat /\ q.ask \in Nat /\ o.quantity \in Nat \ {0} /\ o.limit \in Nat
      /\ SimSlippage \in 0 .. 9 /\ SimCommission \in Nat
  BY SimAssumption DEF IsOrder
<1> DEFINE buy == (q.ask * (10 + SimSlippage)) \div 10
           sell == (q.bid * (10 - SimSlippage)) \div 10
           n == o.quantity
           price == slipped_price(q, o)
<1>2. buy \in Nat /\ sell \in Nat
  <2>1. q.ask * (10 + SimSlippage) \in Nat /\ q.bid * (10 - SimSlippage) \in Nat
    BY <1>1
  <2> DEFINE u == q.ask * (10 + SimSlippage)
             v == q.bid * (10 - SimSlippage)
  <2>2. u \in Nat /\ v \in Nat /\ buy = u \div 10 /\ sell = v \div 10
    BY <2>1
  <2> HIDE DEF u, v, buy, sell
  <2> QED BY <2>2
<1>3. price = IF o.side = "BUY" THEN Min({buy, o.limit}) ELSE Max({sell, o.limit})
  BY DEF slipped_price
<1>4. SalesPay => sell >= 1 /\ sell >= SimCommission
  BY DEF SalesPay
<1> HIDE DEF buy, sell
<1>5. price \in Nat /\ (o.side = "SELL" => price >= sell)
  BY <1>1, <1>2, <1>3, TwoMax, TwoMin
<1>6. commission(n) = (IF SimCommission >= n THEN SimCommission ELSE n) /\ notional(o, q) = price * n
  BY <1>1, TwoMax DEF commission, notional
<1> HIDE DEF price, n
<1>7. n \in Nat /\ n >= 1
  BY <1>1 DEF n
<1>8. price * n \in Nat
  BY <1>5, <1>7
<1>9. ASSUME SalesPay, o.side = "SELL" PROVE price * n >= n /\ price * n >= SimCommission
  <2>1. price >= 1 /\ price >= SimCommission
    BY <1>1, <1>2, <1>4, <1>5, <1>9
  <2>2. \A x, y \in Nat : x >= 1 => x * y >= y
    OBVIOUS
  <2>3. price * n >= n /\ n * price >= price /\ n * price = price * n
    BY <1>5, <1>7, <2>1, <2>2
  <2> QED BY <1>1, <1>5, <1>7, <1>8, <2>1, <2>3
<1> QED BY <1>1, <1>6, <1>7, <1>8, <1>9 DEF n

LEMMA BoughtGood ==
  ASSUME NEW b, BrokerGood(b), NEW o, IsOrder(o), NEW q \in SimQuotes,
         o.side = "BUY", ~fill_rejected(b, o, q)
  PROVE  BrokerGood(bought(b, o, q)) /\ bought(b, o, q).open = b.open
<1> DEFINE s == o.symbol
           n == o.quantity
           cost == notional(o, q) + commission(n)
           p == [quantity |-> n, stop |-> o.stop, target |-> o.target, entry |-> o.key]
           positions == [b.positions EXCEPT ![s] = @ + n]
           protections == put(b.protections, s, p)
           cash == b.cash - notional(o, q) - commission(n)
<1>1. /\ bought(b, o, q).cash = cash /\ bought(b, o, q).positions = positions
      /\ bought(b, o, q).open = b.open /\ bought(b, o, q).protections = protections
      /\ DOMAIN bought(b, o, q) = DOMAIN b
  BY DEF bought, BrokerGood, IsBroker
<1>2. /\ b.cash \in Nat /\ b.positions \in [SimSymbols -> Nat] /\ s \in SimSymbols /\ n \in Nat \ {0}
      /\ notional(o, q) \in Nat /\ commission(n) \in Nat
  BY NotionalTyped DEF BrokerGood, IsBroker, IsOrder
<1>3. cash \in Nat
  <2>1. notional(o, q) + commission(n) <= b.cash
    BY <1>2 DEF fill_rejected
  <2> QED BY <1>2, <2>1
<1>4. positions \in [SimSymbols -> Nat] /\ positions[s] > 0 /\ \A t \in SimSymbols \ {s} : positions[t] = b.positions[t]
  BY <1>2
<1>5. /\ DOMAIN protections = DOMAIN b.protections \union {s}
      /\ protections[s] = p /\ \A t \in DOMAIN b.protections \ {s} : protections[t] = b.protections[t]
  BY DEF put
<1>6. p.quantity = n
  OBVIOUS
<1> HIDE DEF p, positions, protections, cash
<1>7. DOMAIN protections = {t \in SimSymbols : positions[t] > 0}
  BY <1>2, <1>4, <1>5 DEF BrokerGood, held_symbols
<1>8. \A t \in DOMAIN protections : protections[t].quantity \in Nat \ {0}
  BY <1>2, <1>5, <1>6 DEF BrokerGood
<1>9. IsFiniteSet(b.open) /\ \A t \in b.open : IsOrder(t)
  BY DEF BrokerGood, IsBroker
<1>10. IsBroker(bought(b, o, q))
  BY <1>1, <1>4, <1>9 DEF IsBroker, BrokerGood
<1>11. DOMAIN bought(b, o, q).protections = held_symbols(bought(b, o, q))
  BY <1>1, <1>7 DEF held_symbols
<1> QED BY <1>1, <1>3, <1>8, <1>10, <1>11 DEF BrokerGood

LEMMA SoldGood ==
  ASSUME NEW b, BrokerGood(b), NEW o, IsOrder(o), NEW q \in SimQuotes, SalesPay,
         o.side = "SELL", ~fill_rejected(b, o, q)
  PROVE  BrokerGood(sold(b, o, q)) /\ sold(b, o, q).open = b.open
<1> DEFINE s == o.symbol
           n == o.quantity
           remaining == b.positions[s] - n
           positions == [b.positions EXCEPT ![s] = remaining]
           protections == IF remaining = 0
                          THEN Restrict(b.protections, DOMAIN b.protections \ {s}) ELSE b.protections
           cash == b.cash + notional(o, q) - commission(n)
<1>1. /\ sold(b, o, q).cash = cash /\ sold(b, o, q).positions = positions
      /\ sold(b, o, q).open = b.open /\ sold(b, o, q).protections = protections
      /\ DOMAIN sold(b, o, q) = DOMAIN b
  BY DEF sold, BrokerGood, IsBroker
<1>2. /\ b.cash \in Nat /\ b.positions \in [SimSymbols -> Nat] /\ s \in SimSymbols /\ n \in Nat \ {0}
      /\ notional(o, q) \in Nat /\ commission(n) \in Nat /\ notional(o, q) >= commission(n)
  BY NotionalTyped DEF BrokerGood, IsBroker, IsOrder
<1>3. cash \in Nat
  BY <1>2
<1>4. n <= b.positions[s]
  BY <1>2 DEF fill_rejected
<1>5. /\ positions \in [SimSymbols -> Nat] /\ positions[s] = remaining /\ remaining \in Nat
      /\ \A t \in SimSymbols \ {s} : positions[t] = b.positions[t]
      /\ s \in DOMAIN b.protections
  BY <1>2, <1>4 DEF BrokerGood, held_symbols
<1>6. /\ remaining = 0 => DOMAIN protections = DOMAIN b.protections \ {s}
      /\ remaining # 0 => DOMAIN protections = DOMAIN b.protections
      /\ \A t \in DOMAIN protections : protections[t] = b.protections[t] /\ t \in DOMAIN b.protections
  BY DEF Restrict
<1> HIDE DEF remaining, positions, protections, cash
<1>7. DOMAIN protections = {t \in SimSymbols : positions[t] > 0}
  <2>1. DOMAIN b.protections = {t \in SimSymbols : b.positions[t] > 0}
    BY DEF BrokerGood, held_symbols
  <2>2. \A t \in SimSymbols : t \in DOMAIN protections <=> positions[t] > 0
    BY <1>2, <1>5, <1>6, <2>1
  <2>3. DOMAIN protections \subseteq SimSymbols
    BY <1>6, <2>1
  <2> QED BY <2>2, <2>3
<1>8. \A t \in DOMAIN protections : protections[t].quantity \in Nat \ {0}
  BY <1>2, <1>6 DEF BrokerGood
<1>9. IsFiniteSet(b.open) /\ \A t \in b.open : IsOrder(t)
  BY DEF BrokerGood, IsBroker
<1>10. IsBroker(sold(b, o, q))
  BY <1>1, <1>5, <1>9 DEF IsBroker, BrokerGood
<1>11. DOMAIN sold(b, o, q).protections = held_symbols(sold(b, o, q))
  BY <1>1, <1>7 DEF held_symbols
<1> QED BY <1>1, <1>3, <1>8, <1>10, <1>11 DEF BrokerGood

\* A change of the open orders and of the keys.
LEMMA OtherGood ==
  ASSUME NEW b, BrokerGood(b), NEW c, {"cash", "positions", "open", "protections"} \subseteq DOMAIN c,
         c.cash = b.cash, c.positions = b.positions, c.protections = b.protections,
         IsFiniteSet(c.open), \A o \in c.open : IsOrder(o)
  PROVE  BrokerGood(c)
  BY DEF BrokerGood, IsBroker, held_symbols

LEMMA TryFillGood ==
  ASSUME NEW b, BrokerGood(b), NEW o, IsOrder(o), NEW q \in SimQuotes, SalesPay
  PROVE  BrokerGood(try_fill(b, o, q))
<1> DEFINE closed == [b EXCEPT !.open = @ \ {o}]
<1>1. BrokerGood(closed)
  <2>1. /\ closed.open \subseteq b.open /\ DOMAIN closed = DOMAIN b
        /\ closed.cash = b.cash /\ closed.positions = b.positions /\ closed.protections = b.protections
    BY DEF BrokerGood, IsBroker
  <2>2. /\ {"cash", "positions", "open", "protections"} \subseteq DOMAIN b
        /\ IsFiniteSet(b.open) /\ \A t \in b.open : IsOrder(t)
    BY DEF BrokerGood, IsBroker
  <2> HIDE DEF closed
  <2>3. IsFiniteSet(closed.open)
    BY <2>1, <2>2, FS_Subset
  <2> QED BY <2>1, <2>2, <2>3, OtherGood
<1>2. fill_rejected(closed, o, q) = fill_rejected(b, o, q)
  BY DEF fill_rejected, BrokerGood, IsBroker
<1>3. try_fill(b, o, q) = IF ~marketable(o, q) THEN b
                          ELSE IF fill_rejected(b, o, q) THEN closed
                          ELSE IF o.side = "BUY" THEN bought(closed, o, q) ELSE sold(closed, o, q)
  BY DEF try_fill
<1> HIDE DEF closed
<1>4. o.side # "BUY" => o.side = "SELL"
  BY DEF IsOrder
<1> QED BY <1>1, <1>2, <1>3, <1>4, BoughtGood, SoldGood

-----------------------------------------------------------------------------
(* The open orders of a symbol, one after the other.                       *)

IsFilling(f, b, os, q) ==
    f = [n \in 0 .. Len(os) |-> IF n = 0 THEN b ELSE try_fill(f[n - 1], os[n], q)]

LEMMA FillingExists ==
  ASSUME NEW b, NEW os, Len(os) \in Nat, NEW q
  PROVE  \E f : IsFilling(f, b, os, q)
<1> DEFINE Start(f, m) == f = [n \in 0 .. m |-> IF n = 0 THEN b ELSE try_fill(f[n - 1], os[n], q)]
           Bad == {m \in Nat : ~ \E f : Start(f, m)}
<1>1. ASSUME NEW m \in Nat, NEW f, Start(f, m) PROVE \E g : Start(g, m + 1)
  <2> DEFINE g == [n \in 0 .. m + 1 |-> IF n = m + 1 THEN try_fill(f[m], os[m + 1], q) ELSE f[n]]
  <2>1. ASSUME NEW n \in 0 .. m + 1
        PROVE  g[n] = IF n = 0 THEN b ELSE try_fill(g[n - 1], os[n], q)
    <3>1. CASE n = m + 1
      <4>1. n - 1 = m /\ m \in 0 .. m + 1 /\ m # m + 1 /\ n # 0
        BY <3>1
      <4>2. g[m] = f[m]
        BY <4>1
      <4> QED BY <3>1, <4>1, <4>2
    <3>2. CASE n # m + 1
      <4>1. n \in 0 .. m /\ g[n] = f[n]
        BY <3>2
      <4>2. f[n] = IF n = 0 THEN b ELSE try_fill(f[n - 1], os[n], q)
        BY <1>1, <4>1
      <4>3. n # 0 => n - 1 \in 0 .. m + 1 /\ n - 1 # m + 1
        BY <4>1
      <4>4. n # 0 => g[n - 1] = f[n - 1]
        BY <4>3
      <4> QED BY <4>1, <4>2, <4>4
    <3> QED BY <3>1, <3>2
  <2>2. g = [n \in 0 .. m + 1 |-> g[n]]
    OBVIOUS
  <2> HIDE DEF g
  <2> QED BY <2>1, <2>2
<1>2. 0 \notin Bad
  <2> DEFINE f == [n \in 0 .. 0 |-> b]
  <2>1. \A n \in 0 .. 0 : n = 0
    OBVIOUS
  <2>2. Start(f, 0)
    BY <2>1
  <2> QED BY <2>2
<1>3. Bad = {}
  <2> SUFFICES ASSUME Bad # {} PROVE FALSE
    OBVIOUS
  <2>1. PICK n \in Bad : \A m \in Bad : n <= m
    BY LeastNumber
  <2>2. n \in Nat /\ n # 0 /\ n - 1 \in Nat /\ n - 1 \notin Bad
    <3> HIDE DEF Bad
    <3>1. n \in Nat /\ n # 0
      BY <1>2, <2>1 DEF Bad
    <3> QED BY <2>1, <3>1
  <2>3. PICK f : Start(f, n - 1)
    BY <2>2
  <2>4. \E g : Start(g, (n - 1) + 1)
    BY <1>1, <2>2, <2>3
  <2>5. (n - 1) + 1 = n
    BY <2>2
  <2> QED BY <2>1, <2>4, <2>5
<1> QED BY <1>3 DEF IsFilling

LEMMA FilledGood ==
  ASSUME NEW b, BrokerGood(b), NEW os \in Seq(b.open), NEW q \in SimQuotes, SalesPay
  PROVE  BrokerGood(filled_in_order(b, os, q))
<1>1. Len(os) \in Nat /\ \A n \in 1 .. Len(os) : os[n] \in b.open
  OBVIOUS
<1>2. \A n \in 1 .. Len(os) : IsOrder(os[n])
  BY <1>1 DEF BrokerGood, IsBroker
<1> DEFINE f == CHOOSE it : IsFilling(it, b, os, q)
<1>3. filled_in_order(b, os, q) = f[Len(os)]
  BY DEF filled_in_order, IsFilling
<1>4. IsFilling(f, b, os, q)
  BY <1>1, FillingExists
<1> HIDE DEF f
<1>5. f[0] = b /\ \A n \in 1 .. Len(os) : f[n] = try_fill(f[n - 1], os[n], q)
  BY <1>1, <1>4 DEF IsFilling
<1> DEFINE Bad == {n \in 0 .. Len(os) : ~ BrokerGood(f[n])}
<1>6. Bad = {}
  <2> SUFFICES ASSUME Bad # {} PROVE FALSE
    OBVIOUS
  <2>0. Bad \in SUBSET Nat
    BY <1>1
  <2>1. PICK n \in Bad : \A m \in Bad : n <= m
    BY <2>0, LeastNumber
  <2>2. n # 0 /\ n \in 1 .. Len(os) /\ n - 1 \in 0 .. Len(os) /\ n - 1 \notin Bad
    BY <1>1, <1>5, <2>1
  <2>3. BrokerGood(f[n - 1])
    BY <2>2
  <2>4. BrokerGood(try_fill(f[n - 1], os[n], q))
    BY <1>2, <2>2, <2>3, TryFillGood
  <2> QED BY <1>5, <2>1, <2>2, <2>4
<1> QED BY <1>1, <1>3, <1>6

\* A new order: its key is noted and it is open until it is tried.
LEMMA PlacedGood ==
  ASSUME NEW b, BrokerGood(b), NEW o, IsOrder(o), NEW q \in SimQuotes, SalesPay
  PROVE  BrokerGood(try_fill([b EXCEPT !.keys = @ \union {o.key}, !.open = @ \union {o}], o, q))
<1> DEFINE c == [b EXCEPT !.keys = @ \union {o.key}, !.open = @ \union {o}]
<1>1. /\ c.open = b.open \union {o} /\ DOMAIN c = DOMAIN b
      /\ c.cash = b.cash /\ c.positions = b.positions /\ c.protections = b.protections
  BY DEF BrokerGood, IsBroker
<1>2. /\ {"cash", "positions", "open", "protections"} \subseteq DOMAIN b
      /\ IsFiniteSet(b.open) /\ \A t \in b.open : IsOrder(t)
  BY DEF BrokerGood, IsBroker
<1> HIDE DEF c
<1>3. IsFiniteSet(c.open) /\ \A t \in c.open : IsOrder(t)
  BY <1>1, <1>2, FS_AddElement
<1>4. BrokerGood(c)
  BY <1>1, <1>2, <1>3, OtherGood
<1>5. BrokerGood(try_fill(c, o, q))
  BY <1>4, TryFillGood
<1> QED BY <1>5 DEF c

LEMMA SubmittedGood ==
  ASSUME NEW b, BrokerGood(b), NEW o, IsOrder(o), NEW q \in SimQuotes, SalesPay
  PROVE  BrokerGood(submitted(b, o, q))
  BY PlacedGood DEF submitted

LEMMA ProtectedGood ==
  ASSUME NEW b, BrokerGood(b), NEW s \in SimSymbols, NEW q \in SimQuotes, SalesPay
  PROVE  BrokerGood(protected(b, s, q))
<1>1. ASSUME protection_hit(b, s, q) PROVE IsOrder(exit_order(b, s, q))
  <2>1. b.protections[s].quantity \in Nat \ {0} /\ b.positions[s] \in Nat /\ b.positions[s] > 0
    BY <1>1 DEF protection_hit, BrokerGood, IsBroker
  <2>2. Min({b.protections[s].quantity, b.positions[s]}) \in Nat \ {0}
    BY <2>1, TwoMin
  <2>3. q.bid \in Nat \ {0}
    BY SimAssumption
  <2> QED BY <2>2, <2>3 DEF exit_order, IsOrder
<1> QED BY <1>1, PlacedGood DEF protected

-----------------------------------------------------------------------------
(* Its steps.                                                              *)

\* What a flatten_all under way still has to do.
FlattenGood ==
    /\ {"todo", "copy", "quotes"} \subseteq DOMAIN flattening
    /\ flattening.todo \subseteq SimSymbols
    /\ \A s \in flattening.todo : flattening.copy[s] \in Nat \ {0}
    /\ \A s \in DOMAIN flattening.quotes : flattening.quotes[s] \in SimQuotes

SimInv == BrokerGood(sim) /\ FlattenGood

LEMMA SimStart == SimInit => SimInv
<1> SUFFICES ASSUME SimInit PROVE SimInv
  OBVIOUS
<1>1. BrokerGood(sim)
  <2>1. /\ sim.cash = SimCash /\ sim.positions = [s \in SimSymbols |-> 0] /\ sim.open = {}
        /\ DOMAIN sim.protections = {} /\ {"cash", "positions", "open", "protections"} \subseteq DOMAIN sim
    BY DEF SimInit
  <2> QED BY <2>1, SimAssumption, FS_EmptySet DEF BrokerGood, IsBroker, held_symbols
<1>2. FlattenGood
  <2>1. DOMAIN NoFlatten.quotes = {} /\ NoFlatten.todo = {} /\ {"todo", "copy", "quotes"} \subseteq DOMAIN NoFlatten
    BY DEF NoFlatten
  <2>2. flattening = NoFlatten
    BY DEF SimInit
  <2> QED BY <2>1, <2>2 DEF FlattenGood
<1> QED BY <1>1, <1>2 DEF SimInv

LEMMA SimStep == SalesPay /\ SimInv /\ [SimNext]_simVars => SimInv'
<1> SUFFICES ASSUME SalesPay, SimInv, [SimNext]_simVars PROVE SimInv'
  OBVIOUS
<1>0. BrokerGood(sim) /\ FlattenGood
  BY DEF SimInv
<1>1. ASSUME BrokerGood(sim'), UNCHANGED flattening PROVE SimInv'
  <2>1. FlattenGood'
    BY <1>0, <1>1 DEF FlattenGood
  <2> QED BY <1>1, <2>1 DEF SimInv, BrokerGood, IsBroker, held_symbols
<1>2. CASE UNCHANGED simVars
  BY <1>0, <1>1, <1>2 DEF simVars
<1>3. ASSUME NEW o \in SimOrders, NEW q \in SimQuotes, submit(o, q) PROVE SimInv'
  <2>1. IsOrder(o)
    BY SimAssumption DEF IsOrder
  <2> QED BY <1>0, <1>1, <1>3, <2>1, SubmittedGood DEF submit
<1>4. ASSUME NEW s \in SimSymbols, NEW q \in SimQuotes, process_quote(s, q) PROVE SimInv'
  <2> DEFINE S == {o \in sim.open : o.symbol = s}
  <2>1. PICK os \in SetToSeqs(S) : sim' = protected(filled_in_order(sim, os, q), s, q)
    BY <1>4 DEF process_quote
  <2>2. IsFiniteSet(S) /\ S \subseteq sim.open
    BY <1>0, FS_Subset DEF BrokerGood, IsBroker
  <2>3. Cardinality(S) \in Nat
    BY <2>2, FS_CardinalityType
  <2>4. os \in [1 .. Cardinality(S) -> S]
    BY <2>1 DEF SetToSeqs
  <2> HIDE DEF S
  <2>5. os \in Seq(sim.open)
    BY <2>2, <2>3, <2>4
  <2>6. BrokerGood(filled_in_order(sim, os, q))
    BY <1>0, <2>5, FilledGood
  <2>7. BrokerGood(sim')
    BY <2>1, <2>6, ProtectedGood
  <2> QED BY <1>1, <1>4, <2>7 DEF process_quote
<1>5. ASSUME NEW c, sim' = c, UNCHANGED flattening, {"cash", "positions", "open", "protections"} \subseteq DOMAIN c,
             c.open \subseteq sim.open, c.cash = sim.cash, c.positions = sim.positions,
             c.protections = sim.protections
      PROVE  SimInv'
  <2>1. IsFiniteSet(c.open) /\ \A o \in c.open : IsOrder(o)
    BY <1>0, <1>5, FS_Subset DEF BrokerGood, IsBroker
  <2>2. BrokerGood(c)
    BY <1>0, <1>5, <2>1, OtherGood
  <2> QED BY <1>1, <1>5, <2>2
<1>6. CASE cancel_all
  <2>1. PICK c : c = [sim EXCEPT !.open = {}]
    OBVIOUS
  <2>2. /\ {"cash", "positions", "open", "protections"} \subseteq DOMAIN c
        /\ c.open \subseteq sim.open /\ c.cash = sim.cash /\ c.positions = sim.positions
        /\ c.protections = sim.protections
    BY <1>0, <2>1 DEF BrokerGood, IsBroker
  <2> QED BY <1>5, <1>6, <2>1, <2>2 DEF cancel_all
<1>7. CASE set_connected
  <2>1. PICK c : c = [sim EXCEPT !.connected = ~@]
    OBVIOUS
  <2>2. /\ {"cash", "positions", "open", "protections"} \subseteq DOMAIN c
        /\ c.open \subseteq sim.open /\ c.cash = sim.cash /\ c.positions = sim.positions
        /\ c.protections = sim.protections
    BY <1>0, <2>1 DEF BrokerGood, IsBroker
  <2> QED BY <1>5, <1>7, <2>1, <2>2 DEF set_connected
<1>8. ASSUME NEW S \in SUBSET SimSymbols, NEW quotes \in [S -> SimQuotes], flatten_all(quotes)
      PROVE  SimInv'
  <2>1. /\ sim' = sim
        /\ flattening' = [todo |-> held_symbols(sim), copy |-> sim.positions, quotes |-> quotes]
    BY <1>8 DEF flatten_all
  <2>2. /\ flattening'.todo = held_symbols(sim) /\ flattening'.copy = sim.positions
        /\ flattening'.quotes = quotes /\ {"todo", "copy", "quotes"} \subseteq DOMAIN flattening'
    BY <2>1
  <2>3. FlattenGood'
    BY <1>0, <2>2 DEF FlattenGood, held_symbols, BrokerGood, IsBroker
  <2> QED BY <1>0, <2>1, <2>3 DEF SimInv, BrokerGood, IsBroker, held_symbols
<1>9. ASSUME NEW s \in SimSymbols, flatten_symbol(s) PROVE SimInv'
  <2>1. FlattenGood'
    <3>1. flattening' = NoFlatten \/ flattening' = [flattening EXCEPT !.todo = @ \ {s}]
      BY <1>9 DEF flatten_symbol, rest_of
    <3>2. CASE flattening' = NoFlatten
      <4>1. DOMAIN NoFlatten.quotes = {} /\ NoFlatten.todo = {} /\ {"todo", "copy", "quotes"} \subseteq DOMAIN NoFlatten
        BY DEF NoFlatten
      <4> QED BY <3>2, <4>1 DEF FlattenGood
    <3>3. CASE flattening' = [flattening EXCEPT !.todo = @ \ {s}]
      <4>1. /\ flattening'.todo \subseteq flattening.todo /\ flattening'.copy = flattening.copy
            /\ flattening'.quotes = flattening.quotes /\ DOMAIN flattening' = DOMAIN flattening
        BY <1>0, <3>3 DEF FlattenGood
      <4> QED BY <1>0, <4>1 DEF FlattenGood
    <3> QED BY <3>1, <3>2, <3>3
  <2>2. BrokerGood(sim')
    <3>1. CASE s \in DOMAIN flattening.quotes
      <4>1. IsOrder(flatten_order(s)) /\ flattening.quotes[s] \in SimQuotes
        BY <1>0, <1>9, <3>1, SimAssumption DEF flatten_order, flatten_symbol, FlattenGood, IsOrder
      <4> QED BY <1>0, <1>9, <3>1, <4>1, SubmittedGood DEF flatten_symbol
    <3>2. CASE s \notin DOMAIN flattening.quotes
      BY <1>0, <1>9, <3>2 DEF flatten_symbol
    <3> QED BY <3>1, <3>2
  <2> QED BY <2>1, <2>2 DEF SimInv, BrokerGood, IsBroker, held_symbols
<1> QED BY <1>2, <1>3, <1>4, <1>6, <1>7, <1>8, <1>9 DEF SimNext

\* Every symbol the paper broker holds has its stop and target, and none is kept for a
\* symbol it no longer holds, whatever orders, ticks and protective exits come in whatever
\* order, also while a flatten_all works from its copy of the positions (_try_fill, its
\* _fill and _create_protection, submit_protective_exit and flatten_all).
THEOREM HeldStaysProtected == SalesPay /\ SimSpec => []HeldIsProtected
<1> SUFFICES ASSUME SalesPay PROVE SimSpec => []HeldIsProtected
  OBVIOUS
<1>1. SimInit => SimInv
  BY SimStart
<1>2. SimInv /\ [SimNext]_simVars => SimInv'
  BY SimStep
<1>3. SimInv => HeldIsProtected
  BY DEF SimInv, BrokerGood, HeldIsProtected
<1> QED BY <1>1, <1>2, <1>3, PTL DEF SimSpec
=============================================================================
