---------------------------- MODULE ReplayProofs ----------------------------
(***************************************************************************)
(* The portfolio replay over any script, quotes and instruments: the       *)
(* ledger never promises cash it does not have, each open order has its    *)
(* reservation and each reservation its open order, a position protected   *)
(* by a stop and a target is not sold twice, the journal, the cash and     *)
(* the lots are one set of books, and exits keep the stops of what         *)
(* remains.                                                                *)
(***************************************************************************)
EXTENDS PortfolioReplay, SumProofs

-----------------------------------------------------------------------------
(* The replay: types.                                                      *)

OrderSide == {"BUY", "SELL"}

OrderKind == {"MARKET", "LIMIT", "STOP_MARKET", "STOP_LIMIT"}

OrderEnd == {"FILLED", "CANCELLED", "EXPIRED"}

OrderIntent ==
    [instrument : Instruments, side : OrderSide, kind : OrderKind, quantity : Nat \ {0},
     planned : Nat, limit : Nat, stop : Nat, protective_stop : Nat, protective_target : Nat,
     submitted : Int, earliest : Int, expires : Int, group : Nat, reduce_only : BOOLEAN]

TrackedOrder ==
    [instrument : Instruments, side : OrderSide, kind : OrderKind, quantity : Nat \ {0},
     planned : Nat, limit : Nat, stop : Nat, protective_stop : Nat, protective_target : Nat,
     submitted : Int, earliest : Int, expires : Int, group : Nat, reduce_only : BOOLEAN,
     state : Open \union OrderEnd, filled : Nat, last : Int]

Lot == [instrument : Instruments, quantity : Nat, unit_cost : Int, risk_per_share : Int]

Reservation ==
    [instrument : Instruments, side : OrderSide, cash : Nat, notional : Int, quantity : Int,
     risk : Int, risk_per_share : Int, group : Nat]

\* The reserved cash of a table of reservations.
Promised(r) == SumFunction([id \in DOMAIN r |-> r[id].cash])

IsTable(r) == IsFiniteSet(DOMAIN r) /\ \A id \in DOMAIN r : r[id] \in Reservation

LedgerGood(L) ==
    /\ {"cash", "lots", "reservations"} \subseteq DOMAIN L
    /\ L.cash \in Int /\ L.lots \in Seq(Lot) /\ IsTable(L.reservations)
    /\ Promised(L.reservations) <= L.cash

\* A bar as it is delivered.
IsBar(b) ==
    /\ b.instrument \in Instruments /\ b.open \in Nat /\ b.low \in Nat /\ b.high \in Nat
    /\ b.close \in Nat /\ b.volume \in Nat /\ b.event \in Int /\ b.available \in Int

LEMMA AcceptTyped ==
  ASSUME NEW i \in OrderIntent
  PROVE  /\ accept(i) \in TrackedOrder
         /\ accept(i).state = "ACCEPTED" /\ accept(i).filled = 0
         /\ accept(i).quantity = i.quantity /\ accept(i).group = i.group
         /\ accept(i).side = i.side /\ accept(i).instrument = i.instrument
<1>1. accept(i) \in TrackedOrder
  BY DEF accept, joined, OrderIntent, TrackedOrder, Open
<1> QED BY <1>1 DEF accept, joined, OrderIntent

LEMMA FinishTyped ==
  ASSUME NEW o \in TrackedOrder, NEW state \in OrderEnd, NEW at \in Int
  PROVE  /\ finish(o, state, at) \in TrackedOrder /\ finish(o, state, at).state = state
         /\ finish(o, state, at).filled = o.filled /\ finish(o, state, at).quantity = o.quantity
         /\ finish(o, state, at).group = o.group /\ finish(o, state, at).side = o.side
         /\ finish(o, state, at).instrument = o.instrument
  BY DEF finish, TrackedOrder

\* Order o after a fill of q.
FilledBy(o, p, q) ==
    /\ p \in TrackedOrder /\ p.filled = o.filled + q /\ p.quantity = o.quantity
    /\ p.group = o.group /\ p.side = o.side /\ p.instrument = o.instrument
    /\ p.state \in Open <=> remaining_quantity(p) # 0
    /\ remaining_quantity(p) = remaining_quantity(o) - q

LEMMA OrderFillTyped ==
  ASSUME NEW o \in TrackedOrder, NEW q \in Nat, NEW at \in Int
  PROVE  FilledBy(o, order_fill(o, q, at), q)
<1> DEFINE p == order_fill(o, q, at)
<1>1. /\ p.filled = o.filled + q /\ p.quantity = o.quantity /\ p.group = o.group
      /\ p.side = o.side /\ p.instrument = o.instrument
      /\ p.state = IF o.filled + q = o.quantity THEN "FILLED" ELSE "PARTIALLY_FILLED"
      /\ o.filled \in Nat /\ o.quantity \in Nat
  BY DEF order_fill, TrackedOrder
<1> DEFINE filled == o.filled + q
           state == IF filled = o.quantity THEN "FILLED" ELSE "PARTIALLY_FILLED"
<1>2. filled \in Nat /\ state \in Open \union OrderEnd
  BY <1>1 DEF Open, OrderEnd
<1>3. p = [o EXCEPT !.filled = filled, !.state = state, !.last = at]
  BY DEF order_fill
<1> HIDE DEF filled, state, p
<1>4. p \in TrackedOrder
  BY <1>2, <1>3 DEF TrackedOrder
<1>5. p.state \in Open <=> remaining_quantity(p) # 0
  BY <1>1 DEF remaining_quantity, Open
<1>6. remaining_quantity(p) = remaining_quantity(o) - q
  BY <1>1 DEF remaining_quantity
<1> QED BY <1>1, <1>4, <1>5, <1>6 DEF p, FilledBy

-----------------------------------------------------------------------------
(* The replay: cash promised to the reservations.                          *)

LEMMA PromisedTyped ==
  ASSUME NEW r, IsTable(r)
  PROVE  [id \in DOMAIN r |-> r[id].cash] \in [DOMAIN r -> Nat] /\ Promised(r) \in Nat
<1>1. \A id \in DOMAIN r : r[id].cash \in Nat
  BY DEF IsTable, Reservation
<1>2. [id \in DOMAIN r |-> r[id].cash] \in [DOMAIN r -> Nat]
  BY <1>1
<1> QED BY <1>2, SumNatural DEF Promised, IsTable

\* One reservation more.
LEMMA PromiseMore ==
  ASSUME NEW r, IsTable(r), NEW id, id \notin DOMAIN r, NEW v \in Reservation
  PROVE  /\ IsTable(put(r, id, v)) /\ DOMAIN put(r, id, v) = DOMAIN r \union {id}
         /\ Promised(put(r, id, v)) = Promised(r) + v.cash
<1> DEFINE D == DOMAIN r
           t == put(r, id, v)
           f == [d \in D \union {id} |-> t[d].cash]
           g == [d \in D |-> r[d].cash]
<1>1. DOMAIN t = D \union {id} /\ t[id] = v /\ \A d \in D : t[d] = r[d]
  BY DEF put
<1>2. IsTable(t)
  BY <1>1, FS_AddElement DEF IsTable
<1> HIDE DEF t
<1>3. f \in [D \union {id} -> Int] /\ f[id] = v.cash /\ v.cash \in Nat
  BY <1>1, <1>2 DEF IsTable, Reservation
<1>4. [d \in D |-> f[d]] = g
  BY <1>1
<1>5. SumFunction(f) = f[id] + SumFunction([d \in D |-> f[d]]) /\ SumFunction([d \in D |-> f[d]]) \in Int
  <2> HIDE DEF f
  <2> QED BY <1>3, SumOneMore DEF IsTable
<1>6. Promised(t) = SumFunction(f) /\ Promised(r) = SumFunction(g)
  BY <1>1 DEF Promised
<1> QED BY <1>1, <1>2, <1>3, <1>4, <1>5, <1>6 DEF t

\* Some reservations less.
LEMMA PromiseLess ==
  ASSUME NEW r, IsTable(r), NEW ids
  PROVE  LET t == Restrict(r, DOMAIN r \ ids)
         IN  /\ IsTable(t) /\ DOMAIN t = DOMAIN r \ ids /\ \A d \in DOMAIN t : t[d] = r[d]
             /\ Promised(t) <= Promised(r)
<1> DEFINE u == DOMAIN r \ ids
           t == Restrict(r, u)
           f == [d \in DOMAIN r |-> r[d].cash]
<1>1. DOMAIN t = u /\ \A d \in u : t[d] = r[d]
  BY DEF Restrict
<1>2. IsTable(t)
  BY <1>1, FS_Subset DEF IsTable
<1>3. [d \in DOMAIN t |-> t[d].cash] = [d \in u |-> f[d]]
  BY <1>1
<1> HIDE DEF t
<1>4. f \in [DOMAIN r -> Nat]
  BY PromisedTyped
<1>5. SumFunction([d \in u |-> f[d]]) <= SumFunction(f)
  <2> HIDE DEF f
  <2> QED BY <1>4, SumMonotone DEF IsTable
<1> QED BY <1>1, <1>2, <1>3, <1>5 DEF Promised, t

\* Another row for a reservation.
LEMMA PromiseChanged ==
  ASSUME NEW r, IsTable(r), NEW id \in DOMAIN r, NEW v \in Reservation
  PROVE  LET t == [r EXCEPT ![id] = v]
         IN  /\ IsTable(t) /\ DOMAIN t = DOMAIN r
             /\ t[id] = v /\ \A d \in DOMAIN r \ {id} : t[d] = r[d]
             /\ Promised(t) = Promised(r) - r[id].cash + v.cash
<1> DEFINE D == DOMAIN r \ {id}
           t == [r EXCEPT ![id] = v]
           f == [d \in D \union {id} |-> r[d].cash]
           g == [d \in D \union {id} |-> t[d].cash]
           rest == [d \in D |-> r[d].cash]
<1>1. DOMAIN t = DOMAIN r /\ t[id] = v /\ (\A d \in D : t[d] = r[d]) /\ D \union {id} = DOMAIN r
  OBVIOUS
<1>2. IsTable(t)
  BY <1>1 DEF IsTable
<1> HIDE DEF t
<1>3. f \in [D \union {id} -> Int] /\ g \in [D \union {id} -> Int] /\ f[id] = r[id].cash /\ g[id] = v.cash
  BY <1>1, <1>2 DEF IsTable, Reservation
<1>4. [d \in D |-> f[d]] = rest /\ [d \in D |-> g[d]] = rest
  BY <1>1
<1>5. IsFiniteSet(D) /\ id \notin D
  BY FS_Subset DEF IsTable
<1>6. /\ SumFunction(f) = f[id] + SumFunction(rest) /\ SumFunction(g) = g[id] + SumFunction(rest)
      /\ SumFunction(rest) \in Int /\ f[id] \in Int /\ g[id] \in Int
  <2> HIDE DEF f, g, rest, D
  <2> QED BY <1>3, <1>4, <1>5, SumOneMore
<1>7. Promised(r) = SumFunction(f) /\ Promised(t) = SumFunction(g)
  BY <1>1 DEF Promised
<1> QED BY <1>1, <1>2, <1>3, <1>6, <1>7 DEF t

-----------------------------------------------------------------------------
(* The replay: lots.                                                       *)

IsSelling(f, m, lots, x, q) ==
    f = [n \in 0 .. m |-> IF n = 0 THEN q ELSE f[n - 1] - consumed(lots[n], x, f[n - 1])]

LEMMA SellingExists ==
  ASSUME NEW lots, NEW last \in Nat, NEW x, NEW q
  PROVE  \E f : IsSelling(f, last, lots, x, q)
<1> DEFINE Start(f, m) == IsSelling(f, m, lots, x, q)
           Bad == {m \in Nat : ~ \E f : Start(f, m)}
           Go(a, n) == a - consumed(lots[n], x, a)
<1>1. ASSUME NEW m \in Nat, NEW f, Start(f, m) PROVE \E g : Start(g, m + 1)
  <2> DEFINE g == [n \in 0 .. m + 1 |-> IF n = m + 1 THEN Go(f[m], m + 1) ELSE f[n]]
  <2>1. ASSUME NEW n \in 0 .. m + 1
        PROVE  g[n] = IF n = 0 THEN q ELSE Go(g[n - 1], n)
    <3>1. CASE n = m + 1
      <4>1. n - 1 = m /\ m \in 0 .. m + 1 /\ m # m + 1 /\ n # 0
        BY <3>1
      <4>2. g[m] = f[m]
        BY <4>1
      <4> QED BY <3>1, <4>1, <4>2
    <3>2. CASE n # m + 1
      <4>1. n \in 0 .. m /\ g[n] = f[n]
        BY <3>2
      <4>2. f[n] = IF n = 0 THEN q ELSE Go(f[n - 1], n)
        BY <1>1, <4>1 DEF IsSelling
      <4>3. n # 0 => n - 1 \in 0 .. m + 1 /\ n - 1 # m + 1
        BY <4>1
      <4>4. n # 0 => g[n - 1] = f[n - 1]
        BY <4>3
      <4> QED BY <4>1, <4>2, <4>4
    <3> QED BY <3>1, <3>2
  <2>2. g = [n \in 0 .. m + 1 |-> g[n]]
    OBVIOUS
  <2> HIDE DEF g
  <2>3. g = [n \in 0 .. m + 1 |-> IF n = 0 THEN q ELSE Go(g[n - 1], n)]
    BY <2>1, <2>2
  <2> QED BY <2>3 DEF IsSelling
<1>2. 0 \notin Bad
  <2> DEFINE f == [n \in 0 .. 0 |-> q]
  <2>1. \A n \in 0 .. 0 : n = 0
    OBVIOUS
  <2>2. Start(f, 0)
    BY <2>1 DEF IsSelling
  <2> QED BY <2>2
<1>3. Bad = {}
  <2> SUFFICES ASSUME Bad # {} PROVE FALSE
    OBVIOUS
  <2>1. PICK n \in Bad : \A m \in Bad : n <= m
    BY LeastNumber
  <2>2. n \in Nat /\ n # 0 /\ n - 1 \in Nat /\ n - 1 \notin Bad
    <3> HIDE DEF Bad
    <3>1. n \in Nat /\ n # 0
      BY <1>2, <2>1 DEF Bad
    <3> QED BY <2>1, <3>1
  <2>3. PICK f : Start(f, n - 1)
    BY <2>2
  <2>4. \E g : Start(g, (n - 1) + 1)
    BY <1>1, <2>2, <2>3
  <2>5. (n - 1) + 1 = n
    BY <2>2
  <2> QED BY <2>1, <2>4, <2>5
<1> QED BY <1>3

\* What is left to sell before and after each lot, and what the lot gives.
Selling(f, lots, x, q) ==
    /\ f \in [0 .. Len(lots) -> Nat] /\ f[0] = q
    /\ \A n \in 1 .. Len(lots) :
         LET given == consumed(lots[n], x, f[n - 1])
         IN  given \in Nat /\ given <= lots[n].quantity /\ f[n] = f[n - 1] - given

Taken(f, lots, after, x) ==
    \A n \in 1 .. Len(lots) :
       /\ after[n].instrument = lots[n].instrument
       /\ after[n].quantity = lots[n].quantity - consumed(lots[n], x, f[n - 1])

LEMMA ConsumedTyped ==
  ASSUME NEW lot \in Lot, NEW x, NEW q \in Nat
  PROVE  /\ consumed(lot, x, q) \in Nat /\ consumed(lot, x, q) <= lot.quantity
         /\ consumed(lot, x, q) <= q
         /\ lot.instrument # x => consumed(lot, x, q) = 0
         /\ lot.instrument = x /\ consumed(lot, x, q) < q => consumed(lot, x, q) = lot.quantity
<1>1. lot.quantity \in Nat
  BY DEF Lot
<1> QED BY <1>1, TwoMin DEF consumed

LEMMA SellingTyped ==
  ASSUME NEW lots \in Seq(Lot), NEW x, NEW q \in Nat, NEW f, IsSelling(f, Len(lots), lots, x, q)
  PROVE  Selling(f, lots, x, q)
<1> DEFINE last == Len(lots)
<1>1. last \in Nat /\ DOMAIN lots = 1 .. last /\ \A n \in 1 .. last : lots[n] \in Lot
  OBVIOUS
<1>2. /\ f[0] = q /\ f = [n \in 0 .. last |-> f[n]]
      /\ \A n \in 1 .. last : f[n] = f[n - 1] - consumed(lots[n], x, f[n - 1])
  BY <1>1 DEF IsSelling
<1> DEFINE Bad == {n \in 0 .. last : f[n] \notin Nat}
<1>3. Bad = {}
  <2> SUFFICES ASSUME Bad # {} PROVE FALSE
    OBVIOUS
  <2>0. Bad \in SUBSET Nat
    BY <1>1
  <2>1. PICK n \in Bad : \A m \in Bad : n <= m
    BY <2>0, LeastNumber
  <2>2. n # 0 /\ n \in 1 .. last /\ n - 1 \in 0 .. last /\ n - 1 \notin Bad
    BY <1>1, <1>2, <2>1
  <2>3. f[n - 1] \in Nat
    BY <2>2
  <2>4. consumed(lots[n], x, f[n - 1]) \in Nat /\ consumed(lots[n], x, f[n - 1]) <= f[n - 1]
    BY <1>1, <2>2, <2>3, ConsumedTyped
  <2>5. f[n] = f[n - 1] - consumed(lots[n], x, f[n - 1])
    BY <1>2, <2>2
  <2>6. f[n] \in Nat
    BY <2>3, <2>4, <2>5
  <2> QED BY <2>1, <2>6
<1>4. f \in [0 .. last -> Nat]
  BY <1>2, <1>3
<1>5. \A n \in 1 .. last : n - 1 \in 0 .. last
  BY <1>1
<1>6. \A n \in 1 .. last :
        /\ consumed(lots[n], x, f[n - 1]) \in Nat
        /\ consumed(lots[n], x, f[n - 1]) <= lots[n].quantity
  BY <1>1, <1>4, <1>5, ConsumedTyped
<1> QED BY <1>2, <1>4, <1>6 DEF Selling

LEMMA ConsumeGood ==
  ASSUME NEW lots \in Seq(Lot), NEW x, NEW q \in Nat
  PROVE  /\ consume_fifo(lots, x, q).lots \in Seq(Lot)
         /\ Len(consume_fifo(lots, x, q).lots) = Len(lots)
         /\ \E f : Selling(f, lots, x, q) /\ Taken(f, lots, consume_fifo(lots, x, q).lots, x)
<1> DEFINE last == Len(lots)
           f == CHOOSE it : IsSelling(it, last, lots, x, q)
           after == [n \in DOMAIN lots |-> [lots[n] EXCEPT !.quantity = @ - consumed(lots[n], x, f[n - 1])]]
<1>1. last \in Nat /\ DOMAIN lots = 1 .. last /\ \A n \in 1 .. last : lots[n] \in Lot
  OBVIOUS
<1>2. consume_fifo(lots, x, q).lots = after
  BY DEF consume_fifo, IsSelling
<1>3. IsSelling(f, last, lots, x, q)
  BY <1>1, SellingExists
<1> HIDE DEF f
<1>9. Selling(f, lots, x, q)
  BY <1>3, SellingTyped
<1>8. \A n \in 1 .. last :
        /\ consumed(lots[n], x, f[n - 1]) \in Nat
        /\ consumed(lots[n], x, f[n - 1]) <= lots[n].quantity
  BY <1>9 DEF Selling
<1>10. ASSUME NEW n \in 1 .. last
       PROVE  /\ after[n] \in Lot /\ after[n].instrument = lots[n].instrument
              /\ after[n].quantity = lots[n].quantity - consumed(lots[n], x, f[n - 1])
  <2>1. lots[n] \in Lot /\ lots[n].quantity - consumed(lots[n], x, f[n - 1]) \in Nat
    BY <1>1, <1>8 DEF Lot
  <2> DEFINE less == lots[n].quantity - consumed(lots[n], x, f[n - 1])
  <2>2. after[n] = [lots[n] EXCEPT !.quantity = less]
    BY <1>1
  <2> HIDE DEF less, after
  <2>3. after[n] \in Lot /\ after[n].instrument = lots[n].instrument /\ after[n].quantity = less
    BY <2>1, <2>2 DEF Lot, less
  <2> QED BY <2>3 DEF less
<1>11. DOMAIN after = 1 .. last
  BY <1>1
<1>12. after \in Seq(Lot) /\ Len(after) = last
  <2>1. after = [n \in 1 .. last |-> after[n]]
    BY <1>11
  <2> HIDE DEF after
  <2> QED BY <1>1, <1>10, <2>1
<1> HIDE DEF after
<1>13. Taken(f, lots, after, x)
  BY <1>10 DEF Taken
<1> QED BY <1>2, <1>9, <1>12, <1>13

PositionTerm(lots, x) == [n \in DOMAIN lots |-> IF lots[n].instrument = x THEN lots[n].quantity ELSE 0]

Position(lots, x) == SumFunction(PositionTerm(lots, x))

LEMMA PositionTyped ==
  ASSUME NEW lots \in Seq(Lot), NEW x
  PROVE  /\ PositionTerm(lots, x) \in [1 .. Len(lots) -> Nat]
         /\ IsFiniteSet(1 .. Len(lots)) /\ Position(lots, x) \in Nat
<1>0. Len(lots) \in Nat /\ DOMAIN lots = 1 .. Len(lots) /\ \A n \in 1 .. Len(lots) : lots[n] \in Lot
  OBVIOUS
<1>1. Len(lots) \in Nat /\ DOMAIN lots = 1 .. Len(lots) /\ \A n \in 1 .. Len(lots) : lots[n].quantity \in Nat
  BY <1>0 DEF Lot
<1>2. IsFiniteSet(1 .. Len(lots))
  BY <1>1, FS_Interval
<1>3. PositionTerm(lots, x) \in [1 .. Len(lots) -> Nat]
  BY <1>1 DEF PositionTerm
<1> QED BY <1>2, <1>3, SumNatural DEF Position

LEMMA PositionIs ==
  ASSUME NEW L, NEW x PROVE position_quantity(L, x) = Position(L.lots, x)
  BY DEF position_quantity, sum_lots, Position, PositionTerm

-----------------------------------------------------------------------------
(* The replay: fills.                                                      *)

IsFill(f) ==
    /\ f.quantity \in Nat \ {0} /\ f.price \in Nat /\ f.commission \in Nat
    /\ f.side \in OrderSide /\ f.instrument \in Instruments

\* A fill of what remains of order o, which has number n.
FillFor(f, n, o) ==
    /\ IsFill(f) /\ f.order = n /\ f.side = o.side /\ f.instrument = o.instrument
    /\ f.quantity <= remaining_quantity(o)

LEMMA FillTyped ==
  ASSUME NEW o \in TrackedOrder, NEW b, IsBar(b), NEW same, match(o, b, same), NEW n
  PROVE  FillFor(fill_of(n, o, b), n, o)
<1> DEFINE f == fill_of(n, o, b)
<1>1. /\ o.kind \in OrderKind /\ o.side \in OrderSide /\ o.limit \in Nat /\ o.stop \in Nat
      /\ o.instrument \in Instruments /\ o.quantity \in Nat /\ o.filled \in Nat
  BY DEF TrackedOrder
<1>2. /\ b.open \in Nat /\ b.volume \in Nat /\ SpreadTenths \in 0 .. 10 /\ PerShare \in Nat
      /\ MinimumCommission \in Nat
  BY ReplayAssumption, LedgerAssumption DEF IsBar
<1>3. \A p, q \in Nat : better(o, p, q) \in Nat /\ worse(o, p, q) \in Nat
  BY TwoMax, TwoMin DEF better, worse
<1>4. reference_price(o, b) \in Nat
  BY <1>1, <1>2, <1>3 DEF reference_price, OrderKind
<1>5. \A p \in Nat : cost_adjusted(p, o.side) \in Nat
  <2> SUFFICES ASSUME NEW p \in Nat PROVE cost_adjusted(p, o.side) \in Nat
    OBVIOUS
  <2> DEFINE k == IF o.side = "BUY" THEN 10 + SpreadTenths ELSE 10 - SpreadTenths
             z == p * k
             y == z \div 10
  <2>1. k \in Nat
    BY <1>2
  <2>2. z \in Nat
    BY <2>1
  <2>3. y \in Nat
    <3> HIDE DEF z
    <3> QED BY <2>2
  <2>4. cost_adjusted(p, o.side) = Max({1, y})
    BY DEF cost_adjusted
  <2> HIDE DEF y
  <2> QED BY <2>3, <2>4, TwoMax
<1>6. fill_price(o, b) \in Nat
  BY <1>1, <1>3, <1>4, <1>5 DEF fill_price
<1>7. /\ fill_quantity(o, b) \in Nat \ {0} /\ fill_quantity(o, b) <= remaining_quantity(o)
  <2>1. remaining_quantity(o) \in Int /\ fill_quantity(o, b) > 0
    BY <1>1 DEF remaining_quantity, match
  <2> QED BY <1>2, <2>1, TwoMin DEF fill_quantity
<1>8. Max({MinimumCommission, fill_quantity(o, b) * PerShare}) \in Nat
  BY <1>2, <1>7, TwoMax
<1>9. /\ f.order = n /\ f.instrument = o.instrument /\ f.side = o.side
      /\ f.quantity = fill_quantity(o, b) /\ f.price = fill_price(o, b)
      /\ f.commission = Max({MinimumCommission, fill_quantity(o, b) * PerShare})
  BY DEF fill_of
<1> HIDE DEF f
<1>10. IsFill(f)
  BY <1>1, <1>6, <1>7, <1>8, <1>9 DEF IsFill
<1> QED BY <1>7, <1>9, <1>10 DEF f, FillFor

LEMMA ReservedIs ==
  ASSUME NEW L PROVE reserved_cash(L) = Promised(L.reservations)
  BY DEF reserved_cash, sum_reservations, Promised

\* What a step leaves of the other reservations, and of this one.
SameRow(v, w) == w.side = v.side /\ w.instrument = v.instrument /\ w.group = v.group

LEMMA SpendTyped ==
  ASSUME NEW v \in Reservation, NEW fill, IsFill(fill), NEW cost \in Nat
  PROVE  LET w == spend(v, fill, cost)
         IN  /\ w \in Reservation /\ SameRow(v, w) /\ w.quantity = v.quantity
             /\ w.cash = IF v.cash >= cost THEN v.cash - cost ELSE 0
<1> DEFINE cash == Max({0, v.cash - cost})
           risk == Max({0, v.risk - v.risk_per_share * fill.quantity})
           notional == Max({0, v.notional - fill.price * fill.quantity})
           w == [v EXCEPT !.cash = cash, !.risk = risk, !.notional = notional]
<1>1. /\ v.cash \in Nat /\ v.risk \in Int /\ v.risk_per_share \in Int /\ v.notional \in Int
      /\ fill.quantity \in Nat /\ fill.price \in Nat
  BY DEF Reservation, IsFill
<1>2. cash \in Nat /\ cash = IF v.cash >= cost THEN v.cash - cost ELSE 0
  BY <1>1, TwoMax
<1>3. risk \in Int
  <2>1. v.risk_per_share * fill.quantity \in Int
    BY <1>1
  <2>2. v.risk - v.risk_per_share * fill.quantity \in Int
    BY <1>1, <2>1
  <2> QED BY <2>2, TwoMax
<1>4. notional \in Int
  <2>1. fill.price * fill.quantity \in Int
    BY <1>1
  <2>2. v.notional - fill.price * fill.quantity \in Int
    BY <1>1, <2>1
  <2> QED BY <2>2, TwoMax
<1>5. spend(v, fill, cost) = w
  BY DEF spend
<1> HIDE DEF cash, risk, notional
<1>6. /\ w \in Reservation /\ w.cash = cash /\ w.quantity = v.quantity
      /\ w.side = v.side /\ w.instrument = v.instrument /\ w.group = v.group
  BY <1>2, <1>3, <1>4 DEF Reservation
<1> QED BY <1>2, <1>5, <1>6 DEF SameRow

\* The reservations after a fill of order n: its row is w.
Refilled(r, t, n, w) ==
    /\ DOMAIN t = DOMAIN r /\ t[n] = w /\ SameRow(r[n], w)
    /\ \A d \in DOMAIN r \ {n} : t[d] = r[d]

LEMMA BuyGood ==
  ASSUME NEW L, LedgerGood(L), NEW fill, IsFill(fill), fill.order \in DOMAIN L.reservations,
         fill.price * fill.quantity + fill.commission <= cash_for_fill(L, L.reservations[fill.order])
  PROVE  LET M == buy_fill(L, fill)
         IN  /\ LedgerGood(M)
             /\ \E w : /\ Refilled(L.reservations, M.reservations, fill.order, w)
                       /\ w.quantity = L.reservations[fill.order].quantity
             /\ \E lot \in Lot : /\ M.lots = Append(L.lots, lot)
                               /\ lot.instrument = fill.instrument /\ lot.quantity = fill.quantity
<1> DEFINE n == fill.order
           r == L.reservations
           v == r[n]
           cost == fill.price * fill.quantity + fill.commission
           w == spend(v, fill, cost)
           lot == [instrument |-> fill.instrument, quantity |-> fill.quantity,
                   unit_cost |-> cost \div fill.quantity, risk_per_share |-> v.risk_per_share]
           M == buy_fill(L, fill)
<1>1. /\ L.cash \in Int /\ L.lots \in Seq(Lot) /\ IsTable(r) /\ Promised(r) <= L.cash
      /\ {"cash", "lots", "reservations"} \subseteq DOMAIN L /\ v \in Reservation
  BY DEF LedgerGood, IsTable
<1>2. cost \in Nat
  <2>1. fill.price \in Nat /\ fill.quantity \in Nat /\ fill.commission \in Nat
    BY DEF IsFill
  <2>2. fill.price * fill.quantity \in Nat
    BY <2>1
  <2> QED BY <2>1, <2>2
<1>3. /\ M.cash = L.cash - cost /\ M.lots = Append(L.lots, lot)
      /\ M.reservations = [r EXCEPT ![n] = w] /\ DOMAIN M = DOMAIN L
  BY <1>1 DEF buy_fill
<1>4. Promised(r) \in Nat /\ cost <= v.cash + (L.cash - Promised(r)) /\ v.cash \in Nat
  BY <1>1, PromisedTyped, ReservedIs DEF cash_for_fill, available_cash, Reservation
<1> HIDE DEF cost
<1>5. /\ w \in Reservation /\ SameRow(v, w) /\ w.quantity = v.quantity
      /\ w.cash = IF v.cash >= cost THEN v.cash - cost ELSE 0
  BY <1>1, <1>2, SpendTyped
<1>6. lot \in Lot /\ lot.instrument = fill.instrument /\ lot.quantity = fill.quantity
  <2>1. fill.quantity \in Nat \ {0} /\ fill.instrument \in Instruments /\ v.risk_per_share \in Int
    BY <1>1 DEF IsFill, Reservation
  <2>2. cost \div fill.quantity \in Int
    BY <1>2, <2>1
  <2> QED BY <2>1, <2>2 DEF Lot
<1> HIDE DEF w, lot, M
<1> DEFINE t == [r EXCEPT ![n] = w]
<1>7. /\ IsTable(t) /\ DOMAIN t = DOMAIN r /\ t[n] = w /\ \A d \in DOMAIN r \ {n} : t[d] = r[d]
      /\ Promised(t) = Promised(r) - v.cash + w.cash
  <2>1. n \in DOMAIN r
    OBVIOUS
  <2> HIDE DEF n, r, v
  <2> QED BY <1>1, <1>5, <2>1, PromiseChanged DEF v
<1> HIDE DEF t
<1>8. Promised(t) <= M.cash
  BY <1>1, <1>2, <1>3, <1>4, <1>5, <1>7
<1>9. M.lots \in Seq(Lot)
  BY <1>1, <1>3, <1>6
<1>10. LedgerGood(M)
  BY <1>1, <1>2, <1>3, <1>7, <1>8, <1>9 DEF LedgerGood, t
<1>11. Refilled(r, M.reservations, n, w)
  BY <1>3, <1>5, <1>7 DEF Refilled, t
<1> QED BY <1>3, <1>5, <1>6, <1>10, <1>11 DEF M

LEMMA SellGood ==
  ASSUME NEW L, LedgerGood(L), NEW fill, IsFill(fill), fill.order \in DOMAIN L.reservations,
         fill.price * fill.quantity >= fill.commission
  PROVE  LET M == sell_fill(L, fill)
         IN  /\ LedgerGood(M)
             /\ \E w : /\ Refilled(L.reservations, M.reservations, fill.order, w)
                       /\ w.quantity = L.reservations[fill.order].quantity - fill.quantity
             /\ M.lots = consume_fifo(L.lots, fill.instrument, fill.quantity).lots
<1> DEFINE n == fill.order
           r == L.reservations
           v == r[n]
           gain == fill.price * fill.quantity
           notional == Max({0, v.notional - gain})
           less == v.quantity - fill.quantity
           w == [v EXCEPT !.quantity = less, !.notional = notional]
           M == sell_fill(L, fill)
           lots == consume_fifo(L.lots, fill.instrument, fill.quantity).lots
<1>1. /\ L.cash \in Int /\ L.lots \in Seq(Lot) /\ IsTable(r) /\ Promised(r) <= L.cash
      /\ {"cash", "lots", "reservations"} \subseteq DOMAIN L /\ v \in Reservation
  BY DEF LedgerGood, IsTable
<1>2. fill.price \in Nat /\ fill.quantity \in Nat /\ fill.commission \in Nat
  BY DEF IsFill
<1>3. gain \in Nat /\ gain >= fill.commission
  BY <1>2
<1>4. /\ M.cash = L.cash + (gain - fill.commission) /\ M.lots = lots /\ DOMAIN M = DOMAIN L
  BY <1>1 DEF sell_fill
<1>5. M.reservations = [r EXCEPT ![n] = w]
  BY <1>1 DEF sell_fill
<1>6. v.quantity \in Int /\ v.notional \in Int /\ v.cash \in Nat
  BY <1>1 DEF Reservation
<1> HIDE DEF gain
<1>7. less \in Int /\ notional \in Int
  <2>1. v.notional - gain \in Int
    BY <1>3, <1>6
  <2> QED BY <1>2, <1>6, <2>1, TwoMax
<1> HIDE DEF less, notional
<1>8. /\ w \in Reservation /\ w.quantity = less /\ w.cash = v.cash
      /\ w.side = v.side /\ w.instrument = v.instrument /\ w.group = v.group
  BY <1>1, <1>7 DEF Reservation
<1> HIDE DEF w, M, lots
<1> DEFINE t == [r EXCEPT ![n] = w]
<1>9. /\ IsTable(t) /\ DOMAIN t = DOMAIN r /\ t[n] = w /\ \A d \in DOMAIN r \ {n} : t[d] = r[d]
      /\ Promised(t) = Promised(r) - v.cash + w.cash
  <2>1. n \in DOMAIN r
    OBVIOUS
  <2> HIDE DEF n, r, v
  <2> QED BY <1>1, <1>8, <2>1, PromiseChanged DEF v
<1> HIDE DEF t
<1>10. Promised(r) \in Nat
  BY <1>1, PromisedTyped
<1>11. Promised(t) <= M.cash /\ M.cash \in Int
  <2>1. Promised(t) = Promised(r)
    BY <1>6, <1>8, <1>9, <1>10
  <2>2. M.cash \in Int /\ M.cash >= L.cash
    <3> HIDE DEF n, r, v
    <3> QED BY <1>1, <1>2, <1>3, <1>4
  <2> HIDE DEF n, r, v
  <2> QED BY <1>1, <1>10, <2>1, <2>2
<1>12. lots \in Seq(Lot)
  BY <1>1, <1>2, ConsumeGood DEF lots
<1>13. LedgerGood(M)
  BY <1>1, <1>4, <1>5, <1>9, <1>11, <1>12 DEF LedgerGood, t
<1>14. Refilled(r, M.reservations, n, w)
  BY <1>5, <1>8, <1>9 DEF Refilled, SameRow, t
<1> QED BY <1>4, <1>8, <1>13, <1>14 DEF M, lots, less

\* An order is reserved: a sale takes no cash, a purchase what is available.
LEMMA ReserveGood ==
  ASSUME NEW L, LedgerGood(L), NEW id \in Nat, id \notin DOMAIN L.reservations, NEW i \in OrderIntent,
         i.side = "SELL" \/ reserve_refusals(L, i) = {}
  PROVE  LET M == reserve(L, id, i)
         IN  /\ LedgerGood(M) /\ M.lots = L.lots
             /\ DOMAIN M.reservations = DOMAIN L.reservations \union {id}
             /\ \A d \in DOMAIN L.reservations : M.reservations[d] = L.reservations[d]
             /\ M.reservations[id].side = i.side /\ M.reservations[id].instrument = i.instrument
             /\ M.reservations[id].group = IF i.group = 0 THEN id ELSE i.group
             /\ i.side = "SELL" => M.reservations[id].quantity = i.quantity
<1> DEFINE r == L.reservations
           M == reserve(L, id, i)
           notional == i.planned * i.quantity
           risk == risk_per_share(i) * i.quantity
           buy == i.side = "BUY"
           v == [instrument |-> i.instrument, side |-> i.side,
                 cash       |-> IF buy THEN notional + MinimumCommission ELSE 0,
                 notional   |-> IF buy THEN notional ELSE 0,
                 quantity   |-> IF buy THEN 0 ELSE i.quantity,
                 risk       |-> risk, risk_per_share |-> risk_per_share(i),
                 group      |-> IF i.group = 0 THEN id ELSE i.group]
<1>1. /\ L.cash \in Int /\ L.lots \in Seq(Lot) /\ IsTable(r) /\ Promised(r) <= L.cash
      /\ {"cash", "lots", "reservations"} \subseteq DOMAIN L
  BY DEF LedgerGood, IsTable
<1>2. /\ i.planned \in Nat /\ i.quantity \in Nat /\ i.protective_stop \in Nat /\ i.group \in Nat
      /\ i.side \in OrderSide /\ i.instrument \in Instruments /\ MinimumCommission \in Nat
  BY LedgerAssumption DEF OrderIntent
<1>3. notional \in Nat /\ risk_per_share(i) \in Int /\ risk \in Int
  <2>1. risk_per_share(i) \in Int /\ notional \in Nat
    BY <1>2 DEF risk_per_share
  <2> HIDE DEF notional
  <2> QED BY <1>2, <2>1
<1>4. M = [L EXCEPT !.reservations = put(@, id, v)]
  BY DEF reserve
<1>5. buy => notional + MinimumCommission <= L.cash - Promised(r)
  <2> SUFFICES ASSUME buy PROVE notional + MinimumCommission <= L.cash - Promised(r)
    OBVIOUS
  <2>1. when(notional + MinimumCommission > available_cash(L), "insufficient cash") = {}
    BY DEF reserve_refusals, buy_refusals, OrderSide
  <2>2. ~(notional + MinimumCommission > L.cash - Promised(r))
    BY <2>1, ReservedIs DEF when, available_cash
  <2>3. Promised(r) \in Nat
    BY <1>1, PromisedTyped
  <2> HIDE DEF notional, r
  <2> QED BY <1>1, <1>2, <1>3, <2>2, <2>3
<1> HIDE DEF notional, risk, M
<1>6. v \in Reservation /\ v.cash = IF buy THEN notional + MinimumCommission ELSE 0
  BY <1>2, <1>3 DEF Reservation
<1>7. /\ v.side = i.side /\ v.instrument = i.instrument
      /\ v.group = IF i.group = 0 THEN id ELSE i.group
      /\ i.side = "SELL" => v.quantity = i.quantity
  OBVIOUS
<1> HIDE DEF v
<1> DEFINE t == put(r, id, v)
<1>8. IsTable(t) /\ DOMAIN t = DOMAIN r \union {id} /\ Promised(t) = Promised(r) + v.cash
  <2>1. id \notin DOMAIN r
    OBVIOUS
  <2> HIDE DEF r
  <2> QED BY <1>1, <1>6, <2>1, PromiseMore
<1>9. t[id] = v /\ \A d \in DOMAIN r : t[d] = r[d]
  BY DEF put
<1>10. M.cash = L.cash /\ M.lots = L.lots /\ M.reservations = t /\ DOMAIN M = DOMAIN L
  BY <1>1, <1>4
<1>11. Promised(r) \in Nat
  BY <1>1, PromisedTyped
<1> HIDE DEF t
<1>12. Promised(t) <= L.cash
  BY <1>1, <1>2, <1>3, <1>5, <1>6, <1>8, <1>11
<1>13. LedgerGood(M)
  BY <1>1, <1>8, <1>10, <1>12 DEF LedgerGood
<1> QED BY <1>7, <1>8, <1>9, <1>10, <1>13 DEF M

LEMMA ReleaseGood ==
  ASSUME NEW L, LedgerGood(L), NEW ids
  PROVE  LET M == release(L, ids)
         IN  /\ LedgerGood(M) /\ M.lots = L.lots
             /\ DOMAIN M.reservations = DOMAIN L.reservations \ ids
             /\ \A d \in DOMAIN M.reservations : M.reservations[d] = L.reservations[d]
<1> DEFINE r == L.reservations
           t == Restrict(r, DOMAIN r \ ids)
           M == release(L, ids)
<1>1. /\ L.cash \in Int /\ L.lots \in Seq(Lot) /\ IsTable(r) /\ Promised(r) <= L.cash
      /\ {"cash", "lots", "reservations"} \subseteq DOMAIN L
  BY DEF LedgerGood
<1>2. M.cash = L.cash /\ M.lots = L.lots /\ M.reservations = t /\ DOMAIN M = DOMAIN L
  BY <1>1 DEF release
<1>3. /\ IsTable(t) /\ DOMAIN t = DOMAIN r \ ids /\ \A d \in DOMAIN t : t[d] = r[d]
      /\ Promised(t) <= Promised(r)
  <2> HIDE DEF r
  <2> QED BY <1>1, PromiseLess
<1> HIDE DEF t, M
<1>4. Promised(t) \in Nat /\ Promised(r) \in Nat
  BY <1>1, <1>3, PromisedTyped
<1>5. Promised(t) <= M.cash
  BY <1>1, <1>2, <1>3, <1>4
<1>6. LedgerGood(M)
  BY <1>1, <1>2, <1>3, <1>5 DEF LedgerGood
<1> QED BY <1>2, <1>3, <1>6 DEF M

-----------------------------------------------------------------------------
(* The replay: corporate actions.                                          *)

LEMMA SplitGood ==
  ASSUME NEW L, LedgerGood(L), NEW x, NEW ratio \in Nat \ {0}
  PROVE  /\ LedgerGood(apply_split(L, x, ratio))
         /\ apply_split(L, x, ratio).reservations = L.reservations
         /\ Len(apply_split(L, x, ratio).lots) = Len(L.lots)
         /\ \A n \in 1 .. Len(L.lots) :
              /\ apply_split(L, x, ratio).lots[n].instrument = L.lots[n].instrument
              /\ L.lots[n].instrument # x
                   => apply_split(L, x, ratio).lots[n].quantity = L.lots[n].quantity
<1> DEFINE M == apply_split(L, x, ratio)
           restate(lot) == IF lot.instrument # x THEN lot
                           ELSE [lot EXCEPT !.quantity = @ * ratio, !.unit_cost = @ \div ratio,
                                            !.risk_per_share = @ \div ratio]
           lots == [n \in DOMAIN L.lots |-> restate(L.lots[n])]
<1>1. /\ L.cash \in Int /\ L.lots \in Seq(Lot) /\ {"cash", "lots", "reservations"} \subseteq DOMAIN L
  BY DEF LedgerGood
<1>2. M.cash = L.cash /\ M.reservations = L.reservations /\ M.lots = lots /\ DOMAIN M = DOMAIN L
  BY <1>1 DEF apply_split
<1>3. ASSUME NEW lot \in Lot
      PROVE  /\ restate(lot) \in Lot /\ restate(lot).instrument = lot.instrument
             /\ lot.instrument # x => restate(lot).quantity = lot.quantity
  <2>1. lot.quantity \in Nat /\ lot.unit_cost \in Int /\ lot.risk_per_share \in Int
    BY DEF Lot
  <2>2. lot.quantity * ratio \in Nat /\ lot.unit_cost \div ratio \in Int /\ lot.risk_per_share \div ratio \in Int
    BY <2>1
  <2> DEFINE a == lot.quantity * ratio
             b == lot.unit_cost \div ratio
             c == lot.risk_per_share \div ratio
  <2>3. restate(lot) = IF lot.instrument # x THEN lot
                       ELSE [lot EXCEPT !.quantity = a, !.unit_cost = b, !.risk_per_share = c]
    OBVIOUS
  <2>4. a \in Nat /\ b \in Int /\ c \in Int
    BY <2>2
  <2> HIDE DEF a, b, c, restate
  <2> QED BY <2>3, <2>4 DEF Lot
<1> HIDE DEF restate
<1>4. Len(L.lots) \in Nat /\ DOMAIN L.lots = 1 .. Len(L.lots) /\ \A n \in 1 .. Len(L.lots) : L.lots[n] \in Lot
  BY <1>1
<1>5. lots \in Seq(Lot) /\ Len(lots) = Len(L.lots)
  <2>1. lots = [n \in 1 .. Len(L.lots) |-> restate(L.lots[n])]
    BY <1>4
  <2>2. \A n \in 1 .. Len(L.lots) : restate(L.lots[n]) \in Lot
    BY <1>3, <1>4
  <2> HIDE DEF lots
  <2> QED BY <1>4, <2>1, <2>2
<1>6. \A n \in 1 .. Len(L.lots) : lots[n] = restate(L.lots[n])
  BY <1>4
<1> HIDE DEF lots, M
<1>7. LedgerGood(M)
  BY <1>1, <1>2, <1>5 DEF LedgerGood
<1> QED BY <1>2, <1>3, <1>4, <1>5, <1>6, <1>7 DEF M

LEMMA DividendGood ==
  ASSUME NEW L, LedgerGood(L), NEW x, NEW amount \in Nat
  PROVE  /\ LedgerGood(apply_dividend(L, x, amount))
         /\ apply_dividend(L, x, amount).reservations = L.reservations
         /\ apply_dividend(L, x, amount).lots = L.lots
<1> DEFINE M == apply_dividend(L, x, amount)
           paid == position_quantity(L, x) * amount
<1>1. /\ L.cash \in Int /\ L.lots \in Seq(Lot) /\ {"cash", "lots", "reservations"} \subseteq DOMAIN L
      /\ IsTable(L.reservations) /\ Promised(L.reservations) <= L.cash
  BY DEF LedgerGood
<1>2. /\ M.cash = L.cash + paid /\ M.reservations = L.reservations /\ M.lots = L.lots
      /\ DOMAIN M = DOMAIN L
  BY <1>1 DEF apply_dividend
<1>3. paid \in Nat
  <2>1. position_quantity(L, x) \in Nat
    BY <1>1, PositionTyped, PositionIs
  <2> QED BY <2>1
<1>4. Promised(L.reservations) \in Nat
  BY <1>1, PromisedTyped
<1> HIDE DEF paid, M
<1>5. LedgerGood(M)
  BY <1>1, <1>2, <1>3, <1>4 DEF LedgerGood
<1> QED BY <1>2, <1>5 DEF M

LEMMA DelistGood ==
  ASSUME NEW L, LedgerGood(L), NEW x, NEW amount \in Nat
  PROVE  /\ LedgerGood(apply_delisting(L, x, amount))
         /\ apply_delisting(L, x, amount).reservations = L.reservations
         /\ Len(apply_delisting(L, x, amount).lots) = Len(L.lots)
         /\ \A n \in 1 .. Len(L.lots) :
              /\ apply_delisting(L, x, amount).lots[n].instrument = L.lots[n].instrument
              /\ L.lots[n].instrument # x
                   => apply_delisting(L, x, amount).lots[n].quantity = L.lots[n].quantity
<1> DEFINE M == apply_delisting(L, x, amount)
           paid == position_quantity(L, x) * amount
           none(lot) == IF lot.instrument = x THEN [lot EXCEPT !.quantity = 0] ELSE lot
           lots == [n \in DOMAIN L.lots |-> none(L.lots[n])]
<1>1. /\ L.cash \in Int /\ L.lots \in Seq(Lot) /\ {"cash", "lots", "reservations"} \subseteq DOMAIN L
      /\ IsTable(L.reservations) /\ Promised(L.reservations) <= L.cash
  BY DEF LedgerGood
<1>2. /\ M.cash = L.cash + paid /\ M.reservations = L.reservations /\ M.lots = lots
      /\ DOMAIN M = DOMAIN L
  BY <1>1 DEF apply_delisting
<1>3. paid \in Nat
  <2>1. position_quantity(L, x) \in Nat
    BY <1>1, PositionTyped, PositionIs
  <2> QED BY <2>1
<1>4. Promised(L.reservations) \in Nat
  BY <1>1, PromisedTyped
<1>5. \A lot \in Lot : /\ none(lot) \in Lot /\ none(lot).instrument = lot.instrument
                       /\ lot.instrument # x => none(lot).quantity = lot.quantity
  BY DEF Lot
<1> HIDE DEF none
<1>6. Len(L.lots) \in Nat /\ DOMAIN L.lots = 1 .. Len(L.lots) /\ \A n \in 1 .. Len(L.lots) : L.lots[n] \in Lot
  BY <1>1
<1>7. lots \in Seq(Lot) /\ Len(lots) = Len(L.lots)
  <2>1. lots = [n \in 1 .. Len(L.lots) |-> none(L.lots[n])]
    BY <1>6
  <2>2. \A n \in 1 .. Len(L.lots) : none(L.lots[n]) \in Lot
    BY <1>5, <1>6
  <2> HIDE DEF lots
  <2> QED BY <1>6, <2>1, <2>2
<1>8. \A n \in 1 .. Len(L.lots) : lots[n] = none(L.lots[n])
  BY <1>6
<1> HIDE DEF paid, M, lots
<1>9. LedgerGood(M)
  BY <1>1, <1>2, <1>3, <1>4, <1>7 DEF LedgerGood
<1> QED BY <1>2, <1>5, <1>6, <1>7, <1>8, <1>9 DEF M

-----------------------------------------------------------------------------
(* The replay: shares promised to orders to sell.                          *)

InGroup(r, x, g) ==
    {id \in DOMAIN r : r[id].instrument = x /\ r[id].side = "SELL" /\ r[id].group = g}

Quantities(r, x, g) == {0} \union {r[id].quantity : id \in InGroup(r, x, g)}

\* What a group has reserved, and what all groups up to N have.
Best(r, x, g) == Max(Quantities(r, x, g))

Claims(r, x, N) == [g \in 1 .. N |-> Best(r, x, g)]

Claimed(r, x, N) == SumFunction(Claims(r, x, N))

LEMMA BestIs ==
  ASSUME NEW r, IsTable(r), NEW x, NEW g
  PROVE  /\ Best(r, x, g) \in Nat /\ Best(r, x, g) \in Quantities(r, x, g)
         /\ \A id \in InGroup(r, x, g) : r[id].quantity <= Best(r, x, g)
         /\ InGroup(r, x, g) = {} => Best(r, x, g) = 0
<1> DEFINE S == Quantities(r, x, g)
           ids == InGroup(r, x, g)
<1>1. \A id \in DOMAIN r : r[id].quantity \in Int
  BY DEF IsTable, Reservation
<1>2. S \subseteq Int /\ 0 \in S
  BY <1>1 DEF Quantities, InGroup
<1>3. IsFiniteSet(S)
  <2>1. IsFiniteSet(ids)
    BY FS_Subset DEF IsTable, InGroup
  <2>2. IsFiniteSet({r[id].quantity : id \in ids})
    <3> DEFINE T == {r[id].quantity : id \in ids}
               f == [id \in ids |-> r[id].quantity]
    <3>1. f \in Surjection(ids, T)
      <4> HIDE DEF ids
      <4> QED BY DEF Surjection
    <3> HIDE DEF f, T
    <3>2. IsFiniteSet(T)
      <4> HIDE DEF ids
      <4> QED BY <2>1, <3>1, FS_Surjection
    <3> QED BY <3>2 DEF T
  <2>3. IsFiniteSet({0} \union {r[id].quantity : id \in ids})
    BY <2>2, FS_AddElement
  <2> QED BY <2>3 DEF Quantities
<1>4. Best(r, x, g) \in S /\ \A m \in S : m <= Best(r, x, g)
  <2> HIDE DEF S
  <2> QED BY <1>2, <1>3, MaxOf DEF Best, S
<1>5. Best(r, x, g) \in Nat
  BY <1>2, <1>4
<1>6. \A id \in ids : r[id].quantity \in S
  BY DEF Quantities
<1>7. ids = {} => S = {0}
  BY DEF Quantities
<1> QED BY <1>4, <1>5, <1>6, <1>7

LEMMA ClaimsTyped ==
  ASSUME NEW r, IsTable(r), NEW x, NEW N \in Nat
  PROVE  /\ Claims(r, x, N) \in [1 .. N -> Nat] /\ IsFiniteSet(1 .. N)
         /\ Claimed(r, x, N) \in Nat /\ \A g \in 1 .. N : Claims(r, x, N)[g] = Best(r, x, g)
<1>1. Claims(r, x, N) \in [1 .. N -> Nat] /\ \A g \in 1 .. N : Claims(r, x, N)[g] = Best(r, x, g)
  BY BestIs DEF Claims
<1>2. IsFiniteSet(1 .. N)
  BY FS_Interval
<1> QED BY <1>1, <1>2, SumNatural DEF Claimed

LEMMA LargestIs ==
  ASSUME NEW L, NEW x, NEW g
  PROVE  largest(L, in_group(L, x, g)) = Best(L.reservations, x, g)
<1>1. in_group(L, x, g) = InGroup(L.reservations, x, g)
  BY DEF in_group, on_instrument, InGroup
<1> QED BY <1>1 DEF largest, Best, Quantities

\* The ledger adds over the groups that have a reservation.
LEMMA ClaimedIs ==
  ASSUME NEW L, IsTable(L.reservations), NEW x, NEW N \in Nat,
         \A id \in DOMAIN L.reservations : L.reservations[id].group \in 1 .. N
  PROVE  reserved_sell_quantity(L, x) = Claimed(L.reservations, x, N)
<1> DEFINE r == L.reservations
           f == Claims(r, x, N)
           selling == on_instrument(L, x, "SELL")
           u == {r[id].group : id \in selling}
<1>1. f \in [1 .. N -> Nat] /\ IsFiniteSet(1 .. N) /\ \A g \in 1 .. N : f[g] = Best(r, x, g)
  BY ClaimsTyped
<1>3. \A g : largest(L, in_group(L, x, g)) = Best(r, x, g)
  BY LargestIs
<1>4. u \in SUBSET (1 .. N)
  BY DEF on_instrument
<1>5. \A g \in (1 .. N) \ u : InGroup(r, x, g) = {}
  BY DEF on_instrument, InGroup
<1>6. \A g \in (1 .. N) \ u : f[g] = 0
  BY <1>1, <1>5, BestIs
<1>7. reserved_sell_quantity(L, x) = SumFunction([g \in u |-> largest(L, in_group(L, x, g))])
  BY DEF reserved_sell_quantity
<1> HIDE DEF f
<1>8. [g \in u |-> largest(L, in_group(L, x, g))] = [g \in u |-> f[g]]
  <2> HIDE DEF u
  <2> QED BY <1>1, <1>3, <1>4
<1> HIDE DEF u
<1>9. SumFunction([g \in u |-> f[g]]) = SumFunction(f)
  BY <1>1, <1>4, <1>6, SumWithoutZeros
<1> QED BY <1>7, <1>8, <1>9 DEF Claimed, f

\* The same quantities, or less of them.
LEMMA ClaimedSame ==
  ASSUME NEW r, IsTable(r), NEW t, IsTable(t), NEW x, NEW N \in Nat,
         \A g \in 1 .. N : Best(t, x, g) = Best(r, x, g)
  PROVE  Claimed(t, x, N) = Claimed(r, x, N)
<1>1. Claims(t, x, N) = Claims(r, x, N)
  BY DEF Claims
<1> QED BY <1>1 DEF Claimed

LEMMA ClaimedLess ==
  ASSUME NEW r, IsTable(r), NEW t, IsTable(t), NEW x, NEW N \in Nat,
         DOMAIN t \subseteq DOMAIN r, \A d \in DOMAIN t : t[d] = r[d]
  PROVE  Claimed(t, x, N) <= Claimed(r, x, N)
<1>1. \A g : Best(t, x, g) <= Best(r, x, g)
  <2> SUFFICES ASSUME NEW g PROVE Best(t, x, g) <= Best(r, x, g)
    OBVIOUS
  <2>1. InGroup(t, x, g) \subseteq InGroup(r, x, g)
    BY DEF InGroup
  <2>2. CASE Best(t, x, g) = 0
    BY <2>2, BestIs
  <2>3. CASE Best(t, x, g) # 0
    <3>1. PICK id \in InGroup(t, x, g) : Best(t, x, g) = t[id].quantity
      BY <2>3, BestIs DEF Quantities
    <3>2. t[id] = r[id] /\ id \in InGroup(r, x, g)
      BY <2>1, <3>1 DEF InGroup
    <3> QED BY <3>1, <3>2, BestIs
  <2> QED BY <2>2, <2>3
<1>2. /\ Claims(t, x, N) \in [1 .. N -> Nat] /\ Claims(r, x, N) \in [1 .. N -> Nat] /\ IsFiniteSet(1 .. N)
      /\ \A g \in 1 .. N : Claims(t, x, N)[g] <= Claims(r, x, N)[g]
  BY <1>1, ClaimsTyped
<1> QED BY <1>2, SumBelow DEF Claimed

\* One group has another quantity.
LEMMA ClaimedMove ==
  ASSUME NEW r, IsTable(r), NEW t, IsTable(t), NEW x, NEW N \in Nat, NEW h \in 1 .. N,
         \A g \in (1 .. N) \ {h} : Best(t, x, g) = Best(r, x, g)
  PROVE  Claimed(t, x, N) = Claimed(r, x, N) + (Best(t, x, h) - Best(r, x, h))
<1> DEFINE f == Claims(r, x, N)
           k == Claims(t, x, N)
<1>1. /\ f \in [1 .. N -> Nat] /\ k \in [1 .. N -> Nat] /\ IsFiniteSet(1 .. N)
      /\ f[h] = Best(r, x, h) /\ k[h] = Best(t, x, h)
      /\ \A d \in (1 .. N) \ {h} : f[d] = k[d]
  BY ClaimsTyped
<1> HIDE DEF f, k
<1>2. SumFunction(k) = SumFunction(f) + (k[h] - f[h])
  BY <1>1, SumOneTerm
<1> QED BY <1>1, <1>2 DEF Claimed, f, k

\* Only rows of orders to sell on x matter.
LEMMA BestSame ==
  ASSUME NEW r, NEW t, NEW x, NEW g,
         InGroup(t, x, g) = InGroup(r, x, g), \A d \in InGroup(r, x, g) : t[d].quantity = r[d].quantity
  PROVE  Best(t, x, g) = Best(r, x, g)
<1>1. Quantities(t, x, g) = Quantities(r, x, g)
  BY DEF Quantities
<1> QED BY <1>1 DEF Best

\* A reservation more.
LEMMA ClaimedReserved ==
  ASSUME NEW r, IsTable(r), NEW t, IsTable(t), NEW k, k \notin DOMAIN r,
         DOMAIN t = DOMAIN r \union {k}, \A d \in DOMAIN r : t[d] = r[d],
         NEW N \in Nat, t[k].group \in 1 .. N, NEW x
  PROVE  IF t[k].side = "SELL" /\ t[k].instrument = x
         THEN Claimed(t, x, N) = Claimed(r, x, N)
                + (IF t[k].quantity > Best(r, x, t[k].group) THEN t[k].quantity - Best(r, x, t[k].group) ELSE 0)
         ELSE Claimed(t, x, N) = Claimed(r, x, N)
<1> DEFINE h == t[k].group
           q == t[k].quantity
<1>0. q \in Int
  BY DEF IsTable, Reservation
<1>1. ASSUME NEW g, ~(t[k].side = "SELL" /\ t[k].instrument = x /\ g = h)
      PROVE  Best(t, x, g) = Best(r, x, g)
  <2>1. InGroup(t, x, g) = InGroup(r, x, g)
    BY <1>1 DEF InGroup
  <2>2. \A d \in InGroup(r, x, g) : t[d].quantity = r[d].quantity
    BY DEF InGroup
  <2> QED BY <2>1, <2>2, BestSame
<1>2. CASE ~(t[k].side = "SELL" /\ t[k].instrument = x)
  BY <1>1, <1>2, ClaimedSame
<1>3. CASE t[k].side = "SELL" /\ t[k].instrument = x
  <2>1. Claimed(t, x, N) = Claimed(r, x, N) + (Best(t, x, h) - Best(r, x, h))
    BY <1>1, ClaimedMove
  <2>2. InGroup(t, x, h) = InGroup(r, x, h) \union {k}
    BY <1>3 DEF InGroup
  <2>3. Quantities(t, x, h) = Quantities(r, x, h) \union {q}
    <3>1. \A d \in InGroup(r, x, h) : t[d] = r[d]
      BY DEF InGroup
    <3> QED BY <2>2, <3>1 DEF Quantities
  <2>4. /\ Best(t, x, h) \in Nat /\ Best(r, x, h) \in Nat
        /\ Best(t, x, h) \in Quantities(r, x, h) \union {q} /\ q <= Best(t, x, h)
        /\ Best(r, x, h) \in Quantities(r, x, h)
    BY <2>2, <2>3, BestIs
  <2>5. \A m \in Quantities(r, x, h) : m <= Best(r, x, h) /\ m <= Best(t, x, h)
    <3>1. \A d \in InGroup(r, x, h) : t[d] = r[d] /\ d \in InGroup(t, x, h)
      BY <2>2 DEF InGroup
    <3>2. \A d \in InGroup(r, x, h) : r[d].quantity <= Best(r, x, h) /\ r[d].quantity <= Best(t, x, h)
      BY <3>1, BestIs
    <3> QED BY <2>4, <3>2 DEF Quantities
  <2>6. Best(t, x, h) = IF q > Best(r, x, h) THEN q ELSE Best(r, x, h)
    <3> HIDE DEF h, q
    <3> QED BY <1>0, <2>4, <2>5
  <2>7. Claimed(r, x, N) \in Nat
    BY ClaimsTyped
  <2> HIDE DEF h, q
  <2>8. Claimed(t, x, N) = Claimed(r, x, N) + (IF q > Best(r, x, h) THEN q - Best(r, x, h) ELSE 0)
    BY <1>0, <2>1, <2>4, <2>6, <2>7
  <2> QED BY <1>3, <2>8 DEF h, q
<1> QED BY <1>2, <1>3

\* A fill of the only order of its group.
LEMMA ClaimedFilled ==
  ASSUME NEW r, IsTable(r), NEW t, IsTable(t), NEW n \in DOMAIN r, NEW w, Refilled(r, t, n, w),
         NEW N \in Nat, r[n].group \in 1 .. N, NEW x, NEW q \in Nat,
         r[n].side = "SELL" => /\ w.quantity = r[n].quantity - q /\ q <= r[n].quantity
                               /\ InGroup(r, r[n].instrument, r[n].group) = {n}
  PROVE  Claimed(t, x, N) = IF r[n].side = "SELL" /\ r[n].instrument = x
                            THEN Claimed(r, x, N) - q ELSE Claimed(r, x, N)
<1> DEFINE h == r[n].group
<1>0. /\ DOMAIN t = DOMAIN r /\ t[n] = w /\ w.side = r[n].side /\ w.instrument = r[n].instrument
      /\ w.group = r[n].group /\ \A d \in DOMAIN r \ {n} : t[d] = r[d]
  BY DEF Refilled, SameRow
<1>1. \A g : InGroup(t, x, g) = InGroup(r, x, g)
  <2> SUFFICES ASSUME NEW g PROVE InGroup(t, x, g) = InGroup(r, x, g)
    OBVIOUS
  <2>1. \A d \in DOMAIN r : t[d].side = r[d].side /\ t[d].instrument = r[d].instrument /\ t[d].group = r[d].group
    BY <1>0
  <2> QED BY <1>0, <2>1 DEF InGroup
<1>2. ASSUME NEW g, ~(r[n].side = "SELL" /\ r[n].instrument = x /\ g = h)
      PROVE  Best(t, x, g) = Best(r, x, g)
  <2>1. n \notin InGroup(r, x, g)
    BY <1>2 DEF InGroup
  <2>2. \A d \in InGroup(r, x, g) : t[d].quantity = r[d].quantity
    BY <1>0, <2>1 DEF InGroup
  <2> QED BY <1>1, <2>2, BestSame
<1>3. CASE ~(r[n].side = "SELL" /\ r[n].instrument = x)
  BY <1>2, <1>3, ClaimedSame
<1>4. CASE r[n].side = "SELL" /\ r[n].instrument = x
  <2>1. Claimed(t, x, N) = Claimed(r, x, N) + (Best(t, x, h) - Best(r, x, h))
    BY <1>2, ClaimedMove
  <2>2. InGroup(r, x, h) = {n} /\ InGroup(t, x, h) = {n}
    BY <1>1, <1>4
  <2>3. Quantities(r, x, h) = {0, r[n].quantity} /\ Quantities(t, x, h) = {0, t[n].quantity}
    BY <2>2 DEF Quantities
  <2>4. r[n].quantity \in Nat /\ t[n].quantity = r[n].quantity - q /\ q <= r[n].quantity
    <3>1. r[n].quantity \in Int
      BY DEF IsTable, Reservation
    <3> QED BY <1>0, <1>4, <3>1
  <2>5. Best(r, x, h) = r[n].quantity /\ Best(t, x, h) = t[n].quantity
    BY <2>3, <2>4, TwoMax DEF Best
  <2>6. Claimed(r, x, N) \in Nat
    BY ClaimsTyped
  <2> HIDE DEF h
  <2>7. Claimed(t, x, N) = Claimed(r, x, N) - q
    BY <2>1, <2>4, <2>5, <2>6
  <2> QED BY <1>4, <2>7
<1> QED BY <1>3, <1>4

-----------------------------------------------------------------------------
(* The replay: shares held.                                                *)

LEMMA PositionMore ==
  ASSUME NEW lots \in Seq(Lot), NEW lot \in Lot, NEW x
  PROVE  Position(Append(lots, lot), x)
           = Position(lots, x) + (IF lot.instrument = x THEN lot.quantity ELSE 0)
<1> DEFINE more == Append(lots, lot)
           n == Len(lots)
           f == PositionTerm(lots, x)
           g == PositionTerm(more, x)
<1>1. /\ more \in Seq(Lot) /\ Len(more) = n + 1 /\ n \in Nat /\ more[n + 1] = lot
      /\ \A k \in 1 .. n : more[k] = lots[k]
  OBVIOUS
<1> HIDE DEF more
<1>2. /\ f \in [1 .. n -> Nat] /\ g \in [1 .. n + 1 -> Nat]
  <2>1. g \in [1 .. Len(more) -> Nat]
    BY <1>1, PositionTyped
  <2> QED BY <1>1, <2>1, PositionTyped
<1>3. g[n + 1] = (IF lot.instrument = x THEN lot.quantity ELSE 0)
  <2>1. n + 1 \in DOMAIN more
    BY <1>1
  <2> QED BY <1>1, <2>1 DEF PositionTerm
<1>4. \A k \in 1 .. n : g[k] = f[k]
  <2>1. \A k \in 1 .. n : k \in DOMAIN more /\ k \in DOMAIN lots
    BY <1>1
  <2> QED BY <1>1, <2>1 DEF PositionTerm
<1> HIDE DEF f, g, n
<1>5. SumFunction(g) = SumFunction(f) + g[n + 1]
  BY <1>1, <1>2, <1>4, SumAppended
<1> QED BY <1>3, <1>5 DEF Position, f, g, more

LEMMA PositionSame ==
  ASSUME NEW lots \in Seq(Lot), NEW after \in Seq(Lot), Len(after) = Len(lots), NEW y,
         \A n \in 1 .. Len(lots) : /\ after[n].instrument = lots[n].instrument
                                   /\ lots[n].instrument = y => after[n].quantity = lots[n].quantity
  PROVE  Position(after, y) = Position(lots, y)
<1>1. DOMAIN after = 1 .. Len(lots) /\ DOMAIN lots = 1 .. Len(lots)
  OBVIOUS
<1>2. PositionTerm(after, y) = PositionTerm(lots, y)
  BY <1>1 DEF PositionTerm
<1> QED BY <1>2 DEF Position

\* The oldest lots give exactly what is sold, when it is held.
LEMMA PositionSold ==
  ASSUME NEW lots \in Seq(Lot), NEW x, NEW q \in Nat, q <= Position(lots, x), NEW y
  PROVE  Position(consume_fifo(lots, x, q).lots, y) = Position(lots, y) - (IF y = x THEN q ELSE 0)
<1> DEFINE after == consume_fifo(lots, x, q).lots
           last == Len(lots)
<1>1. after \in Seq(Lot) /\ Len(after) = last
  BY ConsumeGood
<1>0. PICK f : Selling(f, lots, x, q) /\ Taken(f, lots, after, x)
  BY ConsumeGood
<1> HIDE DEF after
<1>2. \A n \in 1 .. last :
         /\ after[n].instrument = lots[n].instrument
         /\ after[n].quantity = lots[n].quantity - consumed(lots[n], x, f[n - 1])
  BY <1>0 DEF Taken
<1>3. /\ last \in Nat /\ DOMAIN lots = 1 .. last /\ DOMAIN after = 1 .. last
      /\ \A n \in 1 .. last : lots[n] \in Lot /\ n - 1 \in 0 .. last
  BY <1>1
<1>4. /\ f \in [0 .. last -> Nat] /\ f[0] = q
      /\ \A n \in 1 .. last : f[n] = f[n - 1] - consumed(lots[n], x, f[n - 1])
  BY <1>0 DEF Selling
<1> DEFINE given(n) == consumed(lots[n], x, f[n - 1])
<1>5. ASSUME NEW n \in 1 .. last
      PROVE  /\ given(n) \in Nat /\ lots[n].quantity \in Nat
             /\ lots[n].instrument # x => given(n) = 0
             /\ lots[n].instrument = x /\ given(n) < f[n - 1] => given(n) = lots[n].quantity
  <2>1. lots[n] \in Lot /\ f[n - 1] \in Nat
    BY <1>3, <1>4
  <2>2. lots[n].quantity \in Nat
    BY <2>1 DEF Lot
  <2> QED BY <2>1, <2>2, ConsumedTyped
<1>6. CASE y # x
  <2>1. \A n \in 1 .. last : lots[n].instrument = y => after[n].quantity = lots[n].quantity
    BY <1>2, <1>5, <1>6
  <2>2. Position(after, y) = Position(lots, y)
    BY <1>1, <1>2, <2>1, PositionSame
  <2>3. Position(lots, y) \in Nat
    BY PositionTyped
  <2> QED BY <1>6, <2>2, <2>3 DEF after
<1>7. CASE y = x
  <2> DEFINE a == PositionTerm(after, x)
             l == PositionTerm(lots, x)
  <2>1. a \in [1 .. last -> Int] /\ l \in [1 .. last -> Int] /\ \A n \in 1 .. last : l[n] \in Nat
    <3>1. a \in [1 .. last -> Nat] /\ l \in [1 .. last -> Nat]
      BY <1>1, PositionTyped
    <3> QED BY <3>1
  <2>2. \A n \in 1 .. last : /\ l[n] = IF lots[n].instrument = x THEN lots[n].quantity ELSE 0
                             /\ a[n] = IF lots[n].instrument = x THEN lots[n].quantity - given(n) ELSE 0
    BY <1>2, <1>3 DEF PositionTerm
  <2>3. \A n \in 1 .. last : a[n] = l[n] - given(n) /\ (given(n) < f[n - 1] => given(n) = l[n])
    <3> SUFFICES ASSUME NEW n \in 1 .. last
                 PROVE  a[n] = l[n] - given(n) /\ (given(n) < f[n - 1] => given(n) = l[n])
      OBVIOUS
    <3>1. CASE lots[n].instrument = x
      BY <1>5, <2>2, <3>1
    <3>2. CASE lots[n].instrument # x
      BY <1>5, <2>2, <3>2
    <3> QED BY <3>1, <3>2
  <2> HIDE DEF a, l
  <2> DEFINE Fine(n) == /\ Prefix(l, n) \in Int /\ Prefix(a, n) = Prefix(l, n) - (q - f[n])
                        /\ f[n] > 0 => f[n] = q - Prefix(l, n)
             Bad == {n \in 0 .. last : ~Fine(n)}
  <2>4. Bad = {}
    <3> SUFFICES ASSUME Bad # {} PROVE FALSE
      OBVIOUS
    <3>0. Bad \in SUBSET Nat
      BY <1>3
    <3>1. PICK n \in Bad : \A m \in Bad : n <= m
      <4> HIDE DEF Bad
      <4> QED BY <3>0, LeastNumber
    <3>2. n # 0
      <4>1. Fine(0)
        BY <1>4, PrefixNone
      <4> QED BY <3>1, <4>1
    <3>3. n \in 1 .. last /\ n - 1 \in 0 .. last /\ n - 1 \notin Bad
      <4>1. n \in 0 .. last
        BY <3>1
      <4> HIDE DEF Bad
      <4> QED BY <1>3, <3>1, <3>2, <4>1
    <3>4. Fine(n - 1)
      BY <3>3
    <3>5. /\ Prefix(l, n) = l[n] + Prefix(l, n - 1) /\ Prefix(a, n) = a[n] + Prefix(a, n - 1)
          /\ Prefix(l, n - 1) \in Int /\ Prefix(a, n - 1) \in Int
      BY <1>3, <2>1, <3>3, PrefixStep
    <3>6. f[n] \in Nat /\ f[n - 1] \in Nat /\ f[n] = f[n - 1] - given(n) /\ given(n) \in Nat /\ l[n] \in Nat
      <4>1. n \in 0 .. last
        BY <3>1
      <4> QED BY <1>4, <1>5, <2>1, <3>3, <4>1
    <3>7. a[n] = l[n] - given(n) /\ (given(n) < f[n - 1] => given(n) = l[n])
      BY <2>3, <3>3
    <3>8. /\ Prefix(a, n - 1) = Prefix(l, n - 1) - (q - f[n - 1])
          /\ f[n - 1] > 0 => f[n - 1] = q - Prefix(l, n - 1)
      BY <3>4
    <3> DEFINE gone == given(n)
               whole == Prefix(l, n - 1)
               left == Prefix(a, n - 1)
               lot == l[n]
               before == f[n - 1]
    <3>9. /\ (lot - gone) + left = (lot + whole) - (q - (before - gone))
          /\ before - gone > 0 => before - gone = q - (lot + whole)
          /\ lot + whole \in Int
      <4>1. gone \in Nat /\ whole \in Int /\ left \in Int /\ lot \in Nat /\ before \in Nat
            /\ before - gone \in Nat /\ (gone < before => gone = lot)
            /\ left = whole - (q - before) /\ (before > 0 => before = q - whole)
        BY <3>5, <3>6, <3>7, <3>8
      <4> HIDE DEF gone, whole, left, lot, before
      <4> QED BY <4>1
    <3>10. /\ Prefix(l, n) = lot + whole /\ Prefix(a, n) = (lot - gone) + left
           /\ f[n] = before - gone
      BY <3>5, <3>6, <3>7
    <3> HIDE DEF gone, whole, left, lot, before, Bad
    <3>11. Fine(n)
      BY <3>9, <3>10
    <3> QED BY <3>1, <3>11 DEF Bad
  <2>5. Fine(last)
    BY <1>3, <2>4
  <2>6. Prefix(l, last) = Position(lots, x) /\ Prefix(a, last) = Position(after, x)
    BY <1>3, <2>1, PrefixAll DEF Position, a, l
  <2>7. f[last] \in Nat
    BY <1>3, <1>4
  <2>8. f[last] = 0
    BY <2>5, <2>6, <2>7
  <2>9. Position(after, x) = Position(lots, x) - q
    BY <2>5, <2>6, <2>8
  <2> QED BY <1>7, <2>9 DEF after
<1> QED BY <1>6, <1>7

-----------------------------------------------------------------------------
(* The replay: shares sold by a group.                                     *)

SoldTerm(os, g) == [n \in DOMAIN os |-> IF os[n].group = g THEN os[n].filled ELSE 0]

LEMMA SoldTyped ==
  ASSUME NEW os \in Seq(TrackedOrder), NEW g
  PROVE  /\ SoldTerm(os, g) \in [1 .. Len(os) -> Nat] /\ IsFiniteSet(1 .. Len(os))
         /\ group_filled(os, g) = SumFunction(SoldTerm(os, g)) /\ group_filled(os, g) \in Nat
         /\ \A n \in 1 .. Len(os) : SoldTerm(os, g)[n] = IF os[n].group = g THEN os[n].filled ELSE 0
<1>1. Len(os) \in Nat /\ DOMAIN os = 1 .. Len(os) /\ \A n \in 1 .. Len(os) : os[n] \in TrackedOrder
  OBVIOUS
<1>2. \A n \in 1 .. Len(os) : os[n].filled \in Nat
  BY <1>1 DEF TrackedOrder
<1>3. /\ SoldTerm(os, g) \in [1 .. Len(os) -> Nat]
      /\ \A n \in 1 .. Len(os) : SoldTerm(os, g)[n] = IF os[n].group = g THEN os[n].filled ELSE 0
  BY <1>1, <1>2 DEF SoldTerm
<1>4. IsFiniteSet(1 .. Len(os))
  BY <1>1, FS_Interval
<1> QED BY <1>3, <1>4, SumNatural DEF group_filled, SoldTerm

LEMMA SoldSame ==
  ASSUME NEW os, NEW after, DOMAIN after = DOMAIN os, NEW g,
         \A n \in DOMAIN os : after[n].group = os[n].group /\ after[n].filled = os[n].filled
  PROVE  group_filled(after, g) = group_filled(os, g)
<1>1. SoldTerm(after, g) = SoldTerm(os, g)
  BY DEF SoldTerm
<1> QED BY <1>1 DEF group_filled, SoldTerm

LEMMA SoldMore ==
  ASSUME NEW os \in Seq(TrackedOrder), NEW after \in Seq(TrackedOrder), Len(after) = Len(os) + 1,
         \A n \in DOMAIN os : after[n] = os[n], after[Len(os) + 1].filled = 0, NEW g
  PROVE  group_filled(after, g) = group_filled(os, g)
<1> DEFINE n == Len(os)
           f == SoldTerm(os, g)
           k == SoldTerm(after, g)
<1>1. n \in Nat /\ DOMAIN os = 1 .. n /\ n + 1 \in 1 .. n + 1 /\ \A d \in 1 .. n : d \in 1 .. n + 1
  OBVIOUS
<1>2. /\ f \in [1 .. n -> Nat] /\ k \in [1 .. n + 1 -> Nat] /\ k[n + 1] = 0
      /\ \A d \in 1 .. n : k[d] = f[d]
  <2>1. k \in [1 .. Len(after) -> Nat] /\ f \in [1 .. n -> Nat]
    BY SoldTyped
  <2>2. \A d \in 1 .. n + 1 : k[d] = IF after[d].group = g THEN after[d].filled ELSE 0
    BY SoldTyped
  <2>3. \A d \in 1 .. n : f[d] = IF os[d].group = g THEN os[d].filled ELSE 0
    BY SoldTyped
  <2> HIDE DEF f, k, n
  <2>4. k[n + 1] = 0
    BY <1>1, <2>2 DEF n
  <2>5. k \in [1 .. n + 1 -> Nat]
    BY <2>1 DEF n
  <2> QED BY <1>1, <2>1, <2>2, <2>3, <2>4, <2>5
<1> HIDE DEF f, k, n
<1>3. SumFunction(k) = SumFunction(f) + k[n + 1]
  BY <1>1, <1>2, SumAppended
<1>4. SumFunction(f) \in Nat /\ group_filled(os, g) = SumFunction(f) /\ group_filled(after, g) = SumFunction(k)
  BY SoldTyped DEF f, k
<1> QED BY <1>2, <1>3, <1>4

LEMMA SoldFilled ==
  ASSUME NEW os \in Seq(TrackedOrder), NEW after \in Seq(TrackedOrder), DOMAIN after = DOMAIN os,
         NEW n \in DOMAIN os, \A m \in DOMAIN os \ {n} : after[m] = os[m],
         NEW q \in Nat, after[n].group = os[n].group, after[n].filled = os[n].filled + q, NEW g
  PROVE  group_filled(after, g) = group_filled(os, g) + (IF os[n].group = g THEN q ELSE 0)
<1> DEFINE f == SoldTerm(os, g)
           k == SoldTerm(after, g)
           D == 1 .. Len(os)
<1>1. DOMAIN os = D /\ 1 .. Len(after) = D /\ n \in D /\ os[n] \in TrackedOrder
  OBVIOUS
<1>2. /\ f \in [D -> Nat] /\ k \in [D -> Nat] /\ IsFiniteSet(D)
      /\ \A d \in D : k[d] = IF after[d].group = g THEN after[d].filled ELSE 0
      /\ \A d \in D : f[d] = IF os[d].group = g THEN os[d].filled ELSE 0
      /\ group_filled(os, g) = SumFunction(f) /\ group_filled(after, g) = SumFunction(k)
      /\ group_filled(os, g) \in Nat
  <2> HIDE DEF D
  <2>1. /\ k \in [1 .. Len(after) -> Nat]
        /\ \A d \in 1 .. Len(after) : k[d] = IF after[d].group = g THEN after[d].filled ELSE 0
        /\ group_filled(after, g) = SumFunction(k)
    BY SoldTyped
  <2>2. /\ f \in [D -> Nat] /\ IsFiniteSet(D)
        /\ \A d \in D : f[d] = IF os[d].group = g THEN os[d].filled ELSE 0
        /\ group_filled(os, g) = SumFunction(f) /\ group_filled(os, g) \in Nat
    BY SoldTyped DEF D
  <2> HIDE DEF f, k
  <2> QED BY <1>1, <2>1, <2>2
<1> HIDE DEF f, k, D
<1>3. \A d \in D \ {n} : f[d] = k[d]
  BY <1>1, <1>2
<1>4. SumFunction(k) = SumFunction(f) + (k[n] - f[n])
  <2>1. n \in D /\ f \in [D -> Nat] /\ k \in [D -> Nat] /\ IsFiniteSet(D)
    BY <1>1, <1>2
  <2> QED BY <1>3, <2>1, SumOneTerm
<1>5. os[n].filled \in Nat
  BY <1>1 DEF TrackedOrder
<1>6. k[n] - f[n] = IF os[n].group = g THEN q ELSE 0
  BY <1>1, <1>2, <1>5
<1> QED BY <1>2, <1>4, <1>6

LEMMA SoldNothing ==
  ASSUME NEW os \in Seq(TrackedOrder), NEW g, \A n \in DOMAIN os : os[n].group # g
  PROVE  group_filled(os, g) = 0
<1> DEFINE D == 1 .. Len(os)
<1>1. DOMAIN os = D /\ IsFiniteSet(D)
  BY SoldTyped
<1> HIDE DEF D
<1>2. SoldTerm(os, g) = [d \in D |-> 0]
  BY <1>1 DEF SoldTerm
<1> QED BY <1>1, <1>2, ZeroSum, SoldTyped

-----------------------------------------------------------------------------
(* The replay: the engine's state and its helpers.                         *)

\* What holds even when an exception ends the replay.
Sound(s) ==
    /\ {"ledger", "orders", "failure"} \subseteq DOMAIN s
    /\ LedgerGood(s.ledger) /\ s.orders \in Seq(TrackedOrder)
    /\ DOMAIN s.ledger.reservations \subseteq DOMAIN s.orders
    /\ \A n \in DOMAIN s.orders : s.orders[n].group <= n

\* Reservations are those of open orders, except for the orders in E, whose fill is being
\* worked on: their reservation is released when nothing remains.
Mirrors(s, E) ==
    /\ \A n \in DOMAIN s.orders \ E :
         n \in DOMAIN s.ledger.reservations <=> s.orders[n].state \in Open
    /\ \A n \in E :
         /\ n \in DOMAIN s.ledger.reservations
         /\ s.orders[n].state \in Open <=> remaining_quantity(s.orders[n]) # 0
    /\ \A n \in DOMAIN s.ledger.reservations :
         s.orders[n].side = "SELL"
           => s.ledger.reservations[n].quantity = remaining_quantity(s.orders[n])

LEMMA OrdersAre ==
  ASSUME NEW s, Sound(s)
  PROVE  /\ Len(s.orders) \in Nat /\ DOMAIN s.orders = 1 .. Len(s.orders)
         /\ \A n \in DOMAIN s.orders : s.orders[n] \in TrackedOrder
  BY DEF Sound

\* What ending some orders does.
Ended(s, t, ids, state, at) ==
    /\ {"ledger", "orders", "failure"} \subseteq DOMAIN t
    /\ t.ledger = release(s.ledger, ids) /\ s.failure \subseteq t.failure
    /\ t.orders \in Seq(TrackedOrder) /\ DOMAIN t.orders = DOMAIN s.orders
    /\ \A n \in DOMAIN s.orders :
         t.orders[n] = IF n \in ids THEN finish(s.orders[n], state, at) ELSE s.orders[n]

LEMMA EndEffect ==
  ASSUME NEW s, Sound(s), NEW ids, NEW state \in OrderEnd, NEW at \in Int
  PROVE  Ended(s, end_orders(s, ids, state, at), ids, state, at)
<1> DEFINE t == end_orders(s, ids, state, at)
           os == [n \in DOMAIN s.orders |-> IF n \in ids THEN finish(s.orders[n], state, at) ELSE s.orders[n]]
<1>1. {"ledger", "orders", "failure"} \subseteq DOMAIN s
  BY DEF Sound
<1>2. /\ DOMAIN t = DOMAIN s /\ t.ledger = release(s.ledger, ids) /\ t.orders = os
      /\ s.failure \subseteq t.failure
  BY <1>1 DEF end_orders, fail
<1>3. Len(s.orders) \in Nat /\ DOMAIN s.orders = 1 .. Len(s.orders) /\ \A n \in DOMAIN s.orders : s.orders[n] \in TrackedOrder
  BY OrdersAre
<1>4. \A n \in DOMAIN s.orders : os[n] \in TrackedOrder
  BY <1>3, FinishTyped
<1>5. os \in Seq(TrackedOrder)
  <2>1. os = [n \in 1 .. Len(s.orders) |-> os[n]]
    BY <1>3
  <2> HIDE DEF os
  <2> QED BY <1>3, <1>4, <2>1
<1> HIDE DEF t
<1> QED BY <1>1, <1>2, <1>5 DEF t, Ended

\* What placing an order does.
Placed(s, t, i) ==
    LET k == Len(s.orders) + 1
    IN  /\ {"ledger", "orders", "failure"} \subseteq DOMAIN t
        /\ t.ledger = reserve(s.ledger, k, i) /\ s.failure \subseteq t.failure
        /\ t.orders \in Seq(TrackedOrder) /\ DOMAIN t.orders = DOMAIN s.orders \union {k}
        /\ k \notin DOMAIN s.orders /\ Len(t.orders) = k /\ k \in Nat
        /\ t.orders[k] = accept(i) /\ \A n \in DOMAIN s.orders : t.orders[n] = s.orders[n]
        /\ t.failure = {} => reserve_refusals(s.ledger, i) = {}

LEMMA PlaceEffect ==
  ASSUME NEW s, Sound(s), NEW i \in OrderIntent
  PROVE  Placed(s, place(s, i), i)
<1> DEFINE t == place(s, i)
           k == Len(s.orders) + 1
<1>1. {"ledger", "orders", "failure"} \subseteq DOMAIN s
  BY DEF Sound
<1>2. /\ DOMAIN t = DOMAIN s /\ t.ledger = reserve(s.ledger, k, i)
      /\ t.orders = Append(s.orders, accept(i)) /\ s.failure \subseteq t.failure
      /\ t.failure = {} => reserve_refusals(s.ledger, i) = {}
  BY <1>1 DEF place, fail
<1>3. s.orders \in Seq(TrackedOrder) /\ accept(i) \in TrackedOrder
  BY AcceptTyped DEF Sound
<1> HIDE DEF t
<1>4. /\ t.orders \in Seq(TrackedOrder) /\ DOMAIN t.orders = DOMAIN s.orders \union {k}
      /\ k \notin DOMAIN s.orders /\ Len(t.orders) = k /\ k \in Nat
      /\ t.orders[k] = accept(i) /\ \A n \in DOMAIN s.orders : t.orders[n] = s.orders[n]
  BY <1>2, <1>3
<1> QED BY <1>1, <1>2, <1>4 DEF t, Placed

\* What booking a fill does: an exception and nothing else, or both records are changed.
Booked(s, t, n, b) ==
    LET fill == fill_of(n, s.orders[n], b) IN
    /\ {"ledger", "orders", "failure"} \subseteq DOMAIN t
    /\ \/ t.failure # {} /\ t.ledger = s.ledger /\ t.orders = s.orders
       \/ /\ t.failure = s.failure /\ fill_refusals(s.ledger, fill) = {}
          /\ t.ledger = apply_fill(s.ledger, fill)
          /\ t.orders = [s.orders EXCEPT ![n] = order_fill(s.orders[n], fill.quantity, b.available)]

LEMMA BookedEffect ==
  ASSUME NEW s, Sound(s), NEW n \in DOMAIN s.orders, NEW b
  PROVE  Booked(s, booked(s, n, b), n, b)
<1> DEFINE o == s.orders[n]
           fill == fill_of(n, o, b)
           reasons == fill_refusals(s.ledger, fill) \union transition_refusals(o, b.available)
           t == booked(s, n, b)
<1>1. {"ledger", "orders", "failure"} \subseteq DOMAIN s
  BY DEF Sound
<1>2. CASE reasons # {}
  <2>1. t = fail(s, reasons)
    BY <1>2 DEF booked
  <2> HIDE DEF reasons, t
  <2>2. t.failure = s.failure \union reasons /\ t.ledger = s.ledger /\ t.orders = s.orders /\ DOMAIN t = DOMAIN s
    BY <1>1, <2>1 DEF fail
  <2> QED BY <1>1, <1>2, <2>2 DEF Booked, t
<1>3. CASE reasons = {}
  <2>1. t = [s EXCEPT !.ledger = apply_fill(@, fill),
                      !.orders[n] = order_fill(@, fill.quantity, b.available)]
    BY <1>3 DEF booked
  <2> HIDE DEF t
  <2>2. /\ t.failure = s.failure /\ t.ledger = apply_fill(s.ledger, fill) /\ DOMAIN t = DOMAIN s
        /\ t.orders = [s.orders EXCEPT ![n] = order_fill(o, fill.quantity, b.available)]
    BY <1>1, <2>1
  <2>3. fill_refusals(s.ledger, fill) = {}
    BY <1>3
  <2> QED BY <1>1, <2>2, <2>3 DEF Booked, t
<1> QED BY <1>2, <1>3

\* What a fill that is not refused satisfies.
LEMMA Unrefused ==
  ASSUME NEW L, NEW fill, fill_refusals(L, fill) = {}
  PROVE  /\ fill.order \in DOMAIN L.reservations
         /\ L.reservations[fill.order].side = fill.side
         /\ L.reservations[fill.order].instrument = fill.instrument
         /\ fill.side = "BUY" => ~(fill.price * fill.quantity + fill.commission
                                    > cash_for_fill(L, L.reservations[fill.order]))
         /\ fill.side = "SELL" => /\ ~(fill.quantity > position_quantity(L, fill.instrument))
                                  /\ ~(fill.price * fill.quantity < fill.commission)
  BY DEF fill_refusals, when

\* The lots after a fill.
LotsAfter(lots, after, fill) ==
    IF fill.side = "BUY"
    THEN \E lot \in Lot : /\ after = Append(lots, lot)
                          /\ lot.instrument = fill.instrument /\ lot.quantity = fill.quantity
    ELSE after = consume_fifo(lots, fill.instrument, fill.quantity).lots

LEMMA FillGood ==
  ASSUME NEW L, LedgerGood(L), NEW fill, IsFill(fill), fill_refusals(L, fill) = {}
  PROVE  LET M == apply_fill(L, fill)
             v == L.reservations[fill.order]
         IN  /\ LedgerGood(M) /\ LotsAfter(L.lots, M.lots, fill)
             /\ \E w : /\ Refilled(L.reservations, M.reservations, fill.order, w)
                       /\ w.quantity = IF fill.side = "BUY" THEN v.quantity ELSE v.quantity - fill.quantity
<1>1. fill.order \in DOMAIN L.reservations
  BY Unrefused
<1>2. fill.price * fill.quantity \in Nat /\ fill.commission \in Nat /\ fill.side \in OrderSide
  <2>1. fill.price \in Nat /\ fill.quantity \in Nat /\ fill.commission \in Nat /\ fill.side \in OrderSide
    BY DEF IsFill
  <2> QED BY <2>1
<1>3. CASE fill.side = "BUY"
  <2> DEFINE v == L.reservations[fill.order]
             room == cash_for_fill(L, v)
             cost == fill.price * fill.quantity + fill.commission
  <2>1. room \in Int
    <3>1. v \in Reservation /\ IsTable(L.reservations) /\ L.cash \in Int
      BY <1>1 DEF LedgerGood, IsTable
    <3>2. v.cash \in Nat /\ Promised(L.reservations) \in Nat
      BY <3>1, PromisedTyped DEF Reservation
    <3> QED BY <3>1, <3>2, ReservedIs DEF cash_for_fill, available_cash
  <2>2. cost \in Int /\ ~(cost > room)
    BY <1>2, <1>3, Unrefused
  <2> HIDE DEF room, cost
  <2>3. cost <= room
    BY <2>1, <2>2
  <2>4. apply_fill(L, fill) = buy_fill(L, fill)
    BY <1>3 DEF apply_fill
  <2> QED BY <1>1, <1>3, <2>3, <2>4, BuyGood DEF room, cost, LotsAfter
<1>4. CASE fill.side = "SELL"
  <2>1. fill.price * fill.quantity >= fill.commission
    <3> DEFINE gain == fill.price * fill.quantity
    <3>1. ~(gain < fill.commission) /\ gain \in Nat /\ fill.commission \in Nat
      BY <1>2, <1>4, Unrefused
    <3> HIDE DEF gain
    <3>2. gain >= fill.commission
      BY <3>1
    <3> QED BY <3>2 DEF gain
  <2>2. apply_fill(L, fill) = sell_fill(L, fill)
    BY <1>4 DEF apply_fill
  <2> QED BY <1>1, <1>4, <2>1, <2>2, SellGood DEF LotsAfter
<1> QED BY <1>2, <1>3, <1>4 DEF OrderSide

-----------------------------------------------------------------------------
(* The replay: exits sell what is held, and once.                          *)

live(o) == IF o.state \in Open THEN remaining_quantity(o) ELSE 0

\* Leg n of group g: with what the group has sold, it sells no more than the fill it
\* protects, which is the quantity of the first leg.
LegFits(os, n, g) ==
    /\ os[g].group = g /\ remaining_quantity(os[n]) >= 0
    /\ group_filled(os, g) + live(os[n]) <= os[g].quantity

Grouped(os) == \A n \in DOMAIN os : os[n].group # 0 => LegFits(os, n, os[n].group)

\* A reservation is that of its order.
RowIs(v, o, n) ==
    /\ v.side = o.side /\ v.instrument = o.instrument
    /\ v.group = IF o.group = 0 THEN n ELSE o.group

Tied(s) == \A n \in DOMAIN s.ledger.reservations : RowIs(s.ledger.reservations[n], s.orders[n], n)

\* The shares promised to orders to sell are held.
Covered(L) == \A x \in Instruments : reserved_sell_quantity(L, x) <= position_quantity(L, x)

Exits(s) == Tied(s) /\ Grouped(s.orders) /\ Covered(s.ledger)

LEMMA GroupsAre ==
  ASSUME NEW s, Sound(s), Tied(s)
  PROVE  \A id \in DOMAIN s.ledger.reservations : s.ledger.reservations[id].group \in 1 .. Len(s.orders)
<1> SUFFICES ASSUME NEW id \in DOMAIN s.ledger.reservations
             PROVE  s.ledger.reservations[id].group \in 1 .. Len(s.orders)
  OBVIOUS
<1>1. /\ id \in DOMAIN s.orders /\ DOMAIN s.orders = 1 .. Len(s.orders) /\ Len(s.orders) \in Nat
      /\ s.orders[id] \in TrackedOrder /\ s.orders[id].group <= id
  BY OrdersAre DEF Sound
<1>2. s.orders[id].group \in Nat
  BY <1>1 DEF TrackedOrder
<1>3. s.ledger.reservations[id].group = IF s.orders[id].group = 0 THEN id ELSE s.orders[id].group
  BY DEF Tied, RowIs
<1> QED BY <1>1, <1>2, <1>3

\* Both sides of Covered, over tables with groups up to N.
LEMMA CoveredIs ==
  ASSUME NEW L, LedgerGood(L), NEW N \in Nat, NEW x,
         \A id \in DOMAIN L.reservations : L.reservations[id].group \in 1 .. N
  PROVE  /\ reserved_sell_quantity(L, x) = Claimed(L.reservations, x, N)
         /\ position_quantity(L, x) = Position(L.lots, x)
         /\ Claimed(L.reservations, x, N) \in Nat /\ Position(L.lots, x) \in Nat
<1>1. IsTable(L.reservations) /\ L.lots \in Seq(Lot)
  BY DEF LedgerGood
<1> QED BY <1>1, ClaimedIs, ClaimsTyped, PositionIs, PositionTyped

\* Fewer reservations.
LEMMA CoveredLess ==
  ASSUME NEW L, LedgerGood(L), NEW M, LedgerGood(M), NEW N \in Nat,
         \A id \in DOMAIN L.reservations : L.reservations[id].group \in 1 .. N,
         DOMAIN M.reservations \subseteq DOMAIN L.reservations,
         \A d \in DOMAIN M.reservations : M.reservations[d] = L.reservations[d],
         M.lots = L.lots, Covered(L)
  PROVE  Covered(M)
<1> SUFFICES ASSUME NEW x \in Instruments
             PROVE  reserved_sell_quantity(M, x) <= position_quantity(M, x)
  BY DEF Covered
<1>1. \A id \in DOMAIN M.reservations : M.reservations[id].group \in 1 .. N
  OBVIOUS
<1>2. Claimed(M.reservations, x, N) <= Claimed(L.reservations, x, N)
  BY ClaimedLess DEF LedgerGood
<1>3. reserved_sell_quantity(L, x) <= position_quantity(L, x)
  BY DEF Covered
<1>4. /\ reserved_sell_quantity(L, x) = Claimed(L.reservations, x, N)
      /\ position_quantity(L, x) = Position(L.lots, x)
      /\ Claimed(L.reservations, x, N) \in Nat /\ Position(L.lots, x) \in Nat
  BY CoveredIs
<1>5. /\ reserved_sell_quantity(M, x) = Claimed(M.reservations, x, N)
      /\ position_quantity(M, x) = Position(M.lots, x)
      /\ Claimed(M.reservations, x, N) \in Nat
  BY <1>1, CoveredIs
<1> QED BY <1>2, <1>3, <1>4, <1>5

LEMMA EndExits ==
  ASSUME NEW s, Sound(s), Exits(s), NEW ids, NEW state \in OrderEnd, NEW at \in Int,
         NEW t, Sound(t), Ended(s, t, ids, state, at)
  PROVE  Exits(t)
<1>1. /\ t.ledger = release(s.ledger, ids) /\ t.orders \in Seq(TrackedOrder) /\ DOMAIN t.orders = DOMAIN s.orders
      /\ \A n \in DOMAIN s.orders :
           t.orders[n] = IF n \in ids THEN finish(s.orders[n], state, at) ELSE s.orders[n]
  BY DEF Ended
<1>2. /\ LedgerGood(t.ledger) /\ t.ledger.lots = s.ledger.lots
      /\ DOMAIN t.ledger.reservations = DOMAIN s.ledger.reservations \ ids
      /\ \A d \in DOMAIN t.ledger.reservations : t.ledger.reservations[d] = s.ledger.reservations[d]
  BY <1>1, ReleaseGood DEF Sound
<1>3. /\ \A n \in DOMAIN s.orders : s.orders[n] \in TrackedOrder
      /\ DOMAIN s.orders = 1 .. Len(s.orders) /\ Len(s.orders) \in Nat
  BY OrdersAre
<1>4. \A n \in DOMAIN s.orders :
        /\ t.orders[n].group = s.orders[n].group /\ t.orders[n].filled = s.orders[n].filled
        /\ t.orders[n].quantity = s.orders[n].quantity /\ t.orders[n].side = s.orders[n].side
        /\ t.orders[n].instrument = s.orders[n].instrument
        /\ n \notin ids => t.orders[n] = s.orders[n]
        /\ n \in ids => t.orders[n].state = state
  BY <1>1, <1>3, FinishTyped
<1>5. Tied(t)
  <2>1. \A n \in DOMAIN t.ledger.reservations : n \in DOMAIN s.orders
    BY <1>2 DEF Sound
  <2> QED BY <1>2, <1>4, <2>1 DEF Exits, Tied, RowIs
<1>6. Covered(t.ledger)
  <2>1. \A id \in DOMAIN s.ledger.reservations : s.ledger.reservations[id].group \in 1 .. Len(s.orders)
    BY GroupsAre DEF Exits
  <2> QED BY <1>2, <1>3, <2>1, CoveredLess DEF Exits, Sound
<1>7. Grouped(t.orders)
  <2> SUFFICES ASSUME NEW n \in DOMAIN t.orders, t.orders[n].group # 0
               PROVE  LegFits(t.orders, n, t.orders[n].group)
    BY DEF Grouped
  <2> DEFINE g == s.orders[n].group
  <2>1. n \in DOMAIN s.orders /\ t.orders[n].group = g /\ LegFits(s.orders, n, g)
    BY <1>1, <1>4 DEF Exits, Grouped
  <2>2. g \in DOMAIN s.orders
    <3>1. g \in Nat /\ g # 0 /\ g <= n /\ n \in 1 .. Len(s.orders)
      BY <1>3, <1>4, <2>1 DEF Sound, TrackedOrder
    <3> QED BY <1>3, <3>1
  <2>3. group_filled(t.orders, g) = group_filled(s.orders, g)
    BY <1>1, <1>4, SoldSame
  <2>4. remaining_quantity(t.orders[n]) = remaining_quantity(s.orders[n])
    BY <1>4, <2>1 DEF remaining_quantity
  <2>5. live(t.orders[n]) = live(s.orders[n]) \/ live(t.orders[n]) = 0
    BY <1>4, <2>1 DEF live, Open, OrderEnd
  <2>6. group_filled(s.orders, g) \in Nat /\ remaining_quantity(s.orders[n]) \in Int /\ s.orders[g].quantity \in Nat
    <3>1. s.orders \in Seq(TrackedOrder) /\ s.orders[n] \in TrackedOrder /\ s.orders[g] \in TrackedOrder
      BY <1>3, <2>1, <2>2 DEF Sound
    <3>2. s.orders[n].filled \in Nat /\ s.orders[n].quantity \in Nat /\ s.orders[g].quantity \in Nat
      BY <3>1 DEF TrackedOrder
    <3>3. group_filled(s.orders, g) \in Nat
      BY <3>1, SoldTyped
    <3> QED BY <3>2, <3>3 DEF remaining_quantity
  <2> HIDE DEF g
  <2>7. /\ s.orders[g].group = g /\ remaining_quantity(s.orders[n]) >= 0
        /\ group_filled(s.orders, g) + live(s.orders[n]) <= s.orders[g].quantity
    BY <2>1 DEF LegFits
  <2>8. live(s.orders[n]) \in Nat
    BY <2>6, <2>7 DEF live
  <2>9. group_filled(t.orders, g) + live(t.orders[n]) <= t.orders[g].quantity
    BY <1>4, <2>2, <2>3, <2>5, <2>6, <2>7, <2>8
  <2> QED BY <1>4, <2>1, <2>2, <2>4, <2>7, <2>9 DEF LegFits
<1> QED BY <1>5, <1>6, <1>7 DEF Exits

LEMMA ReleaseExits ==
  ASSUME NEW s, Sound(s), Exits(s), NEW ids,
         NEW t, t.ledger = release(s.ledger, ids), t.orders = s.orders
  PROVE  Exits(t)
<1>1. /\ LedgerGood(t.ledger) /\ t.ledger.lots = s.ledger.lots
      /\ DOMAIN t.ledger.reservations = DOMAIN s.ledger.reservations \ ids
      /\ \A d \in DOMAIN t.ledger.reservations : t.ledger.reservations[d] = s.ledger.reservations[d]
  BY ReleaseGood DEF Sound
<1>2. Covered(t.ledger)
  <2>1. \A id \in DOMAIN s.ledger.reservations : s.ledger.reservations[id].group \in 1 .. Len(s.orders)
    BY GroupsAre DEF Exits
  <2>2. Len(s.orders) \in Nat
    BY OrdersAre
  <2> QED BY <1>1, <2>1, <2>2, CoveredLess DEF Exits, Sound
<1>3. Tied(t)
  BY <1>1 DEF Exits, Tied
<1> QED BY <1>2, <1>3 DEF Exits

\* An order that joins a group does not sell more than the group has left.
GroupFits(os, i) ==
    i.group # 0 =>
      \/ i.group = Len(os) + 1
      \/ /\ i.group \in DOMAIN os /\ os[i.group].group = i.group
         /\ group_filled(os, i.group) + i.quantity <= os[i.group].quantity

LEMMA PlacedGroups ==
  ASSUME NEW s, Sound(s), Grouped(s.orders), NEW i \in OrderIntent, GroupFits(s.orders, i),
         NEW t, Placed(s, t, i)
  PROVE  Grouped(t.orders)
<1> DEFINE k == Len(s.orders) + 1
           os == s.orders
           after == t.orders
<1>1. /\ after \in Seq(TrackedOrder) /\ DOMAIN after = DOMAIN os \union {k}
      /\ k \notin DOMAIN os /\ Len(after) = k /\ k \in Nat
      /\ after[k] = accept(i) /\ \A n \in DOMAIN os : after[n] = os[n]
  BY DEF Placed
<1>2. os \in Seq(TrackedOrder) /\ Len(os) \in Nat /\ DOMAIN os = 1 .. Len(os)
  BY OrdersAre DEF Sound
<1>3. /\ after[k].state = "ACCEPTED" /\ after[k].filled = 0 /\ after[k].quantity = i.quantity
      /\ after[k].group = i.group /\ i.quantity \in Nat
  BY <1>1, AcceptTyped DEF OrderIntent
<1>4. \A g : group_filled(after, g) = group_filled(os, g) /\ group_filled(os, g) \in Nat
  <2> HIDE DEF os, after
  <2>1. /\ Len(after) = Len(os) + 1 /\ after[Len(os) + 1].filled = 0
        /\ after \in Seq(TrackedOrder) /\ \A n \in DOMAIN os : after[n] = os[n]
    BY <1>1, <1>3 DEF os
  <2>2. \A g : group_filled(after, g) = group_filled(os, g)
    BY <1>2, <2>1, SoldMore
  <2>3. \A g : group_filled(os, g) \in Nat
    BY <1>2, SoldTyped
  <2> QED BY <2>2, <2>3
<1>5. live(after[k]) = i.quantity /\ remaining_quantity(after[k]) = i.quantity
  BY <1>3 DEF live, remaining_quantity, Open
<1>6. ASSUME NEW n \in DOMAIN os, os[n].group # 0 PROVE LegFits(after, n, after[n].group)
  <2>1. LegFits(os, n, os[n].group) /\ after[n] = os[n]
    BY <1>1, <1>6 DEF Grouped
  <2>2. os[n].group \in DOMAIN os
    <3>0. os[n] \in TrackedOrder /\ os[n].group <= n /\ n \in 1 .. Len(os)
      BY <1>2 DEF Sound
    <3>1. os[n].group \in Nat
      BY <3>0 DEF TrackedOrder
    <3> HIDE DEF os
    <3> QED BY <1>2, <1>6, <3>0, <3>1
  <2>3. after[os[n].group] = os[os[n].group]
    BY <1>1, <2>2
  <2> HIDE DEF os, after
  <2> QED BY <1>4, <2>1, <2>3 DEF LegFits
<1>7. ASSUME i.group # 0 PROVE LegFits(after, k, i.group)
  <2>1. CASE i.group = k
    <3>1. \A n \in DOMAIN os : os[n].group # k
      BY <1>2 DEF Sound
    <3>2. group_filled(os, k) = 0
      <4> HIDE DEF os, k
      <4> QED BY <1>2, <3>1, SoldNothing
    <3> QED BY <1>3, <1>4, <1>5, <2>1, <3>2 DEF LegFits
  <2>2. CASE i.group # k
    <3>1. /\ i.group \in DOMAIN os /\ os[i.group].group = i.group
          /\ group_filled(os, i.group) + i.quantity <= os[i.group].quantity
      BY <1>7, <2>2 DEF GroupFits
    <3>2. after[i.group] = os[i.group]
      BY <1>1, <3>1
    <3> HIDE DEF os, after
    <3> QED BY <1>3, <1>4, <1>5, <3>1, <3>2 DEF LegFits
  <2> QED BY <2>1, <2>2
<1> HIDE DEF k
<1> QED BY <1>1, <1>3, <1>6, <1>7 DEF Grouped

LEMMA PlacedCovered ==
  ASSUME NEW s, Sound(s), Exits(s), NEW i \in OrderIntent, i.group <= Len(s.orders) + 1,
         NEW t, Sound(t), Placed(s, t, i), reserve_refusals(s.ledger, i) = {}
  PROVE  Tied(t) /\ Covered(t.ledger)
<1> DEFINE k == Len(s.orders) + 1
           r == s.ledger.reservations
           q == t.ledger.reservations
           h == IF i.group = 0 THEN k ELSE i.group
<1>1. /\ t.ledger = reserve(s.ledger, k, i) /\ k \in Nat /\ k \notin DOMAIN s.orders
      /\ t.orders[k] = accept(i) /\ Len(t.orders) = k /\ \A n \in DOMAIN s.orders : t.orders[n] = s.orders[n]
  BY DEF Placed
<1>2. k \notin DOMAIN r /\ LedgerGood(s.ledger) /\ LedgerGood(t.ledger) /\ Len(s.orders) \in Nat
  BY <1>1, OrdersAre DEF Sound
<1>3. /\ t.ledger.lots = s.ledger.lots /\ DOMAIN q = DOMAIN r \union {k}
      /\ \A d \in DOMAIN r : q[d] = r[d]
      /\ q[k].side = i.side /\ q[k].instrument = i.instrument /\ q[k].group = h
      /\ i.side = "SELL" => q[k].quantity = i.quantity
  <2>1. i.side = "SELL" \/ reserve_refusals(s.ledger, i) = {}
    OBVIOUS
  <2> QED BY <1>1, <1>2, <2>1, ReserveGood
<1>4. /\ t.orders[k].side = i.side /\ t.orders[k].instrument = i.instrument /\ t.orders[k].group = i.group
      /\ i.group \in Nat /\ i.quantity \in Nat /\ i.side \in OrderSide
  BY <1>1, AcceptTyped DEF OrderIntent
<1> HIDE DEF k
<1>5. Tied(t)
  <2>1. \A n \in DOMAIN r : RowIs(q[n], t.orders[n], n)
    BY <1>1, <1>3 DEF Exits, Tied, Sound
  <2>2. RowIs(q[k], t.orders[k], k)
    BY <1>3, <1>4 DEF RowIs
  <2> QED BY <1>3, <2>1, <2>2 DEF Tied
<1>6. \A id \in DOMAIN q : q[id].group \in 1 .. k
  BY <1>1, <1>5, GroupsAre
<1>7. \A id \in DOMAIN r : r[id].group \in 1 .. k - 1 /\ r[id].group \in 1 .. k
  BY <1>2, GroupsAre DEF Exits, k
<1> HIDE DEF h
<1>8. ASSUME NEW x \in Instruments
      PROVE  reserved_sell_quantity(t.ledger, x) <= position_quantity(t.ledger, x)
  <2> DEFINE before == Claimed(r, x, k)
             now_ == Claimed(q, x, k)
             held_ == Position(s.ledger.lots, x)
             best == Best(r, x, h)
  <2>1. /\ reserved_sell_quantity(s.ledger, x) = before /\ position_quantity(s.ledger, x) = held_
        /\ before \in Nat /\ held_ \in Nat
    BY <1>1, <1>2, <1>7, CoveredIs
  <2>2. /\ reserved_sell_quantity(t.ledger, x) = now_ /\ position_quantity(t.ledger, x) = held_
    BY <1>1, <1>2, <1>3, <1>6, CoveredIs
  <2>3. before <= held_
    BY <2>1 DEF Exits, Covered
  <2>4. IF i.side = "SELL" /\ i.instrument = x
        THEN now_ = before + (IF i.quantity > best THEN i.quantity - best ELSE 0)
        ELSE now_ = before
    <3>1. IsTable(r) /\ IsTable(q) /\ k \in DOMAIN q /\ q[k].group \in 1 .. k
      BY <1>2, <1>3, <1>6 DEF LedgerGood
    <3> HIDE DEF r, q
    <3> QED BY <1>1, <1>2, <1>3, <3>1, ClaimedReserved
  <2>5. best \in Nat /\ (i.group = 0 => best = 0)
    <3>1. IsTable(r)
      BY <1>2 DEF LedgerGood
    <3>2. i.group = 0 => InGroup(r, x, h) = {}
      BY <1>1, <1>7 DEF InGroup, h
    <3> HIDE DEF r
    <3> QED BY <3>1, <3>2, BestIs
  <2>6. ASSUME i.side = "SELL", i.instrument = x
        PROVE  ~(before + Max({0, i.quantity - best}) > held_)
    <3>1. when(reserved_sell_quantity(s.ledger, x)
                 + Max({0, i.quantity - (IF i.group = 0 THEN 0
                                         ELSE largest(s.ledger, in_group(s.ledger, x, i.group)))})
                 > position_quantity(s.ledger, x), "insufficient position") = {}
      BY <2>6 DEF reserve_refusals, sell_refusals
    <3>2. (IF i.group = 0 THEN 0 ELSE largest(s.ledger, in_group(s.ledger, x, i.group))) = best
      <4>1. largest(s.ledger, in_group(s.ledger, x, i.group)) = Best(r, x, i.group)
        BY LargestIs
      <4> HIDE DEF r
      <4> QED BY <2>5, <4>1 DEF h
    <3> QED BY <2>1, <3>1, <3>2 DEF when
  <2> HIDE DEF before, now_, held_, best
  <2>7. Max({0, i.quantity - best}) = IF i.quantity > best THEN i.quantity - best ELSE 0
    <3> DEFINE d == i.quantity - best
    <3>1. d \in Int /\ i.quantity \in Nat /\ best \in Nat
      BY <1>4, <2>5
    <3>2. Max({0, d}) = IF 0 >= d THEN 0 ELSE d
      <4> HIDE DEF d
      <4> QED BY <3>1, TwoMax
    <3> QED BY <3>1, <3>2
  <2> QED BY <1>4, <2>1, <2>2, <2>3, <2>4, <2>5, <2>6, <2>7
<1> QED BY <1>5, <1>8 DEF Covered

\* No other order of its group is open.
Alone(s, n) ==
    \A m \in DOMAIN s.orders \ {n} :
       s.orders[m].group = s.orders[n].group /\ s.orders[n].group # 0
         => s.orders[m].state \notin Open /\ m \notin DOMAIN s.ledger.reservations

LEMMA AloneInGroup ==
  ASSUME NEW s, Sound(s), Exits(s), NEW n \in DOMAIN s.ledger.reservations, Alone(s, n),
         s.ledger.reservations[n].side = "SELL"
  PROVE  InGroup(s.ledger.reservations, s.ledger.reservations[n].instrument,
                 s.ledger.reservations[n].group) = {n}
<1> DEFINE r == s.ledger.reservations
           os == s.orders
<1>1. /\ DOMAIN r \subseteq DOMAIN os /\ DOMAIN os = 1 .. Len(os) /\ Len(os) \in Nat
      /\ \A m \in DOMAIN os : os[m].group <= m
  BY OrdersAre DEF Sound
<1>2. \A m \in DOMAIN r : r[m].group = IF os[m].group = 0 THEN m ELSE os[m].group
  BY DEF Exits, Tied, RowIs
<1>3. \A m \in DOMAIN os : os[m].group # 0 => os[os[m].group].group = os[m].group
  BY DEF Exits, Grouped, LegFits
<1>4. \A m \in DOMAIN r \ {n} : ~(os[m].group = os[n].group /\ os[n].group # 0)
  BY <1>1 DEF Alone
<1> HIDE DEF r, os
<1>5. ASSUME NEW m \in DOMAIN r, m # n, r[m].group = r[n].group PROVE FALSE
  <2>1. n \in DOMAIN r /\ n \in DOMAIN os /\ m \in DOMAIN os /\ n # 0 /\ m # 0
    <3>1. n \in DOMAIN r
      BY DEF r
    <3> QED BY <1>1, <3>1
  <2>2. CASE os[n].group = 0
    <3>1. r[n].group = n
      BY <1>2, <2>1, <2>2
    <3>2. os[m].group = n
      BY <1>2, <1>5, <3>1
    <3> QED BY <1>3, <2>1, <2>2, <3>2
  <2>3. CASE os[n].group # 0
    <3>1. r[n].group = os[n].group
      BY <1>2, <2>1, <2>3
    <3>2. os[m].group = 0 /\ m = os[n].group
      BY <1>2, <1>4, <1>5, <2>3, <3>1
    <3> QED BY <1>3, <2>1, <2>3, <3>2
  <2> QED BY <2>2, <2>3
<1>6. n \in DOMAIN r /\ r[n].side = "SELL"
  BY DEF r
<1>7. InGroup(r, r[n].instrument, r[n].group) = {n}
  BY <1>5, <1>6 DEF InGroup
<1> QED BY <1>7 DEF r

LEMMA BookedGroups ==
  ASSUME NEW s, Sound(s), Grouped(s.orders), NEW n \in DOMAIN s.orders, Alone(s, n),
         s.orders[n].state \in Open, NEW q \in Nat, q <= remaining_quantity(s.orders[n]),
         NEW p, FilledBy(s.orders[n], p, q), NEW t, Sound(t), DOMAIN t.orders = DOMAIN s.orders,
         t.orders[n] = p, \A m \in DOMAIN s.orders \ {n} : t.orders[m] = s.orders[m]
  PROVE  Grouped(t.orders)
<1> DEFINE os == s.orders
           after == t.orders
           g == os[n].group
<1>1. /\ os \in Seq(TrackedOrder) /\ after \in Seq(TrackedOrder) /\ DOMAIN os = 1 .. Len(os) /\ Len(os) \in Nat
      /\ \A m \in DOMAIN os : os[m] \in TrackedOrder /\ os[m].group <= m
  BY OrdersAre DEF Sound
<1>2. /\ p.filled = os[n].filled + q /\ p.quantity = os[n].quantity /\ p.group = g
      /\ p.state \in Open <=> remaining_quantity(p) # 0
      /\ remaining_quantity(p) = remaining_quantity(os[n]) - q
  BY DEF FilledBy
<1>3. /\ after[n] = p /\ DOMAIN after = DOMAIN os /\ n \in DOMAIN os
      /\ \A m \in DOMAIN os \ {n} : after[m] = os[m]
      /\ Grouped(os) /\ os[n].state \in Open /\ q <= remaining_quantity(os[n])
      /\ \A m \in DOMAIN os \ {n} : os[m].group = g /\ g # 0 => os[m].state \notin Open
  BY DEF Alone
<1> HIDE DEF os, after
<1>4. \A h : /\ group_filled(after, h) = group_filled(os, h) + (IF g = h THEN q ELSE 0)
            /\ group_filled(os, h) \in Nat
  <2>1. \A h : group_filled(after, h) = group_filled(os, h) + (IF os[n].group = h THEN q ELSE 0)
    <3>1. /\ after[n].group = os[n].group /\ after[n].filled = os[n].filled + q
          /\ os \in Seq(TrackedOrder) /\ after \in Seq(TrackedOrder) /\ DOMAIN after = DOMAIN os
          /\ n \in DOMAIN os /\ \A m \in DOMAIN os \ {n} : after[m] = os[m]
      BY <1>1, <1>2, <1>3
    <3> HIDE DEF g
    <3> QED BY <3>1, SoldFilled
  <2>2. \A h : group_filled(os, h) \in Nat
    BY <1>1, SoldTyped
  <2> QED BY <2>1, <2>2
<1>5. \A m \in DOMAIN os : /\ after[m].group = os[m].group /\ after[m].quantity = os[m].quantity
                           /\ os[m].group \in Nat /\ os[m].quantity \in Nat /\ os[m].filled \in Nat
  BY <1>1, <1>2, <1>3 DEF TrackedOrder
<1>6. \A m \in DOMAIN os : remaining_quantity(os[m]) \in Int
  BY <1>5 DEF remaining_quantity
<1> SUFFICES ASSUME NEW m \in DOMAIN os, os[m].group # 0 PROVE LegFits(after, m, os[m].group)
  BY <1>3, <1>5 DEF Grouped, after
<1> DEFINE h == os[m].group
<1>7. /\ os[h].group = h /\ remaining_quantity(os[m]) >= 0
      /\ group_filled(os, h) + live(os[m]) <= os[h].quantity
  BY <1>3 DEF Grouped, LegFits
<1>8. h \in DOMAIN os
  BY <1>1, <1>5
<1>9. after[h].group = h /\ after[h].quantity = os[h].quantity
  BY <1>5, <1>7, <1>8
<1>10. CASE m = n
  <2>1. h = g /\ live(os[m]) = remaining_quantity(os[n])
    BY <1>3, <1>10 DEF live
  <2>2. live(after[m]) = remaining_quantity(os[n]) - q /\ remaining_quantity(after[m]) = remaining_quantity(os[n]) - q
    BY <1>2, <1>3, <1>10 DEF live
  <2> HIDE DEF h, g
  <2>3. group_filled(after, h) + live(after[m]) <= after[h].quantity
    BY <1>4, <1>5, <1>6, <1>7, <1>8, <1>9, <1>10, <2>1, <2>2
  <2>4. remaining_quantity(after[m]) >= 0
    BY <1>3, <1>6, <2>2
  <2> QED BY <1>9, <2>3, <2>4 DEF LegFits, h
<1>11. CASE m # n /\ h = g
  <2>1. after[m] = os[m] /\ live(after[m]) = 0
    BY <1>3, <1>11 DEF live
  <2>2. group_filled(os, h) + remaining_quantity(os[n]) <= os[h].quantity
    <3>1. LegFits(os, n, g)
      BY <1>3, <1>11 DEF Grouped
    <3> QED BY <1>3, <1>11, <3>1 DEF LegFits, live
  <2> HIDE DEF h, g
  <2>3. group_filled(after, h) + live(after[m]) <= after[h].quantity
    BY <1>3, <1>4, <1>5, <1>6, <1>8, <1>9, <1>11, <2>1, <2>2
  <2> QED BY <1>7, <1>9, <2>1, <2>3 DEF LegFits, h
<1>12. CASE m # n /\ h # g
  <2>1. after[m] = os[m] /\ group_filled(after, h) = group_filled(os, h)
    BY <1>3, <1>4, <1>12
  <2> HIDE DEF h, g
  <2> QED BY <1>7, <1>9, <2>1 DEF LegFits, h
<1> QED BY <1>10, <1>11, <1>12

LEMMA BookedCovered ==
  ASSUME NEW s, Sound(s), Exits(s), NEW n \in DOMAIN s.orders, Alone(s, n),
         NEW fill, FillFor(fill, n, s.orders[n]), fill_refusals(s.ledger, fill) = {},
         s.orders[n].side = "SELL"
           => s.ledger.reservations[n].quantity = remaining_quantity(s.orders[n])
  PROVE  Covered(apply_fill(s.ledger, fill))
<1> DEFINE L == s.ledger
           M == apply_fill(L, fill)
           r == L.reservations
           N == Len(s.orders)
           q == fill.quantity
           y == fill.instrument
<1>1. /\ IsFill(fill) /\ fill.order = n /\ fill.side = s.orders[n].side
      /\ q <= remaining_quantity(s.orders[n]) /\ q \in Nat /\ fill.side \in OrderSide
  BY DEF FillFor, IsFill
<1>2. LedgerGood(L) /\ N \in Nat /\ \A id \in DOMAIN r : r[id].group \in 1 .. N
  BY OrdersAre, GroupsAre DEF Sound, Exits
<1>3. /\ n \in DOMAIN r /\ r[n].side = fill.side /\ r[n].instrument = y
      /\ fill.side = "SELL" => ~(q > position_quantity(L, y))
  BY <1>1, Unrefused
<1>4. /\ LedgerGood(M) /\ LotsAfter(L.lots, M.lots, fill)
      /\ \E w : /\ Refilled(r, M.reservations, n, w)
                /\ w.quantity = IF fill.side = "BUY" THEN r[n].quantity ELSE r[n].quantity - q
  BY <1>1, <1>2, FillGood
<1> HIDE DEF M
<1>5. PICK w : /\ Refilled(r, M.reservations, n, w)
               /\ w.quantity = IF fill.side = "BUY" THEN r[n].quantity ELSE r[n].quantity - q
  BY <1>4
<1>6. \A id \in DOMAIN M.reservations : M.reservations[id].group \in 1 .. N
  BY <1>2, <1>3, <1>5 DEF Refilled, SameRow
<1>7. fill.side = "SELL" => InGroup(r, r[n].instrument, r[n].group) = {n}
  BY <1>3, AloneInGroup
<1>8. fill.side = "SELL" => w.quantity = r[n].quantity - q /\ q <= r[n].quantity
  BY <1>1, <1>5
<1>9. IsTable(r) /\ IsTable(M.reservations) /\ L.lots \in Seq(Lot)
  BY <1>2, <1>4 DEF LedgerGood
<1> SUFFICES ASSUME NEW x \in Instruments
             PROVE  reserved_sell_quantity(M, x) <= position_quantity(M, x)
  BY DEF Covered, M
<1>10. /\ reserved_sell_quantity(L, x) = Claimed(r, x, N) /\ position_quantity(L, x) = Position(L.lots, x)
       /\ Claimed(r, x, N) \in Nat /\ Position(L.lots, x) \in Nat
  BY <1>2, CoveredIs
<1>11. reserved_sell_quantity(M, x) = Claimed(M.reservations, x, N) /\ position_quantity(M, x) = Position(M.lots, x)
  BY <1>2, <1>4, <1>6, CoveredIs
<1>12. Claimed(r, x, N) <= Position(L.lots, x)
  BY <1>10 DEF Exits, Covered
<1>13. Claimed(M.reservations, x, N) = IF fill.side = "SELL" /\ y = x
                                      THEN Claimed(r, x, N) - q ELSE Claimed(r, x, N)
  <2>1. r[n].group \in 1 .. N /\ N \in Nat /\ q \in Nat
    BY <1>1, <1>2, <1>3
  <2>2. r[n].side = "SELL" => /\ w.quantity = r[n].quantity - q /\ q <= r[n].quantity
                              /\ InGroup(r, r[n].instrument, r[n].group) = {n}
    BY <1>3, <1>7, <1>8
  <2> HIDE DEF r, q, N, L, y
  <2>3. Claimed(M.reservations, x, N) = IF r[n].side = "SELL" /\ r[n].instrument = x
                                        THEN Claimed(r, x, N) - q ELSE Claimed(r, x, N)
    BY <1>3, <1>5, <1>9, <2>1, <2>2, ClaimedFilled
  <2> QED BY <1>3, <2>3
<1>14. Position(M.lots, x) = Position(L.lots, x)
                           + (IF y = x THEN (IF fill.side = "BUY" THEN q ELSE 0 - q) ELSE 0)
  <2>1. CASE fill.side = "BUY"
    <3>1. PICK lot \in Lot : M.lots = Append(L.lots, lot) /\ lot.instrument = y /\ lot.quantity = q
      BY <1>4, <2>1 DEF LotsAfter
    <3> HIDE DEF L, y, q
    <3>2. Position(M.lots, x) = Position(L.lots, x) + (IF lot.instrument = x THEN lot.quantity ELSE 0)
      BY <1>9, <3>1, PositionMore
    <3> QED BY <2>1, <3>1, <3>2
  <2>2. CASE fill.side = "SELL"
    <3>1. M.lots = consume_fifo(L.lots, y, q).lots
      BY <1>4, <2>2 DEF LotsAfter
    <3>2. q <= Position(L.lots, y)
      <4>1. Position(L.lots, y) \in Nat /\ position_quantity(L, y) = Position(L.lots, y)
        BY <1>9, PositionTyped, PositionIs
      <4> QED BY <1>1, <1>3, <2>2, <4>1
    <3> HIDE DEF L, y, q
    <3>3. Position(consume_fifo(L.lots, y, q).lots, x) = Position(L.lots, x) - (IF x = y THEN q ELSE 0)
      BY <1>1, <1>9, <3>2, PositionSold
    <3> QED BY <1>1, <1>10, <2>2, <3>1, <3>3
  <2> QED BY <1>1, <2>1, <2>2 DEF OrderSide
<1> HIDE DEF L, N, r, q, y
<1> QED BY <1>1, <1>10, <1>11, <1>12, <1>13, <1>14 DEF OrderSide

-----------------------------------------------------------------------------
(* The replay: what every step of the engine keeps.                        *)

Good(s, E) == Sound(s) /\ (s.failure = {} => Mirrors(s, E) /\ Exits(s))

LEMMA ThenGood ==
  ASSUME NEW s, NEW t, NEW E, NEW D, Good(s, D), s.failure = {} => Good(t, E)
  PROVE  Good(then(s, t), E)
  BY DEF then, Good

\* Orders that end leave the table.
LEMMA EndGood ==
  ASSUME NEW s, NEW E, Good(s, E), NEW ids, ids \intersect E = {},
         NEW state \in OrderEnd, NEW at \in Int
  PROVE  Good(end_orders(s, ids, state, at), E)
<1> DEFINE t == end_orders(s, ids, state, at)
<1>0. Sound(s) /\ Ended(s, t, ids, state, at)
  BY EndEffect DEF Good
<1>1. /\ {"ledger", "orders", "failure"} \subseteq DOMAIN t
      /\ t.ledger = release(s.ledger, ids) /\ s.failure \subseteq t.failure
      /\ t.orders \in Seq(TrackedOrder) /\ DOMAIN t.orders = DOMAIN s.orders
      /\ \A n \in DOMAIN s.orders :
           t.orders[n] = IF n \in ids THEN finish(s.orders[n], state, at) ELSE s.orders[n]
  <2> HIDE DEF t
  <2> QED BY <1>0 DEF Ended
<1> HIDE DEF t
<1>2. /\ LedgerGood(t.ledger)
      /\ DOMAIN t.ledger.reservations = DOMAIN s.ledger.reservations \ ids
      /\ \A d \in DOMAIN t.ledger.reservations : t.ledger.reservations[d] = s.ledger.reservations[d]
  BY <1>0, <1>1, ReleaseGood DEF Sound
<1>3. \A n \in DOMAIN s.orders : s.orders[n] \in TrackedOrder
  BY <1>0, OrdersAre
<1>4. \A n \in DOMAIN s.orders :
        /\ t.orders[n].group = s.orders[n].group
        /\ n \in ids => t.orders[n].state = state
        /\ n \notin ids => t.orders[n] = s.orders[n]
  BY <1>1, <1>3, FinishTyped
<1>5. Sound(t)
  BY <1>0, <1>1, <1>2, <1>4 DEF Sound
<1>6. ASSUME t.failure = {} PROVE Mirrors(t, E) /\ Exits(t)
  <2>1. Mirrors(s, E) /\ Exits(s)
    BY <1>1, <1>6 DEF Good
  <2>2. state \notin Open
    BY DEF Open, OrderEnd
  <2>3. \A n \in DOMAIN t.orders \ E :
          n \in DOMAIN t.ledger.reservations <=> t.orders[n].state \in Open
    BY <1>1, <1>2, <1>4, <2>1, <2>2 DEF Mirrors
  <2>4. \A n \in E :
          /\ n \in DOMAIN t.ledger.reservations
          /\ t.orders[n].state \in Open <=> remaining_quantity(t.orders[n]) # 0
    BY <1>0, <1>2, <1>4, <2>1 DEF Mirrors, Sound
  <2>5. \A n \in DOMAIN t.ledger.reservations :
          t.orders[n].side = "SELL"
            => t.ledger.reservations[n].quantity = remaining_quantity(t.orders[n])
    BY <1>0, <1>2, <1>4, <2>1 DEF Mirrors, Sound
  <2>6. Exits(t)
    BY <1>0, <1>5, <2>1, EndExits
  <2> QED BY <2>3, <2>4, <2>5, <2>6 DEF Mirrors
<1> QED BY <1>5, <1>6 DEF Good, t

LEMMA PlaceGood ==
  ASSUME NEW s, NEW E, E \subseteq DOMAIN s.orders, Good(s, E), NEW i \in OrderIntent,
         i.group <= Len(s.orders) + 1, GroupFits(s.orders, i),
         i.side = "SELL" \/ reserve_refusals(s.ledger, i) = {}
  PROVE  Good(place(s, i), E)
<1> DEFINE t == place(s, i)
           k == Len(s.orders) + 1
<1>0. Sound(s) /\ Placed(s, t, i)
  BY PlaceEffect DEF Good
<1>1. /\ {"ledger", "orders", "failure"} \subseteq DOMAIN t
      /\ t.ledger = reserve(s.ledger, k, i) /\ s.failure \subseteq t.failure
      /\ t.orders \in Seq(TrackedOrder) /\ DOMAIN t.orders = DOMAIN s.orders \union {k}
      /\ k \notin DOMAIN s.orders /\ Len(t.orders) = k /\ k \in Nat
      /\ t.orders[k] = accept(i) /\ \A n \in DOMAIN s.orders : t.orders[n] = s.orders[n]
  BY <1>0 DEF Placed
<1> DEFINE r == s.ledger.reservations
           q == t.ledger.reservations
<1>2. k \notin DOMAIN r
  BY <1>0, <1>1 DEF Sound
<1>3. /\ LedgerGood(t.ledger) /\ DOMAIN q = DOMAIN r \union {k}
      /\ \A d \in DOMAIN r : q[d] = r[d]
      /\ i.side = "SELL" => q[k].quantity = i.quantity
  BY <1>0, <1>1, <1>2, ReserveGood DEF Sound
<1>4. /\ t.orders[k].state = "ACCEPTED" /\ t.orders[k].filled = 0
      /\ t.orders[k].quantity = i.quantity /\ t.orders[k].group = i.group
      /\ t.orders[k].side = i.side /\ i.quantity \in Nat
  BY <1>1, AcceptTyped DEF OrderIntent
<1> HIDE DEF t, k
<1>5. i.group <= k
  BY DEF k
<1>6. Sound(t)
  BY <1>0, <1>1, <1>3, <1>4, <1>5 DEF Sound
<1>7. ASSUME t.failure = {} PROVE Mirrors(t, E) /\ Exits(t)
  <2>1. Mirrors(s, E) /\ Exits(s)
    BY <1>1, <1>7 DEF Good
  <2>2. \A n \in DOMAIN t.orders \ E : n \in DOMAIN q <=> t.orders[n].state \in Open
    BY <1>1, <1>3, <1>4, <2>1 DEF Mirrors, Open
  <2>3. \A n \in E : n \in DOMAIN q /\ (t.orders[n].state \in Open <=> remaining_quantity(t.orders[n]) # 0)
    BY <1>1, <1>3, <2>1 DEF Mirrors
  <2>4. remaining_quantity(t.orders[k]) = i.quantity
    BY <1>4 DEF remaining_quantity
  <2>5. \A n \in DOMAIN q : t.orders[n].side = "SELL" => q[n].quantity = remaining_quantity(t.orders[n])
    BY <1>0, <1>1, <1>3, <1>4, <2>1, <2>4 DEF Mirrors, Sound
  <2>6. Exits(t)
    <3>1. reserve_refusals(s.ledger, i) = {}
      BY <1>0, <1>7 DEF Placed
    <3>2. Tied(t) /\ Covered(t.ledger)
      BY <1>0, <1>6, <2>1, <3>1, PlacedCovered
    <3>3. Grouped(t.orders)
      BY <1>0, <2>1, PlacedGroups DEF Exits
    <3> QED BY <3>2, <3>3 DEF Exits
  <2> QED BY <2>2, <2>3, <2>5, <2>6 DEF Mirrors
<1> QED BY <1>6, <1>7 DEF Good, t

LEMMA BookedGood ==
  ASSUME NEW s, NEW E, E \subseteq DOMAIN s.orders, Good(s, E), s.failure = {},
         NEW n \in DOMAIN s.orders, n \notin E, Alone(s, n),
         NEW b, IsBar(b), NEW same, match(s.orders[n], b, same)
  PROVE  Good(booked(s, n, b), E \union {n})
<1> DEFINE o == s.orders[n]
           fill == fill_of(n, o, b)
           t == booked(s, n, b)
           p == order_fill(o, fill.quantity, b.available)
<1>0. Sound(s) /\ Mirrors(s, E) /\ Exits(s)
  BY DEF Good
<1>1. Booked(s, t, n, b)
  BY <1>0, BookedEffect
<1> HIDE DEF t
<1>2. CASE t.failure # {} /\ t.ledger = s.ledger /\ t.orders = s.orders
  BY <1>0, <1>1, <1>2 DEF Good, Sound, Booked, t
<1>3. CASE /\ t.failure = s.failure /\ fill_refusals(s.ledger, fill) = {}
           /\ t.ledger = apply_fill(s.ledger, fill)
           /\ t.orders = [s.orders EXCEPT ![n] = p]
  <2>1. o \in TrackedOrder /\ s.orders \in Seq(TrackedOrder) /\ LedgerGood(s.ledger)
    BY <1>0, OrdersAre DEF Sound
  <2>2. FillFor(fill, n, o) /\ IsFill(fill) /\ fill.order = n /\ fill.side = o.side
    <3>0. match(o, b, same) /\ o \in TrackedOrder
      BY <2>1
    <3>1. FillFor(fill, n, o)
      <4> HIDE DEF o
      <4> QED BY <3>0, FillTyped
    <3> QED BY <3>1 DEF FillFor
  <2>3. fill.quantity \in Nat /\ b.available \in Int /\ o.side \in OrderSide
    BY <2>1, <2>2 DEF IsFill, IsBar, TrackedOrder
  <2> HIDE DEF fill
  <2>4. /\ FilledBy(o, p, fill.quantity)
        /\ p \in TrackedOrder /\ p.group = o.group /\ p.side = o.side
        /\ p.state \in Open <=> remaining_quantity(p) # 0
        /\ remaining_quantity(p) = remaining_quantity(o) - fill.quantity
    <3>1. FilledBy(o, p, fill.quantity)
      <4> HIDE DEF o
      <4> QED BY <2>1, <2>3, OrderFillTyped
    <3> QED BY <3>1 DEF FilledBy
  <2> HIDE DEF p
  <2> DEFINE r == s.ledger.reservations
             q == t.ledger.reservations
  <2>5. n \in DOMAIN r /\ r[n].side = fill.side
    BY <1>3, <2>2, Unrefused
  <2>6. /\ LedgerGood(t.ledger)
        /\ \E w : /\ Refilled(r, q, n, w)
                  /\ w.quantity = IF fill.side = "BUY" THEN r[n].quantity ELSE r[n].quantity - fill.quantity
    BY <1>3, <2>1, <2>2, FillGood
  <2>7. /\ DOMAIN q = DOMAIN r /\ \A d \in DOMAIN r \ {n} : q[d] = r[d]
        /\ o.side = "SELL" => q[n].quantity = r[n].quantity - fill.quantity
    BY <2>2, <2>6 DEF Refilled
  <2>8. /\ t.orders \in Seq(TrackedOrder) /\ DOMAIN t.orders = DOMAIN s.orders /\ t.orders[n] = p
        /\ \A m \in DOMAIN s.orders \ {n} : t.orders[m] = s.orders[m]
    <3> HIDE DEF o
    <3> QED BY <1>3, <2>1, <2>4
  <2>9. Sound(t)
    BY <1>0, <1>1, <2>4, <2>6, <2>7, <2>8 DEF Sound, Booked
  <2>10. \A m \in DOMAIN t.orders \ (E \union {n}) : m \in DOMAIN q <=> t.orders[m].state \in Open
    BY <1>0, <2>7, <2>8 DEF Mirrors
  <2>11. \A m \in E \union {n} :
           m \in DOMAIN q /\ (t.orders[m].state \in Open <=> remaining_quantity(t.orders[m]) # 0)
    BY <1>0, <2>4, <2>5, <2>7, <2>8 DEF Mirrors
  <2>12. \A m \in DOMAIN q : t.orders[m].side = "SELL" => q[m].quantity = remaining_quantity(t.orders[m])
    <3>1. ASSUME NEW m \in DOMAIN q, m # n, t.orders[m].side = "SELL"
          PROVE  q[m].quantity = remaining_quantity(t.orders[m])
      BY <1>0, <2>7, <2>8, <3>1 DEF Mirrors, Sound
    <3>2. o.side = "SELL" => q[n].quantity = remaining_quantity(p)
      BY <1>0, <2>4, <2>5, <2>7 DEF Mirrors
    <3> QED BY <2>4, <2>8, <3>1, <3>2
  <2>13. Mirrors(t, E \union {n})
    BY <2>10, <2>11, <2>12 DEF Mirrors
  <2>14. Grouped(t.orders)
    <3>1. o.state \in Open /\ fill.quantity <= remaining_quantity(o) /\ fill.quantity \in Nat
      BY <2>2, <2>3 DEF match, FillFor
    <3> QED BY <1>0, <2>4, <2>8, <2>9, <3>1, BookedGroups DEF Exits
  <2>15. Covered(t.ledger)
    <3>1. o.side = "SELL" => r[n].quantity = remaining_quantity(o)
      BY <1>0, <2>5 DEF Mirrors
    <3>2. Covered(apply_fill(s.ledger, fill))
      BY <1>0, <1>3, <2>2, <3>1, BookedCovered
    <3> QED BY <1>3, <3>2
  <2>16. Tied(t)
    <3>1. \A d \in DOMAIN q : q[d].side = r[d].side /\ q[d].instrument = r[d].instrument /\ q[d].group = r[d].group
      BY <2>5, <2>6 DEF Refilled, SameRow
    <3>2. \A d \in DOMAIN t.orders : /\ t.orders[d].side = s.orders[d].side
                                      /\ t.orders[d].instrument = s.orders[d].instrument
                                      /\ t.orders[d].group = s.orders[d].group
      BY <2>4, <2>8 DEF FilledBy
    <3>3. \A d \in DOMAIN q : d \in DOMAIN r /\ d \in DOMAIN t.orders /\ RowIs(r[d], s.orders[d], d)
      BY <1>0, <2>7, <2>9 DEF Exits, Tied, Sound
    <3> HIDE DEF r, q
    <3>4. \A d \in DOMAIN q : RowIs(q[d], t.orders[d], d)
      BY <3>1, <3>2, <3>3 DEF RowIs
    <3> QED BY <3>4 DEF Tied, q
  <2> QED BY <2>9, <2>13, <2>14, <2>15, <2>16 DEF Good, Exits, t
<1> QED BY <1>1, <1>2, <1>3 DEF Booked

LEMMA ReleasedGood ==
  ASSUME NEW s, NEW E, NEW n \in DOMAIN s.orders, n \notin E, Good(s, E \union {n}), s.failure = {}
  PROVE  Good(released(s, n), E)
<1>0. Sound(s) /\ Mirrors(s, E \union {n}) /\ Exits(s) /\ s.orders[n] \in TrackedOrder
  BY OrdersAre DEF Good
<1>1. CASE remaining_quantity(s.orders[n]) # 0
  <2>1. released(s, n) = s
    BY <1>1 DEF released
  <2> QED BY <1>0, <1>1, <2>1 DEF Good, Mirrors
<1>2. CASE remaining_quantity(s.orders[n]) = 0
  <2> DEFINE t == [s EXCEPT !.ledger = release(@, {n})]
             ids == {n}
  <2>1. released(s, n) = t
    BY <1>2 DEF released
  <2>2. /\ t.ledger = release(s.ledger, ids) /\ t.orders = s.orders /\ t.failure = s.failure
        /\ DOMAIN t = DOMAIN s
    BY <1>0 DEF Sound
  <2> HIDE DEF t, ids
  <2>3. /\ LedgerGood(t.ledger)
        /\ DOMAIN t.ledger.reservations = DOMAIN s.ledger.reservations \ ids
        /\ \A d \in DOMAIN t.ledger.reservations : t.ledger.reservations[d] = s.ledger.reservations[d]
    BY <1>0, <2>2, ReleaseGood DEF Sound
  <2>4. Sound(t)
    BY <1>0, <2>2, <2>3 DEF Sound
  <2>5. Mirrors(t, E)
    BY <1>0, <1>2, <2>2, <2>3 DEF Mirrors, ids
  <2>6. Exits(t)
    BY <1>0, <2>2, ReleaseExits
  <2> QED BY <2>1, <2>4, <2>5, <2>6 DEF Good
<1> QED BY <1>1, <1>2

-----------------------------------------------------------------------------
(* The replay: a fill and what follows from it.                            *)

\* What cancelling the other leg and booking the fill do.
Exited(s, t, u, n, b) ==
    /\ DOMAIN u.orders = DOMAIN s.orders /\ DOMAIN t.orders = DOMAIN s.orders
    /\ t.orders[n] = s.orders[n]
    /\ Ended(s, t, siblings(s, n), "CANCELLED", b.available)
    /\ t.failure = {} => Booked(t, u, n, b)
    /\ t.failure # {} => u = t

\* The other leg is cancelled, then the fill is booked.
LEMMA ExitGood ==
  ASSUME NEW s, NEW E, E \subseteq DOMAIN s.orders, Good(s, E),
         NEW n \in DOMAIN s.orders, n \notin E,
         \A m \in E : s.orders[m].group # s.orders[n].group,
         NEW b, IsBar(b), NEW same, match(s.orders[n], b, same)
  PROVE  LET t == cancel_oco_siblings(s, n, b.available)
             u == then(t, booked(t, n, b))
         IN  Good(u, E \union {n}) /\ Exited(s, t, u, n, b)
<1> DEFINE t == cancel_oco_siblings(s, n, b.available)
           u == then(t, booked(t, n, b))
           ids == siblings(s, n)
<1>1. t = end_orders(s, ids, "CANCELLED", b.available)
  BY DEF cancel_oco_siblings
<1>2. b.available \in Int /\ "CANCELLED" \in OrderEnd /\ Sound(s) /\ n \notin ids
  BY DEF IsBar, OrderEnd, Good, siblings
<1>0. ids \intersect E = {}
  BY DEF siblings
<1> HIDE DEF ids, t
<1>3. Good(t, E) /\ Ended(s, t, ids, "CANCELLED", b.available)
  BY <1>0, <1>1, <1>2, EndGood, EndEffect
<1>4. DOMAIN t.orders = DOMAIN s.orders /\ t.orders[n] = s.orders[n]
  BY <1>2, <1>3 DEF Ended
<1>5. CASE t.failure # {}
  <2>1. u = t
    BY <1>5 DEF then
  <2>2. Good(t, E \union {n})
    BY <1>3, <1>5 DEF Good
  <2>3. Exited(s, t, u, n, b)
    BY <1>3, <1>4, <1>5, <2>1 DEF Exited, ids
  <2> QED BY <2>1, <2>2, <2>3 DEF t
<1>6. CASE t.failure = {}
  <2>1. u = booked(t, n, b)
    BY <1>6 DEF then
  <2> HIDE DEF u
  <2>7. Alone(t, n)
    <3> SUFFICES ASSUME NEW m \in DOMAIN s.orders, m # n, t.orders[m].group = t.orders[n].group,
                        t.orders[n].group # 0
                 PROVE  t.orders[m].state \notin Open /\ m \notin DOMAIN t.ledger.reservations
      BY <1>4 DEF Alone
    <3>1. s.orders[m] \in TrackedOrder /\ s.orders[n] \in TrackedOrder
      BY <1>2, OrdersAre
    <3>2. /\ m \in ids => t.orders[m] = finish(s.orders[m], "CANCELLED", b.available)
          /\ m \notin ids => t.orders[m] = s.orders[m]
          /\ t.ledger = release(s.ledger, ids) /\ s.failure = {}
      BY <1>3, <1>6 DEF Ended
    <3>3. s.orders[m].group = s.orders[n].group /\ s.orders[n].group # 0
      BY <1>2, <1>4, <3>1, <3>2, FinishTyped
    <3>4. m \in ids => t.orders[m].state \notin Open
      BY <1>2, <3>1, <3>2, FinishTyped DEF Open
    <3>5. m \notin ids => s.orders[m].state \notin Open
      BY <3>3 DEF ids, siblings
    <3>6. DOMAIN t.ledger.reservations = DOMAIN s.ledger.reservations \ ids
      BY <1>2, <3>2, ReleaseGood DEF Sound
    <3>7. m \notin ids => m \notin DOMAIN s.ledger.reservations
      BY <3>2, <3>3, <3>5 DEF Good, Mirrors
    <3> QED BY <3>2, <3>4, <3>5, <3>6, <3>7
  <2>2. Good(u, E \union {n})
    BY <1>3, <1>4, <1>6, <2>1, <2>7, BookedGood
  <2>3. Sound(t)
    BY <1>3 DEF Good
  <2>4. Booked(t, u, n, b)
    BY <1>4, <2>1, <2>3, BookedEffect
  <2>5. DOMAIN u.orders = DOMAIN t.orders
    BY <2>4 DEF Booked
  <2>6. Exited(s, t, u, n, b)
    BY <1>3, <1>4, <1>6, <2>4, <2>5 DEF Exited, ids
  <2> QED BY <2>2, <2>6 DEF u, t
<1> QED BY <1>5, <1>6

\* The orders to sell q of an instrument for the group g.
Sale(instrument, q, g) ==
    {i \in OrderIntent :
       i.side = "SELL" /\ i.instrument = instrument /\ i.quantity = q /\ i.group = g}

\* The protective legs of a fill are orders to sell.
LEMMA ProtectiveTyped ==
  ASSUME NEW o \in TrackedOrder, NEW kind \in OrderKind, NEW price \in Nat,
         NEW q \in Nat \ {0}, NEW at \in Int, NEW earliest \in Int, NEW g \in Nat
  PROVE  protective(o, kind, price, q, at, earliest, g) \in Sale(o.instrument, q, g)
  BY DEF protective, OrderIntent, TrackedOrder, OrderSide, Sale

\* Orders were added, and every old one is as it was.
Grown(s, t) ==
    /\ {"ledger", "orders", "failure"} \subseteq DOMAIN t
    /\ DOMAIN s.orders \subseteq DOMAIN t.orders
    /\ \A n \in DOMAIN s.orders : t.orders[n] = s.orders[n]

\* Both legs of a new group sell and have its number.
Protected(s, t, E) ==
    /\ Good(t, E) /\ Grown(s, t)
    /\ \A m \in DOMAIN t.orders \ DOMAIN s.orders :
         t.orders[m].group = Len(s.orders) + 1 /\ t.orders[m].side = "SELL"

LEMMA PlacedLeg ==
  ASSUME NEW s, NEW E, E \subseteq DOMAIN s.orders, Good(s, E), NEW i \in OrderIntent,
         i.group <= Len(s.orders) + 1, GroupFits(s.orders, i), i.side = "SELL"
  PROVE  LET t == place(s, i)
         IN  /\ Good(t, E) /\ Grown(s, t) /\ Len(t.orders) = Len(s.orders) + 1
             /\ Len(t.orders) \in DOMAIN t.orders /\ t.orders[Len(t.orders)] = accept(i)
             /\ \A m \in DOMAIN t.orders \ DOMAIN s.orders :
                  t.orders[m].group = i.group /\ t.orders[m].side = "SELL"
<1> DEFINE t == place(s, i)
           k == Len(s.orders) + 1
<1>0. Sound(s)
  BY DEF Good
<1>1. Good(t, E)
  BY PlaceGood
<1>4. Placed(s, t, i)
  BY <1>0, PlaceEffect
<1>2. /\ {"ledger", "orders", "failure"} \subseteq DOMAIN t
      /\ DOMAIN t.orders = DOMAIN s.orders \union {k} /\ Len(t.orders) = k
      /\ t.orders[k] = accept(i) /\ \A n \in DOMAIN s.orders : t.orders[n] = s.orders[n]
  BY <1>4 DEF Placed
<1>3. accept(i).group = i.group /\ accept(i).side = "SELL"
  BY AcceptTyped
<1> HIDE DEF t, k
<1> QED BY <1>1, <1>2, <1>3 DEF Grown, t, k

LEMMA CreateGood ==
  ASSUME NEW s, NEW E, E \subseteq DOMAIN s.orders, Good(s, E), NEW n \in DOMAIN s.orders,
         NEW q \in Nat \ {0}, NEW at \in Int
  PROVE  Protected(s, create_protection(s, n, q, at), E)
<1> DEFINE parent == s.orders[n]
           group == Len(s.orders) + 1
           first == protective(parent, "STOP_MARKET", parent.protective_stop, q, at, at, group)
           second == protective(parent, "LIMIT", parent.protective_target, q, at, at, group)
           t == place(s, first)
           u == place(t, second)
<1>1. parent \in TrackedOrder /\ Len(s.orders) \in Nat /\ group \in Nat
  <2>1. Sound(s)
    BY DEF Good
  <2> QED BY <2>1, OrdersAre
<1>2. parent.protective_stop \in Nat /\ parent.protective_target \in Nat
  BY <1>1 DEF TrackedOrder
<1>3. /\ first \in OrderIntent /\ first.side = "SELL" /\ first.group = group
      /\ second \in OrderIntent /\ second.side = "SELL" /\ second.group = group
      /\ first.quantity = q /\ second.quantity = q
  <2>1. first \in Sale(parent.instrument, q, group) /\ second \in Sale(parent.instrument, q, group)
    <3> HIDE DEF parent, group
    <3> QED BY <1>1, <1>2, ProtectiveTyped DEF OrderKind
  <2> HIDE DEF first, second
  <2> QED BY <2>1 DEF Sale
<1>4. create_protection(s, n, q, at)
        = IF parent.protective_target = 0 THEN t ELSE then(t, u)
  BY DEF create_protection
<1> HIDE DEF first, second, parent
<1>5. /\ Good(t, E) /\ Grown(s, t) /\ Len(t.orders) = Len(s.orders) + 1
      /\ Len(t.orders) \in DOMAIN t.orders /\ t.orders[Len(t.orders)] = accept(first)
      /\ \A m \in DOMAIN t.orders \ DOMAIN s.orders :
           t.orders[m].group = group /\ t.orders[m].side = "SELL"
  BY <1>1, <1>3, PlacedLeg DEF GroupFits
<1>6. Protected(s, t, E)
  BY <1>5 DEF Protected
<1> HIDE DEF t, group
<1>7. ASSUME t.failure = {} PROVE Protected(s, u, E)
  <2>1. E \subseteq DOMAIN t.orders /\ second.group <= Len(t.orders) + 1
    BY <1>1, <1>3, <1>5 DEF Grown, group
  <2>5. GroupFits(t.orders, second)
    <3>1. group \in DOMAIN t.orders /\ t.orders[group] = accept(first)
      BY <1>5 DEF group
    <3>2. /\ t.orders[group].group = group /\ t.orders[group].quantity = q
          /\ t.orders[group].state = "ACCEPTED" /\ t.orders[group].filled = 0
      BY <1>3, <3>1, AcceptTyped
    <3>3. LegFits(t.orders, group, group)
      BY <1>1, <1>5, <1>7, <3>1, <3>2 DEF Good, Exits, Grouped, group
    <3>4. live(t.orders[group]) = q
      BY <3>2 DEF live, remaining_quantity, Open
    <3> QED BY <1>3, <3>1, <3>2, <3>3, <3>4 DEF GroupFits, LegFits
  <2>2. /\ Good(u, E) /\ Grown(t, u)
        /\ \A m \in DOMAIN u.orders \ DOMAIN t.orders :
             u.orders[m].group = second.group /\ u.orders[m].side = "SELL"
    <3>1. Good(t, E) /\ second \in OrderIntent /\ second.side = "SELL"
      BY <1>3, <1>5
    <3> QED BY <2>1, <2>5, <3>1, PlacedLeg
  <2> HIDE DEF u
  <2>3. Grown(s, u)
    BY <1>5, <2>2 DEF Grown
  <2>4. \A m \in DOMAIN u.orders \ DOMAIN s.orders :
          u.orders[m].group = group /\ u.orders[m].side = "SELL"
    BY <1>3, <1>5, <2>2 DEF Grown
  <2> QED BY <2>2, <2>3, <2>4 DEF Protected, group
<1> HIDE DEF u
<1> QED BY <1>4, <1>6, <1>7 DEF then

\* Among the legs a bar reaches there is one of least priority.
LEMMA FirstHit ==
  ASSUME NEW s, NEW hit, hit # {}
  PROVE  \E m \in hit : \A k \in hit : priority(s.orders[m]) <= priority(s.orders[k])
<1>1. \A k \in hit : priority(s.orders[k]) \in 0 .. 2
  BY DEF priority
<1> DEFINE P == {priority(s.orders[k]) : k \in hit}
<1>2. P \subseteq 0 .. 2 /\ P # {}
  BY <1>1
<1>3. \E p \in P : \A q \in P : p <= q
  <2> HIDE DEF P
  <2>1. CASE 0 \in P
    BY <1>2, <2>1
  <2>2. CASE 0 \notin P /\ 1 \in P
    BY <1>2, <2>2
  <2>3. CASE 0 \notin P /\ 1 \notin P
    <3>1. \A q \in P : q = 2
      BY <1>2, <2>3
    <3>2. PICK p \in P : TRUE
      BY <1>2
    <3>3. \A q \in P : p <= q
      BY <3>1, <3>2
    <3> QED BY <3>2, <3>3
  <2> QED BY <2>1, <2>2, <2>3
<1> QED BY <1>3

\* The leg the bar that filled the parent reaches: the other one is cancelled, the fill
\* booked.
LEMMA SameBarExit ==
  ASSUME NEW r, NEW s, NEW n \in DOMAIN r.orders, Sound(r), Protected(r, s, {n}), s.failure = {},
         NEW b, IsBar(b)
  PROVE  LET children == ((Len(r.orders) + 1) .. (Len(r.orders) + 2)) \intersect DOMAIN s.orders
             hit == {k \in children : match(s.orders[k], b, TRUE)}
             m == CHOOSE c \in hit : \A k \in hit : priority(s.orders[c]) <= priority(s.orders[k])
             t == cancel_oco_siblings(s, m, b.available)
             u == then(t, booked(t, m, b))
         IN  hit # {} => /\ m \in DOMAIN s.orders /\ m # n /\ match(s.orders[m], b, TRUE)
                         /\ s.orders[m].side = "SELL"
                         /\ n \in DOMAIN s.orders /\ n \notin siblings(s, m)
                         /\ Good(u, {n} \union {m}) /\ Exited(s, t, u, m, b)
<1> DEFINE children == ((Len(r.orders) + 1) .. (Len(r.orders) + 2)) \intersect DOMAIN s.orders
           hit == {k \in children : match(s.orders[k], b, TRUE)}
           m == CHOOSE c \in hit : \A k \in hit : priority(s.orders[c]) <= priority(s.orders[k])
           t == cancel_oco_siblings(s, m, b.available)
           u == then(t, booked(t, m, b))
<1>9. SUFFICES ASSUME hit # {}
               PROVE  /\ m \in DOMAIN s.orders /\ m # n /\ match(s.orders[m], b, TRUE)
                      /\ s.orders[m].side = "SELL"
                      /\ n \in DOMAIN s.orders /\ n \notin siblings(s, m)
                      /\ Good(u, {n} \union {m}) /\ Exited(s, t, u, m, b)
  OBVIOUS
<1>0. Good(s, {n}) /\ Grown(r, s) /\ DOMAIN r.orders = 1 .. Len(r.orders) /\ Len(r.orders) \in Nat
      /\ \A k \in DOMAIN s.orders \ DOMAIN r.orders :
           s.orders[k].group = Len(r.orders) + 1 /\ s.orders[k].side = "SELL"
  BY OrdersAre DEF Protected
<1>1. m \in hit
  <2> HIDE DEF hit
  <2> QED BY <1>9, FirstHit
<1>2. m \in DOMAIN s.orders /\ m \notin DOMAIN r.orders /\ match(s.orders[m], b, TRUE)
  <2>1. \A k \in hit : k \in DOMAIN s.orders /\ k \notin DOMAIN r.orders /\ match(s.orders[k], b, TRUE)
    <3> SUFFICES ASSUME NEW k \in hit
                 PROVE  k \in DOMAIN s.orders /\ k \notin DOMAIN r.orders /\ match(s.orders[k], b, TRUE)
      OBVIOUS
    <3> DEFINE top == Len(r.orders)
    <3>1. k \in (top + 1) .. (top + 2) /\ k \in DOMAIN s.orders /\ match(s.orders[k], b, TRUE)
      OBVIOUS
    <3>2. top \in Nat /\ DOMAIN r.orders = 1 .. top
      BY <1>0
    <3>3. k \notin 1 .. top
      <4> HIDE DEF top, hit
      <4> QED BY <3>1, <3>2
    <3> HIDE DEF top, hit
    <3> QED BY <3>1, <3>2, <3>3
  <2> HIDE DEF hit, m
  <2> QED BY <1>1, <2>1
<1>3. m # n /\ s.orders[m].group = Len(r.orders) + 1 /\ {n} \subseteq DOMAIN s.orders
      /\ s.orders[m].side = "SELL"
  BY <1>0, <1>2 DEF Grown
<1>4. s.orders[n].group <= n /\ s.orders[n].group \in Nat /\ n \in 1 .. Len(r.orders)
  <2>1. s.orders[n] = r.orders[n] /\ r.orders[n] \in TrackedOrder
    BY <1>0, OrdersAre DEF Grown
  <2> QED BY <1>0, <2>1 DEF Sound, TrackedOrder
<1> HIDE DEF m, hit
<1>5. \A k \in {n} : s.orders[k].group # s.orders[m].group
  BY <1>0, <1>3, <1>4
<1>6. Good(u, {n} \union {m}) /\ Exited(s, t, u, m, b)
  BY <1>0, <1>2, <1>3, <1>5, ExitGood
<1>7. n \in DOMAIN s.orders /\ n \notin siblings(s, m)
  BY <1>3, <1>5 DEF siblings
<1> QED BY <1>2, <1>3, <1>6, <1>7

LEMMA SameBarGood ==
  ASSUME NEW r, NEW s, NEW n \in DOMAIN r.orders, Sound(r), Protected(r, s, {n}), s.failure = {},
         NEW b, IsBar(b)
  PROVE  Good(match_same_bar_protection(
                 s, ((Len(r.orders) + 1) .. (Len(r.orders) + 2)) \intersect DOMAIN s.orders, b), {n})
<1> DEFINE children == ((Len(r.orders) + 1) .. (Len(r.orders) + 2)) \intersect DOMAIN s.orders
           hit == {k \in children : match(s.orders[k], b, TRUE)}
           m == CHOOSE c \in hit : \A k \in hit : priority(s.orders[c]) <= priority(s.orders[k])
           t == cancel_oco_siblings(s, m, b.available)
           u == then(t, booked(t, m, b))
<1>1. match_same_bar_protection(s, children, b) = IF hit = {} THEN s ELSE then(u, released(u, m))
  BY DEF match_same_bar_protection
<1>2. CASE hit = {}
  BY <1>1, <1>2 DEF Protected
<1>3. CASE hit # {}
  <2>1. /\ m \in DOMAIN s.orders /\ m # n /\ match(s.orders[m], b, TRUE)
        /\ s.orders[m].side = "SELL"
        /\ n \in DOMAIN s.orders /\ n \notin siblings(s, m)
        /\ Good(u, {n} \union {m}) /\ Exited(s, t, u, m, b)
    BY <1>3, SameBarExit
  <2> HIDE DEF u, t, m, hit
  <2>2. m \in DOMAIN u.orders
    BY <2>1 DEF Exited
  <2>3. u.failure = {} => Good(released(u, m), {n})
    BY <2>1, <2>2, ReleasedGood
  <2>4. Good(then(u, released(u, m)), {n})
    BY <2>1, <2>3, ThenGood
  <2> QED BY <1>1, <1>3, <2>4
<1> QED BY <1>2, <1>3

LEMMA ReplaceGood ==
  ASSUME NEW s, NEW n \in DOMAIN s.orders, Good(s, {n}), s.failure = {},
         s.orders[n].state \in Open,
         remaining_quantity(s.orders[n]) \in Nat \ {0}, NEW at \in Int
  PROVE  Good(replace_oco_sibling(s, n, at), {n})
<1> DEFINE o == s.orders[n]
           kind == IF o.kind = "STOP_MARKET" THEN "LIMIT" ELSE "STOP_MARKET"
           prices == IF o.group = 0 THEN {} ELSE leg_price(s, o.group, kind)
           price == CHOOSE p \in prices : TRUE
           i == protective(o, kind, price, remaining_quantity(o), at, at + 1, o.group)
<1>1. Sound(s) /\ o \in TrackedOrder /\ n \in Nat /\ n <= Len(s.orders) /\ Len(s.orders) \in Nat
  <2>1. Sound(s)
    BY DEF Good
  <2> QED BY <2>1, OrdersAre
<1>2. replace_oco_sibling(s, n, at) = IF prices = {} THEN s ELSE place(s, i)
  BY DEF replace_oco_sibling
<1>3. kind \in OrderKind
  BY DEF OrderKind
<1> HIDE DEF kind
<1>4. CASE prices = {}
  BY <1>2, <1>4
<1>5. CASE prices # {}
  <2>1. \A m \in DOMAIN s.orders : s.orders[m].limit \in Nat /\ s.orders[m].stop \in Nat
    BY <1>1, OrdersAre DEF TrackedOrder
  <2>2. \A p \in prices : p \in Nat
    BY <2>1 DEF leg_price
  <2>3. price \in Nat
    <3> HIDE DEF prices
    <3> QED BY <1>5, <2>2
  <2>4. o.group \in Nat /\ o.group <= n
    BY <1>1 DEF Sound, TrackedOrder
  <2> HIDE DEF price, prices
  <2>5. i \in OrderIntent /\ i.side = "SELL" /\ i.group = o.group
        /\ i.quantity = remaining_quantity(o)
    <3> DEFINE q == remaining_quantity(o)
               later == at + 1
    <3>1. q \in Nat \ {0} /\ later \in Int /\ i = protective(o, kind, price, q, at, later, o.group)
      OBVIOUS
    <3>2. o \in TrackedOrder /\ o.group \in Nat
      BY <1>1, <2>4
    <3> HIDE DEF o, q, later, i
    <3>3. i \in Sale(o.instrument, q, o.group)
      BY <1>3, <2>3, <3>1, <3>2, ProtectiveTyped
    <3> QED BY <3>3 DEF q, Sale
  <2>6. i.group <= Len(s.orders) + 1
    BY <1>1, <2>4, <2>5
  <2> HIDE DEF i
  <2>8. GroupFits(s.orders, i)
    <3> SUFFICES ASSUME i.group # 0 PROVE GroupFits(s.orders, i)
      BY DEF GroupFits
    <3>1. LegFits(s.orders, n, o.group) /\ live(o) = remaining_quantity(o)
      BY <2>5 DEF Good, Exits, Grouped, live
    <3>2. o.group \in DOMAIN s.orders
      <4>1. DOMAIN s.orders = 1 .. Len(s.orders) /\ o.group # 0
        BY <1>1, <2>5, OrdersAre
      <4> HIDE DEF o
      <4> QED BY <1>1, <2>4, <4>1
    <3> QED BY <2>5, <3>1, <3>2 DEF GroupFits, LegFits
  <2>7. Good(place(s, i), {n})
    BY <2>5, <2>6, <2>8, PlaceGood
  <2> QED BY <1>2, <1>5, <2>7
<1> QED BY <1>4, <1>5

\* What an exit does to its order: some shares are sold or bought, and where the order stays
\* open some are left.
LEMMA ExitedFill ==
  ASSUME NEW s, Sound(s), NEW n \in DOMAIN s.orders, NEW b, IsBar(b), match(s.orders[n], b, FALSE),
         NEW t, NEW u, Exited(s, t, u, n, b), u.failure = {}
  PROVE  LET o == u.orders[n]
         IN  /\ o.filled - s.orders[n].filled \in Nat \ {0}
             /\ o.state \in Open => remaining_quantity(o) \in Nat \ {0}
<1> DEFINE before == s.orders[n]
           o == u.orders[n]
           fill == fill_of(n, before, b)
<1>1. t.failure = {} /\ t.orders[n] = before /\ DOMAIN t.orders = DOMAIN s.orders
  BY DEF Exited
<1>2. before \in TrackedOrder /\ t.orders \in Seq(TrackedOrder)
  BY OrdersAre DEF Exited, Ended
<1>3. u.orders = [t.orders EXCEPT ![n] = order_fill(before, fill.quantity, b.available)]
  BY <1>1 DEF Exited, Booked
<1>4. o = order_fill(before, fill.quantity, b.available)
  BY <1>1, <1>3
<1>5. FillFor(fill, n, before)
  <2>1. before \in TrackedOrder /\ match(before, b, FALSE)
    BY <1>2
  <2> HIDE DEF before
  <2> QED BY <2>1, FillTyped
<1>6. fill.quantity \in Nat \ {0} /\ b.available \in Int /\ fill.quantity <= remaining_quantity(before)
  BY <1>5 DEF FillFor, IsFill, IsBar
<1> HIDE DEF fill, before
<1>7. FilledBy(before, o, fill.quantity)
  <2> HIDE DEF o
  <2> QED BY <1>2, <1>4, <1>6, OrderFillTyped
<1>8. before.filled \in Nat /\ before.quantity \in Nat
  BY <1>2 DEF TrackedOrder
<1>9. remaining_quantity(before) \in Int
  BY <1>8 DEF remaining_quantity
<1> HIDE DEF o
<1>10. /\ o.filled = before.filled + fill.quantity
       /\ remaining_quantity(o) = remaining_quantity(before) - fill.quantity
       /\ o.state \in Open => remaining_quantity(o) # 0
  BY <1>7 DEF FilledBy
<1>11. o.filled - before.filled \in Nat \ {0} /\ (o.state \in Open => remaining_quantity(o) \in Nat \ {0})
  BY <1>6, <1>8, <1>9, <1>10
<1> QED BY <1>11 DEF o, before

\* The exit of an order that a bar reaches while no other fill is worked on.
LEMMA FirstExit ==
  ASSUME NEW s, Good(s, {}), NEW n \in DOMAIN s.orders, NEW b, IsBar(b), match(s.orders[n], b, FALSE)
  PROVE  LET t == cancel_oco_siblings(s, n, b.available)
             u == then(t, booked(t, n, b))
         IN  Good(u, {n}) /\ Exited(s, t, u, n, b)
<1> DEFINE t == cancel_oco_siblings(s, n, b.available)
           u == then(t, booked(t, n, b))
           E == {}
           same == FALSE
<1>1. /\ E \subseteq DOMAIN s.orders /\ n \notin E /\ Good(s, E)
      /\ \A m \in E : s.orders[m].group # s.orders[n].group
  OBVIOUS
<1>2. E \union {n} = {n} /\ match(s.orders[n], b, same)
  OBVIOUS
<1> HIDE DEF E, same
<1>3. Good(u, E \union {n}) /\ Exited(s, t, u, n, b)
  BY <1>1, <1>2, ExitGood
<1> QED BY <1>2, <1>3

\* A fill with everything the loop over orders does about it.
LEMMA FillOrderGood ==
  ASSUME NEW s, Good(s, {}), NEW n \in DOMAIN s.orders, NEW b, IsBar(b), match(s.orders[n], b, FALSE)
  PROVE  Good(fill_order(s, n, b), {})
<1> DEFINE at == b.available
           t == cancel_oco_siblings(s, n, at)
           u == then(t, booked(t, n, b))
           o == u.orders[n]
           children == (Len(u.orders) + 1)..(Len(u.orders) + 2)
           guarded == create_protection(u, n, o.filled - s.orders[n].filled, at)
           kept == match_same_bar_protection(guarded, children \intersect DOMAIN guarded.orders, b)
           v == IF o.side = "BUY" THEN then(guarded, kept)
                ELSE IF o.state = "PARTIALLY_FILLED" THEN replace_oco_sibling(u, n, at) ELSE u
           w == then(u, v)
<1>1. fill_order(s, n, b) = then(w, released(w, n))
  BY DEF fill_order
<1>2. Good(u, {n}) /\ Exited(s, t, u, n, b)
  BY FirstExit
<1>3. at \in Int /\ Sound(u) /\ Sound(s)
  BY <1>2 DEF IsBar, Good
<1> HIDE DEF u, t, at
<1>4. n \in DOMAIN u.orders
  BY <1>2 DEF Exited
<1>5. ASSUME u.failure = {} PROVE Good(v, {n})
  <2>1. /\ o.filled - s.orders[n].filled \in Nat \ {0}
        /\ o.state \in Open => remaining_quantity(o) \in Nat \ {0}
    BY <1>2, <1>3, <1>5, ExitedFill
  <2>2. CASE o.side = "BUY"
    <3>1. Protected(u, guarded, {n})
      <4>1. {n} \subseteq DOMAIN u.orders /\ o.filled - s.orders[n].filled \in Nat \ {0}
        BY <1>4, <2>1
      <4> QED BY <1>2, <1>3, <1>4, <4>1, CreateGood
    <3> HIDE DEF guarded
    <3>2. guarded.failure = {} => Good(kept, {n})
      BY <1>3, <1>4, <3>1, SameBarGood
    <3>3. Good(guarded, {n})
      BY <3>1 DEF Protected
    <3> HIDE DEF kept
    <3>4. Good(then(guarded, kept), {n})
      BY <3>2, <3>3, ThenGood
    <3> QED BY <2>2, <3>4
  <2>3. CASE o.side # "BUY" /\ o.state = "PARTIALLY_FILLED"
    <3>1. remaining_quantity(o) \in Nat \ {0}
      BY <2>1, <2>3 DEF Open
    <3>2. Good(replace_oco_sibling(u, n, at), {n})
      BY <1>2, <1>3, <1>4, <1>5, <2>3, <3>1, ReplaceGood DEF Open
    <3> QED BY <2>3, <3>2
  <2>4. CASE o.side # "BUY" /\ o.state # "PARTIALLY_FILLED"
    BY <1>2, <2>4
  <2> QED BY <2>2, <2>3, <2>4
<1> HIDE DEF v
<1>6. Good(w, {n})
  BY <1>2, <1>5, ThenGood
<1> HIDE DEF w
<1>7. w.failure = {} => Good(released(w, n), {})
  <2> SUFFICES ASSUME w.failure = {} PROVE Good(released(w, n), {})
    OBVIOUS
  <2>1. n \in DOMAIN w.orders
    BY <1>6 DEF Good, Sound, Mirrors
  <2>2. n \notin {} /\ Good(w, {} \union {n})
    BY <1>6
  <2> QED BY <2>1, <2>2, ReleasedGood
<1>8. Good(then(w, released(w, n)), {})
  BY <1>6, <1>7, ThenGood
<1> QED BY <1>1, <1>8
-----------------------------------------------------------------------------
(* The replay: the steps of the run.                                       *)

\* Only these three fields matter.
LEMMA Packed ==
  ASSUME NEW s, NEW E, Good(s, E)
  PROVE  Good([ledger |-> s.ledger, orders |-> s.orders, failure |-> s.failure], E)
<1> DEFINE t == [ledger |-> s.ledger, orders |-> s.orders, failure |-> s.failure]
<1>1. /\ {"ledger", "orders", "failure"} \subseteq DOMAIN t
      /\ t.ledger = s.ledger /\ t.orders = s.orders /\ t.failure = s.failure
  OBVIOUS
<1> HIDE DEF t
<1>2. Sound(t)
  BY <1>1 DEF Good, Sound
<1>3. t.failure = {} => Mirrors(t, E) /\ Exits(t)
  BY <1>1 DEF Good, Mirrors, Exits, Tied
<1> QED BY <1>2, <1>3 DEF Good, t

\* A change of the ledger that leaves the reservations alone, with or without an exception.
LEMMA LedgerSwap ==
  ASSUME NEW s, NEW E, Good(s, E), NEW M, LedgerGood(M), M.reservations = s.ledger.reservations,
         NEW reasons, s.failure = {} /\ reasons = {} => Covered(M)
  PROVE  Good(fail([s EXCEPT !.ledger = M], reasons), E)
<1> DEFINE t == [s EXCEPT !.ledger = M]
           u == fail(t, reasons)
<1>1. {"ledger", "orders", "failure"} \subseteq DOMAIN s
  BY DEF Good, Sound
<1>2. t.ledger = M /\ t.orders = s.orders /\ t.failure = s.failure /\ DOMAIN t = DOMAIN s
  BY <1>1
<1> HIDE DEF t
<1>3. u.ledger = M /\ u.orders = s.orders /\ u.failure = s.failure \union reasons /\ DOMAIN u = DOMAIN s
  BY <1>1, <1>2 DEF fail
<1> HIDE DEF u
<1>4. Sound(u)
  BY <1>1, <1>3 DEF Good, Sound
<1>5. u.failure = {} => Mirrors(u, E) /\ Exits(u)
  BY <1>3 DEF Good, Mirrors, Exits, Tied
<1> QED BY <1>4, <1>5 DEF Good, u, t

\* The same shares are held and promised.
LEMMA CoveredSame ==
  ASSUME NEW L, NEW M, M.reservations = L.reservations, M.lots = L.lots, Covered(L)
  PROVE  Covered(M)
<1> SUFFICES ASSUME NEW x \in Instruments
             PROVE  reserved_sell_quantity(M, x) <= position_quantity(M, x)
  BY DEF Covered
<1>1. reserved_sell_quantity(M, x) = reserved_sell_quantity(L, x)
  BY DEF reserved_sell_quantity, on_instrument, largest, in_group
<1>2. position_quantity(M, x) = position_quantity(L, x)
  BY PositionIs
<1> QED BY <1>1, <1>2 DEF Covered

\* Only lots of x were changed.
LotsOfOne(L, M, x) ==
    /\ Len(M.lots) = Len(L.lots)
    /\ \A n \in 1 .. Len(L.lots) : /\ M.lots[n].instrument = L.lots[n].instrument
                                   /\ L.lots[n].instrument # x => M.lots[n].quantity = L.lots[n].quantity

\* The lots of an instrument on which nothing is promised may change at will.
LEMMA CoveredAction ==
  ASSUME NEW L, LedgerGood(L), NEW M, LedgerGood(M), M.reservations = L.reservations,
         NEW N \in Nat, \A id \in DOMAIN L.reservations : L.reservations[id].group \in 1 .. N,
         NEW x, ~has_reservation(L, x), Covered(L), LotsOfOne(L, M, x)
  PROVE  Covered(M)
<1> DEFINE r == L.reservations
<1> SUFFICES ASSUME NEW y \in Instruments
             PROVE  reserved_sell_quantity(M, y) <= position_quantity(M, y)
  BY DEF Covered
<1>1. /\ reserved_sell_quantity(L, y) = Claimed(r, y, N) /\ position_quantity(L, y) = Position(L.lots, y)
      /\ Claimed(r, y, N) \in Nat /\ Position(L.lots, y) \in Nat
  BY CoveredIs
<1>2. /\ reserved_sell_quantity(M, y) = Claimed(r, y, N) /\ position_quantity(M, y) = Position(M.lots, y)
      /\ Position(M.lots, y) \in Nat
  BY CoveredIs
<1>3. CASE y # x
  <2>1. Position(M.lots, y) = Position(L.lots, y)
    <3>1. L.lots \in Seq(Lot) /\ M.lots \in Seq(Lot)
      BY DEF LedgerGood
    <3>2. /\ Len(M.lots) = Len(L.lots)
          /\ \A n \in 1 .. Len(L.lots) : /\ M.lots[n].instrument = L.lots[n].instrument
                                         /\ L.lots[n].instrument = y => M.lots[n].quantity = L.lots[n].quantity
      BY <1>3 DEF LotsOfOne
    <3> QED BY <3>1, <3>2, PositionSame
  <2> QED BY <1>1, <1>2, <2>1 DEF Covered
<1>4. CASE y = x
  <2>1. IsTable(r) /\ \A g : InGroup(r, y, g) = {}
    BY <1>4 DEF LedgerGood, has_reservation, InGroup
  <2> HIDE DEF r
  <2>2. \A g : Best(r, y, g) = 0
    BY <2>1, BestIs
  <2>3. Claims(r, y, N) = [g \in 1 .. N |-> 0] /\ IsFiniteSet(1 .. N)
    BY <2>1, <2>2, ClaimsTyped DEF Claims
  <2>4. Claimed(r, y, N) = 0
    BY <2>3, ZeroSum DEF Claimed
  <2> QED BY <1>2, <2>4
<1> QED BY <1>3, <1>4

LEMMA EffectGood ==
  ASSUME NEW s, Good(s, {}), NEW a \in Actions
  PROVE  Good(effect(s, a), {})
<1> DEFINE L == s.ledger
           x == a.instrument
           reasons == when(has_reservation(L, x), "reservations left")
<1>1. a.amount \in Nat /\ (a.type = "SPLIT" => a.amount \in Nat \ {0}) /\ LedgerGood(L) /\ Sound(s)
  <2>1. a \in [instrument : Instruments, type : STRING, amount : Nat, announced : BOOLEAN]
        /\ (a.type = "SPLIT" => a.amount > 0)
    BY ReplayAssumption
  <2> QED BY <2>1 DEF Good, Sound
<1>2. reasons = {} => ~has_reservation(L, x)
  BY DEF when
<1>3. s.failure = {} => /\ Covered(L) /\ Len(s.orders) \in Nat
                        /\ \A id \in DOMAIN L.reservations : L.reservations[id].group \in 1 .. Len(s.orders)
  BY <1>1, OrdersAre, GroupsAre DEF Good, Exits
<1> HIDE DEF reasons
<1>4. CASE a.type = "SPLIT"
  <2> DEFINE M == apply_split(L, x, a.amount)
  <2>1. effect(s, a) = fail([s EXCEPT !.ledger = M], reasons)
    BY <1>4 DEF effect, reasons
  <2>2. LedgerGood(M) /\ M.reservations = L.reservations /\ LotsOfOne(L, M, x)
    BY <1>1, <1>4, SplitGood DEF LotsOfOne
  <2> HIDE DEF M
  <2>3. s.failure = {} /\ reasons = {} => Covered(M)
    <3> SUFFICES ASSUME s.failure = {}, reasons = {} PROVE Covered(M)
      OBVIOUS
    <3> DEFINE N == Len(s.orders)
    <3>1. N \in Nat /\ \A id \in DOMAIN L.reservations : L.reservations[id].group \in 1 .. N
      BY <1>3
    <3>2. LedgerGood(L) /\ ~has_reservation(L, x) /\ Covered(L)
      BY <1>1, <1>2, <1>3
    <3> HIDE DEF L, x, N
    <3> QED BY <2>2, <3>1, <3>2, CoveredAction
  <2> QED BY <2>1, <2>2, <2>3, LedgerSwap
<1>5. CASE a.type = "DELIST"
  <2> DEFINE M == apply_delisting(L, x, a.amount)
  <2>1. effect(s, a) = fail([s EXCEPT !.ledger = M], reasons)
    BY <1>5 DEF effect, reasons
  <2>2. LedgerGood(M) /\ M.reservations = L.reservations /\ LotsOfOne(L, M, x)
    BY <1>1, DelistGood DEF LotsOfOne
  <2> HIDE DEF M
  <2>3. s.failure = {} /\ reasons = {} => Covered(M)
    <3> SUFFICES ASSUME s.failure = {}, reasons = {} PROVE Covered(M)
      OBVIOUS
    <3> DEFINE N == Len(s.orders)
    <3>1. N \in Nat /\ \A id \in DOMAIN L.reservations : L.reservations[id].group \in 1 .. N
      BY <1>3
    <3>2. LedgerGood(L) /\ ~has_reservation(L, x) /\ Covered(L)
      BY <1>1, <1>2, <1>3
    <3> HIDE DEF L, x, N
    <3> QED BY <2>2, <3>1, <3>2, CoveredAction
  <2> QED BY <2>1, <2>2, <2>3, LedgerSwap
<1>6. CASE a.type = "DIVIDEND"
  <2> DEFINE M == apply_dividend(L, x, a.amount)
  <2>1. effect(s, a) = [s EXCEPT !.ledger = M]
    BY <1>6 DEF effect
  <2>2. LedgerGood(M) /\ M.reservations = L.reservations /\ M.lots = L.lots
    BY <1>1, DividendGood
  <2> HIDE DEF M
  <2>3. s.failure = {} => Covered(M)
    BY <1>3, <2>2, CoveredSame
  <2>4. Good(fail([s EXCEPT !.ledger = M], {}), {})
    BY <2>2, <2>3, LedgerSwap
  <2>5. fail([s EXCEPT !.ledger = M], {}) = [s EXCEPT !.ledger = M]
    BY <1>1 DEF fail, Sound
  <2> QED BY <2>1, <2>4, <2>5
<1>7. CASE a.type \notin {"SPLIT", "DIVIDEND", "DELIST"}
  <2>1. effect(s, a) = s
    BY <1>7 DEF effect
  <2> QED BY <2>1
<1> QED BY <1>4, <1>5, <1>6, <1>7

BarTyped ==
    bar = NoBar \/ (IsBar(bar.at) /\ DOMAIN bar = {"at", "todo"})

\* The inductive invariant: the cash covers the reservations, which are those of the open
\* orders.
ReplayInv ==
    /\ Good(now, {}) /\ BarTyped
    /\ frame \in Nat /\ used \in [bars : Nat, actions : Nat, proposals : Nat]

LEMMA Becomes ==
  ASSUME NEW s, Good(s, {}), become(s)
  PROVE  Good(now, {})'
<1>1. ledger' = s.ledger /\ orders' = s.orders /\ failure' = s.failure
  BY DEF become
<1>2. now' = [ledger |-> s.ledger, orders |-> s.orders, failure |-> s.failure]
  BY <1>1 DEF now
<1>3. Good(now', {})
  BY <1>2, Packed
<1> QED BY <1>3

LEMMA ReplayInit == Init => ReplayInv
<1> SUFFICES ASSUME Init PROVE ReplayInv
  OBVIOUS
<1>1. ledger = NewLedger /\ orders = <<>> /\ failure = {} /\ bar = NoBar /\ frame = 1
      /\ used = [bars |-> 0, actions |-> 0, proposals |-> 0]
  BY DEF Init
<1>2. ledger.cash = StartingCash /\ ledger.lots = <<>> /\ ledger.reservations = NoReservation
      /\ {"cash", "lots", "reservations"} \subseteq DOMAIN ledger
  BY <1>1 DEF NewLedger
<1>3. DOMAIN NoReservation = {} /\ IsTable(NoReservation)
  BY FS_EmptySet DEF NoReservation, IsTable
<1>4. Promised(NoReservation) = 0
  <2> DEFINE f == [id \in DOMAIN NoReservation |-> NoReservation[id].cash]
  <2>1. DOMAIN f = {}
    BY <1>3
  <2> HIDE DEF f
  <2>2. SumFunction(f) = 0
    BY <2>1, SumNothing
  <2> QED BY <2>2 DEF Promised, f
<1>5. LedgerGood(ledger)
  BY <1>2, <1>3, <1>4, LedgerAssumption DEF LedgerGood
<1>6. /\ now.ledger = ledger /\ now.orders = orders /\ {"ledger", "orders", "failure"} \subseteq DOMAIN now
  BY DEF now
<1>7. Sound(now) /\ Mirrors(now, {})
  <2>1. DOMAIN orders = {} /\ orders \in Seq(TrackedOrder)
    BY <1>1
  <2> QED BY <1>2, <1>3, <1>5, <1>6, <2>1 DEF Sound, Mirrors
<1>8. Exits(now)
  <2>1. DOMAIN orders = {} /\ DOMAIN ledger.reservations = {}
    BY <1>1, <1>2, <1>3
  <2>2. Tied(now) /\ Grouped(now.orders)
    BY <1>6, <2>1 DEF Tied, Grouped
  <2>3. ASSUME NEW x \in Instruments PROVE reserved_sell_quantity(ledger, x) <= position_quantity(ledger, x)
    <3> DEFINE f == Claims(ledger.reservations, x, 0)
    <3>1. /\ reserved_sell_quantity(ledger, x) = Claimed(ledger.reservations, x, 0)
          /\ position_quantity(ledger, x) = Position(ledger.lots, x) /\ Position(ledger.lots, x) \in Nat
      BY <1>5, <2>1, CoveredIs
    <3>2. DOMAIN f = {}
      BY DEF Claims
    <3> HIDE DEF f
    <3>3. SumFunction(f) = 0
      BY <3>2, SumNothing
    <3> QED BY <3>1, <3>3 DEF Claimed, f
  <2> QED BY <1>6, <2>2, <2>3 DEF Exits, Covered
<1> QED BY <1>1, <1>7, <1>8 DEF ReplayInv, Good, BarTyped
LEMMA DeliveredTyped ==
  ASSUME NEW b \in Bars, NEW k \in Nat, as_of \in Int
  PROVE  IsBar(delivered(b, k))
<1>1. b \in [instrument : Instruments, open : Price, low : Price, high : Price, close : Price,
             volume : Nat, halted : BOOLEAN, late : BOOLEAN]
  BY ReplayAssumption
<1> DEFINE event == IF b.late THEN as_of - Period - 1 ELSE as_of - Period + 3 * k - 2
           available == as_of - Period + 3 * k - 1
           d == delivered(b, k)
<1>2. event \in Int /\ available \in Int
  BY DEF Period
<1>3. d = joined(b, [event |-> event, available |-> available])
  BY DEF delivered
<1> HIDE DEF event, available, d
<1>4. /\ d.instrument = b.instrument /\ d.open = b.open /\ d.low = b.low /\ d.high = b.high
      /\ d.close = b.close /\ d.volume = b.volume /\ d.event = event /\ d.available = available
  BY <1>1, <1>3 DEF joined
<1> QED BY <1>1, <1>2, <1>4 DEF IsBar, Price, d

LEMMA MarkGood ==
  ASSUME NEW L, LedgerGood(L), NEW x, NEW price
  PROVE  LedgerGood(mark(L, x, price)) /\ mark(L, x, price).reservations = L.reservations
         /\ mark(L, x, price).lots = L.lots
<1> DEFINE M == mark(L, x, price)
<1>1. M.cash = L.cash /\ M.lots = L.lots /\ M.reservations = L.reservations /\ DOMAIN M = DOMAIN L
  BY DEF mark, LedgerGood
<1> HIDE DEF M
<1> QED BY <1>1 DEF LedgerGood, M

LEMMA IntentTyped ==
  ASSUME NEW p \in Proposals, as_of \in Int
  PROVE  intent_of(p) \in OrderIntent /\ intent_of(p).group = 0
<1>1. p \in [instrument : Instruments, side : {"BUY", "SELL"},
             kind : {"MARKET", "LIMIT", "STOP_MARKET", "STOP_LIMIT"}, quantity : Nat \ {0},
             planned : Price, limit : Nat, stop : Nat, protective_stop : Nat,
             protective_target : Nat, expires : Nat]
  BY ReplayAssumption
<1> DEFINE expires == IF p.expires = 0 THEN 0 ELSE as_of + p.expires
<1>2. expires \in Int
  BY <1>1
<1>3. intent_of(p) =
        [instrument |-> p.instrument, side |-> p.side, kind |-> p.kind, quantity |-> p.quantity,
         planned |-> p.planned, limit |-> p.limit, stop |-> p.stop,
         protective_stop |-> p.protective_stop, protective_target |-> p.protective_target,
         submitted |-> as_of, earliest |-> as_of + 1, expires |-> expires,
         group |-> 0, reduce_only |-> FALSE]
  BY DEF intent_of
<1> HIDE DEF expires
<1> QED BY <1>1, <1>2, <1>3 DEF OrderIntent, OrderSide, OrderKind, Price

\* Every step of the run keeps the invariant.
LEMMA ReplayStep == ReplayInv /\ [Next]_vars => ReplayInv'
<1> SUFFICES ASSUME ReplayInv, [Next]_vars PROVE ReplayInv'
  OBVIOUS
<1>1. /\ Good(now, {}) /\ BarTyped /\ frame \in Nat
      /\ used \in [bars : Nat, actions : Nat, proposals : Nat]
  BY DEF ReplayInv
<1>2. /\ now.ledger = ledger /\ now.orders = orders /\ now.failure = failure /\ Sound(now)
      /\ as_of \in Nat
  BY <1>1 DEF now, Good, as_of, Period
<1>3. /\ orders \in Seq(TrackedOrder) /\ DOMAIN orders = 1 .. Len(orders) /\ Len(orders) \in Nat
      /\ \A n \in DOMAIN orders : orders[n] \in TrackedOrder
  BY <1>2, OrdersAre DEF Sound
<1>4. ASSUME UNCHANGED <<ledger, orders, failure>> PROVE Good(now, {})'
  BY <1>1, <1>4 DEF now
<1>5. ASSUME Expire PROVE ReplayInv'
  <2>1. PICK n \in expired : become(end_orders(now, {n}, "EXPIRED", orders[n].expires))
    BY <1>5 DEF Expire
  <2>2. n \in DOMAIN orders /\ orders[n].expires \in Int /\ "EXPIRED" \in OrderEnd
    BY <1>3, <2>1 DEF expired, TrackedOrder, OrderEnd
  <2>3. Good(end_orders(now, {n}, "EXPIRED", orders[n].expires), {})
    BY <1>1, <2>2, EndGood
  <2>4. Good(now, {})'
    BY <2>1, <2>3, Becomes
  <2> QED BY <1>1, <1>5, <2>4 DEF ReplayInv, BarTyped, Expire
<1>6. ASSUME NEW a \in Actions, CorporateAction(a) PROVE ReplayInv'
  <2> DEFINE ids == open_on(now, a.instrument)
             s == end_orders(now, ids, "CANCELLED", as_of)
  <2>1. Good(s, {})
    <3>1. ids \intersect {} = {} /\ "CANCELLED" \in OrderEnd
      BY DEF OrderEnd
    <3> HIDE DEF ids
    <3> QED BY <1>1, <1>2, <3>1, EndGood
  <2>2. cancel_orders_for_action(now, a.instrument) = s
    BY DEF cancel_orders_for_action
  <2> HIDE DEF s
  <2>4. CASE ~a.announced
    <3>1. become(then(s, effect(s, a)))
      BY <1>6, <2>2, <2>4 DEF CorporateAction
    <3>2. Good(effect(s, a), {})
      BY <2>1, EffectGood
    <3>3. Good(then(s, effect(s, a)), {})
      BY <2>1, <3>2, ThenGood
    <3>4. Good(now, {})'
      BY <3>1, <3>3, Becomes
    <3>5. used' \in [bars : Nat, actions : Nat, proposals : Nat]
      BY <1>1, <1>6 DEF CorporateAction
    <3> QED BY <1>1, <1>6, <3>4, <3>5 DEF ReplayInv, BarTyped, CorporateAction
  <2>5. CASE a.announced
    <3>1. UNCHANGED <<ledger, orders, failure>>
      BY <1>6, <2>5 DEF CorporateAction
    <3>2. used' \in [bars : Nat, actions : Nat, proposals : Nat]
      BY <1>1, <1>6 DEF CorporateAction
    <3> QED BY <1>1, <1>4, <1>6, <3>1, <3>2 DEF ReplayInv, BarTyped, CorporateAction
  <2> QED BY <2>4, <2>5
<1>7. ASSUME NEW b \in Bars, BeginBar(b) PROVE ReplayInv'
  <2>1. used.bars \in Nat /\ used' \in [bars : Nat, actions : Nat, proposals : Nat]
    BY <1>1, <1>7 DEF BeginBar
  <2>2. IsBar(delivered(b, used.bars + 1))
    BY <1>2, <2>1, DeliveredTyped
  <2>3. /\ UNCHANGED <<ledger, orders, failure>> /\ frame' = frame
        /\ bar' = [at |-> delivered(b, used.bars + 1), todo |-> DOMAIN orders]
    BY <1>7 DEF BeginBar
  <2>4. BarTyped'
    <3>1. bar'.at = delivered(b, used.bars + 1) /\ DOMAIN bar' = {"at", "todo"}
      BY <2>3
    <3> QED BY <2>2, <3>1 DEF BarTyped
  <2> QED BY <1>1, <1>4, <2>1, <2>3, <2>4 DEF ReplayInv
<1>8. ASSUME NEW n \in DOMAIN orders, MatchOrder(n) PROVE ReplayInv'
  <2>1. /\ bar # NoBar /\ n \in bar.todo /\ match(orders[n], bar.at, FALSE)
        /\ bar' = [bar EXCEPT !.todo = @ \ {n}] /\ become(fill_order(now, n, bar.at))
        /\ UNCHANGED <<frame, phase, used>>
    BY <1>8 DEF MatchOrder, matching
  <2>2. IsBar(bar.at) /\ DOMAIN bar = {"at", "todo"}
    BY <1>1, <2>1 DEF BarTyped
  <2>3. Good(fill_order(now, n, bar.at), {})
    BY <1>1, <1>2, <2>1, <2>2, FillOrderGood
  <2>4. Good(now, {})'
    BY <2>1, <2>3, Becomes
  <2>5. bar'.at = bar.at /\ DOMAIN bar' = DOMAIN bar
    BY <2>1, <2>2
  <2>6. BarTyped'
    BY <2>2, <2>5 DEF BarTyped
  <2> QED BY <1>1, <2>1, <2>4, <2>6 DEF ReplayInv
<1>9. ASSUME EndBar PROVE ReplayInv'
  <2>1. /\ ledger' = mark(ledger, bar.at.instrument, bar.at.close) /\ bar' = NoBar
        /\ UNCHANGED <<orders, failure, frame, used>>
    BY <1>9 DEF EndBar
  <2> DEFINE M == mark(ledger, bar.at.instrument, bar.at.close)
             t == fail([now EXCEPT !.ledger = M], {})
  <2>2. LedgerGood(M) /\ M.reservations = now.ledger.reservations /\ M.lots = now.ledger.lots
    BY <1>2, MarkGood DEF Sound
  <2> HIDE DEF M
  <2>6. now.failure = {} => Covered(M)
    BY <1>1, <2>2, CoveredSame DEF Good, Exits
  <2>3. Good(t, {})
    BY <1>1, <2>2, <2>6, LedgerSwap
  <2>4. become(t)
    <3>1. t.ledger = M /\ t.orders = orders /\ t.failure = failure
      BY DEF now, fail
    <3> QED BY <2>1, <3>1 DEF become, M
  <2>5. Good(now, {})'
    BY <2>3, <2>4, Becomes
  <2> QED BY <1>1, <2>1, <2>5 DEF ReplayInv, BarTyped
<1>10. ASSUME StartProposals PROVE ReplayInv'
  <2>1. UNCHANGED <<ledger, orders, frame, bar, used>> /\ failure = {}
    BY <1>10 DEF StartProposals, running
  <2> DEFINE t == fail([now EXCEPT !.ledger = ledger], failure')
  <2>2. Good(t, {})
    <3>1. now.failure = {} => Covered(ledger)
      BY <1>1, <1>2 DEF Good, Exits
    <3> QED BY <1>1, <1>2, <3>1, LedgerSwap DEF Sound
  <2>3. become(t)
    <3>1. t.ledger = ledger /\ t.orders = orders /\ t.failure = failure \union failure'
      BY DEF now, fail
    <3> QED BY <2>1, <3>1 DEF become
  <2>4. Good(now, {})'
    BY <2>2, <2>3, Becomes
  <2> QED BY <1>1, <2>1, <2>4 DEF ReplayInv, BarTyped
<1>11. ASSUME NEW p \in Proposals, Propose(p) PROVE ReplayInv'
  <2>1. used' \in [bars : Nat, actions : Nat, proposals : Nat] /\ UNCHANGED <<frame, bar>>
    BY <1>1, <1>11 DEF Propose
  <2> DEFINE i == intent_of(p)
  <2>2. i \in OrderIntent /\ i.group = 0
    BY <1>2, IntentTyped
  <2>3. CASE reserve_refusals(ledger, i) = {}
    <3>1. become(place(now, i))
      BY <1>11, <2>3 DEF Propose
    <3> HIDE DEF i
    <3>2. i.group <= Len(now.orders) + 1 /\ GroupFits(now.orders, i)
      BY <1>2, <1>3, <2>2 DEF GroupFits
    <3>3. Good(place(now, i), {})
      BY <1>1, <1>2, <2>2, <2>3, <3>2, PlaceGood
    <3>4. Good(now, {})'
      BY <3>1, <3>3, Becomes
    <3> QED BY <1>1, <2>1, <3>4 DEF ReplayInv, BarTyped
  <2>4. CASE reserve_refusals(ledger, i) # {}
    <3>1. UNCHANGED <<ledger, orders, failure>>
      BY <1>11, <2>4 DEF Propose
    <3> QED BY <1>1, <1>4, <2>1, <3>1 DEF ReplayInv, BarTyped
  <2> QED BY <2>3, <2>4
<1>12. ASSUME EndFrame PROVE ReplayInv'
  <2>1. /\ UNCHANGED <<ledger, orders, failure, bar>> /\ frame' \in Nat
        /\ used' \in [bars : Nat, actions : Nat, proposals : Nat]
    BY <1>1, <1>12 DEF EndFrame
  <2> QED BY <1>1, <1>4, <2>1 DEF ReplayInv, BarTyped
<1>13. ASSUME UNCHANGED vars PROVE ReplayInv'
  BY <1>1, <1>4, <1>13 DEF ReplayInv, BarTyped, vars
<1> QED BY <1>5, <1>6, <1>7, <1>8, <1>9, <1>10, <1>11, <1>12, <1>13 DEF Next

\* Reservations of open buy orders never exceed the cash, whatever order of proposals,
\* gaps, partial fills, commissions and corporate actions a replay meets.
THEOREM CashCoversReservations == Spec => []NoOverdraft
<1>1. ReplayInv => NoOverdraft
  <2> SUFFICES ASSUME ReplayInv PROVE NoOverdraft
    OBVIOUS
  <2>1. LedgerGood(ledger)
    BY DEF ReplayInv, Good, Sound, now
  <2>2. /\ ledger.cash \in Int /\ Promised(ledger.reservations) \in Nat
        /\ Promised(ledger.reservations) <= ledger.cash
    BY <2>1, PromisedTyped DEF LedgerGood
  <2> QED BY <2>2, ReservedIs DEF NoOverdraft, available_cash
<1> QED BY <1>1, ReplayInit, ReplayStep, PTL DEF Spec

\* While the replay runs, a reservation lives exactly as long as its order is open, and one
\* of an order to sell holds what is left of it.
THEOREM ReservationsStayMirrored == Spec => []ReservationsMirrorOrders
<1>1. ReplayInv => ReservationsMirrorOrders
  <2> SUFFICES ASSUME ReplayInv, running PROVE ReservationsMirrorOrders
    BY DEF ReservationsMirrorOrders
  <2>1. /\ Sound(now) /\ Mirrors(now, {}) /\ now.ledger = ledger /\ now.orders = orders
    BY DEF ReplayInv, Good, now, running
  <2>2. DOMAIN ledger.reservations \subseteq DOMAIN orders
    BY <2>1 DEF Sound
  <2> QED BY <2>1, <2>2 DEF Mirrors, ReservationsMirrorOrders
<1> QED BY <1>1, ReplayInit, ReplayStep, PTL DEF Spec

\* "OCO cannot double exit": the shares promised to all groups are held, and the legs of a
\* group with all their replacements sell, together, no more than the entry fill they
\* protect, through partial fills, same-bar exits and corporate actions.
THEOREM OcoNeverExitsTwice == Spec => []OcoExitsOnce
<1>1. ReplayInv => OcoExitsOnce
  <2> SUFFICES ASSUME ReplayInv, running PROVE OcoExitsOnce
    BY DEF OcoExitsOnce
  <2>1. Sound(now) /\ Exits(now) /\ now.ledger = ledger /\ now.orders = orders
    BY DEF ReplayInv, Good, now, running
  <2>2. \A x \in Instruments : reserved_sell_quantity(ledger, x) <= position_quantity(ledger, x)
    BY <2>1 DEF Exits, Covered
  <2>3. ASSUME NEW n \in DOMAIN orders, orders[n].group # 0
        PROVE  group_filled(orders, orders[n].group) <= orders[orders[n].group].quantity
    <3> DEFINE g == orders[n].group
    <3>1. LegFits(orders, n, g)
      BY <2>1, <2>3 DEF Exits, Grouped
    <3>2. /\ orders \in Seq(TrackedOrder) /\ orders[n] \in TrackedOrder /\ Len(orders) \in Nat
          /\ DOMAIN orders = 1 .. Len(orders) /\ g <= n
      BY <2>1, OrdersAre DEF Sound
    <3>3. g \in Nat /\ remaining_quantity(orders[n]) \in Int
      BY <3>2 DEF TrackedOrder, remaining_quantity
    <3>4. g \in DOMAIN orders
      BY <2>3, <3>2, <3>3
    <3> HIDE DEF g
    <3>5. orders[g].quantity \in Nat /\ group_filled(orders, g) \in Nat
      <4>1. orders[g] \in TrackedOrder
        BY <3>2, <3>4
      <4>2. group_filled(orders, g) \in Nat
        BY <3>2, SoldTyped
      <4> QED BY <4>1, <4>2 DEF TrackedOrder
    <3>6. live(orders[n]) \in Nat
      BY <3>1, <3>3 DEF live, LegFits
    <3> QED BY <3>1, <3>5, <3>6 DEF LegFits, g
  <2> QED BY <2>2, <2>3 DEF OcoExitsOnce
<1> QED BY <1>1, ReplayInit, ReplayStep, PTL DEF Spec

-----------------------------------------------------------------------------
(* The replay: the books.                                                  *)

\* What the lots cost, lot by lot.
CostTerm(lots) == [n \in DOMAIN lots |-> lots[n].quantity * lots[n].unit_cost]

AtCost(lots) == SumFunction(CostTerm(lots))

\* The entries balance and, where the divisions are exact, the lots are the journal's.
Books(L, exact) ==
    /\ {"cash", "lots", "reservations", "journal", "realized"} \subseteq DOMAIN L
    /\ L.journal \in [Account -> Int] /\ L.realized \in Int
    /\ L.journal["CASH"] = L.cash
    /\ SumFunction(L.journal) = 0
    /\ L.realized = -L.journal["REALIZED_PNL"] - L.journal["COMMISSION_EXPENSE"]
    /\ exact => L.journal["POSITIONS_AT_COST"] = AtCost(L.lots)

\* The journal has six accounts.
LEMMA JournalTotal ==
  ASSUME NEW j \in [Account -> Int]
  PROVE  /\ SumFunction(j) = j["CASH"] + j["OPENING_EQUITY"] + j["POSITIONS_AT_COST"]
                               + j["REALIZED_PNL"] + j["COMMISSION_EXPENSE"] + j["DIVIDEND_INCOME"]
         /\ \A a \in Account : j[a] \in Int
<1> DEFINE A == {"CASH"}
           B == A \union {"OPENING_EQUITY"}
           C == B \union {"POSITIONS_AT_COST"}
           D == C \union {"REALIZED_PNL"}
           E == D \union {"COMMISSION_EXPENSE"}
           sum(S) == SumFunction([a \in S |-> j[a]])
<1>1. IsFiniteSet(A) /\ IsFiniteSet(B) /\ IsFiniteSet(C) /\ IsFiniteSet(D) /\ IsFiniteSet(E)
  <2>1. IsFiniteSet({}) /\ A = {} \union {"CASH"}
    BY FS_EmptySet
  <2>2. IsFiniteSet(A)
    BY <2>1, FS_AddElement
  <2>3. IsFiniteSet(B)
    BY <2>2, FS_AddElement
  <2>4. IsFiniteSet(C)
    BY <2>3, FS_AddElement
  <2>5. IsFiniteSet(D)
    BY <2>4, FS_AddElement
  <2>6. IsFiniteSet(E)
    BY <2>5, FS_AddElement
  <2> QED BY <2>2, <2>3, <2>4, <2>5, <2>6
<1>2. Account = E \union {"DIVIDEND_INCOME"}
  BY DEF Account
<1>3. ASSUME NEW S, IsFiniteSet(S), NEW x, x \notin S, S \union {x} \subseteq Account
      PROVE  sum(S \union {x}) = j[x] + sum(S) /\ sum(S) \in Int
  <2> DEFINE f == [a \in S \union {x} |-> j[a]]
             g == [a \in S |-> f[a]]
  <2>1. f \in [S \union {x} -> Int] /\ f[x] = j[x] /\ g = [a \in S |-> j[a]]
    BY <1>3
  <2> HIDE DEF f
  <2>2. OneTermMore(f, g, x)
    BY <1>3, <2>1 DEF OneTermMore
  <2> HIDE DEF g
  <2>3. SumFunction(f) = f[x] + SumFunction(g) /\ SumFunction(g) \in Int
    BY <2>2, SumStep
  <2> QED BY <2>1, <2>3 DEF f
<1> DEFINE O == {}
<1>4. sum(O) = 0 /\ A = O \union {"CASH"} /\ IsFiniteSet(O)
  <2> DEFINE f == [a \in O |-> j[a]]
  <2>1. DOMAIN f = {}
    OBVIOUS
  <2> HIDE DEF f
  <2>2. SumFunction(f) = 0
    BY <2>1, SumNothing
  <2> QED BY <2>2, FS_EmptySet DEF f
<1>5. j = [a \in Account |-> j[a]] /\ \A a \in Account : j[a] \in Int
  OBVIOUS
<1>6. /\ "CASH" \notin O /\ "OPENING_EQUITY" \notin A /\ "POSITIONS_AT_COST" \notin B
      /\ "REALIZED_PNL" \notin C /\ "COMMISSION_EXPENSE" \notin D /\ "DIVIDEND_INCOME" \notin E
  OBVIOUS
<1>7. E \subseteq Account /\ D \subseteq E /\ C \subseteq D /\ B \subseteq C /\ A \subseteq B
      /\ O \subseteq A
  BY <1>2
<1>8. /\ B = A \union {"OPENING_EQUITY"} /\ C = B \union {"POSITIONS_AT_COST"}
      /\ D = C \union {"REALIZED_PNL"} /\ E = D \union {"COMMISSION_EXPENSE"}
  OBVIOUS
<1> HIDE DEF A, B, C, D, E, O, sum
<1>9. sum(A) = j["CASH"] + 0 /\ sum(O) \in Int
  BY <1>3, <1>4, <1>6, <1>7
<1>10. sum(B) = j["OPENING_EQUITY"] + sum(A) /\ sum(A) \in Int
  BY <1>1, <1>3, <1>6, <1>7, <1>8
<1>11. sum(C) = j["POSITIONS_AT_COST"] + sum(B) /\ sum(B) \in Int
  BY <1>1, <1>3, <1>6, <1>7, <1>8
<1>12. sum(D) = j["REALIZED_PNL"] + sum(C) /\ sum(C) \in Int
  BY <1>1, <1>3, <1>6, <1>7, <1>8
<1>13. sum(E) = j["COMMISSION_EXPENSE"] + sum(D) /\ sum(D) \in Int
  BY <1>1, <1>3, <1>6, <1>7, <1>8
<1>14. sum(Account) = j["DIVIDEND_INCOME"] + sum(E) /\ sum(E) \in Int
  BY <1>1, <1>2, <1>3, <1>6
<1>15. sum(Account) = SumFunction(j)
  BY <1>5 DEF sum
<1>16. /\ j["CASH"] \in Int /\ j["OPENING_EQUITY"] \in Int /\ j["POSITIONS_AT_COST"] \in Int
       /\ j["REALIZED_PNL"] \in Int /\ j["COMMISSION_EXPENSE"] \in Int /\ j["DIVIDEND_INCOME"] \in Int
  BY DEF Account
<1> QED BY <1>5, <1>9, <1>10, <1>11, <1>12, <1>13, <1>14, <1>15, <1>16

\* A journal k that has the amounts c, p, r, m and d more in five of the accounts of j.
Posted(j, k, c, p, r, m, d) ==
    /\ k \in [Account -> Int]
    /\ k["CASH"] = j["CASH"] + c /\ k["OPENING_EQUITY"] = j["OPENING_EQUITY"]
    /\ k["POSITIONS_AT_COST"] = j["POSITIONS_AT_COST"] + p
    /\ k["REALIZED_PNL"] = j["REALIZED_PNL"] + r
    /\ k["COMMISSION_EXPENSE"] = j["COMMISSION_EXPENSE"] + m
    /\ k["DIVIDEND_INCOME"] = j["DIVIDEND_INCOME"] + d

LEMMA PostedTotals ==
  ASSUME NEW j \in [Account -> Int], NEW k, NEW c \in Int, NEW p \in Int, NEW r \in Int,
         NEW m \in Int, NEW d \in Int, Posted(j, k, c, p, r, m, d)
  PROVE  /\ SumFunction(k) = SumFunction(j) + (c + p + r + m + d)
         /\ k["CASH"] = j["CASH"] + c
         /\ k["POSITIONS_AT_COST"] = j["POSITIONS_AT_COST"] + p
         /\ -k["REALIZED_PNL"] - k["COMMISSION_EXPENSE"]
              = (-j["REALIZED_PNL"] - j["COMMISSION_EXPENSE"]) - r - m
<1> DEFINE j1 == j["CASH"]
           j2 == j["OPENING_EQUITY"]
           j3 == j["POSITIONS_AT_COST"]
           j4 == j["REALIZED_PNL"]
           j5 == j["COMMISSION_EXPENSE"]
           j6 == j["DIVIDEND_INCOME"]
<1>1. /\ j1 \in Int /\ j2 \in Int /\ j3 \in Int /\ j4 \in Int /\ j5 \in Int /\ j6 \in Int
  BY DEF Account
<1>2. SumFunction(j) = j1 + j2 + j3 + j4 + j5 + j6
  BY JournalTotal
<1>3. /\ k["CASH"] = j1 + c /\ k["OPENING_EQUITY"] = j2 /\ k["POSITIONS_AT_COST"] = j3 + p
      /\ k["REALIZED_PNL"] = j4 + r /\ k["COMMISSION_EXPENSE"] = j5 + m
      /\ k["DIVIDEND_INCOME"] = j6 + d /\ k \in [Account -> Int]
  BY DEF Posted
<1> HIDE DEF j1, j2, j3, j4, j5, j6
<1>4. SumFunction(k) = (j1 + c) + j2 + (j3 + p) + (j4 + r) + (j5 + m) + (j6 + d)
  BY <1>3, JournalTotal
<1>5. SumFunction(k) = SumFunction(j) + (c + p + r + m + d)
  BY <1>1, <1>2, <1>4
<1>6. -(j4 + r) - (j5 + m) = (-j4 - j5) - r - m
  BY <1>1
<1> QED BY <1>3, <1>5, <1>6 DEF j1, j3, j4, j5

\* The step from L to M is an entry whose amounts balance.
Entry(L, M, exact, c, p, r, m, d) ==
    /\ {"cash", "lots", "reservations", "journal", "realized"} \subseteq DOMAIN M
    /\ c \in Int /\ p \in Int /\ r \in Int /\ m \in Int /\ d \in Int
    /\ Posted(L.journal, M.journal, c, p, r, m, d) /\ c + p + r + m + d = 0
    /\ M.cash = L.cash + c /\ M.realized = L.realized - r - m
    /\ exact => AtCost(M.lots) = AtCost(L.lots) + p

LEMMA EntryBooks ==
  ASSUME NEW L, NEW exact, Books(L, exact), NEW M, NEW c, NEW p, NEW r, NEW m, NEW d,
         Entry(L, M, exact, c, p, r, m, d)
  PROVE  Books(M, exact)
<1>0. /\ {"cash", "lots", "reservations", "journal", "realized"} \subseteq DOMAIN M
      /\ c \in Int /\ p \in Int /\ r \in Int /\ m \in Int /\ d \in Int
      /\ Posted(L.journal, M.journal, c, p, r, m, d) /\ c + p + r + m + d = 0
      /\ M.cash = L.cash + c /\ M.realized = L.realized - r - m
      /\ exact => AtCost(M.lots) = AtCost(L.lots) + p
  BY DEF Entry
<1>1. /\ L.journal \in [Account -> Int] /\ L.realized \in Int
      /\ L.journal["CASH"] = L.cash /\ SumFunction(L.journal) = 0
      /\ L.realized = -L.journal["REALIZED_PNL"] - L.journal["COMMISSION_EXPENSE"]
      /\ exact => L.journal["POSITIONS_AT_COST"] = AtCost(L.lots)
  BY DEF Books
<1>2. /\ SumFunction(M.journal) = SumFunction(L.journal) + (c + p + r + m + d)
      /\ M.journal["CASH"] = L.journal["CASH"] + c
      /\ M.journal["POSITIONS_AT_COST"] = L.journal["POSITIONS_AT_COST"] + p
      /\ -M.journal["REALIZED_PNL"] - M.journal["COMMISSION_EXPENSE"]
           = (-L.journal["REALIZED_PNL"] - L.journal["COMMISSION_EXPENSE"]) - r - m
  BY <1>0, <1>1, PostedTotals
<1>3. SumFunction(M.journal) = 0 /\ M.journal["CASH"] = M.cash /\ M.realized \in Int
      /\ M.journal \in [Account -> Int]
  BY <1>0, <1>1, <1>2 DEF Posted
<1>4. M.realized = -M.journal["REALIZED_PNL"] - M.journal["COMMISSION_EXPENSE"]
  BY <1>0, <1>1, <1>2
<1>5. exact => M.journal["POSITIONS_AT_COST"] = AtCost(M.lots)
  BY <1>0, <1>1, <1>2
<1> QED BY <1>0, <1>3, <1>4, <1>5 DEF Books

\* What reserving, releasing and marking leave alone.
LEMMA SameBooks ==
  ASSUME NEW L, NEW exact, Books(L, exact), NEW M, DOMAIN M = DOMAIN L,
         M.cash = L.cash, M.journal = L.journal, M.realized = L.realized, M.lots = L.lots
  PROVE  Books(M, exact)
  BY DEF Books

LEMMA ReserveBooks ==
  ASSUME NEW L, NEW exact, Books(L, exact), NEW id, NEW i
  PROVE  Books(reserve(L, id, i), exact)
<1> DEFINE M == reserve(L, id, i)
<1>1. /\ DOMAIN M = DOMAIN L /\ M.cash = L.cash /\ M.journal = L.journal
      /\ M.realized = L.realized /\ M.lots = L.lots
  BY DEF reserve, Books
<1> HIDE DEF M
<1> QED BY <1>1, SameBooks DEF M

LEMMA ReleaseBooks ==
  ASSUME NEW L, NEW exact, Books(L, exact), NEW ids
  PROVE  Books(release(L, ids), exact)
<1> DEFINE M == release(L, ids)
<1>1. /\ DOMAIN M = DOMAIN L /\ M.cash = L.cash /\ M.journal = L.journal
      /\ M.realized = L.realized /\ M.lots = L.lots
  BY DEF release, Books
<1> HIDE DEF M
<1> QED BY <1>1, SameBooks DEF M

LEMMA MarkBooks ==
  ASSUME NEW L, NEW exact, Books(L, exact), NEW x, NEW price
  PROVE  Books(mark(L, x, price), exact)
<1> DEFINE M == mark(L, x, price)
<1>1. /\ DOMAIN M = DOMAIN L /\ M.cash = L.cash /\ M.journal = L.journal
      /\ M.realized = L.realized /\ M.lots = L.lots
  BY DEF mark, Books
<1> HIDE DEF M
<1> QED BY <1>1, SameBooks DEF M

LEMMA CostTyped ==
  ASSUME NEW lots \in Seq(Lot)
  PROVE  /\ CostTerm(lots) \in [1 .. Len(lots) -> Int] /\ IsFiniteSet(1 .. Len(lots))
         /\ AtCost(lots) \in Int /\ Len(lots) \in Nat
         /\ \A n \in 1 .. Len(lots) : /\ lots[n].quantity \in Nat /\ lots[n].unit_cost \in Int
                                      /\ CostTerm(lots)[n] = lots[n].quantity * lots[n].unit_cost
<1>1. Len(lots) \in Nat /\ DOMAIN lots = 1 .. Len(lots) /\ \A n \in 1 .. Len(lots) : lots[n] \in Lot
  OBVIOUS
<1>2. \A n \in 1 .. Len(lots) : lots[n].quantity \in Nat /\ lots[n].unit_cost \in Int
  BY <1>1 DEF Lot
<1>3. IsFiniteSet(1 .. Len(lots))
  BY <1>1, FS_Interval
<1>4. \A n \in 1 .. Len(lots) : CostTerm(lots)[n] = lots[n].quantity * lots[n].unit_cost
  BY <1>1 DEF CostTerm
<1>5. CostTerm(lots) = [n \in 1 .. Len(lots) |-> CostTerm(lots)[n]]
  BY <1>1 DEF CostTerm
<1>6. \A n \in 1 .. Len(lots) : CostTerm(lots)[n] \in Int
  BY <1>2, <1>4
<1>7. CostTerm(lots) \in [1 .. Len(lots) -> Int]
  BY <1>5, <1>6
<1> QED BY <1>1, <1>2, <1>3, <1>4, <1>7, SumInteger DEF AtCost

\* What the lots give costs what they lose.
LEMMA ConsumeCost ==
  ASSUME NEW lots \in Seq(Lot), NEW x, NEW q \in Nat
  PROVE  LET used_lots == consume_fifo(lots, x, q)
         IN  used_lots.cost \in Int /\ AtCost(used_lots.lots) = AtCost(lots) - used_lots.cost
<1> DEFINE last == Len(lots)
           f == CHOOSE it : IsSelling(it, last, lots, x, q)
           taken(n) == consumed(lots[n], x, f[n - 1])
           spent == [n \in DOMAIN lots |-> taken(n) * lots[n].unit_cost]
           after == [n \in DOMAIN lots |-> [lots[n] EXCEPT !.quantity = @ - taken(n)]]
<1>1. last \in Nat /\ DOMAIN lots = 1 .. last /\ \A n \in 1 .. last : lots[n] \in Lot
  OBVIOUS
<1>2. consume_fifo(lots, x, q).lots = after /\ consume_fifo(lots, x, q).cost = SumFunction(spent)
  BY DEF consume_fifo, IsSelling
<1>3. Selling(f, lots, x, q)
  <2>1. IsSelling(f, last, lots, x, q)
    BY <1>1, SellingExists
  <2> HIDE DEF f
  <2> QED BY <2>1, SellingTyped
<1> HIDE DEF f
<1>4. \A n \in 1 .. last : taken(n) \in Nat
  BY <1>3 DEF Selling
<1> HIDE DEF taken
<1>5. ASSUME NEW n \in 1 .. last
      PROVE  /\ after[n].quantity = lots[n].quantity - taken(n)
             /\ after[n].unit_cost = lots[n].unit_cost
             /\ spent[n] = taken(n) * lots[n].unit_cost
  <2>1. lots[n] \in Lot
    BY <1>1
  <2>2. after[n] = [lots[n] EXCEPT !.quantity = @ - taken(n)]
    BY <1>1
  <2>3. after[n].quantity = lots[n].quantity - taken(n) /\ after[n].unit_cost = lots[n].unit_cost
    BY <2>1, <2>2 DEF Lot
  <2> QED BY <1>1, <2>3
<1>6. after \in Seq(Lot) /\ Len(after) = last
  BY <1>2, ConsumeGood
<1>7. spent = [n \in 1 .. last |-> spent[n]]
  BY <1>1
<1> HIDE DEF spent, after
<1>8. \A n \in 1 .. last : lots[n].quantity \in Nat /\ lots[n].unit_cost \in Int
  BY CostTyped
<1>9. spent \in [1 .. last -> Int]
  <2>1. \A n \in 1 .. last : spent[n] \in Int
    BY <1>4, <1>5, <1>8
  <2> QED BY <1>7, <2>1
<1>10. \A n \in 1 .. last : CostTerm(lots)[n] = CostTerm(after)[n] + spent[n]
  <2> SUFFICES ASSUME NEW n \in 1 .. last PROVE CostTerm(lots)[n] = CostTerm(after)[n] + spent[n]
    OBVIOUS
  <2>1. \A a, b, c \in Int : a * c = (a - b) * c + b * c
    OBVIOUS
  <2>2. CostTerm(lots)[n] = lots[n].quantity * lots[n].unit_cost
    BY CostTyped
  <2>3. CostTerm(after)[n] = after[n].quantity * after[n].unit_cost
    BY <1>6, CostTyped
  <2> QED BY <1>4, <1>5, <1>8, <2>1, <2>2, <2>3
<1>11. /\ CostTerm(lots) \in [1 .. last -> Int] /\ CostTerm(after) \in [1 .. last -> Int]
       /\ IsFiniteSet(1 .. last) /\ AtCost(after) \in Int
  BY <1>6, CostTyped
<1>12. SumFunction(spent) \in Int
  BY <1>9, <1>11, SumInteger
<1>13. AtCost(lots) = AtCost(after) + SumFunction(spent)
  <2> DEFINE D == 1 .. last
             whole == CostTerm(lots)
             left == CostTerm(after)
  <2>1. /\ IsFiniteSet(D) /\ whole \in [D -> Int] /\ left \in [D -> Int] /\ spent \in [D -> Int]
        /\ \A n \in D : whole[n] = left[n] + spent[n]
    BY <1>9, <1>10, <1>11
  <2> HIDE DEF D, whole, left
  <2>2. SumFunction(whole) = SumFunction(left) + SumFunction(spent)
    <3>1. AddsUp(D, whole, left, spent)
      BY <2>1 DEF AddsUp
    <3> QED BY <3>1, SumOfSums
  <2> QED BY <2>2 DEF AtCost, whole, left
<1> QED BY <1>2, <1>11, <1>12, <1>13

LEMMA BuyBooks ==
  ASSUME NEW L, NEW exact, LedgerGood(L), Books(L, exact), NEW fill, IsFill(fill),
         fill.order \in DOMAIN L.reservations,
         exact => (fill.price * fill.quantity + fill.commission) % fill.quantity = 0
  PROVE  Books(buy_fill(L, fill), exact)
<1> DEFINE v == L.reservations[fill.order]
           cost == fill.price * fill.quantity + fill.commission
           share == cost \div fill.quantity
           lot == [instrument |-> fill.instrument, quantity |-> fill.quantity,
                   unit_cost |-> share, risk_per_share |-> v.risk_per_share]
           M == buy_fill(L, fill)
<1>1. /\ L.cash \in Int /\ L.lots \in Seq(Lot) /\ v \in Reservation
      /\ {"cash", "lots", "reservations", "journal", "realized"} \subseteq DOMAIN L
      /\ L.journal \in [Account -> Int] /\ L.realized \in Int
  BY DEF LedgerGood, IsTable, Books
<1>2. cost \in Int /\ fill.quantity \in Nat \ {0}
  <2>1. fill.price \in Nat /\ fill.quantity \in Nat \ {0} /\ fill.commission \in Nat
    BY DEF IsFill
  <2>2. fill.price * fill.quantity \in Nat
    BY <2>1
  <2> QED BY <2>1, <2>2
<1>3. /\ M.cash = L.cash - cost /\ M.lots = Append(L.lots, lot) /\ M.realized = L.realized
      /\ M.journal = [L.journal EXCEPT !["CASH"] = @ - cost, !["POSITIONS_AT_COST"] = @ + cost]
      /\ DOMAIN M = DOMAIN L
  BY <1>1 DEF buy_fill
<1> HIDE DEF M
<1>5. exact => fill.quantity * share = cost
  <2>1. ASSUME NEW a \in Int, NEW b \in Nat \ {0}, a % b = 0 PROVE b * (a \div b) = a
    BY <2>1
  <2> HIDE DEF cost
  <2>2. exact => cost % fill.quantity = 0
    BY DEF cost
  <2> QED BY <1>2, <2>1, <2>2
<1>6. share \in Int
  <2> HIDE DEF cost
  <2> QED BY <1>2
<1> HIDE DEF cost, share
<1>7. lot \in Lot
  BY <1>1, <1>2, <1>6 DEF IsFill, Reservation, Lot
<1>8. Posted(L.journal, M.journal, -cost, cost, 0, 0, 0)
  <2> DEFINE j == L.journal
             k == M.journal
  <2>1. j \in [Account -> Int] /\ k = [j EXCEPT !["CASH"] = @ - cost, !["POSITIONS_AT_COST"] = @ + cost]
    BY <1>1, <1>3
  <2> HIDE DEF j, k
  <2>2. j["CASH"] \in Int /\ j["REALIZED_PNL"] \in Int /\ j["COMMISSION_EXPENSE"] \in Int
        /\ j["DIVIDEND_INCOME"] \in Int /\ j["POSITIONS_AT_COST"] \in Int
    BY <2>1 DEF Account
  <2> QED BY <1>2, <2>1, <2>2 DEF Posted, j, k, Account
<1>9. exact => AtCost(M.lots) = AtCost(L.lots) + cost
  <2> SUFFICES ASSUME exact PROVE AtCost(M.lots) = AtCost(L.lots) + cost
    OBVIOUS
  <2> DEFINE last == Len(L.lots)
  <2>1. M.lots \in Seq(Lot) /\ Len(M.lots) = last + 1 /\ last \in Nat
        /\ M.lots[last + 1] = lot /\ \A n \in 1 .. last : M.lots[n] = L.lots[n]
    BY <1>1, <1>3, <1>7
  <2> HIDE DEF last
  <2>2. /\ CostTerm(L.lots) \in [1 .. last -> Int] /\ CostTerm(M.lots) \in [1 .. last + 1 -> Int]
    BY <1>1, <2>1, CostTyped DEF last
  <2>3. \A n \in 1 .. last : CostTerm(M.lots)[n] = CostTerm(L.lots)[n]
    <3>1. \A n \in 1 .. last : CostTerm(L.lots)[n] = L.lots[n].quantity * L.lots[n].unit_cost
      BY <1>1, CostTyped DEF last
    <3>2. \A n \in 1 .. last + 1 : CostTerm(M.lots)[n] = M.lots[n].quantity * M.lots[n].unit_cost
      BY <2>1, CostTyped
    <3> QED BY <2>1, <3>1, <3>2
  <2>4. CostTerm(M.lots)[last + 1] = cost
    <3>1. CostTerm(M.lots)[last + 1] = M.lots[last + 1].quantity * M.lots[last + 1].unit_cost
      <4>1. last + 1 \in 1 .. last + 1
        BY <2>1
      <4> QED BY <2>1, <4>1, CostTyped
    <3>2. lot.quantity = fill.quantity /\ lot.unit_cost = share
      OBVIOUS
    <3> QED BY <1>5, <2>1, <3>1, <3>2
  <2> QED BY <2>1, <2>2, <2>3, <2>4, SumExtended DEF AtCost
<1>10. Entry(L, M, exact, -cost, cost, 0, 0, 0)
  <2> DEFINE c == -cost
  <2>1. c \in Int /\ c + cost + 0 + 0 + 0 = 0 /\ M.cash = L.cash + c /\ M.realized = L.realized - 0 - 0
        /\ Posted(L.journal, M.journal, c, cost, 0, 0, 0) /\ 0 \in Int
        /\ {"cash", "lots", "reservations", "journal", "realized"} \subseteq DOMAIN M
    BY <1>1, <1>2, <1>3, <1>8
  <2> QED BY <1>2, <1>9, <2>1 DEF Entry
<1>11. Books(M, exact)
  BY <1>10, EntryBooks
<1> QED BY <1>11 DEF M

LEMMA SellBooks ==
  ASSUME NEW L, NEW exact, LedgerGood(L), Books(L, exact), NEW fill, IsFill(fill)
  PROVE  Books(sell_fill(L, fill), exact)
<1> DEFINE sold == consume_fifo(L.lots, fill.instrument, fill.quantity)
           basis == sold.cost
           gross == fill.price * fill.quantity
           fee == fill.commission
           M == sell_fill(L, fill)
<1>1. /\ L.cash \in Int /\ L.lots \in Seq(Lot)
      /\ {"cash", "lots", "reservations", "journal", "realized"} \subseteq DOMAIN L
      /\ L.journal \in [Account -> Int] /\ L.realized \in Int
  BY DEF LedgerGood, Books
<1>2. gross \in Int /\ fee \in Int /\ fill.quantity \in Nat
  <2>1. fill.price \in Nat /\ fill.quantity \in Nat /\ fill.commission \in Nat
    BY DEF IsFill
  <2> QED BY <2>1
<1>3. /\ M.cash = L.cash + (gross - fee) /\ M.lots = sold.lots
      /\ M.realized = L.realized + (gross - fee - basis)
      /\ M.journal = [L.journal EXCEPT !["CASH"] = @ + (gross - fee),
                                       !["COMMISSION_EXPENSE"] = @ + fee,
                                       !["POSITIONS_AT_COST"] = @ - basis,
                                       !["REALIZED_PNL"] = @ - (gross - basis)]
      /\ DOMAIN M = DOMAIN L
  BY <1>1 DEF sell_fill, realized_gain
<1>4. basis \in Int /\ AtCost(sold.lots) = AtCost(L.lots) - basis /\ AtCost(L.lots) \in Int
  BY <1>1, <1>2, ConsumeCost, CostTyped
<1> HIDE DEF M, sold, gross, fee, basis
<1> DEFINE c == gross - fee
           p == -basis
           r == -(gross - basis)
<1>5. c \in Int /\ p \in Int /\ r \in Int /\ c + p + r + fee + 0 = 0
  BY <1>2, <1>4
<1>6. Posted(L.journal, M.journal, c, p, r, fee, 0)
  <2> DEFINE j == L.journal
             k == M.journal
  <2>1. j \in [Account -> Int] /\ k = [j EXCEPT !["CASH"] = @ + (gross - fee),
                                       !["COMMISSION_EXPENSE"] = @ + fee,
                                       !["POSITIONS_AT_COST"] = @ - basis,
                                       !["REALIZED_PNL"] = @ - (gross - basis)]
    BY <1>1, <1>3
  <2> HIDE DEF j, k
  <2>2. j["CASH"] \in Int /\ j["REALIZED_PNL"] \in Int /\ j["COMMISSION_EXPENSE"] \in Int
        /\ j["DIVIDEND_INCOME"] \in Int /\ j["POSITIONS_AT_COST"] \in Int
    BY <2>1 DEF Account
  <2>3. /\ k["CASH"] = j["CASH"] + (gross - fee) /\ k["OPENING_EQUITY"] = j["OPENING_EQUITY"]
        /\ k["POSITIONS_AT_COST"] = j["POSITIONS_AT_COST"] - basis
        /\ k["REALIZED_PNL"] = j["REALIZED_PNL"] - (gross - basis)
        /\ k["COMMISSION_EXPENSE"] = j["COMMISSION_EXPENSE"] + fee
        /\ k["DIVIDEND_INCOME"] = j["DIVIDEND_INCOME"]
    BY <2>1 DEF Account
  <2>4. k = [a \in Account |-> k[a]]
    BY <2>1
  <2>5. \A a \in Account : k[a] \in Int
    <3>1. k["CASH"] \in Int /\ k["POSITIONS_AT_COST"] \in Int /\ k["REALIZED_PNL"] \in Int
          /\ k["COMMISSION_EXPENSE"] \in Int /\ k["DIVIDEND_INCOME"] \in Int
      BY <1>2, <1>4, <2>2, <2>3
    <3>2. k["OPENING_EQUITY"] \in Int
      BY <2>1, <2>3 DEF Account
    <3> HIDE DEF k
    <3> QED BY <3>1, <3>2 DEF Account
  <2>6. k \in [Account -> Int]
    BY <2>4, <2>5
  <2> QED BY <1>2, <1>4, <2>2, <2>3, <2>6 DEF Posted, j, k
<1>7. M.cash = L.cash + c /\ M.realized = L.realized - r - fee
      /\ {"cash", "lots", "reservations", "journal", "realized"} \subseteq DOMAIN M /\ 0 \in Int
  BY <1>1, <1>2, <1>3, <1>4
<1>8. AtCost(M.lots) = AtCost(L.lots) + p
  BY <1>3, <1>4
<1> HIDE DEF c, p, r
<1>9. Entry(L, M, exact, c, p, r, fee, 0)
  BY <1>2, <1>5, <1>6, <1>7, <1>8 DEF Entry
<1>10. Books(M, exact)
  BY <1>9, EntryBooks
<1> QED BY <1>10 DEF M

LEMMA FillBooks ==
  ASSUME NEW L, NEW exact, LedgerGood(L), Books(L, exact), NEW fill, IsFill(fill),
         fill_refusals(L, fill) = {},
         exact /\ fill.side = "BUY"
           => (fill.price * fill.quantity + fill.commission) % fill.quantity = 0
  PROVE  Books(apply_fill(L, fill), exact)
<1>1. fill.order \in DOMAIN L.reservations
  BY Unrefused
<1>2. CASE fill.side = "BUY"
  BY <1>1, <1>2, BuyBooks DEF apply_fill
<1>3. CASE fill.side # "BUY"
  BY <1>3, SellBooks DEF apply_fill
<1> QED BY <1>2, <1>3

\* A split leaves every lot at its cost.
LEMMA SplitBooks ==
  ASSUME NEW L, NEW exact, LedgerGood(L), Books(L, exact), NEW x, NEW ratio \in Nat \ {0},
         exact => \A n \in DOMAIN L.lots :
                    L.lots[n].instrument = x => L.lots[n].unit_cost % ratio = 0
  PROVE  Books(apply_split(L, x, ratio), exact)
<1> DEFINE M == apply_split(L, x, ratio)
           restate(lot) == IF lot.instrument # x THEN lot
                           ELSE [lot EXCEPT !.quantity = @ * ratio, !.unit_cost = @ \div ratio,
                                            !.risk_per_share = @ \div ratio]
           last == Len(L.lots)
<1>1. /\ L.cash \in Int /\ L.lots \in Seq(Lot)
      /\ {"cash", "lots", "reservations", "journal", "realized"} \subseteq DOMAIN L
      /\ L.journal \in [Account -> Int] /\ L.realized \in Int
      /\ last \in Nat /\ DOMAIN L.lots = 1 .. last /\ \A n \in 1 .. last : L.lots[n] \in Lot
  BY DEF LedgerGood, Books
<1>2. /\ M.cash = L.cash /\ M.journal = L.journal /\ M.realized = L.realized /\ DOMAIN M = DOMAIN L
      /\ M.lots = [n \in DOMAIN L.lots |-> restate(L.lots[n])]
  BY <1>1 DEF apply_split
<1>3. M.lots \in Seq(Lot) /\ Len(M.lots) = last
  BY SplitGood DEF LedgerGood
<1>4. ASSUME exact, NEW n \in 1 .. last PROVE CostTerm(M.lots)[n] = CostTerm(L.lots)[n]
  <2> DEFINE lot == L.lots[n]
  <2>1. CostTerm(M.lots)[n] = M.lots[n].quantity * M.lots[n].unit_cost
    BY <1>3, CostTyped
  <2>2. CostTerm(L.lots)[n] = lot.quantity * lot.unit_cost /\ lot \in Lot
    BY <1>1, CostTyped
  <2>3. CASE lot.instrument # x
    BY <1>1, <1>2, <2>1, <2>2, <2>3
  <2>4. CASE lot.instrument = x
    <3>1. M.lots[n] = [lot EXCEPT !.quantity = @ * ratio, !.unit_cost = @ \div ratio,
                                  !.risk_per_share = @ \div ratio]
      BY <1>1, <1>2, <2>4
    <3>2. lot.quantity \in Nat /\ lot.unit_cost \in Int /\ lot.unit_cost % ratio = 0
      BY <1>1, <1>4, <2>2, <2>4 DEF Lot
    <3>3. M.lots[n].quantity = lot.quantity * ratio /\ M.lots[n].unit_cost = lot.unit_cost \div ratio
      BY <2>2, <3>1 DEF Lot
    <3>4. ASSUME NEW q \in Int, NEW u \in Int, NEW d \in Nat \ {0}, u % d = 0
          PROVE  (q * d) * (u \div d) = q * u
      <4>1. d * (u \div d) = u /\ u \div d \in Int
        BY <3>4
      <4>2. \A e \in Int : (q * d) * e = q * (d * e)
        OBVIOUS
      <4> QED BY <4>1, <4>2
    <3> HIDE DEF lot
    <3>5. (lot.quantity * ratio) * (lot.unit_cost \div ratio) = lot.quantity * lot.unit_cost
      BY <3>2, <3>4
    <3> QED BY <2>1, <2>2, <3>3, <3>5
  <2> QED BY <2>3, <2>4
<1> HIDE DEF M
<1>5. exact => AtCost(M.lots) = AtCost(L.lots)
  <2> SUFFICES ASSUME exact PROVE AtCost(M.lots) = AtCost(L.lots)
    OBVIOUS
  <2>1. CostTerm(M.lots) \in [1 .. last -> Int] /\ CostTerm(L.lots) \in [1 .. last -> Int]
    BY <1>1, <1>3, CostTyped
  <2>2. CostTerm(M.lots) = CostTerm(L.lots)
    BY <1>4, <2>1
  <2> QED BY <2>2 DEF AtCost
<1>6. Books(M, exact)
  BY <1>1, <1>2, <1>5 DEF Books
<1> QED BY <1>6 DEF M

LEMMA DividendBooks ==
  ASSUME NEW L, NEW exact, LedgerGood(L), Books(L, exact), NEW x, NEW amount \in Nat
  PROVE  Books(apply_dividend(L, x, amount), exact)
<1> DEFINE M == apply_dividend(L, x, amount)
           paid == position_quantity(L, x) * amount
           less == -paid
<1>1. /\ L.cash \in Int /\ L.lots \in Seq(Lot)
      /\ {"cash", "lots", "reservations", "journal", "realized"} \subseteq DOMAIN L
      /\ L.journal \in [Account -> Int] /\ L.realized \in Int
  BY DEF LedgerGood, Books
<1>2. paid \in Int
  <2>1. position_quantity(L, x) \in Nat
    BY <1>1, PositionTyped, PositionIs
  <2> QED BY <2>1
<1>3. /\ M.cash = L.cash + paid /\ M.lots = L.lots /\ M.realized = L.realized
      /\ M.journal = [L.journal EXCEPT !["CASH"] = @ + paid, !["DIVIDEND_INCOME"] = @ - paid]
      /\ DOMAIN M = DOMAIN L
  BY <1>1 DEF apply_dividend
<1> HIDE DEF M, paid
<1>4. Posted(L.journal, M.journal, paid, 0, 0, 0, less)
  <2> DEFINE j == L.journal
             k == M.journal
  <2>1. j \in [Account -> Int] /\ k = [j EXCEPT !["CASH"] = @ + paid, !["DIVIDEND_INCOME"] = @ - paid]
    BY <1>1, <1>3
  <2> HIDE DEF j, k
  <2>2. j["CASH"] \in Int /\ j["REALIZED_PNL"] \in Int /\ j["COMMISSION_EXPENSE"] \in Int
        /\ j["DIVIDEND_INCOME"] \in Int /\ j["POSITIONS_AT_COST"] \in Int
    BY <2>1 DEF Account
  <2> QED BY <1>2, <2>1, <2>2 DEF Posted, j, k, Account
<1>5. less \in Int /\ paid + 0 + 0 + 0 + less = 0 /\ M.realized = L.realized - 0 - 0
      /\ AtCost(L.lots) \in Int /\ AtCost(M.lots) = AtCost(L.lots) + 0 /\ 0 \in Int
      /\ {"cash", "lots", "reservations", "journal", "realized"} \subseteq DOMAIN M
  BY <1>1, <1>2, <1>3, CostTyped
<1>6. Entry(L, M, exact, paid, 0, 0, 0, less)
  BY <1>2, <1>3, <1>4, <1>5 DEF Entry
<1>7. Books(M, exact)
  BY <1>6, EntryBooks
<1> QED BY <1>7 DEF M

\* What the lots of x cost.
BasisTerm(lots, x) ==
    [n \in DOMAIN lots |-> IF lots[n].instrument = x THEN lots[n].quantity * lots[n].unit_cost ELSE 0]

LEMMA BasisIs ==
  ASSUME NEW L, NEW x PROVE cost_basis(L, x) = SumFunction(BasisTerm(L.lots, x))
  BY DEF cost_basis, sum_lots, BasisTerm

LEMMA DelistBooks ==
  ASSUME NEW L, NEW exact, LedgerGood(L), Books(L, exact), NEW x, NEW amount \in Nat
  PROVE  Books(apply_delisting(L, x, amount), exact)
<1> DEFINE M == apply_delisting(L, x, amount)
           recovery == position_quantity(L, x) * amount
           basis == cost_basis(L, x)
           term == BasisTerm(L.lots, x)
           last == Len(L.lots)
           less == -basis
           loss == -(recovery - basis)
<1>1. /\ L.cash \in Int /\ L.lots \in Seq(Lot)
      /\ {"cash", "lots", "reservations", "journal", "realized"} \subseteq DOMAIN L
      /\ L.journal \in [Account -> Int] /\ L.realized \in Int
      /\ last \in Nat /\ DOMAIN L.lots = 1 .. last /\ \A n \in 1 .. last : L.lots[n] \in Lot
  BY DEF LedgerGood, Books
<1>2. recovery \in Int
  <2>1. position_quantity(L, x) \in Nat
    BY <1>1, PositionTyped, PositionIs
  <2> QED BY <2>1
<1>3. /\ M.cash = L.cash + recovery /\ M.realized = L.realized + recovery - basis
      /\ M.journal = [L.journal EXCEPT !["CASH"] = @ + recovery,
                                       !["POSITIONS_AT_COST"] = @ - basis,
                                       !["REALIZED_PNL"] = @ - (recovery - basis)]
      /\ M.lots = [n \in DOMAIN L.lots |-> IF L.lots[n].instrument = x
                                           THEN [L.lots[n] EXCEPT !.quantity = 0] ELSE L.lots[n]]
      /\ DOMAIN M = DOMAIN L
  BY <1>1 DEF apply_delisting
<1>4. M.lots \in Seq(Lot) /\ Len(M.lots) = last
  BY DelistGood DEF LedgerGood
<1> HIDE DEF M, recovery
<1>5. term \in [1 .. last -> Int]
  <2>1. \A n \in 1 .. last : term[n] \in Int
    BY <1>1, CostTyped DEF BasisTerm
  <2>2. term = [n \in 1 .. last |-> term[n]]
    BY <1>1 DEF BasisTerm
  <2> HIDE DEF term
  <2> QED BY <2>1, <2>2
<1>6. \A n \in 1 .. last : CostTerm(L.lots)[n] = CostTerm(M.lots)[n] + term[n]
  <2> SUFFICES ASSUME NEW n \in 1 .. last PROVE CostTerm(L.lots)[n] = CostTerm(M.lots)[n] + term[n]
    OBVIOUS
  <2>1. /\ CostTerm(L.lots)[n] = L.lots[n].quantity * L.lots[n].unit_cost
        /\ CostTerm(M.lots)[n] = M.lots[n].quantity * M.lots[n].unit_cost
        /\ L.lots[n].quantity \in Nat /\ L.lots[n].unit_cost \in Int /\ L.lots[n] \in Lot
    BY <1>1, <1>4, CostTyped
  <2>2. CASE L.lots[n].instrument = x
    <3>1. M.lots[n].quantity = 0 /\ M.lots[n].unit_cost = L.lots[n].unit_cost
      BY <1>1, <1>3, <2>1, <2>2 DEF Lot
    <3>2. term[n] = L.lots[n].quantity * L.lots[n].unit_cost
      BY <1>1, <2>2 DEF BasisTerm
    <3>3. L.lots[n].quantity * L.lots[n].unit_cost \in Int
      BY <2>1
    <3> QED BY <2>1, <3>1, <3>2, <3>3
  <2>3. CASE L.lots[n].instrument # x
    <3>1. M.lots[n] = L.lots[n]
      BY <1>1, <1>3, <2>3
    <3>2. term[n] = 0
      BY <1>1, <2>3 DEF BasisTerm
    <3> QED BY <2>1, <3>1, <3>2
  <2> QED BY <2>2, <2>3
<1> HIDE DEF term
<1>7. /\ IsFiniteSet(1 .. last) /\ AtCost(M.lots) \in Int
      /\ CostTerm(L.lots) \in [1 .. last -> Int] /\ CostTerm(M.lots) \in [1 .. last -> Int]
  BY <1>1, <1>4, CostTyped
<1>8. basis \in Int /\ AtCost(L.lots) = AtCost(M.lots) + basis
  <2>1. basis = SumFunction(term)
    BY BasisIs DEF term
  <2>2. SumFunction(term) \in Int
    BY <1>5, <1>7, SumInteger
  <2>3. AddsUp(1 .. last, CostTerm(L.lots), CostTerm(M.lots), term)
    BY <1>5, <1>6, <1>7 DEF AddsUp
  <2>4. AtCost(L.lots) = AtCost(M.lots) + SumFunction(term)
    BY <2>3, SumOfSums DEF AtCost
  <2> QED BY <2>1, <2>2, <2>4
<1> HIDE DEF basis
<1>9. Posted(L.journal, M.journal, recovery, less, loss, 0, 0)
  <2> DEFINE j == L.journal
             k == M.journal
  <2>1. j \in [Account -> Int] /\ k = [j EXCEPT !["CASH"] = @ + recovery,
                                                !["POSITIONS_AT_COST"] = @ - basis,
                                                !["REALIZED_PNL"] = @ - (recovery - basis)]
    BY <1>1, <1>3
  <2> HIDE DEF j, k
  <2>2. j["CASH"] \in Int /\ j["REALIZED_PNL"] \in Int /\ j["COMMISSION_EXPENSE"] \in Int
        /\ j["DIVIDEND_INCOME"] \in Int /\ j["POSITIONS_AT_COST"] \in Int /\ j["OPENING_EQUITY"] \in Int
    BY <2>1 DEF Account
  <2>3. /\ k["CASH"] = j["CASH"] + recovery /\ k["OPENING_EQUITY"] = j["OPENING_EQUITY"]
        /\ k["POSITIONS_AT_COST"] = j["POSITIONS_AT_COST"] - basis
        /\ k["REALIZED_PNL"] = j["REALIZED_PNL"] - (recovery - basis)
        /\ k["COMMISSION_EXPENSE"] = j["COMMISSION_EXPENSE"]
        /\ k["DIVIDEND_INCOME"] = j["DIVIDEND_INCOME"]
    BY <2>1 DEF Account
  <2>4. k = [a \in Account |-> k[a]]
    BY <2>1
  <2>5. \A a \in Account : k[a] \in Int
    <3>1. k["CASH"] \in Int /\ k["POSITIONS_AT_COST"] \in Int /\ k["REALIZED_PNL"] \in Int
          /\ k["COMMISSION_EXPENSE"] \in Int /\ k["DIVIDEND_INCOME"] \in Int
          /\ k["OPENING_EQUITY"] \in Int
      BY <1>2, <1>8, <2>2, <2>3
    <3> HIDE DEF k
    <3> QED BY <3>1 DEF Account
  <2>6. k \in [Account -> Int]
    BY <2>4, <2>5
  <2> QED BY <1>2, <1>8, <2>2, <2>3, <2>6 DEF Posted, j, k
<1>10. /\ less \in Int /\ loss \in Int /\ recovery + less + loss + 0 + 0 = 0
       /\ M.realized = L.realized - loss - 0 /\ AtCost(M.lots) = AtCost(L.lots) + less
  BY <1>1, <1>2, <1>3, <1>7, <1>8
<1>11. Entry(L, M, exact, recovery, less, loss, 0, 0)
  BY <1>1, <1>2, <1>3, <1>9, <1>10 DEF Entry
<1>12. Books(M, exact)
  BY <1>11, EntryBooks
<1> QED BY <1>12 DEF M

-----------------------------------------------------------------------------
(* The replay: the books through the calls of the engine.                  *)

\* The books of the ledger of s.
Kept(s, exact) == {"ledger", "orders", "failure"} \subseteq DOMAIN s /\ Books(s.ledger, exact)

\* The cost per share of a purchase leaves no remainder.
ExactFill(fill) ==
    fill.side = "BUY" => (fill.price * fill.quantity + fill.commission) % fill.quantity = 0

LEMMA ThenKept ==
  ASSUME NEW s, NEW exact, Kept(s, exact), NEW t, s.failure = {} => Kept(t, exact)
  PROVE  Kept(then(s, t), exact)
  BY DEF then

LEMMA FailKept ==
  ASSUME NEW s, NEW exact, Kept(s, exact), NEW M, Books(M, exact), NEW reasons
  PROVE  Kept(fail([s EXCEPT !.ledger = M], reasons), exact)
<1> DEFINE t == fail([s EXCEPT !.ledger = M], reasons)
<1>1. DOMAIN t = DOMAIN s /\ t.ledger = M
  BY DEF fail, Kept
<1> HIDE DEF t
<1> QED BY <1>1 DEF Kept, t

LEMMA EndKept ==
  ASSUME NEW s, NEW exact, Kept(s, exact), NEW ids, NEW state, NEW at
  PROVE  Kept(end_orders(s, ids, state, at), exact)
<1> DEFINE t == end_orders(s, ids, state, at)
<1>1. DOMAIN t = DOMAIN s /\ t.ledger = release(s.ledger, ids)
  BY DEF end_orders, fail, Kept
<1> HIDE DEF t
<1> QED BY <1>1, ReleaseBooks DEF Kept, t

LEMMA PlaceKept ==
  ASSUME NEW s, NEW exact, Kept(s, exact), NEW i
  PROVE  Kept(place(s, i), exact)
<1> DEFINE t == place(s, i)
           k == Len(s.orders) + 1
<1>1. DOMAIN t = DOMAIN s /\ t.ledger = reserve(s.ledger, k, i)
  BY DEF place, fail, Kept
<1> HIDE DEF t, k
<1> QED BY <1>1, ReserveBooks DEF Kept, t

LEMMA ReleasedKept ==
  ASSUME NEW s, NEW exact, Kept(s, exact), NEW n
  PROVE  Kept(released(s, n), exact)
<1> DEFINE t == [s EXCEPT !.ledger = release(@, {n})]
<1>1. DOMAIN t = DOMAIN s /\ t.ledger = release(s.ledger, {n})
  BY DEF Kept
<1>2. released(s, n) = s \/ released(s, n) = t
  BY DEF released
<1> HIDE DEF t
<1> QED BY <1>1, <1>2, ReleaseBooks DEF Kept

LEMMA CreateKept ==
  ASSUME NEW s, NEW exact, Kept(s, exact), NEW n, NEW q, NEW at
  PROVE  Kept(create_protection(s, n, q, at), exact)
<1> DEFINE parent == s.orders[n]
           group == Len(s.orders) + 1
           t == place(s, protective(parent, "STOP_MARKET", parent.protective_stop, q, at, at, group))
           u == place(t, protective(parent, "LIMIT", parent.protective_target, q, at, at, group))
<1>1. create_protection(s, n, q, at) = IF parent.protective_target = 0 THEN t ELSE then(t, u)
  BY DEF create_protection
<1>2. Kept(t, exact)
  BY PlaceKept
<1> HIDE DEF t
<1>3. Kept(u, exact)
  BY <1>2, PlaceKept
<1> HIDE DEF u
<1> QED BY <1>1, <1>2, <1>3, ThenKept

LEMMA ReplaceKept ==
  ASSUME NEW s, NEW exact, Kept(s, exact), NEW n, NEW at
  PROVE  Kept(replace_oco_sibling(s, n, at), exact)
<1> DEFINE o == s.orders[n]
           kind == IF o.kind = "STOP_MARKET" THEN "LIMIT" ELSE "STOP_MARKET"
           prices == IF o.group = 0 THEN {} ELSE leg_price(s, o.group, kind)
           i == protective(o, kind, CHOOSE p \in prices : TRUE,
                           remaining_quantity(o), at, at + 1, o.group)
<1>1. replace_oco_sibling(s, n, at) = IF prices = {} THEN s ELSE place(s, i)
  BY DEF replace_oco_sibling
<1> HIDE DEF prices, i
<1>2. Kept(place(s, i), exact)
  BY PlaceKept
<1> QED BY <1>1, <1>2

\* The other leg's reservation is released and the fill posted.
LEMMA ExitKept ==
  ASSUME NEW s, Sound(s), NEW exact, Kept(s, exact), NEW n \in DOMAIN s.orders,
         NEW b, IsBar(b), NEW same, match(s.orders[n], b, same),
         exact => ExactFill(fill_of(n, s.orders[n], b)),
         NEW t, NEW u, Exited(s, t, u, n, b)
  PROVE  Kept(u, exact)
<1> DEFINE ids == siblings(s, n)
           fill == fill_of(n, s.orders[n], b)
<1>1. /\ {"ledger", "orders", "failure"} \subseteq DOMAIN t /\ t.ledger = release(s.ledger, ids)
      /\ t.orders[n] = s.orders[n] /\ (t.failure # {} => u = t)
      /\ t.failure = {} => Booked(t, u, n, b)
  BY DEF Exited, Ended
<1>2. FillFor(fill, n, s.orders[n])
  <2> DEFINE o == s.orders[n]
  <2>1. o \in TrackedOrder /\ match(o, b, same)
    BY OrdersAre
  <2> HIDE DEF o
  <2>2. FillFor(fill_of(n, o, b), n, o)
    BY <2>1, FillTyped
  <2> QED BY <2>2 DEF o
<1> HIDE DEF ids, fill
<1>3. LedgerGood(t.ledger) /\ Books(t.ledger, exact)
  BY <1>1, ReleaseGood, ReleaseBooks DEF Sound, Kept
<1>4. CASE t.failure # {}
  BY <1>1, <1>3, <1>4 DEF Kept
<1>5. CASE t.failure = {}
  <2>1. /\ {"ledger", "orders", "failure"} \subseteq DOMAIN u
        /\ u.ledger = t.ledger \/ (/\ fill_refusals(t.ledger, fill) = {}
                                   /\ u.ledger = apply_fill(t.ledger, fill))
    BY <1>1, <1>5 DEF Booked, fill
  <2>2. CASE u.ledger = t.ledger
    BY <1>3, <2>1, <2>2 DEF Kept
  <2>3. CASE fill_refusals(t.ledger, fill) = {} /\ u.ledger = apply_fill(t.ledger, fill)
    <3> DEFINE L == t.ledger
    <3>1. LedgerGood(L) /\ Books(L, exact) /\ IsFill(fill) /\ fill_refusals(L, fill) = {}
      BY <1>2, <1>3, <2>3 DEF FillFor
    <3>2. exact /\ fill.side = "BUY"
            => (fill.price * fill.quantity + fill.commission) % fill.quantity = 0
      BY DEF ExactFill, fill
    <3> HIDE DEF L
    <3>3. Books(apply_fill(L, fill), exact)
      BY <3>1, <3>2, FillBooks
    <3> QED BY <2>1, <2>3, <3>3 DEF Kept, L
  <2> QED BY <2>1, <2>2, <2>3
<1> QED BY <1>4, <1>5

LEMMA SameBarKept ==
  ASSUME NEW r, NEW s, NEW n \in DOMAIN r.orders, Sound(r), Protected(r, s, {n}), s.failure = {},
         NEW b, IsBar(b), NEW exact, Kept(s, exact)
  PROVE  Kept(match_same_bar_protection(
                 s, ((Len(r.orders) + 1) .. (Len(r.orders) + 2)) \intersect DOMAIN s.orders, b), exact)
<1> DEFINE children == ((Len(r.orders) + 1) .. (Len(r.orders) + 2)) \intersect DOMAIN s.orders
           hit == {k \in children : match(s.orders[k], b, TRUE)}
           m == CHOOSE c \in hit : \A k \in hit : priority(s.orders[c]) <= priority(s.orders[k])
           t == cancel_oco_siblings(s, m, b.available)
           u == then(t, booked(t, m, b))
<1>1. match_same_bar_protection(s, children, b) = IF hit = {} THEN s ELSE then(u, released(u, m))
  BY DEF match_same_bar_protection
<1>2. CASE hit = {}
  BY <1>1, <1>2
<1>3. CASE hit # {}
  <2>1. /\ m \in DOMAIN s.orders /\ m # n /\ match(s.orders[m], b, TRUE)
        /\ s.orders[m].side = "SELL"
        /\ n \in DOMAIN s.orders /\ n \notin siblings(s, m)
        /\ Good(u, {n} \union {m}) /\ Exited(s, t, u, m, b)
    BY <1>3, SameBarExit
  <2> HIDE DEF u, t, m, hit
  <2>2. Sound(s)
    BY DEF Protected, Good
  <2>3. ExactFill(fill_of(m, s.orders[m], b))
    BY <2>1 DEF ExactFill, fill_of
  <2> DEFINE same == TRUE
  <2>4. match(s.orders[m], b, same)
    BY <2>1
  <2> HIDE DEF same
  <2>5. Kept(u, exact)
    BY <2>1, <2>2, <2>3, <2>4, ExitKept
  <2>6. Kept(then(u, released(u, m)), exact)
    BY <2>5, ReleasedKept, ThenKept
  <2> QED BY <1>1, <1>3, <2>6
<1> QED BY <1>2, <1>3

LEMMA FillOrderKept ==
  ASSUME NEW s, Good(s, {}), NEW n \in DOMAIN s.orders, NEW b, IsBar(b),
         match(s.orders[n], b, FALSE), NEW exact, Kept(s, exact),
         exact => ExactFill(fill_of(n, s.orders[n], b))
  PROVE  Kept(fill_order(s, n, b), exact)
<1> DEFINE at == b.available
           t == cancel_oco_siblings(s, n, at)
           u == then(t, booked(t, n, b))
           o == u.orders[n]
           children == (Len(u.orders) + 1)..(Len(u.orders) + 2)
           guarded == create_protection(u, n, o.filled - s.orders[n].filled, at)
           kept == match_same_bar_protection(guarded, children \intersect DOMAIN guarded.orders, b)
           v == IF o.side = "BUY" THEN then(guarded, kept)
                ELSE IF o.state = "PARTIALLY_FILLED" THEN replace_oco_sibling(u, n, at) ELSE u
           w == then(u, v)
<1>1. fill_order(s, n, b) = then(w, released(w, n))
  BY DEF fill_order
<1>2. Good(u, {n}) /\ Exited(s, t, u, n, b)
  BY FirstExit
<1>3. at \in Int /\ Sound(u) /\ Sound(s)
  BY <1>2 DEF IsBar, Good
<1> HIDE DEF u, t, at
<1>4. n \in DOMAIN u.orders
  BY <1>2 DEF Exited
<1>5. Kept(u, exact)
  <2> DEFINE same == FALSE
  <2>1. match(s.orders[n], b, same)
    OBVIOUS
  <2> HIDE DEF same
  <2> QED BY <1>2, <1>3, <2>1, ExitKept
<1>6. ASSUME u.failure = {} PROVE Kept(v, exact)
  <2>1. o.filled - s.orders[n].filled \in Nat \ {0}
    BY <1>2, <1>3, <1>6, ExitedFill
  <2>2. Protected(u, guarded, {n})
    <3>1. {n} \subseteq DOMAIN u.orders /\ o.filled - s.orders[n].filled \in Nat \ {0}
      BY <1>4, <2>1
    <3> QED BY <1>2, <1>3, <1>4, <3>1, CreateGood
  <2>3. Kept(guarded, exact)
    BY <1>5, CreateKept
  <2>4. Kept(replace_oco_sibling(u, n, at), exact)
    BY <1>5, ReplaceKept
  <2> HIDE DEF guarded
  <2>5. guarded.failure = {} => Kept(kept, exact)
    BY <1>3, <1>4, <2>2, <2>3, SameBarKept
  <2> HIDE DEF kept
  <2>6. Kept(then(guarded, kept), exact)
    BY <2>3, <2>5, ThenKept
  <2> QED BY <1>5, <2>4, <2>6
<1> HIDE DEF v
<1>7. Kept(w, exact)
  BY <1>5, <1>6, ThenKept
<1> HIDE DEF w
<1>8. Kept(then(w, released(w, n)), exact)
  BY <1>7, ReleasedKept, ThenKept
<1> QED BY <1>1, <1>8

LEMMA EffectKept ==
  ASSUME NEW s, Good(s, {}), NEW a \in Actions, NEW exact, Kept(s, exact),
         exact => (a.type = "SPLIT" => \A n \in DOMAIN s.ledger.lots :
                     s.ledger.lots[n].instrument = a.instrument
                       => s.ledger.lots[n].unit_cost % a.amount = 0)
  PROVE  Kept(effect(s, a), exact)
<1> DEFINE L == s.ledger
           x == a.instrument
           reasons == when(has_reservation(L, x), "reservations left")
<1>1. /\ a.amount \in Nat /\ (a.type = "SPLIT" => a.amount \in Nat \ {0}) /\ LedgerGood(L)
      /\ Books(L, exact)
  <2>1. a \in [instrument : Instruments, type : STRING, amount : Nat, announced : BOOLEAN]
        /\ (a.type = "SPLIT" => a.amount > 0)
    BY ReplayAssumption
  <2> QED BY <2>1 DEF Good, Sound, Kept
<1> HIDE DEF reasons
<1>2. CASE a.type = "SPLIT"
  <2> DEFINE M == apply_split(L, x, a.amount)
  <2>1. effect(s, a) = fail([s EXCEPT !.ledger = M], reasons)
    BY <1>2 DEF effect, reasons
  <2>2. Books(M, exact)
    <3>1. exact => \A n \in DOMAIN L.lots :
                     L.lots[n].instrument = x => L.lots[n].unit_cost % a.amount = 0
      BY <1>2
    <3> HIDE DEF L, x
    <3> QED BY <1>1, <1>2, <3>1, SplitBooks
  <2> HIDE DEF M
  <2> QED BY <2>1, <2>2, FailKept
<1>3. CASE a.type = "DELIST"
  <2> DEFINE M == apply_delisting(L, x, a.amount)
  <2>1. effect(s, a) = fail([s EXCEPT !.ledger = M], reasons)
    BY <1>3 DEF effect, reasons
  <2>2. Books(M, exact)
    BY <1>1, DelistBooks
  <2> HIDE DEF M
  <2> QED BY <2>1, <2>2, FailKept
<1>4. CASE a.type = "DIVIDEND"
  <2> DEFINE M == apply_dividend(L, x, a.amount)
             t == [s EXCEPT !.ledger = M]
  <2>1. effect(s, a) = t
    BY <1>4 DEF effect
  <2>2. Books(M, exact)
    BY <1>1, DividendBooks
  <2> HIDE DEF M
  <2>3. DOMAIN t = DOMAIN s /\ t.ledger = M
    BY DEF Kept
  <2> HIDE DEF t
  <2> QED BY <2>1, <2>2, <2>3 DEF Kept
<1>5. CASE a.type \notin {"SPLIT", "DIVIDEND", "DELIST"}
  <2>1. effect(s, a) = s
    BY <1>5 DEF effect
  <2> QED BY <2>1
<1> QED BY <1>2, <1>3, <1>4, <1>5

-----------------------------------------------------------------------------
(* The replay: the books in every state.                                   *)

\* The first entry: the starting cash is the opening equity.
LEMMA BooksInit ==
  ASSUME Init, NEW exact
  PROVE  Books(ledger, exact)
<1> DEFINE j == ledger.journal
<1>1. /\ ledger.cash = StartingCash /\ ledger.lots = <<>> /\ ledger.realized = 0
      /\ {"cash", "lots", "reservations", "journal", "realized"} \subseteq DOMAIN ledger
      /\ j = [a \in Account |-> CASE a = "CASH" -> StartingCash
                                  [] a = "OPENING_EQUITY" -> -StartingCash
                                  [] OTHER -> 0]
  BY DEF Init, NewLedger
<1>2. StartingCash \in Int
  BY LedgerAssumption
<1> HIDE DEF j
<1>3. /\ j["CASH"] = StartingCash /\ j["OPENING_EQUITY"] = -StartingCash
      /\ j["POSITIONS_AT_COST"] = 0 /\ j["REALIZED_PNL"] = 0
      /\ j["COMMISSION_EXPENSE"] = 0 /\ j["DIVIDEND_INCOME"] = 0
  BY <1>1 DEF Account
<1>4. j \in [Account -> Int]
  <2>1. \A a \in Account : j[a] \in Int
    BY <1>2, <1>3 DEF Account
  <2> QED BY <1>1, <2>1
<1>5. SumFunction(j) = 0
  <2>1. SumFunction(j) = StartingCash + (-StartingCash) + 0 + 0 + 0 + 0
    BY <1>3, <1>4, JournalTotal
  <2> QED BY <1>2, <2>1
<1>6. AtCost(ledger.lots) = 0
  <2> DEFINE f == CostTerm(ledger.lots)
  <2>1. DOMAIN f = {}
    BY <1>1 DEF CostTerm
  <2> HIDE DEF f
  <2>2. SumFunction(f) = 0
    BY <2>1, SumNothing
  <2> QED BY <2>2 DEF AtCost, f
<1> QED BY <1>1, <1>3, <1>4, <1>5, <1>6 DEF Books, j

LEMMA BooksBecome ==
  ASSUME NEW s, NEW exact, Kept(s, exact), become(s)
  PROVE  Books(ledger, exact)'
  BY DEF Kept, become

\* Every step keeps the books, those of the lots where the divisions are exact.
LEMMA BooksStep ==
  ASSUME ReplayInv, [Next]_vars, NEW exact, Books(ledger, exact), exact => CostsExact
  PROVE  Books(ledger, exact)'
<1>1. Good(now, {}) /\ BarTyped /\ now.ledger = ledger /\ now.orders = orders
  BY DEF ReplayInv, now
<1>2. Kept(now, exact)
  BY <1>1 DEF Kept, now
<1>3. ASSUME UNCHANGED ledger PROVE Books(ledger, exact)'
  BY <1>3
<1>4. ASSUME Expire PROVE Books(ledger, exact)'
  <2>1. PICK n \in expired : become(end_orders(now, {n}, "EXPIRED", orders[n].expires))
    BY <1>4 DEF Expire
  <2>2. Kept(end_orders(now, {n}, "EXPIRED", orders[n].expires), exact)
    BY <1>2, EndKept
  <2> QED BY <2>1, <2>2, BooksBecome
<1>5. ASSUME NEW a \in Actions, CorporateAction(a) PROVE Books(ledger, exact)'
  <2> DEFINE ids == open_on(now, a.instrument)
             s == end_orders(now, ids, "CANCELLED", as_of)
  <2>1. CASE a.announced
    BY <1>3, <1>5, <2>1 DEF CorporateAction
  <2>2. CASE ~a.announced
    <3>1. become(then(s, effect(s, a))) /\ used.actions < MaxActions
      BY <1>5, <2>2 DEF CorporateAction, cancel_orders_for_action
    <3>2. Good(s, {}) /\ s.ledger.lots = ledger.lots
      <4>1. ids \intersect {} = {} /\ "CANCELLED" \in OrderEnd /\ as_of \in Int
        BY DEF OrderEnd, ReplayInv, as_of, Period
      <4> HIDE DEF ids
      <4>2. Good(s, {})
        BY <1>1, <4>1, EndGood
      <4>3. Sound(now)
        BY <1>1 DEF Good
      <4>4. Ended(now, s, ids, "CANCELLED", as_of)
        BY <4>1, <4>3, EndEffect
      <4> HIDE DEF s
      <4>5. s.ledger = release(now.ledger, ids)
        BY <4>4 DEF Ended
      <4>6. s.ledger.lots = ledger.lots
        BY <1>1, <4>3, <4>5, ReleaseGood DEF Sound
      <4> QED BY <4>2, <4>6
    <3>3. Kept(s, exact)
      BY <1>2, EndKept
    <3> HIDE DEF s
    <3>4. exact => (a.type = "SPLIT" => \A n \in DOMAIN s.ledger.lots :
                      s.ledger.lots[n].instrument = a.instrument
                        => s.ledger.lots[n].unit_cost % a.amount = 0)
      BY <2>2, <3>1, <3>2 DEF CostsExact
    <3>5. Kept(effect(s, a), exact)
      BY <3>2, <3>3, <3>4, EffectKept
    <3>6. Kept(then(s, effect(s, a)), exact)
      BY <3>3, <3>5, ThenKept
    <3> QED BY <3>1, <3>6, BooksBecome
  <2> QED BY <2>1, <2>2
<1>6. ASSUME NEW n \in DOMAIN orders, MatchOrder(n) PROVE Books(ledger, exact)'
  <2>1. /\ bar # NoBar /\ n \in bar.todo /\ match(orders[n], bar.at, FALSE)
        /\ become(fill_order(now, n, bar.at))
    BY <1>6 DEF MatchOrder, matching
  <2>2. IsBar(bar.at)
    BY <1>1, <2>1 DEF BarTyped
  <2>3. exact => ExactFill(fill_of(n, orders[n], bar.at))
    <3> DEFINE fill == fill_of(n, orders[n], bar.at)
    <3>1. fill.side = orders[n].side
      BY DEF fill_of
    <3>2. exact /\ orders[n].side = "BUY"
            => (fill.price * fill.quantity + fill.commission) % fill.quantity = 0
      BY <2>1 DEF CostsExact
    <3> HIDE DEF fill
    <3>3. exact => ExactFill(fill)
      BY <3>1, <3>2 DEF ExactFill
    <3> QED BY <3>3 DEF fill
  <2>4. Kept(fill_order(now, n, bar.at), exact)
    <3> DEFINE s == now
               b == bar.at
    <3>1. /\ Good(s, {}) /\ n \in DOMAIN s.orders /\ IsBar(b) /\ match(s.orders[n], b, FALSE)
          /\ Kept(s, exact) /\ (exact => ExactFill(fill_of(n, s.orders[n], b)))
      BY <1>1, <1>2, <2>1, <2>2, <2>3
    <3> HIDE DEF s, b
    <3>2. Kept(fill_order(s, n, b), exact)
      BY <3>1, FillOrderKept
    <3> QED BY <3>2 DEF s, b
  <2> QED BY <2>1, <2>4, BooksBecome
<1>7. ASSUME EndBar PROVE Books(ledger, exact)'
  <2>1. ledger' = mark(ledger, bar.at.instrument, bar.at.close)
    BY <1>7 DEF EndBar
  <2> QED BY <2>1, MarkBooks
<1>8. ASSUME NEW p \in Proposals, Propose(p) PROVE Books(ledger, exact)'
  <2>1. become(place(now, intent_of(p))) \/ UNCHANGED ledger
    BY <1>8 DEF Propose
  <2>2. Kept(place(now, intent_of(p)), exact)
    BY <1>2, PlaceKept
  <2>3. become(place(now, intent_of(p))) => Books(ledger, exact)'
    BY <2>2, BooksBecome
  <2> QED BY <1>3, <2>1, <2>3
<1>9. ASSUME (\E b \in Bars : BeginBar(b)) \/ StartProposals \/ EndFrame \/ UNCHANGED vars
      PROVE  Books(ledger, exact)'
  <2>1. UNCHANGED ledger
    BY <1>9 DEF BeginBar, StartProposals, EndFrame, vars
  <2> QED BY <1>3, <2>1
<1> QED BY <1>4, <1>5, <1>6, <1>7, <1>8, <1>9 DEF Next

\* Every entry balances: whatever fills, same-bar exits, splits, dividends and delistings a
\* replay meets, and whatever the divisions of the code leave over, the journal's accounts
\* sum to nothing, its CASH is the cash and its profit and commission accounts are
\* realized_pnl.
THEOREM EntriesAlwaysBalance == Spec => []EntriesBalance
<1> DEFINE Balanced == Books(ledger, FALSE)
<1>1. Init => Balanced
  BY BooksInit
<1>2. ReplayInv /\ Balanced /\ [Next]_vars => Balanced'
  BY BooksStep
<1>3. Balanced => EntriesBalance
  BY DEF Books, EntriesBalance, conserved
<1> HIDE DEF Balanced
<1> QED BY <1>1, <1>2, <1>3, ReplayInit, ReplayStep, PTL DEF Spec

\* assert_conservation never raises.
THEOREM ConservationNeverFails == Spec => [][StartProposals => failure' = {}]_vars
<1>1. EntriesBalance /\ StartProposals => failure' = {}
  BY DEF EntriesBalance, StartProposals, when
<1>2. EntriesBalance /\ [Next]_vars => [StartProposals => failure' = {}]_vars
  BY <1>1
<1> QED BY <1>2, EntriesAlwaysBalance, PTL DEF Spec

\* Where the divisions of the code leave no remainder, as Decimal makes them, the FIFO lots
\* are the journal's POSITIONS_AT_COST in every state.
THEOREM LotsAreTheJournals == Spec /\ []CostsExact => []BooksAgree
<1> DEFINE Agreed == Books(ledger, TRUE)
<1>1. Init => Agreed
  BY BooksInit
<1>2. ReplayInv /\ CostsExact /\ Agreed /\ [Next]_vars => Agreed'
  BY BooksStep
<1>3. Agreed => BooksAgree
  BY DEF Books, EntriesBalance, BooksAgree, conserved, AtCost, CostTerm
<1> HIDE DEF Agreed
<1> QED BY <1>1, <1>2, <1>3, ReplayInit, ReplayStep, PTL DEF Spec

-----------------------------------------------------------------------------
(* The replay: the legs of a group are a stop and a target of one quantity. *)

\* Two open legs of one group.
Twins(o, p) ==
    o.instrument = p.instrument /\ o.kind # p.kind /\ remaining_quantity(o) = remaining_quantity(p)

\* A leg is a stop or a target that only sells; other orders have no group.
Leg(o) ==
    IF o.group = 0 THEN ~o.reduce_only
    ELSE o.reduce_only /\ o.side = "SELL" /\ o.kind \in {"STOP_MARKET", "LIMIT"}

SameGroup(o, p) == o.group = p.group /\ p.group # 0

Paired(os) ==
    /\ \A n \in DOMAIN os : Leg(os[n])
    /\ \A m \in DOMAIN os : \A n \in DOMAIN os \ {m} :
         (SameGroup(os[m], os[n]) /\ os[m].state \in Open /\ os[n].state \in Open)
           => Twins(os[m], os[n])

\* No other leg of the group of n is open.
Single(os, n) ==
    \A m \in DOMAIN os \ {n} : SameGroup(os[m], os[n]) => os[m].state \notin Open

\* What no step changes of an order.
SameOrder(o, p) ==
    /\ p.instrument = o.instrument /\ p.side = o.side /\ p.kind = o.kind
    /\ p.group = o.group /\ p.reduce_only = o.reduce_only

LEMMA FinishSame ==
  ASSUME NEW o \in TrackedOrder, NEW state \in OrderEnd, NEW at
  PROVE  /\ SameOrder(o, finish(o, state, at)) /\ finish(o, state, at).state \notin Open
         /\ remaining_quantity(finish(o, state, at)) = remaining_quantity(o)
<1> DEFINE p == finish(o, state, at)
<1>1. /\ p.instrument = o.instrument /\ p.side = o.side /\ p.kind = o.kind
      /\ p.group = o.group /\ p.reduce_only = o.reduce_only /\ p.state = state
      /\ p.filled = o.filled /\ p.quantity = o.quantity
  BY DEF finish, TrackedOrder
<1> HIDE DEF p
<1> QED BY <1>1 DEF SameOrder, remaining_quantity, OrderEnd, Open, p

LEMMA OrderFillSame ==
  ASSUME NEW o \in TrackedOrder, NEW q, NEW at
  PROVE  SameOrder(o, order_fill(o, q, at))
  BY DEF SameOrder, order_fill, TrackedOrder

LEMMA AcceptSame ==
  ASSUME NEW i \in OrderIntent
  PROVE  /\ SameOrder(i, accept(i)) /\ accept(i).state \in Open
         /\ remaining_quantity(accept(i)) = i.quantity
<1>1. /\ SameOrder(i, accept(i)) /\ accept(i).state = "ACCEPTED" /\ accept(i).filled = 0
      /\ accept(i).quantity = i.quantity /\ i.quantity \in Nat
  BY DEF accept, joined, OrderIntent, SameOrder
<1> QED BY <1>1 DEF remaining_quantity, Open

\* Orders that end leave the others paired.
LEMMA EndPaired ==
  ASSUME NEW s, Sound(s), Paired(s.orders), NEW ids, NEW state \in OrderEnd, NEW at,
         NEW t, Ended(s, t, ids, state, at)
  PROVE  /\ Paired(t.orders)
         /\ \A n \in DOMAIN s.orders : /\ SameOrder(s.orders[n], t.orders[n])
                                       /\ remaining_quantity(t.orders[n]) = remaining_quantity(s.orders[n])
                                       /\ n \in ids => t.orders[n].state \notin Open
                                       /\ n \notin ids => t.orders[n] = s.orders[n]
<1>1. /\ DOMAIN t.orders = DOMAIN s.orders
      /\ \A n \in DOMAIN s.orders :
           t.orders[n] = IF n \in ids THEN finish(s.orders[n], state, at) ELSE s.orders[n]
  BY DEF Ended
<1>2. \A n \in DOMAIN s.orders : s.orders[n] \in TrackedOrder
  BY OrdersAre
<1>3. \A n \in DOMAIN s.orders :
        /\ SameOrder(s.orders[n], t.orders[n])
        /\ remaining_quantity(t.orders[n]) = remaining_quantity(s.orders[n])
        /\ n \in ids => t.orders[n].state \notin Open
        /\ n \notin ids => t.orders[n] = s.orders[n]
  <2> SUFFICES ASSUME NEW n \in DOMAIN s.orders
               PROVE  /\ SameOrder(s.orders[n], t.orders[n])
                      /\ remaining_quantity(t.orders[n]) = remaining_quantity(s.orders[n])
                      /\ n \in ids => t.orders[n].state \notin Open
                      /\ n \notin ids => t.orders[n] = s.orders[n]
    OBVIOUS
  <2>1. CASE n \in ids
    BY <1>1, <1>2, <2>1, FinishSame
  <2>2. CASE n \notin ids
    BY <1>1, <2>2 DEF SameOrder
  <2> QED BY <2>1, <2>2
<1>4. \A n \in DOMAIN t.orders : Leg(t.orders[n])
  BY <1>1, <1>3 DEF Paired, Leg, SameOrder
<1>5. ASSUME NEW m \in DOMAIN t.orders, NEW n \in DOMAIN t.orders \ {m},
             SameGroup(t.orders[m], t.orders[n]), t.orders[m].state \in Open, t.orders[n].state \in Open
      PROVE  Twins(t.orders[m], t.orders[n])
  <2>1. t.orders[m] = s.orders[m] /\ t.orders[n] = s.orders[n]
    BY <1>1, <1>3, <1>5
  <2> QED BY <1>1, <1>5, <2>1 DEF Paired
<1> QED BY <1>3, <1>4, <1>5 DEF Paired

\* A new order is the twin of each open one of its group.
LEMMA PlacePaired ==
  ASSUME NEW s, Sound(s), Paired(s.orders), NEW i \in OrderIntent, Leg(i),
         \A m \in DOMAIN s.orders :
           (SameGroup(s.orders[m], i) /\ s.orders[m].state \in Open)
             => /\ s.orders[m].instrument = i.instrument /\ s.orders[m].kind # i.kind
                /\ remaining_quantity(s.orders[m]) = i.quantity
  PROVE  Paired(place(s, i).orders)
<1> DEFINE t == place(s, i)
           k == Len(s.orders) + 1
           o == accept(i)
<1>1. Placed(s, t, i)
  BY PlaceEffect
<1>2. /\ DOMAIN t.orders = DOMAIN s.orders \union {k} /\ k \notin DOMAIN s.orders
      /\ t.orders[k] = o /\ \A n \in DOMAIN s.orders : t.orders[n] = s.orders[n]
  BY <1>1 DEF Placed
<1>3. SameOrder(i, o) /\ remaining_quantity(o) = i.quantity
  BY AcceptSame
<1> HIDE DEF t, k, o
<1>4. Leg(o)
  BY <1>3 DEF Leg, SameOrder
<1>5. ASSUME NEW m \in DOMAIN s.orders, SameGroup(s.orders[m], o) \/ SameGroup(o, s.orders[m]),
             s.orders[m].state \in Open
      PROVE  Twins(s.orders[m], o) /\ Twins(o, s.orders[m])
  <2>1. SameGroup(s.orders[m], i)
    BY <1>3, <1>5 DEF SameGroup, SameOrder
  <2> QED BY <1>3, <1>5, <2>1 DEF Twins, SameOrder
<1>6. \A n \in DOMAIN t.orders : Leg(t.orders[n])
  BY <1>2, <1>4 DEF Paired
<1>7. ASSUME NEW m \in DOMAIN t.orders, NEW n \in DOMAIN t.orders \ {m},
             SameGroup(t.orders[m], t.orders[n]), t.orders[m].state \in Open, t.orders[n].state \in Open
      PROVE  Twins(t.orders[m], t.orders[n])
  <2>1. CASE m = k
    BY <1>2, <1>5, <1>7, <2>1
  <2>2. CASE n = k
    BY <1>2, <1>5, <1>7, <2>2
  <2>3. CASE m # k /\ n # k
    BY <1>2, <1>7, <2>3 DEF Paired
  <2> QED BY <2>1, <2>2, <2>3
<1>8. Paired(t.orders)
  BY <1>6, <1>7 DEF Paired
<1> QED BY <1>8 DEF t

\* The orders after an exit: the other leg is closed.
ExitedOrders(s, u, n) ==
    /\ DOMAIN u.orders = DOMAIN s.orders /\ Single(u.orders, n)
    /\ \A m \in DOMAIN s.orders :
         /\ SameOrder(s.orders[m], u.orders[m])
         /\ m # n => remaining_quantity(u.orders[m]) = remaining_quantity(s.orders[m])
         /\ m \in siblings(s, n) => u.orders[m].state \notin Open
         /\ m \notin siblings(s, n) \union {n} => u.orders[m] = s.orders[m]

\* An exit keeps the legs that are left paired.
LEMMA ExitPaired ==
  ASSUME NEW s, Sound(s), Paired(s.orders), NEW n \in DOMAIN s.orders,
         NEW b, IsBar(b), NEW same, match(s.orders[n], b, same), NEW t, NEW u, Exited(s, t, u, n, b)
  PROVE  Paired(u.orders) /\ ExitedOrders(s, u, n)
<1> DEFINE ids == siblings(s, n)
           fill == fill_of(n, s.orders[n], b)
           p == order_fill(s.orders[n], fill.quantity, b.available)
<1>1. /\ DOMAIN u.orders = DOMAIN s.orders /\ DOMAIN t.orders = DOMAIN s.orders
      /\ t.orders[n] = s.orders[n] /\ Ended(s, t, ids, "CANCELLED", b.available)
      /\ u.orders = t.orders \/ u.orders = [t.orders EXCEPT ![n] = p]
  BY DEF Exited, Booked
<1>2. "CANCELLED" \in OrderEnd /\ n \notin ids
  BY DEF OrderEnd, siblings
<1> HIDE DEF ids
<1>3. /\ Paired(t.orders)
      /\ \A m \in DOMAIN s.orders : /\ SameOrder(s.orders[m], t.orders[m])
                                    /\ remaining_quantity(t.orders[m]) = remaining_quantity(s.orders[m])
                                    /\ m \in ids => t.orders[m].state \notin Open
                                    /\ m \notin ids => t.orders[m] = s.orders[m]
  BY <1>1, <1>2, EndPaired
<1>4. SameOrder(s.orders[n], p)
  BY OrdersAre, OrderFillSame
<1> HIDE DEF p
<1>5. /\ \A m \in DOMAIN s.orders \ {n} : u.orders[m] = t.orders[m]
      /\ u.orders[n] = s.orders[n] \/ u.orders[n] = p
  BY <1>1
<1>6. \A m \in DOMAIN s.orders :
        /\ SameOrder(s.orders[m], u.orders[m])
        /\ m # n => remaining_quantity(u.orders[m]) = remaining_quantity(s.orders[m])
        /\ m \in ids => u.orders[m].state \notin Open
        /\ m \notin ids \union {n} => u.orders[m] = s.orders[m]
  BY <1>2, <1>3, <1>4, <1>5 DEF SameOrder
<1>7. Single(u.orders, n)
  <2> SUFFICES ASSUME NEW m \in DOMAIN s.orders \ {n}, SameGroup(u.orders[m], u.orders[n]),
                      u.orders[m].state \in Open
               PROVE  FALSE
    BY <1>1 DEF Single
  <2>1. m \notin ids /\ u.orders[m] = s.orders[m]
    BY <1>6
  <2>2. SameGroup(s.orders[m], s.orders[n])
    BY <1>6, <2>1 DEF SameGroup, SameOrder
  <2> QED BY <2>1, <2>2 DEF ids, siblings, SameGroup
<1>8. \A m \in DOMAIN u.orders : Leg(u.orders[m])
  BY <1>1, <1>6 DEF Paired, Leg, SameOrder
<1>9. ASSUME NEW m \in DOMAIN u.orders, NEW d \in DOMAIN u.orders \ {m},
             SameGroup(u.orders[m], u.orders[d]), u.orders[m].state \in Open, u.orders[d].state \in Open
      PROVE  Twins(u.orders[m], u.orders[d])
  <2>1. CASE m = n
    <3>1. SameGroup(u.orders[d], u.orders[m])
      BY <1>9 DEF SameGroup
    <3> QED BY <1>7, <1>9, <2>1, <3>1 DEF Single
  <2>2. CASE d = n
    BY <1>7, <1>9, <2>2 DEF Single
  <2>3. CASE m # n /\ d # n
    BY <1>1, <1>3, <1>5, <1>9, <2>3 DEF Paired
  <2> QED BY <2>1, <2>2, <2>3
<1>10. Paired(u.orders)
  BY <1>8, <1>9 DEF Paired
<1>11. ExitedOrders(s, u, n)
  BY <1>1, <1>6, <1>7 DEF ids, ExitedOrders
<1> QED BY <1>10, <1>11

\* The protection of a fill is a pair of its own.
LEMMA CreatePaired ==
  ASSUME NEW s, NEW E, E \subseteq DOMAIN s.orders, Good(s, E), Paired(s.orders),
         NEW n \in DOMAIN s.orders, NEW q \in Nat \ {0}, NEW at \in Int
  PROVE  Paired(create_protection(s, n, q, at).orders)
<1> DEFINE parent == s.orders[n]
           group == Len(s.orders) + 1
           first == protective(parent, "STOP_MARKET", parent.protective_stop, q, at, at, group)
           second == protective(parent, "LIMIT", parent.protective_target, q, at, at, group)
           t == place(s, first)
           u == place(t, second)
<1>1. create_protection(s, n, q, at) = IF parent.protective_target = 0 THEN t ELSE then(t, u)
  BY DEF create_protection
<1>2. /\ Sound(s) /\ parent \in TrackedOrder /\ group \in Nat \ {0} /\ Len(s.orders) \in Nat
      /\ \A m \in DOMAIN s.orders : s.orders[m].group < group
  <2>1. Sound(s)
    BY DEF Good
  <2>2. /\ DOMAIN s.orders = 1 .. Len(s.orders) /\ Len(s.orders) \in Nat
        /\ \A m \in DOMAIN s.orders : s.orders[m] \in TrackedOrder /\ s.orders[m].group <= m
    BY <2>1, OrdersAre DEF Sound
  <2>3. \A m \in DOMAIN s.orders : s.orders[m].group \in Nat
    BY <2>2 DEF TrackedOrder
  <2> QED BY <2>1, <2>2, <2>3
<1>3. parent.protective_stop \in Nat /\ parent.protective_target \in Nat
  BY <1>2 DEF TrackedOrder
<1>4. /\ first \in OrderIntent /\ first.side = "SELL" /\ first.group = group /\ first.quantity = q
      /\ second \in OrderIntent /\ second.side = "SELL" /\ second.group = group /\ second.quantity = q
      /\ first.instrument = second.instrument
  <2>1. first \in Sale(parent.instrument, q, group) /\ second \in Sale(parent.instrument, q, group)
    <3> HIDE DEF parent, group
    <3> QED BY <1>2, <1>3, ProtectiveTyped DEF OrderKind
  <2> HIDE DEF first, second
  <2> QED BY <2>1 DEF Sale
<1>5. /\ first.kind = "STOP_MARKET" /\ first.reduce_only /\ second.kind = "LIMIT" /\ second.reduce_only
  BY DEF protective
<1> HIDE DEF first, second, parent
<1>6. Good(t, E) /\ Placed(s, t, first)
  <2>1. GroupFits(s.orders, first) /\ first.group <= Len(s.orders) + 1
    BY <1>2, <1>4 DEF GroupFits
  <2> QED BY <1>2, <1>4, <2>1, PlacedLeg, PlaceEffect
<1>7. Leg(first) /\ Leg(second)
  BY <1>2, <1>4, <1>5 DEF Leg
<1>8. Paired(t.orders)
  <2>1. \A m \in DOMAIN s.orders : ~SameGroup(s.orders[m], first)
    BY <1>2, <1>4 DEF SameGroup
  <2> HIDE DEF t
  <2>2. Paired(place(s, first).orders)
    BY <1>2, <1>4, <1>7, <2>1, PlacePaired
  <2> QED BY <2>2 DEF t
<1>9. ASSUME t.failure = {} PROVE Paired(u.orders)
  <2>1. /\ DOMAIN t.orders = DOMAIN s.orders \union {group} /\ t.orders[group] = accept(first)
        /\ \A m \in DOMAIN s.orders : t.orders[m] = s.orders[m]
    BY <1>6 DEF Placed
  <2>2. SameOrder(first, accept(first)) /\ remaining_quantity(accept(first)) = q
    BY <1>4, AcceptSame
  <2> HIDE DEF t, group
  <2>3. ASSUME NEW m \in DOMAIN t.orders, SameGroup(t.orders[m], second)
        PROVE  /\ t.orders[m].instrument = second.instrument /\ t.orders[m].kind # second.kind
               /\ remaining_quantity(t.orders[m]) = second.quantity
    <3>1. m = group
      BY <1>2, <1>4, <2>1, <2>3 DEF SameGroup
    <3> QED BY <1>4, <1>5, <2>1, <2>2, <3>1 DEF SameOrder
  <2>4. Sound(t)
    BY <1>6 DEF Good
  <2> QED BY <1>4, <1>7, <1>8, <2>3, <2>4, PlacePaired
<1> HIDE DEF t, u
<1> QED BY <1>1, <1>8, <1>9 DEF then

\* The other leg of a partial exit comes back for what is left, if the group had one.
Replaced(s, t, n) ==
    LET o == s.orders[n]
        kind == IF o.kind = "STOP_MARKET" THEN "LIMIT" ELSE "STOP_MARKET"
    IN  \/ /\ t = s
           /\ \A m \in DOMAIN s.orders : SameGroup(s.orders[m], o) => s.orders[m].kind # kind
        \/ \E i \in Sale(o.instrument, remaining_quantity(o), o.group) :
             i.kind = kind /\ i.reduce_only /\ o.group # 0 /\ t = place(s, i)

LEMMA ReplaceEffect ==
  ASSUME NEW s, Sound(s), NEW n \in DOMAIN s.orders,
         remaining_quantity(s.orders[n]) \in Nat \ {0}, NEW at \in Int
  PROVE  Replaced(s, replace_oco_sibling(s, n, at), n)
<1> DEFINE o == s.orders[n]
           kind == IF o.kind = "STOP_MARKET" THEN "LIMIT" ELSE "STOP_MARKET"
           prices == IF o.group = 0 THEN {} ELSE leg_price(s, o.group, kind)
           price == CHOOSE p \in prices : TRUE
           i == protective(o, kind, price, remaining_quantity(o), at, at + 1, o.group)
           t == replace_oco_sibling(s, n, at)
<1>1. o \in TrackedOrder
  BY OrdersAre
<1>2. t = IF prices = {} THEN s ELSE place(s, i)
  BY DEF replace_oco_sibling
<1>3. kind \in OrderKind
  BY DEF OrderKind
<1> HIDE DEF t
<1>4. CASE prices = {}
  <2>1. \A m \in DOMAIN s.orders : SameGroup(s.orders[m], o) => s.orders[m].kind # kind
    BY <1>4 DEF leg_price, SameGroup
  <2> QED BY <1>2, <1>4, <2>1 DEF Replaced, t
<1> HIDE DEF kind
<1>5. CASE prices # {}
  <2>1. \A m \in DOMAIN s.orders : s.orders[m].limit \in Nat /\ s.orders[m].stop \in Nat
    BY OrdersAre DEF TrackedOrder
  <2>2. \A p \in prices : p \in Nat
    BY <2>1 DEF leg_price
  <2>3. price \in Nat /\ o.group # 0
    <3>1. o.group # 0
      BY <1>5
    <3> HIDE DEF prices
    <3> QED BY <1>5, <2>2, <3>1
  <2> HIDE DEF price, prices
  <2>4. i \in Sale(o.instrument, remaining_quantity(o), o.group)
    <3> DEFINE q == remaining_quantity(o)
               later == at + 1
    <3>1. /\ q \in Nat \ {0} /\ later \in Int /\ o.group \in Nat
          /\ i = protective(o, kind, price, q, at, later, o.group)
      BY <1>1 DEF TrackedOrder
    <3> HIDE DEF o, q, later, i
    <3>2. i \in Sale(o.instrument, q, o.group)
      BY <1>1, <1>3, <2>3, <3>1, ProtectiveTyped
    <3> QED BY <3>2 DEF q
  <2>5. i.kind = kind /\ i.reduce_only
    BY DEF protective
  <2>6. t = place(s, i)
    BY <1>2, <1>5
  <2> HIDE DEF i, o
  <2>7. \E d \in Sale(o.instrument, remaining_quantity(o), o.group) :
           d.kind = kind /\ d.reduce_only /\ o.group # 0 /\ t = place(s, d)
    BY <2>3, <2>4, <2>5, <2>6
  <2> QED BY <2>7 DEF Replaced, o, kind, t
<1> QED BY <1>4, <1>5

LEMMA ReplacePaired ==
  ASSUME NEW s, Sound(s), Paired(s.orders), NEW n \in DOMAIN s.orders, Single(s.orders, n),
         remaining_quantity(s.orders[n]) \in Nat \ {0}, NEW at \in Int
  PROVE  Paired(replace_oco_sibling(s, n, at).orders)
<1> DEFINE o == s.orders[n]
           kind == IF o.kind = "STOP_MARKET" THEN "LIMIT" ELSE "STOP_MARKET"
           t == replace_oco_sibling(s, n, at)
<1>1. Replaced(s, t, n)
  BY ReplaceEffect
<1>2. Leg(o)
  BY DEF Paired
<1> HIDE DEF t
<1>3. ASSUME NEW i \in Sale(o.instrument, remaining_quantity(o), o.group),
             i.kind = kind, i.reduce_only, o.group # 0, t = place(s, i)
      PROVE  Paired(t.orders)
  <2>1. /\ i \in OrderIntent /\ i.side = "SELL" /\ i.instrument = o.instrument
        /\ i.quantity = remaining_quantity(o) /\ i.group = o.group
    BY DEF Sale
  <2>2. Leg(i) /\ kind # o.kind
    BY <1>2, <1>3, <2>1 DEF Leg
  <2>3. ASSUME NEW m \in DOMAIN s.orders, SameGroup(s.orders[m], i), s.orders[m].state \in Open
        PROVE  /\ s.orders[m].instrument = i.instrument /\ s.orders[m].kind # i.kind
               /\ remaining_quantity(s.orders[m]) = i.quantity
    <3>1. SameGroup(s.orders[m], o)
      BY <2>1, <2>3 DEF SameGroup
    <3>2. m = n
      BY <2>3, <3>1 DEF Single
    <3> QED BY <1>3, <2>1, <2>2, <3>2
  <2> HIDE DEF kind, o
  <2>4. Paired(place(s, i).orders)
    BY <2>1, <2>2, <2>3, PlacePaired
  <2> QED BY <1>3, <2>4
<1>4. Paired(t.orders)
  BY <1>1, <1>3 DEF Replaced
<1> QED BY <1>4 DEF t

\* An exit on the bar that filled the parent; the parent is left alone.
LEMMA SameBarPaired ==
  ASSUME NEW r, NEW s, NEW n \in DOMAIN r.orders, Sound(r), Protected(r, s, {n}), s.failure = {},
         Paired(s.orders), NEW b, IsBar(b)
  PROVE  LET k == match_same_bar_protection(
                    s, ((Len(r.orders) + 1) .. (Len(r.orders) + 2)) \intersect DOMAIN s.orders, b)
         IN  Paired(k.orders) /\ k.orders[n] = s.orders[n]
<1> DEFINE children == ((Len(r.orders) + 1) .. (Len(r.orders) + 2)) \intersect DOMAIN s.orders
           hit == {k \in children : match(s.orders[k], b, TRUE)}
           m == CHOOSE c \in hit : \A k \in hit : priority(s.orders[c]) <= priority(s.orders[k])
           t == cancel_oco_siblings(s, m, b.available)
           u == then(t, booked(t, m, b))
<1>1. match_same_bar_protection(s, children, b) = IF hit = {} THEN s ELSE then(u, released(u, m))
  BY DEF match_same_bar_protection
<1>2. CASE hit = {}
  BY <1>1, <1>2
<1>3. CASE hit # {}
  <2>1. /\ m \in DOMAIN s.orders /\ m # n /\ match(s.orders[m], b, TRUE)
        /\ s.orders[m].side = "SELL"
        /\ n \in DOMAIN s.orders /\ n \notin siblings(s, m)
        /\ Good(u, {n} \union {m}) /\ Exited(s, t, u, m, b)
    BY <1>3, SameBarExit
  <2> HIDE DEF u, t, m, hit
  <2>2. Sound(s)
    BY DEF Protected, Good
  <2> DEFINE same == TRUE
  <2>3. match(s.orders[m], b, same)
    BY <2>1
  <2> HIDE DEF same
  <2>4. Paired(u.orders) /\ ExitedOrders(s, u, m)
    BY <2>1, <2>2, <2>3, ExitPaired
  <2>5. released(u, m).orders = u.orders
    BY <2>1 DEF released, Good, Sound
  <2>6. then(u, released(u, m)).orders = u.orders
    BY <2>5 DEF then
  <2>7. u.orders[n] = s.orders[n]
    BY <2>1, <2>4 DEF ExitedOrders
  <2> QED BY <1>1, <1>3, <2>4, <2>6, <2>7
<1> QED BY <1>2, <1>3

\* The release of a reservation moves no shares and changes no order.
LEMMA ReleasedSame ==
  ASSUME NEW w, NEW n, NEW r, Sound(r), r = then(w, released(w, n))
  PROVE  /\ r.orders = w.orders /\ r.ledger.lots = w.ledger.lots
         /\ r.failure = {} => w.failure = {}
<1> DEFINE M == release(w.ledger, {n})
           e == [w EXCEPT !.ledger = M]
<1>1. r = w \/ (r = e /\ w.failure = {})
  BY DEF then, released
<1>2. {"ledger", "orders", "failure"} \subseteq DOMAIN r /\ "lots" \in DOMAIN r.ledger
  BY DEF Sound, LedgerGood
<1>3. CASE r = e
  <2>1. DOMAIN e = DOMAIN w /\ DOMAIN M = DOMAIN w.ledger
    BY DEF release
  <2> HIDE DEF M
  <2>2. {"ledger", "orders", "failure"} \subseteq DOMAIN w
    BY <1>2, <1>3, <2>1
  <2>3. e.orders = w.orders /\ e.failure = w.failure /\ e.ledger = M
    BY <2>2
  <2>4. "lots" \in DOMAIN w.ledger
    BY <1>2, <1>3, <2>1, <2>3
  <2>5. M.lots = w.ledger.lots
    BY <2>4 DEF M, release
  <2> QED BY <1>1, <1>3, <2>3, <2>5
<1> QED BY <1>1, <1>3

\* A fill with all that follows keeps the legs paired, and a purchase shows in its order.
LEMMA FillOrderPaired ==
  ASSUME NEW s, Good(s, {}), Paired(s.orders), NEW n \in DOMAIN s.orders, NEW b, IsBar(b),
         match(s.orders[n], b, FALSE)
  PROVE  LET r == fill_order(s, n, b)
         IN  /\ Paired(r.orders)
             /\ s.orders[n].side = "BUY" /\ r.failure = {}
                  => r.orders[n].filled > s.orders[n].filled
<1> DEFINE at == b.available
           t == cancel_oco_siblings(s, n, at)
           u == then(t, booked(t, n, b))
           o == u.orders[n]
           children == (Len(u.orders) + 1)..(Len(u.orders) + 2)
           guarded == create_protection(u, n, o.filled - s.orders[n].filled, at)
           kept == match_same_bar_protection(guarded, children \intersect DOMAIN guarded.orders, b)
           v == IF o.side = "BUY" THEN then(guarded, kept)
                ELSE IF o.state = "PARTIALLY_FILLED" THEN replace_oco_sibling(u, n, at) ELSE u
           w == then(u, v)
           r == fill_order(s, n, b)
<1>1. r = then(w, released(w, n))
  BY DEF fill_order
<1>2. Good(u, {n}) /\ Exited(s, t, u, n, b)
  BY FirstExit
<1>3. at \in Int /\ Sound(u) /\ Sound(s)
  BY <1>2 DEF IsBar, Good
<1> HIDE DEF u, t, at
<1>4. n \in DOMAIN u.orders
  BY <1>2 DEF Exited
<1>5. Paired(u.orders) /\ ExitedOrders(s, u, n)
  <2> DEFINE same == FALSE
  <2>1. match(s.orders[n], b, same)
    OBVIOUS
  <2> HIDE DEF same
  <2> QED BY <1>2, <1>3, <2>1, ExitPaired
<1>6. ASSUME u.failure = {}
      PROVE  /\ Paired(v.orders)
             /\ o.side = "BUY" => v.orders[n].filled > s.orders[n].filled
  <2>1. /\ o.filled - s.orders[n].filled \in Nat \ {0}
        /\ o.state \in Open => remaining_quantity(o) \in Nat \ {0}
    BY <1>2, <1>3, <1>6, ExitedFill
  <2>2. CASE o.side = "BUY"
    <3>1. Protected(u, guarded, {n}) /\ Paired(guarded.orders)
      <4>1. {n} \subseteq DOMAIN u.orders /\ o.filled - s.orders[n].filled \in Nat \ {0}
        BY <1>4, <2>1
      <4> QED BY <1>2, <1>3, <1>4, <1>5, <4>1, CreateGood, CreatePaired
    <3> HIDE DEF guarded
    <3>2. guarded.failure = {} => Paired(kept.orders) /\ kept.orders[n] = guarded.orders[n]
      BY <1>3, <1>4, <3>1, SameBarPaired
    <3> HIDE DEF kept
    <3>3. guarded.orders[n] = o
      BY <1>4, <3>1 DEF Protected, Grown
    <3>4. v = then(guarded, kept)
      BY <2>2
    <3> HIDE DEF v
    <3>5. Paired(v.orders) /\ v.orders[n] = o
      BY <3>1, <3>2, <3>3, <3>4 DEF then
    <3>6. o.filled > s.orders[n].filled
      <4>1. o.filled \in Nat /\ s.orders[n].filled \in Nat
        BY <1>3, <1>4, OrdersAre DEF TrackedOrder
      <4> QED BY <2>1, <4>1
    <3> QED BY <3>5, <3>6
  <2>3. CASE o.side # "BUY" /\ o.state = "PARTIALLY_FILLED"
    <3>1. remaining_quantity(o) \in Nat \ {0}
      BY <2>1, <2>3 DEF Open
    <3>2. Paired(replace_oco_sibling(u, n, at).orders)
      BY <1>3, <1>4, <1>5, <3>1, ReplacePaired DEF ExitedOrders
    <3> QED BY <2>3, <3>2
  <2>4. CASE o.side # "BUY" /\ o.state # "PARTIALLY_FILLED"
    BY <1>5, <2>4
  <2> QED BY <2>2, <2>3, <2>4
<1> HIDE DEF v
<1>7. Paired(w.orders)
  BY <1>5, <1>6 DEF then
<1>8. r.orders = w.orders /\ (r.failure = {} => w.failure = {})
  <2>1. Sound(r)
    BY FillOrderGood DEF Good
  <2> HIDE DEF r, w
  <2> QED BY <1>1, <2>1, ReleasedSame
<1>9. ASSUME s.orders[n].side = "BUY", w.failure = {}
      PROVE  w.orders[n].filled > s.orders[n].filled
  <2>1. u.failure = {} /\ w = v
    BY <1>9 DEF then
  <2>2. o.side = s.orders[n].side
    BY <1>5 DEF ExitedOrders, SameOrder
  <2> QED BY <1>6, <1>9, <2>1, <2>2
<1> HIDE DEF r, w
<1>10. Paired(r.orders) /\ (s.orders[n].side = "BUY" /\ r.failure = {}
                             => r.orders[n].filled > s.orders[n].filled)
  BY <1>7, <1>8, <1>9
<1> QED BY <1>10 DEF r

-----------------------------------------------------------------------------
(* The replay: an exit keeps the stop of what remains.                     *)

StopTerm(os, x) ==
    [n \in DOMAIN os |-> IF live_stop(os[n], x) THEN remaining_quantity(os[n]) ELSE 0]

LEMMA StopTyped ==
  ASSUME NEW os \in Seq(TrackedOrder), NEW x
  PROVE  /\ StopTerm(os, x) \in [1 .. Len(os) -> Int] /\ IsFiniteSet(1 .. Len(os))
         /\ stop_cover(os, x) = SumFunction(StopTerm(os, x)) /\ stop_cover(os, x) \in Int
         /\ \A n \in 1 .. Len(os) :
              StopTerm(os, x)[n] = IF live_stop(os[n], x) THEN remaining_quantity(os[n]) ELSE 0
<1>1. Len(os) \in Nat /\ DOMAIN os = 1 .. Len(os) /\ \A n \in 1 .. Len(os) : os[n] \in TrackedOrder
  OBVIOUS
<1>2. \A n \in 1 .. Len(os) : remaining_quantity(os[n]) \in Int
  BY <1>1 DEF TrackedOrder, remaining_quantity
<1>3. /\ StopTerm(os, x) \in [1 .. Len(os) -> Int]
      /\ \A n \in 1 .. Len(os) :
           StopTerm(os, x)[n] = IF live_stop(os[n], x) THEN remaining_quantity(os[n]) ELSE 0
  BY <1>1, <1>2 DEF StopTerm
<1>4. IsFiniteSet(1 .. Len(os))
  BY <1>1, FS_Interval
<1> QED BY <1>3, <1>4, SumInteger DEF stop_cover, StopTerm

\* A new order covers what remains of it, if it is a stop.
LEMMA CoverMore ==
  ASSUME NEW os \in Seq(TrackedOrder), NEW after \in Seq(TrackedOrder), Len(after) = Len(os) + 1,
         \A n \in DOMAIN os : after[n] = os[n], NEW x
  PROVE  LET o == after[Len(os) + 1]
         IN  stop_cover(after, x)
               = stop_cover(os, x) + (IF live_stop(o, x) THEN remaining_quantity(o) ELSE 0)
<1> DEFINE n == Len(os)
           f == StopTerm(os, x)
           k == StopTerm(after, x)
           o == after[n + 1]
<1>1. n \in Nat /\ DOMAIN os = 1 .. n /\ n + 1 \in 1 .. n + 1 /\ \A d \in 1 .. n : d \in 1 .. n + 1
  OBVIOUS
<1>2. /\ f \in [1 .. n -> Int] /\ k \in [1 .. n + 1 -> Int]
      /\ k[n + 1] = (IF live_stop(o, x) THEN remaining_quantity(o) ELSE 0)
      /\ \A d \in 1 .. n : k[d] = f[d]
  <2>1. k \in [1 .. Len(after) -> Int] /\ f \in [1 .. n -> Int]
    BY StopTyped
  <2>2. \A d \in 1 .. Len(after) :
          k[d] = IF live_stop(after[d], x) THEN remaining_quantity(after[d]) ELSE 0
    BY StopTyped
  <2>3. \A d \in 1 .. n : f[d] = IF live_stop(os[d], x) THEN remaining_quantity(os[d]) ELSE 0
    BY StopTyped
  <2>4. Len(after) = n + 1
    OBVIOUS
  <2> HIDE DEF f, k, n
  <2> QED BY <1>1, <2>1, <2>2, <2>3, <2>4
<1> HIDE DEF f, k, n, o
<1>3. SumFunction(k) = SumFunction(f) + k[n + 1]
  BY <1>1, <1>2, SumExtended
<1>4. stop_cover(os, x) = SumFunction(f) /\ stop_cover(after, x) = SumFunction(k)
  BY StopTyped DEF f, k
<1> QED BY <1>2, <1>3, <1>4 DEF o, n

\* One order covers more or less than it did.
LEMMA CoverOne ==
  ASSUME NEW os \in Seq(TrackedOrder), NEW after \in Seq(TrackedOrder), DOMAIN after = DOMAIN os,
         NEW n \in DOMAIN os, NEW x,
         \A m \in DOMAIN os \ {n} : StopTerm(after, x)[m] = StopTerm(os, x)[m]
  PROVE  /\ stop_cover(after, x) = stop_cover(os, x) + (StopTerm(after, x)[n] - StopTerm(os, x)[n])
         /\ StopTerm(after, x)[n] \in Int /\ StopTerm(os, x)[n] \in Int
<1> DEFINE f == StopTerm(os, x)
           k == StopTerm(after, x)
           D == 1 .. Len(os)
<1>1. DOMAIN os = D /\ 1 .. Len(after) = D /\ n \in D
  OBVIOUS
<1>2. /\ f \in [D -> Int] /\ k \in [D -> Int] /\ IsFiniteSet(D)
      /\ stop_cover(os, x) = SumFunction(f) /\ stop_cover(after, x) = SumFunction(k)
  <2>1. k \in [1 .. Len(after) -> Int] /\ stop_cover(after, x) = SumFunction(k)
    BY StopTyped
  <2>2. f \in [D -> Int] /\ IsFiniteSet(D) /\ stop_cover(os, x) = SumFunction(f)
    BY StopTyped
  <2> HIDE DEF f, k, D
  <2> QED BY <1>1, <2>1, <2>2
<1>3. \A d \in D \ {n} : f[d] = k[d]
  BY <1>1
<1> HIDE DEF f, k, D
<1>4. SumFunction(k) = SumFunction(f) + (k[n] - f[n])
  BY <1>1, <1>2, <1>3, SumChanged
<1>5. k[n] \in Int /\ f[n] \in Int
  BY <1>1, <1>2
<1> QED BY <1>2, <1>4, <1>5 DEF f, k

\* What an exit takes from the cover is what it sold, or, when the target fills and the stop
\* is cancelled, all that the stop covered.
LEMMA CoverExit ==
  ASSUME NEW s, Sound(s), Paired(s.orders), NEW n \in DOMAIN s.orders, s.orders[n].state \in Open,
         NEW u, Sound(u), ExitedOrders(s, u, n), NEW q \in Nat,
         FilledBy(s.orders[n], u.orders[n], q)
  PROVE  LET x == s.orders[n].instrument
         IN  \/ \A y : stop_cover(u.orders, y) >= stop_cover(s.orders, y) - (IF y = x THEN q ELSE 0)
             \/ /\ \E m \in DOMAIN s.orders :
                     SameGroup(s.orders[m], s.orders[n]) /\ s.orders[m].kind = "STOP_MARKET"
                /\ s.orders[n].kind = "LIMIT"
                /\ \A y : stop_cover(u.orders, y)
                            = stop_cover(s.orders, y)
                                - (IF y = x THEN remaining_quantity(s.orders[n]) ELSE 0)
<1> DEFINE os == s.orders
           after == u.orders
           o == os[n]
           x == o.instrument
           stops == {m \in siblings(s, n) : os[m].kind = "STOP_MARKET"}
<1>1. /\ os \in Seq(TrackedOrder) /\ after \in Seq(TrackedOrder) /\ DOMAIN after = DOMAIN os
      /\ DOMAIN os = 1 .. Len(os) /\ 1 .. Len(after) = 1 .. Len(os)
      /\ \A m \in DOMAIN os : os[m] \in TrackedOrder
  BY OrdersAre DEF Sound, ExitedOrders
<1>2. /\ \A y : stop_cover(os, y) \in Int
      /\ \A y : \A m \in DOMAIN os :
           /\ StopTerm(os, y)[m] = IF live_stop(os[m], y) THEN remaining_quantity(os[m]) ELSE 0
           /\ StopTerm(after, y)[m]
                = IF live_stop(after[m], y) THEN remaining_quantity(after[m]) ELSE 0
  BY <1>1, StopTyped DEF StopTerm
<1>3. /\ \A m \in DOMAIN os : SameOrder(os[m], after[m])
      /\ \A m \in siblings(s, n) : m \in DOMAIN os \ {n} /\ after[m].state \notin Open
      /\ \A m \in DOMAIN os : m \notin siblings(s, n) \union {n} => after[m] = os[m]
  BY DEF ExitedOrders, siblings
<1>4. /\ remaining_quantity(after[n]) = remaining_quantity(o) - q
      /\ after[n].state \in Open <=> remaining_quantity(after[n]) # 0
      /\ remaining_quantity(o) \in Int
  <2>1. o \in TrackedOrder
    BY <1>1
  <2> HIDE DEF o
  <2>2. remaining_quantity(o) \in Int
    BY <2>1 DEF remaining_quantity, TrackedOrder
  <2> QED BY <2>2 DEF FilledBy, o
<1>5. \A m \in siblings(s, n) :
        /\ SameGroup(os[m], o) /\ os[m].state \in Open /\ Leg(os[m]) /\ Leg(o) /\ Twins(os[m], o)
  BY DEF siblings, SameGroup, Paired
<1> HIDE DEF os, after
<1>6. CASE stops = {}
  <2> SUFFICES ASSUME NEW y
               PROVE  stop_cover(after, y) >= stop_cover(os, y) - (IF y = x THEN q ELSE 0)
    BY DEF os, after
  <2>1. ASSUME NEW m \in DOMAIN os \ {n} PROVE StopTerm(after, y)[m] = StopTerm(os, y)[m]
    <3>1. CASE m \in siblings(s, n)
      <4>1. os[m].kind # "STOP_MARKET"
        BY <1>6, <3>1
      <4> QED BY <1>2, <1>3, <3>1, <4>1 DEF live_stop
    <3>2. CASE m \notin siblings(s, n)
      BY <1>2, <1>3, <2>1, <3>2
    <3> QED BY <3>1, <3>2
  <2>2. /\ stop_cover(after, y) = stop_cover(os, y) + (StopTerm(after, y)[n] - StopTerm(os, y)[n])
        /\ StopTerm(after, y)[n] \in Int /\ StopTerm(os, y)[n] \in Int
    BY <1>1, <2>1, CoverOne DEF os
  <2>3. CASE live_stop(o, y)
    <3>1. y = x /\ StopTerm(os, y)[n] = remaining_quantity(o)
      BY <1>2, <2>3 DEF live_stop, os
    <3>2. StopTerm(after, y)[n] = remaining_quantity(o) - q
      <4>1. SameOrder(o, after[n])
        BY <1>3 DEF os
      <4>2. after[n].state \in Open => live_stop(after[n], y)
        BY <2>3, <4>1 DEF live_stop, SameOrder
      <4>3. after[n].state \notin Open => ~live_stop(after[n], y) /\ remaining_quantity(o) - q = 0
        BY <1>4 DEF live_stop
      <4> QED BY <1>2, <1>4, <4>2, <4>3 DEF os
    <3> QED BY <1>2, <1>4, <2>2, <3>1, <3>2
  <2>4. CASE ~live_stop(o, y)
    <3>1. ~live_stop(after[n], y)
      <4>1. SameOrder(o, after[n])
        BY <1>3 DEF os
      <4> QED BY <2>4, <4>1 DEF live_stop, SameOrder, os
    <3>2. StopTerm(after, y)[n] = 0 /\ StopTerm(os, y)[n] = 0
      BY <1>2, <2>4, <3>1 DEF os
    <3> QED BY <1>2, <2>2, <3>2
  <2> QED BY <2>3, <2>4
<1>7. CASE stops # {}
  <2>1. PICK m \in siblings(s, n) : os[m].kind = "STOP_MARKET"
    BY <1>7
  <2>2. /\ m \in DOMAIN os \ {n} /\ SameGroup(os[m], o) /\ os[m].instrument = x
        /\ remaining_quantity(os[m]) = remaining_quantity(o) /\ o.kind = "LIMIT"
        /\ os[m].reduce_only /\ os[m].state \in Open
    BY <1>3, <1>5, <2>1 DEF Leg, Twins, SameGroup
  <2>3. \A d \in siblings(s, n) : d = m
    <3> SUFFICES ASSUME NEW d \in siblings(s, n), d # m PROVE FALSE
      OBVIOUS
    <3>1. os[d].kind = "STOP_MARKET"
      BY <1>5, <2>2 DEF Leg, Twins, SameGroup
    <3>2. SameGroup(os[d], os[m]) /\ os[d].state \in Open /\ d \in DOMAIN os
      BY <1>3, <1>5, <2>2 DEF SameGroup
    <3>3. Twins(os[d], os[m])
      BY <2>2, <3>2 DEF Paired, os
    <3> QED BY <2>1, <3>1, <3>3 DEF Twins
  <2>4. ASSUME NEW y
        PROVE  stop_cover(after, y) = stop_cover(os, y) - (IF y = x THEN remaining_quantity(o) ELSE 0)
    <3>1. ASSUME NEW d \in DOMAIN os \ {m} PROVE StopTerm(after, y)[d] = StopTerm(os, y)[d]
      <4>1. CASE d = n
        <5>1. SameOrder(o, after[n])
          BY <1>3 DEF os
        <5>2. ~live_stop(o, y) /\ ~live_stop(after[n], y)
          BY <2>2, <5>1 DEF live_stop, SameOrder
        <5> QED BY <1>2, <4>1, <5>2 DEF os
      <4>2. CASE d # n
        BY <1>2, <1>3, <2>3, <3>1, <4>2
      <4> QED BY <4>1, <4>2
    <3>2. stop_cover(after, y) = stop_cover(os, y) + (StopTerm(after, y)[m] - StopTerm(os, y)[m])
      <4>1. m \in DOMAIN os
        BY <2>2
      <4> QED BY <1>1, <3>1, <4>1, CoverOne DEF os
    <3>3. StopTerm(after, y)[m] = 0
      BY <1>2, <1>3, <2>2 DEF live_stop
    <3>4. StopTerm(os, y)[m] = IF y = x THEN remaining_quantity(o) ELSE 0
      BY <1>2, <2>1, <2>2 DEF live_stop
    <3> QED BY <1>2, <1>4, <3>2, <3>3, <3>4
  <2> QED BY <2>1, <2>2, <2>4 DEF os, after
<1> QED BY <1>6, <1>7

\* A new leg covers what it may sell, and placing an order moves no shares.
LEMMA PlaceCovers ==
  ASSUME NEW s, Sound(s), NEW i \in OrderIntent, i.side = "SELL" \/ reserve_refusals(s.ledger, i) = {}
  PROVE  LET t == place(s, i)
         IN  /\ t.ledger.lots = s.ledger.lots
             /\ \A y : stop_cover(t.orders, y)
                  = stop_cover(s.orders, y)
                      + (IF i.instrument = y /\ i.kind = "STOP_MARKET" /\ i.reduce_only
                         THEN i.quantity ELSE 0)
<1> DEFINE t == place(s, i)
           k == Len(s.orders) + 1
           o == accept(i)
<1>1. Placed(s, t, i)
  BY PlaceEffect
<1>2. /\ t.orders \in Seq(TrackedOrder) /\ s.orders \in Seq(TrackedOrder) /\ Len(t.orders) = k
      /\ t.orders[k] = o /\ \A n \in DOMAIN s.orders : t.orders[n] = s.orders[n]
      /\ t.ledger = reserve(s.ledger, k, i) /\ k \in Nat /\ k \notin DOMAIN s.orders
  BY <1>1 DEF Placed, Sound
<1>3. SameOrder(i, o) /\ o.state \in Open /\ remaining_quantity(o) = i.quantity
  BY AcceptSame
<1> HIDE DEF t, o
<1>4. t.ledger.lots = s.ledger.lots
  <2>1. k \in Nat /\ k \notin DOMAIN s.ledger.reservations /\ LedgerGood(s.ledger)
    BY <1>2 DEF Sound
  <2> HIDE DEF k
  <2> QED BY <1>2, <2>1, ReserveGood
<1>5. ASSUME NEW y
      PROVE  stop_cover(t.orders, y)
               = stop_cover(s.orders, y)
                   + (IF i.instrument = y /\ i.kind = "STOP_MARKET" /\ i.reduce_only
                      THEN i.quantity ELSE 0)
  <2>1. stop_cover(t.orders, y)
          = stop_cover(s.orders, y) + (IF live_stop(o, y) THEN remaining_quantity(o) ELSE 0)
    BY <1>2, CoverMore
  <2>2. live_stop(o, y) <=> i.instrument = y /\ i.kind = "STOP_MARKET" /\ i.reduce_only
    BY <1>3 DEF live_stop, SameOrder
  <2> QED BY <1>3, <2>1, <2>2
<1> QED BY <1>4, <1>5 DEF t

\* What a sale does to its order and to the shares held.
Sold(s, u, n, q) ==
    /\ FilledBy(s.orders[n], u.orders[n], q) /\ u.orders[n].state # "ACCEPTED"
    /\ \A y : Position(u.ledger.lots, y)
                = Position(s.ledger.lots, y) - (IF y = s.orders[n].instrument THEN q ELSE 0)

LEMMA SaleIs ==
  ASSUME NEW s, Sound(s), NEW n \in DOMAIN s.orders, s.orders[n].side = "SELL", NEW b, IsBar(b),
         NEW same, match(s.orders[n], b, same), NEW t, NEW u, Exited(s, t, u, n, b), u.failure = {}
  PROVE  \E q \in Nat : Sold(s, u, n, q)
<1> DEFINE o == s.orders[n]
           fill == fill_of(n, o, b)
           q == fill.quantity
           p == order_fill(o, q, b.available)
           ids == siblings(s, n)
<1>1. o \in TrackedOrder /\ t.orders[n] = o /\ DOMAIN t.orders = DOMAIN s.orders /\ LedgerGood(s.ledger)
  BY OrdersAre DEF Exited, Sound
<1>2. FillFor(fill, n, o)
  <2>1. match(o, b, same)
    OBVIOUS
  <2> HIDE DEF o
  <2> QED BY <1>1, <2>1, FillTyped
<1>3. q \in Nat /\ b.available \in Int /\ fill.side = "SELL" /\ fill.instrument = o.instrument /\ IsFill(fill)
  BY <1>2 DEF FillFor, IsFill, IsBar
<1>4. /\ t.failure = {} /\ t.ledger = release(s.ledger, ids)
      /\ fill_refusals(t.ledger, fill) = {} /\ u.ledger = apply_fill(t.ledger, fill)
      /\ u.orders = [t.orders EXCEPT ![n] = p]
  <2>1. t.failure = {} /\ Booked(t, u, n, b) /\ t.ledger = release(s.ledger, ids)
    BY DEF Exited, Ended
  <2> QED BY <1>1, <2>1 DEF Booked
<1>5. u.orders[n] = p /\ p.state # "ACCEPTED"
  <2>1. p.state # "ACCEPTED"
    <3> HIDE DEF q
    <3> QED BY <1>1 DEF order_fill, TrackedOrder
  <2> QED BY <1>1, <1>4, <2>1
<1> HIDE DEF fill, q, p, ids
<1>6. FilledBy(o, p, q)
  <2> HIDE DEF o
  <2> QED BY <1>1, <1>3, OrderFillTyped DEF p
<1>7. LedgerGood(t.ledger) /\ t.ledger.lots = s.ledger.lots
  BY <1>1, <1>4, ReleaseGood
<1>8. u.ledger.lots = consume_fifo(t.ledger.lots, fill.instrument, q).lots
  <2> DEFINE L == t.ledger
  <2>1. LedgerGood(L) /\ IsFill(fill) /\ fill_refusals(L, fill) = {}
    BY <1>3, <1>4, <1>7
  <2> HIDE DEF L
  <2>2. LotsAfter(L.lots, apply_fill(L, fill).lots, fill)
    BY <2>1, FillGood
  <2> QED BY <1>3, <1>4, <2>2 DEF LotsAfter, q, L
<1>9. q <= Position(t.ledger.lots, fill.instrument)
  <2>1. ~(q > position_quantity(t.ledger, fill.instrument))
    BY <1>3, <1>4, Unrefused DEF q
  <2>2. /\ position_quantity(t.ledger, fill.instrument) = Position(t.ledger.lots, fill.instrument)
        /\ Position(t.ledger.lots, fill.instrument) \in Nat
    BY <1>7, PositionIs, PositionTyped DEF LedgerGood
  <2> QED BY <1>3, <2>1, <2>2
<1>10. \A y : Position(u.ledger.lots, y)
                = Position(s.ledger.lots, y) - (IF y = fill.instrument THEN q ELSE 0)
  <2> DEFINE lots == s.ledger.lots
             x == fill.instrument
  <2>1. lots \in Seq(Lot) /\ q <= Position(lots, x)
    BY <1>7, <1>9 DEF LedgerGood
  <2> HIDE DEF lots, x
  <2>2. \A y : Position(consume_fifo(lots, x, q).lots, y) = Position(lots, y) - (IF y = x THEN q ELSE 0)
    BY <1>3, <2>1, PositionSold
  <2> QED BY <1>7, <1>8, <2>2 DEF lots, x
<1> QED BY <1>3, <1>5, <1>6, <1>10 DEF Sold

\* What no exit may do to the shares without a stop.
Stopped(s, t) ==
    \A y : Position(t.ledger.lots, y) - stop_cover(t.orders, y)
             <= Position(s.ledger.lots, y) - stop_cover(s.orders, y)

\* What comes back after a partial sale covers the rest; the reservation moves no shares.
LEMMA ReplaceCovers ==
  ASSUME NEW s, Sound(s), NEW n \in DOMAIN s.orders,
         remaining_quantity(s.orders[n]) \in Nat \ {0}, NEW at \in Int
  PROVE  LET t == replace_oco_sibling(s, n, at)
             o == s.orders[n]
         IN  /\ t.ledger.lots = s.ledger.lots
             /\ \A y : stop_cover(t.orders, y) >= stop_cover(s.orders, y)
             /\ ((\E m \in DOMAIN s.orders : SameGroup(s.orders[m], o) /\ s.orders[m].kind = "STOP_MARKET")
                   /\ o.kind = "LIMIT")
                  => \A y : stop_cover(t.orders, y)
                              = stop_cover(s.orders, y)
                                  + (IF y = o.instrument THEN remaining_quantity(o) ELSE 0)
<1> DEFINE t == replace_oco_sibling(s, n, at)
           o == s.orders[n]
           kind == IF o.kind = "STOP_MARKET" THEN "LIMIT" ELSE "STOP_MARKET"
           stop == (\E m \in DOMAIN s.orders : SameGroup(s.orders[m], o) /\ s.orders[m].kind = "STOP_MARKET")
                   /\ o.kind = "LIMIT"
<1>1. Replaced(s, t, n)
  BY ReplaceEffect
<1>2. \A y : stop_cover(s.orders, y) \in Int
  BY StopTyped DEF Sound
<1> HIDE DEF t
<1>3. ASSUME t = s, \A m \in DOMAIN s.orders : SameGroup(s.orders[m], o) => s.orders[m].kind # kind
      PROVE  t.ledger.lots = s.ledger.lots /\ ~stop
             /\ \A y : stop_cover(t.orders, y) >= stop_cover(s.orders, y)
  BY <1>2, <1>3
<1>4. ASSUME NEW i \in Sale(o.instrument, remaining_quantity(o), o.group),
             i.kind = kind, i.reduce_only, o.group # 0, t = place(s, i)
      PROVE  /\ t.ledger.lots = s.ledger.lots
             /\ \A y : stop_cover(t.orders, y) >= stop_cover(s.orders, y)
             /\ stop => \A y : stop_cover(t.orders, y)
                                 = stop_cover(s.orders, y)
                                     + (IF y = o.instrument THEN remaining_quantity(o) ELSE 0)
  <2>1. /\ i \in OrderIntent /\ i.side = "SELL" /\ i.instrument = o.instrument
        /\ i.quantity = remaining_quantity(o)
    BY DEF Sale
  <2>2. stop => i.kind = "STOP_MARKET"
    BY <1>4
  <2> HIDE DEF stop, o, kind
  <2>3. /\ t.ledger.lots = s.ledger.lots
        /\ \A y : stop_cover(t.orders, y)
             = stop_cover(s.orders, y)
                 + (IF i.instrument = y /\ i.kind = "STOP_MARKET" /\ i.reduce_only
                    THEN i.quantity ELSE 0)
    BY <1>4, <2>1, PlaceCovers
  <2>4. i.quantity \in Nat
    BY <2>1 DEF OrderIntent
  <2> QED BY <1>2, <1>4, <2>1, <2>2, <2>3, <2>4
<1>5. /\ t.ledger.lots = s.ledger.lots
      /\ \A y : stop_cover(t.orders, y) >= stop_cover(s.orders, y)
      /\ stop => \A y : stop_cover(t.orders, y)
                          = stop_cover(s.orders, y)
                              + (IF y = o.instrument THEN remaining_quantity(o) ELSE 0)
  <2> HIDE DEF stop
  <2> QED BY <1>1, <1>3, <1>4 DEF Replaced
<1> QED BY <1>5 DEF t

\* A sale with all that follows leaves no more shares without a stop than there were.
LEMMA SaleKeepsStops ==
  ASSUME NEW s, Good(s, {}), Paired(s.orders), NEW n \in DOMAIN s.orders, s.orders[n].side = "SELL",
         NEW b, IsBar(b), match(s.orders[n], b, FALSE), fill_order(s, n, b).failure = {}
  PROVE  Stopped(s, fill_order(s, n, b))
<1> DEFINE at == b.available
           t == cancel_oco_siblings(s, n, at)
           u == then(t, booked(t, n, b))
           o == u.orders[n]
           children == (Len(u.orders) + 1)..(Len(u.orders) + 2)
           guarded == create_protection(u, n, o.filled - s.orders[n].filled, at)
           kept == match_same_bar_protection(guarded, children \intersect DOMAIN guarded.orders, b)
           v == IF o.side = "BUY" THEN then(guarded, kept)
                ELSE IF o.state = "PARTIALLY_FILLED" THEN replace_oco_sibling(u, n, at) ELSE u
           w == then(u, v)
           r == fill_order(s, n, b)
<1>1. r = then(w, released(w, n))
  BY DEF fill_order
<1>2. Good(u, {n}) /\ Exited(s, t, u, n, b)
  BY FirstExit
<1>3. at \in Int /\ Sound(u) /\ Sound(s) /\ n \in DOMAIN u.orders
  BY <1>2 DEF IsBar, Good, Exited
<1> HIDE DEF u, t, at
<1>4. ExitedOrders(s, u, n)
  <2> DEFINE same == FALSE
  <2>1. match(s.orders[n], b, same)
    OBVIOUS
  <2> HIDE DEF same
  <2> QED BY <1>2, <1>3, <2>1, ExitPaired
<1>5. SameOrder(s.orders[n], o)
  BY <1>4 DEF ExitedOrders
<1> DEFINE back == replace_oco_sibling(u, n, at)
<1>6. /\ w.failure = {} /\ u.failure = {}
      /\ w = IF o.state = "PARTIALLY_FILLED" THEN back ELSE u
  <2>1. w.failure = {}
    <3> HIDE DEF w
    <3>1. r.failure = {}
      OBVIOUS
    <3> HIDE DEF r
    <3> QED BY <1>1, <3>1 DEF then
  <2> HIDE DEF v
  <2>2. u.failure = {} /\ w = v
    BY <2>1 DEF then
  <2>3. o.side # "BUY"
    BY <1>5 DEF SameOrder
  <2> QED BY <2>1, <2>2, <2>3 DEF v
<1> HIDE DEF w, v, guarded, kept, back
<1>7. PICK q \in Nat : Sold(s, u, n, q)
  <2> DEFINE same == FALSE
  <2>1. match(s.orders[n], b, same)
    OBVIOUS
  <2> HIDE DEF same
  <2> QED BY <1>2, <1>3, <1>6, <2>1, SaleIs
<1>8. /\ o.state \in Open => remaining_quantity(o) \in Nat \ {0}
      /\ remaining_quantity(o) = remaining_quantity(s.orders[n]) - q
      /\ o.state \in Open <=> remaining_quantity(o) # 0
      /\ remaining_quantity(s.orders[n]) \in Int
  <2>1. o.state \in Open => remaining_quantity(o) \in Nat \ {0}
    BY <1>2, <1>3, <1>6, ExitedFill
  <2>2. /\ remaining_quantity(o) = remaining_quantity(s.orders[n]) - q
        /\ o.state \in Open <=> remaining_quantity(o) # 0
    BY <1>7 DEF Sold, FilledBy
  <2>3. remaining_quantity(s.orders[n]) \in Int
    <3> DEFINE e == s.orders[n]
    <3>1. e \in TrackedOrder
      BY <1>3, OrdersAre
    <3> HIDE DEF e
    <3>2. remaining_quantity(e) \in Int
      BY <3>1 DEF TrackedOrder, remaining_quantity
    <3> QED BY <3>2 DEF e
  <2> QED BY <2>1, <2>2, <2>3
<1> DEFINE x == s.orders[n].instrument
           all == remaining_quantity(s.orders[n])
           stop == /\ \E m \in DOMAIN s.orders :
                        SameGroup(s.orders[m], s.orders[n]) /\ s.orders[m].kind = "STOP_MARKET"
                   /\ s.orders[n].kind = "LIMIT"
<1>9. \/ \A y : stop_cover(u.orders, y) >= stop_cover(s.orders, y) - (IF y = x THEN q ELSE 0)
      \/ stop /\ \A y : stop_cover(u.orders, y) = stop_cover(s.orders, y) - (IF y = x THEN all ELSE 0)
  <2>1. s.orders[n].state \in Open
    BY DEF match
  <2>2. FilledBy(s.orders[n], u.orders[n], q)
    BY <1>7 DEF Sold
  <2>3. \/ \A y : stop_cover(u.orders, y)
                    >= stop_cover(s.orders, y) - (IF y = s.orders[n].instrument THEN q ELSE 0)
        \/ /\ \E m \in DOMAIN s.orders :
                SameGroup(s.orders[m], s.orders[n]) /\ s.orders[m].kind = "STOP_MARKET"
           /\ s.orders[n].kind = "LIMIT"
           /\ \A y : stop_cover(u.orders, y)
                       = stop_cover(s.orders, y)
                           - (IF y = s.orders[n].instrument THEN remaining_quantity(s.orders[n]) ELSE 0)
    BY <1>3, <1>4, <2>1, <2>2, CoverExit
  <2> QED BY <2>3
<1>10. ASSUME stop
       PROVE  /\ o.kind = "LIMIT"
              /\ \E m \in DOMAIN u.orders : SameGroup(u.orders[m], o) /\ u.orders[m].kind = "STOP_MARKET"
  <2>1. PICK m \in DOMAIN s.orders :
          SameGroup(s.orders[m], s.orders[n]) /\ s.orders[m].kind = "STOP_MARKET"
    BY <1>10
  <2>2. m \in DOMAIN u.orders /\ SameOrder(s.orders[m], u.orders[m])
    BY <1>4 DEF ExitedOrders
  <2>3. SameGroup(u.orders[m], o) /\ u.orders[m].kind = "STOP_MARKET"
    BY <1>5, <2>1, <2>2 DEF SameGroup, SameOrder
  <2>4. o.kind = "LIMIT"
    BY <1>5, <1>10 DEF SameOrder
  <2> QED BY <2>2, <2>3, <2>4
<1> HIDE DEF stop
<1>11. ASSUME o.state \in Open
       PROVE  /\ back.ledger.lots = u.ledger.lots
              /\ \A y : stop_cover(back.orders, y) >= stop_cover(u.orders, y)
              /\ stop => \A y : stop_cover(back.orders, y)
                                  = stop_cover(u.orders, y)
                                      + (IF y = x THEN remaining_quantity(o) ELSE 0)
  <2>1. remaining_quantity(o) \in Nat \ {0}
    BY <1>8, <1>11
  <2>2. /\ back.ledger.lots = u.ledger.lots
        /\ \A y : stop_cover(back.orders, y) >= stop_cover(u.orders, y)
        /\ ((\E m \in DOMAIN u.orders : SameGroup(u.orders[m], o) /\ u.orders[m].kind = "STOP_MARKET")
              /\ o.kind = "LIMIT")
             => \A y : stop_cover(back.orders, y)
                         = stop_cover(u.orders, y)
                             + (IF y = o.instrument THEN remaining_quantity(o) ELSE 0)
    BY <1>3, <2>1, ReplaceCovers DEF back
  <2>3. o.instrument = x
    BY <1>5 DEF SameOrder
  <2> QED BY <1>10, <2>2, <2>3
<1>12. o.state = "PARTIALLY_FILLED" \/ o.state \notin Open
  BY <1>7 DEF Sold, Open
<1>13. w.ledger.lots = u.ledger.lots
  BY <1>6, <1>11, <1>12 DEF Open
<1>14. r.orders = w.orders /\ r.ledger.lots = w.ledger.lots /\ Sound(r)
  <2>1. Sound(r)
    BY FillOrderGood DEF Good
  <2> HIDE DEF r, w
  <2> QED BY <1>1, <2>1, ReleasedSame
<1> HIDE DEF r
<1>15. ASSUME NEW y
       PROVE  stop_cover(w.orders, y) >= stop_cover(s.orders, y) - (IF y = x THEN q ELSE 0)
  <2>0. stop_cover(s.orders, y) \in Int /\ stop_cover(u.orders, y) \in Int /\ stop_cover(w.orders, y) \in Int
    BY <1>3, <1>14, StopTyped DEF Sound
  <2>1. CASE o.state = "PARTIALLY_FILLED"
    <3>1. w = back /\ o.state \in Open
      BY <1>6, <2>1 DEF Open
    <3>2. CASE stop_cover(u.orders, y) >= stop_cover(s.orders, y) - (IF y = x THEN q ELSE 0)
      BY <1>11, <2>0, <3>1, <3>2
    <3>3. CASE stop /\ stop_cover(u.orders, y) = stop_cover(s.orders, y) - (IF y = x THEN all ELSE 0)
      BY <1>8, <1>11, <2>0, <3>1, <3>3
    <3> QED BY <1>9, <3>2, <3>3
  <2>2. CASE o.state \notin Open
    <3>1. w = u /\ all = q
      BY <1>6, <1>8, <2>2 DEF Open
    <3> QED BY <1>9, <2>0, <3>1
  <2> QED BY <1>12, <2>1, <2>2
<1>16. Stopped(s, w)
  <2> SUFFICES ASSUME NEW y
               PROVE  Position(w.ledger.lots, y) - stop_cover(w.orders, y)
                        <= Position(s.ledger.lots, y) - stop_cover(s.orders, y)
    BY DEF Stopped
  <2>1. Position(w.ledger.lots, y) = Position(s.ledger.lots, y) - (IF y = x THEN q ELSE 0)
    BY <1>7, <1>13 DEF Sold
  <2>2. Position(s.ledger.lots, y) \in Nat /\ stop_cover(s.orders, y) \in Int
    BY <1>3, PositionTyped, StopTyped DEF Sound, LedgerGood
  <2>3. stop_cover(w.orders, y) \in Int
    BY <1>14, StopTyped DEF Sound
  <2> QED BY <1>15, <2>1, <2>2, <2>3
<1>17. Stopped(s, r)
  BY <1>14, <1>16 DEF Stopped
<1> QED BY <1>17 DEF r

-----------------------------------------------------------------------------
(* The replay: exits never unstop shares.                                  *)

\* A corporate action changes no order.
LEMMA EffectOrders ==
  ASSUME NEW s, Sound(s), NEW a PROVE effect(s, a).orders = s.orders
<1>1. {"ledger", "orders", "failure"} \subseteq DOMAIN s
  BY DEF Sound
<1> DEFINE L == apply_split(s.ledger, a.instrument, a.amount)
           M == apply_delisting(s.ledger, a.instrument, a.amount)
           N == apply_dividend(s.ledger, a.instrument, a.amount)
           no == when(has_reservation(s.ledger, a.instrument), "reservations left")
<1>2. effect(s, a) = CASE a.type = "SPLIT"    -> fail([s EXCEPT !.ledger = L], no)
                       [] a.type = "DIVIDEND" -> [s EXCEPT !.ledger = N]
                       [] a.type = "DELIST"   -> fail([s EXCEPT !.ledger = M], no)
                       [] OTHER               -> s
  BY DEF effect
<1> HIDE DEF L, M, N, no
<1>3. \A ledgers, reasons : /\ fail([s EXCEPT !.ledger = ledgers], reasons).orders = s.orders
                            /\ [s EXCEPT !.ledger = ledgers].orders = s.orders
  BY <1>1 DEF fail
<1>4. CASE a.type = "SPLIT"
  BY <1>2, <1>3, <1>4
<1>5. CASE a.type = "DIVIDEND"
  BY <1>2, <1>3, <1>5
<1>6. CASE a.type = "DELIST"
  BY <1>2, <1>3, <1>6
<1>7. CASE a.type \notin {"SPLIT", "DIVIDEND", "DELIST"}
  BY <1>2, <1>7
<1> QED BY <1>4, <1>5, <1>6, <1>7

\* The legs of a group stay paired in every step of the run.
LEMMA PairedStep == ReplayInv /\ Paired(orders) /\ [Next]_vars => Paired(orders)'
<1> SUFFICES ASSUME ReplayInv, Paired(orders), [Next]_vars PROVE Paired(orders')
  OBVIOUS
<1>1. /\ Good(now, {}) /\ BarTyped /\ now.ledger = ledger /\ now.orders = orders /\ Sound(now)
      /\ as_of \in Nat
  BY DEF ReplayInv, now, Good, as_of, Period
<1>2. CASE UNCHANGED orders
  BY <1>2
<1>3. ASSUME Expire PROVE Paired(orders')
  <2>1. PICK n \in expired : become(end_orders(now, {n}, "EXPIRED", orders[n].expires))
    BY <1>3 DEF Expire
  <2> DEFINE at == orders[n].expires
             ids == {n}
             state == "EXPIRED"
             t == end_orders(now, ids, state, at)
  <2>2. n \in DOMAIN orders /\ at \in Int /\ state \in OrderEnd
    BY <1>1, <2>1, OrdersAre DEF expired, TrackedOrder, OrderEnd
  <2>3. orders' = t.orders
    BY <2>1 DEF become
  <2> HIDE DEF at, ids, state
  <2>4. Ended(now, t, ids, state, at)
    BY <1>1, <2>2, EndEffect
  <2> HIDE DEF t
  <2>5. Paired(t.orders)
    BY <1>1, <2>2, <2>4, EndPaired
  <2> QED BY <2>3, <2>5
<1>4. ASSUME NEW a \in Actions, CorporateAction(a) PROVE Paired(orders')
  <2> DEFINE ids == open_on(now, a.instrument)
             at == as_of
             state == "CANCELLED"
             s == end_orders(now, ids, state, at)
  <2>1. state \in OrderEnd /\ at \in Int
    BY <1>1 DEF OrderEnd
  <2>2. cancel_orders_for_action(now, a.instrument) = s
    BY DEF cancel_orders_for_action
  <2> HIDE DEF at, ids, state
  <2>3. Ended(now, s, ids, state, at) /\ Good(s, {})
    <3>1. ids \intersect {} = {}
      OBVIOUS
    <3> QED BY <1>1, <2>1, <3>1, EndEffect, EndGood
  <2> HIDE DEF s
  <2>4. Paired(s.orders)
    BY <1>1, <2>1, <2>3, EndPaired
  <2>5. effect(s, a).orders = s.orders
    BY <2>3, EffectOrders DEF Good
  <2>6. orders' = orders \/ orders' = s.orders
    BY <1>4, <2>2, <2>5 DEF CorporateAction, become, then
  <2> QED BY <2>4, <2>6
<1>5. ASSUME NEW n \in DOMAIN orders, MatchOrder(n) PROVE Paired(orders')
  <2>1. /\ bar # NoBar /\ match(orders[n], bar.at, FALSE) /\ become(fill_order(now, n, bar.at))
    BY <1>5 DEF MatchOrder, matching
  <2>2. IsBar(bar.at)
    BY <1>1, <2>1 DEF BarTyped
  <2> DEFINE r == fill_order(now, n, bar.at)
  <2>3. /\ Paired(r.orders)
        /\ now.orders[n].side = "BUY" /\ r.failure = {}
             => r.orders[n].filled > now.orders[n].filled
    BY <1>1, <2>1, <2>2, FillOrderPaired
  <2> QED BY <2>1, <2>3 DEF become
<1>6. ASSUME NEW p \in Proposals, Propose(p) PROVE Paired(orders')
  <2> DEFINE i == intent_of(p)
  <2>1. i \in OrderIntent /\ Leg(i) /\ i.group = 0
    <3>1. i \in OrderIntent /\ i.group = 0 /\ ~i.reduce_only
      BY <1>1, IntentTyped DEF intent_of
    <3> HIDE DEF i
    <3> QED BY <3>1 DEF Leg
  <2> HIDE DEF i
  <2>2. Paired(place(now, i).orders)
    <3>1. \A m \in DOMAIN now.orders : ~SameGroup(now.orders[m], i)
      BY <2>1 DEF SameGroup
    <3> QED BY <1>1, <2>1, <3>1, PlacePaired
  <2>3. orders' = orders \/ orders' = place(now, i).orders
    BY <1>6 DEF Propose, become, i
  <2> QED BY <2>2, <2>3
<1>7. ASSUME (\E b \in Bars : BeginBar(b)) \/ EndBar \/ StartProposals \/ EndFrame \/ UNCHANGED vars
      PROVE  Paired(orders')
  <2>1. UNCHANGED orders
    BY <1>7 DEF BeginBar, EndBar, StartProposals, EndFrame, vars
  <2> QED BY <2>1
<1> QED BY <1>3, <1>4, <1>5, <1>6, <1>7 DEF Next

\* A step after which no more shares are without a stop than before.
LEMMA StopsKept ==
  ASSUME ReplayInv, NEW M, NEW os, NEW x,
         Position(M.lots, x) - stop_cover(os, x) <= Position(ledger.lots, x) - stop_cover(orders, x),
         M.lots \in Seq(Lot), os \in Seq(TrackedOrder)
  PROVE  unstopped(M, os, x) <= Max({0, unstopped(ledger, orders, x)})
<1> DEFINE u == unstopped(ledger, orders, x)
           v == unstopped(M, os, x)
<1>1. LedgerGood(ledger) /\ orders \in Seq(TrackedOrder)
  BY DEF ReplayInv, Good, Sound, now
<1>2. u = Position(ledger.lots, x) - stop_cover(orders, x) /\ v = Position(M.lots, x) - stop_cover(os, x)
  BY PositionIs DEF unstopped
<1>3. u \in Int /\ v \in Int
  <2>1. Position(ledger.lots, x) \in Nat /\ Position(M.lots, x) \in Nat
    BY <1>1, PositionTyped DEF LedgerGood
  <2>2. stop_cover(orders, x) \in Int /\ stop_cover(os, x) \in Int
    BY <1>1, StopTyped
  <2> HIDE DEF u, v
  <2> QED BY <1>2, <2>1, <2>2
<1>4. v <= u
  BY <1>2
<1> HIDE DEF u, v
<1>5. Max({0, u}) = IF 0 >= u THEN 0 ELSE u
  BY <1>3, TwoMax
<1>6. v <= Max({0, u})
  BY <1>3, <1>4, <1>5
<1> QED BY <1>6 DEF u, v

\* No exit, full or partial, of either leg and on any later bar takes the stop away from
\* shares that remain.
THEOREM ExitsNeverUnstop == Spec => ExitsKeepStops
<1> DEFINE NoneUnstopped == (phase # "actions" /\ ~entry_filled /\ failure' = {})
                       => \A x \in Instruments :
                            unstopped(ledger', orders', x) <= Max({0, unstopped(ledger, orders, x)})
<1>1. Init => Paired(orders)
  <2> SUFFICES ASSUME Init PROVE Paired(orders)
    OBVIOUS
  <2>1. DOMAIN orders = {}
    BY DEF Init
  <2> QED BY <2>1 DEF Paired
<1>2. ReplayInv /\ ReplayInv' /\ Paired(orders) /\ [Next]_vars => NoneUnstopped
  <2> SUFFICES ASSUME ReplayInv, ReplayInv', Paired(orders), [Next]_vars,
                      phase # "actions", ~entry_filled, failure' = {},
                      NEW x \in Instruments
               PROVE  unstopped(ledger', orders', x) <= Max({0, unstopped(ledger, orders, x)})
    OBVIOUS
  <2>1. /\ Good(now, {}) /\ BarTyped /\ now.ledger = ledger /\ now.orders = orders /\ Sound(now)
        /\ as_of \in Nat
    BY DEF ReplayInv, now, Good, as_of, Period
  <2>2. ledger'.lots \in Seq(Lot) /\ orders' \in Seq(TrackedOrder)
    BY DEF ReplayInv, Good, Sound, now, LedgerGood
  <2>3. Position(ledger.lots, x) \in Nat /\ stop_cover(orders, x) \in Int
    BY <2>1, PositionTyped, StopTyped DEF Sound, LedgerGood
  <2>4. Position(ledger'.lots, x) - stop_cover(orders', x)
          <= Position(ledger.lots, x) - stop_cover(orders, x)
    <3>1. CASE ledger'.lots = ledger.lots /\ orders' = orders
      BY <2>3, <3>1
    <3>2. ASSUME NEW n \in DOMAIN orders, MatchOrder(n)
          PROVE  Position(ledger'.lots, x) - stop_cover(orders', x)
                   <= Position(ledger.lots, x) - stop_cover(orders, x)
      <4> DEFINE r == fill_order(now, n, bar.at)
      <4>1. /\ bar # NoBar /\ match(orders[n], bar.at, FALSE)
            /\ ledger' = r.ledger /\ orders' = r.orders /\ r.failure = {}
        BY <3>2 DEF MatchOrder, matching, become
      <4>2. IsBar(bar.at) /\ orders[n] \in TrackedOrder
        BY <2>1, <4>1, OrdersAre DEF BarTyped
      <4>3. /\ Paired(r.orders)
            /\ now.orders[n].side = "BUY" /\ r.failure = {}
                 => r.orders[n].filled > now.orders[n].filled
        BY <2>1, <4>1, <4>2, FillOrderPaired
      <4>4. orders[n].side = "SELL"
        BY <2>1, <4>1, <4>2, <4>3 DEF entry_filled, TrackedOrder, OrderSide
      <4>5. Stopped(now, r)
        BY <2>1, <4>1, <4>2, <4>4, SaleKeepsStops
      <4> HIDE DEF r
      <4> QED BY <2>1, <4>1, <4>5 DEF Stopped
    <3>3. ASSUME NEW p \in Proposals, Propose(p)
          PROVE  Position(ledger'.lots, x) - stop_cover(orders', x)
                   <= Position(ledger.lots, x) - stop_cover(orders, x)
      <4> DEFINE i == intent_of(p)
                 t == place(now, i)
      <4>1. i \in OrderIntent /\ ~i.reduce_only
        BY <2>1, IntentTyped DEF intent_of
      <4>2. CASE reserve_refusals(ledger, i) = {}
        <5>1. ledger' = t.ledger /\ orders' = t.orders
          BY <3>3, <4>2 DEF Propose, become
        <5> HIDE DEF i
        <5>2. /\ t.ledger.lots = now.ledger.lots
              /\ \A y : stop_cover(t.orders, y)
                   = stop_cover(now.orders, y)
                       + (IF i.instrument = y /\ i.kind = "STOP_MARKET" /\ i.reduce_only
                          THEN i.quantity ELSE 0)
          BY <2>1, <4>1, <4>2, PlaceCovers
        <5>3. stop_cover(t.orders, x) = stop_cover(orders, x)
          BY <2>1, <2>3, <4>1, <5>2
        <5> HIDE DEF t
        <5> QED BY <2>1, <2>3, <5>1, <5>2, <5>3
      <4>3. CASE reserve_refusals(ledger, i) # {}
        BY <3>1, <3>3, <4>3 DEF Propose
      <4> QED BY <4>2, <4>3
    <3>4. ASSUME EndBar
          PROVE  ledger'.lots = ledger.lots /\ orders' = orders
      <4>1. ledger' = mark(ledger, bar.at.instrument, bar.at.close) /\ orders' = orders
        BY <3>4 DEF EndBar
      <4> QED BY <2>1, <4>1, MarkGood DEF Sound
    <3>5. ASSUME (\E b \in Bars : BeginBar(b)) \/ StartProposals \/ EndFrame \/ UNCHANGED vars
          PROVE  ledger'.lots = ledger.lots /\ orders' = orders
      BY <3>5 DEF BeginBar, StartProposals, EndFrame, vars
    <3>6. ~Expire /\ ~(\E a \in Actions : CorporateAction(a))
      BY DEF Expire, CorporateAction
    <3> QED BY <3>1, <3>2, <3>3, <3>4, <3>5, <3>6 DEF Next
  <2> QED BY <2>2, <2>4, StopsKept
<1>3. ReplayInv /\ ReplayInv' /\ Paired(orders) /\ [Next]_vars => [NoneUnstopped]_vars
  BY <1>2
<1> QED BY <1>1, <1>3, ReplayInit, ReplayStep, PairedStep, PTL DEF Spec, ExitsKeepStops
=============================================================================
