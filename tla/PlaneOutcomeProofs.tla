------------------------- MODULE PlaneOutcomeProofs -------------------------
(***************************************************************************)
(* What the steps of the execution plane add up to: the broker's log and   *)
(* the economics applied from it, the evidence behind a claim, and, when   *)
(* no two commands overlap, the arms, the freeze, the requeues, the        *)
(* reservations behind working orders and the capacity they add up to.     *)
(*                                                                         *)
(* Every step of the plane makes one StoreMove and one BrokerMove; each    *)
(* invariant is preserved move by move.                                    *)
(***************************************************************************)
EXTENDS PlaneSafetyProofs, SumProofs

-----------------------------------------------------------------------------
(* What a step does to the control database.                               *)

USE DEF intentVars, queueVars, gateVars, econVars, armVars, storeVars, brokerVars

\* Neither an intent, a command, an arm nor the economics change.
QuietStore == UNCHANGED <<intentVars, queueVars, inbox, cashDelta, approval, arm>>

\* A worker's transaction on the command it has in hand.
HandMove(p) ==
    /\ proc[p].pc \in WorkStep
    /\ exit(p)
    /\ \/ /\ proc[p].kind = "dispatch"
          /\ \/ at_step(p, "unknown") /\ mark_submission_unknown(proc[p].work)
             \/ mark_delivered(proc[p].work)
       \/ /\ proc[p].kind # "dispatch"
          /\ mark_cancel_unknown(proc[p].work) \/ mark_cancel_delivered(proc[p].work)

\* A worker's transaction on the head of one of the queues.
ClaimMove(p, i) ==
    \/ /\ at_step(p, "claim")
       /\ \/ claim_next_expires_arm(proc[p].owner, proc[p].token, proc[p].at, i)
          \/ claim_next_expires_reservation(proc[p].owner, proc[p].token, proc[p].at, i)
          \/ claim_next(proc[p].owner, proc[p].token, proc[p].at, i)
    \/ /\ at_step(p, "claim_cancel")
       /\ claim_next_cancel(proc[p].owner, proc[p].token, proc[p].at, i)

\* A transaction of the operator or the decision loop on intent i.
OperatorMove(i) ==
    \/ stage(i, now)
    \/ approve(i, now)
    \/ request_cancel(i)
    \/ \E a \in authorities, q \in quotes, t \in Nat : arm_approved_intent(i, a, q, t)

\* A transaction of the reconciler on the command of intent i.
ReconcilerMove(p, i) ==
    \/ at_step(p, "resolve") /\ resolve_unknown_at_broker(i)
    \/ /\ at_step(p, "absent") /\ i \in proc[p].left
       /\ requeue_unknown_absent_at_broker(i, proc[p].at)

StoreMove ==
    \/ QuietStore
    \/ \E i \in Intents : OperatorMove(i)
    \/ \E p \in Procs : HandMove(p)
    \/ \E p \in Procs, i \in Intents : ClaimMove(p, i) \/ ReconcilerMove(p, i)
    \/ \E p \in Procs : at_step(p, "recover") /\ recover_claimed_as_unknown
    \/ \E n \in (1 .. Len(events)) \ inbox : apply_broker_event(n, events[n])

LEMMA IngestMove ==
  ASSUME NEW n \in 1 .. Len(events), ingest_broker_event(n, events[n])
  PROVE  StoreMove
<1>1. CASE n \in inbox
  BY <1>1 DEF ingest_broker_event, StoreMove, QuietStore
<1>2. CASE n \notin inbox
  BY <1>2 DEF ingest_broker_event, StoreMove
<1> QED BY <1>1, <1>2

LEMMA ArmMove ==
  ASSUME NEW i \in Intents, NEW a \in authorities, NEW q \in quotes, NEW t \in Nat,
         arm_call(i, a, q, t)
  PROVE  StoreMove
<1>1. CASE arm_approved_intent(i, a, q, t)
  BY <1>1 DEF StoreMove, OperatorMove
<1>2. CASE arm_authority_stale(i, a, t) \/ arm_quote_stale(i, a, q, t)
  BY <1>2 DEF arm_authority_stale, arm_quote_stale, freeze, StoreMove, QuietStore
<1> QED BY <1>1, <1>2 DEF arm_call

\* A step of a running command.
LEMMA StepMove ==
  ASSUME TypeInv, NEW p \in Procs, step(p)
  PROVE  StoreMove
<1>0. proc[p] \in ProcState /\ ProcOK(proc[p], Len(events)) /\ Len(events) \in Nat
  BY ProcFacts
<1>1. CASE QuietStore
  BY <1>1 DEF StoreMove
<1>2. CASE UNCHANGED storeVars
  BY <1>1, <1>2 DEF QuietStore
<1>3. CASE reconcile_ingest(p)
  <2>1. proc[p].next \in 1 .. Len(events)
    BY <1>0, <1>3 DEF reconcile_ingest, at_step, ProcOK, ProcState
  <2>2. ingest_broker_event(proc[p].next, events[proc[p].next]) \/ UNCHANGED storeVars
    BY <1>3 DEF reconcile_ingest
  <2> QED BY <1>2, <2>1, <2>2, IngestMove
<1>4. CASE worker_apply(p) \/ worker_apply_copy(p)
  <2>1. PICK n \in proc[p].answer : ingest_broker_event(n, events[n])
    BY <1>4 DEF worker_apply, worker_apply_copy
  <2>2. n \in 1 .. Len(events)
    BY <1>0 DEF ProcOK
  <2> QED BY <2>1, <2>2, IngestMove
<1>5. CASE \/ snapshot(p) \/ reconcile_read_local(p) \/ reconcile_resolved(p)
           \/ worker_fence(p) \/ worker_validate(p) \/ worker_submit(p) \/ worker_cancel(p)
  BY <1>2, <1>5, SnapshotFrame DEF reconcile_read_local, reconcile_resolved,
     worker_fence, worker_validate, worker_submit, worker_cancel
<1>6. CASE \/ reconcile_begin(p) \/ reconcile_record(p)
           \/ reconcile_positions(p) \/ reconcile_protection(p) \/ reconcile_cash(p)
           \/ reconcile_conclude(p) \/ observe_authority(p) \/ worker_lease(p)
  BY <1>1, <1>6 DEF QuietStore, reconcile_begin, freeze,
     reconcile_positions, reconcile_protection, reconcile_cash, set_account_baseline,
     reconcile_record, record_discrepancies, reconcile_conclude,
     unfreeze_after_reconciliation, observe_authority, record_broker_snapshot_authority,
     worker_lease, acquire_lease
<1>7. CASE reconcile_recover(p)
  BY <1>7 DEF reconcile_recover, StoreMove
<1>8. ASSUME NEW k \in Keys, reconcile_resolve(p, k) PROVE StoreMove
  <2>1. CASE k \in local_keys(p)
    BY <1>8, <2>1 DEF reconcile_resolve, local_keys, StoreMove, ReconcilerMove
  <2>2. CASE k \notin local_keys(p)
    BY <1>2, <1>8, <2>2 DEF reconcile_resolve
  <2> QED BY <2>1, <2>2
<1>9. ASSUME NEW i \in Intents, reconcile_absent(p, i) PROVE StoreMove
  <2>1. CASE requeue_unknown_absent_at_broker(i, proc[p].at)
    BY <1>9, <2>1 DEF reconcile_absent, StoreMove, ReconcilerMove
  <2> QED BY <1>2, <1>9, <2>1 DEF reconcile_absent
<1>10. CASE arm_command(p)
  <2>1. proc[p].at \in Nat
    BY <1>0 DEF ProcState
  <2> QED BY <1>2, <1>10, <2>1, ArmMove DEF arm_command
<1>11. CASE worker_claim(p)
  <2>1. \/ UNCHANGED storeVars
        \/ \E i \in Intents : ClaimMove(p, i)
    BY <1>11 DEF worker_claim, claim_next_raises, claim_next_empty, ClaimMove
  <2> QED BY <1>2, <2>1 DEF StoreMove
<1>12. CASE worker_claim_cancel(p)
  <2>1. \/ UNCHANGED storeVars
        \/ \E i \in Intents : ClaimMove(p, i)
    BY <1>12 DEF worker_claim_cancel, ClaimMove
  <2> QED BY <1>2, <2>1 DEF StoreMove
<1>13. CASE worker_unknown(p) \/ worker_deliver(p)
  <2>1. HandMove(p)
    BY <1>13 DEF worker_unknown, worker_deliver, at_step, WorkStep, HandMove
  <2> QED BY <2>1 DEF StoreMove
<1> QED BY <1>3, <1>4, <1>5, <1>6, <1>7, <1>8, <1>9, <1>10, <1>11, <1>12, <1>13 DEF step

\* Every step of the plane.
LEMMA NextMove ==
  ASSUME TypeInv, [Next]_vars
  PROVE  StoreMove
<1>1. CASE QuietStore
  BY <1>1 DEF StoreMove
<1>2. CASE UNCHANGED vars
  BY <1>1, <1>2 DEF vars, QuietStore
<1>3. ASSUME NEW p \in Procs, NEW kind, NEW owner, start(p, kind, owner) PROVE StoreMove
  BY <1>1, <1>3 DEF start, open_store, QuietStore
<1>4. CASE Env
  <2>1. CASE tick \/ (\E p \in Procs : crash(p)) \/ operator_freeze \/ operator_unfreeze
    BY <1>1, <2>1 DEF tick, crash, operator_freeze, freeze, operator_unfreeze,
       resolve_freeze_ticket, QuietStore
  <2>2. ASSUME NEW i \in Intents, operator_stage(i) \/ operator_cancel(i) \/ operator_approve(i)
        PROVE  StoreMove
    BY <2>2 DEF operator_stage, operator_cancel, operator_approve, StoreMove, OperatorMove
  <2>3. ASSUME NEW i \in Intents, NEW a \in authorities, NEW q \in quotes, operator_arm(i, a, q)
        PROVE  StoreMove
    <3>1. now \in Nat
      BY DEF TypeInv, TypeOK
    <3> QED BY <2>3, <3>1, ArmMove DEF operator_arm
  <2>4. ASSUME NEW age, NEW static, quote_arrives(age, static) PROVE StoreMove
    BY <1>1, <2>4 DEF quote_arrives, record_quote_snapshot, QuietStore
  <2>5. ASSUME NEW k, broker_fill(k) \/ broker_commission(k) \/ broker_inject(k)
        PROVE  StoreMove
    BY <1>1, <2>5 DEF broker_fill, broker_commission, broker_inject, QuietStore
  <2>6. ASSUME NEW n, broker_callback(n) PROVE StoreMove
    BY <2>6, IngestMove DEF broker_callback
  <2> QED BY <1>4, <2>1, <2>2, <2>3, <2>4, <2>5, <2>6 DEF Env
<1> QED BY <1>2, <1>3, <1>4, StepMove DEF Next

-----------------------------------------------------------------------------
(* The broker's log.                                                       *)

\* The events by which the broker answers a new order.
Opening == {"ACKNOWLEDGED", "REJECTED"}

log_of(log, k) == {n \in 1 .. Len(log) : log[n].key = k}

\* Orders ord and log belong together: an order comes into being with its first event,
\* is opened once, and its fills are those of its events.
LogOK(ord, log) ==
    \A k \in Keys :
        /\ ord[k].status = "ABSENT" => ord[k].filled = 0 /\ log_of(log, k) = {}
        /\ \A m, n \in log_of(log, k) : log[m].type \in Opening /\ log[n].type \in Opening => m = n
        /\ ord[k].filled = SumFunction([n \in log_of(log, k) |-> log[n].qty])

\* The positions of the log are finitely many integers.
LEMMA LogFinite ==
  ASSUME NEW log \in Seq(BrokerEvent), NEW S \in SUBSET (1 .. Len(log))
  PROVE  /\ IsFiniteSet(S)
         /\ \A n \in S : log[n] \in BrokerEvent /\ log[n].qty \in 0 .. Qty /\ log[n].qty \in Nat
<1>1. IsFiniteSet(1 .. Len(log))
  BY FS_Interval
<1>2. IsFiniteSet(S)
  BY <1>1, FS_Subset
<1>3. \A n \in S : log[n] \in BrokerEvent
  OBVIOUS
<1> QED BY <1>2, <1>3, TypesAssumption DEF BrokerEvent

\* Appending an event of order k that accounts for the change of the order.
LEMMA LogExtends ==
  ASSUME NEW ord \in [Keys -> BrokerOrder], NEW log \in Seq(BrokerEvent), LogOK(ord, log),
         NEW k \in Keys, NEW new \in BrokerOrder, NEW e \in BrokerEvent, e.key = k,
         new.status # "ABSENT", new.filled = ord[k].filled + e.qty,
         e.type \in Opening => ord[k].status = "ABSENT"
  PROVE  LogOK([ord EXCEPT ![k] = new], Append(log, e))
<1> DEFINE log2 == Append(log, e)
           ord2 == [ord EXCEPT ![k] = new]
           m == Len(log) + 1
<1>1. /\ log2 \in Seq(BrokerEvent) /\ Len(log2) = m /\ Len(log) \in Nat /\ log2[m] = e
      /\ \A n \in 1 .. Len(log) : log2[n] = log[n]
  OBVIOUS
<1>2. ord2[k] = new /\ \A j \in Keys : j # k => ord2[j] = ord[j]
  OBVIOUS
<1> HIDE DEF log2, ord2
<1>3. 1 .. m = (1 .. Len(log)) \union {m} /\ m \notin 1 .. Len(log)
  BY <1>1
<1>4. ASSUME NEW j \in Keys, j # k
      PROVE  log_of(log2, j) = log_of(log, j)
  BY <1>1, <1>3, <1>4 DEF log_of
<1>5. log_of(log2, k) = log_of(log, k) \union {m} /\ m \notin log_of(log, k)
  BY <1>1, <1>3 DEF log_of
<1>6. ASSUME NEW j \in Keys
      PROVE  /\ \A n \in log_of(log, j) : log2[n] = log[n]
             /\ [n \in log_of(log, j) |-> log2[n].qty] = [n \in log_of(log, j) |-> log[n].qty]
  BY <1>1 DEF log_of
<1>7. ASSUME NEW j \in Keys, j # k
      PROVE  /\ ord2[j].status = "ABSENT" => ord2[j].filled = 0 /\ log_of(log2, j) = {}
             /\ \A i, n \in log_of(log2, j) :
                  log2[i].type \in Opening /\ log2[n].type \in Opening => i = n
             /\ ord2[j].filled = SumFunction([n \in log_of(log2, j) |-> log2[n].qty])
  BY <1>2, <1>4, <1>6, <1>7 DEF LogOK
<1>8. \A i, n \in log_of(log2, k) : log2[i].type \in Opening /\ log2[n].type \in Opening => i = n
  <2>1. CASE e.type \in Opening
    <3>1. log_of(log, k) = {}
      BY <2>1 DEF LogOK
    <3> QED BY <1>5, <3>1
  <2>2. CASE e.type \notin Opening
    <3>1. \A i \in log_of(log2, k) : log2[i].type \in Opening => i \in log_of(log, k)
      BY <1>1, <1>5, <2>2
    <3>2. \A i, n \in log_of(log, k) : log[i].type \in Opening /\ log[n].type \in Opening => i = n
      BY DEF LogOK
    <3>3. \A i \in log_of(log, k) : log2[i].type = log[i].type
      BY <1>6
    <3> QED BY <3>1, <3>2, <3>3
  <2> QED BY <2>1, <2>2
<1>9. new.filled = SumFunction([n \in log_of(log2, k) |-> log2[n].qty])
  <2> DEFINE S == log_of(log, k)
             f == [n \in log_of(log2, k) |-> log2[n].qty]
  <2>1. S \in SUBSET (1 .. Len(log)) /\ log_of(log2, k) \in SUBSET (1 .. Len(log2))
    BY DEF log_of
  <2>2. IsFiniteSet(S)
    BY <2>1, LogFinite
  <2>3. \A n \in log_of(log2, k) : log2[n].qty \in Nat
    BY <1>1, <2>1, LogFinite
  <2>4. f \in [log_of(log2, k) -> Int]
    BY <2>3
  <2>5. f[m] = e.qty
    BY <1>1, <1>5
  <2>6. [n \in S |-> f[n]] = [n \in S |-> log[n].qty]
    BY <1>5, <1>6
  <2>7. ord[k].filled = SumFunction([n \in S |-> log[n].qty])
    BY DEF LogOK
  <2> DEFINE g == [n \in S |-> f[n]]
             T == log_of(log2, k)
  <2>8. m \notin S /\ T = S \union {m} /\ f \in [T -> Int] /\ g = [d \in S |-> f[d]]
    BY <1>5, <2>4
  <2> HIDE DEF S, T, f, g, m
  <2>9. OneTermMore(f, g, m)
    BY <2>2, <2>8 DEF OneTermMore
  <2>10. SumFunction(f) = f[m] + SumFunction(g)
    BY <2>9, SumStep
  <2>11. ord[k].filled \in Int /\ e.qty \in Int
    BY TypesAssumption DEF BrokerOrder, BrokerEvent
  <2>12. new.filled = SumFunction(f)
    BY <2>5, <2>6, <2>7, <2>10, <2>11 DEF g
  <2> QED BY <2>12 DEF f
<1> QED BY <1>2, <1>7, <1>8, <1>9 DEF LogOK, ord2, log2

\* An order without events.
LEMMA LogInjects ==
  ASSUME NEW ord \in [Keys -> BrokerOrder], NEW log, LogOK(ord, log),
         NEW k \in Keys, NEW new \in BrokerOrder, ord[k].status = "ABSENT",
         new.status # "ABSENT", new.filled = 0
  PROVE  LogOK([ord EXCEPT ![k] = new], log)
  BY DEF LogOK

\* The statuses of an order the market may still fill.
Working == {"ACCEPTED", "PARTIALLY_FILLED"}

\* What a step does to the orders and the log.
BrokerMove ==
    \/ UNCHANGED <<orders, events>>
    \/ \E p \in Procs, scenario \in SubmitScenario :
         at_step(p, "submit") /\ submit_new(proc[p].work, proc[p].token, scenario)
    \/ \E p \in Procs : at_step(p, "cancel") /\ cancel_order(proc[p].work, proc[p].token, 0)
    \/ \E k \in Keys : orders[k].status \in Working /\ \E n \in 1 .. Qty : fill(k, n)
    \/ "commission" \in Environment /\ \E k \in Keys : commission(k)
    \/ \E k \in ExternalKeys : inject_broker_only_order(k)

LEMMA NextBrokerMove ==
  ASSUME [Next]_vars
  PROVE  BrokerMove
<1>1. CASE UNCHANGED <<orders, events>>
  BY <1>1 DEF BrokerMove
<1>2. ASSUME NEW p \in Procs, step(p) PROVE BrokerMove
  <2>1. CASE worker_fence(p)
    BY <1>1, <2>1 DEF worker_fence, advance_fence
  <2>2. CASE worker_submit(p)
    <3>1. \/ UNCHANGED <<orders, events>>
          \/ \E scenario \in SubmitScenario : submit_new(proc[p].work, proc[p].token, scenario)
      BY <2>2, PlaneAssumption DEF worker_submit, submit_known
    <3>2. at_step(p, "submit")
      BY <2>2 DEF worker_submit
    <3> QED BY <1>1, <3>1, <3>2 DEF BrokerMove
  <2>3. CASE worker_cancel(p)
    BY <1>1, <2>3 DEF worker_cancel, BrokerMove
  <2>4. CASE ~(worker_fence(p) \/ worker_submit(p) \/ worker_cancel(p))
    BY <1>1, <1>2, <2>4, SnapshotFrame DEF step, reconcile_begin, reconcile_recover,
       reconcile_read_local, reconcile_ingest, reconcile_resolve, reconcile_resolved,
       reconcile_absent, reconcile_positions, reconcile_protection, reconcile_cash,
       reconcile_record, reconcile_conclude, observe_authority, arm_command, worker_lease,
       worker_claim, worker_claim_cancel, worker_validate, worker_unknown, worker_apply_copy,
       worker_apply, worker_deliver
  <2> QED BY <2>1, <2>2, <2>3, <2>4
<1>3. CASE Env
  <2>1. ASSUME NEW k \in Keys,
               broker_fill(k) \/ ("commission" \in Environment /\ broker_commission(k))
        PROVE  BrokerMove
    BY <2>1 DEF broker_fill, broker_commission, BrokerMove, Working
  <2>2. ASSUME NEW k \in ExternalKeys, broker_inject(k) PROVE BrokerMove
    BY <2>2 DEF broker_inject, BrokerMove
  <2>3. \/ \E k \in Keys :
             broker_fill(k) \/ ("commission" \in Environment /\ broker_commission(k))
        \/ \E k \in ExternalKeys : broker_inject(k)
        \/ UNCHANGED <<orders, events>>
    BY <1>3 DEF Env, tick, crash, operator_stage, operator_cancel, operator_approve,
       operator_arm, quote_arrives, operator_freeze, operator_unfreeze, broker_callback
  <2> QED BY <1>1, <2>1, <2>2, <2>3
<1>4. ASSUME NEW p \in Procs, NEW kind, NEW owner, start(p, kind, owner) PROVE BrokerMove
  BY <1>1, <1>4 DEF start
<1> QED BY <1>1, <1>2, <1>3, <1>4 DEF Next, vars

LEMMA FilledOrderFields ==
  ASSUME NEW o \in BrokerOrder, NEW n \in Nat
  PROVE  filled_order(o, n).filled = o.filled + n /\ filled_order(o, n).status # "ABSENT"
  BY DEF filled_order, BrokerOrder

\* Every step keeps orders and log together.
LEMMA LogInductive ==
  ASSUME TypeInv, LogOK(orders, events), BrokerMove
  PROVE  LogOK(orders', events')
<1>0. /\ orders \in [Keys -> BrokerOrder] /\ events \in Seq(BrokerEvent)
      /\ Qty \in Nat \ {0} /\ partial_quantity \in 1 .. Qty
  BY TypesAssumption, PartialQuantity DEF TypeInv, TypeOK, BrokerTypeOK
<1>1. CASE UNCHANGED <<orders, events>>
  BY <1>1
<1>2. ASSUME NEW p \in Procs, at_step(p, "submit") \/ at_step(p, "cancel")
      PROVE  proc[p].work \in Keys
  BY <1>2, ProcFacts DEF ProcOK, at_step, WorkStep, Keys
<1>3. ASSUME NEW k \in Keys, NEW token, NEW scenario \in SubmitScenario, submit_new(k, token, scenario)
      PROVE  LogOK(orders', events')
  <2> DEFINE g == scenario # "MISSING_PROTECTION"
             o == [status |-> "ACCEPTED", filled |-> 0, protected |-> g]
             r == [o EXCEPT !.status = "REJECTED"]
             ack == ev(k, "ACKNOWLEDGED", 0)
             rej == ev(k, "REJECTED", 0)
  <2>1. /\ o \in BrokerOrder /\ o.status # "ABSENT" /\ o.filled = 0
        /\ r \in BrokerOrder /\ r.status # "ABSENT" /\ r.filled = 0
    <3>1. g \in BOOLEAN
      OBVIOUS
    <3>2. r = [status |-> "REJECTED", filled |-> 0, protected |-> g]
      OBVIOUS
    <3> HIDE DEF g, r
    <3> QED BY <1>0, <3>1, <3>2 DEF BrokerOrder, OrderStatus
  <2>2. /\ ack \in BrokerEvent /\ ack.key = k /\ ack.qty = 0
        /\ rej \in BrokerEvent /\ rej.key = k /\ rej.qty = 0
    BY <1>0 DEF ev, BrokerEvent, BrokerEventType
  <2>3. orders[k].status = "ABSENT" /\ orders[k].filled = 0
    BY <1>3 DEF submit_new, known_order, AtBroker, LogOK
  <2>4. o.filled = orders[k].filled + ack.qty /\ r.filled = orders[k].filled + rej.qty
    BY <2>1, <2>2, <2>3
  <2>5. /\ LogOK([orders EXCEPT ![k] = o], Append(events, ack))
        /\ LogOK([orders EXCEPT ![k] = r], Append(events, rej))
    <3> HIDE DEF o, r, ack, rej
    <3> QED BY <1>0, <2>1, <2>2, <2>3, <2>4, LogExtends
  <2>6. CASE scenario = "PARTIAL_FILL"
    <3> DEFINE ord == [orders EXCEPT ![k] = o]
               log == Append(events, ack)
               n == filled_order(o, partial_quantity)
               e == fill_event(k, o, partial_quantity)
    <3>1. /\ orders' = [orders EXCEPT ![k] = n]
          /\ events' = Append(log, e)
      BY <1>3, <2>6 DEF submit_new
    <3>2. n \in BrokerOrder /\ n.filled = 0 + partial_quantity /\ n.status # "ABSENT"
      <4>1. o.filled = 0 /\ partial_quantity \in Nat /\ 0 + partial_quantity <= Qty
        BY <1>0
      <4> HIDE DEF o
      <4> QED BY <2>1, <4>1, FilledOrderType, FilledOrderFields
    <3>3. e \in BrokerEvent /\ e.key = k /\ e.qty = partial_quantity /\ e.type \notin Opening
      BY <1>0 DEF fill_event, ev, BrokerEvent, BrokerEventType, Opening
    <3>4. ord \in [Keys -> BrokerOrder] /\ log \in Seq(BrokerEvent) /\ ord[k].filled = 0
      BY <1>0, <2>1, <2>2
    <3>5. [ord EXCEPT ![k] = n] = [orders EXCEPT ![k] = n]
      BY <1>0
    <3>6. n.filled = ord[k].filled + e.qty
      BY <1>0, <3>2, <3>3, <3>4
    <3>7. LogOK(ord, log)
      BY <2>5
    <3> HIDE DEF ord, log, n, e
    <3>8. LogOK([ord EXCEPT ![k] = n], Append(log, e))
      BY <3>2, <3>3, <3>4, <3>6, <3>7, LogExtends
    <3> QED BY <3>1, <3>5, <3>8
  <2> QED BY <1>3, <2>5, <2>6 DEF submit_new
<1>4. ASSUME NEW k \in Keys, NEW token, cancel_order(k, token, 0) PROVE LogOK(orders', events')
  <2>1. CASE orders[k].filled < Qty
    <3> DEFINE n == [orders[k] EXCEPT !.status = "CANCELLED"]
               e == ev(k, "CANCELLED", 0)
    <3>1. orders' = [orders EXCEPT ![k] = n] /\ events' = Append(events, e)
      BY <1>4, <2>1 DEF cancel_order
    <3>2. n \in BrokerOrder /\ n.status # "ABSENT" /\ n.filled = orders[k].filled
      BY <1>0 DEF BrokerOrder, OrderStatus
    <3>3. e \in BrokerEvent /\ e.key = k /\ e.qty = 0 /\ e.type \notin Opening
      BY <1>0 DEF ev, BrokerEvent, BrokerEventType, Opening
    <3>4. n.filled = orders[k].filled + e.qty
      BY <1>0, <3>2, <3>3 DEF BrokerOrder
    <3> HIDE DEF n, e
    <3> QED BY <1>0, <3>1, <3>2, <3>3, <3>4, LogExtends
  <2>2. CASE ~(orders[k].filled < Qty)
    BY <1>0, <1>4, <2>2 DEF cancel_order
  <2> QED BY <2>1, <2>2
<1>5. ASSUME NEW k \in Keys, NEW q \in 1 .. Qty, fill(k, q) PROVE LogOK(orders', events')
  <2> DEFINE m == fill_amount(orders[k], q)
             n == filled_order(orders[k], m)
             e == fill_event(k, orders[k], m)
  <2>1. orders' = [orders EXCEPT ![k] = n] /\ events' = Append(events, e) /\ m > 0
    BY <1>5 DEF fill
  <2>2. orders[k] \in BrokerOrder
    BY <1>0
  <2>3. m \in 1 .. Qty /\ m <= Qty - orders[k].filled
    BY <1>0, <2>1, <2>2 DEF fill_amount, BrokerOrder
  <2> HIDE DEF m
  <2>4. n \in BrokerOrder /\ n.status # "ABSENT" /\ n.filled = orders[k].filled + m
    <3>1. m \in Nat /\ orders[k].filled + m <= Qty
      BY <1>0, <2>2, <2>3 DEF BrokerOrder
    <3> QED BY <2>2, <3>1, FilledOrderType, FilledOrderFields
  <2>5. e \in BrokerEvent /\ e.key = k /\ e.qty = m /\ e.type \notin Opening
    BY <1>0, <2>3 DEF fill_event, ev, BrokerEvent, BrokerEventType, Opening
  <2> HIDE DEF n, e
  <2> QED BY <1>0, <2>1, <2>4, <2>5, LogExtends
<1>6. ASSUME NEW k \in Keys, commission(k) PROVE LogOK(orders', events')
  <2> DEFINE e == ev(k, "COMMISSION", 0)
  <2>1. /\ orders' = [orders EXCEPT ![k] = orders[k]] /\ events' = Append(events, e)
        /\ orders[k].status # "ABSENT" /\ orders[k] \in BrokerOrder
    BY <1>0, <1>6 DEF commission, AtBroker
  <2>2. e \in BrokerEvent /\ e.key = k /\ e.qty = 0 /\ e.type \notin Opening
    BY <1>0 DEF ev, BrokerEvent, BrokerEventType, Opening
  <2>3. orders[k].filled = orders[k].filled + e.qty
    BY <1>0, <2>1, <2>2 DEF BrokerOrder
  <2> HIDE DEF e
  <2> QED BY <1>0, <2>1, <2>2, <2>3, LogExtends
<1>7. ASSUME NEW k \in ExternalKeys, inject_broker_only_order(k) PROVE LogOK(orders', events')
  <2> DEFINE n == [status |-> "ACCEPTED", filled |-> 0, protected |-> FALSE]
  <2>1. /\ orders' = [orders EXCEPT ![k] = n] /\ events' = events
        /\ orders[k].status = "ABSENT" /\ k \in Keys
    BY <1>7 DEF inject_broker_only_order, AtBroker, Keys
  <2>2. n \in BrokerOrder /\ n.status # "ABSENT" /\ n.filled = 0
    BY <1>0 DEF BrokerOrder, OrderStatus
  <2> HIDE DEF n
  <2> QED BY <1>0, <2>1, <2>2, LogInjects
<1> QED BY <1>1, <1>2, <1>3, <1>4, <1>5, <1>6, <1>7 DEF BrokerMove

LEMMA AtMostOne ==
  ASSUME NEW S, \A m, n \in S : m = n
  PROVE  Cardinality(S) <= 1
<1>1. CASE S = {}
  BY <1>1, FS_EmptySet
<1>2. ASSUME NEW m \in S PROVE Cardinality(S) <= 1
  <2>1. S = {m} /\ Cardinality({m}) = 1
    BY FS_Singleton
  <2> QED BY <2>1
<1> QED BY <1>1, <1>2

LEMMA InitLog == Init => LogOK(orders, events)
<1> SUFFICES ASSUME Init PROVE LogOK(orders, events)
  OBVIOUS
<1>1. orders = [k \in Keys |-> NoOrder] /\ events = <<>>
  BY DEF Init, BrokerInit
<1>2. ASSUME NEW k \in Keys
      PROVE  log_of(events, k) = {} /\ orders[k].filled = 0
  BY <1>1 DEF log_of, NoOrder
<1>3. ASSUME NEW k \in Keys PROVE SumFunction([n \in log_of(events, k) |-> events[n].qty]) = 0
  <2> DEFINE f == [n \in log_of(events, k) |-> events[n].qty]
  <2>1. DOMAIN f = {}
    BY <1>2
  <2> HIDE DEF f
  <2>2. SumFunction(f) = 0
    BY <2>1, SumNothing
  <2> QED BY <2>2 DEF f
<1> QED BY <1>2, <1>3 DEF LogOK

LEMMA LogStep == TypeInv /\ LogOK(orders, events) /\ [Next]_vars => LogOK(orders, events)'
  BY NextBrokerMove, LogInductive DEF LogOK, log_of

\* One broker order per client order key: however many workers claim, lose, requeue and
\* resubmit the command of an intent, the broker opens its order once, and the fills of
\* the order are exactly those of its own events.
THEOREM OneOrderPerKey == Spec => []OneOrderPerIntent
<1>1. ASSUME LogOK(orders, events) PROVE OneOrderPerIntent
  <2> SUFFICES ASSUME NEW k \in Intents
               PROVE  /\ Cardinality({n \in events_for(k) :
                            events[n].type \in {"ACKNOWLEDGED", "REJECTED"}}) <= 1
                      /\ orders[k].filled = SumFunction([n \in events_for(k) |-> events[n].qty])
    BY DEF OneOrderPerIntent
  <2> DEFINE S == {n \in events_for(k) : events[n].type \in {"ACKNOWLEDGED", "REJECTED"}}
  <2>1. k \in Keys /\ events_for(k) = log_of(events, k)
    BY DEF Keys, events_for, log_of
  <2>2. \A m, n \in S : m = n
    BY <1>1, <2>1 DEF LogOK, Opening
  <2>3. Cardinality(S) <= 1
    <3> HIDE DEF S
    <3> QED BY <2>2, AtMostOne
  <2> QED BY <1>1, <2>1, <2>3 DEF LogOK
<1>2. LogOK(orders, events) => OneOrderPerIntent
  BY <1>1
<1> QED BY <1>2, InitLog, LogStep, InitTypeInv, TypeInvStep, PTL DEF Spec

-----------------------------------------------------------------------------
(* What a step does to a process.                                          *)

\* The steps of a reconciler that has opened its own ticket ...
Reconciling ==
    {"recover", "read_local", "ingest", "resolve", "absent", "protection", "cash", "record",
     "conclude"}

\* ... and those of one that has read the broker's orders.
Snapped ==
    Reconciling \union {"snapshot_positions", "snapshot_protections", "snapshot_events",
                        "snapshot_children", "in_progress"}

\* The steps at which a dispatching worker has not heard the broker's answer.
Held == {"validate", "submit", "unknown"}

\* Process q, with state r, goes to state s: outside its reconciliation and its command, ...
Outside(s) ==
    \/ s.pc \notin Snapped \union WorkStep \union {"claim_cancel"}
    \/ s.pc = "claim_cancel" /\ s.kind # "dispatch"

\* ... from one step of its reconciliation to the next, ...
Reconciles(q, r, s) ==
    /\ s.pc \in Snapped
    /\ \/ r.pc = "snapshot_orders" /\ s.pc = "snapshot_positions" /\ s.orders = orders
       \/ r.pc \in Snapped /\ s.orders = r.orders
    /\ s.pc \in Reconciling =>
         \/ r.pc \in Reconciling \ {"conclude"} /\ tickets' = tickets
         \/ r.pc \in Reconciling \ {"conclude"} /\ open_freeze_ticket("BROKER_ONLY_ORDER_OR_EVENT")
         \/ open_freeze_ticket("RECONCILIATION_IN_PROGRESS")
    /\ s.pc = "conclude" => openDisc' = s.disc
    /\ s.pc = "absent" => \/ r.pc = "absent" /\ s.left \subseteq r.left
                          \/ s.left \subseteq Intents \ broker_keys(q)

\* ... on with the command in hand, ...
Works(r, s) ==
    /\ r.pc \in WorkStep /\ s.pc \in WorkStep
    /\ s.work = r.work /\ s.kind = r.kind
    /\ s.pc \in Held => r.pc \in {"validate", "submit", "cancel"}
    /\ s.pc = "cancel" => s.kind # "dispatch"
    /\ s.pc = "submit" => s.kind = "dispatch"

\* ... or to a new command, which it has just claimed.
Takes(r, s) ==
    /\ s.pc = "validate" /\ s.kind = r.kind /\ s.work \in Intents
    /\ \/ r.pc = "claim" /\ claim_next(r.owner, r.token, r.at, s.work)
       \/ r.pc = "claim_cancel" /\ claim_next_cancel(r.owner, r.token, r.at, s.work)

ProcMove(q) ==
    \/ proc'[q] = proc[q]
    \/ Outside(proc'[q])
    \/ Reconciles(q, proc[q], proc'[q])
    \/ Works(proc[q], proc'[q])
    \/ Takes(proc[q], proc'[q])

LEMMA ExitMove ==
  ASSUME TypeInv, NEW p \in Procs, exit(p)
  PROVE  \A q \in Procs : ProcMove(q)
<1>1. proc' = [proc EXCEPT ![p] = Idle] /\ Idle.pc = "idle" /\ proc \in [Procs -> ProcState]
  BY ProcFacts DEF exit, Idle
<1>2. "idle" \notin Snapped \union WorkStep \union {"claim_cancel"}
  BY DEF Snapped, Reconciling, WorkStep
<1> QED BY <1>1, <1>2 DEF ProcMove, Outside

\* A command that starts, or goes on after its reconciliation.
LEMMA FreshMove ==
  ASSUME TypeInv, NEW p \in Procs, NEW s \in {"lease", "arm", "snapshot", "authority"},
         NEW k, NEW o, NEW t,
         proc' = [proc EXCEPT ![p] = [Idle EXCEPT !.pc = s, !.kind = k, !.owner = o, !.at = t]]
  PROVE  \A q \in Procs : ProcMove(q)
<1> DEFINE r == [Idle EXCEPT !.pc = s, !.kind = k, !.owner = o, !.at = t]
<1>1. Idle \in ProcState /\ proc \in [Procs -> ProcState]
  BY IdleOK, ProcFacts
<1>2. r.pc = s
  BY <1>1 DEF ProcState
<1>3. proc' = [proc EXCEPT ![p] = r]
  OBVIOUS
<1> HIDE DEF r
<1>4. s \notin Snapped \union WorkStep \union {"claim_cancel"}
  BY DEF Snapped, Reconciling, WorkStep
<1> QED BY <1>1, <1>2, <1>3, <1>4 DEF ProcMove, Outside

\* The steps of a reconciler up to its verdict.
LEMMA ReconcilerMoves ==
  ASSUME TypeInv, NEW p \in Procs,
         \/ snapshot(p) \/ reconcile_begin(p) \/ reconcile_recover(p) \/ reconcile_read_local(p)
         \/ reconcile_ingest(p) \/ reconcile_resolved(p)
         \/ reconcile_positions(p) \/ reconcile_protection(p) \/ reconcile_cash(p)
         \/ reconcile_record(p)
         \/ \E k \in Keys : reconcile_resolve(p, k)
         \/ \E i \in Intents : reconcile_absent(p, i) /\ ~exit(p)
  PROVE  \A q \in Procs : ProcMove(q)
<1>1. proc[p] \in ProcState /\ proc \in [Procs -> ProcState]
  BY ProcFacts
<1> DEFINE G == /\ \/ Reconciles(p, proc[p], proc'[p])
                   \/ Outside(proc'[p])
                /\ \A q \in Procs \ {p} : proc'[q] = proc[q]
<1>2. G
  <2> USE <1>1 DEF ProcState, at_step
  <2>1. CASE snapshot_cash(p)
    BY <2>1 DEF snapshot_cash, Outside, Snapped, Reconciling, WorkStep
  <2>2. CASE snapshot_orders(p)
    BY <2>2 DEF snapshot_orders, Reconciles, Snapped, Reconciling
  <2>3. CASE snapshot_positions(p)
    BY <2>3 DEF snapshot_positions, Reconciles, Snapped, Reconciling
  <2>4. CASE snapshot_protections(p)
    BY <2>4 DEF snapshot_protections, Reconciles, Snapped, Reconciling
  <2>5. CASE snapshot_events(p)
    BY <2>5 DEF snapshot_events, Reconciles, Snapped, Reconciling
  <2>6. CASE snapshot_children(p)
    BY <2>6 DEF snapshot_children, Reconciles, Snapped, Reconciling
  <2>7. CASE reconcile_begin(p)
    BY <2>7 DEF reconcile_begin, freeze, goto, Reconciles, Snapped, Reconciling
  <2>8. CASE reconcile_recover(p)
    BY <2>8 DEF reconcile_recover, recover_claimed_as_unknown, goto, Reconciles, Snapped, Reconciling
  <2>9. CASE reconcile_read_local(p)
    BY <2>9 DEF reconcile_read_local, Reconciles, Snapped, Reconciling
  <2>10. CASE reconcile_ingest(p)
    <3>1. tickets' = tickets \/ open_freeze_ticket("BROKER_ONLY_ORDER_OR_EVENT")
      BY <2>10 DEF reconcile_ingest, ingest_broker_event, apply_broker_event
    <3> QED BY <2>10, <3>1 DEF reconcile_ingest, Reconciles, Snapped, Reconciling
  <2>11. CASE reconcile_resolved(p)
    BY <2>11 DEF reconcile_resolved, local_keys, Reconciles, Snapped, Reconciling
  <2>12. CASE reconcile_positions(p) \/ reconcile_protection(p)
    BY <2>12 DEF reconcile_positions, reconcile_protection, Reconciles, Snapped, Reconciling
  <2>13. CASE reconcile_cash(p)
    BY <2>13 DEF reconcile_cash, set_account_baseline, Reconciles, Snapped, Reconciling
  <2>14. CASE reconcile_record(p)
    BY <2>14 DEF reconcile_record, record_discrepancies, goto, Reconciles, Snapped, Reconciling
  <2>15. ASSUME NEW k \in Keys, reconcile_resolve(p, k) PROVE G
    <3>1. tickets' = tickets
      BY <2>15 DEF reconcile_resolve, resolve_unknown_at_broker
    <3> QED BY <2>15, <3>1 DEF reconcile_resolve, Reconciles, Snapped, Reconciling
  <2>16. ASSUME NEW i \in Intents, reconcile_absent(p, i), ~exit(p) PROVE G
    <3>1. tickets' = tickets
      BY <2>16 DEF reconcile_absent, requeue_unknown_absent_at_broker
    <3> QED BY <2>16, <3>1 DEF reconcile_absent, Reconciles, Snapped, Reconciling
  <2> QED BY <2>1, <2>2, <2>3, <2>4, <2>5, <2>6, <2>7, <2>8, <2>9, <2>10, <2>11, <2>12, <2>13,
             <2>14, <2>15, <2>16 DEF snapshot
<1> QED BY <1>2 DEF ProcMove

\* The steps of a worker that goes on.
LEMMA WorkerMoves ==
  ASSUME TypeInv, NEW p \in Procs, ~exit(p),
         \/ worker_lease(p) \/ worker_fence(p) \/ worker_claim(p) \/ worker_claim_cancel(p)
         \/ worker_validate(p) \/ worker_submit(p) \/ worker_cancel(p)
         \/ worker_apply_copy(p) \/ worker_apply(p)
  PROVE  \A q \in Procs : ProcMove(q)
<1>1. proc[p] \in ProcState /\ proc \in [Procs -> ProcState]
  BY ProcFacts
<1> DEFINE G == /\ \/ Outside(proc'[p])
                   \/ Works(proc[p], proc'[p])
                   \/ Takes(proc[p], proc'[p])
                /\ \A q \in Procs \ {p} : proc'[q] = proc[q]
<1>2. G
  <2> USE <1>1 DEF ProcState, at_step
  <2>1. CASE worker_lease(p)
    BY <2>1 DEF worker_lease, Outside, Snapped, Reconciling, WorkStep
  <2>2. CASE worker_fence(p)
    BY <2>2 DEF worker_fence, goto, Outside, Snapped, Reconciling, WorkStep
  <2>3. CASE worker_claim(p)
    BY <2>3 DEF worker_claim, Takes
  <2>4. CASE worker_claim_cancel(p)
    BY <2>4 DEF worker_claim_cancel, Takes
  <2>5. CASE worker_validate(p)
    BY <2>5 DEF worker_validate, goto, Works, WorkStep, Held
  <2>6. CASE worker_submit(p)
    <3>1. PICK s \in {"apply", "apply_copy", "deliver", "unknown"} :
            \/ proc' = [proc EXCEPT ![p].pc = s]
            \/ \E ans : proc' = [proc EXCEPT ![p].pc = s, ![p].answer = ans]
      BY <2>6 DEF worker_submit, apply_step
    <3> QED BY <2>6, <3>1 DEF worker_submit, Works, WorkStep, Held
  <2>7. CASE worker_cancel(p)
    <3>1. PICK s \in {"apply", "apply_copy", "deliver", "unknown"} :
            \/ proc' = [proc EXCEPT ![p].pc = s]
            \/ \E ans : proc' = [proc EXCEPT ![p].pc = s, ![p].answer = ans]
      BY <2>7 DEF worker_cancel, apply_step
    <3> QED BY <2>7, <3>1 DEF worker_cancel, Works, WorkStep, Held
  <2>8. CASE worker_apply_copy(p)
    BY <2>8 DEF worker_apply_copy, goto, Works, WorkStep, Held
  <2>9. CASE worker_apply(p)
    <3>0. PICK s \in {"apply", "deliver"} :
            \E ans : proc' = [proc EXCEPT ![p].answer = ans, ![p].pc = s]
      BY <2>9 DEF worker_apply, apply_step
    <3>1. PICK ans : proc' = [proc EXCEPT ![p].answer = ans, ![p].pc = s]
      BY <3>0
    <3> QED BY <2>9, <3>1 DEF worker_apply, Works, WorkStep, Held
  <2> QED BY <2>1, <2>2, <2>3, <2>4, <2>5, <2>6, <2>7, <2>8, <2>9
<1> QED BY <1>2 DEF ProcMove

\* Every step moves every process in one of these ways.
LEMMA NextProcMove ==
  ASSUME TypeInv, [Next]_vars
  PROVE  \A q \in Procs : ProcMove(q)
<1>1. CASE proc' = proc
  BY <1>1 DEF ProcMove
<1>2. ASSUME NEW p \in Procs, step(p) PROVE \A q \in Procs : ProcMove(q)
  <2>1. CASE exit(p)
    BY <2>1, ExitMove
  <2>2. CASE ~exit(p) /\ reconcile_conclude(p)
    <3>1. PICK s \in {"lease", "authority"} :
            proc' = [proc EXCEPT ![p] = [Idle EXCEPT !.pc = s, !.kind = proc[p].kind,
                                                     !.owner = proc[p].owner, !.at = proc[p].at]]
      BY <2>2 DEF reconcile_conclude
    <3> QED BY <3>1, FreshMove
  <2>3. CASE ~exit(p) /\ ~reconcile_conclude(p)
    <3>1. ~(worker_unknown(p) \/ worker_deliver(p) \/ observe_authority(p) \/ arm_command(p))
      BY <2>3 DEF worker_unknown, worker_deliver, observe_authority, arm_command
    <3> QED BY <1>2, <2>3, <3>1, ReconcilerMoves, WorkerMoves DEF step
  <2> QED BY <2>1, <2>2, <2>3
<1>3. CASE Env
  <2>1. ASSUME NEW p \in Procs, crash(p) PROVE \A q \in Procs : ProcMove(q)
    BY <2>1, ExitMove DEF crash
  <2>2. proc' = proc \/ \E p \in Procs : crash(p)
    BY <1>3 DEF Env, tick, operator_stage, operator_cancel, operator_approve,
       operator_arm, quote_arrives, operator_freeze, operator_unfreeze, broker_fill,
       broker_commission, broker_inject, broker_callback
  <2> QED BY <1>1, <2>1, <2>2
<1>4. ASSUME NEW p \in Procs, NEW kind, NEW owner, start(p, kind, owner)
      PROVE  \A q \in Procs : ProcMove(q)
  <2>1. PICK s \in {"lease", "arm", "snapshot"} :
          proc' = [proc EXCEPT ![p] = [Idle EXCEPT !.pc = s, !.kind = kind,
                                                   !.owner = owner, !.at = now]]
    BY <1>4 DEF start
  <2> QED BY <2>1, FreshMove
<1> QED BY <1>1, <1>2, <1>3, <1>4 DEF Next, vars

-----------------------------------------------------------------------------
(* Intents, their commands and their arms.                                 *)

\* Intent i and its commands: a command belongs to a staged intent, an uncertain one to an
\* intent that is past a local cancel or an approval, the command of an intent under
\* manual control was approved, and an active arm does not outlive its authority.
IntentOK(i) ==
    /\ outbox[i].status # "ABSENT" \/ cancel[i].status # "ABSENT" => status[i] # "ABSENT"
    /\ outbox[i].status \in {"CLAIMED", "UNKNOWN"} => status[i] \notin BeforeBroker \union {"ABSENT"}
    /\ i \in Manual /\ outbox[i].status # "ABSENT" => approval[i]
    /\ arm[i].status = "ACTIVE" => arm[i].expires <= arm[i].authority + AuthorityMaxAge

\* The worker that has the command of an intent in hand got it from a queue.
WorkOK(p) ==
    /\ proc[p].pc = "claim_cancel" => proc[p].kind # "dispatch"
    /\ proc[p].pc \in WorkStep =>
         /\ status[proc[p].work] # "ABSENT"
         /\ proc[p].kind = "dispatch" => outbox[proc[p].work].status # "ABSENT"

CommandInv ==
    /\ \A i \in Intents : IntentOK(i)
    /\ \A p \in Procs : WorkOK(p)

\* No row is ever deleted.
RowsStay(i) ==
    /\ status[i] # "ABSENT" => status'[i] # "ABSENT"
    /\ outbox[i].status # "ABSENT" => outbox'[i].status # "ABSENT"

\* The expiry of an arm is cut down to its authority's.
LEMMA ArmWithinAuthority ==
  ASSUME NEW i, NEW a \in Nat, NEW q \in Quote, NEW t \in Nat, reservation[i].expires \in Nat
  PROVE  arm_expires(i, a, q, t) <= a + AuthorityMaxAge
<1> DEFINE S == {t + ArmTtl, quote_valid_until(q), a + AuthorityMaxAge, reservation[i].expires}
<1>1. t + ArmTtl \in Int /\ a + AuthorityMaxAge \in Int /\ reservation[i].expires \in Int
  BY StoreAssumption
<1>2. quote_valid_until(q) \in Int
  BY QuoteAssumption DEF quote_valid_until, Quote
<1>3. \E x \in S : \A y \in S : x <= y
  BY <1>1, <1>2
<1>4. a + AuthorityMaxAge \in S
  OBVIOUS
<1> HIDE DEF S
<1>5. Min(S) <= a + AuthorityMaxAge
  BY <1>3, <1>4 DEF Min
<1> QED BY <1>5 DEF arm_expires, S

\* A transaction of the operator.
LEMMA OperatorKeeps ==
  ASSUME StoreTypeOK, NEW j \in Intents, OperatorMove(j), NEW i \in Intents, IntentOK(i)
  PROVE  IntentOK(i)' /\ RowsStay(i)
<1> USE DEF IntentOK, RowsStay, BeforeBroker, TerminalStatus
<1>0. /\ outbox \in [Intents -> OutboxRow] /\ cancel \in [Intents -> CancelRow]
      /\ arm \in [Intents -> ArmRecord] /\ status \in [Intents -> ExecutionStatus \union {"ABSENT"}]
      /\ approval \in [Intents -> BOOLEAN]
  BY DEF StoreTypeOK
<1>1. CASE stage(j, now)
  BY <1>0, <1>1 DEF stage, enqueue, OutboxRow
<1>2. CASE approve(j, now)
  BY <1>0, <1>2 DEF approve
<1>3. CASE request_cancel(j)
  BY <1>0, <1>3 DEF request_cancel, OutboxRow, CancelRow
<1>4. ASSUME NEW a \in authorities, NEW q \in quotes, NEW t \in Nat, arm_approved_intent(j, a, q, t)
      PROVE  IntentOK(i)' /\ RowsStay(i)
  <2>1. arm_expires(j, a, q, t) <= a + AuthorityMaxAge
    <3>1. a \in Nat /\ q \in Quote /\ reservation[j].expires \in Nat
      BY DEF StoreTypeOK, ReservationRow
    <3> QED BY <3>1, ArmWithinAuthority
  <2>2. /\ status[j] \in {"APPROVED", "OUTBOXED"} /\ approval[j] /\ enqueue(j)
        /\ cancel' = cancel /\ approval' = approval
        /\ arm' = [arm EXCEPT ![j] = [status |-> "ACTIVE", expires |-> arm_expires(j, a, q, t),
                                      authority |-> a, quote |-> q]]
    BY <1>4 DEF arm_approved_intent, arm_admissible
  <2> QED BY <1>0, <2>1, <2>2 DEF enqueue, OutboxRow
<1> QED BY <1>1, <1>2, <1>3, <1>4 DEF OperatorMove

\* A transaction of a worker on the head of a queue, or of the reconciler on a command.
LEMMA ClaimKeeps ==
  ASSUME StoreTypeOK, NEW p, NEW j \in Intents, ClaimMove(p, j) \/ ReconcilerMove(p, j),
         NEW i \in Intents, IntentOK(i)
  PROVE  IntentOK(i)' /\ RowsStay(i)
<1> USE DEF IntentOK, RowsStay, BeforeBroker
<1>0. /\ outbox \in [Intents -> OutboxRow] /\ cancel \in [Intents -> CancelRow]
      /\ arm \in [Intents -> ArmRecord] /\ status \in [Intents -> ExecutionStatus \union {"ABSENT"}]
  BY DEF StoreTypeOK
<1>1. CASE claim_next_expires_arm(proc[p].owner, proc[p].token, proc[p].at, j)
  BY <1>0, <1>1 DEF claim_next_expires_arm, ArmRecord
<1>2. CASE claim_next_expires_reservation(proc[p].owner, proc[p].token, proc[p].at, j)
  BY <1>0, <1>2 DEF claim_next_expires_reservation, head_cleared, outbox_head, OutboxRow
<1>3. CASE claim_next(proc[p].owner, proc[p].token, proc[p].at, j)
  BY <1>0, <1>3 DEF claim_next, head_cleared, outbox_head, consume_arm, OutboxRow, ArmRecord
<1>4. CASE claim_next_cancel(proc[p].owner, proc[p].token, proc[p].at, j)
  BY <1>0, <1>4 DEF claim_next_cancel, cancel_head, CancelRow
<1>5. CASE resolve_unknown_at_broker(j)
  BY <1>0, <1>5 DEF resolve_unknown_at_broker, OutboxRow
<1>6. CASE requeue_unknown_absent_at_broker(j, proc[p].at)
  BY <1>0, <1>6 DEF requeue_unknown_absent_at_broker, OutboxRow
<1> QED BY <1>1, <1>2, <1>3, <1>4, <1>5, <1>6 DEF ClaimMove, ReconcilerMove

\* A transaction of a worker on its command, a recovery, an event.
LEMMA HandKeeps ==
  ASSUME TypeInv, NEW p \in Procs, HandMove(p), WorkOK(p), NEW i \in Intents, IntentOK(i)
  PROVE  IntentOK(i)' /\ RowsStay(i)
<1> USE DEF IntentOK, RowsStay, BeforeBroker
<1>0. /\ outbox \in [Intents -> OutboxRow] /\ cancel \in [Intents -> CancelRow]
      /\ status \in [Intents -> ExecutionStatus \union {"ABSENT"}]
  BY DEF TypeInv, TypeOK, StoreTypeOK
<1>1. proc[p].work \in Intents
  BY ProcFacts DEF ProcOK, HandMove
<1>2. /\ status[proc[p].work] # "ABSENT"
      /\ proc[p].kind = "dispatch" => outbox[proc[p].work].status # "ABSENT"
  BY DEF HandMove, WorkOK
<1>3. CASE proc[p].kind = "dispatch" /\ mark_submission_unknown(proc[p].work)
  BY <1>0, <1>1, <1>2, <1>3 DEF mark_submission_unknown, OutboxRow
<1>4. CASE proc[p].kind = "dispatch" /\ mark_delivered(proc[p].work)
  BY <1>0, <1>1, <1>2, <1>4 DEF mark_delivered, OutboxRow
<1>5. CASE mark_cancel_unknown(proc[p].work) \/ mark_cancel_delivered(proc[p].work)
  BY <1>0, <1>1, <1>2, <1>5 DEF mark_cancel_unknown, mark_cancel_delivered, CancelRow
<1> QED BY <1>3, <1>4, <1>5 DEF HandMove

LEMMA RecoverKeeps ==
  ASSUME StoreTypeOK, recover_claimed_as_unknown, NEW i \in Intents, IntentOK(i)
  PROVE  IntentOK(i)' /\ RowsStay(i)
<1>1. outbox[i] \in OutboxRow
  BY DEF StoreTypeOK
<1>2. [outbox[i] EXCEPT !.status = "UNKNOWN"].status = "UNKNOWN"
  BY <1>1 DEF OutboxRow
<1> QED BY <1>2 DEF recover_claimed_as_unknown, IntentOK, RowsStay, BeforeBroker

\* The status an event leaves is the one it found or one of the broker's.
LEMMA EventStatus ==
  ASSUME NEW type \in BrokerEventType, NEW n, NEW st
  PROVE  \/ status_for(type, n, st) = st
         \/ status_for(type, n, st) \notin BeforeBroker \union {"ABSENT"}
  BY DEF status_for, BrokerEventType, BeforeBroker

LEMMA EventKeeps ==
  ASSUME TypeInv, NEW n \in 1 .. Len(events), apply_broker_event(n, events[n]),
         NEW i \in Intents, IntentOK(i)
  PROVE  IntentOK(i)' /\ RowsStay(i)
<1>0. status \in [Intents -> ExecutionStatus \union {"ABSENT"}] /\ events[n].type \in BrokerEventType
  <2>1. /\ status \in [Intents -> ExecutionStatus \union {"ABSENT"}]
        /\ events \in Seq(BrokerEvent)
    BY DEF TypeInv, TypeOK, StoreTypeOK, BrokerTypeOK
  <2>2. events[n] \in BrokerEvent
    BY <2>1
  <2> QED BY <2>1, <2>2 DEF BrokerEvent
<1>1. UNCHANGED <<outbox, cancel, approval, arm>>
  BY DEF apply_broker_event
<1>2. \/ status' = status
      \/ \E j \in Intents : \E m :
           /\ status[j] # "ABSENT"
           /\ status' = [status EXCEPT ![j] = status_for(events[n].type, m, status[j])]
  BY DEF apply_broker_event, Staged
<1>3. status'[i] = status[i] \/ status'[i] \notin BeforeBroker \union {"ABSENT"}
  BY <1>0, <1>2, EventStatus
<1> QED BY <1>1, <1>3 DEF IntentOK, RowsStay

\* Every step keeps the rows and what holds of them.
LEMMA IntentsKept ==
  ASSUME TypeInv, CommandInv, StoreMove, NEW i \in Intents
  PROVE  IntentOK(i)' /\ RowsStay(i)
<1>0. StoreTypeOK /\ IntentOK(i) /\ \A p \in Procs : WorkOK(p)
  BY DEF TypeInv, TypeOK, CommandInv
<1>1. CASE QuietStore
  BY <1>0, <1>1 DEF QuietStore, IntentOK, RowsStay
<1> QED BY <1>0, <1>1, OperatorKeeps, ClaimKeeps, HandKeeps, RecoverKeeps, EventKeeps DEF StoreMove

\* ... and what a worker relies on.
LEMMA WorkKept ==
  ASSUME TypeInv, CommandInv, StoreMove, NEW p \in Procs, ProcMove(p)
  PROVE  WorkOK(p)'
<1>0. /\ \A i \in Intents : RowsStay(i)
      /\ proc[p].pc \in WorkStep => proc[p].work \in Intents
      /\ WorkOK(p)
  BY IntentsKept, ProcFacts DEF CommandInv, ProcOK
<1>1. CASE proc'[p] = proc[p]
  BY <1>0, <1>1 DEF WorkOK, RowsStay
<1>2. CASE Outside(proc'[p]) \/ Reconciles(p, proc[p], proc'[p])
  BY <1>2 DEF Outside, Reconciles, Snapped, Reconciling, WorkStep, WorkOK
<1>3. CASE Works(proc[p], proc'[p])
  BY <1>0, <1>3 DEF Works, WorkOK, RowsStay, WorkStep
<1>4. CASE Takes(proc[p], proc'[p])
  <2> DEFINE i == proc'[p].work
  <2>1. i \in Intents /\ proc'[p].pc = "validate" /\ proc'[p].kind = proc[p].kind
    BY <1>4 DEF Takes
  <2>2. /\ outbox \in [Intents -> OutboxRow]
        /\ cancel \in [Intents -> CancelRow]
        /\ \A j \in Intents : IntentOK(j)
    BY DEF TypeInv, TypeOK, StoreTypeOK, CommandInv
  <2>3. status[i] # "ABSENT" /\ (proc[p].kind = "dispatch" => outbox[i].status # "ABSENT")
    <3>1. CASE proc[p].pc = "claim" /\ claim_next(proc[p].owner, proc[p].token, proc[p].at, i)
      BY <2>1, <2>2, <3>1 DEF claim_next, head_cleared, outbox_head, IntentOK
    <3>2. CASE /\ proc[p].pc = "claim_cancel"
               /\ claim_next_cancel(proc[p].owner, proc[p].token, proc[p].at, i)
      BY <1>0, <2>1, <2>2, <3>2 DEF claim_next_cancel, cancel_head, IntentOK, WorkOK
    <3> QED BY <1>4, <3>1, <3>2 DEF Takes
  <2> HIDE DEF i
  <2>4. status'[i] # "ABSENT" /\ (proc[p].kind = "dispatch" => outbox'[i].status # "ABSENT")
    BY <1>0, <2>1, <2>3 DEF RowsStay
  <2> QED BY <2>1, <2>4 DEF WorkOK, i
<1> QED BY <1>1, <1>2, <1>3, <1>4 DEF ProcMove

LEMMA InitCommands == Init => CommandInv
  BY DEF Init, StoreInit, CommandInv, IntentOK, WorkOK, Idle, WorkStep, NoArm

LEMMA CommandStep == TypeInv /\ CommandInv /\ [Next]_vars => CommandInv'
<1> SUFFICES ASSUME TypeInv, CommandInv, [Next]_vars PROVE CommandInv'
  OBVIOUS
<1>1. StoreMove /\ \A p \in Procs : ProcMove(p)
  BY NextMove, NextProcMove
<1>2. ASSUME NEW i \in Intents PROVE IntentOK(i)'
  BY <1>1, IntentsKept
<1>3. ASSUME NEW p \in Procs PROVE WorkOK(p)'
  BY <1>1, WorkKept
<1> QED BY <1>2, <1>3 DEF CommandInv

-----------------------------------------------------------------------------
(* The evidence behind a claim.                                            *)

\* A submit command becomes claimed by claim_next and by nothing else.
LEMMA ClaimedByClaim ==
  ASSUME TypeInv, StoreMove, NEW i \in Intents,
         outbox[i].status # "CLAIMED", outbox'[i].status = "CLAIMED"
  PROVE  \E p \in Procs : /\ at_step(p, "claim")
                          /\ claim_next(proc[p].owner, proc[p].token, proc[p].at, i)
<1>0. outbox \in [Intents -> OutboxRow]
  BY DEF TypeInv, TypeOK, StoreTypeOK
<1>1. ~QuietStore /\ ~recover_claimed_as_unknown
  <2>1. [outbox[i] EXCEPT !.status = "UNKNOWN"].status = "UNKNOWN"
    BY <1>0 DEF OutboxRow
  <2> QED BY <2>1 DEF QuietStore, recover_claimed_as_unknown
<1>2. ASSUME NEW j \in Intents, OperatorMove(j) PROVE FALSE
  BY <1>0, <1>2 DEF OperatorMove, stage, approve, request_cancel, arm_approved_intent, enqueue,
     OutboxRow
<1>3. ASSUME NEW p \in Procs, HandMove(p) PROVE FALSE
  BY <1>0, <1>3 DEF HandMove, mark_submission_unknown, mark_delivered, mark_cancel_unknown,
     mark_cancel_delivered, OutboxRow
<1>4. ASSUME NEW p \in Procs, NEW j \in Intents, ReconcilerMove(p, j) PROVE FALSE
  BY <1>0, <1>4 DEF ReconcilerMove, resolve_unknown_at_broker, requeue_unknown_absent_at_broker,
     OutboxRow
<1>5. ASSUME NEW n, apply_broker_event(n, events[n]) PROVE FALSE
  BY <1>5 DEF apply_broker_event
<1>6. ASSUME NEW p \in Procs, NEW j \in Intents, ClaimMove(p, j)
      PROVE  /\ at_step(p, "claim")
             /\ claim_next(proc[p].owner, proc[p].token, proc[p].at, i)
  BY <1>0, <1>6 DEF ClaimMove, claim_next_expires_arm, claim_next_expires_reservation, claim_next,
     claim_next_cancel, OutboxRow
<1> QED BY <1>1, <1>2, <1>3, <1>4, <1>5, <1>6 DEF StoreMove

\* Whoever claims the command of an intent, on whatever clock reading: an intent under
\* manual control was approved, and the reservation, the quote and the broker authority
\* behind its arm have not expired and are the newest.
THEOREM ClaimsWithinEvidence == Spec => ClaimWithinEvidence
<1>1. TypeInv /\ CommandInv /\ [Next]_vars =>
        [\A i \in Intents :
           outbox[i].status = "PENDING" /\ outbox'[i].status = "CLAIMED" =>
             /\ i \in Manual => approval[i]
             /\ outbox'[i].claimedAt < reservation[i].expires
             /\ approval[i] =>
                  /\ outbox'[i].claimedAt < quote_valid_until(arm[i].quote)
                  /\ outbox'[i].claimedAt < arm[i].authority + AuthorityMaxAge
                  /\ \A b \in authorities : b <= arm[i].authority]_vars
  <2> SUFFICES ASSUME TypeInv, CommandInv, [Next]_vars, NEW i \in Intents,
                      outbox[i].status = "PENDING", outbox'[i].status = "CLAIMED"
               PROVE  /\ i \in Manual => approval[i]
                      /\ outbox'[i].claimedAt < reservation[i].expires
                      /\ approval[i] =>
                           /\ outbox'[i].claimedAt < quote_valid_until(arm[i].quote)
                           /\ outbox'[i].claimedAt < arm[i].authority + AuthorityMaxAge
                           /\ \A b \in authorities : b <= arm[i].authority
    OBVIOUS
  <2>1. PICK p \in Procs : claim_next(proc[p].owner, proc[p].token, proc[p].at, i)
    BY NextMove, ClaimedByClaim
  <2>2. proc[p].at \in Nat
    BY ProcFacts DEF ProcState
  <2>3. outbox \in [Intents -> OutboxRow] /\ arm[i] \in ArmRecord /\ reservation[i].expires \in Nat
    BY DEF TypeInv, TypeOK, StoreTypeOK, ReservationRow
  <2>4. outbox'[i].claimedAt = proc[p].at
    BY <2>1, <2>3 DEF claim_next, OutboxRow
  <2>5. i \in Manual => approval[i]
    BY DEF CommandInv, IntentOK
  <2>6. proc[p].at < reservation[i].expires
    BY <2>1, <2>2, <2>3 DEF claim_next
  <2>7. ASSUME approval[i]
        PROVE  /\ proc[p].at < quote_valid_until(arm[i].quote)
               /\ proc[p].at < arm[i].authority + AuthorityMaxAge
               /\ \A b \in authorities : b <= arm[i].authority
    <3>1. arm[i].status = "ACTIVE" /\ arm_holds(i, proc[p].at)
      BY <2>1, <2>7 DEF claim_next, head_cleared
    <3>2. proc[p].at < quote_valid_until(arm[i].quote)
      <4>1. quote_valid_until(arm[i].quote) > proc[p].at
        BY <3>1 DEF arm_holds, quote_eligible
      <4>2. quote_valid_until(arm[i].quote) \in Int
        BY <2>3, QuoteAssumption DEF quote_valid_until, ArmRecord, Quote
      <4> HIDE DEF quote_valid_until
      <4> QED BY <2>2, <4>1, <4>2
    <3>3. arm[i].expires <= arm[i].authority + AuthorityMaxAge
      BY <3>1 DEF CommandInv, IntentOK
    <3>4. arm[i].expires > proc[p].at /\ arm[i].expires \in Int /\ arm[i].authority \in Nat
      BY <2>3, <3>1 DEF arm_holds, ArmRecord
    <3>5. proc[p].at < arm[i].authority + AuthorityMaxAge
      BY <2>2, <3>3, <3>4, StoreAssumption
    <3>6. \A b \in authorities : b <= arm[i].authority
      BY <3>1 DEF arm_holds, latest_broker_snapshot_authority
    <3> QED BY <3>2, <3>5, <3>6
  <2> QED BY <2>4, <2>5, <2>6, <2>7
<1> QED BY <1>1, InitTypeInv, TypeInvStep, InitCommands, CommandStep, PTL
        DEF Spec, ClaimWithinEvidence

-----------------------------------------------------------------------------
(* Exactly-once economics.                                                 *)

\* The shares and the cash of the events of log at the positions S.
fills_at(S, log) == SumFunction([n \in S |-> log[n].qty])
cash_at(S, log) == SumFunction([n \in S |-> event_cash(log[n])])

LEMMA SumsOneMore ==
  ASSUME NEW log \in Seq(BrokerEvent), NEW S \in SUBSET (1 .. Len(log)),
         NEW n \in (1 .. Len(log)) \ S
  PROVE  /\ fills_at(S \union {n}, log) = log[n].qty + fills_at(S, log)
         /\ cash_at(S \union {n}, log) = event_cash(log[n]) + cash_at(S, log)
         /\ fills_at(S, log) \in Int /\ cash_at(S, log) \in Int
<1> DEFINE T == S \union {n}
           f == [m \in T |-> log[m].qty]
           g == [m \in S |-> log[m].qty]
           c == [m \in T |-> event_cash(log[m])]
           d == [m \in S |-> event_cash(log[m])]
<1>1. IsFiniteSet(S) /\ n \notin S
  BY LogFinite
<1>2. \A m \in T : log[m].qty \in Nat
  <2>1. T \in SUBSET (1 .. Len(log))
    OBVIOUS
  <2> HIDE DEF T
  <2> QED BY <2>1, LogFinite
<1>3. \A m \in T : event_cash(log[m]) \in Int
  BY <1>2 DEF event_cash
<1>4. f \in [T -> Int] /\ g = [m \in S |-> f[m]] /\ f[n] = log[n].qty
  BY <1>2
<1>5. c \in [T -> Int] /\ d = [m \in S |-> c[m]] /\ c[n] = event_cash(log[n])
  BY <1>3
<1> HIDE DEF f, g, c, d
<1>6. OneTermMore(f, g, n) /\ OneTermMore(c, d, n)
  BY <1>1, <1>4, <1>5 DEF OneTermMore
<1>7. /\ SumFunction(f) = f[n] + SumFunction(g) /\ SumFunction(g) \in Int
      /\ SumFunction(c) = c[n] + SumFunction(d) /\ SumFunction(d) \in Int
  BY <1>6, SumStep
<1> QED BY <1>4, <1>5, <1>7 DEF fills_at, cash_at, f, g, c, d

\* The sums do not change when the log grows.
LEMMA SumsStay ==
  ASSUME NEW S, NEW log, NEW log2, \A n \in S : log2[n] = log[n]
  PROVE  fills_at(S, log2) = fills_at(S, log) /\ cash_at(S, log2) = cash_at(S, log)
<1>1. [n \in S |-> log2[n].qty] = [n \in S |-> log[n].qty]
  OBVIOUS
<1>2. [n \in S |-> event_cash(log2[n])] = [n \in S |-> event_cash(log[n])]
  OBVIOUS
<1> QED BY <1>1, <1>2 DEF fills_at, cash_at

\* Some of the events of an order filled no more than the order.
LEMMA SomeFills ==
  ASSUME TypeInv, LogOK(orders, events), NEW k \in Keys, NEW S \in SUBSET log_of(events, k)
  PROVE  fills_at(S, events) <= orders[k].filled /\ orders[k].filled \in 0 .. Qty
<1> DEFINE D == log_of(events, k)
           f == [n \in D |-> events[n].qty]
<1>1. events \in Seq(BrokerEvent) /\ D \in SUBSET (1 .. Len(events)) /\ orders[k] \in BrokerOrder
  BY DEF TypeInv, TypeOK, BrokerTypeOK, log_of
<1>2. IsFiniteSet(D) /\ \A n \in D : events[n].qty \in Nat
  <2> HIDE DEF D
  <2> QED BY <1>1, LogFinite
<1>3. f \in [D -> Nat] /\ [n \in S |-> f[n]] = [n \in S |-> events[n].qty] /\ S \in SUBSET D
  BY <1>2
<1>4. orders[k].filled = SumFunction(f)
  BY DEF LogOK
<1> HIDE DEF f, D
<1>5. SumFunction([n \in S |-> f[n]]) <= SumFunction(f)
  BY <1>2, <1>3, SumMonotone
<1> QED BY <1>1, <1>3, <1>4, <1>5 DEF fills_at, BrokerOrder

\* The events of intents in the inbox, and the inductive form of the economics.
own_events == {n \in inbox : events[n].key \in Intents}

EconInv ==
    /\ inbox \subseteq 1 .. Len(events)
    /\ \A i \in Intents : orders[i].status # "ABSENT" => status[i] # "ABSENT"
    /\ \A i \in Intents : filled[i] = fills_at(applied(i), events)
    /\ cashDelta = cash_at(own_events, events)

LEMMA InitEcon == Init => EconInv
<1> SUFFICES ASSUME Init PROVE EconInv
  OBVIOUS
<1>1. inbox = {} /\ cashDelta = 0 /\ filled = [i \in Intents |-> 0]
      /\ orders = [k \in Keys |-> NoOrder]
  BY DEF Init, StoreInit, BrokerInit
<1>2. \A f : DOMAIN f = {} => SumFunction(f) = 0
  BY SumNothing
<1>3. fills_at({}, events) = 0 /\ cash_at({}, events) = 0
  <2> DEFINE f == [n \in {} |-> events[n].qty]
             c == [n \in {} |-> event_cash(events[n])]
  <2>1. DOMAIN f = {} /\ DOMAIN c = {}
    OBVIOUS
  <2> HIDE DEF f, c
  <2>2. SumFunction(f) = 0 /\ SumFunction(c) = 0
    BY <1>2, <2>1
  <2> QED BY <2>2 DEF fills_at, cash_at, f, c
<1>4. own_events = {} /\ \A i \in Intents : applied(i) = {}
  BY <1>1 DEF own_events, applied
<1> QED BY <1>1, <1>3, <1>4 DEF EconInv, Keys, NoOrder

\* An order comes from a worker that has the command of a staged intent in hand.
LEMMA OrdersStaged ==
  ASSUME TypeInv, CommandInv, StoreMove, BrokerMove, NEW i \in Intents,
         orders[i].status # "ABSENT" => status[i] # "ABSENT", orders'[i].status # "ABSENT"
  PROVE  status'[i] # "ABSENT"
<1>0. RowsStay(i) /\ orders \in [Keys -> BrokerOrder] /\ i \in Keys /\ i \notin ExternalKeys
  BY IntentsKept, TypesAssumption DEF TypeInv, TypeOK, BrokerTypeOK, Keys
<1>1. CASE status[i] # "ABSENT"
  BY <1>0, <1>1 DEF RowsStay
<1>2. CASE status[i] = "ABSENT"
  <2>1. orders[i].status = "ABSENT"
    BY <1>2
  <2>2. i \notin AtBroker
    BY <2>1 DEF AtBroker
  <2>3. ASSUME NEW p \in Procs, NEW scenario, at_step(p, "submit"),
               submit_new(proc[p].work, proc[p].token, scenario)
        PROVE  FALSE
    <3>1. i = proc[p].work
      BY <1>0, <2>1, <2>3 DEF submit_new
    <3>2. status[proc[p].work] # "ABSENT"
      BY <2>3 DEF CommandInv, WorkOK, at_step, WorkStep
    <3> QED BY <1>2, <3>1, <3>2
  <2>4. ASSUME NEW k \in Keys, NEW n, fill(k, n) \/ commission(k) \/ cancel_order(k, n, 0)
        PROVE  FALSE
    BY <1>0, <2>1, <2>2, <2>4 DEF fill, commission, cancel_order
  <2>5. ASSUME NEW k \in ExternalKeys, inject_broker_only_order(k) PROVE FALSE
    BY <1>0, <2>1, <2>5 DEF inject_broker_only_order
  <2>6. \A p \in Procs : at_step(p, "cancel") => proc[p].work \in Keys
    BY ProcFacts DEF ProcOK, at_step, WorkStep, Keys
  <2> QED BY <2>1, <2>3, <2>4, <2>5, <2>6 DEF BrokerMove
<1> QED BY <1>1, <1>2

\* An event reaches the economics once, in full.
LEMMA EventApplied ==
  ASSUME TypeInv, LogOK(orders, events), EconInv, LogGrows,
         NEW n \in (1 .. Len(events)) \ inbox, apply_broker_event(n, events[n])
  PROVE  /\ inbox' \subseteq 1 .. Len(events)
         /\ \A i \in Intents : filled'[i] = fills_at(applied(i)', events)
         /\ cashDelta' = cash_at(own_events', events)
<1> DEFINE e == events[n]
<1>0. /\ events \in Seq(BrokerEvent) /\ e \in BrokerEvent /\ e.qty \in Nat
      /\ filled \in [Intents -> 0 .. Qty] /\ cashDelta \in Int /\ Qty \in Nat
  <2>1. events \in Seq(BrokerEvent) /\ filled \in [Intents -> 0 .. Qty] /\ cashDelta \in Int
    BY DEF TypeInv, TypeOK, BrokerTypeOK, StoreTypeOK
  <2>2. e \in BrokerEvent
    BY <2>1
  <2> QED BY <2>1, <2>2, TypesAssumption DEF BrokerEvent
<1>1. /\ inbox' = inbox \union {n} /\ inbox' \subseteq 1 .. Len(events)
      /\ \A m \in inbox' : events'[m] = events[m]
  BY DEF apply_broker_event, EconInv, LogGrows
<1>2. /\ own_events' = {m \in inbox' : events[m].key \in Intents}
      /\ \A i \in Intents : applied(i)' = {m \in inbox' : events[m].key = i}
  BY <1>1 DEF own_events, applied
<1>3. CASE e.key \in Staged
  <2>0. PICK i \in Intents : i = e.key
    BY <1>3 DEF Staged
  <2> DEFINE total == filled[i] + e.qty
  <2>1. /\ i \in Intents
        /\ filled' = [filled EXCEPT ![i] = IF total < Qty THEN total ELSE Qty]
        /\ cashDelta' = cashDelta + event_cash(e)
    BY <1>3, <2>0 DEF apply_broker_event
  <2>2. /\ applied(i) \in SUBSET (1 .. Len(events)) /\ own_events \in SUBSET (1 .. Len(events))
        /\ n \notin applied(i) /\ n \notin own_events
    BY DEF EconInv, applied, own_events
  <2>3. /\ applied(i)' = applied(i) \union {n} /\ own_events' = own_events \union {n}
        /\ \A j \in Intents : j # i => applied(j)' = applied(j)
    BY <1>1, <1>2, <2>0 DEF applied, own_events
  <2> HIDE DEF e, total
  <2>4. fills_at(applied(i)', events) = e.qty + filled[i]
    BY <1>0, <2>1, <2>2, <2>3, SumsOneMore DEF EconInv, e
  <2>5. cash_at(own_events', events) = event_cash(e) + cashDelta
    BY <1>0, <2>2, <2>3, SumsOneMore DEF EconInv, e
  <2>6. total <= Qty
    <3>1. applied(i)' \in SUBSET log_of(events, i) /\ i \in Keys
      BY <1>1, <1>2, <2>1 DEF log_of, Keys
    <3>2. fills_at(applied(i)', events) <= orders[i].filled /\ orders[i].filled \in 0 .. Qty
      BY <3>1, SomeFills
    <3> QED BY <1>0, <2>1, <2>4, <3>2 DEF total
  <2>7. filled[i] \in Int /\ total \in Int /\ total = e.qty + filled[i]
    BY <1>0, <2>1 DEF total
  <2>8. filled'[i] = total /\ \A j \in Intents : j # i => filled'[j] = filled[j]
    BY <1>0, <2>1, <2>6, <2>7
  <2>9. cashDelta' = event_cash(e) + cashDelta
    <3>1. event_cash(e) \in Int
      BY <1>0 DEF event_cash
    <3> HIDE DEF event_cash
    <3> QED BY <1>0, <2>1, <3>1
  <2>10. \A j \in Intents : filled'[j] = fills_at(applied(j)', events)
    BY <2>3, <2>4, <2>7, <2>8 DEF EconInv
  <2> QED BY <1>1, <2>5, <2>9, <2>10
<1>4. CASE e.key \notin Staged
  <2>1. e.key \notin Intents
    <3>1. SUFFICES ASSUME e.key \in Intents PROVE FALSE
      OBVIOUS
    <3>2. orders[e.key].status = "ABSENT" /\ e.key \in Keys
      BY <1>4, <3>1 DEF Staged, EconInv, Keys
    <3>3. log_of(events, e.key) = {}
      BY <3>2 DEF LogOK
    <3> QED BY <3>3 DEF log_of
  <2>2. filled' = filled /\ cashDelta' = cashDelta
    BY <1>4 DEF apply_broker_event
  <2>3. own_events' = own_events /\ \A j \in Intents : applied(j)' = applied(j)
    BY <1>1, <1>2, <2>1 DEF own_events, applied
  <2> QED BY <1>1, <2>2, <2>3 DEF EconInv
<1> QED BY <1>3, <1>4

LEMMA EconStep ==
  ASSUME TypeInv, CommandInv, LogOK(orders, events), EconInv, [Next]_vars
  PROVE  EconInv'
<1>1. StoreMove /\ BrokerMove /\ LogGrows
  BY NextMove, NextBrokerMove, NextLog
<1>2. \A i \in Intents : orders'[i].status # "ABSENT" => status'[i] # "ABSENT"
  BY <1>1, OrdersStaged DEF EconInv
<1>3. /\ inbox' \subseteq 1 .. Len(events)
      /\ \A i \in Intents : filled'[i] = fills_at(applied(i)', events)
      /\ cashDelta' = cash_at(own_events', events)
  <2>1. ASSUME UNCHANGED <<filled, inbox, cashDelta>>
        PROVE  <1>3!1 /\ <1>3!2 /\ <1>3!3
    <3>1. inbox' = inbox /\ \A n \in inbox : events'[n] = events[n]
      BY <1>1, <2>1 DEF EconInv, LogGrows
    <3>2. own_events' = own_events /\ \A i \in Intents : applied(i)' = applied(i)
      BY <3>1 DEF own_events, applied
    <3> QED BY <2>1, <3>2 DEF EconInv
  <2>2. \/ UNCHANGED <<filled, inbox, cashDelta>>
        \/ \E n \in (1 .. Len(events)) \ inbox : apply_broker_event(n, events[n])
    <3>1. ASSUME NEW i \in Intents, OperatorMove(i) PROVE UNCHANGED <<filled, inbox, cashDelta>>
      BY <3>1 DEF OperatorMove, stage, approve, request_cancel, arm_approved_intent
    <3>2. ASSUME NEW p \in Procs, HandMove(p) PROVE UNCHANGED <<filled, inbox, cashDelta>>
      BY <3>2 DEF HandMove, mark_submission_unknown, mark_delivered, mark_cancel_unknown,
         mark_cancel_delivered
    <3>3. ASSUME NEW p \in Procs, NEW i \in Intents, ClaimMove(p, i) \/ ReconcilerMove(p, i)
          PROVE  UNCHANGED <<filled, inbox, cashDelta>>
      BY <3>3 DEF ClaimMove, claim_next_expires_arm, claim_next_expires_reservation, claim_next,
         claim_next_cancel, ReconcilerMove, resolve_unknown_at_broker,
         requeue_unknown_absent_at_broker
    <3>4. CASE QuietStore \/ recover_claimed_as_unknown
      BY <3>4 DEF QuietStore, recover_claimed_as_unknown
    <3> QED BY <1>1, <3>1, <3>2, <3>3, <3>4 DEF StoreMove
  <2> QED BY <1>1, <2>1, <2>2, EventApplied
<1>4. \A n \in inbox' : events'[n] = events[n]
  BY <1>1, <1>3 DEF LogGrows
<1>5. /\ \A i \in Intents : fills_at(applied(i)', events') = fills_at(applied(i)', events)
      /\ cash_at(own_events', events') = cash_at(own_events', events)
  <2>1. own_events' \subseteq inbox' /\ \A i \in Intents : applied(i)' \subseteq inbox'
    BY DEF own_events, applied
  <2>2. ASSUME NEW i \in Intents PROVE fills_at(applied(i)', events') = fills_at(applied(i)', events)
    <3>1. \A n \in applied(i)' : events'[n] = events[n]
      BY <1>4, <2>1
    <3> QED BY <3>1, SumsStay
  <2>3. \A n \in own_events' : events'[n] = events[n]
    BY <1>4, <2>1
  <2>4. cash_at(own_events', events') = cash_at(own_events', events)
    BY <2>3, SumsStay
  <2> QED BY <2>2, <2>4
<1>6. inbox' \subseteq 1 .. Len(events')
  <2>1. Len(events) \in Nat /\ Len(events') >= Len(events) /\ Len(events') \in Nat
    BY <1>1, TypeInvStep DEF LogGrows, TypeInv, TypeOK, BrokerTypeOK
  <2> QED BY <1>3, <2>1
<1>7. /\ \A i \in Intents : filled'[i] = fills_at(applied(i)', events')
      /\ cashDelta' = cash_at(own_events', events')
  BY <1>3, <1>5
<1> QED BY <1>2, <1>6, <1>7 DEF EconInv, fills_at, cash_at

\* Exactly-once economics, for any number of workers, reconcilers and callbacks, in any
\* order of delivery: an intent's fills and the cash projection are the sums over the
\* events in the inbox, nothing is cut off at the order's quantity, and the projection
\* never runs ahead of the broker.
THEOREM EconomicsOnce == Spec => []EconomicsAppliedOnce
<1>1. ASSUME TypeInv, LogOK(orders, events), EconInv PROVE EconomicsAppliedOnce
  <2>1. ASSUME NEW i \in Intents
        PROVE  filled[i] = applied_fills(i) /\ filled[i] <= orders[i].filled
    <3>1. applied(i) \in SUBSET log_of(events, i) /\ i \in Keys
      BY <1>1 DEF EconInv, applied, log_of, Keys
    <3>2. fills_at(applied(i), events) <= orders[i].filled
      BY <1>1, <3>1, SomeFills
    <3> QED BY <1>1, <3>2 DEF EconInv, applied_fills, fills_at
  <2>2. own_events = UNION {applied(i) : i \in Intents}
    BY DEF own_events, applied
  <2>3. cashDelta = SumFunction([n \in own_events |-> event_cash(events[n])])
    BY <1>1 DEF EconInv, cash_at
  <2> QED BY <2>1, <2>2, <2>3 DEF EconomicsAppliedOnce
<1>2. TypeInv /\ LogOK(orders, events) /\ EconInv => EconomicsAppliedOnce
  BY <1>1
<1>3. TypeInv /\ CommandInv /\ LogOK(orders, events) /\ EconInv /\ [Next]_vars => EconInv'
  BY EconStep
<1> QED BY <1>2, <1>3, InitTypeInv, TypeInvStep, InitCommands, CommandStep, InitLog, LogStep,
           InitEcon, PTL DEF Spec

-----------------------------------------------------------------------------
(* Commands that do not overlap.                                           *)

\* The remaining properties hold only as long as no command is started before the one
\* before it has ended or crashed, which is how cron and the operator are meant to run
\* them.  (The run violate_critical shows what two overlapping reconcilers do.)
OneAtATime ==
    \A p, q \in Procs : proc[p].pc # "idle" /\ proc[q].pc # "idle" => p = q

\* A worker that has not heard the broker's answer still owns the claim, ...
HeldOK(p) ==
    /\ proc[p].pc = "cancel" => proc[p].kind # "dispatch"
    /\ proc[p].pc = "submit" => proc[p].kind = "dispatch"
    /\ proc[p].pc \in Held /\ proc[p].kind = "dispatch" => outbox[proc[p].work].status = "CLAIMED"

\* ... and the arm that authorised the claim is used up.
ArmUsed(i) == approval[i] /\ outbox[i].status \in {"CLAIMED", "UNKNOWN"} => arm[i].status # "ACTIVE"

ArmInv ==
    /\ \A p \in Procs : HeldOK(p)
    /\ \A i \in Intents : ArmUsed(i)

\* Nobody else touches a claimed command.
LEMMA ClaimStays ==
  ASSUME TypeInv, CommandInv, OneAtATime, StoreMove, NEW p \in Procs, proc[p].pc \in Held,
         proc'[p].pc \in Held, outbox[proc[p].work].status = "CLAIMED"
  PROVE  outbox'[proc[p].work].status = "CLAIMED"
<1>0. PICK i \in Intents : i = proc[p].work
  BY ProcFacts DEF ProcOK, WorkStep, Held
<1>1. /\ outbox \in [Intents -> OutboxRow] /\ proc \in [Procs -> ProcState]
      /\ outbox[i].status = "CLAIMED" /\ IntentOK(i)
  BY <1>0 DEF TypeInv, TypeOK, StoreTypeOK, CommandInv
<1>2. ASSUME NEW q \in Procs, proc[q].pc # "idle" PROVE q = p
  BY <1>2 DEF OneAtATime, Held
<1>3. CASE QuietStore
  BY <1>0, <1>1, <1>3 DEF QuietStore
<1>4. ASSUME NEW j \in Intents, OperatorMove(j) PROVE outbox'[i].status = "CLAIMED"
  BY <1>1, <1>4 DEF OperatorMove, stage, approve, request_cancel, arm_approved_intent,
     arm_admissible, enqueue, OutboxRow, IntentOK, BeforeBroker
<1>5. ASSUME NEW q \in Procs, HandMove(q) PROVE FALSE
  <2>1. q = p
    BY <1>2, <1>5 DEF HandMove, WorkStep
  <2>2. proc'[p].pc = "idle"
    BY <1>1, <1>5, <2>1 DEF HandMove, exit, Idle
  <2> QED BY <2>2 DEF Held
<1>6. ASSUME NEW q \in Procs, NEW j \in Intents, ClaimMove(q, j) \/ ReconcilerMove(q, j) PROVE FALSE
  <2>1. q = p
    BY <1>2, <1>6 DEF ClaimMove, ReconcilerMove, at_step
  <2> QED BY <1>6, <2>1 DEF ClaimMove, ReconcilerMove, at_step, Held
<1>7. ASSUME NEW q \in Procs, at_step(q, "recover") PROVE FALSE
  BY <1>2, <1>7 DEF at_step, Held
<1>8. ASSUME NEW n, apply_broker_event(n, events[n]) PROVE outbox'[i].status = "CLAIMED"
  BY <1>1, <1>8 DEF apply_broker_event
<1> QED BY <1>0, <1>3, <1>4, <1>5, <1>6, <1>7, <1>8 DEF StoreMove

LEMMA HeldKept ==
  ASSUME TypeInv, CommandInv, ArmInv, OneAtATime, StoreMove, NEW p \in Procs, ProcMove(p)
  PROVE  HeldOK(p)'
<1>0. HeldOK(p) /\ WorkOK(p)
  BY DEF ArmInv, CommandInv
<1>1. CASE proc'[p] = proc[p]
  <2>1. CASE proc[p].pc \in Held /\ proc[p].kind = "dispatch"
    BY <1>0, <1>1, <2>1, ClaimStays DEF HeldOK
  <2> QED BY <1>0, <1>1, <2>1 DEF HeldOK
<1>2. CASE Outside(proc'[p]) \/ Reconciles(p, proc[p], proc'[p])
  BY <1>2 DEF Outside, Reconciles, Snapped, Reconciling, WorkStep, Held, HeldOK
<1>3. CASE Works(proc[p], proc'[p])
  <2>1. CASE proc'[p].pc \in Held /\ proc'[p].kind = "dispatch"
    <3>1. proc[p].kind = "dispatch" /\ proc'[p].work = proc[p].work /\ proc[p].pc \in Held
      BY <1>0, <1>3, <2>1 DEF Works, HeldOK, Held
    <3>2. outbox'[proc[p].work].status = "CLAIMED"
      BY <1>0, <2>1, <3>1, ClaimStays DEF HeldOK
    <3> QED BY <1>3, <3>1, <3>2 DEF Works, HeldOK
  <2> QED BY <1>3, <2>1 DEF Works, HeldOK
<1>4. CASE Takes(proc[p], proc'[p])
  <2>0. PICK i \in Intents : i = proc'[p].work
    BY <1>4 DEF Takes
  <2>1. outbox \in [Intents -> OutboxRow]
    BY DEF TypeInv, TypeOK, StoreTypeOK
  <2>2. proc'[p].kind = "dispatch" => outbox'[i].status = "CLAIMED"
    BY <1>0, <1>4, <2>0, <2>1 DEF Takes, claim_next, WorkOK, OutboxRow
  <2> QED BY <1>4, <2>0, <2>2 DEF Takes, HeldOK
<1> QED BY <1>1, <1>2, <1>3, <1>4 DEF ProcMove

LEMMA ArmUsedKept ==
  ASSUME TypeInv, CommandInv, ArmInv, StoreMove, NEW i \in Intents
  PROVE  ArmUsed(i)'
<1> USE DEF ArmUsed
<1>0. /\ outbox \in [Intents -> OutboxRow] /\ arm \in [Intents -> ArmRecord]
      /\ approval \in [Intents -> BOOLEAN] /\ IntentOK(i) /\ ArmUsed(i)
  BY DEF TypeInv, TypeOK, StoreTypeOK, CommandInv, ArmInv
<1>1. CASE QuietStore
  BY <1>0, <1>1 DEF QuietStore
<1>2. ASSUME NEW j \in Intents, OperatorMove(j) PROVE ArmUsed(i)'
  <2>1. CASE stage(j, now)
    BY <1>0, <2>1 DEF stage, enqueue, OutboxRow
  <2>2. CASE approve(j, now)
    BY <1>0, <2>2 DEF approve, IntentOK, BeforeBroker
  <2>3. CASE request_cancel(j)
    BY <1>0, <2>3 DEF request_cancel, OutboxRow
  <2>4. ASSUME NEW a, NEW q, NEW t, arm_approved_intent(j, a, q, t) PROVE ArmUsed(i)'
    BY <1>0, <2>4 DEF arm_approved_intent, arm_admissible, enqueue, IntentOK, BeforeBroker, OutboxRow
  <2> QED BY <1>2, <2>1, <2>2, <2>3, <2>4 DEF OperatorMove
<1>3. ASSUME NEW p \in Procs, HandMove(p) PROVE ArmUsed(i)'
  <2>0. PICK w \in Intents : w = proc[p].work
    BY <1>3, ProcFacts DEF HandMove, ProcOK
  <2>1. CASE proc[p].kind = "dispatch" /\ at_step(p, "unknown") /\ mark_submission_unknown(w)
    <3>1. outbox[w].status = "CLAIMED"
      BY <2>0, <2>1 DEF ArmInv, HeldOK, Held, at_step
    <3> QED BY <1>0, <2>1, <3>1 DEF mark_submission_unknown, OutboxRow
  <2>2. CASE mark_delivered(w) \/ mark_cancel_unknown(w) \/ mark_cancel_delivered(w)
    BY <1>0, <2>2 DEF mark_delivered, mark_cancel_unknown, mark_cancel_delivered, OutboxRow
  <2> QED BY <1>3, <2>0, <2>1, <2>2 DEF HandMove
<1>4. ASSUME NEW p \in Procs, NEW j \in Intents, ClaimMove(p, j) PROVE ArmUsed(i)'
  BY <1>0, <1>4 DEF ClaimMove, claim_next_expires_arm, claim_next_expires_reservation, claim_next,
     consume_arm, claim_next_cancel, OutboxRow, ArmRecord
<1>5. ASSUME NEW p \in Procs, NEW j \in Intents, ReconcilerMove(p, j) PROVE ArmUsed(i)'
  BY <1>0, <1>5 DEF ReconcilerMove, resolve_unknown_at_broker, requeue_unknown_absent_at_broker,
     OutboxRow
<1>6. CASE recover_claimed_as_unknown
  <2>1. outbox'[i].status = outbox[i].status \/ outbox[i].status = "CLAIMED"
    BY <1>6 DEF recover_claimed_as_unknown
  <2> QED BY <1>0, <1>6, <2>1 DEF recover_claimed_as_unknown
<1>7. ASSUME NEW n, apply_broker_event(n, events[n]) PROVE ArmUsed(i)'
  BY <1>0, <1>7 DEF apply_broker_event
<1> QED BY <1>1, <1>2, <1>3, <1>4, <1>5, <1>6, <1>7 DEF StoreMove

\* As long as commands do not overlap, an uncertain submission of an approved intent has
\* no live arm left, through crashes, lost answers, recoveries, cancels and repeated
\* approvals: a second submission takes a new arm after the requeue.
THEOREM UncertainWithoutArm == Spec /\ []OneAtATime => []UncertainHasNoLiveArm
<1>1. Init => ArmInv
  BY DEF Init, StoreInit, ArmInv, HeldOK, ArmUsed, Idle, Held
<1>2. TypeInv /\ CommandInv /\ ArmInv /\ OneAtATime /\ [Next]_vars => ArmInv'
  <2> SUFFICES ASSUME TypeInv, CommandInv, ArmInv, OneAtATime, [Next]_vars PROVE ArmInv'
    OBVIOUS
  <2>1. StoreMove /\ \A p \in Procs : ProcMove(p)
    BY NextMove, NextProcMove
  <2>2. ASSUME NEW p \in Procs PROVE HeldOK(p)'
    BY <2>1, HeldKept
  <2>3. ASSUME NEW i \in Intents PROVE ArmUsed(i)'
    BY <2>1, ArmUsedKept
  <2> QED BY <2>2, <2>3 DEF ArmInv
<1>3. ArmInv => UncertainHasNoLiveArm
  BY DEF ArmInv, ArmUsed, UncertainHasNoLiveArm
<1> QED BY <1>1, <1>2, <1>3, InitTypeInv, TypeInvStep, InitCommands, CommandStep, PTL DEF Spec

-----------------------------------------------------------------------------
(* Critical discrepancies.                                                 *)

\* A step opens tickets or resolves the operator's own; a reconciler that found nothing
\* resolves its tickets and goes on or ends; a reconciler records what it found.
GateMove ==
    \/ tickets \ {"MANUAL_OPERATOR_FREEZE"} \subseteq tickets' /\ openDisc' = openDisc
    \/ \E p \in Procs :
         /\ at_step(p, "conclude") /\ proc[p].disc = {}
         /\ proc'[p].pc \notin Reconciling /\ openDisc' = openDisc
    \/ \E p \in Procs : at_step(p, "record") /\ openDisc' = proc[p].disc /\ tickets' = tickets

LEMMA StepGateMove ==
  ASSUME TypeInv, NEW p \in Procs, step(p)
  PROVE  GateMove
<1>0. proc \in [Procs -> ProcState]
  BY ProcFacts
<1>1. CASE tickets \subseteq tickets' /\ openDisc' = openDisc
  BY <1>1 DEF GateMove
<1>2. CASE UNCHANGED storeVars
  BY <1>1, <1>2 DEF storeVars, gateVars
<1>3. ASSUME NEW n, ingest_broker_event(n, events[n]) PROVE GateMove
  BY <1>1, <1>3 DEF ingest_broker_event, apply_broker_event, open_freeze_ticket, storeVars, gateVars
<1>4. CASE snapshot(p)
  BY <1>2, <1>4, SnapshotFrame
<1>5. CASE reconcile_begin(p) \/ reconcile_recover(p) \/ reconcile_cash(p)
  BY <1>1, <1>5 DEF reconcile_begin, freeze, open_freeze_ticket, reconcile_recover,
     recover_claimed_as_unknown, reconcile_cash, set_account_baseline, gateVars
<1>6. CASE reconcile_ingest(p)
  BY <1>2, <1>3, <1>6 DEF reconcile_ingest
<1>7. CASE worker_apply(p) \/ worker_apply_copy(p)
  BY <1>3, <1>7 DEF worker_apply, worker_apply_copy
<1>8. CASE \/ reconcile_read_local(p) \/ reconcile_resolved(p) \/ reconcile_positions(p)
           \/ reconcile_protection(p)
           \/ worker_fence(p) \/ worker_validate(p) \/ worker_submit(p) \/ worker_cancel(p)
  BY <1>2, <1>8 DEF reconcile_read_local, reconcile_resolved, reconcile_positions,
     reconcile_protection, worker_fence, worker_validate, worker_submit, worker_cancel
<1>9. ASSUME NEW k \in Keys, reconcile_resolve(p, k) PROVE GateMove
  BY <1>1, <1>2, <1>9 DEF reconcile_resolve, resolve_unknown_at_broker, gateVars
<1>10. ASSUME NEW i \in Intents, reconcile_absent(p, i) PROVE GateMove
  BY <1>1, <1>2, <1>10 DEF reconcile_absent, requeue_unknown_absent_at_broker, gateVars
<1>11. CASE reconcile_record(p)
  BY <1>11 DEF reconcile_record, record_discrepancies, gateVars, GateMove
<1>12. CASE reconcile_conclude(p)
  <2>1. CASE critical(p)
    BY <1>1, <1>12, <2>1 DEF reconcile_conclude, freeze, open_freeze_ticket
  <2>2. CASE ~critical(p)
    <3>1. at_step(p, "conclude") /\ proc[p].disc = {} /\ openDisc' = openDisc
      BY <1>12, <2>2 DEF reconcile_conclude, critical, unfreeze_after_reconciliation
    <3>2. \/ exit(p)
          \/ \E s \in {"lease", "authority"} :
               proc' = [proc EXCEPT ![p] = [Idle EXCEPT !.pc = s, !.kind = proc[p].kind,
                                                        !.owner = proc[p].owner, !.at = proc[p].at]]
      BY <1>12, <2>2 DEF reconcile_conclude
    <3>3. proc'[p].pc \in {"idle", "lease", "authority"}
      <4>1. Idle \in ProcState /\ Idle.pc = "idle"
        BY IdleOK DEF Idle
      <4>2. ASSUME NEW s, NEW k, NEW o, NEW t
            PROVE  [Idle EXCEPT !.pc = s, !.kind = k, !.owner = o, !.at = t].pc = s
        BY <4>1 DEF ProcState
      <4>3. CASE exit(p)
        BY <1>0, <4>1, <4>3 DEF exit
      <4>4. ASSUME NEW s \in {"lease", "authority"},
                   proc' = [proc EXCEPT ![p] = [Idle EXCEPT !.pc = s, !.kind = proc[p].kind,
                                                            !.owner = proc[p].owner,
                                                            !.at = proc[p].at]]
            PROVE  proc'[p].pc = s
        <5>1. proc'[p] = [Idle EXCEPT !.pc = s, !.kind = proc[p].kind,
                                      !.owner = proc[p].owner, !.at = proc[p].at]
          BY <1>0, <4>4
        <5> QED BY <4>2, <5>1
      <4> QED BY <3>2, <4>3, <4>4
    <3> QED BY <3>1, <3>3 DEF GateMove, Reconciling
  <2> QED BY <2>1, <2>2
<1>13. CASE observe_authority(p) \/ worker_lease(p)
  BY <1>1, <1>2, <1>13 DEF observe_authority, record_broker_snapshot_authority, worker_lease,
     acquire_lease, gateVars
<1>14. ASSUME NEW i, NEW a, NEW q, NEW t, arm_call(i, a, q, t) PROVE GateMove
  BY <1>1, <1>14 DEF arm_call, arm_approved_intent, arm_authority_stale, arm_quote_stale, freeze,
     open_freeze_ticket, gateVars
<1>15. CASE arm_command(p)
  BY <1>2, <1>14, <1>15 DEF arm_command
<1>16. CASE worker_claim(p) \/ worker_claim_cancel(p)
  BY <1>1, <1>2, <1>16 DEF worker_claim, claim_next_raises, claim_next_empty,
     claim_next_expires_arm, claim_next_expires_reservation, claim_next, worker_claim_cancel,
     claim_next_cancel, gateVars
<1>17. CASE worker_unknown(p) \/ worker_deliver(p)
  BY <1>1, <1>17 DEF worker_unknown, worker_deliver, mark_submission_unknown, mark_cancel_unknown,
     mark_delivered, mark_cancel_delivered, gateVars
<1> QED BY <1>4, <1>5, <1>6, <1>7, <1>8, <1>9, <1>10, <1>11, <1>12, <1>13, <1>15, <1>16, <1>17
        DEF step

LEMMA NextGateMove ==
  ASSUME TypeInv, [Next]_vars
  PROVE  GateMove
<1>1. CASE tickets \subseteq tickets' /\ openDisc' = openDisc
  BY <1>1 DEF GateMove
<1>2. CASE UNCHANGED storeVars
  BY <1>1, <1>2 DEF storeVars, gateVars
<1>3. ASSUME NEW p \in Procs, NEW kind, NEW owner, start(p, kind, owner) PROVE GateMove
  BY <1>1, <1>3 DEF start, open_store, open_freeze_ticket
<1>4. CASE Env
  <2>1. CASE operator_freeze \/ operator_unfreeze
    BY <1>1, <2>1 DEF operator_freeze, freeze, open_freeze_ticket, operator_unfreeze,
       resolve_freeze_ticket, GateMove
  <2>2. ASSUME NEW i, operator_stage(i) \/ operator_cancel(i) \/ operator_approve(i) PROVE GateMove
    BY <1>1, <2>2 DEF operator_stage, stage, operator_cancel, request_cancel, operator_approve,
       approve, gateVars
  <2>3. ASSUME NEW i, NEW a, NEW q, operator_arm(i, a, q) PROVE GateMove
    BY <1>1, <2>3 DEF operator_arm, arm_call, arm_approved_intent, arm_authority_stale,
       arm_quote_stale, freeze, open_freeze_ticket, gateVars
  <2>4. ASSUME NEW age, NEW static, quote_arrives(age, static) PROVE GateMove
    BY <1>1, <2>4 DEF quote_arrives, record_quote_snapshot, gateVars
  <2>5. ASSUME NEW n, broker_callback(n) PROVE GateMove
    BY <1>1, <1>2, <2>5 DEF broker_callback, ingest_broker_event, apply_broker_event,
       open_freeze_ticket, gateVars
  <2>6. CASE \/ tick \/ \E p \in Procs : crash(p)
             \/ \E k : broker_fill(k) \/ broker_commission(k) \/ broker_inject(k)
    BY <1>2, <2>6 DEF tick, crash, broker_fill, broker_commission, broker_inject
  <2> QED BY <1>4, <2>1, <2>2, <2>3, <2>4, <2>5, <2>6 DEF Env
<1> QED BY <1>2, <1>3, <1>4, StepGateMove DEF Next, vars

\* A reconciler under way has its ticket open, a recorded discrepancy keeps one open, and
\* the reconciler about to conclude has just recorded its own.
VerdictInv ==
    /\ \A p \in Procs : proc[p].pc \in Reconciling => "RECONCILIATION_IN_PROGRESS" \in tickets
    /\ \A p \in Procs : proc[p].pc = "conclude" => openDisc = proc[p].disc
    /\ openDisc # {} => "RECONCILIATION_IN_PROGRESS" \in tickets

LEMMA VerdictStep == TypeInv /\ VerdictInv /\ OneAtATime /\ [Next]_vars => VerdictInv'
<1> SUFFICES ASSUME TypeInv, VerdictInv, OneAtATime, [Next]_vars PROVE VerdictInv'
  OBVIOUS
<1>0. GateMove /\ \A p \in Procs : ProcMove(p)
  BY NextGateMove, NextProcMove
<1>1. ASSUME NEW q \in Procs, proc'[q].pc \in Reconciling
      PROVE  proc'[q] = proc[q] \/ Reconciles(q, proc[q], proc'[q])
  BY <1>0, <1>1 DEF ProcMove, Outside, Works, Takes, Snapped, Reconciling, WorkStep
<1>2. ASSUME NEW q \in Procs, proc'[q] # proc[q], Reconciles(q, proc[q], proc'[q]),
             proc'[q].pc = "conclude"
      PROVE  openDisc' = proc'[q].disc
  BY <1>2 DEF Reconciles
<1>3. CASE tickets \ {"MANUAL_OPERATOR_FREEZE"} \subseteq tickets' /\ openDisc' = openDisc
  <2>1. ASSUME NEW q \in Procs, proc'[q].pc \in Reconciling
        PROVE  "RECONCILIATION_IN_PROGRESS" \in tickets'
    <3>1. CASE proc'[q] = proc[q]
      BY <1>3, <2>1, <3>1 DEF VerdictInv
    <3>2. CASE Reconciles(q, proc[q], proc'[q])
      BY <1>3, <2>1, <3>2 DEF VerdictInv, Reconciles, open_freeze_ticket
    <3> QED BY <1>1, <2>1, <3>1, <3>2
  <2>2. ASSUME NEW q \in Procs, proc'[q].pc = "conclude" PROVE openDisc' = proc'[q].disc
    BY <1>1, <1>2, <1>3, <2>2 DEF VerdictInv, Reconciling
  <2>3. openDisc' # {} => "RECONCILIATION_IN_PROGRESS" \in tickets'
    BY <1>3 DEF VerdictInv
  <2> QED BY <2>1, <2>2, <2>3 DEF VerdictInv
<1>4. ASSUME NEW p \in Procs, at_step(p, "conclude"), proc[p].disc = {},
             proc'[p].pc \notin Reconciling, openDisc' = openDisc
      PROVE  VerdictInv'
  <2>1. ASSUME NEW q \in Procs PROVE proc'[q].pc \notin Reconciling
    <3>1. CASE q = p
      BY <1>4, <3>1
    <3>2. CASE q # p
      <4>1. proc[q].pc = "idle"
        BY <1>4, <3>2 DEF OneAtATime, at_step
      <4> QED BY <1>1, <4>1 DEF Reconciles, Snapped, Reconciling
    <3> QED BY <3>1, <3>2
  <2>2. openDisc' = {}
    BY <1>4 DEF VerdictInv, at_step
  <2> QED BY <2>1, <2>2 DEF VerdictInv, Reconciling
<1>5. ASSUME NEW p \in Procs, at_step(p, "record"), openDisc' = proc[p].disc, tickets' = tickets
      PROVE  VerdictInv'
  <2>1. "RECONCILIATION_IN_PROGRESS" \in tickets'
    BY <1>5 DEF VerdictInv, at_step, Reconciling
  <2>2. ASSUME NEW q \in Procs, proc'[q].pc = "conclude" PROVE openDisc' = proc'[q].disc
    <3>1. CASE proc'[q] = proc[q]
      BY <1>5, <2>2, <3>1 DEF OneAtATime, at_step
    <3> QED BY <1>1, <1>2, <2>2, <3>1 DEF Reconciling
  <2> QED BY <2>1, <2>2 DEF VerdictInv
<1> QED BY <1>0, <1>3, <1>4, <1>5 DEF GateMove

\* As long as commands do not overlap, an OPEN critical discrepancy keeps new risk frozen
\* whatever tickets the operator opens and resolves, wherever a reconciler crashes, and
\* until a later reconciliation finds nothing.
THEOREM CriticalKeepsFreeze == Spec /\ []OneAtATime => []CriticalRetainsFreeze
<1>1. Init => VerdictInv
  BY DEF Init, StoreInit, VerdictInv, Idle, Reconciling
<1>2. VerdictInv => CriticalRetainsFreeze
  BY DEF VerdictInv, CriticalRetainsFreeze
<1> QED BY <1>1, <1>2, VerdictStep, InitTypeInv, TypeInvStep, PTL DEF Spec

-----------------------------------------------------------------------------
(* Requeueing.                                                             *)

\* An order appears at the broker only by the submission of a worker.
LEMMA OrderAppears ==
  ASSUME TypeInv, BrokerMove, NEW i \in Intents, orders[i].status = "ABSENT",
         \A p \in Procs : ~at_step(p, "submit")
  PROVE  orders'[i].status = "ABSENT"
<1>0. orders \in [Keys -> BrokerOrder] /\ i \in Keys /\ i \notin ExternalKeys
  BY TypesAssumption DEF TypeInv, TypeOK, BrokerTypeOK, Keys
<1>1. ASSUME NEW p \in Procs, cancel_order(proc[p].work, proc[p].token, 0)
      PROVE  orders'[i] = orders[i]
  BY <1>0, <1>1 DEF cancel_order, AtBroker
<1>2. ASSUME NEW k \in Keys, (\E n \in 1 .. Qty : fill(k, n)) \/ commission(k)
      PROVE  orders'[i] = orders[i]
  BY <1>0, <1>2 DEF fill, commission, AtBroker
<1>3. ASSUME NEW k \in ExternalKeys, inject_broker_only_order(k) PROVE orders'[i] = orders[i]
  BY <1>0, <1>3 DEF inject_broker_only_order, Keys
<1> QED BY <1>1, <1>2, <1>3 DEF BrokerMove

\* What the snapshot of a reconciler does not have is still not there, and the intents it
\* goes through last are ones the snapshot does not have.
SnapOK(p) ==
    /\ proc[p].pc \in Snapped =>
         \A i \in Intents : proc[p].orders[i].status = "ABSENT" => orders[i].status = "ABSENT"
    /\ proc[p].pc = "absent" => proc[p].left \subseteq Intents \ broker_keys(p)

LEMMA SnapKept ==
  ASSUME TypeInv, OneAtATime, BrokerMove, NEW p \in Procs, SnapOK(p), ProcMove(p)
  PROVE  SnapOK(p)'
<1>1. ASSUME proc[p].pc \in Snapped \union {"snapshot_orders"}, NEW i \in Intents,
             orders[i].status = "ABSENT"
      PROVE  orders'[i].status = "ABSENT"
  <2>1. ASSUME NEW q \in Procs PROVE ~at_step(q, "submit")
    BY <1>1 DEF OneAtATime, at_step, Snapped, Reconciling
  <2> QED BY <1>1, <2>1, OrderAppears
<1>2. CASE proc'[p] = proc[p]
  BY <1>1, <1>2 DEF SnapOK, broker_keys
<1>3. CASE Outside(proc'[p]) \/ Works(proc[p], proc'[p]) \/ Takes(proc[p], proc'[p])
  BY <1>3 DEF Outside, Works, Takes, SnapOK, Snapped, Reconciling, WorkStep
<1>4. CASE Reconciles(p, proc[p], proc'[p])
  <2>1. CASE /\ proc[p].pc = "snapshot_orders" /\ proc'[p].pc = "snapshot_positions"
             /\ proc'[p].orders = orders
    BY <1>1, <2>1 DEF SnapOK
  <2>2. CASE proc[p].pc \in Snapped /\ proc'[p].orders = proc[p].orders
    <3>1. \A i \in Intents : proc'[p].orders[i].status = "ABSENT" => orders'[i].status = "ABSENT"
      BY <1>1, <2>2 DEF SnapOK
    <3>2. broker_keys(p)' = broker_keys(p)
      BY <2>2 DEF broker_keys
    <3>3. proc'[p].pc = "absent" => proc'[p].left \subseteq Intents \ broker_keys(p)
      BY <1>4 DEF Reconciles, SnapOK
    <3> QED BY <3>1, <3>2, <3>3 DEF SnapOK
  <2> QED BY <1>4, <2>1, <2>2 DEF Reconciles
<1> QED BY <1>2, <1>3, <1>4 DEF ProcMove

\* An unknown submission becomes pending by the requeue of a reconciler and nothing else.
LEMMA RequeuedByReconciler ==
  ASSUME TypeInv, CommandInv, StoreMove, NEW i \in Intents,
         outbox[i].status = "UNKNOWN", outbox'[i].status = "PENDING"
  PROVE  \E p \in Procs : at_step(p, "absent") /\ i \in proc[p].left
<1>0. outbox \in [Intents -> OutboxRow] /\ IntentOK(i)
  BY DEF TypeInv, TypeOK, StoreTypeOK, CommandInv
<1>1. ~QuietStore /\ ~recover_claimed_as_unknown
  BY DEF QuietStore, recover_claimed_as_unknown
<1>2. ASSUME NEW j \in Intents, OperatorMove(j) PROVE FALSE
  BY <1>0, <1>2 DEF OperatorMove, stage, approve, request_cancel, arm_approved_intent,
     arm_admissible, enqueue, OutboxRow, IntentOK, BeforeBroker
<1>3. ASSUME NEW p \in Procs, HandMove(p) PROVE FALSE
  BY <1>0, <1>3 DEF HandMove, mark_submission_unknown, mark_delivered, mark_cancel_unknown,
     mark_cancel_delivered, OutboxRow
<1>4. ASSUME NEW p \in Procs, NEW j \in Intents, ReconcilerMove(p, j)
      PROVE  at_step(p, "absent") /\ i \in proc[p].left
  BY <1>0, <1>4 DEF ReconcilerMove, resolve_unknown_at_broker, requeue_unknown_absent_at_broker,
     OutboxRow
<1>5. ASSUME NEW n, apply_broker_event(n, events[n]) PROVE FALSE
  BY <1>5 DEF apply_broker_event
<1>6. ASSUME NEW p \in Procs, NEW j \in Intents, ClaimMove(p, j) PROVE FALSE
  BY <1>0, <1>6 DEF ClaimMove, claim_next_expires_arm, claim_next_expires_reservation, claim_next,
     claim_next_cancel, OutboxRow
<1> QED BY <1>1, <1>2, <1>3, <1>4, <1>5, <1>6 DEF StoreMove

SnapInv == \A p \in Procs : SnapOK(p)

\* As long as commands do not overlap, reconcile_unknown_absent requeues only submissions
\* the broker really does not have, although the snapshot it looks at was read in several
\* queries and many steps before.
THEOREM RequeuesWhatIsAbsent == Spec /\ []OneAtATime => RequeueOnlyIfAbsent
<1>1. Init => SnapInv
  BY DEF Init, SnapInv, SnapOK, Idle, Snapped, Reconciling
<1>2. TypeInv /\ OneAtATime /\ SnapInv /\ [Next]_vars => SnapInv'
  <2> SUFFICES ASSUME TypeInv, OneAtATime, SnapInv, [Next]_vars, NEW p \in Procs PROVE SnapOK(p)'
    BY DEF SnapInv
  <2>1. BrokerMove /\ ProcMove(p) /\ SnapOK(p)
    BY NextBrokerMove, NextProcMove DEF SnapInv
  <2> QED BY <2>1, SnapKept
<1>3. TypeInv /\ CommandInv /\ SnapInv /\ [Next]_vars =>
        [\A i \in Intents :
           outbox[i].status = "UNKNOWN" /\ outbox'[i].status = "PENDING"
              => orders[i].status = "ABSENT"]_vars
  <2> SUFFICES ASSUME TypeInv, CommandInv, SnapInv, [Next]_vars, NEW i \in Intents,
                      outbox[i].status = "UNKNOWN", outbox'[i].status = "PENDING"
               PROVE  orders[i].status = "ABSENT"
    OBVIOUS
  <2>1. PICK p \in Procs : at_step(p, "absent") /\ i \in proc[p].left
    BY NextMove, RequeuedByReconciler
  <2>2. proc[p].orders[i].status = "ABSENT"
    BY <2>1 DEF SnapInv, SnapOK, at_step, broker_keys, Keys
  <2> QED BY <2>1, <2>2 DEF SnapInv, SnapOK, at_step, Snapped, Reconciling
<1> QED BY <1>1, <1>2, <1>3, InitTypeInv, TypeInvStep, InitCommands, CommandStep, PTL
        DEF Spec, RequeueOnlyIfAbsent

-----------------------------------------------------------------------------
(* Orders and reservations.                                                *)

\* A step changes the control database or the broker's, not both.
LEMMA OneDatabase ==
  ASSUME [Next]_vars
  PROVE  UNCHANGED <<orders, events>> \/ UNCHANGED storeVars
<1>1. ASSUME NEW p \in Procs, step(p) PROVE UNCHANGED <<orders, events>> \/ UNCHANGED storeVars
  <2>1. CASE worker_submit(p) \/ worker_cancel(p)
    BY <2>1 DEF worker_submit, worker_cancel
  <2>2. CASE worker_fence(p)
    BY <2>2 DEF worker_fence, advance_fence
  <2>3. CASE ~(worker_fence(p) \/ worker_submit(p) \/ worker_cancel(p))
    BY <1>1, <2>3, SnapshotFrame DEF step, reconcile_begin, reconcile_recover,
       reconcile_read_local, reconcile_ingest, reconcile_resolve, reconcile_resolved,
       reconcile_absent, reconcile_positions, reconcile_protection, reconcile_cash,
       reconcile_record, reconcile_conclude, observe_authority, arm_command, worker_lease,
       worker_claim, worker_claim_cancel, worker_validate, worker_unknown, worker_apply_copy,
       worker_apply, worker_deliver
  <2> QED BY <2>1, <2>2, <2>3
<1>2. CASE Env
  BY <1>2 DEF Env, tick, crash, operator_stage, operator_cancel, operator_approve,
     operator_arm, quote_arrives, operator_freeze, operator_unfreeze, broker_callback,
     broker_fill, broker_commission, broker_inject
<1>3. ASSUME NEW p \in Procs, NEW kind, NEW owner, start(p, kind, owner)
      PROVE  UNCHANGED <<orders, events>>
  BY <1>3 DEF start
<1> QED BY <1>1, <1>2, <1>3 DEF Next, vars

\* An order that works or has been filled.
Standing == Working \union {"FILLED"}

\* Order o of key k and its events in log: it works as long as a share is missing and until
\* its cancellation or rejection, and fills fill something.
OrderOK(o, log, k) ==
    /\ o.status \in Working => o.filled < Qty
    /\ o.status = "FILLED" => o.filled = Qty
    /\ \A n \in log_of(log, k) :
         /\ o.status \in Standing => log[n].type \notin {"CANCELLED", "REJECTED"}
         /\ o.status = "REJECTED" => log[n].type \in {"REJECTED", "COMMISSION"}
         /\ log[n].type = "REJECTED" => o.filled = 0
         /\ log[n].type \in {"PARTIAL_FILL", "FILL"} => log[n].qty > 0

BookOK(ord, log) == \A k \in Keys : OrderOK(ord[k], log, k)

\* The event e may follow those of order o in log, and leave the order new.
Follows(o, new, e, log, k) ==
    /\ new.status \in Working => new.filled < Qty
    /\ new.status = "FILLED" => new.filled = Qty
    /\ new.status \in Standing =>
         /\ e.type \notin {"CANCELLED", "REJECTED"}
         /\ log_of(log, k) = {} \/ o.status \in Standing
    /\ new.status = "REJECTED" =>
         /\ e.type \in {"REJECTED", "COMMISSION"}
         /\ log_of(log, k) = {} \/ o.status = "REJECTED"
    /\ e.type = "REJECTED" => new.filled = 0
    /\ new.filled = o.filled \/ o.status \in Standing \/ log_of(log, k) = {}
    /\ e.type \in {"PARTIAL_FILL", "FILL"} => e.qty > 0

LEMMA BookExtends ==
  ASSUME NEW ord \in [Keys -> BrokerOrder], NEW log \in Seq(BrokerEvent), BookOK(ord, log),
         NEW k \in Keys, NEW new, NEW e \in BrokerEvent, e.key = k,
         Follows(ord[k], new, e, log, k)
  PROVE  BookOK([ord EXCEPT ![k] = new], Append(log, e))
<1> DEFINE log2 == Append(log, e)
           ord2 == [ord EXCEPT ![k] = new]
           m == Len(log) + 1
<1>1. /\ Len(log2) = m /\ Len(log) \in Nat /\ log2[m] = e
      /\ \A n \in 1 .. Len(log) : log2[n] = log[n]
  OBVIOUS
<1>2. ord2[k] = new /\ \A j \in Keys : j # k => ord2[j] = ord[j]
  OBVIOUS
<1> HIDE DEF log2, ord2
<1>3. 1 .. m = (1 .. Len(log)) \union {m} /\ m \notin 1 .. Len(log)
  BY <1>1
<1>4. ASSUME NEW j \in Keys, j # k PROVE OrderOK(ord2[j], log2, j)
  <2>1. log_of(log2, j) = log_of(log, j) /\ \A n \in log_of(log, j) : log2[n] = log[n]
    BY <1>1, <1>3, <1>4 DEF log_of
  <2> QED BY <1>2, <1>4, <2>1 DEF BookOK, OrderOK
<1>5. OrderOK(ord2[k], log2, k)
  <2>1. /\ log_of(log2, k) = log_of(log, k) \union {m}
        /\ \A n \in log_of(log, k) : log2[n] = log[n]
    BY <1>1, <1>3 DEF log_of
  <2>2. OrderOK(ord[k], log, k)
    BY DEF BookOK
  <2>3. ASSUME NEW n \in log_of(log, k)
        PROVE  /\ new.status \in Standing => log2[n].type \notin {"CANCELLED", "REJECTED"}
               /\ new.status = "REJECTED" => log2[n].type \in {"REJECTED", "COMMISSION"}
               /\ log2[n].type = "REJECTED" => new.filled = 0
               /\ log2[n].type \in {"PARTIAL_FILL", "FILL"} => log2[n].qty > 0
    <3>1. log2[n] = log[n] /\ log_of(log, k) # {}
      BY <2>1, <2>3
    <3> QED BY <2>2, <2>3, <3>1 DEF OrderOK, Follows
  <2>4. /\ new.status \in Standing => log2[m].type \notin {"CANCELLED", "REJECTED"}
        /\ new.status = "REJECTED" => log2[m].type \in {"REJECTED", "COMMISSION"}
        /\ log2[m].type = "REJECTED" => new.filled = 0
        /\ log2[m].type \in {"PARTIAL_FILL", "FILL"} => log2[m].qty > 0
    BY <1>1 DEF Follows
  <2>5. (new.status \in Working => new.filled < Qty) /\ (new.status = "FILLED" => new.filled = Qty)
    BY DEF Follows
  <2> QED BY <1>2, <2>1, <2>3, <2>4, <2>5 DEF OrderOK
<1> QED BY <1>4, <1>5 DEF BookOK, log2, ord2

\* Every step keeps orders and events that way.
LEMMA BookInductive ==
  ASSUME TypeInv, LogOK(orders, events), BookOK(orders, events), BrokerMove
  PROVE  BookOK(orders', events')
<1>0. /\ orders \in [Keys -> BrokerOrder] /\ events \in Seq(BrokerEvent)
      /\ Qty \in Nat \ {0} /\ partial_quantity \in 1 .. Qty
  BY TypesAssumption, PartialQuantity DEF TypeInv, TypeOK, BrokerTypeOK
<1>1. CASE UNCHANGED <<orders, events>>
  BY <1>1
<1>2. ASSUME NEW p \in Procs, at_step(p, "submit") \/ at_step(p, "cancel")
      PROVE  proc[p].work \in Keys
  BY <1>2, ProcFacts DEF ProcOK, at_step, WorkStep, Keys
<1>3. ASSUME NEW k \in Keys, NEW token, NEW scenario \in SubmitScenario, submit_new(k, token, scenario)
      PROVE  BookOK(orders', events')
  <2> DEFINE g == scenario # "MISSING_PROTECTION"
             o == [status |-> "ACCEPTED", filled |-> 0, protected |-> g]
             r == [o EXCEPT !.status = "REJECTED"]
             ack == ev(k, "ACKNOWLEDGED", 0)
             rej == ev(k, "REJECTED", 0)
  <2>1. /\ o \in BrokerOrder /\ o.status = "ACCEPTED" /\ o.filled = 0
        /\ r.status = "REJECTED" /\ r.filled = 0
    <3>1. g \in BOOLEAN
      OBVIOUS
    <3> HIDE DEF g
    <3> QED BY <1>0, <3>1 DEF BrokerOrder, OrderStatus
  <2>2. /\ ack \in BrokerEvent /\ ack.key = k /\ ack.type = "ACKNOWLEDGED"
        /\ rej \in BrokerEvent /\ rej.key = k /\ rej.type = "REJECTED"
    BY <1>0 DEF ev, BrokerEvent, BrokerEventType
  <2>3. log_of(events, k) = {}
    BY <1>3 DEF submit_new, known_order, AtBroker, LogOK
  <2>4. /\ BookOK([orders EXCEPT ![k] = o], Append(events, ack))
        /\ BookOK([orders EXCEPT ![k] = r], Append(events, rej))
    <3> HIDE DEF o, r, ack, rej
    <3>1. Follows(orders[k], o, ack, events, k) /\ Follows(orders[k], r, rej, events, k)
      BY <1>0, <2>1, <2>2, <2>3 DEF Follows, Standing, Working
    <3> QED BY <1>0, <2>2, <3>1, BookExtends
  <2>5. CASE scenario = "PARTIAL_FILL"
    <3> DEFINE ord == [orders EXCEPT ![k] = o]
               log == Append(events, ack)
               n == filled_order(o, partial_quantity)
               e == fill_event(k, o, partial_quantity)
    <3>1. /\ orders' = [orders EXCEPT ![k] = n]
          /\ events' = Append(log, e)
      BY <1>3, <2>5 DEF submit_new
    <3>2. /\ n.filled = 0 + partial_quantity
          /\ n.status = IF 0 + partial_quantity = Qty THEN "FILLED" ELSE "PARTIALLY_FILLED"
      <4> HIDE DEF o
      <4> QED BY <2>1 DEF filled_order, BrokerOrder
    <3>3. /\ e \in BrokerEvent /\ e.key = k /\ e.qty = partial_quantity
          /\ e.type \in {"PARTIAL_FILL", "FILL"}
      BY <1>0 DEF fill_event, ev, BrokerEvent, BrokerEventType
    <3>4. ord \in [Keys -> BrokerOrder] /\ log \in Seq(BrokerEvent) /\ ord[k] = o
      BY <1>0, <2>1, <2>2
    <3>5. [ord EXCEPT ![k] = n] = [orders EXCEPT ![k] = n]
      BY <1>0
    <3>6. BookOK(ord, log)
      BY <2>4
    <3> HIDE DEF ord, log, n, e, o
    <3>7. Follows(ord[k], n, e, log, k)
      BY <1>0, <2>1, <3>2, <3>3, <3>4 DEF Follows, Standing, Working
    <3>8. BookOK([ord EXCEPT ![k] = n], Append(log, e))
      BY <3>3, <3>4, <3>6, <3>7, BookExtends
    <3> QED BY <3>1, <3>5, <3>8
  <2> QED BY <1>3, <2>4, <2>5 DEF submit_new
<1>4. ASSUME NEW k \in Keys, NEW token, cancel_order(k, token, 0) PROVE BookOK(orders', events')
  <2>1. CASE orders[k].filled < Qty
    <3> DEFINE n == [orders[k] EXCEPT !.status = "CANCELLED"]
               e == ev(k, "CANCELLED", 0)
    <3>1. orders' = [orders EXCEPT ![k] = n] /\ events' = Append(events, e)
      BY <1>4, <2>1 DEF cancel_order
    <3>2. n.status = "CANCELLED" /\ n.filled = orders[k].filled
      BY <1>0 DEF BrokerOrder
    <3>3. e \in BrokerEvent /\ e.key = k /\ e.type = "CANCELLED"
      BY <1>0 DEF ev, BrokerEvent, BrokerEventType
    <3> HIDE DEF n, e
    <3>4. Follows(orders[k], n, e, events, k)
      BY <3>2, <3>3 DEF Follows, Standing, Working
    <3> QED BY <1>0, <3>1, <3>3, <3>4, BookExtends
  <2>2. CASE ~(orders[k].filled < Qty)
    BY <1>0, <1>4, <2>2 DEF cancel_order
  <2> QED BY <2>1, <2>2
<1>5. ASSUME NEW k \in Keys, orders[k].status \in Working, NEW q \in 1 .. Qty, fill(k, q)
      PROVE  BookOK(orders', events')
  <2> DEFINE m == fill_amount(orders[k], q)
             n == filled_order(orders[k], m)
             e == fill_event(k, orders[k], m)
  <2>1. orders' = [orders EXCEPT ![k] = n] /\ events' = Append(events, e) /\ m > 0
    BY <1>5 DEF fill
  <2>2. orders[k] \in BrokerOrder
    BY <1>0
  <2>3. m \in 1 .. Qty /\ m <= Qty - orders[k].filled
    BY <1>0, <2>1, <2>2 DEF fill_amount, BrokerOrder
  <2> HIDE DEF m
  <2>4. /\ n.filled = orders[k].filled + m
        /\ n.status = IF orders[k].filled + m = Qty THEN "FILLED" ELSE "PARTIALLY_FILLED"
    BY <2>2 DEF filled_order, BrokerOrder
  <2>5. e \in BrokerEvent /\ e.key = k /\ e.qty = m /\ e.type \in {"PARTIAL_FILL", "FILL"}
    BY <1>0, <2>3 DEF fill_event, ev, BrokerEvent, BrokerEventType
  <2> HIDE DEF n, e
  <2>6. Follows(orders[k], n, e, events, k)
    <3>1. orders[k].filled + m <= Qty /\ orders[k].filled \in Nat
      BY <1>0, <2>2, <2>3 DEF BrokerOrder
    <3> QED BY <1>0, <1>5, <2>3, <2>4, <2>5, <3>1 DEF Follows, Standing, Working
  <2> QED BY <1>0, <2>1, <2>5, <2>6, BookExtends
<1>6. ASSUME NEW k \in Keys, commission(k) PROVE BookOK(orders', events')
  <2> DEFINE e == ev(k, "COMMISSION", 0)
  <2>1. orders' = [orders EXCEPT ![k] = orders[k]] /\ events' = Append(events, e)
    BY <1>0, <1>6 DEF commission
  <2>2. e \in BrokerEvent /\ e.key = k /\ e.type = "COMMISSION"
    BY <1>0 DEF ev, BrokerEvent, BrokerEventType
  <2> HIDE DEF e
  <2>3. Follows(orders[k], orders[k], e, events, k)
    BY <2>2 DEF Follows, BookOK, OrderOK
  <2> QED BY <1>0, <2>1, <2>2, <2>3, BookExtends
<1>7. ASSUME NEW k \in ExternalKeys, inject_broker_only_order(k) PROVE BookOK(orders', events')
  <2>1. /\ orders' = [orders EXCEPT ![k] = [status |-> "ACCEPTED", filled |-> 0, protected |-> FALSE]]
        /\ events' = events /\ k \in Keys /\ log_of(events, k) = {}
    BY <1>7 DEF inject_broker_only_order, AtBroker, Keys, LogOK
  <2>2. OrderOK([status |-> "ACCEPTED", filled |-> 0, protected |-> FALSE], events, k)
    BY <1>0, <2>1 DEF OrderOK, Working
  <2> QED BY <1>0, <2>1, <2>2 DEF BookOK
<1> QED BY <1>1, <1>2, <1>3, <1>4, <1>5, <1>6, <1>7 DEF BrokerMove

\* The positions of the log at which this step adds an event of i.
NewOf(i) == log_of(events', i) \ (1 .. Len(events))

\* What a step of the broker does to the order of an intent.
Effect(i) ==
    \/ /\ orders'[i] = orders[i]
       /\ \A n \in NewOf(i) : "commission" \in Environment /\ events'[n].type = "COMMISSION"
    \/ /\ orders[i].status = "ABSENT" /\ orders'[i].status \in Standing \union {"REJECTED"}
       /\ \E p \in Procs : at_step(p, "submit") /\ proc[p].work = i
    \/ orders[i].status \in Working /\ orders'[i].status \in Standing
    \/ /\ orders[i].status # "ABSENT" /\ orders'[i].status = "CANCELLED"
       /\ \A n \in NewOf(i) : events'[n].type = "CANCELLED"
       /\ \E p \in Procs : at_step(p, "cancel")

LEMMA AppendNew ==
  ASSUME NEW log \in Seq(BrokerEvent), NEW e, events' = Append(log, e), NEW i,
         NEW n \in log_of(events', i), n \notin 1 .. Len(log)
  PROVE  events'[n] = e /\ e.key = i
<1>1. Len(log) \in Nat /\ Len(events') = Len(log) + 1 /\ events'[Len(log) + 1] = e
  OBVIOUS
<1>2. n = Len(log) + 1
  BY <1>1 DEF log_of
<1> QED BY <1>1, <1>2 DEF log_of

LEMMA BrokerEffect ==
  ASSUME TypeInv, BrokerMove, NEW i \in Intents
  PROVE  Effect(i)
<1>0. /\ orders \in [Keys -> BrokerOrder] /\ events \in Seq(BrokerEvent)
      /\ i \in Keys /\ i \notin ExternalKeys
  BY TypesAssumption DEF TypeInv, TypeOK, BrokerTypeOK, Keys
<1>1. ASSUME orders'[i] = orders[i], events' = events PROVE Effect(i)
  BY <1>1 DEF Effect, NewOf, log_of
<1>2. ASSUME NEW e, orders'[i] = orders[i], events' = Append(events, e), e.key # i PROVE Effect(i)
  <2>1. NewOf(i) = {}
    BY <1>0, <1>2, AppendNew DEF NewOf
  <2> QED BY <1>2, <2>1 DEF Effect
<1>3. ASSUME NEW p \in Procs, NEW scenario \in SubmitScenario, at_step(p, "submit"),
             submit_new(proc[p].work, proc[p].token, scenario)
      PROVE  Effect(i)
  <2> DEFINE k == proc[p].work
  <2>0. k \in Intents /\ k \in Keys
    BY <1>3, ProcFacts DEF ProcOK, at_step, WorkStep, Keys
  <2>1. CASE k = i
    <3>1. orders[i].status = "ABSENT"
      BY <1>0, <1>3, <2>1 DEF submit_new, known_order, AtBroker
    <3>2. orders'[i].status \in Standing \union {"REJECTED"}
      <4> DEFINE o == [status |-> "ACCEPTED", filled |-> 0,
                       protected |-> scenario # "MISSING_PROTECTION"]
                 q == filled_order(o, partial_quantity)
                 r == [o EXCEPT !.status = "REJECTED"]
      <4>1. q.status \in Standing
        BY DEF filled_order, Standing, Working
      <4>2. o.status = "ACCEPTED" /\ r.status = "REJECTED"
        OBVIOUS
      <4>3. \E x \in {o, q, r} : orders' = [orders EXCEPT ![i] = x]
        BY <1>3, <2>1 DEF submit_new
      <4> HIDE DEF o, q, r
      <4> QED BY <1>0, <4>1, <4>2, <4>3 DEF Standing, Working
    <3> QED BY <1>3, <2>1, <3>1, <3>2 DEF Effect
  <2>2. CASE k # i
    <3>1. orders'[i] = orders[i]
      BY <1>0, <1>3, <2>2 DEF submit_new
    <3>2. NewOf(i) = {}
      <4> DEFINE o == [status |-> "ACCEPTED", filled |-> 0,
                       protected |-> scenario # "MISSING_PROTECTION"]
                 log == Append(events, ev(k, "ACKNOWLEDGED", 0))
                 e == fill_event(k, o, partial_quantity)
      <4>1. CASE scenario = "PARTIAL_FILL"
        <5>1. events' = Append(log, e)
          BY <1>3, <4>1 DEF submit_new
        <5>2. /\ log \in Seq(BrokerEvent) /\ Len(log) = Len(events) + 1
              /\ log[Len(events) + 1].key = k /\ e.key = k /\ Len(events) \in Nat
          BY <1>0, <2>0, TypesAssumption DEF ev, BrokerEvent, BrokerEventType, fill_event
        <5> HIDE DEF e, log, k
        <5>3. Len(events') = Len(log) + 1 /\ events'[Len(log) + 1] = e
              /\ \A n \in 1 .. Len(log) : events'[n] = log[n]
          BY <5>1, <5>2
        <5>4. ASSUME NEW n \in 1 .. Len(events'), n \notin 1 .. Len(events) PROVE events'[n].key = k
          <6>1. n = Len(events) + 1 \/ n = Len(log) + 1
            BY <5>2, <5>3, <5>4
          <6> QED BY <5>2, <5>3, <6>1
        <5> QED BY <2>2, <5>4 DEF NewOf, log_of
      <4>2. CASE scenario # "PARTIAL_FILL"
        <5>1. PICK f : events' = Append(events, f) /\ f.key = k
          BY <1>3, <4>2 DEF submit_new, ev
        <5> QED BY <1>0, <2>2, <5>1, AppendNew DEF NewOf
      <4> QED BY <4>1, <4>2
    <3> QED BY <3>1, <3>2 DEF Effect
  <2> QED BY <2>1, <2>2
<1>4. ASSUME NEW p \in Procs, at_step(p, "cancel"), cancel_order(proc[p].work, proc[p].token, 0)
      PROVE  Effect(i)
  <2> DEFINE k == proc[p].work
             e == ev(k, "CANCELLED", 0)
  <2>0. k \in Keys
    BY <1>4, ProcFacts DEF ProcOK, at_step, WorkStep, Keys
  <2>1. CASE orders[k].filled < Qty
    <3>1. /\ orders' = [orders EXCEPT ![k] = [orders[k] EXCEPT !.status = "CANCELLED"]]
          /\ events' = Append(events, e) /\ k \in AtBroker
      BY <1>4, <2>1 DEF cancel_order
    <3>2. e.key = k /\ e.type = "CANCELLED"
      BY DEF ev
    <3>3. CASE k # i
      BY <1>0, <1>2, <3>1, <3>2, <3>3
    <3>4. CASE k = i
      <4>1. orders'[i].status = "CANCELLED" /\ orders[i].status # "ABSENT"
        BY <1>0, <3>1, <3>4 DEF AtBroker, BrokerOrder
      <4>2. \A n \in NewOf(i) : events'[n] = e
        BY <1>0, <3>1, AppendNew DEF NewOf
      <4> QED BY <1>4, <3>2, <4>1, <4>2 DEF Effect
    <3> QED BY <3>3, <3>4
  <2>2. CASE ~(orders[k].filled < Qty)
    BY <1>0, <1>1, <1>4, <2>2 DEF cancel_order
  <2> QED BY <2>1, <2>2
<1>5. ASSUME NEW k \in Keys, orders[k].status \in Working, NEW q \in 1 .. Qty, fill(k, q)
      PROVE  Effect(i)
  <2> DEFINE m == fill_amount(orders[k], q)
             e == fill_event(k, orders[k], m)
  <2>1. orders' = [orders EXCEPT ![k] = filled_order(orders[k], m)] /\ events' = Append(events, e)
    BY <1>5 DEF fill
  <2>2. e.key = k
    BY DEF fill_event, ev
  <2> HIDE DEF m, e
  <2>3. CASE k # i
    BY <1>0, <1>2, <2>1, <2>2, <2>3
  <2>4. CASE k = i
    <3>1. orders'[i].status \in Standing
      BY <1>0, <2>1, <2>4 DEF filled_order, BrokerOrder, Standing, Working
    <3> QED BY <1>5, <2>4, <3>1 DEF Effect
  <2> QED BY <2>3, <2>4
<1>6. ASSUME NEW k \in Keys, "commission" \in Environment, commission(k) PROVE Effect(i)
  <2> DEFINE e == ev(k, "COMMISSION", 0)
  <2>1. orders' = orders /\ events' = Append(events, e) /\ e.type = "COMMISSION"
    BY <1>6 DEF commission, ev
  <2> HIDE DEF e
  <2>2. \A n \in NewOf(i) : events'[n] = e
    BY <1>0, <2>1, AppendNew DEF NewOf
  <2> QED BY <1>6, <2>1, <2>2 DEF Effect
<1>7. ASSUME NEW k \in ExternalKeys, inject_broker_only_order(k) PROVE Effect(i)
  BY <1>0, <1>1, <1>7 DEF inject_broker_only_order
<1> QED BY <1>1, <1>3, <1>4, <1>5, <1>6, <1>7 DEF BrokerMove

-----------------------------------------------------------------------------
(* What backs an order.                                                    *)

\* The statuses whose reservation is released.
Ended == {"REJECTED", "CANCELLED", "EXPIRED"}

\* A standing order belongs to an intent that is not closed and not waiting in the queue,
\* and its missing shares are reserved.  So is what may still be submitted; and an intent
\* counts as filled only by fills.
ReservedOK(i) ==
    /\ orders[i].status \in Standing =>
         /\ status[i] \notin Ended \union BeforeBroker \union {"ABSENT"}
         /\ outbox[i].status # "PENDING"
         /\ filled[i] < Qty => reservation[i].status \in ActiveReservation
    /\ orders[i].status = "ABSENT" =>
         /\ outbox[i].status \in {"PENDING", "CLAIMED", "UNKNOWN"} \/ status[i] \in BeforeBroker
              => reservation[i].status \in ActiveReservation
         /\ outbox[i].status = "CLAIMED" => status[i] \notin Ended
    /\ status[i] = "PARTIALLY_FILLED" => filled[i] > 0
    /\ status[i] = "FILLED" => filled[i] = Qty

ReserveInv == \A i \in Intents : ReservedOK(i)

\* The steps of the broker.
LEMMA ReservedByBroker ==
  ASSUME TypeInv, CommandInv, ArmInv, BrokerMove, UNCHANGED storeVars,
         NEW i \in Intents, ReservedOK(i)
  PROVE  ReservedOK(i)'
<1>0. Effect(i) /\ IntentOK(i)
  BY BrokerEffect DEF CommandInv
<1>1. CASE orders'[i].status = orders[i].status
  BY <1>1 DEF ReservedOK
<1>2. CASE orders[i].status = "ABSENT" /\ \E p \in Procs : at_step(p, "submit") /\ proc[p].work = i
  <2>1. outbox[i].status = "CLAIMED"
    BY <1>2 DEF ArmInv, HeldOK, Held, at_step
  <2> QED BY <1>0, <1>2, <2>1 DEF ReservedOK, IntentOK
<1>3. CASE orders[i].status \in Working /\ orders'[i].status \in Standing
  BY <1>3 DEF ReservedOK, Standing, Working
<1>4. CASE orders'[i].status = "CANCELLED"
  BY <1>4 DEF ReservedOK, Standing, Working
<1> QED BY <1>0, <1>1, <1>2, <1>3, <1>4 DEF Effect

\* The types the transactions on intent i rest on.
LEMMA RowTypes ==
  ASSUME TypeInv
  PROVE  /\ status \in [Intents -> ExecutionStatus \union {"ABSENT"}]
         /\ filled \in [Intents -> 0 .. Qty]
         /\ reservation \in [Intents -> ReservationRow]
         /\ outbox \in [Intents -> OutboxRow]
         /\ Qty \in Nat \ {0}
  BY TypesAssumption DEF TypeInv, TypeOK, StoreTypeOK

\* The transactions of the operator.
LEMMA ReservedByOperator ==
  ASSUME TypeInv, CommandInv, EconInv, NEW j \in Intents, OperatorMove(j), UNCHANGED orders,
         NEW i \in Intents, ReservedOK(i)
  PROVE  ReservedOK(i)'
<1> USE RowTypes DEF ReservedOK
<1>0. IntentOK(i) /\ (orders[i].status # "ABSENT" => status[i] # "ABSENT")
  BY DEF CommandInv, EconInv
<1>1. CASE UNCHANGED <<status, reservation, outbox>>
  BY <1>1 DEF OperatorMove, stage, approve, request_cancel, arm_approved_intent
<1>2. CASE stage(j, now)
  <2>1. CASE j # i
    BY <1>2, <2>1 DEF stage, enqueue, OutboxRow
  <2>2. CASE j = i
    <3>1. orders[i].status = "ABSENT" /\ filled' = filled
      BY <1>0, <1>2, <2>2 DEF stage
    <3>2. reservation'[i].status = "ACTIVE" /\ status'[i] \in {"APPROVAL_PENDING", "OUTBOXED"}
      BY <1>2, <2>2 DEF stage, enqueue
    <3> QED BY <3>1, <3>2 DEF Standing, Working, Ended, ActiveReservation
  <2> QED BY <2>1, <2>2
<1>3. ASSUME status[j] \in BeforeBroker, status'[j] \in BeforeBroker,
             status' = [status EXCEPT ![j] = status'[j]],
             UNCHANGED <<filled, reservation>>,
             \A k \in Intents : k # j => outbox'[k] = outbox[k]
      PROVE  ReservedOK(i)'
  <2>1. CASE j # i
    BY <1>3, <2>1
  <2>2. CASE j = i
    BY <1>3, <2>2 DEF BeforeBroker, Ended
  <2> QED BY <2>1, <2>2
<1>4. CASE approve(j, now)
  BY <1>3, <1>4 DEF approve, BeforeBroker
<1>5. ASSUME NEW a, NEW q, NEW t, arm_approved_intent(j, a, q, t) PROVE ReservedOK(i)'
  BY <1>3, <1>5 DEF arm_approved_intent, arm_admissible, enqueue, BeforeBroker, OutboxRow
<1>6. CASE request_cancel(j)
  <2>1. CASE j # i
    BY <1>6, <2>1 DEF request_cancel
  <2>2. CASE j = i /\ status[i] \in BeforeBroker
    <3>1. orders[i].status \notin Standing /\ outbox[i].status \notin {"CLAIMED", "UNKNOWN"}
      BY <1>0, <2>2 DEF IntentOK
    <3>2. /\ status'[i] = "CANCELLED" /\ UNCHANGED filled
          /\ outbox'[i].status \notin {"PENDING", "CLAIMED", "UNKNOWN"}
      BY <1>6, <2>2, <3>1 DEF request_cancel, OutboxRow
    <3> QED BY <3>1, <3>2 DEF BeforeBroker
  <2>3. CASE j = i /\ status[i] \notin BeforeBroker
    BY <1>6, <2>3 DEF request_cancel, Ended, BeforeBroker
  <2> QED BY <2>1, <2>2, <2>3
<1> QED BY <1>2, <1>4, <1>5, <1>6 DEF OperatorMove

\* The transactions on the queues.
LEMMA ReservedByQueue ==
  ASSUME TypeInv, CommandInv, SnapInv, NEW p \in Procs, NEW j \in Intents,
         ClaimMove(p, j) \/ ReconcilerMove(p, j), UNCHANGED orders, NEW i \in Intents, ReservedOK(i)
  PROVE  ReservedOK(i)'
<1> USE RowTypes DEF ReservedOK
<1>1. CASE UNCHANGED <<status, filled, reservation, outbox>>
  BY <1>1
<1>2. CASE \/ claim_next_expires_arm(proc[p].owner, proc[p].token, proc[p].at, j)
           \/ claim_next_cancel(proc[p].owner, proc[p].token, proc[p].at, j)
  BY <1>1, <1>2 DEF claim_next_expires_arm, claim_next_cancel
<1>3. CASE claim_next_expires_reservation(proc[p].owner, proc[p].token, proc[p].at, j)
  <2>1. CASE j # i
    BY <1>3, <2>1 DEF claim_next_expires_reservation
  <2>2. CASE j = i
    BY <1>3, <2>2 DEF claim_next_expires_reservation, head_cleared, outbox_head, OutboxRow,
       BeforeBroker
  <2> QED BY <2>1, <2>2
<1>4. CASE claim_next(proc[p].owner, proc[p].token, proc[p].at, j)
  <2>1. CASE j # i
    BY <1>4, <2>1 DEF claim_next
  <2>2. CASE j = i
    BY <1>4, <2>2 DEF claim_next, head_cleared, outbox_head, OutboxRow, BeforeBroker, Ended
  <2> QED BY <2>1, <2>2
<1>5. CASE resolve_unknown_at_broker(j)
  BY <1>5 DEF resolve_unknown_at_broker, OutboxRow, BeforeBroker, Ended
<1>6. CASE at_step(p, "absent") /\ j \in proc[p].left
           /\ requeue_unknown_absent_at_broker(j, proc[p].at)
  <2>1. CASE j # i
    BY <1>6, <2>1 DEF requeue_unknown_absent_at_broker
  <2>2. CASE j = i
    <3>1. proc[p].orders[i].status = "ABSENT"
      BY <1>6, <2>2 DEF SnapInv, SnapOK, at_step, broker_keys, Keys
    <3>2. orders[i].status = "ABSENT"
      BY <1>6, <3>1 DEF SnapInv, SnapOK, at_step, Snapped, Reconciling
    <3> QED BY <1>6, <2>2, <3>2 DEF requeue_unknown_absent_at_broker, OutboxRow, BeforeBroker,
               Ended, Standing, Working
  <2> QED BY <2>1, <2>2
<1> QED BY <1>2, <1>3, <1>4, <1>5, <1>6 DEF ClaimMove, ReconcilerMove

\* The transactions of a worker on its command, and a recovery.
LEMMA ReservedByHand ==
  ASSUME TypeInv, CommandInv, ArmInv, UNCHANGED orders,
         (\E p \in Procs : HandMove(p)) \/ recover_claimed_as_unknown,
         NEW i \in Intents, ReservedOK(i)
  PROVE  ReservedOK(i)'
<1> USE RowTypes DEF ReservedOK
<1>1. ASSUME NEW p \in Procs, HandMove(p) PROVE ReservedOK(i)'
  <2>0. PICK w \in Intents : w = proc[p].work
    BY <1>1, ProcFacts DEF HandMove, ProcOK
  <2>1. CASE proc[p].kind = "dispatch" /\ at_step(p, "unknown") /\ mark_submission_unknown(w)
    <3>1. outbox[w].status = "CLAIMED"
      BY <2>0, <2>1 DEF ArmInv, HeldOK, Held, at_step
    <3> QED BY <2>1, <3>1 DEF mark_submission_unknown, OutboxRow, BeforeBroker, Ended
  <2>2. CASE mark_delivered(w) \/ mark_cancel_delivered(w)
    BY <2>2 DEF mark_delivered, mark_cancel_delivered, OutboxRow
  <2>3. CASE mark_cancel_unknown(w)
    BY <2>3 DEF mark_cancel_unknown, BeforeBroker, Ended
  <2> QED BY <1>1, <2>0, <2>1, <2>2, <2>3 DEF HandMove
<1>2. CASE recover_claimed_as_unknown
  <2>1. CASE outbox[i].status = "CLAIMED"
    <3>1. outbox[i] \in OutboxRow
      OBVIOUS
    <3>2. [outbox[i] EXCEPT !.status = "UNKNOWN"].status = "UNKNOWN"
      BY <3>1 DEF OutboxRow
    <3> QED BY <1>2, <2>1, <3>2 DEF recover_claimed_as_unknown, BeforeBroker, Ended
  <2>2. CASE outbox[i].status # "CLAIMED"
    BY <1>2, <2>2 DEF recover_claimed_as_unknown
  <2> QED BY <2>1, <2>2
<1> QED BY <1>1, <1>2

\* What an event makes of the row of its intent.
LEMMA EventRow ==
  ASSUME TypeInv, NEW n \in 1 .. Len(events), apply_broker_event(n, events[n]),
         events[n].key \in Staged
  PROVE  LET e == events[n]
             i == e.key
             t == filled[i] + e.qty
         IN  /\ i \in Intents /\ e \in BrokerEvent
             /\ UNCHANGED <<outbox, tickets>>
             /\ \A j \in Intents : j # i => /\ status'[j] = status[j] /\ filled'[j] = filled[j]
                                            /\ reservation'[j] = reservation[j]
             /\ filled'[i] = IF t < Qty THEN t ELSE Qty
             /\ status'[i] = status_for(e.type, t, status[i])
             /\ reservation'[i].status = reservation_status(filled'[i], status'[i])
<1> DEFINE e == events[n]
           i == e.key
           t == filled[i] + e.qty
<1>1. i \in Intents /\ e \in BrokerEvent
  <2>1. events \in Seq(BrokerEvent)
    BY DEF TypeInv, TypeOK, BrokerTypeOK
  <2> QED BY <2>1 DEF Staged
<1>2. /\ status' = [status EXCEPT ![i] = status_for(e.type, t, status[i])]
      /\ filled' = [filled EXCEPT ![i] = IF t < Qty THEN t ELSE Qty]
      /\ reservation' = [reservation EXCEPT
           ![i].status = reservation_status(IF t < Qty THEN t ELSE Qty,
                                            status_for(e.type, t, status[i]))]
      /\ UNCHANGED <<outbox, tickets>>
  BY DEF apply_broker_event
<1> HIDE DEF e, i, t
<1>3. /\ filled'[i] = IF t < Qty THEN t ELSE Qty
      /\ status'[i] = status_for(e.type, t, status[i])
  BY <1>1, <1>2, RowTypes
<1>4. reservation'[i].status = reservation_status(filled'[i], status'[i])
  <2> DEFINE x == reservation_status(IF t < Qty THEN t ELSE Qty,
                                     status_for(e.type, t, status[i]))
  <2>1. x = reservation_status(filled'[i], status'[i])
    BY <1>3
  <2>2. reservation' = [reservation EXCEPT ![i].status = x]
    BY <1>2
  <2> HIDE DEF x
  <2>3. reservation'[i].status = x
    BY <1>1, <2>2, RowTypes DEF ReservationRow
  <2> QED BY <2>1, <2>3
<1> QED BY <1>1, <1>2, <1>3, <1>4 DEF e, i, t

LEMMA ReservedByEvent ==
  ASSUME TypeInv, LogOK(orders, events), BookOK(orders, events), UNCHANGED orders,
         NEW n \in (1 .. Len(events)) \ inbox, apply_broker_event(n, events[n]),
         NEW i \in Intents, ReservedOK(i)
  PROVE  ReservedOK(i)'
<1> USE RowTypes DEF ReservedOK
<1> DEFINE e == events[n]
           t == filled[i] + e.qty
<1>1. CASE e.key \notin Staged
  BY <1>1 DEF apply_broker_event
<1>2. CASE e.key \in Staged /\ e.key # i
  BY <1>2, EventRow
<1>3. CASE e.key \in Staged /\ e.key = i
  <2>1. /\ e \in BrokerEvent /\ outbox' = outbox
        /\ filled'[i] = IF t < Qty THEN t ELSE Qty
        /\ status'[i] = status_for(e.type, t, status[i])
        /\ reservation'[i].status = reservation_status(filled'[i], status'[i])
    BY <1>3, EventRow
  <2>2. n \in log_of(events, i) /\ i \in Keys
    BY <1>3 DEF log_of, Keys
  <2>3. /\ orders[i].status # "ABSENT"
        /\ orders[i].status \in Standing => e.type \notin {"CANCELLED", "REJECTED"}
        /\ e.type \in {"PARTIAL_FILL", "FILL"} => e.qty > 0
    BY <2>2 DEF LogOK, BookOK, OrderOK
  <2>4. filled[i] \in 0 .. Qty /\ e.qty \in 0 .. Qty /\ e.type \in BrokerEventType
    BY <2>1 DEF BrokerEvent
  <2> HIDE DEF e
  <2>5. status'[i] = "PARTIALLY_FILLED" => filled'[i] > 0
    BY <2>1, <2>3, <2>4 DEF status_for, BrokerEventType
  <2>6. status'[i] = "FILLED" => filled'[i] = Qty
    BY <2>1, <2>3, <2>4 DEF status_for, BrokerEventType
  <2>7. ASSUME orders[i].status \in Standing
        PROVE  /\ status'[i] \notin Ended \union BeforeBroker \union {"ABSENT"}
               /\ filled'[i] < Qty => reservation'[i].status \in ActiveReservation
    <3>1. status'[i] \notin Ended \union BeforeBroker \union {"ABSENT"}
      BY <2>1, <2>3, <2>4, <2>7 DEF status_for, BrokerEventType, Ended, BeforeBroker
    <3> QED BY <2>1, <2>4, <3>1 DEF reservation_status, ActiveReservation, Ended
  <2> QED BY <2>1, <2>3, <2>5, <2>6, <2>7
<1> QED BY <1>1, <1>2, <1>3

\* What holds of the orders, whether commands overlap or not, ...
OrderInv ==
    /\ TypeInv /\ CommandInv /\ EconInv
    /\ LogOK(orders, events)
    /\ BookOK(orders, events)

\* ... and what holds of their reservations, as long as they do not.
BackedInv == ArmInv /\ SnapInv /\ ReserveInv

LEMMA OrderStep == OrderInv /\ [Next]_vars => OrderInv'
<1> SUFFICES ASSUME OrderInv, [Next]_vars PROVE OrderInv'
  OBVIOUS
<1>1. TypeInv' /\ CommandInv' /\ EconInv' /\ LogOK(orders, events)'
  BY TypeInvStep, CommandStep, EconStep, LogStep DEF OrderInv
<1>2. BookOK(orders, events)'
  BY NextBrokerMove, BookInductive DEF OrderInv, BookOK, OrderOK, log_of
<1> QED BY <1>1, <1>2 DEF OrderInv

LEMMA BackedStep == OrderInv /\ BackedInv /\ OneAtATime /\ [Next]_vars => BackedInv'
<1> SUFFICES ASSUME OrderInv, BackedInv, OneAtATime, [Next]_vars PROVE BackedInv'
  OBVIOUS
<1>0. /\ TypeInv /\ CommandInv /\ EconInv /\ LogOK(orders, events) /\ BookOK(orders, events)
      /\ ArmInv /\ SnapInv /\ \A i \in Intents : ReservedOK(i)
  BY DEF OrderInv, BackedInv, ReserveInv
<1>1. StoreMove /\ BrokerMove /\ \A p \in Procs : ProcMove(p)
  BY <1>0, NextMove, NextBrokerMove, NextProcMove
<1>2. ArmInv'
  BY <1>0, <1>1, HeldKept, ArmUsedKept DEF ArmInv
<1>3. SnapInv'
  BY <1>0, <1>1, SnapKept DEF SnapInv
<1>4. ASSUME NEW i \in Intents PROVE ReservedOK(i)'
  <2>0. ReservedOK(i)
    BY <1>0
  <2>1. CASE UNCHANGED storeVars
    BY <1>0, <1>1, <2>0, <2>1, ReservedByBroker
  <2>2. CASE UNCHANGED orders
    <3>1. CASE QuietStore
      BY <2>0, <2>2, <3>1 DEF QuietStore, ReservedOK
    <3>2. ASSUME NEW j \in Intents, OperatorMove(j) PROVE ReservedOK(i)'
      BY <1>0, <2>0, <2>2, <3>2, ReservedByOperator
    <3>3. ASSUME NEW p \in Procs, NEW j \in Intents, ClaimMove(p, j) \/ ReconcilerMove(p, j)
          PROVE  ReservedOK(i)'
      BY <1>0, <2>0, <2>2, <3>3, ReservedByQueue
    <3>4. CASE (\E p \in Procs : HandMove(p)) \/ recover_claimed_as_unknown
      BY <1>0, <2>0, <2>2, <3>4, ReservedByHand
    <3>5. ASSUME NEW n \in (1 .. Len(events)) \ inbox, apply_broker_event(n, events[n])
          PROVE  ReservedOK(i)'
      BY <1>0, <2>0, <2>2, <3>5, ReservedByEvent
    <3> QED BY <1>1, <3>1, <3>2, <3>3, <3>4, <3>5 DEF StoreMove
  <2> QED BY <2>1, <2>2, OneDatabase
<1> QED BY <1>2, <1>3, <1>4 DEF BackedInv, ReserveInv

LEMMA InitBacked == Init => OrderInv /\ BackedInv
<1> SUFFICES ASSUME Init PROVE OrderInv /\ BackedInv
  OBVIOUS
<1>1. TypeInv /\ CommandInv /\ EconInv /\ LogOK(orders, events)
  BY InitTypeInv, InitCommands, InitEcon, InitLog
<1>2. \A k \in Keys : orders[k].status = "ABSENT" /\ log_of(events, k) = {}
  BY DEF Init, BrokerInit, NoOrder, log_of
<1>3. BookOK(orders, events)
  BY <1>2 DEF BookOK, OrderOK, Working
<1>4. ArmInv /\ SnapInv
  BY DEF Init, StoreInit, ArmInv, HeldOK, ArmUsed, Idle, Held, SnapInv, SnapOK, Snapped, Reconciling
<1>5. ReserveInv
  BY <1>2 DEF Init, StoreInit, ReserveInv, ReservedOK, Standing, Working, BeforeBroker, Keys
<1> QED BY <1>1, <1>3, <1>4, <1>5 DEF OrderInv, BackedInv

\* An order that works has shares missing, and those are reserved.
LEMMA BackedReserves ==
  ASSUME OrderInv, BackedInv
  PROVE  WorkingOrderReserved
<1> SUFFICES ASSUME NEW i \in Intents, orders[i].status \in Working
             PROVE  reservation[i].status \in ActiveReservation
  BY DEF WorkingOrderReserved, Working
<1>1. applied(i) \in SUBSET log_of(events, i) /\ i \in Keys
  BY DEF OrderInv, EconInv, applied, log_of, Keys
<1>2. /\ filled[i] = fills_at(applied(i), events)
      /\ fills_at(applied(i), events) <= orders[i].filled /\ orders[i].filled \in 0 .. Qty
  BY <1>1, SomeFills DEF OrderInv, EconInv
<1>3. orders[i].filled < Qty
  BY <1>1 DEF OrderInv, BookOK, OrderOK
<1>4. filled[i] < Qty
  BY <1>1, <1>2, <1>3, RowTypes DEF OrderInv
<1> QED BY <1>1, <1>4 DEF BackedInv, ReserveInv, ReservedOK, Standing

\* As long as commands do not overlap, an order that works at the broker is backed by an
\* active reservation, whatever is cancelled, recovered, requeued, resolved or expired
\* before and after it is sent, and in whatever order its events reach the inbox.
THEOREM WorkingOrdersBacked == Spec /\ []OneAtATime => []WorkingOrderReserved
<1>1. OrderInv /\ BackedInv => WorkingOrderReserved
  BY BackedReserves
<1> QED BY <1>1, InitBacked, OrderStep, BackedStep, PTL DEF Spec

-----------------------------------------------------------------------------
(* Capacity.                                                               *)

\* The events by which an order takes or keeps its reservation.
Taking == {"ACKNOWLEDGED", "PARTIAL_FILL", "FILL"}

\* The store has still to hear of such an event of an intent that is not filled, ...
late(i) ==
    /\ filled[i] < Qty
    /\ \E n \in log_of(events, i) \ inbox : events[n].type \in Taking

\* ... so the intents that are, or can yet be, counted by stage are these.
Exposed == {i \in Intents : reservation[i].status \in ActiveReservation \/ late(i)}

ExposureInv == IsFiniteSet(Exposed) /\ Notional * Cardinality(Exposed) <= Capacity

NoCommission == \A n \in 1 .. Len(events) : events[n].type # "COMMISSION"

\* No commission is ever in the log of a broker that charges none.
LEMMA CommissionStep ==
  ASSUME "commission" \notin Environment, TypeInv, NoCommission, BrokerMove
  PROVE  NoCommission'
<1>0. events \in Seq(BrokerEvent)
  BY DEF TypeInv, TypeOK, BrokerTypeOK
<1>1. ASSUME NEW log \in Seq(BrokerEvent), NEW e, events' = Append(log, e),
             e.type # "COMMISSION", \A n \in 1 .. Len(log) : log[n].type # "COMMISSION"
      PROVE  NoCommission'
  <2>1. /\ Len(log) \in Nat /\ Len(events') = Len(log) + 1 /\ events'[Len(log) + 1] = e
        /\ \A n \in 1 .. Len(log) : events'[n] = log[n]
    BY <1>1
  <2>2. ASSUME NEW n \in 1 .. Len(events') PROVE events'[n].type # "COMMISSION"
    <3>1. n \in 1 .. Len(log) \/ n = Len(log) + 1
      BY <2>1, <2>2
    <3> QED BY <1>1, <2>1, <3>1
  <2> QED BY <2>2 DEF NoCommission
<1>2. ASSUME NEW e, events' = Append(events, e), e.type # "COMMISSION" PROVE NoCommission'
  BY <1>0, <1>1, <1>2 DEF NoCommission
<1>3. ASSUME NEW k \in Keys, NEW token, NEW scenario, submit_new(k, token, scenario)
      PROVE  NoCommission'
  <2> DEFINE o == [status |-> "ACCEPTED", filled |-> 0,
                   protected |-> scenario # "MISSING_PROTECTION"]
             ack == ev(k, "ACKNOWLEDGED", 0)
             log == Append(events, ack)
             e == fill_event(k, o, partial_quantity)
  <2>0. /\ ack \in BrokerEvent /\ ack.type = "ACKNOWLEDGED"
        /\ e.type # "COMMISSION" /\ ev(k, "REJECTED", 0).type = "REJECTED"
    BY TypesAssumption DEF ev, fill_event, BrokerEvent, BrokerEventType
  <2>1. CASE scenario = "PARTIAL_FILL"
    <3>1. events' = Append(log, e)
      BY <1>3, <2>1 DEF submit_new
    <3> HIDE DEF ack, e
    <3>2. log \in Seq(BrokerEvent) /\ \A n \in 1 .. Len(log) : log[n].type # "COMMISSION"
      <4>1. /\ log \in Seq(BrokerEvent) /\ Len(events) \in Nat /\ Len(log) = Len(events) + 1
            /\ log[Len(events) + 1] = ack /\ \A n \in 1 .. Len(events) : log[n] = events[n]
        BY <1>0, <2>0
      <4> HIDE DEF log
      <4>2. ASSUME NEW n \in 1 .. Len(log) PROVE log[n].type # "COMMISSION"
        <5>1. n \in 1 .. Len(events) \/ n = Len(events) + 1
          BY <4>1, <4>2
        <5> QED BY <2>0, <4>1, <5>1 DEF NoCommission
      <4> QED BY <4>1, <4>2
    <3> HIDE DEF log
    <3> QED BY <1>1, <2>0, <3>1, <3>2
  <2>2. CASE scenario # "PARTIAL_FILL"
    <3>1. events' = Append(events, ack) \/ events' = Append(events, ev(k, "REJECTED", 0))
      BY <1>3, <2>2 DEF submit_new
    <3> HIDE DEF ack
    <3> QED BY <1>2, <2>0, <3>1
  <2> QED BY <2>1, <2>2
<1>4. ASSUME NEW k, NEW token, cancel_order(k, token, 0) PROVE NoCommission'
  <2>1. events' = events \/ events' = Append(events, ev(k, "CANCELLED", 0))
    BY <1>4 DEF cancel_order
  <2>2. ev(k, "CANCELLED", 0).type = "CANCELLED"
    BY DEF ev
  <2> QED BY <1>2, <2>1, <2>2 DEF NoCommission
<1>5. ASSUME NEW k, NEW n, fill(k, n) PROVE NoCommission'
  <2> DEFINE e == fill_event(k, orders[k], fill_amount(orders[k], n))
  <2>1. events' = Append(events, e) /\ e.type # "COMMISSION"
    BY <1>5 DEF fill, fill_event, ev
  <2> HIDE DEF e
  <2> QED BY <1>2, <2>1
<1>6. ASSUME events' = events PROVE NoCommission'
  BY <1>6 DEF NoCommission
<1>7. ASSUME NEW p \in Procs, at_step(p, "submit") PROVE proc[p].work \in Keys
  BY <1>7, ProcFacts DEF ProcOK, at_step, WorkStep, Keys
<1> QED BY <1>3, <1>4, <1>5, <1>6, <1>7 DEF BrokerMove, inject_broker_only_order

\* What the inbox has, and what has been filled, is never taken back.
LEMMA StoreGrows ==
  ASSUME TypeInv, EconInv, LogOK(orders, events), StoreMove
  PROVE  inbox \subseteq inbox' /\ \A i \in Intents : filled[i] <= filled'[i]
<1>0. filled \in [Intents -> 0 .. Qty] /\ Qty \in Nat
  BY RowTypes
<1>1. CASE UNCHANGED <<inbox, filled>>
  BY <1>0, <1>1
<1>2. ASSUME NEW n \in (1 .. Len(events)) \ inbox, apply_broker_event(n, events[n])
      PROVE  inbox \subseteq inbox' /\ \A i \in Intents : filled[i] <= filled'[i]
  <2>1. inbox \subseteq inbox'
    BY <1>2 DEF apply_broker_event
  <2>2. CASE events[n].key \notin Staged
    BY <1>0, <1>2, <2>1, <2>2 DEF apply_broker_event
  <2>3. CASE events[n].key \in Staged
    <3> DEFINE e == events[n]
               t == filled[e.key] + e.qty
    <3>1. /\ e.key \in Intents /\ e \in BrokerEvent
          /\ filled'[e.key] = IF t < Qty THEN t ELSE Qty
          /\ \A j \in Intents : j # e.key => filled'[j] = filled[j]
      BY <1>2, <2>3, EventRow
    <3>2. e.qty \in Nat /\ filled[e.key] \in 0 .. Qty
      BY <1>0, <3>1 DEF BrokerEvent
    <3> HIDE DEF e
    <3> QED BY <1>0, <2>1, <3>1, <3>2
  <2> QED BY <2>2, <2>3
<1>3. ASSUME NEW i \in Intents, OperatorMove(i) PROVE UNCHANGED <<inbox, filled>>
  BY <1>3 DEF OperatorMove, stage, approve, request_cancel, arm_approved_intent
<1>4. ASSUME NEW p \in Procs, HandMove(p) PROVE UNCHANGED <<inbox, filled>>
  BY <1>4 DEF HandMove, mark_submission_unknown, mark_delivered, mark_cancel_unknown,
     mark_cancel_delivered
<1>5. ASSUME NEW p \in Procs, NEW i \in Intents, ClaimMove(p, i) \/ ReconcilerMove(p, i)
      PROVE  UNCHANGED <<inbox, filled>>
  BY <1>5 DEF ClaimMove, claim_next_expires_arm, claim_next_expires_reservation, claim_next,
     claim_next_cancel, ReconcilerMove, resolve_unknown_at_broker,
     requeue_unknown_absent_at_broker
<1> QED BY <1>1, <1>2, <1>3, <1>4, <1>5 DEF StoreMove, QuietStore, recover_claimed_as_unknown

-----------------------------------------------------------------------------
(* What a reconciler has read and a worker may still write.                *)

\* The steps of a reconciler that has applied the events it has read, ...
Ingested == {"resolve", "absent", "protection", "cash", "record", "conclude"}

\* ... of one that has read them, ...
Seen == {"snapshot_children", "in_progress", "recover", "read_local", "ingest"} \union Ingested

\* ... and of a worker.
Writing == {"lease", "fence", "claim", "claim_cancel"} \union WorkStep

\* The reconciler in state r has handed the next event to the store, if it is a local one.
HandedOn(r) ==
    events[r.next].key \in Intents /\ r.local[events[r.next].key] # "ABSENT" => r.next \in inbox'

\* A process in state r goes to state s: which events it has read and handed on, and whose
\* ticket is open while it may cancel.
ReadMove(r, s) ==
    /\ s.pc \in Seen =>
         \/ r.pc \in Seen /\ s.seen = r.seen
         \/ r.pc = "snapshot_events" /\ s.seen = Len(events)
    /\ s.pc = "ingest" =>
         \/ s = r
         \/ r.pc = "read_local" /\ s.local = status /\ s.next = 1
         \/ r.pc = "ingest" /\ s.local = r.local /\ s.next = r.next + 1 /\ HandedOn(r)
    /\ s.pc \in Ingested =>
         \/ r.pc \in Ingested
         \/ r.pc = "read_local" /\ r.seen = 0
         \/ r.pc = "ingest" /\ r.next = r.seen /\ HandedOn(r)
    /\ s.pc \in Writing /\ s.kind # "dispatch" =>
         \/ r.pc \in Writing /\ r.kind # "dispatch"
         \/ "STARTUP_RECONCILIATION" \in tickets'

LEMMA ReadsNothing ==
  /\ \A r : ReadMove(r, r)
  /\ \A r, s : s.pc \notin Seen \union Writing => ReadMove(r, s)
  BY DEF ReadMove, Seen, Ingested, Writing, WorkStep

\* A command that starts, or goes on after its reconciliation.
LEMMA FreshRead ==
  ASSUME TypeInv, NEW p \in Procs, NEW s \in {"lease", "arm", "snapshot", "authority"},
         NEW k, NEW o, NEW t,
         s = "lease" => k = "dispatch" \/ "STARTUP_RECONCILIATION" \in tickets',
         proc' = [proc EXCEPT ![p] = [Idle EXCEPT !.pc = s, !.kind = k, !.owner = o, !.at = t]]
  PROVE  ReadMove(proc[p], proc'[p])
<1> DEFINE r == [Idle EXCEPT !.pc = s, !.kind = k, !.owner = o, !.at = t]
<1>1. Idle \in ProcState /\ proc \in [Procs -> ProcState]
  BY IdleOK, ProcFacts
<1>2. r.pc = s /\ r.kind = k
  BY <1>1 DEF ProcState
<1>3. proc' = [proc EXCEPT ![p] = r]
  OBVIOUS
<1> HIDE DEF r
<1>4. proc'[p] = r
  BY <1>1, <1>3
<1>5. s \notin Seen /\ s \notin Ingested /\ s # "ingest" /\ (s \in Writing => s = "lease")
  BY DEF Seen, Ingested, Writing, WorkStep
<1> QED BY <1>2, <1>4, <1>5 DEF ReadMove

\* The steps of a reconciler up to its verdict.
LEMMA ReconcilerReads ==
  ASSUME TypeInv, NEW p \in Procs,
         \/ snapshot(p) \/ reconcile_begin(p) \/ reconcile_recover(p) \/ reconcile_read_local(p)
         \/ reconcile_ingest(p) \/ reconcile_resolved(p)
         \/ reconcile_positions(p) \/ reconcile_protection(p) \/ reconcile_cash(p)
         \/ reconcile_record(p)
         \/ \E k \in Keys : reconcile_resolve(p, k)
         \/ \E i \in Intents : reconcile_absent(p, i) /\ ~exit(p)
  PROVE  ReadMove(proc[p], proc'[p])
<1>0. proc[p] \in ProcState /\ proc \in [Procs -> ProcState]
  BY ProcFacts
<1> USE <1>0 DEF ProcState, at_step, ReadMove, Seen, Ingested, Writing, WorkStep
<1>1. CASE snapshot(p)
  <2>1. CASE snapshot_cash(p) \/ snapshot_orders(p) \/ snapshot_positions(p)
    BY <2>1 DEF snapshot_cash, snapshot_orders, snapshot_positions
  <2>2. CASE snapshot_protections(p) \/ snapshot_events(p)
    BY <2>2 DEF snapshot_protections, snapshot_events
  <2>3. CASE snapshot_children(p)
    BY <2>3 DEF snapshot_children
  <2> QED BY <1>1, <2>1, <2>2, <2>3 DEF snapshot
<1>2. CASE reconcile_begin(p) \/ reconcile_recover(p) \/ reconcile_record(p)
  BY <1>2 DEF reconcile_begin, reconcile_recover, reconcile_record, goto
<1>3. CASE reconcile_read_local(p)
  BY <1>3 DEF reconcile_read_local
<1>4. CASE reconcile_ingest(p)
  <2>1. HandedOn(proc[p])
    BY <1>4 DEF reconcile_ingest, HandedOn, local_keys, ingest_broker_event, apply_broker_event
  <2> QED BY <1>4, <2>1 DEF reconcile_ingest
<1>5. CASE reconcile_resolved(p) \/ reconcile_positions(p) \/ reconcile_protection(p)
           \/ reconcile_cash(p)
  BY <1>5 DEF reconcile_resolved, reconcile_positions, reconcile_protection, reconcile_cash
<1>6. ASSUME NEW k \in Keys, reconcile_resolve(p, k) PROVE ReadMove(proc[p], proc'[p])
  BY <1>6 DEF reconcile_resolve
<1>7. ASSUME NEW i \in Intents, reconcile_absent(p, i), ~exit(p)
      PROVE  ReadMove(proc[p], proc'[p])
  BY <1>7 DEF reconcile_absent
<1> QED BY <1>1, <1>2, <1>3, <1>4, <1>5, <1>6, <1>7

\* The steps of a worker that goes on.
LEMMA WorkerReads ==
  ASSUME TypeInv, NEW p \in Procs, ~exit(p),
         \/ worker_lease(p) \/ worker_fence(p) \/ worker_claim(p) \/ worker_claim_cancel(p)
         \/ worker_validate(p) \/ worker_submit(p) \/ worker_cancel(p)
         \/ worker_apply_copy(p) \/ worker_apply(p)
  PROVE  ReadMove(proc[p], proc'[p])
<1> DEFINE G == /\ proc[p].pc \in Writing /\ proc'[p].pc \in Writing
                /\ proc'[p].kind = proc[p].kind
<1>0. proc[p] \in ProcState /\ proc \in [Procs -> ProcState]
  BY ProcFacts
<1>1. G
  <2> USE <1>0 DEF ProcState, at_step, Writing, WorkStep
  <2>1. CASE worker_lease(p) \/ worker_fence(p) \/ worker_validate(p) \/ worker_apply_copy(p)
    BY <2>1 DEF worker_lease, worker_fence, worker_validate, worker_apply_copy, goto
  <2>2. CASE worker_claim(p)
    BY <2>2 DEF worker_claim
  <2>5. CASE worker_claim_cancel(p)
    BY <2>5 DEF worker_claim_cancel
  <2>3. CASE worker_submit(p) \/ worker_cancel(p)
    <3>1. PICK s \in {"apply", "apply_copy", "deliver", "unknown"} :
            \/ proc' = [proc EXCEPT ![p].pc = s]
            \/ \E ans : proc' = [proc EXCEPT ![p].pc = s, ![p].answer = ans]
      BY <2>3 DEF worker_submit, worker_cancel, apply_step
    <3> QED BY <2>3, <3>1 DEF worker_submit, worker_cancel
  <2>4. CASE worker_apply(p)
    <3>0. PICK s \in {"apply", "deliver"} :
            \E ans : proc' = [proc EXCEPT ![p].answer = ans, ![p].pc = s]
      BY <2>4 DEF worker_apply, apply_step
    <3>1. PICK ans : proc' = [proc EXCEPT ![p].answer = ans, ![p].pc = s]
      BY <3>0
    <3> QED BY <2>4, <3>1 DEF worker_apply
  <2> QED BY <2>1, <2>2, <2>3, <2>4, <2>5
<1> QED BY <1>1 DEF ReadMove, Writing, WorkStep, Seen, Ingested

\* A command moves itself and no other.
LEMMA OthersStay ==
  ASSUME TypeInv, NEW p \in Procs, step(p), NEW q \in Procs, q # p
  PROVE  proc'[q] = proc[q]
<1> USE ProcFacts DEF goto, exit
<1>1. CASE snapshot(p)
  BY <1>1 DEF snapshot, snapshot_cash, snapshot_orders, snapshot_positions, snapshot_protections,
     snapshot_events, snapshot_children
<1>2. CASE \/ reconcile_begin(p) \/ reconcile_recover(p) \/ reconcile_read_local(p)
           \/ reconcile_ingest(p) \/ reconcile_resolved(p) \/ reconcile_positions(p)
           \/ reconcile_protection(p) \/ reconcile_cash(p) \/ reconcile_record(p)
           \/ reconcile_conclude(p) \/ observe_authority(p) \/ arm_command(p)
  BY <1>2 DEF reconcile_begin, reconcile_recover, reconcile_read_local, reconcile_ingest,
     reconcile_resolved, reconcile_positions, reconcile_protection, reconcile_cash,
     reconcile_record, reconcile_conclude, observe_authority, arm_command
<1>3. ASSUME NEW k, reconcile_resolve(p, k) \/ reconcile_absent(p, k) PROVE proc'[q] = proc[q]
  BY <1>3 DEF reconcile_resolve, reconcile_absent
<1>4. CASE \/ worker_lease(p) \/ worker_fence(p) \/ worker_claim(p) \/ worker_claim_cancel(p)
           \/ worker_validate(p) \/ worker_submit(p) \/ worker_cancel(p) \/ worker_unknown(p)
           \/ worker_apply_copy(p) \/ worker_apply(p) \/ worker_deliver(p)
  BY <1>4 DEF worker_lease, worker_fence, worker_claim, worker_claim_cancel, worker_validate,
     worker_submit, worker_cancel, worker_unknown, worker_apply_copy, worker_apply, worker_deliver
<1> QED BY <1>1, <1>2, <1>3, <1>4 DEF step

\* Every step moves every process in this way.
LEMMA NextReadMove ==
  ASSUME TypeInv, [Next]_vars
  PROVE  \A q \in Procs : ReadMove(proc[q], proc'[q])
<1>0. proc \in [Procs -> ProcState] /\ "idle" \notin Seen \union Writing /\ Idle.pc = "idle"
  <2>1. "idle" \notin Seen \union Writing /\ Idle.pc = "idle"
    BY DEF Seen, Ingested, Writing, WorkStep, Idle
  <2> QED BY <2>1 DEF TypeInv, TypeOK
<1>1. CASE proc' = proc
  BY <1>1, ReadsNothing
<1>2. ASSUME NEW p \in Procs, exit(p) PROVE \A q \in Procs : ReadMove(proc[q], proc'[q])
  BY <1>0, <1>2, ReadsNothing DEF exit
<1>3. ASSUME NEW p \in Procs, ReadMove(proc[p], proc'[p]), \A q \in Procs \ {p} : proc'[q] = proc[q]
      PROVE  \A q \in Procs : ReadMove(proc[q], proc'[q])
  BY <1>3, ReadsNothing
<1>4. ASSUME NEW p \in Procs, step(p) PROVE \A q \in Procs : ReadMove(proc[q], proc'[q])
  <2>0. CASE exit(p)
    BY <1>2, <2>0
  <2>1. CASE ~exit(p) /\ reconcile_conclude(p)
    <3>1. PICK s \in {"lease", "authority"} :
            /\ proc' = [proc EXCEPT ![p] = [Idle EXCEPT !.pc = s, !.kind = proc[p].kind,
                                                     !.owner = proc[p].owner, !.at = proc[p].at]]
            /\ s = "lease" => proc[p].kind = "dispatch"
      BY <2>1 DEF reconcile_conclude
    <3>2. ReadMove(proc[p], proc'[p])
      BY <3>1, FreshRead
    <3> QED BY <1>0, <1>3, <3>1, <3>2
  <2>2. CASE ~exit(p) /\ ~reconcile_conclude(p)
    <3>1. ~(worker_unknown(p) \/ worker_deliver(p) \/ observe_authority(p) \/ arm_command(p))
      BY <2>2 DEF worker_unknown, worker_deliver, observe_authority, arm_command
    <3>2. ReadMove(proc[p], proc'[p])
      BY <1>4, <2>2, <3>1, ReconcilerReads, WorkerReads DEF step
    <3>3. \A q \in Procs \ {p} : proc'[q] = proc[q]
      BY <1>0, <1>4, OthersStay
    <3> QED BY <1>3, <3>2, <3>3
  <2> QED BY <2>0, <2>1, <2>2
<1>5. CASE Env
  <2>1. proc' = proc \/ \E p \in Procs : crash(p)
    BY <1>5 DEF Env, tick, operator_stage, operator_cancel, operator_approve,
       operator_arm, quote_arrives, operator_freeze, operator_unfreeze, broker_fill,
       broker_commission, broker_inject, broker_callback
  <2> QED BY <1>1, <1>2, <2>1 DEF crash
<1>6. ASSUME NEW p \in Procs, NEW kind, NEW owner, start(p, kind, owner)
      PROVE  \A q \in Procs : ReadMove(proc[q], proc'[q])
  <2>1. PICK s \in {"lease", "arm", "snapshot"} :
          proc' = [proc EXCEPT ![p] = [Idle EXCEPT !.pc = s, !.kind = kind,
                                                   !.owner = owner, !.at = now]]
    BY <1>6 DEF start
  <2>2. "STARTUP_RECONCILIATION" \in tickets'
    BY <1>6 DEF start, open_store, open_freeze_ticket
  <2>3. ReadMove(proc[p], proc'[p])
    BY <2>1, <2>2, FreshRead
  <2> QED BY <1>0, <1>3, <2>1, <2>3
<1> QED BY <1>1, <1>4, <1>5, <1>6 DEF Next, vars

\* Whose order the broker has cancelled while the store has still to hear of an earlier
\* event of it, is not yet reconciled.
LateOK(i) == orders[i].status = "CANCELLED" /\ late(i) => "STARTUP_RECONCILIATION" \in tickets

\* So is a worker that may cancel; and a reconciler that has read the events has read those of
\* all cancelled orders, and has applied the ones it has gone through.
ReadOK(p) ==
    /\ proc[p].pc \in Writing /\ proc[p].kind # "dispatch" => "STARTUP_RECONCILIATION" \in tickets
    /\ proc[p].pc \in Seen =>
         \A i \in Intents : orders[i].status = "CANCELLED" =>
           log_of(events, i) \subseteq 1 .. proc[p].seen
    /\ proc[p].pc = "ingest" =>
         \A n \in 1 .. proc[p].seen : events[n].key \in Intents =>
           /\ proc[p].local[events[n].key] # "ABSENT"
           /\ n < proc[p].next => n \in inbox
    /\ proc[p].pc \in Ingested =>
         \A n \in 1 .. proc[p].seen : events[n].key \in Intents => n \in inbox

LateInv ==
    /\ \A i \in Intents : LateOK(i)
    /\ \A p \in Procs : ReadOK(p)

\* What the steps below rest on.
CapacityBase ==
    /\ OrderInv /\ BackedInv /\ LateInv /\ NoCommission
    /\ OneAtATime
    /\ "commission" \notin Environment

\* What the broker has cancelled and the store not yet heard of was so before the step, or
\* the worker that cancels it works under a ticket.
LEMMA LateBefore ==
  ASSUME CapacityBase, [Next]_vars, NEW i \in Intents, orders'[i].status = "CANCELLED"
  PROVE  \/ /\ orders[i].status = "CANCELLED"
            /\ log_of(events', i) \subseteq log_of(events, i)
         \/ /\ "STARTUP_RECONCILIATION" \in tickets
            /\ \E p \in Procs : at_step(p, "cancel")
<1>0. /\ TypeInv /\ Effect(i) /\ LogGrows
      /\ \A p \in Procs : HeldOK(p) /\ ReadOK(p)
  <2>1. TypeInv
    BY DEF CapacityBase, OrderInv
  <2> QED BY <2>1, NextBrokerMove, BrokerEffect, NextLog DEF CapacityBase, BackedInv, ArmInv, LateInv
<1>1. CASE orders'[i] = orders[i] /\ NewOf(i) = {}
  <2>1. \A n \in log_of(events', i) : n \in 1 .. Len(events) /\ events'[n] = events[n]
    BY <1>0, <1>1 DEF NewOf, LogGrows
  <2> QED BY <1>1, <2>1 DEF log_of
<1>2. ASSUME NEW p \in Procs, at_step(p, "cancel") PROVE "STARTUP_RECONCILIATION" \in tickets
  BY <1>0, <1>2 DEF HeldOK, ReadOK, at_step, Writing, WorkStep
<1>3. orders'[i].status \notin Standing \union {"REJECTED"}
  BY DEF Standing, Working
<1> QED BY <1>0, <1>1, <1>2, <1>3 DEF Effect, CapacityBase, Standing

\* The startup ticket stays open until a reconciler concludes.
LEMMA TicketStays ==
  ASSUME TypeInv, [Next]_vars, "STARTUP_RECONCILIATION" \in tickets
  PROVE  \/ "STARTUP_RECONCILIATION" \in tickets'
         \/ \E p \in Procs : at_step(p, "conclude")
  BY NextGateMove DEF GateMove

LEMMA ReadKept ==
  ASSUME CapacityBase, [Next]_vars, NEW p \in Procs
  PROVE  ReadOK(p)'
<1> DEFINE r == proc[p]
           s == proc'[p]
<1>0. /\ TypeInv /\ LogOK(orders, events) /\ EconInv /\ ReadOK(p) /\ OneAtATime
      /\ r \in ProcState /\ ProcOK(r, Len(events)) /\ Len(events) \in Nat
  BY ProcFacts DEF CapacityBase, OrderInv, LateInv
<1>1. ReadMove(r, s) /\ LogGrows /\ inbox \subseteq inbox'
  BY <1>0, NextReadMove, NextLog, NextMove, StoreGrows
<1>2. \A n \in 1 .. r.seen : n \in 1 .. Len(events) /\ events'[n] = events[n]
  BY <1>0, <1>1 DEF ProcOK, ProcState, LogGrows
<1> HIDE DEF r, s
<1>3. s.pc \in Writing /\ s.kind # "dispatch" => "STARTUP_RECONCILIATION" \in tickets'
  <2> SUFFICES ASSUME s.pc \in Writing, s.kind # "dispatch",
                      "STARTUP_RECONCILIATION" \notin tickets'
               PROVE  FALSE
    OBVIOUS
  <2>1. r.pc \in Writing /\ r.kind # "dispatch"
    BY <1>1 DEF ReadMove
  <2>2. "STARTUP_RECONCILIATION" \in tickets
    BY <1>0, <2>1 DEF ReadOK, r
  <2>3. PICK q \in Procs : at_step(q, "conclude")
    BY <1>0, <2>2, TicketStays
  <2>4. r.pc # "idle" /\ r.pc # "conclude"
    BY <2>1 DEF Writing, WorkStep
  <2> QED BY <1>0, <2>3, <2>4 DEF OneAtATime, at_step, r
<1>4. s.pc \in Seen =>
        \A i \in Intents : orders'[i].status = "CANCELLED" =>
          log_of(events', i) \subseteq 1 .. s.seen
  <2> SUFFICES ASSUME s.pc \in Seen, NEW i \in Intents, orders'[i].status = "CANCELLED"
               PROVE  log_of(events', i) \subseteq 1 .. s.seen
    OBVIOUS
  <2>1. r.pc \in Seen \union {"snapshot_events"}
    BY <1>1 DEF ReadMove
  <2>2. ASSUME NEW q \in Procs, at_step(q, "cancel") PROVE FALSE
    BY <1>0, <2>1, <2>2 DEF OneAtATime, at_step, r, Seen, Ingested
  <2>3. orders[i].status = "CANCELLED" /\ log_of(events', i) \subseteq log_of(events, i)
    BY <2>2, LateBefore
  <2>4. CASE r.pc \in Seen /\ s.seen = r.seen
    BY <1>0, <2>3, <2>4 DEF ReadOK, r
  <2>5. CASE s.seen = Len(events)
    BY <2>3, <2>5 DEF log_of
  <2> QED BY <1>1, <2>4, <2>5 DEF ReadMove
<1>5. CASE s = r
  <2>1. s.pc = "ingest" =>
          \A n \in 1 .. s.seen : events'[n].key \in Intents =>
            s.local[events'[n].key] # "ABSENT" /\ (n < s.next => n \in inbox')
    BY <1>0, <1>1, <1>2, <1>5 DEF ReadOK, r
  <2>2. s.pc \in Ingested => \A n \in 1 .. s.seen : events'[n].key \in Intents => n \in inbox'
    BY <1>0, <1>1, <1>2, <1>5 DEF ReadOK, r
  <2> QED BY <1>3, <1>4, <2>1, <2>2 DEF ReadOK, s
<1>6. CASE s # r
  <2>0. /\ s.pc \in Ingested \union {"ingest"} => s.seen = r.seen
        /\ r.seen \in Nat /\ r.next \in Nat /\ (r.pc = "ingest" => r.next \in 1 .. r.seen)
    BY <1>0, <1>1 DEF ReadMove, Seen, Ingested, ProcState, ProcOK
  <2>1. ASSUME r.pc = "ingest", HandedOn(r), NEW n \in 1 .. r.seen, events'[n].key \in Intents
        PROVE  /\ r.local[events'[n].key] # "ABSENT"
               /\ n < r.next + 1 => n \in inbox'
    <3>1. /\ events'[n] = events[n] /\ r.local[events[n].key] # "ABSENT"
          /\ n < r.next => n \in inbox
      BY <1>0, <1>2, <2>1 DEF ReadOK, r
    <3>2. CASE n = r.next
      BY <2>1, <3>1, <3>2 DEF HandedOn
    <3>3. CASE n # r.next
      BY <1>1, <2>0, <3>1, <3>3
    <3> QED BY <3>2, <3>3
  <2>2. s.pc = "ingest" =>
          \A n \in 1 .. s.seen : events'[n].key \in Intents =>
            s.local[events'[n].key] # "ABSENT" /\ (n < s.next => n \in inbox')
    <3> SUFFICES ASSUME s.pc = "ingest", NEW n \in 1 .. r.seen, events'[n].key \in Intents
                 PROVE  s.local[events'[n].key] # "ABSENT" /\ (n < s.next => n \in inbox')
      BY <2>0
    <3>1. CASE r.pc = "ingest" /\ s.local = r.local /\ s.next = r.next + 1 /\ HandedOn(r)
      BY <2>1, <3>1
    <3>2. CASE r.pc = "read_local" /\ s.local = status /\ s.next = 1
      <4>1. n \in log_of(events, events[n].key) /\ events'[n] = events[n] /\ events[n].key \in Keys
        BY <1>2 DEF log_of, Keys
      <4>2. orders[events[n].key].status # "ABSENT"
        BY <1>0, <4>1 DEF LogOK
      <4>3. status[events[n].key] # "ABSENT"
        BY <1>0, <4>1, <4>2 DEF EconInv
      <4> QED BY <2>0, <3>2, <4>1, <4>3
    <3> QED BY <1>1, <1>6, <3>1, <3>2 DEF ReadMove
  <2>3. s.pc \in Ingested => \A n \in 1 .. s.seen : events'[n].key \in Intents => n \in inbox'
    <3> SUFFICES ASSUME s.pc \in Ingested, NEW n \in 1 .. r.seen, events'[n].key \in Intents
                 PROVE  n \in inbox'
      BY <2>0
    <3>1. CASE r.pc \in Ingested
      BY <1>0, <1>1, <1>2, <3>1 DEF ReadOK, r
    <3>2. CASE r.seen = 0
      BY <3>2
    <3>3. CASE r.pc = "ingest" /\ r.next = r.seen /\ HandedOn(r)
      BY <2>0, <2>1, <3>3
    <3> QED BY <1>1, <3>1, <3>2, <3>3 DEF ReadMove
  <2> QED BY <1>3, <1>4, <2>2, <2>3 DEF ReadOK, s
<1> QED BY <1>5, <1>6

LEMMA LateKept ==
  ASSUME CapacityBase, [Next]_vars, NEW i \in Intents
  PROVE  LateOK(i)'
<1> SUFFICES ASSUME orders'[i].status = "CANCELLED", late(i)',
                    "STARTUP_RECONCILIATION" \notin tickets'
             PROVE  FALSE
  BY DEF LateOK
<1>0. /\ TypeInv /\ LogOK(orders, events) /\ EconInv /\ OneAtATime /\ LateOK(i)
      /\ \A p \in Procs : ReadOK(p)
  BY DEF CapacityBase, OrderInv, LateInv
<1>1. LogGrows /\ inbox \subseteq inbox' /\ filled[i] <= filled'[i]
  BY <1>0, NextLog, NextMove, StoreGrows
<1>2. "STARTUP_RECONCILIATION" \in tickets => \E p \in Procs : at_step(p, "conclude")
  BY <1>0, TicketStays
<1>3. ~ \E p \in Procs : at_step(p, "cancel") /\ "STARTUP_RECONCILIATION" \in tickets
  BY <1>0, <1>2 DEF OneAtATime, at_step
<1>4. orders[i].status = "CANCELLED" /\ log_of(events', i) \subseteq log_of(events, i)
  BY <1>3, LateBefore
<1>5. PICK n \in log_of(events, i) : n \notin inbox /\ events[n].type \in Taking
  BY <1>1, <1>4 DEF late, LogGrows, log_of
<1>6. filled[i] < Qty
  <2>1. filled[i] \in 0 .. Qty /\ Qty \in Nat /\ filled'[i] < Qty
    BY <1>0, RowTypes DEF late
  <2>2. filled'[i] \in Int
    <3>1. TypeInv'
      BY <1>0, TypeInvStep
    <3> QED BY <3>1, TypesAssumption DEF TypeInv, TypeOK, StoreTypeOK
  <2> QED BY <1>1, <2>1, <2>2
<1>7. PICK p \in Procs : at_step(p, "conclude")
  BY <1>0, <1>2, <1>4, <1>5, <1>6 DEF LateOK, late
<1>8. n \in 1 .. proc[p].seen
  BY <1>0, <1>4, <1>5, <1>7 DEF ReadOK, at_step, Seen, Ingested
<1>9. events[n].key = i
  BY <1>5 DEF log_of
<1> QED BY <1>0, <1>5, <1>7, <1>8, <1>9 DEF ReadOK, at_step, Ingested

\* Unless an intent is staged, no step exposes another one: an active reservation is not
\* taken out of nothing, and what a late event can still take has been counted since.
LEMMA ExposedByBroker ==
  ASSUME CapacityBase, [Next]_vars, UNCHANGED storeVars, NEW i \in Exposed'
  PROVE  i \in Exposed
<1>0. /\ TypeInv /\ LogOK(orders, events) /\ ReservedOK(i) /\ Effect(i) /\ LogGrows
      /\ i \in Intents /\ \A p \in Procs : HeldOK(p)
  <2>1. TypeInv /\ i \in Intents
    BY DEF CapacityBase, OrderInv, Exposed
  <2> QED BY <2>1, NextBrokerMove, BrokerEffect, NextLog
          DEF CapacityBase, OrderInv, BackedInv, ArmInv, ReserveInv
<1>1. CASE reservation[i].status \in ActiveReservation
  BY <1>0, <1>1 DEF Exposed
<1>2. CASE late(i)'
  <2>1. filled[i] < Qty
    BY <1>2 DEF late
  <2>2. PICK n \in log_of(events', i) : n \notin inbox /\ events'[n].type \in Taking
    BY <1>2 DEF late
  <2>3. CASE n \in 1 .. Len(events)
    BY <1>0, <2>1, <2>2, <2>3 DEF late, Exposed, LogGrows, log_of
  <2>4. CASE n \in NewOf(i)
    <3>1. CASE orders[i].status = "ABSENT" /\ \E p \in Procs : at_step(p, "submit") /\ proc[p].work = i
      <4>1. outbox[i].status = "CLAIMED"
        BY <1>0, <3>1 DEF HeldOK, Held, at_step
      <4> QED BY <1>0, <1>1, <3>1, <4>1 DEF ReservedOK
    <3>2. CASE orders[i].status \in Working
      BY <1>0, <1>1, <2>1, <3>2 DEF ReservedOK, Standing
    <3> QED BY <1>0, <2>2, <2>4, <3>1, <3>2 DEF Effect, Taking
  <2> QED BY <2>2, <2>3, <2>4 DEF NewOf
<1> QED BY <1>1, <1>2 DEF Exposed

\* An event makes the reservation of an intent active that was exposed before.
LEMMA ExposedByEvent ==
  ASSUME CapacityBase, NEW n \in (1 .. Len(events)) \ inbox, apply_broker_event(n, events[n]),
         NEW i \in Intents, reservation[i].status \notin ActiveReservation,
         reservation'[i].status \in ActiveReservation
  PROVE  late(i)
<1> DEFINE e == events[n]
           t == filled[i] + e.qty
<1>0. /\ TypeInv /\ LogOK(orders, events) /\ BookOK(orders, events) /\ EconInv
      /\ ReservedOK(i) /\ e.type # "COMMISSION" /\ i \in Keys
      /\ filled[i] \in 0 .. Qty /\ Qty \in Nat \ {0}
  BY RowTypes DEF CapacityBase, OrderInv, BackedInv, ReserveInv, NoCommission, Keys
<1>1. e.key \in Staged /\ e.key = i
  <2>1. e.key \in Staged
    BY DEF apply_broker_event
  <2> QED BY <1>0, <2>1, EventRow
<1>2. /\ e \in BrokerEvent
      /\ filled'[i] = IF t < Qty THEN t ELSE Qty
      /\ status'[i] = status_for(e.type, t, status[i])
      /\ reservation'[i].status = reservation_status(filled'[i], status'[i])
  BY <1>0, <1>1, EventRow
<1>3. n \in log_of(events, i) \ inbox
  BY <1>1 DEF log_of
<1>4. e.type \in BrokerEventType /\ e.qty \in 0 .. Qty
  BY <1>2 DEF BrokerEvent
<1>5. e.type = "REJECTED" => filled[i] = 0
  <2>1. applied(i) \in SUBSET log_of(events, i)
    BY <1>0 DEF EconInv, applied, log_of
  <2>2. filled[i] <= orders[i].filled /\ orders[i].filled \in 0 .. Qty
    BY <1>0, <2>1, SomeFills DEF EconInv
  <2>3. e.type = "REJECTED" => orders[i].filled = 0
    BY <1>0, <1>3 DEF BookOK, OrderOK
  <2> QED BY <1>0, <2>2, <2>3
<1> HIDE DEF e
<1>6. status'[i] \notin Ended /\ filled'[i] # Qty
  BY <1>2 DEF reservation_status, Ended, ActiveReservation
<1>7. filled[i] < Qty
  BY <1>0, <1>2, <1>4, <1>6
<1>8. e.type \in Taking
  <2>1. CASE e.type = "CANCELLED"
    BY <1>0, <1>2, <1>6, <1>7, <2>1 DEF status_for, Ended, ReservedOK
  <2>2. CASE e.type = "REJECTED"
    BY <1>0, <1>2, <1>5, <1>6, <1>7, <2>2 DEF status_for, Ended, ReservedOK
  <2> QED BY <1>0, <1>4, <2>1, <2>2 DEF BrokerEventType, Taking
<1> QED BY <1>3, <1>7, <1>8 DEF late, e

LEMMA ExposedByStore ==
  ASSUME CapacityBase, [Next]_vars, UNCHANGED <<orders, events>>, NEW i \in Exposed'
  PROVE  i \in Exposed \/ stage(i, now)
<1>0. /\ TypeInv /\ LogOK(orders, events) /\ EconInv /\ StoreMove /\ i \in Intents
      /\ reservation \in [Intents -> ReservationRow]
  BY NextMove, RowTypes DEF CapacityBase, OrderInv, Exposed
<1>1. CASE late(i)'
  <2>1. inbox \subseteq inbox' /\ filled[i] <= filled'[i]
    BY <1>0, StoreGrows
  <2>2. filled[i] < Qty
    <3>1. TypeInv'
      BY <1>0, TypeInvStep
    <3>2. filled'[i] \in Int
      BY <1>0, <3>1, TypesAssumption DEF TypeInv, TypeOK, StoreTypeOK
    <3> QED BY <1>0, <1>1, <2>1, <3>2, RowTypes DEF late
  <2> QED BY <1>0, <1>1, <2>1, <2>2 DEF late, Exposed, log_of
<1>2. CASE reservation[i].status \in ActiveReservation
  BY <1>0, <1>2 DEF Exposed
<1>3. CASE reservation[i].status \notin ActiveReservation /\ reservation'[i].status \in ActiveReservation
  <2>1. CASE UNCHANGED reservation
    BY <1>3, <2>1
  <2>2. ASSUME NEW n \in (1 .. Len(events)) \ inbox, apply_broker_event(n, events[n])
        PROVE  i \in Exposed
    BY <1>0, <1>3, <2>2, ExposedByEvent DEF Exposed
  <2>3. ASSUME NEW j \in Intents, OperatorMove(j) PROVE stage(i, now)
    <3>1. CASE stage(j, now)
      BY <1>0, <1>3, <3>1 DEF stage
    <3>2. CASE request_cancel(j)
      BY <1>0, <1>3, <3>2 DEF request_cancel, reservation_status, ActiveReservation, ReservationRow
    <3>3. CASE ~stage(j, now) /\ ~request_cancel(j)
      BY <1>3, <2>3, <3>3 DEF OperatorMove, approve, arm_approved_intent
    <3> QED BY <3>1, <3>2, <3>3
  <2>4. ASSUME NEW p \in Procs, HandMove(p) PROVE UNCHANGED reservation
    BY <2>4 DEF HandMove, mark_submission_unknown, mark_delivered, mark_cancel_unknown,
       mark_cancel_delivered
  <2>5. ASSUME NEW p \in Procs, NEW j \in Intents, ClaimMove(p, j) \/ ReconcilerMove(p, j)
        PROVE  FALSE
    BY <1>0, <1>3, <2>5 DEF ClaimMove, claim_next_expires_arm, claim_next_expires_reservation,
       claim_next, claim_next_cancel, ReconcilerMove, resolve_unknown_at_broker,
       requeue_unknown_absent_at_broker, ActiveReservation, ReservationRow
  <2> QED BY <1>0, <2>1, <2>2, <2>3, <2>4, <2>5 DEF StoreMove, QuietStore, recover_claimed_as_unknown
<1> QED BY <1>1, <1>2, <1>3 DEF Exposed

\* When stage is admitted, what it counts is all there is.
LEMMA StageCounts ==
  ASSUME CapacityBase, NEW j \in Intents, stage(j, now)
  PROVE  Exposed = {i \in Intents : reservation[i].status \in ActiveReservation}
<1> SUFFICES ASSUME NEW i \in Intents, late(i) PROVE reservation[i].status \in ActiveReservation
  BY DEF Exposed
<1>0. /\ LogOK(orders, events) /\ BookOK(orders, events) /\ ReservedOK(i) /\ LateOK(i)
      /\ i \in Keys /\ orders[i] \in BrokerOrder /\ tickets = {}
  BY DEF CapacityBase, OrderInv, BackedInv, ReserveInv, LateInv, Keys, TypeInv, TypeOK,
     BrokerTypeOK, stage
<1>1. PICK n \in log_of(events, i) : events[n].type \in Taking
  BY DEF late
<1>2. orders[i].status \notin {"ABSENT", "REJECTED", "CANCELLED"}
  BY <1>0, <1>1 DEF LogOK, BookOK, OrderOK, LateOK, Taking
<1>3. orders[i].status \in Standing
  BY <1>0, <1>2 DEF BrokerOrder, OrderStatus, Standing, Working
<1> QED BY <1>0, <1>3 DEF ReservedOK, late

\* More reservations reserve more.
LEMMA NotionalMonotone ==
  ASSUME NEW S, NEW T, IsFiniteSet(T), S \subseteq T
  PROVE  /\ IsFiniteSet(S)
         /\ Notional * Cardinality(S) <= Notional * Cardinality(T)
<1>1. IsFiniteSet(S) /\ Cardinality(S) <= Cardinality(T)
  BY FS_Subset
<1>2. Cardinality(S) \in Nat /\ Cardinality(T) \in Nat
  BY <1>1, FS_CardinalityType
<1>3. \A m, a, b \in Nat : a <= b => m * a <= m * b
  OBVIOUS
<1> QED BY <1>1, <1>2, <1>3, StoreAssumption

LEMMA ExposureKept ==
  ASSUME CapacityBase, ExposureInv, [Next]_vars
  PROVE  ExposureInv'
<1>0. Capacity \in Nat /\ Notional \in Nat /\ IsFiniteSet(Exposed) /\ Notional * Cardinality(Exposed) <= Capacity
  BY StoreAssumption DEF ExposureInv
<1>1. CASE Exposed' \subseteq Exposed
  <2>1. IsFiniteSet(Exposed') /\ Notional * Cardinality(Exposed') <= Notional * Cardinality(Exposed)
    BY <1>0, <1>1, NotionalMonotone
  <2>2. Cardinality(Exposed') \in Nat /\ Cardinality(Exposed) \in Nat
    BY <1>0, <2>1, FS_CardinalityType
  <2> QED BY <1>0, <2>1, <2>2 DEF ExposureInv
<1>2. ASSUME NEW j \in Intents, stage(j, now), Exposed' \subseteq Exposed \union {j}
      PROVE  ExposureInv'
  <2>1. Notional * Cardinality(Exposed) + Notional <= Capacity
    BY <1>2, StageCounts DEF stage, active_reserved_notional
  <2>2. /\ IsFiniteSet(Exposed \union {j})
        /\ Cardinality(Exposed \union {j}) <= Cardinality(Exposed) + 1
        /\ Cardinality(Exposed) \in Nat /\ Cardinality(Exposed \union {j}) \in Nat
    BY <1>0, FS_AddElement, FS_CardinalityType
  <2>3. /\ IsFiniteSet(Exposed')
        /\ Notional * Cardinality(Exposed') <= Notional * Cardinality(Exposed \union {j})
    BY <1>2, <2>2, NotionalMonotone
  <2>4. Cardinality(Exposed') \in Nat
    BY <2>3, FS_CardinalityType
  <2>5. \A m, a, b \in Nat : b <= a + 1 => m * b <= m * a + m
    OBVIOUS
  <2>6. Notional * Cardinality(Exposed \union {j}) <= Notional * Cardinality(Exposed) + Notional
    BY <1>0, <2>2, <2>5
  <2>7. \A m, a, b \in Nat : m * a \in Nat
    OBVIOUS
  <2> DEFINE x == Notional * Cardinality(Exposed)
             y == Notional * Cardinality(Exposed \union {j})
             z == Notional * Cardinality(Exposed')
  <2>8. x \in Nat /\ y \in Nat /\ z \in Nat
    BY <1>0, <2>2, <2>4, <2>7
  <2>9. x + Notional <= Capacity /\ z <= y /\ y <= x + Notional
    BY <2>1, <2>3, <2>6
  <2> HIDE DEF x, y, z
  <2>10. z <= Capacity
    BY <1>0, <2>8, <2>9
  <2> QED BY <2>3, <2>10 DEF z, ExposureInv
<1>3. CASE UNCHANGED storeVars
  BY <1>1, <1>3, ExposedByBroker
<1>4. CASE UNCHANGED <<orders, events>>
  <2>1. CASE \E j \in Intents : stage(j, now)
    <3>1. PICK j \in Intents : stage(j, now)
      BY <2>1
    <3>2. ASSUME NEW i \in Intents, stage(i, now) PROVE i = j
      <4>1. status \in [Intents -> ExecutionStatus \union {"ABSENT"}]
        BY RowTypes DEF CapacityBase, OrderInv
      <4> QED BY <3>1, <3>2, <4>1 DEF stage, enqueue
    <3>3. Exposed' \subseteq Exposed \union {j}
      BY <1>4, <3>2, ExposedByStore DEF Exposed
    <3> QED BY <1>2, <3>1, <3>3
  <2>2. CASE ~ \E j \in Intents : stage(j, now)
    BY <1>1, <1>4, <2>2, ExposedByStore DEF Exposed
  <2> QED BY <2>1, <2>2
<1> QED BY <1>3, <1>4, OneDatabase

\* As long as commands do not overlap and the broker charges no commission behind them,
\* what the account may still buy stays within its capacity: the orders that work at the
\* broker and the active reservations together, with orders cancelled and filled, answers lost,
\* commands recovered and requeued, and events applied in any order.
THEOREM CapacityHolds ==
  ASSUME "commission" \notin Environment
  PROVE  Spec /\ []OneAtATime => []CapacityRespected
<1> DEFINE CapInv == OrderInv /\ BackedInv /\ LateInv /\ NoCommission /\ ExposureInv
<1>1. Init => CapInv
  <2> SUFFICES ASSUME Init PROVE CapInv
    OBVIOUS
  <2>1. OrderInv /\ BackedInv
    BY InitBacked
  <2>2. events = <<>> /\ \A i \in Intents : orders[i].status = "ABSENT"
    BY DEF Init, BrokerInit, NoOrder, Keys
  <2>3. LateInv /\ NoCommission
    BY <2>2 DEF Init, StoreInit, LateInv, LateOK, ReadOK, Idle, Writing, WorkStep, Seen, Ingested,
       NoCommission
  <2>4. Exposed = {}
    BY <2>2 DEF Init, StoreInit, Exposed, late, log_of, ActiveReservation
  <2>5. ExposureInv
    BY <2>4, FS_EmptySet, StoreAssumption DEF ExposureInv
  <2> QED BY <2>1, <2>3, <2>5
<1>2. CapInv /\ OneAtATime /\ [Next]_vars => CapInv'
  <2> SUFFICES ASSUME CapInv, OneAtATime, [Next]_vars PROVE CapInv'
    OBVIOUS
  <2>1. CapacityBase /\ ExposureInv
    BY DEF CapacityBase
  <2>2. OrderInv' /\ BackedInv'
    BY OrderStep, BackedStep
  <2>3. LateInv'
    BY <2>1, LateKept, ReadKept DEF LateInv
  <2>4. NoCommission'
    BY NextBrokerMove, CommissionStep DEF OrderInv
  <2>5. ExposureInv'
    BY <2>1, ExposureKept
  <2> QED BY <2>2, <2>3, <2>4, <2>5
<1>3. CapInv => CapacityRespected
  <2> SUFFICES ASSUME CapInv PROVE CapacityRespected
    OBVIOUS
  <2> DEFINE counted == {i \in Intents : \/ reservation[i].status \in {"ACTIVE", "PARTIALLY_CONSUMED"}
                                         \/ orders[i].status \in {"ACCEPTED", "PARTIALLY_FILLED"}}
  <2>1. WorkingOrderReserved
    BY BackedReserves
  <2>2. counted \subseteq Exposed
    BY <2>1 DEF Exposed, ActiveReservation, WorkingOrderReserved
  <2>3. IsFiniteSet(Exposed) /\ Notional * Cardinality(Exposed) <= Capacity
    BY DEF ExposureInv
  <2> HIDE DEF counted
  <2>4. IsFiniteSet(counted) /\ Notional * Cardinality(counted) <= Notional * Cardinality(Exposed)
    BY <2>2, <2>3, NotionalMonotone
  <2>5. \A m, a \in Nat : m * a \in Nat
    OBVIOUS
  <2> DEFINE x == Notional * Cardinality(counted)
             y == Notional * Cardinality(Exposed)
  <2>6. x \in Nat /\ y \in Nat /\ Capacity \in Nat
    BY <2>3, <2>4, <2>5, FS_CardinalityType, StoreAssumption
  <2>7. x <= y /\ y <= Capacity
    BY <2>3, <2>4
  <2> HIDE DEF x, y
  <2>8. x <= Capacity
    BY <2>6, <2>7
  <2> QED BY <2>8 DEF x, counted, CapacityRespected
<1> HIDE DEF CapInv
<1> QED BY <1>1, <1>2, <1>3, PTL DEF Spec
=============================================================================
