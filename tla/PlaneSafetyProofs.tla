------------------------- MODULE PlaneSafetyProofs --------------------------
(***************************************************************************)
(* The execution plane keeps its types, and what it never does, for any    *)
(* number of processes, intents, events and crashes: dispatch past an open *)
(* freeze ticket, let a superseded writer write, or lose the freeze of an  *)
(* event it cannot place.                                                  *)
(*                                                                         *)
(* Types: every operation of the control store keeps the types of its      *)
(* tables; every operation of the broker keeps its types, and its event    *)
(* log only grows: an event that a process has seen stays where it was.    *)
(* TypeOK is not inductive: the event a process ingests next has to exist, *)
(* and the command a worker handles has to be that of an intent.  ProcOK   *)
(* says so for one process.                                                *)
(***************************************************************************)
EXTENDS ExecutionPlane, TLAPS

-----------------------------------------------------------------------------
(* The control store.                                                      *)

\* What the initial state of a new control database looks like.
LEMMA StoreInitTypes == StoreInit => StoreTypeOK
<1> SUFFICES ASSUME StoreInit PROVE StoreTypeOK
  OBVIOUS
<1>1. NoArm \in ArmRecord
  BY DEF NoArm, ArmRecord, Quote
<1> QED
  BY <1>1, TypesAssumption
  DEF StoreInit, StoreTypeOK, FreezeReason, ReservationRow, OutboxRow, CancelRow, LeaseRow,
      BaselineRow

-----------------------------------------------------------------------------
(* Updating one row of a table keeps the table's type.                     *)

LEMMA StatusUpdate ==
  ASSUME NEW f \in [Intents -> ExecutionStatus \union {"ABSENT"}], NEW i \in Intents,
         NEW s \in ExecutionStatus
  PROVE  [f EXCEPT ![i] = s] \in [Intents -> ExecutionStatus \union {"ABSENT"}]
  OBVIOUS

LEMMA ReservationUpdate ==
  ASSUME NEW f \in [Intents -> ReservationRow], NEW i \in Intents, NEW s \in ReservationStatus
  PROVE  [f EXCEPT ![i].status = s] \in [Intents -> ReservationRow]
<1>1. f[i] \in ReservationRow
  OBVIOUS
<1>2. [f[i] EXCEPT !.status = s] \in ReservationRow
  BY <1>1 DEF ReservationRow
<1> QED BY <1>2

LEMMA OutboxUpdate ==
  ASSUME NEW f \in [Intents -> OutboxRow], NEW i \in Intents, NEW s \in CommandStatus
  PROVE  [f EXCEPT ![i].status = s] \in [Intents -> OutboxRow]
<1>1. f[i] \in OutboxRow
  OBVIOUS
<1>2. [f[i] EXCEPT !.status = s] \in OutboxRow
  BY <1>1 DEF OutboxRow
<1> QED BY <1>2

LEMMA OutboxClaim ==
  ASSUME NEW f \in [Intents -> OutboxRow], NEW i \in Intents, NEW s \in CommandStatus,
         NEW t \in Nat \union {-1}
  PROVE  [f EXCEPT ![i].status = s, ![i].claimedAt = t] \in [Intents -> OutboxRow]
<1>1. f[i] \in OutboxRow
  OBVIOUS
<1>2. [f[i] EXCEPT !.status = s, !.claimedAt = t] \in OutboxRow
  BY <1>1 DEF OutboxRow
<1> QED BY <1>1, <1>2 DEF OutboxRow

LEMMA CancelUpdate ==
  ASSUME NEW f \in [Intents -> CancelRow], NEW i \in Intents, NEW s \in CommandStatus
  PROVE  [f EXCEPT ![i].status = s] \in [Intents -> CancelRow]
<1>1. f[i] \in CancelRow
  OBVIOUS
<1>2. [f[i] EXCEPT !.status = s] \in CancelRow
  BY <1>1 DEF CancelRow
<1> QED BY <1>2

LEMMA ArmUpdate ==
  ASSUME NEW f \in [Intents -> ArmRecord], NEW i \in Intents, NEW s \in {"EXPIRED", "CONSUMED"}
  PROVE  [f EXCEPT ![i].status = s] \in [Intents -> ArmRecord]
<1>1. f[i] \in ArmRecord
  OBVIOUS
<1>2. [f[i] EXCEPT !.status = s] \in ArmRecord
  BY <1>1 DEF ArmRecord
<1> QED BY <1>2

-----------------------------------------------------------------------------
(* The operations.                                                         *)

USE DEF intentVars, queueVars, gateVars, econVars, armVars, storeVars

\* The operations on freeze tickets.
LEMMA FreezeTypes ==
  ASSUME StoreTypeOK,
         \/ \E r \in FreezeReason : freeze(r)
         \/ \E r \in FreezeReason : resolve_freeze_ticket(r)
         \/ unfreeze_after_reconciliation
         \/ open_store
  PROVE  StoreTypeOK'
  BY DEF StoreTypeOK, freeze, resolve_freeze_ticket, unfreeze_after_reconciliation,
     open_store, open_freeze_ticket, FreezeReason

\* Queueing the submit command of an intent.
LEMMA EnqueueTypes ==
  ASSUME StoreTypeOK, NEW i \in Intents, enqueue(i)
  PROVE  /\ status' \in [Intents -> ExecutionStatus \union {"ABSENT"}]
         /\ outbox' \in [Intents -> OutboxRow]
         /\ rowid' \in Nat
<1>1. [status |-> "PENDING", row |-> rowid + 1, claimedAt |-> -1] \in OutboxRow
  BY DEF OutboxRow, CommandStatus, StoreTypeOK
<1>2. status' \in [Intents -> ExecutionStatus \union {"ABSENT"}]
  BY DEF enqueue, StoreTypeOK, ExecutionStatus
<1>3. outbox' \in [Intents -> OutboxRow] /\ rowid' \in Nat
  BY <1>1 DEF enqueue, StoreTypeOK
<1> QED BY <1>2, <1>3

\* Staging.
LEMMA StageTypes ==
  ASSUME StoreTypeOK, NEW i \in Intents, NEW at \in Nat, stage(i, at)
  PROVE  StoreTypeOK'
<1>1. [status |-> "ACTIVE", expires |-> at + ReservationLife] \in ReservationRow
  BY StoreAssumption DEF ReservationRow, ReservationStatus
<1>2. reservation' \in [Intents -> ReservationRow]
  BY <1>1 DEF stage, StoreTypeOK
<1>3. CASE i \in Manual
  BY <1>2, <1>3 DEF stage, StoreTypeOK, ExecutionStatus
<1>4. CASE i \notin Manual
  <2>1. enqueue(i)
    BY <1>4 DEF stage
  <2> QED BY <1>2, <2>1, EnqueueTypes DEF stage, StoreTypeOK
<1> QED BY <1>3, <1>4

\* Approval.
LEMMA ApproveTypes ==
  ASSUME StoreTypeOK, NEW i \in Intents, NEW at \in Nat, approve(i, at)
  PROVE  StoreTypeOK'
  BY DEF StoreTypeOK, approve, ExecutionStatus

\* Evidence for an arm.
LEMMA EvidenceTypes ==
  ASSUME StoreTypeOK,
         \/ \E t \in Nat : record_broker_snapshot_authority(t)
         \/ \E q \in Quote : record_quote_snapshot(q)
  PROVE  StoreTypeOK'
  BY DEF StoreTypeOK, record_broker_snapshot_authority, record_quote_snapshot

\* The earliest of four expiries is one of them.
LEMMA MinOfFour ==
  ASSUME NEW a \in Int, NEW b \in Int, NEW c \in Int, NEW d \in Int
  PROVE  Min({a, b, c, d}) \in Int
<1> DEFINE S == {a, b, c, d}
<1>1. \E x \in S : \A y \in S : x <= y
  OBVIOUS
<1>2. Min(S) \in S
  BY <1>1 DEF Min
<1> QED BY <1>2

\* Arming.
LEMMA ArmTypes ==
  ASSUME StoreTypeOK, NEW i \in Intents, NEW a, NEW q, NEW at \in Nat,
         \/ arm_approved_intent(i, a, q, at)
         \/ arm_authority_stale(i, a, at)
         \/ arm_quote_stale(i, a, q, at)
  PROVE  StoreTypeOK'
<1>1. CASE arm_approved_intent(i, a, q, at)
  <2>1. a \in Nat /\ q \in Quote
    BY <1>1 DEF arm_approved_intent, arm_admissible, StoreTypeOK
  <2>2. quote_valid_until(q) \in Int
    BY <2>1, QuoteAssumption DEF quote_valid_until, Quote
  <2>3. reservation[i].expires \in Int
    BY DEF StoreTypeOK, ReservationRow
  <2>4. arm_expires(i, a, q, at) \in Int
    <3>1. at + ArmTtl \in Int /\ a + AuthorityMaxAge \in Int
      BY <2>1, StoreAssumption
    <3> QED BY <2>2, <2>3, <3>1, MinOfFour DEF arm_expires
  <2>5. arm' \in [Intents -> ArmRecord]
    BY <1>1, <2>1, <2>4 DEF arm_approved_intent, StoreTypeOK, ArmRecord
  <2>6. enqueue(i)
    BY <1>1 DEF arm_approved_intent
  <2> QED BY <1>1, <2>5, <2>6, EnqueueTypes DEF arm_approved_intent, StoreTypeOK
<1>2. CASE arm_authority_stale(i, a, at) \/ arm_quote_stale(i, a, q, at)
  <2>1. \E r \in FreezeReason : freeze(r)
    BY <1>2 DEF arm_authority_stale, arm_quote_stale, FreezeReason
  <2> QED BY <2>1, FreezeTypes
<1> QED BY <1>1, <1>2

\* The lease.
LEMMA LeaseTypes ==
  ASSUME StoreTypeOK, NEW o \in Owners \union {"nobody"}, NEW at \in Nat, acquire_lease(o, at)
  PROVE  StoreTypeOK'
  BY StoreAssumption DEF StoreTypeOK, acquire_lease, LeaseRow

\* The submit outbox.
LEMMA ClaimTypes ==
  ASSUME StoreTypeOK, NEW i \in Intents, NEW o, NEW t, NEW at \in Nat,
         \/ claim_next_expires_arm(o, t, at, i)
         \/ claim_next_expires_reservation(o, t, at, i)
         \/ claim_next(o, t, at, i)
  PROVE  StoreTypeOK'
<1>1. CASE claim_next_expires_arm(o, t, at, i)
  BY <1>1, ArmUpdate DEF StoreTypeOK, claim_next_expires_arm
<1>2. CASE claim_next_expires_reservation(o, t, at, i)
  <2>1. outbox' \in [Intents -> OutboxRow]
    BY <1>2, OutboxUpdate DEF StoreTypeOK, claim_next_expires_reservation, CommandStatus
  <2>2. reservation' \in [Intents -> ReservationRow]
    BY <1>2, ReservationUpdate DEF StoreTypeOK, claim_next_expires_reservation, ReservationStatus
  <2>3. status' \in [Intents -> ExecutionStatus \union {"ABSENT"}]
    BY <1>2 DEF StoreTypeOK, claim_next_expires_reservation, ExecutionStatus
  <2> QED BY <1>2, <2>1, <2>2, <2>3 DEF StoreTypeOK, claim_next_expires_reservation
<1>3. CASE claim_next(o, t, at, i)
  <2>1. outbox' \in [Intents -> OutboxRow]
    BY <1>3, OutboxClaim DEF StoreTypeOK, claim_next, CommandStatus
  <2>2. arm' \in [Intents -> ArmRecord]
    BY <1>3, ArmUpdate DEF StoreTypeOK, claim_next, consume_arm
  <2>3. status' \in [Intents -> ExecutionStatus \union {"ABSENT"}]
    BY <1>3 DEF StoreTypeOK, claim_next, ExecutionStatus
  <2> QED BY <1>3, <2>1, <2>2, <2>3 DEF StoreTypeOK, claim_next
<1> QED BY <1>1, <1>2, <1>3

\* Delivery, uncertainty and its resolution.
LEMMA OutboxTypes ==
  ASSUME StoreTypeOK, NEW i \in Intents, NEW asOf \in Nat,
         \/ mark_submission_unknown(i)
         \/ mark_delivered(i)
         \/ recover_claimed_as_unknown
         \/ resolve_unknown_at_broker(i)
         \/ requeue_unknown_absent_at_broker(i, asOf)
  PROVE  StoreTypeOK'
<1>1. CASE mark_submission_unknown(i)
  <2>1. outbox' \in [Intents -> OutboxRow]
    BY <1>1, OutboxUpdate DEF StoreTypeOK, mark_submission_unknown, CommandStatus
  <2>2. status' \in [Intents -> ExecutionStatus \union {"ABSENT"}]
    BY <1>1 DEF StoreTypeOK, mark_submission_unknown, ExecutionStatus
  <2> QED BY <1>1, <2>1, <2>2 DEF StoreTypeOK, mark_submission_unknown
<1>2. CASE mark_delivered(i)
  <2>1. outbox' \in [Intents -> OutboxRow]
    BY <1>2, OutboxUpdate DEF StoreTypeOK, mark_delivered, CommandStatus
  <2>2. status' \in [Intents -> ExecutionStatus \union {"ABSENT"}]
    BY <1>2 DEF StoreTypeOK, mark_delivered, ExecutionStatus
  <2> QED BY <1>2, <2>1, <2>2 DEF StoreTypeOK, mark_delivered
<1>3. CASE recover_claimed_as_unknown
  <2>1. ASSUME NEW j \in Intents
        PROVE  [outbox[j] EXCEPT !.status = "UNKNOWN"] \in OutboxRow /\ outbox[j] \in OutboxRow
    <3>1. outbox[j] \in OutboxRow
      BY DEF StoreTypeOK
    <3> QED BY <3>1 DEF OutboxRow, CommandStatus
  <2>2. outbox' \in [Intents -> OutboxRow]
    BY <1>3, <2>1 DEF recover_claimed_as_unknown
  <2>3. status' \in [Intents -> ExecutionStatus \union {"ABSENT"}]
    BY <1>3 DEF StoreTypeOK, recover_claimed_as_unknown, ExecutionStatus
  <2> QED BY <1>3, <2>2, <2>3 DEF StoreTypeOK, recover_claimed_as_unknown
<1>4. CASE resolve_unknown_at_broker(i)
  <2>1. outbox' \in [Intents -> OutboxRow]
    <3>1. outbox \in [Intents -> OutboxRow] /\ "DELIVERED" \in CommandStatus
      BY DEF StoreTypeOK, CommandStatus
    <3>2. [outbox EXCEPT ![i].status = "DELIVERED"] \in [Intents -> OutboxRow]
      BY <3>1, OutboxUpdate
    <3> QED BY <1>4, <3>1, <3>2 DEF resolve_unknown_at_broker
  <2>2. status' \in [Intents -> ExecutionStatus \union {"ABSENT"}]
    BY <1>4 DEF StoreTypeOK, resolve_unknown_at_broker, ExecutionStatus
  <2> QED BY <1>4, <2>1, <2>2 DEF StoreTypeOK, resolve_unknown_at_broker
<1>5. CASE requeue_unknown_absent_at_broker(i, asOf)
  <2>1. outbox' \in [Intents -> OutboxRow]
    <3>1. outbox \in [Intents -> OutboxRow] /\ "PENDING" \in CommandStatus
      BY DEF StoreTypeOK, CommandStatus
    <3>2. [outbox EXCEPT ![i].status = "PENDING", ![i].claimedAt = -1] \in [Intents -> OutboxRow]
      BY <3>1, OutboxClaim
    <3> QED BY <1>5, <3>1, <3>2 DEF requeue_unknown_absent_at_broker
  <2>2. status' \in [Intents -> ExecutionStatus \union {"ABSENT"}]
    BY <1>5 DEF StoreTypeOK, requeue_unknown_absent_at_broker, ExecutionStatus
  <2> QED BY <1>5, <2>1, <2>2 DEF StoreTypeOK, requeue_unknown_absent_at_broker
<1> QED BY <1>1, <1>2, <1>3, <1>4, <1>5

\* Cancels.
LEMMA CancelTypes ==
  ASSUME StoreTypeOK, NEW i \in Intents, NEW o, NEW t, NEW at,
         \/ request_cancel(i)
         \/ claim_next_cancel(o, t, at, i)
         \/ mark_cancel_unknown(i)
         \/ mark_cancel_delivered(i)
  PROVE  StoreTypeOK'
<1>1. CASE request_cancel(i)
  <2>1. /\ [status |-> "DELIVERED", row |-> rowid + 1] \in CancelRow
        /\ [status |-> "PENDING", row |-> rowid + 1] \in CancelRow
    BY DEF CancelRow, CommandStatus, StoreTypeOK
  <2>2. cancel' \in [Intents -> CancelRow]
    BY <1>1, <2>1 DEF request_cancel, StoreTypeOK
  <2>3. outbox' \in [Intents -> OutboxRow]
    <3>1. outbox \in [Intents -> OutboxRow] /\ "DELIVERED" \in CommandStatus
      BY DEF StoreTypeOK, CommandStatus
    <3>2. [outbox EXCEPT ![i].status = "DELIVERED"] \in [Intents -> OutboxRow]
      BY <3>1, OutboxUpdate
    <3> QED BY <1>1, <3>1, <3>2 DEF request_cancel
  <2>4. reservation_status(filled[i], "CANCELLED") \in ReservationStatus
    BY DEF reservation_status, ReservationStatus
  <2>5. reservation' \in [Intents -> ReservationRow]
    BY <1>1, <2>4, ReservationUpdate DEF request_cancel, StoreTypeOK
  <2>6. status' \in [Intents -> ExecutionStatus \union {"ABSENT"}]
    BY <1>1 DEF request_cancel, StoreTypeOK, ExecutionStatus
  <2>7. rowid' \in Nat
    BY <1>1 DEF request_cancel, StoreTypeOK
  <2> QED BY <1>1, <2>2, <2>3, <2>5, <2>6, <2>7 DEF request_cancel, StoreTypeOK
<1>2. CASE claim_next_cancel(o, t, at, i)
  BY <1>2, CancelUpdate DEF claim_next_cancel, StoreTypeOK, CommandStatus
<1>3. CASE mark_cancel_unknown(i)
  <2>1. cancel' \in [Intents -> CancelRow]
    BY <1>3, CancelUpdate DEF StoreTypeOK, mark_cancel_unknown, CommandStatus
  <2>2. status' \in [Intents -> ExecutionStatus \union {"ABSENT"}]
    BY <1>3 DEF StoreTypeOK, mark_cancel_unknown, ExecutionStatus
  <2> QED BY <1>3, <2>1, <2>2 DEF StoreTypeOK, mark_cancel_unknown
<1>4. CASE mark_cancel_delivered(i)
  BY <1>4, CancelUpdate DEF mark_cancel_delivered, StoreTypeOK, CommandStatus
<1> QED BY <1>1, <1>2, <1>3, <1>4

\* Broker events.
LEMMA IngestTypes ==
  ASSUME StoreTypeOK, NEW id \in Nat, NEW e \in BrokerEvent, ingest_broker_event(id, e)
  PROVE  StoreTypeOK'
<1>1. CASE id \in inbox
  BY <1>1 DEF ingest_broker_event, StoreTypeOK
<1>2. CASE id \notin inbox /\ e.key \in Staged
  <2> DEFINE i == e.key
             total == filled[i] + e.qty
             st == status_for(e.type, total, status[i])
             n == IF total < Qty THEN total ELSE Qty
  <2>1. i \in Intents /\ e.qty \in Nat /\ e.type \in BrokerEventType /\ status[i] \in ExecutionStatus
    BY <1>2, TypesAssumption DEF Staged, BrokerEvent, StoreTypeOK
  <2>2. n \in 0 .. Qty /\ total \in Nat
    BY <2>1, TypesAssumption DEF StoreTypeOK
  <2>3. st \in ExecutionStatus
    BY <2>1, <2>2 DEF status_for, BrokerEventType, ExecutionStatus
  <2>4. reservation_status(n, st) \in ReservationStatus
    BY DEF reservation_status, ReservationStatus
  <2>5. event_cash(e) \in Int
    BY <2>1 DEF event_cash
  <2> HIDE DEF st, n
  <2>6. /\ inbox' = inbox \union {id}
        /\ status' = [status EXCEPT ![i] = st]
        /\ filled' = [filled EXCEPT ![i] = n]
        /\ reservation' = [reservation EXCEPT ![i].status = reservation_status(n, st)]
        /\ cashDelta' = cashDelta + event_cash(e)
        /\ UNCHANGED <<queueVars, gateVars, lease, baseline, openDisc, armVars>>
    BY <1>2 DEF ingest_broker_event, apply_broker_event, st, n
  <2>7. reservation' \in [Intents -> ReservationRow]
    BY <2>1, <2>4, <2>6, ReservationUpdate DEF StoreTypeOK
  <2> QED BY <2>1, <2>2, <2>3, <2>5, <2>6, <2>7 DEF StoreTypeOK
<1>3. CASE id \notin inbox /\ e.key \notin Staged
  BY <1>3 DEF ingest_broker_event, apply_broker_event, open_freeze_ticket, StoreTypeOK, FreezeReason
<1> QED BY <1>1, <1>2, <1>3

\* Reconciliation records.
LEMMA RecordTypes ==
  ASSUME StoreTypeOK,
         \/ \E c \in Int : set_account_baseline(c)
         \/ \E d \in SUBSET Discrepancy : record_discrepancies(d)
  PROVE  StoreTypeOK'
<1>1. ASSUME NEW c \in Int, set_account_baseline(c)
      PROVE  StoreTypeOK'
  <2>1. [set |-> TRUE, cash |-> c, delta |-> cashDelta] \in BaselineRow
    BY DEF BaselineRow, StoreTypeOK
  <2> QED BY <1>1, <2>1 DEF StoreTypeOK, set_account_baseline
<1>2. ASSUME NEW d \in SUBSET Discrepancy, record_discrepancies(d)
      PROVE  StoreTypeOK'
  BY <1>2 DEF StoreTypeOK, record_discrepancies
<1> QED BY <1>1, <1>2

-----------------------------------------------------------------------------
(* The broker.                                                             *)

\* The new log is the old one with events added at its end.
LogGrows ==
    /\ Len(events') >= Len(events)
    /\ \A n \in 1 .. Len(events) : events'[n] = events[n]

\* The state of a new broker.
LEMMA BrokerInitTypes == BrokerInit => BrokerTypeOK
  BY TypesAssumption DEF BrokerInit, BrokerTypeOK, BrokerOrder, OrderStatus, NoOrder

\* An event of the log's type.
LEMMA EvType ==
  ASSUME NEW k \in Keys, NEW type \in BrokerEventType, NEW n \in 0 .. Qty
  PROVE  ev(k, type, n) \in BrokerEvent
  BY DEF ev, BrokerEvent

\* Appending one event.
LEMMA AppendOne ==
  ASSUME NEW s \in Seq(BrokerEvent), NEW e \in BrokerEvent
  PROVE  /\ Append(s, e) \in Seq(BrokerEvent)
         /\ Len(Append(s, e)) = Len(s) + 1
         /\ \A n \in 1 .. Len(s) : Append(s, e)[n] = s[n]
  OBVIOUS

\* A fill of at most the remaining quantity keeps the order's type.
LEMMA FilledOrderType ==
  ASSUME NEW o \in BrokerOrder, NEW n \in Nat, o.filled + n <= Qty
  PROVE  filled_order(o, n) \in BrokerOrder
<1>1. o.filled + n \in 0 .. Qty
  BY TypesAssumption DEF BrokerOrder
<1> QED BY <1>1 DEF filled_order, BrokerOrder, OrderStatus

\* _fill never fills more than what remains.
LEMMA FillAmount ==
  ASSUME NEW o \in BrokerOrder, NEW n \in Nat
  PROVE  fill_amount(o, n) \in 0 .. Qty /\ o.filled + fill_amount(o, n) <= Qty
<1>1. o.filled \in 0 .. Qty
  BY DEF BrokerOrder
<1> QED BY <1>1, TypesAssumption DEF fill_amount

\* The event _fill emits.
LEMMA FillEventType ==
  ASSUME NEW k \in Keys, NEW o, NEW n \in 0 .. Qty
  PROVE  fill_event(k, o, n) \in BrokerEvent
  BY EvType DEF fill_event, BrokerEventType

\* max(1, quantity // 2) is a quantity an order can take.
LEMMA PartialQuantity == partial_quantity \in 1 .. Qty
  BY TypesAssumption DEF partial_quantity

\* advance_fence.
LEMMA AdvanceFenceTypes ==
  ASSUME BrokerTypeOK, NEW t \in Nat, advance_fence(t)
  PROVE  BrokerTypeOK' /\ LogGrows
  BY DEF BrokerTypeOK, advance_fence, accept_fencing_token, LogGrows

\* submit, of a key the broker has or of a new one.
LEMMA SubmitTypes ==
  ASSUME BrokerTypeOK, NEW k \in Keys, NEW t \in Nat,
         \/ submit_known(k, t)
         \/ \E sc \in SubmitScenario : submit_new(k, t, sc)
  PROVE  BrokerTypeOK' /\ LogGrows
<1>1. CASE submit_known(k, t)
  BY <1>1 DEF submit_known, BrokerTypeOK, accept_fencing_token, LogGrows
<1>2. ASSUME NEW sc \in SubmitScenario, submit_new(k, t, sc)
      PROVE  BrokerTypeOK' /\ LogGrows
  <2> DEFINE o == [status |-> "ACCEPTED", filled |-> 0, protected |-> sc # "MISSING_PROTECTION"]
  <2>1. o \in BrokerOrder /\ [o EXCEPT !.status = "REJECTED"] \in BrokerOrder /\ o.filled = 0
    <3>1. (sc # "MISSING_PROTECTION") \in BOOLEAN
      OBVIOUS
    <3>2. o.status = "ACCEPTED" /\ o.filled = 0 /\ o.protected \in BOOLEAN
      BY <3>1
    <3>3. o \in BrokerOrder
      BY <3>1, TypesAssumption DEF BrokerOrder, OrderStatus
    <3> QED BY <3>2, <3>3 DEF BrokerOrder, OrderStatus
  <2>2. /\ ev(k, "REJECTED", 0) \in BrokerEvent
        /\ ev(k, "ACKNOWLEDGED", 0) \in BrokerEvent
    BY EvType, TypesAssumption DEF BrokerEventType
  <2>3. filled_order(o, partial_quantity) \in BrokerOrder
    BY <2>1, PartialQuantity, FilledOrderType, TypesAssumption
  <2>4. fill_event(k, o, partial_quantity) \in BrokerEvent
    BY PartialQuantity, FillEventType, TypesAssumption
  <2>5. fence' \in Nat
    BY <1>2 DEF submit_new, accept_fencing_token
  <2> HIDE DEF o
  <2>6. CASE sc = "REJECT"
    <3>1. /\ orders' = [orders EXCEPT ![k] = [o EXCEPT !.status = "REJECTED"]]
          /\ events' = Append(events, ev(k, "REJECTED", 0))
          /\ cash' = cash
      BY <1>2, <2>6 DEF submit_new, o
    <3> QED BY <2>1, <2>2, <2>5, <3>1, AppendOne DEF BrokerTypeOK, LogGrows
  <2>7. CASE sc = "PARTIAL_FILL"
    <3>1. /\ orders' = [orders EXCEPT ![k] = filled_order(o, partial_quantity)]
          /\ events' = Append(Append(events, ev(k, "ACKNOWLEDGED", 0)),
                              fill_event(k, o, partial_quantity))
          /\ cash' = cash - partial_quantity
      BY <1>2, <2>7 DEF submit_new, o
    <3>2. orders' \in [Keys -> BrokerOrder] /\ cash' \in Int
      BY <2>3, <3>1, PartialQuantity, TypesAssumption DEF BrokerTypeOK
    <3>3. /\ Append(events, ev(k, "ACKNOWLEDGED", 0)) \in Seq(BrokerEvent)
          /\ Len(Append(events, ev(k, "ACKNOWLEDGED", 0))) = Len(events) + 1
          /\ \A n \in 1 .. Len(events) : Append(events, ev(k, "ACKNOWLEDGED", 0))[n] = events[n]
      BY <2>2, AppendOne DEF BrokerTypeOK
    <3>4. /\ events' \in Seq(BrokerEvent)
          /\ Len(events') = Len(events) + 2
          /\ \A n \in 1 .. Len(events) + 1 :
                events'[n] = Append(events, ev(k, "ACKNOWLEDGED", 0))[n]
      <4>1. PICK s \in Seq(BrokerEvent) : s = Append(events, ev(k, "ACKNOWLEDGED", 0))
        BY <3>3
      <4>2. PICK e \in BrokerEvent : e = fill_event(k, o, partial_quantity)
        BY <2>4
      <4>3. events' = Append(s, e) /\ Len(s) = Len(events) + 1
        BY <3>1, <3>3, <4>1, <4>2
      <4> QED BY <4>1, <4>3, AppendOne DEF BrokerTypeOK
    <3>5. LogGrows
      BY <3>3, <3>4 DEF LogGrows, BrokerTypeOK
    <3> QED BY <2>5, <3>2, <3>4, <3>5 DEF BrokerTypeOK
  <2>8. CASE sc \notin {"REJECT", "PARTIAL_FILL"}
    <3>1. /\ orders' = [orders EXCEPT ![k] = o]
          /\ events' = Append(events, ev(k, "ACKNOWLEDGED", 0))
          /\ cash' = cash
      BY <1>2, <2>8 DEF submit_new, o
    <3> QED BY <2>1, <2>2, <2>5, <3>1, AppendOne DEF BrokerTypeOK, LogGrows
  <2> QED BY <2>6, <2>7, <2>8
<1> QED BY <1>1, <1>2

\* fill.
LEMMA FillTypes ==
  ASSUME BrokerTypeOK, NEW k \in Keys, NEW n \in Nat, fill(k, n)
  PROVE  BrokerTypeOK' /\ LogGrows
<1> DEFINE m == fill_amount(orders[k], n)
<1>1. orders[k] \in BrokerOrder
  BY DEF BrokerTypeOK
<1>2. m \in 0 .. Qty /\ orders[k].filled + m <= Qty /\ m \in Nat
  BY <1>1, FillAmount, TypesAssumption
<1>3. /\ orders' = [orders EXCEPT ![k] = filled_order(orders[k], m)]
      /\ events' = Append(events, fill_event(k, orders[k], m))
      /\ cash' = cash - m
      /\ fence' = fence
  BY DEF fill
<1> HIDE DEF m
<1>4. filled_order(orders[k], m) \in BrokerOrder /\ fill_event(k, orders[k], m) \in BrokerEvent
  BY <1>1, <1>2, FilledOrderType, FillEventType
<1> QED BY <1>2, <1>3, <1>4, AppendOne, TypesAssumption DEF BrokerTypeOK, LogGrows

\* cancel without a fill that slips in first.
LEMMA CancelOrderTypes ==
  ASSUME BrokerTypeOK, NEW k \in Keys, NEW t \in Nat, cancel_order(k, t, 0)
  PROVE  BrokerTypeOK' /\ LogGrows
<1>1. orders[k] \in BrokerOrder
  BY DEF BrokerTypeOK
<1>2. [orders[k] EXCEPT !.status = "CANCELLED"] \in BrokerOrder
  BY <1>1 DEF BrokerOrder, OrderStatus
<1>3. ev(k, "CANCELLED", 0) \in BrokerEvent
  BY EvType, TypesAssumption DEF BrokerEventType
<1>4. fence' \in Nat /\ cash' = cash - 0
  BY DEF cancel_order, accept_fencing_token
<1>5. CASE orders[k].filled < Qty
  <2>1. /\ orders' = [orders EXCEPT ![k] = [orders[k] EXCEPT !.status = "CANCELLED"]]
        /\ events' = Append(events, ev(k, "CANCELLED", 0))
    BY <1>5 DEF cancel_order
  <2> QED BY <1>2, <1>3, <1>4, <2>1, AppendOne DEF BrokerTypeOK, LogGrows
<1>6. CASE ~(orders[k].filled < Qty)
  <2>1. orders' = [orders EXCEPT ![k] = orders[k]] /\ events' = events
    BY <1>6 DEF cancel_order
  <2> QED BY <1>1, <1>4, <2>1 DEF BrokerTypeOK, LogGrows
<1> QED BY <1>5, <1>6

\* commission, and an order placed behind the control plane's back.
LEMMA OtherBrokerTypes ==
  ASSUME BrokerTypeOK, NEW k \in Keys,
         commission(k) \/ inject_broker_only_order(k)
  PROVE  BrokerTypeOK' /\ LogGrows
<1>1. CASE commission(k)
  <2>1. ev(k, "COMMISSION", 0) \in BrokerEvent
    BY EvType, TypesAssumption DEF BrokerEventType
  <2> QED BY <1>1, <2>1, AppendOne DEF commission, BrokerTypeOK, LogGrows
<1>2. CASE inject_broker_only_order(k)
  <2>1. [status |-> "ACCEPTED", filled |-> 0, protected |-> FALSE] \in BrokerOrder
    BY TypesAssumption DEF BrokerOrder, OrderStatus
  <2> QED BY <1>2, <2>1 DEF inject_broker_only_order, BrokerTypeOK, LogGrows
<1> QED BY <1>1, <1>2

-----------------------------------------------------------------------------
(* What a process relies on.                                               *)

\* The steps at which a worker has a command in hand.
WorkStep == {"validate", "submit", "cancel", "unknown", "apply_copy", "apply", "deliver"}

\* What a process r relies on while the broker's log has len events.
ProcOK(r, len) ==
    /\ r.seen <= len
    /\ r.pc = "ingest" => r.next \in 1 .. r.seen
    /\ r.answer \subseteq 1 .. len
    /\ r.pc \in WorkStep => r.work \in Intents

\* The inductive invariant.
TypeInv ==
    /\ TypeOK
    /\ \A p \in Procs : ProcOK(proc[p], Len(events))

USE DEF intentVars, queueVars, gateVars, econVars, armVars, storeVars, brokerVars

-----------------------------------------------------------------------------
(* Processes.                                                              *)

LEMMA IdleOK == Idle \in ProcState /\ \A len \in Nat : ProcOK(Idle, len)
<1>1. NoOrder \in BrokerOrder
  BY TypesAssumption DEF NoOrder, BrokerOrder, OrderStatus
<1>2. [k \in Keys |-> NoOrder] \in [Keys -> BrokerOrder]
  BY <1>1
<1>3. [i \in Intents |-> "ABSENT"] \in [Intents -> ExecutionStatus \union {"ABSENT"}]
  OBVIOUS
<1>4. "idle" \in ProcStep /\ "none" \in ProcKind
  BY DEF ProcStep, ProcKind
<1> QED BY <1>2, <1>3, <1>4 DEF Idle, ProcState, ProcOK, WorkStep

\* What a process relies on stays true when the log grows.
LEMMA ProcOKGrows ==
  ASSUME NEW r \in ProcState, NEW a \in Nat, NEW b \in Nat, a <= b, ProcOK(r, a)
  PROVE  ProcOK(r, b)
  BY DEF ProcOK, ProcState

\* One process moves and the others stay.
LEMMA OneProcMoves ==
  ASSUME TypeInv, BrokerTypeOK', LogGrows, NEW p \in Procs, NEW r \in ProcState,
         proc' = [proc EXCEPT ![p] = r], ProcOK(r, Len(events'))
  PROVE  /\ proc' \in [Procs -> ProcState]
         /\ \A q \in Procs : ProcOK(proc'[q], Len(events'))
<1>1. proc' \in [Procs -> ProcState]
  BY DEF TypeInv, TypeOK
<1>2. ASSUME NEW q \in Procs PROVE ProcOK(proc'[q], Len(events'))
  <2>1. CASE q = p
    BY <2>1 DEF TypeInv, TypeOK
  <2>2. CASE q # p
    <3>1. proc'[q] = proc[q] /\ proc[q] \in ProcState /\ ProcOK(proc[q], Len(events))
      BY <2>2 DEF TypeInv, TypeOK
    <3>2. Len(events) \in Nat /\ Len(events') \in Nat /\ Len(events) <= Len(events')
      BY DEF TypeInv, TypeOK, BrokerTypeOK, LogGrows
    <3> QED BY <3>1, <3>2, ProcOKGrows
  <2> QED BY <2>1, <2>2
<1> QED BY <1>1, <1>2

\* The invariant after a step of process p that leaves the broker alone.
LEMMA StoreStep ==
  ASSUME TypeInv, StoreTypeOK', UNCHANGED <<brokerVars, now, crashes>>,
         NEW p \in Procs, NEW r \in ProcState,
         proc' = [proc EXCEPT ![p] = r], ProcOK(r, Len(events))
  PROVE  TypeInv'
<1>1. BrokerTypeOK' /\ LogGrows /\ Len(events') = Len(events)
  BY DEF TypeInv, TypeOK, BrokerTypeOK, LogGrows
<1>2. ProcOK(r, Len(events'))
  BY <1>1
<1>3. /\ proc' \in [Procs -> ProcState]
      /\ \A q \in Procs : ProcOK(proc'[q], Len(events'))
  BY <1>1, <1>2, OneProcMoves
<1> QED BY <1>1, <1>3 DEF TypeInv, TypeOK

\* The invariant after a step of process p that leaves the control store alone.
LEMMA BrokerStep ==
  ASSUME TypeInv, BrokerTypeOK', LogGrows, UNCHANGED <<storeVars, now, crashes>>,
         NEW p \in Procs, NEW r \in ProcState,
         proc' = [proc EXCEPT ![p] = r], ProcOK(r, Len(events'))
  PROVE  TypeInv'
<1>1. /\ proc' \in [Procs -> ProcState]
      /\ \A q \in Procs : ProcOK(proc'[q], Len(events'))
  BY OneProcMoves
<1>2. StoreTypeOK'
  BY DEF TypeInv, TypeOK, StoreTypeOK
<1> QED BY <1>1, <1>2 DEF TypeInv, TypeOK

\* The invariant after a step in which no process moves.
LEMMA EnvStep ==
  ASSUME TypeInv, StoreTypeOK', BrokerTypeOK', LogGrows, proc' = proc,
         now' \in Nat, crashes' \in Nat
  PROVE  TypeInv'
<1>1. Len(events) \in Nat /\ Len(events') \in Nat /\ Len(events) <= Len(events')
  BY DEF TypeInv, TypeOK, BrokerTypeOK, LogGrows
<1>2. ASSUME NEW q \in Procs PROVE ProcOK(proc'[q], Len(events'))
  <2>1. proc[q] \in ProcState /\ ProcOK(proc[q], Len(events))
    BY DEF TypeInv, TypeOK
  <2> QED BY <1>1, <2>1, ProcOKGrows
<1> QED BY <1>2 DEF TypeInv, TypeOK

\* What an unchanged store or broker still satisfies.
LEMMA StoreStays == ASSUME TypeInv, UNCHANGED storeVars PROVE StoreTypeOK'
  BY DEF TypeInv, TypeOK, StoreTypeOK

LEMMA BrokerStays == ASSUME TypeInv, UNCHANGED brokerVars PROVE BrokerTypeOK' /\ LogGrows
  BY DEF TypeInv, TypeOK, BrokerTypeOK, LogGrows

\* A process that only moves its program counter, to a step without obligations.
LEMMA GotoOK ==
  ASSUME TypeInv, NEW p \in Procs, NEW s \in ProcStep \ {"ingest"},
         s \in WorkStep => proc[p].work \in Intents, goto(p, s)
  PROVE  \E r \in ProcState : proc' = [proc EXCEPT ![p] = r] /\ ProcOK(r, Len(events))
<1> DEFINE r == [proc[p] EXCEPT !.pc = s]
<1>1. proc[p] \in ProcState /\ ProcOK(proc[p], Len(events))
  BY DEF TypeInv, TypeOK
<1>2. r \in ProcState
  BY <1>1 DEF ProcState
<1>3. ProcOK(r, Len(events))
  BY <1>1 DEF ProcOK, ProcState
<1>4. proc' = [proc EXCEPT ![p] = r]
  BY DEF goto, TypeInv, TypeOK
<1> QED BY <1>2, <1>3, <1>4

\* A process that ends.
LEMMA ExitOK ==
  ASSUME TypeInv, NEW p \in Procs, exit(p)
  PROVE  \E r \in ProcState : proc' = [proc EXCEPT ![p] = r] /\ ProcOK(r, Len(events))
<1>1. Len(events) \in Nat
  BY DEF TypeInv, TypeOK, BrokerTypeOK
<1>2. proc' = [proc EXCEPT ![p] = Idle]
  BY DEF exit
<1> QED BY <1>1, <1>2, IdleOK

\* A process in the type invariant, and its step.
LEMMA ProcFacts ==
  ASSUME TypeInv, NEW p \in Procs
  PROVE  /\ proc[p] \in ProcState
         /\ ProcOK(proc[p], Len(events))
         /\ Len(events) \in Nat
         /\ StoreTypeOK
         /\ BrokerTypeOK
         /\ proc \in [Procs -> ProcState]
  BY DEF TypeInv, TypeOK, BrokerTypeOK

-----------------------------------------------------------------------------
(* The steps of the reconciler.                                            *)

\* A command starts.
LEMMA StartStep ==
  ASSUME TypeInv, NEW p \in Procs, NEW kind \in Kinds, NEW owner \in Owners, start(p, kind, owner)
  PROVE  TypeInv'
<1>1. StoreTypeOK'
  BY FreezeTypes DEF start, TypeInv, TypeOK
<1>2. PICK s \in {"lease", "arm", "snapshot"} :
        proc' = [proc EXCEPT ![p] = [Idle EXCEPT !.pc = s, !.kind = kind, !.owner = owner, !.at = now]]
  <2>1. CASE kind = "cancel"
    BY <2>1 DEF start
  <2>2. CASE kind = "arm"
    BY <2>2 DEF start
  <2>3. CASE kind # "cancel" /\ kind # "arm"
    BY <2>3 DEF start
  <2> QED BY <2>1, <2>2, <2>3
<1> DEFINE r == [Idle EXCEPT !.pc = s, !.kind = kind, !.owner = owner, !.at = now]
<1>3. r \in ProcState
  <2>1. s \in ProcStep /\ kind \in ProcKind /\ now \in Nat
    BY PlaneAssumption DEF ProcStep, ReconcilerStep, ProcKind, TypeInv, TypeOK
  <2> QED BY <2>1, IdleOK DEF ProcState
<1>4. ProcOK(r, Len(events))
  <2>1. Idle \in ProcState /\ ProcOK(Idle, Len(events))
    BY IdleOK, ProcFacts
  <2>2. s \notin WorkStep /\ s # "ingest"
    BY DEF WorkStep
  <2> QED BY <2>1, <2>2 DEF ProcOK, ProcState
<1>5. UNCHANGED <<brokerVars, now, crashes>>
  BY DEF start
<1> QED BY <1>1, <1>2, <1>3, <1>4, <1>5, StoreStep

\* The queries of a snapshot write nothing but the process's own copy.
LEMMA SnapshotFrame ==
  ASSUME NEW p \in Procs, snapshot(p)
  PROVE  UNCHANGED <<storeVars, brokerVars, now, crashes>>
BY DEF snapshot, snapshot_cash, snapshot_orders, snapshot_positions, snapshot_protections,
   snapshot_events, snapshot_children

\* snapshot, one case per query.
LEMMA SnapshotSteps ==
  ASSUME TypeInv, NEW p \in Procs, snapshot(p)
  PROVE  TypeInv'
<1>0. /\ proc[p] \in ProcState /\ orders \in [Keys -> BrokerOrder]
      /\ cash \in Int /\ Len(events) \in Nat
  BY ProcFacts DEF BrokerTypeOK
<1>1. StoreTypeOK' /\ UNCHANGED <<brokerVars, now, crashes>>
  BY SnapshotFrame, StoreStays
<1>2. CASE snapshot_cash(p)
  <2> DEFINE r == [proc[p] EXCEPT !.pc = "snapshot_orders", !.cash = cash]
  <2>1. r \in ProcState
    BY <1>0 DEF ProcState, ProcStep, ReconcilerStep
  <2>2. ProcOK(r, Len(events))
    BY <1>0, ProcFacts DEF ProcOK, ProcState, WorkStep
  <2>3. proc' = [proc EXCEPT ![p] = r]
    BY <1>2, <1>0, ProcFacts DEF snapshot_cash, ProcState
  <2> QED BY <2>1, <2>2, <2>3, <1>1, StoreStep
<1>3. CASE snapshot_orders(p)
  <2> DEFINE r == [proc[p] EXCEPT !.pc = "snapshot_positions", !.orders = orders]
  <2>1. r \in ProcState
    BY <1>0 DEF ProcState, ProcStep, ReconcilerStep
  <2>2. ProcOK(r, Len(events))
    BY <1>0, ProcFacts DEF ProcOK, ProcState, WorkStep
  <2>3. proc' = [proc EXCEPT ![p] = r]
    BY <1>3, <1>0, ProcFacts DEF snapshot_orders, ProcState
  <2> QED BY <2>1, <2>2, <2>3, <1>1, StoreStep
<1>4. CASE snapshot_positions(p)
  <2> DEFINE r == [proc[p] EXCEPT !.pc = "snapshot_protections", !.positions = orders]
  <2>1. r \in ProcState
    BY <1>0 DEF ProcState, ProcStep, ReconcilerStep
  <2>2. ProcOK(r, Len(events))
    BY <1>0, ProcFacts DEF ProcOK, ProcState, WorkStep
  <2>3. proc' = [proc EXCEPT ![p] = r]
    BY <1>4, <1>0, ProcFacts DEF snapshot_positions, ProcState
  <2> QED BY <2>1, <2>2, <2>3, <1>1, StoreStep
<1>5. CASE snapshot_protections(p)
  <2> DEFINE r == [proc[p] EXCEPT !.pc = "snapshot_events", !.protections = orders]
  <2>1. r \in ProcState
    BY <1>0 DEF ProcState, ProcStep, ReconcilerStep
  <2>2. ProcOK(r, Len(events))
    BY <1>0, ProcFacts DEF ProcOK, ProcState, WorkStep
  <2>3. proc' = [proc EXCEPT ![p] = r]
    BY <1>5, <1>0, ProcFacts DEF snapshot_protections, ProcState
  <2> QED BY <2>1, <2>2, <2>3, <1>1, StoreStep
<1>6. CASE snapshot_events(p)
  <2> DEFINE r == [proc[p] EXCEPT !.pc = "snapshot_children", !.seen = Len(events)]
  <2>1. r \in ProcState
    BY <1>0 DEF ProcState, ProcStep, ReconcilerStep
  <2>2. ProcOK(r, Len(events))
    BY <1>0, ProcFacts DEF ProcOK, ProcState, WorkStep
  <2>3. proc' = [proc EXCEPT ![p] = r]
    BY <1>6, <1>0, ProcFacts DEF snapshot_events, ProcState
  <2> QED BY <2>1, <2>2, <2>3, <1>1, StoreStep
<1>7. CASE snapshot_children(p)
  <2> DEFINE r == [proc[p] EXCEPT !.pc = "in_progress", !.children = orders]
  <2>1. r \in ProcState
    BY <1>0 DEF ProcState, ProcStep, ReconcilerStep
  <2>2. ProcOK(r, Len(events))
    BY <1>0, ProcFacts DEF ProcOK, ProcState, WorkStep
  <2>3. proc' = [proc EXCEPT ![p] = r]
    BY <1>7, <1>0, ProcFacts DEF snapshot_children, ProcState
  <2> QED BY <2>1, <2>2, <2>3, <1>1, StoreStep
<1> QED BY <1>2, <1>3, <1>4, <1>5, <1>6, <1>7 DEF snapshot

\* The ticket, the recovery of claimed commands, the record and its end.
LEMMA GotoSteps ==
  ASSUME TypeInv, NEW p \in Procs,
         \/ reconcile_begin(p)
         \/ reconcile_recover(p)
         \/ reconcile_record(p)
  PROVE  TypeInv'
<1>1. StoreTypeOK'
  <2>1. CASE reconcile_begin(p)
    BY <2>1, FreezeTypes, ProcFacts DEF reconcile_begin, FreezeReason
  <2>2. CASE reconcile_recover(p)
    <3>1. recover_claimed_as_unknown
      BY <2>2 DEF reconcile_recover
    <3>2. CASE Intents = {}
      BY <3>1, <3>2, ProcFacts DEF recover_claimed_as_unknown, StoreTypeOK
    <3>3. CASE Intents # {}
      BY <3>1, <3>3, OutboxTypes, ProcFacts
    <3> QED BY <3>2, <3>3
  <2>3. CASE reconcile_record(p)
    <3>1. proc[p].disc \in SUBSET Discrepancy
      BY ProcFacts DEF ProcState
    <3> QED BY <2>3, <3>1, RecordTypes, ProcFacts DEF reconcile_record
  <2> QED BY <2>1, <2>2, <2>3
<1>2. PICK s \in {"recover", "read_local", "conclude"} : goto(p, s)
  BY DEF reconcile_begin, reconcile_recover, reconcile_record
<1>3. s \in ProcStep \ {"ingest"} /\ s \notin WorkStep
  BY DEF ProcStep, ReconcilerStep, WorkStep
<1>4. PICK r \in ProcState : proc' = [proc EXCEPT ![p] = r] /\ ProcOK(r, Len(events))
  BY <1>2, <1>3, GotoOK
<1>5. UNCHANGED <<brokerVars, now, crashes>>
  BY DEF reconcile_begin, reconcile_recover, reconcile_record
<1> QED BY <1>1, <1>4, <1>5, StoreStep

\* Reading the local statuses.
LEMMA ReadLocalStep ==
  ASSUME TypeInv, NEW p \in Procs, reconcile_read_local(p)
  PROVE  TypeInv'
<1> DEFINE s == IF proc[p].seen = 0 THEN "resolve" ELSE "ingest"
           r == [proc[p] EXCEPT !.local = status, !.next = 1, !.pc = s, !.left = broker_keys(p)]
<1>1. s \in ProcStep /\ broker_keys(p) \in SUBSET Keys
  BY DEF ProcStep, ReconcilerStep, broker_keys
<1>2. s \notin WorkStep /\ (s = "ingest" => proc[p].seen # 0)
  BY DEF WorkStep
<1>3. proc' = [proc EXCEPT ![p] = r]
  BY ProcFacts DEF reconcile_read_local, ProcState
<1> HIDE DEF s
<1>4. r \in ProcState
  <2>1. proc[p] \in ProcState /\ status \in [Intents -> ExecutionStatus \union {"ABSENT"}]
    BY ProcFacts DEF StoreTypeOK
  <2> QED BY <1>1, <2>1 DEF ProcState
<1>5. ProcOK(r, Len(events))
  BY <1>2, ProcFacts DEF ProcOK, ProcState
<1>6. StoreTypeOK' /\ UNCHANGED <<brokerVars, now, crashes>>
  BY StoreStays DEF reconcile_read_local
<1> QED BY <1>3, <1>4, <1>5, <1>6, StoreStep

\* Ingesting the next event of the snapshot.
LEMMA IngestStep ==
  ASSUME TypeInv, NEW p \in Procs, reconcile_ingest(p)
  PROVE  TypeInv'
<1> DEFINE n == proc[p].next
           s == IF n = proc[p].seen THEN "resolve" ELSE "ingest"
           r == [proc[p] EXCEPT !.next = n + 1, !.pc = s]
<1>1. n \in 1 .. proc[p].seen /\ proc[p].seen <= Len(events) /\ n \in Nat /\ proc[p].seen \in Nat
  BY ProcFacts DEF reconcile_ingest, at_step, ProcOK, ProcState
<1>2. events[n] \in BrokerEvent
  BY <1>1, ProcFacts DEF BrokerTypeOK
<1>3. StoreTypeOK'
  <2>1. ingest_broker_event(n, events[n]) \/ UNCHANGED storeVars
    BY DEF reconcile_ingest
  <2> QED BY <1>1, <1>2, <2>1, IngestTypes, StoreStays, ProcFacts
<1>4. s \in ProcStep /\ s \notin WorkStep /\ (s = "ingest" => n # proc[p].seen)
  BY DEF ProcStep, ReconcilerStep, WorkStep
<1>5. proc' = [proc EXCEPT ![p] = r]
  BY ProcFacts DEF reconcile_ingest, ProcState
<1> HIDE DEF s
<1>6. r \in ProcState
  <2>1. proc[p] \in ProcState /\ n + 1 \in Nat
    BY <1>1, ProcFacts
  <2> QED BY <1>4, <2>1 DEF ProcState
<1>7. ProcOK(r, Len(events))
  BY <1>1, <1>4, ProcFacts DEF ProcOK, ProcState
<1>8. UNCHANGED <<brokerVars, now, crashes>>
  BY DEF reconcile_ingest
<1> QED BY <1>3, <1>5, <1>6, <1>7, <1>8, StoreStep

\* One order of the snapshot.
LEMMA ResolveStep ==
  ASSUME TypeInv, NEW p \in Procs, NEW k \in Keys, reconcile_resolve(p, k)
  PROVE  TypeInv'
<1>1. proc[p] \in ProcState
  BY ProcFacts
<1>2. PICK d \in SUBSET Discrepancy :
        proc' = [proc EXCEPT ![p].left = @ \ {k}, ![p].disc = d]
  <2>1. /\ proc[p].disc \in SUBSET Discrepancy
        /\ proc[p].disc \union {<<"FILL_QUANTITY_MISMATCH", k>>} \in SUBSET Discrepancy
        /\ proc[p].disc \union {<<"BROKER_ONLY_ORDER", k>>} \in SUBSET Discrepancy
    BY <1>1 DEF ProcState, Discrepancy, DiscrepancyKind
  <2>2. CASE k \in local_keys(p) /\ filled[k] # proc[p].orders[k].filled
    BY <1>1, <2>1, <2>2, ProcFacts DEF reconcile_resolve, ProcState
  <2>3. CASE k \in local_keys(p) /\ filled[k] = proc[p].orders[k].filled
    BY <1>1, <2>1, <2>3, ProcFacts DEF reconcile_resolve, ProcState
  <2>4. CASE k \notin local_keys(p)
    BY <1>1, <2>1, <2>4, ProcFacts DEF reconcile_resolve, ProcState
  <2> QED BY <2>2, <2>3, <2>4
<1> DEFINE r == [proc[p] EXCEPT !.left = @ \ {k}, !.disc = d]
<1>3. r \in ProcState
  BY <1>1 DEF ProcState
<1>4. ProcOK(r, Len(events))
  BY <1>1, ProcFacts DEF ProcOK, ProcState
<1>5. proc' = [proc EXCEPT ![p] = r]
  BY <1>1, <1>2, ProcFacts DEF ProcState
<1>6. StoreTypeOK'
  <2>1. CASE k \in local_keys(p)
    <3>1. k \in Intents /\ resolve_unknown_at_broker(k)
      BY <2>1 DEF local_keys, reconcile_resolve
    <3> QED BY <3>1, OutboxTypes, ProcFacts
  <2>2. CASE k \notin local_keys(p)
    BY <2>2, StoreStays DEF reconcile_resolve
  <2> QED BY <2>1, <2>2
<1>7. UNCHANGED <<brokerVars, now, crashes>>
  BY DEF reconcile_resolve
<1> QED BY <1>3, <1>4, <1>5, <1>6, <1>7, StoreStep

\* The loop over the absent intents begins.
LEMMA ResolvedStep ==
  ASSUME TypeInv, NEW p \in Procs, reconcile_resolved(p)
  PROVE  TypeInv'
<1> DEFINE left == local_keys(p) \ broker_keys(p)
           r == [proc[p] EXCEPT !.pc = "absent", !.left = left]
<1>1. proc[p] \in ProcState /\ left \in SUBSET Keys /\ "absent" \in ProcStep /\ "absent" \notin WorkStep
  BY ProcFacts DEF local_keys, Keys, ProcStep, ReconcilerStep, WorkStep
<1>2. proc' = [proc EXCEPT ![p] = r]
  BY <1>1, ProcFacts DEF reconcile_resolved, ProcState
<1> HIDE DEF left
<1>3. r \in ProcState
  BY <1>1 DEF ProcState
<1>4. ProcOK(r, Len(events))
  BY <1>1, ProcFacts DEF ProcOK, ProcState
<1>5. StoreTypeOK' /\ UNCHANGED <<brokerVars, now, crashes>>
  BY StoreStays DEF reconcile_resolved
<1> QED BY <1>2, <1>3, <1>4, <1>5, StoreStep

\* One local intent the snapshot does not have.
LEMMA AbsentStep ==
  ASSUME TypeInv, NEW p \in Procs, NEW i \in Intents, reconcile_absent(p, i)
  PROVE  TypeInv'
<1>1. proc[p] \in ProcState /\ proc[p].at \in Nat
  BY ProcFacts DEF ProcState
<1>2. UNCHANGED <<brokerVars, now, crashes>>
  BY DEF reconcile_absent
<1>3. CASE exit(p) /\ UNCHANGED storeVars
  BY <1>2, <1>3, ExitOK, StoreStays, StoreStep
<1>4. ASSUME NEW d \in SUBSET Discrepancy, StoreTypeOK',
             proc' = [proc EXCEPT ![p].left = @ \ {i}, ![p].disc = d]
      PROVE  TypeInv'
  <2> DEFINE r == [proc[p] EXCEPT !.left = @ \ {i}, !.disc = d]
  <2>1. r \in ProcState
    BY <1>1 DEF ProcState
  <2>2. ProcOK(r, Len(events))
    BY <1>1, ProcFacts DEF ProcOK, ProcState
  <2>3. proc' = [proc EXCEPT ![p] = r]
    BY <1>1, <1>4, ProcFacts DEF ProcState
  <2> QED BY <1>2, <1>4, <2>1, <2>2, <2>3, StoreStep
<1>5. CASE /\ requeue_unknown_absent_at_broker(i, proc[p].at)
           /\ proc' = [proc EXCEPT ![p].left = @ \ {i}]
  <2> DEFINE r == [proc[p] EXCEPT !.left = @ \ {i}]
  <2>1. r \in ProcState
    BY <1>1 DEF ProcState
  <2>2. ProcOK(r, Len(events))
    BY <1>1, ProcFacts DEF ProcOK, ProcState
  <2>3. proc' = [proc EXCEPT ![p] = r]
    BY <1>1, <1>5, ProcFacts DEF ProcState
  <2>4. StoreTypeOK'
    BY <1>1, <1>5, OutboxTypes, ProcFacts
  <2> QED BY <1>2, <2>1, <2>2, <2>3, <2>4, StoreStep
<1>6. CASE /\ UNCHANGED storeVars
           /\ proc' = [proc EXCEPT
                         ![p].left = @ \ {i},
                         ![p].disc =
                           IF proc[p].local[i] \in {"SUBMITTING", "ACKNOWLEDGED", "PARTIALLY_FILLED"}
                           THEN @ \union {<<"LOCAL_ORDER_MISSING_AT_BROKER", i>>} ELSE @]
  <2>1. /\ proc[p].disc \in SUBSET Discrepancy
        /\ proc[p].disc \union {<<"LOCAL_ORDER_MISSING_AT_BROKER", i>>} \in SUBSET Discrepancy
    BY <1>1 DEF ProcState, Discrepancy, DiscrepancyKind, Keys
  <2>2. \E d \in SUBSET Discrepancy : proc' = [proc EXCEPT ![p].left = @ \ {i}, ![p].disc = d]
    <3>1. CASE proc[p].local[i] \in {"SUBMITTING", "ACKNOWLEDGED", "PARTIALLY_FILLED"}
      BY <1>1, <1>6, <2>1, <3>1, ProcFacts DEF ProcState
    <3>2. CASE proc[p].local[i] \notin {"SUBMITTING", "ACKNOWLEDGED", "PARTIALLY_FILLED"}
      BY <1>1, <1>6, <2>1, <3>2, ProcFacts DEF ProcState
    <3> QED BY <3>1, <3>2
  <2>3. StoreTypeOK'
    BY <1>6, StoreStays
  <2> QED BY <1>4, <2>2, <2>3
<1> QED BY <1>3, <1>5, <1>6 DEF reconcile_absent

\* A reconciler notes discrepancies and goes on.
LEMMA NoteDiscrepancies ==
  ASSUME TypeInv, NEW p \in Procs, NEW s \in {"protection", "cash", "record"},
         NEW new \in SUBSET Discrepancy,
         proc' = [proc EXCEPT ![p].pc = s, ![p].disc = @ \union new]
  PROVE  \E r \in ProcState : proc' = [proc EXCEPT ![p] = r] /\ ProcOK(r, Len(events))
<1>1. proc[p] \in ProcState /\ proc[p].disc \union new \in SUBSET Discrepancy
  BY ProcFacts DEF ProcState
<1> DEFINE d == proc[p].disc \union new
           r == [proc[p] EXCEPT !.pc = s, !.disc = d]
<1>2. s \in ProcStep /\ s \notin WorkStep /\ s # "ingest"
  BY DEF ProcStep, ReconcilerStep, WorkStep
<1>3. proc' = [proc EXCEPT ![p] = r]
  BY <1>1, ProcFacts DEF ProcState
<1> HIDE DEF d
<1>4. r \in ProcState
  BY <1>1, <1>2 DEF ProcState, d
<1>5. ProcOK(r, Len(events))
  BY <1>1, <1>2, ProcFacts DEF ProcOK, ProcState
<1> QED BY <1>3, <1>4, <1>5

\* Positions, protection, cash and the baseline.
LEMMA CompareSteps ==
  ASSUME TypeInv, NEW p \in Procs,
         reconcile_positions(p) \/ reconcile_protection(p) \/ reconcile_cash(p)
  PROVE  TypeInv'
<1>1. proc[p].cash \in Int
  BY ProcFacts DEF ProcState
<1>2. /\ position_discrepancies(p) \in SUBSET Discrepancy
      /\ protection_discrepancies(p) \in SUBSET Discrepancy
      /\ cash_discrepancies(p) \in SUBSET Discrepancy
  <2>1. position_discrepancies(p) \in SUBSET Discrepancy
    <3>1. <<"POSITION_MISMATCH", "account">> \in Discrepancy
      BY DEF Discrepancy, DiscrepancyKind
    <3> QED BY <3>1 DEF position_discrepancies
  <2>2. protection_discrepancies(p) \in SUBSET Discrepancy
    <3>1. ASSUME NEW k \in Keys
          PROVE  <<"ORDER_PROTECTION_SHORTFALL", k>> \in Discrepancy
      BY DEF Discrepancy, DiscrepancyKind
    <3>2. ASSUME NEW d \in protection_discrepancies(p)
          PROVE  d \in Discrepancy
      <4>1. PICK k \in Keys : d = <<"ORDER_PROTECTION_SHORTFALL", k>>
        BY <3>2 DEF protection_discrepancies, broker_keys
      <4> QED BY <3>1, <4>1
    <3> QED BY <3>2
  <2>3. cash_discrepancies(p) \in SUBSET Discrepancy
    <3>1. {"CASH_MISMATCH", "NAKED_LONG_EXPOSURE"} \X {"account"} \subseteq Discrepancy
      BY DEF Discrepancy, DiscrepancyKind
    <3>2. cash_discrepancies(p)
            \subseteq {"CASH_MISMATCH", "NAKED_LONG_EXPOSURE"} \X {"account"}
      BY Zenon DEF cash_discrepancies
    <3> QED BY <3>1, <3>2
  <2> QED BY <2>1, <2>2, <2>3
<1>3. \E r \in ProcState : proc' = [proc EXCEPT ![p] = r] /\ ProcOK(r, Len(events))
  <2>1. CASE reconcile_positions(p)
    BY <1>2, <2>1, NoteDiscrepancies DEF reconcile_positions
  <2>2. CASE reconcile_protection(p)
    BY <1>2, <2>2, NoteDiscrepancies DEF reconcile_protection
  <2>3. CASE reconcile_cash(p)
    BY <1>2, <2>3, NoteDiscrepancies DEF reconcile_cash
  <2> QED BY <2>1, <2>2, <2>3
<1>4. StoreTypeOK' /\ UNCHANGED <<brokerVars, now, crashes>>
  BY <1>1, RecordTypes, StoreStays, ProcFacts
  DEF reconcile_positions, reconcile_protection, reconcile_cash
<1> QED BY <1>3, <1>4, StoreStep

\* The end of the reconciliation.
LEMMA ConcludeStep ==
  ASSUME TypeInv, NEW p \in Procs, reconcile_conclude(p)
  PROVE  TypeInv'
<1>1. StoreTypeOK'
  BY FreezeTypes, ProcFacts DEF reconcile_conclude, FreezeReason
<1>2. UNCHANGED <<brokerVars, now, crashes>>
  BY DEF reconcile_conclude
<1>3. CASE exit(p)
  BY <1>1, <1>2, <1>3, ExitOK, StoreStep
<1>4. CASE ~exit(p)
  <2>1. PICK s \in {"lease", "authority"} :
          proc' = [proc EXCEPT ![p] = [Idle EXCEPT !.pc = s, !.kind = proc[p].kind,
                                                   !.owner = proc[p].owner, !.at = proc[p].at]]
    <3>1. CASE proc[p].kind = "dispatch"
      BY <1>4, <3>1 DEF reconcile_conclude
    <3>2. CASE proc[p].kind # "dispatch"
      BY <1>4, <3>2 DEF reconcile_conclude
    <3> QED BY <3>1, <3>2
  <2> DEFINE r == [Idle EXCEPT !.pc = s, !.kind = proc[p].kind, !.owner = proc[p].owner,
                               !.at = proc[p].at]
  <2>2. proc[p] \in ProcState /\ Idle \in ProcState /\ ProcOK(Idle, Len(events))
    BY IdleOK, ProcFacts
  <2>3. s \in ProcStep /\ s \notin WorkStep /\ s # "ingest"
    BY DEF ProcStep, WorkStep
  <2>4. r \in ProcState
    BY <2>2, <2>3 DEF ProcState
  <2>5. ProcOK(r, Len(events))
    BY <2>2, <2>3 DEF ProcOK, ProcState
  <2> QED BY <1>1, <1>2, <2>1, <2>4, <2>5, StoreStep
<1> QED BY <1>3, <1>4

\* observe and arm end after one transaction.
LEMMA ObserveArmSteps ==
  ASSUME TypeInv, NEW p \in Procs, observe_authority(p) \/ arm_command(p)
  PROVE  TypeInv'
<1>1. proc[p].at \in Nat
  BY ProcFacts DEF ProcState
<1>2. StoreTypeOK'
  <2>1. CASE observe_authority(p)
    BY <1>1, <2>1, EvidenceTypes, ProcFacts DEF observe_authority
  <2>2. CASE arm_command(p)
    BY <1>1, <2>2, ArmTypes, StoreStays, ProcFacts DEF arm_command, arm_call
  <2> QED BY <2>1, <2>2
<1>3. exit(p) /\ UNCHANGED <<brokerVars, now, crashes>>
  BY DEF observe_authority, arm_command
<1> QED BY <1>2, <1>3, ExitOK, StoreStep

-----------------------------------------------------------------------------
(* The steps of a worker.                                                  *)

\* Taking the lease and publishing its token.
LEMMA LeaseSteps ==
  ASSUME TypeInv, NEW p \in Procs, worker_lease(p) \/ worker_fence(p)
  PROVE  TypeInv'
<1>1. proc[p] \in ProcState /\ proc[p].at \in Nat /\ proc[p].token \in Nat
      /\ proc[p].owner \in Owners \union {"nobody"}
  BY ProcFacts DEF ProcState
<1>2. CASE worker_lease(p) /\ lease_available(proc[p].owner, proc[p].at)
  <2>1. acquire_lease(proc[p].owner, proc[p].at) /\ UNCHANGED <<brokerVars, now, crashes>>
    BY <1>2 DEF worker_lease
  <2>2. StoreTypeOK'
    BY <1>1, <2>1, LeaseTypes, ProcFacts
  <2>3. PICK t \in Nat : t = lease'.token
    BY <2>2 DEF StoreTypeOK, LeaseRow
  <2> DEFINE r == [proc[p] EXCEPT !.pc = "fence", !.token = t]
  <2>4. "fence" \in ProcStep /\ "fence" \notin WorkStep
    BY DEF ProcStep, WorkStep
  <2>5. r \in ProcState
    BY <1>1, <2>4 DEF ProcState
  <2>6. ProcOK(r, Len(events))
    BY <1>1, <2>4, ProcFacts DEF ProcOK, ProcState
  <2>7. proc' = [proc EXCEPT ![p] = r]
    BY <1>1, <1>2, <2>3, ProcFacts DEF worker_lease, ProcState
  <2> QED BY <2>1, <2>2, <2>5, <2>6, <2>7, StoreStep
<1>3. CASE worker_lease(p) /\ ~lease_available(proc[p].owner, proc[p].at)
  BY <1>3, ExitOK, StoreStays, StoreStep DEF worker_lease
<1>4. CASE worker_fence(p) /\ proc[p].token >= fence
  <2>1. BrokerTypeOK' /\ LogGrows
    BY <1>1, <1>4, AdvanceFenceTypes, ProcFacts DEF worker_fence
  <2>2. PICK s \in {"claim", "claim_cancel"} : goto(p, s)
    BY <1>4 DEF worker_fence
  <2>3. s \in ProcStep \ {"ingest"} /\ s \notin WorkStep
    BY DEF ProcStep, FencedStep, WorkStep
  <2>4. PICK r \in ProcState : proc' = [proc EXCEPT ![p] = r] /\ ProcOK(r, Len(events))
    BY <2>2, <2>3, GotoOK
  <2>5. UNCHANGED <<storeVars, now, crashes>> /\ Len(events') = Len(events)
    BY <1>4 DEF worker_fence, advance_fence
  <2> QED BY <2>1, <2>4, <2>5, BrokerStep
<1>5. CASE worker_fence(p) /\ ~(proc[p].token >= fence)
  BY <1>5, ExitOK, StoreStays, StoreStep DEF worker_fence
<1> QED BY <1>2, <1>3, <1>4, <1>5

\* A worker takes a command in hand.
LEMMA TakeWork ==
  ASSUME TypeInv, NEW p \in Procs, NEW i \in Intents,
         proc' = [proc EXCEPT ![p].pc = "validate", ![p].work = i]
  PROVE  \E r \in ProcState : proc' = [proc EXCEPT ![p] = r] /\ ProcOK(r, Len(events))
<1> DEFINE r == [proc[p] EXCEPT !.pc = "validate", !.work = i]
<1>1. proc[p] \in ProcState /\ "validate" \in ProcStep
  BY ProcFacts DEF ProcStep, FencedStep
<1>2. r \in ProcState
  BY <1>1 DEF ProcState
<1>3. ProcOK(r, Len(events))
  BY <1>1, ProcFacts DEF ProcOK, ProcState
<1>4. proc' = [proc EXCEPT ![p] = r]
  BY <1>1, ProcFacts DEF ProcState
<1> QED BY <1>2, <1>3, <1>4

\* Claiming a submit or a cancel command.
LEMMA ClaimSteps ==
  ASSUME TypeInv, NEW p \in Procs, worker_claim(p) \/ worker_claim_cancel(p)
  PROVE  TypeInv'
<1>1. proc[p].at \in Nat
  BY ProcFacts DEF ProcState
<1>2. UNCHANGED <<brokerVars, now, crashes>>
  BY DEF worker_claim, worker_claim_cancel
<1>3. CASE exit(p) /\ StoreTypeOK'
  BY <1>2, <1>3, ExitOK, StoreStep
<1>4. ASSUME NEW i \in Intents, StoreTypeOK',
             proc' = [proc EXCEPT ![p].pc = "validate", ![p].work = i]
      PROVE  TypeInv'
  BY <1>2, <1>4, TakeWork, StoreStep
<1>5. CASE worker_claim(p)
  <2> DEFINE o == proc[p].owner
             t == proc[p].token
             a == proc[p].at
  <2>1. CASE (claim_next_raises(o, t, a) \/ claim_next_empty(o, t, a)) /\ exit(p)
    <3>1. UNCHANGED storeVars
      BY <2>1 DEF claim_next_raises, claim_next_empty
    <3> QED BY <1>3, <2>1, <3>1, StoreStays
  <2>2. ASSUME NEW i \in Intents, exit(p),
               claim_next_expires_arm(o, t, a, i) \/ claim_next_expires_reservation(o, t, a, i)
        PROVE  TypeInv'
    BY <1>1, <1>3, <2>2, ClaimTypes, ProcFacts
  <2>3. ASSUME NEW i \in Intents, claim_next(o, t, a, i),
               proc' = [proc EXCEPT ![p].pc = "validate", ![p].work = i]
        PROVE  TypeInv'
    BY <1>1, <1>4, <2>3, ClaimTypes, ProcFacts
  <2> QED BY <1>5, <2>1, <2>2, <2>3 DEF worker_claim
<1>6. CASE worker_claim_cancel(p)
  <2>1. CASE exit(p) /\ UNCHANGED storeVars
    BY <1>3, <2>1, StoreStays
  <2>2. ASSUME NEW i \in Intents,
               claim_next_cancel(proc[p].owner, proc[p].token, proc[p].at, i),
               proc' = [proc EXCEPT ![p].pc = "validate", ![p].work = i]
        PROVE  TypeInv'
    BY <1>4, <2>2, CancelTypes, ProcFacts
  <2> QED BY <1>6, <2>1, <2>2 DEF worker_claim_cancel
<1> QED BY <1>5, <1>6

\* Validating the lease once more.
LEMMA ValidateStep ==
  ASSUME TypeInv, NEW p \in Procs, worker_validate(p)
  PROVE  TypeInv'
<1>1. StoreTypeOK' /\ UNCHANGED <<brokerVars, now, crashes>>
  BY StoreStays DEF worker_validate
<1>2. CASE exit(p)
  BY <1>1, <1>2, ExitOK, StoreStep
<1>3. CASE ~exit(p)
  <2>1. PICK s \in {"submit", "cancel"} : goto(p, s)
    BY <1>3 DEF worker_validate
  <2>2. s \in ProcStep \ {"ingest"} /\ proc[p].work \in Intents
    BY ProcFacts DEF ProcStep, FencedStep, ProcOK, WorkStep, worker_validate, at_step
  <2> QED BY <1>1, <2>1, <2>2, GotoOK, StoreStep
<1> QED BY <1>2, <1>3

\* A worker goes on with an answer that is in the broker's log.
LEMMA AnswerOK ==
  ASSUME TypeInv, NEW p \in Procs, NEW len \in Nat, Len(events) <= len,
         proc[p].work \in Intents, NEW ans \in SUBSET (1 .. len), NEW sc
  PROVE  LET r == [proc[p] EXCEPT !.pc = apply_step(ans, sc), !.answer = ans]
         IN  r \in ProcState /\ ProcOK(r, len)
<1> DEFINE s == apply_step(ans, sc)
           r == [proc[p] EXCEPT !.pc = s, !.answer = ans]
<1>1. proc[p] \in ProcState /\ ProcOK(proc[p], Len(events)) /\ Len(events) \in Nat
  BY ProcFacts
<1>2. s \in ProcStep /\ s # "ingest" /\ ans \in SUBSET Nat
  BY DEF apply_step, ProcStep, FencedStep
<1> HIDE DEF s
<1>3. r \in ProcState
  BY <1>1, <1>2 DEF ProcState
<1>4. ProcOK(r, len)
  BY <1>1, <1>2 DEF ProcOK, ProcState
<1> QED BY <1>3, <1>4 DEF s

\* A worker whose answer was lost.
LEMMA LostAnswer ==
  ASSUME TypeInv, NEW p \in Procs, NEW len \in Nat, Len(events) <= len, proc[p].work \in Intents
  PROVE  LET r == [proc[p] EXCEPT !.pc = "unknown"]
         IN  r \in ProcState /\ ProcOK(r, len)
<1> DEFINE r == [proc[p] EXCEPT !.pc = "unknown"]
<1>1. proc[p] \in ProcState /\ ProcOK(proc[p], Len(events)) /\ Len(events) \in Nat
  BY ProcFacts
<1>2. "unknown" \in ProcStep
  BY DEF ProcStep, FencedStep
<1>3. r \in ProcState
  BY <1>1, <1>2 DEF ProcState
<1>4. ProcOK(r, len)
  BY <1>1, <1>2 DEF ProcOK, ProcState
<1> QED BY <1>3, <1>4

\* Submitting.
LEMMA SubmitStep ==
  ASSUME TypeInv, NEW p \in Procs, worker_submit(p)
  PROVE  TypeInv'
<1> DEFINE k == proc[p].work
           t == proc[p].token
<1>1. k \in Intents /\ k \in Keys /\ t \in Nat
  BY ProcFacts DEF worker_submit, at_step, ProcOK, WorkStep, ProcState, Keys
<1>2. UNCHANGED <<storeVars, now, crashes>>
  BY DEF worker_submit
<1>3. CASE exit(p) /\ UNCHANGED brokerVars
  BY <1>2, <1>3, ExitOK, StoreStays, StoreStep
<1>4. CASE /\ submit_known(k, t)
           /\ proc' = [proc EXCEPT ![p].pc = apply_step(events_for(k), "ACCEPT"),
                                   ![p].answer = events_for(k)]
  <2>1. BrokerTypeOK' /\ LogGrows
    BY <1>1, <1>4, SubmitTypes, ProcFacts
  <2>2. Len(events') = Len(events) /\ events_for(k) \in SUBSET (1 .. Len(events))
    BY <1>4 DEF submit_known, events_for
  <2> DEFINE r == [proc[p] EXCEPT !.pc = apply_step(events_for(k), "ACCEPT"),
                                  !.answer = events_for(k)]
  <2>3. Len(events) \in Nat /\ Len(events) <= Len(events) /\ proc[p] \in ProcState
    BY ProcFacts
  <2>4. r \in ProcState /\ ProcOK(r, Len(events))
    BY <1>1, <2>2, <2>3, AnswerOK, Zenon
  <2>5. proc' = [proc EXCEPT ![p] = r]
    BY <1>4, <2>3, ProcFacts DEF ProcState
  <2> QED BY <1>2, <2>1, <2>2, <2>4, <2>5, BrokerStep
<1>5. ASSUME NEW sc \in Scenarios, submit_new(k, t, sc),
             proc' = IF sc = "ACCEPT_DROP_RESPONSE"
                     THEN [proc EXCEPT ![p].pc = "unknown"]
                     ELSE [proc EXCEPT ![p].pc = apply_step(submit_answer(sc), sc),
                                       ![p].answer = submit_answer(sc)]
      PROVE  TypeInv'
  <2>1. BrokerTypeOK' /\ LogGrows
    <3>1. sc \in SubmitScenario
      BY PlaneAssumption
    <3> QED BY <1>1, <1>5, <3>1, SubmitTypes, ProcFacts
  <2>2. PICK len \in Nat : len = Len(events') /\ Len(events) <= len
    BY <2>1, ProcFacts DEF BrokerTypeOK, LogGrows
  <2>3. Len(events) \in Nat /\ proc[p] \in ProcState
    BY ProcFacts
  <2>4. CASE sc = "ACCEPT_DROP_RESPONSE"
    <3> DEFINE r == [proc[p] EXCEPT !.pc = "unknown"]
    <3>1. r \in ProcState /\ ProcOK(r, len)
      BY <1>1, <2>2, LostAnswer
    <3>2. proc' = [proc EXCEPT ![p] = r]
      BY <1>5, <2>3, <2>4, ProcFacts DEF ProcState
    <3> QED BY <1>2, <2>1, <2>2, <3>1, <3>2, BrokerStep
  <2>5. CASE sc # "ACCEPT_DROP_RESPONSE"
    <3>1. submit_answer(sc) \in SUBSET (1 .. len)
      <4>1. events \in Seq(BrokerEvent)
        BY ProcFacts DEF BrokerTypeOK
      <4>2. CASE sc = "PARTIAL_FILL"
        <5>1. PICK e1, e2 : events' = Append(Append(events, e1), e2)
          BY <1>5, <4>2 DEF submit_new
        <5>2. Len(events') = Len(events) + 2
          BY <4>1, <5>1
        <5> QED BY <2>2, <2>3, <4>2, <5>2 DEF submit_answer
      <4>3. CASE sc # "PARTIAL_FILL"
        <5>1. PICK e1 : events' = Append(events, e1)
          BY <1>5, <4>3 DEF submit_new
        <5>2. Len(events') = Len(events) + 1
          BY <4>1, <5>1
        <5> QED BY <2>2, <2>3, <4>3, <5>2 DEF submit_answer
      <4> QED BY <4>2, <4>3
    <3> DEFINE r == [proc[p] EXCEPT !.pc = apply_step(submit_answer(sc), sc),
                                    !.answer = submit_answer(sc)]
    <3>2. r \in ProcState /\ ProcOK(r, len)
      BY <1>1, <2>2, <3>1, AnswerOK
    <3>3. proc' = [proc EXCEPT ![p] = r]
      BY <1>5, <2>3, <2>5, ProcFacts DEF ProcState
    <3> QED BY <1>2, <2>1, <2>2, <3>2, <3>3, BrokerStep
  <2> QED BY <2>4, <2>5
<1> QED BY <1>3, <1>4, <1>5 DEF worker_submit

\* Cancelling.
LEMMA CancelStep ==
  ASSUME TypeInv, NEW p \in Procs, worker_cancel(p)
  PROVE  TypeInv'
<1> DEFINE k == proc[p].work
           t == proc[p].token
<1>1. k \in Intents /\ k \in Keys /\ t \in Nat
  BY ProcFacts DEF worker_cancel, at_step, ProcOK, WorkStep, ProcState, Keys
<1>2. UNCHANGED <<storeVars, now, crashes>>
  BY DEF worker_cancel
<1>3. CASE exit(p) /\ UNCHANGED brokerVars
  BY <1>2, <1>3, ExitOK, StoreStays, StoreStep
<1>4. ASSUME NEW sc \in CancelScenario, cancel_order(k, t, 0),
             proc' = IF sc = "CANCEL_DROP_RESPONSE"
                     THEN [proc EXCEPT ![p].pc = "unknown"]
                     ELSE [proc EXCEPT ![p].pc = apply_step(cancel_answer(k), sc),
                                       ![p].answer = cancel_answer(k)]
      PROVE  TypeInv'
  <2>1. BrokerTypeOK' /\ LogGrows
    BY <1>1, <1>4, CancelOrderTypes, ProcFacts
  <2>2. PICK len \in Nat : len = Len(events') /\ Len(events) <= len
    BY <2>1, ProcFacts DEF BrokerTypeOK, LogGrows
  <2>3. Len(events) \in Nat /\ proc[p] \in ProcState
    BY ProcFacts
  <2>4. CASE sc = "CANCEL_DROP_RESPONSE"
    <3> DEFINE r == [proc[p] EXCEPT !.pc = "unknown"]
    <3>1. r \in ProcState /\ ProcOK(r, len)
      BY <1>1, <2>2, LostAnswer
    <3>2. proc' = [proc EXCEPT ![p] = r]
      BY <1>4, <2>3, <2>4, ProcFacts DEF ProcState
    <3> QED BY <1>2, <2>1, <2>2, <3>1, <3>2, BrokerStep
  <2>5. CASE sc # "CANCEL_DROP_RESPONSE"
    <3>1. cancel_answer(k) \in SUBSET (1 .. len)
      <4>1. CASE orders[k].filled < Qty
        <5>1. PICK e1 : events' = Append(events, e1)
          BY <1>4, <4>1 DEF cancel_order
        <5>2. events \in Seq(BrokerEvent)
          BY ProcFacts DEF BrokerTypeOK
        <5>3. Len(events') = Len(events) + 1
          BY <5>1, <5>2
        <5> QED BY <2>2, <2>3, <4>1, <5>3 DEF cancel_answer
      <4>2. CASE ~(orders[k].filled < Qty)
        BY <4>2 DEF cancel_answer
      <4> QED BY <4>1, <4>2
    <3> DEFINE r == [proc[p] EXCEPT !.pc = apply_step(cancel_answer(k), sc),
                                    !.answer = cancel_answer(k)]
    <3>2. r \in ProcState /\ ProcOK(r, len)
      BY <1>1, <2>2, <3>1, AnswerOK
    <3>3. proc' = [proc EXCEPT ![p] = r]
      BY <1>4, <2>3, <2>5, ProcFacts DEF ProcState
    <3> QED BY <1>2, <2>1, <2>2, <3>2, <3>3, BrokerStep
  <2> QED BY <2>4, <2>5
<1> QED BY <1>3, <1>4 DEF worker_cancel

\* Ending with an unknown or a delivered command.
LEMMA EndSteps ==
  ASSUME TypeInv, NEW p \in Procs, worker_unknown(p) \/ worker_deliver(p)
  PROVE  TypeInv'
<1>1. proc[p].work \in Intents
  BY ProcFacts DEF worker_unknown, worker_deliver, at_step, ProcOK, WorkStep
<1>2. StoreTypeOK'
  <2>1. \/ mark_submission_unknown(proc[p].work) \/ mark_delivered(proc[p].work)
        \/ mark_cancel_unknown(proc[p].work) \/ mark_cancel_delivered(proc[p].work)
    BY DEF worker_unknown, worker_deliver
  <2>2. CASE mark_submission_unknown(proc[p].work) \/ mark_delivered(proc[p].work)
    <3>1. PICK asOf \in Nat : TRUE
      OBVIOUS
    <3> QED BY <1>1, <2>2, <3>1, OutboxTypes, ProcFacts
  <2>3. CASE mark_cancel_unknown(proc[p].work) \/ mark_cancel_delivered(proc[p].work)
    BY <1>1, <2>3, CancelTypes, ProcFacts
  <2> QED BY <2>1, <2>2, <2>3
<1>3. exit(p) /\ UNCHANGED <<brokerVars, now, crashes>>
  BY DEF worker_unknown, worker_deliver
<1> QED BY <1>2, <1>3, ExitOK, StoreStep

\* Ingesting the answered events.
LEMMA ApplySteps ==
  ASSUME TypeInv, NEW p \in Procs, worker_apply(p) \/ worker_apply_copy(p)
  PROVE  TypeInv'
<1>1. /\ proc[p] \in ProcState
      /\ proc[p].answer \in SUBSET (1 .. Len(events))
      /\ proc[p].work \in Intents
      /\ Len(events) \in Nat
      /\ Len(events) <= Len(events)
  BY ProcFacts DEF worker_apply, worker_apply_copy, at_step, ProcOK, WorkStep
<1>2. ASSUME NEW n \in proc[p].answer, ingest_broker_event(n, events[n])
      PROVE  StoreTypeOK'
  <2>1. n \in 1 .. Len(events) /\ n \in Nat
    BY <1>1
  <2>2. events[n] \in BrokerEvent
    BY <2>1, ProcFacts DEF BrokerTypeOK
  <2> QED BY <1>2, <2>1, <2>2, IngestTypes, ProcFacts
<1>3. UNCHANGED <<brokerVars, now, crashes>>
  BY DEF worker_apply, worker_apply_copy
<1>4. CASE worker_apply_copy(p)
  <2>1. StoreTypeOK' /\ goto(p, "apply")
    BY <1>2, <1>4 DEF worker_apply_copy
  <2>2. "apply" \in ProcStep \ {"ingest"}
    BY DEF ProcStep, FencedStep
  <2> QED BY <1>1, <1>3, <2>1, <2>2, GotoOK, StoreStep
<1>5. CASE worker_apply(p)
  <2>1. PICK n \in proc[p].answer :
          /\ ingest_broker_event(n, events[n])
          /\ proc' = [proc EXCEPT ![p].answer = @ \ {n},
                                  ![p].pc = apply_step(proc[p].answer \ {n}, "ACCEPT")]
    BY <1>5 DEF worker_apply
  <2> DEFINE ans == proc[p].answer \ {n}
             r == [proc[p] EXCEPT !.pc = apply_step(ans, "ACCEPT"), !.answer = ans]
  <2>2. StoreTypeOK' /\ ans \in SUBSET (1 .. Len(events))
    BY <1>1, <1>2, <2>1
  <2>3. r \in ProcState /\ ProcOK(r, Len(events))
    BY <1>1, <2>2, AnswerOK, Zenon
  <2>4. proc' = [proc EXCEPT ![p] = r]
    BY <1>1, <2>1, ProcFacts DEF ProcState
  <2> QED BY <1>3, <2>2, <2>3, <2>4, StoreStep
<1> QED BY <1>4, <1>5

-----------------------------------------------------------------------------
(* The environment.                                                        *)

LEMMA EnvTypes ==
  ASSUME TypeInv, Env
  PROVE  TypeInv'
<1> USE DEF TypeInv, TypeOK
<1>1. CASE tick
  BY <1>1, StoreStays, BrokerStays, EnvStep DEF tick
<1>2. ASSUME NEW p \in Procs, crash(p) PROVE TypeInv'
  <2>1. PICK r \in ProcState : proc' = [proc EXCEPT ![p] = r] /\ ProcOK(r, Len(events))
    BY <1>2, ExitOK DEF crash
  <2>2. StoreTypeOK' /\ BrokerTypeOK' /\ LogGrows /\ Len(events') = Len(events)
    BY <1>2, StoreStays, BrokerStays DEF crash
  <2>3. /\ proc' \in [Procs -> ProcState]
        /\ \A q \in Procs : ProcOK(proc'[q], Len(events'))
    BY <2>1, <2>2, OneProcMoves
  <2> QED BY <1>2, <2>2, <2>3 DEF crash
<1>3. ASSUME NEW i \in Intents, operator_stage(i) PROVE TypeInv'
  BY <1>3, StageTypes, BrokerStays, EnvStep DEF operator_stage
<1>4. ASSUME NEW i \in Intents, operator_cancel(i) PROVE TypeInv'
  BY <1>4, CancelTypes, BrokerStays, EnvStep DEF operator_cancel
<1>5. ASSUME NEW i \in Intents, operator_approve(i) PROVE TypeInv'
  BY <1>5, ApproveTypes, BrokerStays, EnvStep DEF operator_approve
<1>6. ASSUME NEW i \in Intents, NEW a, NEW q, operator_arm(i, a, q) PROVE TypeInv'
  BY <1>6, ArmTypes, BrokerStays, EnvStep DEF operator_arm, arm_call
<1>7. ASSUME NEW age \in 0 .. 1, NEW static \in {{}, {"FEED_NOT_REALTIME"}},
             quote_arrives(age, static)
      PROVE  TypeInv'
  <2>1. [observed |-> now, provider |-> now - age, static |-> static] \in Quote
    BY <1>7 DEF quote_arrives, Quote, StaticReasons
  <2>2. StoreTypeOK'
    BY <1>7, <2>1, EvidenceTypes DEF quote_arrives
  <2> QED BY <1>7, <2>2, BrokerStays, EnvStep DEF quote_arrives
<1>8. CASE operator_freeze \/ operator_unfreeze
  <2>1. StoreTypeOK'
    BY <1>8, FreezeTypes DEF operator_freeze, operator_unfreeze, FreezeReason
  <2> QED BY <1>8, <2>1, BrokerStays, EnvStep DEF operator_freeze, operator_unfreeze
<1>9. ASSUME NEW k \in Keys, broker_fill(k) \/ broker_commission(k) \/ broker_inject(k)
      PROVE  TypeInv'
  <2>1. BrokerTypeOK' /\ LogGrows
    BY <1>9, FillTypes, OtherBrokerTypes, TypesAssumption
    DEF broker_fill, broker_commission, broker_inject
  <2>2. UNCHANGED <<storeVars, proc, now, crashes>>
    BY <1>9 DEF broker_fill, broker_commission, broker_inject
  <2> QED BY <2>1, <2>2, StoreStays, EnvStep
<1>10. ASSUME NEW n \in Nat, broker_callback(n) PROVE TypeInv'
  <2>1. events[n] \in BrokerEvent
    BY <1>10 DEF broker_callback, BrokerTypeOK
  <2>2. StoreTypeOK'
    BY <1>10, <2>1, IngestTypes DEF broker_callback
  <2> QED BY <1>10, <2>2, BrokerStays, EnvStep DEF broker_callback
<1> HIDE DEF TypeInv, TypeOK
<1> QED
  BY <1>1, <1>2, <1>3, <1>4, <1>5, <1>6, <1>7, <1>8, <1>9, <1>10, PlaneAssumption DEF Env, Keys

-----------------------------------------------------------------------------
\* Every step of the plane keeps the inductive invariant.
LEMMA TypeInvStep == TypeInv /\ [Next]_vars => TypeInv'
<1> SUFFICES ASSUME TypeInv, [Next]_vars PROVE TypeInv'
  OBVIOUS
<1>1. CASE UNCHANGED vars
  BY <1>1, StoreStays, BrokerStays, EnvStep DEF vars, TypeInv, TypeOK
<1>2. ASSUME NEW p \in Procs, step(p) PROVE TypeInv'
  BY <1>2, SnapshotSteps, GotoSteps, ReadLocalStep, IngestStep, ResolveStep, ResolvedStep,
     AbsentStep, CompareSteps, ConcludeStep, ObserveArmSteps, LeaseSteps, ClaimSteps,
     ValidateStep, SubmitStep, CancelStep, EndSteps, ApplySteps
  DEF step
<1> QED BY <1>1, <1>2, StartStep, EnvTypes DEF Next

\* The initial state.
LEMMA InitTypeInv == Init => TypeInv
<1> SUFFICES ASSUME Init PROVE TypeInv
  OBVIOUS
<1>1. StoreTypeOK /\ BrokerTypeOK
  BY StoreInitTypes, BrokerInitTypes DEF Init
<1>2. Len(events) \in Nat
  BY <1>1 DEF BrokerTypeOK
<1> QED BY <1>1, <1>2, IdleOK DEF Init, TypeInv, TypeOK

\* Every variable of the plane keeps its type, for any number of processes, intents,
\* events and crashes: no event is read past the end of the broker's log, no worker
\* handles a command that is not an intent's, and no fill exceeds the order's quantity.
THEOREM PlaneTypes == Spec => []TypeOK
<1>1. TypeInv => TypeOK
  BY DEF TypeInv
<1> QED BY <1>1, InitTypeInv, TypeInvStep, PTL DEF Spec

-----------------------------------------------------------------------------
(* The freeze gate.                                                        *)

\* All that ever happens to the tickets and the flag of control_state.
GateStep ==
    \/ UNCHANGED <<tickets, frozen>>
    \/ \E r \in FreezeReason : open_freeze_ticket(r)
    \/ tickets' = tickets \ {"MANUAL_OPERATOR_FREEZE"} /\ frozen' = frozen
    \/ tickets' = tickets \ ReconcilerOwned /\ frozen' = (tickets' # {})

\* Ingesting an event touches the gate only by opening a ticket.
LEMMA IngestGate ==
  ASSUME NEW n, NEW e, ingest_broker_event(n, e)
  PROVE  GateStep
  BY DEF ingest_broker_event, apply_broker_event, GateStep, FreezeReason

\* Neither does arming.
LEMMA ArmGate ==
  ASSUME NEW i, NEW a, NEW q, NEW t, arm_call(i, a, q, t)
  PROVE  GateStep
  BY DEF arm_call, arm_approved_intent, arm_authority_stale, arm_quote_stale, freeze,
     GateStep, FreezeReason

\* A step of a running command.
LEMMA StepGate ==
  ASSUME NEW p \in Procs, step(p)
  PROVE  GateStep
<1>1. CASE UNCHANGED storeVars
  BY <1>1 DEF GateStep
<1>2. CASE UNCHANGED <<tickets, frozen>>
  BY <1>2 DEF GateStep
<1>3. CASE snapshot(p)
  BY <1>1, <1>3, SnapshotFrame
<1>4. CASE reconcile_begin(p)
  BY <1>4 DEF reconcile_begin, freeze, GateStep, FreezeReason
<1>5. CASE reconcile_recover(p)
  BY <1>2, <1>5 DEF reconcile_recover, recover_claimed_as_unknown
<1>6. CASE reconcile_read_local(p) \/ reconcile_resolved(p)
  BY <1>1, <1>6 DEF reconcile_read_local, reconcile_resolved
<1>7. CASE reconcile_ingest(p)
  BY <1>1, <1>7, IngestGate DEF reconcile_ingest
<1>8. ASSUME NEW k \in Keys, reconcile_resolve(p, k) PROVE GateStep
  BY <1>2, <1>8 DEF reconcile_resolve, resolve_unknown_at_broker
<1>9. ASSUME NEW i \in Intents, reconcile_absent(p, i) PROVE GateStep
  BY <1>2, <1>9 DEF reconcile_absent, requeue_unknown_absent_at_broker
<1>10. CASE \/ reconcile_positions(p) \/ reconcile_protection(p) \/ reconcile_cash(p)
            \/ reconcile_record(p)
  BY <1>2, <1>10 DEF reconcile_positions, reconcile_protection, reconcile_cash, set_account_baseline,
     reconcile_record, record_discrepancies
<1>11. CASE reconcile_conclude(p)
  <2>1. freeze("CRITICAL_RECONCILIATION_DISCREPANCY") \/ unfreeze_after_reconciliation
    BY <1>11 DEF reconcile_conclude
  <2> QED BY <2>1 DEF freeze, unfreeze_after_reconciliation, GateStep, FreezeReason
<1>12. CASE observe_authority(p)
  BY <1>2, <1>12 DEF observe_authority, record_broker_snapshot_authority
<1>13. CASE arm_command(p)
  BY <1>1, <1>13, ArmGate DEF arm_command
<1>14. CASE worker_lease(p)
  BY <1>2, <1>14 DEF worker_lease, acquire_lease
<1>15. CASE worker_fence(p) \/ worker_validate(p) \/ worker_submit(p) \/ worker_cancel(p)
  BY <1>1, <1>15 DEF worker_fence, worker_validate, worker_submit, worker_cancel
<1>16. CASE worker_claim(p)
  BY <1>2, <1>16 DEF worker_claim, claim_next_raises, claim_next_empty, claim_next_expires_arm,
     claim_next_expires_reservation, claim_next
<1>17. CASE worker_claim_cancel(p)
  BY <1>2, <1>17 DEF worker_claim_cancel, claim_next_cancel
<1>18. CASE worker_unknown(p) \/ worker_deliver(p)
  BY <1>2, <1>18 DEF worker_unknown, worker_deliver, mark_submission_unknown,
     mark_cancel_unknown, mark_delivered, mark_cancel_delivered
<1>19. CASE worker_apply(p) \/ worker_apply_copy(p)
  BY <1>19, IngestGate DEF worker_apply, worker_apply_copy
<1> QED BY <1>3, <1>4, <1>5, <1>6, <1>7, <1>8, <1>9, <1>10, <1>11, <1>12, <1>13, <1>14, <1>15,
           <1>16, <1>17, <1>18, <1>19 DEF step

\* A step of the environment.
LEMMA EnvGate ==
  ASSUME Env
  PROVE  GateStep
<1>1. CASE UNCHANGED <<tickets, frozen>>
  BY <1>1 DEF GateStep
<1>2. CASE tick \/ (\E p \in Procs : crash(p))
  BY <1>1, <1>2 DEF tick, crash
<1>3. ASSUME NEW i \in Intents, operator_stage(i) \/ operator_cancel(i) \/ operator_approve(i)
      PROVE  GateStep
  BY <1>1, <1>3 DEF operator_stage, stage, operator_cancel, request_cancel, operator_approve, approve
<1>4. ASSUME NEW i, NEW a, NEW q, operator_arm(i, a, q) PROVE GateStep
  BY <1>4, ArmGate DEF operator_arm
<1>5. ASSUME NEW age, NEW static, quote_arrives(age, static) PROVE GateStep
  BY <1>1, <1>5 DEF quote_arrives, record_quote_snapshot
<1>6. CASE operator_freeze \/ operator_unfreeze
  BY <1>6 DEF operator_freeze, freeze, operator_unfreeze, resolve_freeze_ticket, GateStep, FreezeReason
<1>7. ASSUME NEW k, broker_fill(k) \/ broker_commission(k) \/ broker_inject(k) PROVE GateStep
  BY <1>1, <1>7 DEF broker_fill, broker_commission, broker_inject
<1>8. ASSUME NEW n, broker_callback(n) PROVE GateStep
  BY <1>8, IngestGate DEF broker_callback
<1> QED BY <1>2, <1>3, <1>4, <1>5, <1>6, <1>7, <1>8 DEF Env

\* Every step.
LEMMA NextGate == [Next]_vars => GateStep
<1> SUFFICES ASSUME [Next]_vars PROVE GateStep
  OBVIOUS
<1>1. CASE UNCHANGED vars
  BY <1>1 DEF vars, GateStep
<1>2. ASSUME NEW p \in Procs, NEW kind, NEW owner, start(p, kind, owner) PROVE GateStep
  BY <1>2 DEF start, open_store, GateStep, FreezeReason
<1> QED BY <1>1, <1>2, StepGate, EnvGate DEF Next

\* The gate alone is inductive.
LEMMA GateInductive == FreezeGate /\ GateStep => FreezeGate'
  BY DEF FreezeGate, GateStep, open_freeze_ticket

\* An unresolved freeze ticket is always visible to the flag that claim_next reads,
\* whoever opens and resolves tickets in whatever order.
THEOREM FreezeGateHolds == Spec => []FreezeGate
<1>1. Init => FreezeGate
  BY DEF Init, StoreInit, FreezeGate
<1>2. FreezeGate /\ [Next]_vars => FreezeGate'
  BY NextGate, GateInductive
<1> QED BY <1>1, <1>2, PTL DEF Spec

-----------------------------------------------------------------------------
(* Claims.                                                                 *)

\* No submit command becomes claimed.
NoNewClaim ==
    \A i \in Intents : outbox'[i].status = "CLAIMED" => outbox[i].status = "CLAIMED"

\* Neither arming nor ingesting an event claims a command.
LEMMA ArmClaim ==
  ASSUME StoreTypeOK, NEW i \in Intents, NEW a, NEW q, NEW t, arm_call(i, a, q, t)
  PROVE  NoNewClaim
<1>1. CASE UNCHANGED outbox
  BY <1>1 DEF NoNewClaim
<1>2. CASE enqueue(i)
  BY <1>1, <1>2 DEF enqueue, NoNewClaim, StoreTypeOK
<1> QED BY <1>1, <1>2 DEF arm_call, arm_approved_intent, arm_authority_stale, arm_quote_stale, freeze

LEMMA IngestClaim ==
  ASSUME NEW n, NEW e, ingest_broker_event(n, e)
  PROVE  NoNewClaim
  BY DEF ingest_broker_event, apply_broker_event, NoNewClaim

\* A step of a running command claims behind the flag or not at all.
LEMMA StepClaim ==
  ASSUME TypeInv, NEW p \in Procs, step(p)
  PROVE  ~frozen \/ NoNewClaim
<1> DEFINE G == ~frozen \/ NoNewClaim
<1>0. outbox \in [Intents -> OutboxRow]
  BY DEF TypeInv, TypeOK, StoreTypeOK
<1>1. CASE UNCHANGED outbox
  BY <1>1 DEF NoNewClaim
<1>2. CASE UNCHANGED storeVars
  BY <1>1, <1>2
<1>3. CASE snapshot(p)
  BY <1>2, <1>3, SnapshotFrame
<1>4. CASE reconcile_begin(p)
  BY <1>1, <1>4 DEF reconcile_begin, freeze
<1>5. CASE reconcile_recover(p)
  <2>1. recover_claimed_as_unknown
    BY <1>5 DEF reconcile_recover
  <2>2. ASSUME NEW i \in Intents PROVE outbox'[i].status # "CLAIMED"
    <3>1. outbox[i] \in OutboxRow
      BY <1>0
    <3>2. [outbox[i] EXCEPT !.status = "UNKNOWN"].status = "UNKNOWN"
      BY <3>1 DEF OutboxRow
    <3> QED BY <2>1, <3>2 DEF recover_claimed_as_unknown
  <2> QED BY <2>2 DEF NoNewClaim
<1>6. CASE reconcile_read_local(p) \/ reconcile_resolved(p)
  BY <1>2, <1>6 DEF reconcile_read_local, reconcile_resolved
<1>7. CASE reconcile_ingest(p)
  BY <1>2, <1>7, IngestClaim DEF reconcile_ingest
<1>8. ASSUME NEW k \in Keys, reconcile_resolve(p, k) PROVE G
  <2>1. CASE k \in local_keys(p)
    <3>1. k \in Intents /\ resolve_unknown_at_broker(k)
      BY <1>8, <2>1 DEF local_keys, reconcile_resolve
    <3> QED BY <1>0, <1>1, <3>1 DEF resolve_unknown_at_broker, NoNewClaim, OutboxRow
  <2>2. CASE k \notin local_keys(p)
    BY <1>2, <1>8, <2>2 DEF reconcile_resolve
  <2> QED BY <2>1, <2>2
<1>9. ASSUME NEW i \in Intents, reconcile_absent(p, i) PROVE G
  <2>1. requeue_unknown_absent_at_broker(i, proc[p].at) \/ UNCHANGED storeVars
    BY <1>9 DEF reconcile_absent
  <2> QED BY <1>0, <1>1, <1>2, <2>1 DEF requeue_unknown_absent_at_broker, NoNewClaim, OutboxRow
<1>10. CASE \/ reconcile_positions(p) \/ reconcile_protection(p) \/ reconcile_cash(p)
            \/ reconcile_record(p)
  BY <1>1, <1>10 DEF reconcile_positions, reconcile_protection, reconcile_cash, set_account_baseline,
     reconcile_record, record_discrepancies
<1>11. CASE reconcile_conclude(p)
  BY <1>1, <1>11 DEF reconcile_conclude, freeze, unfreeze_after_reconciliation
<1>12. CASE observe_authority(p)
  BY <1>1, <1>12 DEF observe_authority, record_broker_snapshot_authority
<1>13. CASE arm_command(p)
  BY <1>2, <1>13, ArmClaim DEF arm_command, TypeInv, TypeOK
<1>14. CASE worker_lease(p)
  BY <1>1, <1>14 DEF worker_lease, acquire_lease
<1>15. CASE worker_fence(p) \/ worker_validate(p) \/ worker_submit(p) \/ worker_cancel(p)
  BY <1>2, <1>15 DEF worker_fence, worker_validate, worker_submit, worker_cancel
<1>16. CASE worker_claim(p)
  <2>1. \/ UNCHANGED outbox
        \/ \E i \in Intents :
             \/ claim_next_expires_reservation(proc[p].owner, proc[p].token, proc[p].at, i)
             \/ claim_next(proc[p].owner, proc[p].token, proc[p].at, i)
    BY <1>16 DEF worker_claim, claim_next_raises, claim_next_empty, claim_next_expires_arm
  <2> QED BY <1>1, <2>1 DEF claim_next_expires_reservation, claim_next, head_cleared, claim_admitted
<1>17. CASE worker_claim_cancel(p)
  BY <1>1, <1>17 DEF worker_claim_cancel, claim_next_cancel
<1>18. CASE worker_unknown(p) \/ worker_deliver(p)
  <2>1. \/ UNCHANGED outbox
        \/ mark_submission_unknown(proc[p].work)
        \/ mark_delivered(proc[p].work)
    BY <1>18 DEF worker_unknown, worker_deliver, mark_cancel_unknown, mark_cancel_delivered
  <2> QED BY <1>0, <1>1, <2>1 DEF mark_submission_unknown, mark_delivered, NoNewClaim, OutboxRow
<1>19. CASE worker_apply(p) \/ worker_apply_copy(p)
  BY <1>19, IngestClaim DEF worker_apply, worker_apply_copy
<1> QED BY <1>3, <1>4, <1>5, <1>6, <1>7, <1>8, <1>9, <1>10, <1>11, <1>12, <1>13, <1>14, <1>15,
           <1>16, <1>17, <1>18, <1>19 DEF step

\* The environment claims nothing.
LEMMA EnvClaim ==
  ASSUME TypeInv, Env
  PROVE  NoNewClaim
<1>0. StoreTypeOK /\ outbox \in [Intents -> OutboxRow]
  BY DEF TypeInv, TypeOK, StoreTypeOK
<1>1. CASE UNCHANGED outbox
  BY <1>1 DEF NoNewClaim
<1>2. CASE tick \/ (\E p \in Procs : crash(p)) \/ operator_freeze \/ operator_unfreeze
  BY <1>1, <1>2 DEF tick, crash, operator_freeze, freeze, operator_unfreeze, resolve_freeze_ticket
<1>3. ASSUME NEW i \in Intents, operator_stage(i) PROVE NoNewClaim
  BY <1>0, <1>1, <1>3 DEF operator_stage, stage, enqueue, NoNewClaim, OutboxRow
<1>4. ASSUME NEW i \in Intents, operator_cancel(i) PROVE NoNewClaim
  BY <1>0, <1>1, <1>4 DEF operator_cancel, request_cancel, NoNewClaim, OutboxRow
<1>5. ASSUME NEW i \in Intents, operator_approve(i) PROVE NoNewClaim
  BY <1>1, <1>5 DEF operator_approve, approve
<1>6. ASSUME NEW i \in Intents, NEW a, NEW q, operator_arm(i, a, q) PROVE NoNewClaim
  BY <1>0, <1>6, ArmClaim DEF operator_arm
<1>7. ASSUME NEW age, NEW static, quote_arrives(age, static) PROVE NoNewClaim
  BY <1>1, <1>7 DEF quote_arrives, record_quote_snapshot
<1>8. ASSUME NEW k, broker_fill(k) \/ broker_commission(k) \/ broker_inject(k) PROVE NoNewClaim
  BY <1>1, <1>8 DEF broker_fill, broker_commission, broker_inject
<1>9. ASSUME NEW n, broker_callback(n) PROVE NoNewClaim
  BY <1>9, IngestClaim DEF broker_callback
<1> QED BY <1>2, <1>3, <1>4, <1>5, <1>6, <1>7, <1>8, <1>9 DEF Env

\* A submit command is claimed only while no blocking ticket is open: claim_next looks
\* at the flag alone, and the freeze gate makes that enough.
THEOREM ClaimsNeedNoTicket == Spec => ClaimNeedsNoTicket
<1>1. TypeInv /\ FreezeGate /\ [Next]_vars =>
        [\A i \in Intents :
           outbox[i].status = "PENDING" /\ outbox'[i].status = "CLAIMED" => tickets = {}]_vars
  <2> SUFFICES ASSUME TypeInv, FreezeGate, [Next]_vars, NEW i \in Intents,
                      outbox[i].status = "PENDING", outbox'[i].status = "CLAIMED"
               PROVE  tickets = {}
    OBVIOUS
  <2>1. ~frozen \/ NoNewClaim
    <3>1. CASE UNCHANGED vars
      BY <3>1 DEF vars, NoNewClaim
    <3>2. ASSUME NEW p \in Procs, NEW kind, NEW owner, start(p, kind, owner) PROVE NoNewClaim
      BY <3>2 DEF start, open_store, NoNewClaim
    <3> QED BY <3>1, <3>2, StepClaim, EnvClaim DEF Next
  <2> QED BY <2>1 DEF NoNewClaim, FreezeGate
<1>2. Init => TypeInv
  BY InitTypeInv
<1> QED BY <1>1, <1>2, TypeInvStep, FreezeGateHolds, PTL DEF Spec, ClaimNeedsNoTicket

-----------------------------------------------------------------------------
(* Fencing.                                                                *)

\* FencingTokens is inductive; for the writes one also has to know that the broker
\* has seen the token of every worker past its constructor.
TokenInv ==
    /\ FencingTokens
    /\ \A p \in Procs : proc[p].pc \in FencedStep => proc[p].token <= fence

\* Process q ends or keeps its token, and does not become a worker past its fence.
KeepsToken(q) ==
    \/ proc'[q].token = 0
    \/ /\ proc'[q].token = proc[q].token
       /\ proc'[q].pc \in FencedStep => proc[q].pc \in FencedStep

\* The three things that happen to tokens: nothing ...
QuietTokens ==
    /\ lease'.token = lease.token
    /\ fence' = fence
    /\ \A q \in Procs : KeepsToken(q)

\* ... process p takes the lease ...
LeaseTaken(p) ==
    /\ lease'.token = lease.token + 1
    /\ fence' = fence
    /\ proc'[p].token = lease.token + 1
    /\ proc'[p].pc = "fence"
    /\ \A q \in Procs \ {p} : KeepsToken(q)

\* ... or process p shows its token to the broker.
TokenShown(p) ==
    /\ lease'.token = lease.token
    /\ fence <= proc[p].token
    /\ fence' = proc[p].token
    /\ proc'[p].token \in {0, proc[p].token}
    /\ \A q \in Procs \ {p} : KeepsToken(q)

TokenStep == QuietTokens \/ \E p \in Procs : LeaseTaken(p) \/ TokenShown(p)

LEMMA TokenTypes ==
  ASSUME TypeInv
  PROVE  /\ fence \in Nat /\ lease.token \in Nat
         /\ \A p \in Procs : proc[p].token \in Nat
  BY DEF TypeInv, TypeOK, BrokerTypeOK, StoreTypeOK, LeaseRow, ProcState

\* Such steps keep the invariant.
LEMMA TokenInductive ==
  ASSUME TypeInv, TypeInv', TokenInv, TokenStep
  PROVE  TokenInv'
<1>1. /\ fence \in Nat /\ lease.token \in Nat
      /\ \A p \in Procs : proc[p].token \in Nat
  BY TokenTypes
<1>2. CASE QuietTokens
  BY <1>1, <1>2 DEF QuietTokens, KeepsToken, TokenInv, FencingTokens
<1>3. ASSUME NEW p \in Procs, LeaseTaken(p) PROVE TokenInv'
  <2>1. "fence" \notin FencedStep
    BY DEF FencedStep
  <2> QED BY <1>1, <1>3, <2>1 DEF LeaseTaken, KeepsToken, TokenInv, FencingTokens
<1>4. ASSUME NEW p \in Procs, TokenShown(p) PROVE TokenInv'
  BY <1>1, <1>4 DEF TokenShown, KeepsToken, TokenInv, FencingTokens
<1> QED BY <1>2, <1>3, <1>4 DEF TokenStep

\* The others keep their tokens when one process moves.
LEMMA OthersKeep ==
  ASSUME TypeInv, NEW p \in Procs, NEW r, proc' = [proc EXCEPT ![p] = r]
  PROVE  /\ proc'[p] = r
         /\ \A q \in Procs \ {p} : KeepsToken(q)
  BY DEF TypeInv, TypeOK, KeepsToken

\* A process ends.
LEMMA ExitKeeps ==
  ASSUME TypeInv, NEW p \in Procs, exit(p)
  PROVE  \A q \in Procs : KeepsToken(q)
<1>1. proc' = [proc EXCEPT ![p] = Idle] /\ Idle.token = 0
  BY DEF exit, Idle
<1> QED BY <1>1, OthersKeep DEF KeepsToken

\* A process moves its program counter, not past a fence it has not published.
LEMMA GotoKeeps ==
  ASSUME TypeInv, NEW p \in Procs, NEW s, goto(p, s), s \in FencedStep => proc[p].pc \in FencedStep
  PROVE  \A q \in Procs : KeepsToken(q)
<1>1. proc[p] \in ProcState /\ proc \in [Procs -> ProcState]
  BY ProcFacts
<1>2. proc' = [proc EXCEPT ![p] = [proc[p] EXCEPT !.pc = s]]
  BY <1>1 DEF goto
<1>3. [proc[p] EXCEPT !.pc = s].token = proc[p].token /\ [proc[p] EXCEPT !.pc = s].pc = s
  BY <1>1 DEF ProcState
<1> QED BY <1>2, <1>3, OthersKeep DEF KeepsToken

\* The steps of a reconciler change other fields of its process.
LEMMA ReconcilerKeeps ==
  ASSUME TypeInv, NEW p \in Procs,
         \/ snapshot(p) \/ reconcile_read_local(p)
         \/ reconcile_ingest(p) \/ reconcile_resolved(p)
         \/ reconcile_positions(p) \/ reconcile_protection(p) \/ reconcile_cash(p)
         \/ \E k \in Keys : reconcile_resolve(p, k)
         \/ \E i \in Intents : reconcile_absent(p, i) /\ ~exit(p)
  PROVE  \A q \in Procs : KeepsToken(q)
<1>1. proc[p] \in ProcState /\ proc \in [Procs -> ProcState]
  BY ProcFacts
<1>2. /\ proc'[p].token = proc[p].token
      /\ proc'[p].pc \notin FencedStep
      /\ \A q \in Procs \ {p} : proc'[q] = proc[q]
  <2> USE <1>1 DEF ProcState, FencedStep
  <2>1. CASE snapshot_cash(p) \/ snapshot_orders(p) \/ snapshot_positions(p)
    BY <2>1 DEF snapshot_cash, snapshot_orders, snapshot_positions
  <2>2. CASE snapshot_protections(p) \/ snapshot_events(p) \/ snapshot_children(p)
    BY <2>2 DEF snapshot_protections, snapshot_events, snapshot_children
  <2>3. CASE reconcile_read_local(p)
    BY <2>3 DEF reconcile_read_local
  <2>4. CASE reconcile_ingest(p)
    BY <2>4 DEF reconcile_ingest
  <2>5. CASE reconcile_resolved(p)
    BY <2>5 DEF reconcile_resolved
  <2>6. CASE reconcile_positions(p) \/ reconcile_protection(p) \/ reconcile_cash(p)
    BY <2>6 DEF reconcile_positions, reconcile_protection, reconcile_cash
  <2>7. ASSUME NEW k \in Keys, reconcile_resolve(p, k)
        PROVE  /\ proc'[p].token = proc[p].token
               /\ proc'[p].pc \notin FencedStep
               /\ \A q \in Procs \ {p} : proc'[q] = proc[q]
    BY <2>7 DEF reconcile_resolve, at_step
  <2>8. ASSUME NEW i \in Intents, reconcile_absent(p, i), ~exit(p)
        PROVE  /\ proc'[p].token = proc[p].token
               /\ proc'[p].pc \notin FencedStep
               /\ \A q \in Procs \ {p} : proc'[q] = proc[q]
    BY <2>8 DEF reconcile_absent, at_step
  <2> QED BY <2>1, <2>2, <2>3, <2>4, <2>5, <2>6, <2>7, <2>8 DEF snapshot
<1> QED BY <1>2 DEF KeepsToken

\* An ingested event, an armed intent and every other transaction of the store except
\* acquire_lease leave the lease row alone.
LEMMA IngestLease ==
  ASSUME NEW n, NEW e, ingest_broker_event(n, e) PROVE lease' = lease
  BY DEF ingest_broker_event, apply_broker_event

LEMMA ArmLease ==
  ASSUME NEW i, NEW a, NEW q, NEW t, arm_call(i, a, q, t) PROVE lease' = lease
  BY DEF arm_call, arm_approved_intent, arm_authority_stale, arm_quote_stale, freeze

\* A command that starts, or goes on after its reconciliation, has no token.
LEMMA FreshToken ==
  ASSUME NEW s, NEW k, NEW o, NEW t
  PROVE  [Idle EXCEPT !.pc = s, !.kind = k, !.owner = o, !.at = t].token = 0
<1>1. Idle \in ProcState /\ Idle.token = 0
  BY IdleOK DEF Idle
<1> QED BY <1>1 DEF ProcState

\* A step of a running command.
LEMMA StepTokens ==
  ASSUME TypeInv, NEW p \in Procs, step(p)
  PROVE  TokenStep
<1>0. proc[p] \in ProcState /\ proc \in [Procs -> ProcState]
  BY ProcFacts
<1>1. ASSUME lease' = lease, fence' = fence, \A q \in Procs : KeepsToken(q) PROVE TokenStep
  BY <1>1 DEF QuietTokens, TokenStep
<1>2. CASE snapshot(p) \/ reconcile_read_local(p) \/ reconcile_resolved(p)
  BY <1>1, <1>2, ReconcilerKeeps, SnapshotFrame DEF reconcile_read_local, reconcile_resolved
<1>3. CASE reconcile_ingest(p)
  <2>1. lease' = lease /\ fence' = fence
    BY <1>3, IngestLease DEF reconcile_ingest
  <2> QED BY <1>1, <1>3, <2>1, ReconcilerKeeps
<1>4. ASSUME NEW k \in Keys, reconcile_resolve(p, k) PROVE TokenStep
  <2>1. lease' = lease /\ fence' = fence
    BY <1>4 DEF reconcile_resolve, resolve_unknown_at_broker
  <2> QED BY <1>1, <1>4, <2>1, ReconcilerKeeps
<1>5. ASSUME NEW i \in Intents, reconcile_absent(p, i) PROVE TokenStep
  <2>1. lease' = lease /\ fence' = fence
    BY <1>5 DEF reconcile_absent, requeue_unknown_absent_at_broker
  <2> QED BY <1>1, <1>5, <2>1, ReconcilerKeeps, ExitKeeps
<1>6. CASE reconcile_positions(p) \/ reconcile_protection(p) \/ reconcile_cash(p)
  <2>1. lease' = lease /\ fence' = fence
    BY <1>6 DEF reconcile_positions, reconcile_protection, reconcile_cash, set_account_baseline
  <2> QED BY <1>1, <1>6, <2>1, ReconcilerKeeps
<1>7. CASE reconcile_begin(p) \/ reconcile_recover(p) \/ reconcile_record(p)
  <2>1. lease' = lease /\ fence' = fence
    BY <1>7 DEF reconcile_begin, freeze, reconcile_recover, recover_claimed_as_unknown,
       reconcile_record, record_discrepancies
  <2>2. \E s \in {"recover", "read_local", "conclude"} : goto(p, s)
    BY <1>7 DEF reconcile_begin, reconcile_recover, reconcile_record
  <2> QED BY <1>1, <2>1, <2>2, GotoKeeps DEF FencedStep
<1>8. CASE reconcile_conclude(p)
  <2>1. lease' = lease /\ fence' = fence
    BY <1>8 DEF reconcile_conclude, freeze, unfreeze_after_reconciliation
  <2>2. CASE exit(p)
    BY <1>1, <2>1, <2>2, ExitKeeps
  <2>3. CASE ~exit(p)
    <3>1. PICK s : proc' = [proc EXCEPT ![p] = [Idle EXCEPT !.pc = s, !.kind = proc[p].kind,
                                                            !.owner = proc[p].owner,
                                                            !.at = proc[p].at]]
      BY <1>8, <2>3 DEF reconcile_conclude
    <3> DEFINE r == [Idle EXCEPT !.pc = s, !.kind = proc[p].kind, !.owner = proc[p].owner,
                                 !.at = proc[p].at]
    <3>2. proc' = [proc EXCEPT ![p] = r] /\ r.token = 0
      BY <3>1, FreshToken
    <3> HIDE DEF r
    <3> QED BY <1>1, <2>1, <3>2, OthersKeep DEF KeepsToken
  <2> QED BY <2>2, <2>3
<1>9. CASE observe_authority(p) \/ arm_command(p)
  <2>1. lease' = lease /\ fence' = fence /\ exit(p)
    BY <1>9, ArmLease DEF observe_authority, record_broker_snapshot_authority, arm_command
  <2> QED BY <1>1, <2>1, ExitKeeps
<1>10. CASE worker_lease(p)
  <2>1. fence' = fence
    BY <1>10 DEF worker_lease
  <2>2. CASE lease_available(proc[p].owner, proc[p].at)
    <3>1. lease'.token = lease.token + 1
      BY <1>10, <2>2 DEF worker_lease, acquire_lease
    <3>2. /\ proc'[p].token = lease.token + 1
          /\ proc'[p].pc = "fence"
          /\ \A q \in Procs \ {p} : proc'[q] = proc[q]
      BY <1>0, <1>10, <2>2, <3>1 DEF worker_lease, ProcState
    <3> QED BY <2>1, <3>1, <3>2 DEF LeaseTaken, KeepsToken, TokenStep
  <2>3. CASE ~lease_available(proc[p].owner, proc[p].at)
    BY <1>1, <1>10, <2>1, <2>3, ExitKeeps DEF worker_lease
  <2> QED BY <2>2, <2>3
<1>11. CASE worker_fence(p)
  <2>1. lease' = lease
    BY <1>11 DEF worker_fence
  <2>2. CASE proc[p].token >= fence
    <3>1. fence' = proc[p].token /\ fence <= proc[p].token
      BY <1>11, <2>2, TokenTypes DEF worker_fence, advance_fence, accept_fencing_token
    <3>2. PICK s : goto(p, s)
      BY <1>11, <2>2 DEF worker_fence
    <3>3. proc'[p].token = proc[p].token /\ \A q \in Procs \ {p} : proc'[q] = proc[q]
      BY <1>0, <3>2 DEF goto, ProcState
    <3> QED BY <2>1, <3>1, <3>3 DEF TokenShown, KeepsToken, TokenStep
  <2>3. CASE ~(proc[p].token >= fence)
    BY <1>1, <1>11, <2>1, <2>3, ExitKeeps DEF worker_fence
  <2> QED BY <2>2, <2>3
<1>12. CASE worker_claim(p) \/ worker_claim_cancel(p)
  <2>1. lease' = lease /\ fence' = fence
    BY <1>12 DEF worker_claim, claim_next_raises, claim_next_empty, claim_next_expires_arm,
       claim_next_expires_reservation, claim_next, worker_claim_cancel, claim_next_cancel
  <2>2. CASE exit(p)
    BY <1>1, <2>1, <2>2, ExitKeeps
  <2>3. CASE ~exit(p)
    <3>1. PICK i \in Intents : proc' = [proc EXCEPT ![p].pc = "validate", ![p].work = i]
      BY <1>12, <2>3 DEF worker_claim, worker_claim_cancel
    <3>2. proc'[p].token = proc[p].token /\ \A q \in Procs \ {p} : proc'[q] = proc[q]
      BY <1>0, <3>1 DEF ProcState
    <3>3. proc[p].pc \in FencedStep
      BY <1>12 DEF worker_claim, worker_claim_cancel, at_step, FencedStep
    <3> QED BY <1>1, <2>1, <3>2, <3>3 DEF KeepsToken
  <2> QED BY <2>2, <2>3
<1>13. CASE worker_validate(p)
  <2>1. lease' = lease /\ fence' = fence /\ proc[p].pc \in FencedStep
    BY <1>13 DEF worker_validate, at_step, FencedStep
  <2>2. exit(p) \/ \E s : goto(p, s)
    BY <1>13 DEF worker_validate
  <2> QED BY <1>1, <2>1, <2>2, ExitKeeps, GotoKeeps
<1>14. CASE worker_submit(p) \/ worker_cancel(p)
  <2>1. lease' = lease
    BY <1>14 DEF worker_submit, worker_cancel
  <2>2. CASE exit(p) /\ UNCHANGED brokerVars
    BY <1>1, <2>1, <2>2, ExitKeeps
  <2>3. CASE ~(exit(p) /\ UNCHANGED brokerVars)
    <3>1. accept_fencing_token(proc[p].token)
      BY <1>14, <2>3 DEF worker_submit, worker_cancel, submit_known, submit_new, cancel_order
    <3>2. fence' = proc[p].token /\ fence <= proc[p].token
      BY <3>1, TokenTypes DEF accept_fencing_token
    <3>3. PICK s, ans : \/ proc' = [proc EXCEPT ![p].pc = s]
                        \/ proc' = [proc EXCEPT ![p].pc = s, ![p].answer = ans]
      <4>1. CASE worker_submit(p)
        BY <2>3, <4>1 DEF worker_submit
      <4>2. CASE worker_cancel(p)
        BY <2>3, <4>2 DEF worker_cancel
      <4> QED BY <1>14, <4>1, <4>2
    <3>4. proc'[p].token = proc[p].token /\ \A q \in Procs \ {p} : proc'[q] = proc[q]
      BY <1>0, <3>3 DEF ProcState
    <3> QED BY <2>1, <3>2, <3>4 DEF TokenShown, KeepsToken, TokenStep
  <2> QED BY <2>2, <2>3
<1>15. CASE worker_unknown(p) \/ worker_deliver(p)
  <2>1. lease' = lease /\ fence' = fence /\ exit(p)
    BY <1>15 DEF worker_unknown, worker_deliver, mark_submission_unknown,
       mark_cancel_unknown, mark_delivered, mark_cancel_delivered
  <2> QED BY <1>1, <2>1, ExitKeeps
<1>16. CASE worker_apply(p) \/ worker_apply_copy(p)
  <2>1. lease' = lease /\ fence' = fence /\ proc[p].pc \in FencedStep
    BY <1>16, IngestLease DEF worker_apply, worker_apply_copy, at_step, FencedStep
  <2>2. PICK s, ans : \/ proc' = [proc EXCEPT ![p].pc = s]
                      \/ proc' = [proc EXCEPT ![p].answer = ans, ![p].pc = s]
    BY <1>16 DEF worker_apply, worker_apply_copy, goto
  <2>3. proc'[p].token = proc[p].token /\ \A q \in Procs \ {p} : proc'[q] = proc[q]
    BY <1>0, <2>2 DEF ProcState
  <2> QED BY <1>1, <2>1, <2>3 DEF KeepsToken
<1> QED BY <1>2, <1>3, <1>4, <1>5, <1>6, <1>7, <1>8, <1>9, <1>10, <1>11, <1>12, <1>13, <1>14,
           <1>15, <1>16 DEF step

\* A step of the environment.
LEMMA EnvTokens ==
  ASSUME TypeInv, Env
  PROVE  TokenStep
<1>1. ASSUME lease' = lease, fence' = fence, \A q \in Procs : KeepsToken(q) PROVE TokenStep
  BY <1>1 DEF QuietTokens, TokenStep
<1>2. ASSUME lease' = lease, fence' = fence, proc' = proc PROVE TokenStep
  BY <1>1, <1>2 DEF KeepsToken
<1>3. ASSUME NEW p \in Procs, crash(p) PROVE TokenStep
  BY <1>1, <1>3, ExitKeeps DEF crash
<1>4. CASE tick \/ operator_freeze \/ operator_unfreeze
  BY <1>2, <1>4 DEF tick, operator_freeze, freeze, operator_unfreeze, resolve_freeze_ticket
<1>5. ASSUME NEW i \in Intents, operator_stage(i) \/ operator_cancel(i) \/ operator_approve(i)
      PROVE  TokenStep
  BY <1>2, <1>5 DEF operator_stage, stage, operator_cancel, request_cancel, operator_approve, approve
<1>6. ASSUME NEW i, NEW a, NEW q, operator_arm(i, a, q) PROVE TokenStep
  BY <1>2, <1>6, ArmLease DEF operator_arm
<1>7. ASSUME NEW age, NEW static, quote_arrives(age, static) PROVE TokenStep
  BY <1>2, <1>7 DEF quote_arrives, record_quote_snapshot
<1>8. ASSUME NEW k, broker_fill(k) \/ broker_commission(k) \/ broker_inject(k) PROVE TokenStep
  BY <1>2, <1>8 DEF broker_fill, fill, broker_commission, commission, broker_inject,
     inject_broker_only_order
<1>9. ASSUME NEW n, broker_callback(n) PROVE TokenStep
  BY <1>2, <1>9, IngestLease DEF broker_callback
<1> QED BY <1>3, <1>4, <1>5, <1>6, <1>7, <1>8, <1>9 DEF Env

\* Every step.
LEMMA NextTokens == TypeInv /\ [Next]_vars => TokenStep
<1> SUFFICES ASSUME TypeInv, [Next]_vars PROVE TokenStep
  OBVIOUS
<1>1. CASE UNCHANGED vars
  BY <1>1 DEF vars, QuietTokens, KeepsToken, TokenStep
<1>2. ASSUME NEW p \in Procs, NEW kind, NEW owner, start(p, kind, owner) PROVE TokenStep
  <2>1. lease' = lease /\ fence' = fence
    BY <1>2 DEF start, open_store
  <2>2. PICK r : proc' = [proc EXCEPT ![p] = r] /\ r.token = 0
    <3>1. PICK s : proc' = [proc EXCEPT ![p] = [Idle EXCEPT !.pc = s, !.kind = kind,
                                                            !.owner = owner, !.at = now]]
      BY <1>2 DEF start
    <3> DEFINE r == [Idle EXCEPT !.pc = s, !.kind = kind, !.owner = owner, !.at = now]
    <3>2. proc' = [proc EXCEPT ![p] = r] /\ r.token = 0
      BY <3>1, FreshToken
    <3> HIDE DEF r
    <3> QED BY <3>2
  <2> QED BY <2>1, <2>2, OthersKeep DEF KeepsToken, QuietTokens, TokenStep
<1> QED BY <1>1, <1>2, StepTokens, EnvTokens DEF Next

LEMMA InitTokens == Init => TokenInv
  BY DEF Init, StoreInit, BrokerInit, Idle, TokenInv, FencingTokens, FencedStep

LEMMA TokenInvStep == TypeInv /\ TokenInv /\ [Next]_vars => TokenInv'
  BY TypeInvStep, NextTokens, TokenInductive

\* A fencing token is never held by two workers, never newer than the lease row, and
\* the broker believes in none that was not handed out, for any number of processes.
THEOREM FencingTokensHold == Spec => []FencingTokens
<1>1. TokenInv => FencingTokens
  BY DEF TokenInv
<1> QED BY <1>1, InitTypeInv, TypeInvStep, InitTokens, TokenInvStep, PTL DEF Spec

\* Only the writer with the newest published token creates or cancels orders, for any
\* number of processes: the broker checks the token in the transaction that writes.
THEOREM NewestWriterAlone == Spec => NewestWriterWrites
<1> DEFINE P == \A p, q \in Procs :
                  /\ proc[p].pc \in {"submit", "cancel"}
                  /\ proc'[p] # proc[p]
                  /\ orders' # orders
                  /\ proc[q].pc \in FencedStep
                  => proc[q].token <= proc[p].token
<1>1. TypeInv /\ TokenInv /\ [Next]_vars => [P]_vars
  <2> SUFFICES ASSUME TypeInv, TokenInv, [Next]_vars,
                      NEW p \in Procs, NEW q \in Procs,
                      proc[p].pc \in {"submit", "cancel"}, proc'[p] # proc[p],
                      orders' # orders, proc[q].pc \in FencedStep
               PROVE  proc[q].token <= proc[p].token
    OBVIOUS
  <2>1. /\ fence \in Nat
        /\ proc[p].token \in Nat /\ proc[q].token \in Nat
        /\ proc[q].token <= fence
    BY TokenTypes DEF TokenInv
  <2>2. worker_submit(p) \/ worker_cancel(p)
    <3>1. proc \in [Procs -> ProcState] /\ vars' # vars
      BY ProcFacts DEF vars
    <3>2. ~Env
      BY DEF Env, tick, crash, operator_stage, operator_cancel, operator_approve, operator_arm,
         quote_arrives, operator_freeze, operator_unfreeze, broker_fill, broker_commission,
         broker_inject, broker_callback
    <3>3. ASSUME NEW r \in Procs, NEW kind, NEW owner, start(r, kind, owner) PROVE FALSE
      BY <3>3 DEF start
    <3>4. PICK r \in Procs : step(r)
      BY <3>1, <3>2, <3>3 DEF Next
    <3>5. worker_fence(r) => orders' = orders
      BY DEF worker_fence, advance_fence
    <3>6. worker_submit(r) \/ worker_cancel(r)
      BY <3>4, <3>5, SnapshotFrame DEF step, brokerVars, reconcile_begin, reconcile_recover,
         reconcile_read_local, reconcile_ingest, reconcile_resolve, reconcile_resolved,
         reconcile_absent, reconcile_positions, reconcile_protection,
         reconcile_cash, reconcile_record,
         reconcile_conclude, observe_authority, arm_command, worker_lease, worker_claim,
         worker_claim_cancel, worker_validate, worker_unknown, worker_apply_copy, worker_apply,
         worker_deliver
    <3>7. r = p
      <4>1. \A x \in Procs \ {r} : proc'[x] = proc[x]
        <5>1. CASE worker_submit(r)
          BY <3>1, <5>1 DEF worker_submit, exit
        <5>2. CASE worker_cancel(r)
          BY <3>1, <5>2 DEF worker_cancel, exit
        <5> QED BY <3>6, <5>1, <5>2
      <4> QED BY <4>1
    <3> QED BY <3>6, <3>7
  <2>3. accept_fencing_token(proc[p].token)
    BY <2>2 DEF worker_submit, worker_cancel, submit_known, submit_new, cancel_order
  <2> QED BY <2>1, <2>3 DEF accept_fencing_token
<1> QED BY <1>1, InitTypeInv, TypeInvStep, InitTokens, TokenInvStep, PTL
        DEF Spec, NewestWriterWrites

-----------------------------------------------------------------------------
(* Orphan events.                                                          *)

\* The inductive form: the ticket, and inbox positions that exist in the log.
OrphanInv ==
    /\ inbox \subseteq 1 .. Len(events)
    /\ \A n \in inbox :
         events[n].key \in ExternalKeys => "BROKER_ONLY_ORDER_OR_EVENT" \in tickets

\* The inbox grows by events of the log; one without an intent opens the ticket.
InboxStep ==
    /\ LogGrows
    /\ \/ inbox' = inbox
       \/ \E n \in 1 .. Len(events) :
            /\ inbox' = inbox \union {n}
            /\ events[n].key \in ExternalKeys => "BROKER_ONLY_ORDER_OR_EVENT" \in tickets'

LEMMA OrphanInductive ==
  ASSUME TypeInv, OrphanInv, InboxStep, GateStep
  PROVE  OrphanInv'
<1>1. "BROKER_ONLY_ORDER_OR_EVENT" \in tickets => "BROKER_ONLY_ORDER_OR_EVENT" \in tickets'
  <2>1. \/ tickets' = tickets
        \/ \E r \in FreezeReason : tickets' = tickets \union {r}
        \/ tickets' = tickets \ {"MANUAL_OPERATOR_FREEZE"}
        \/ tickets' = tickets \ ReconcilerOwned
    BY DEF GateStep, open_freeze_ticket
  <2>2. "BROKER_ONLY_ORDER_OR_EVENT" \notin ReconcilerOwned
    BY DEF ReconcilerOwned
  <2> QED BY <2>1, <2>2
<1>2. /\ Len(events) \in Nat /\ Len(events') >= Len(events) /\ Len(events') \in Int
      /\ \A n \in 1 .. Len(events) : events'[n] = events[n]
  BY DEF TypeInv, TypeOK, BrokerTypeOK, InboxStep, LogGrows
<1>3. CASE inbox' = inbox
  BY <1>1, <1>2, <1>3 DEF OrphanInv
<1>4. ASSUME NEW n \in 1 .. Len(events), inbox' = inbox \union {n},
             events[n].key \in ExternalKeys => "BROKER_ONLY_ORDER_OR_EVENT" \in tickets'
      PROVE  OrphanInv'
  BY <1>1, <1>2, <1>4 DEF OrphanInv
<1> QED BY <1>3, <1>4 DEF InboxStep

\* Ingesting an event of the log.
LEMMA IngestInbox ==
  ASSUME NEW n \in 1 .. Len(events), ingest_broker_event(n, events[n]), LogGrows
  PROVE  InboxStep
<1>1. CASE n \in inbox
  BY <1>1 DEF ingest_broker_event, InboxStep
<1>2. CASE n \notin inbox /\ events[n].key \in Staged
  BY <1>2, TypesAssumption DEF ingest_broker_event, apply_broker_event, InboxStep, Staged
<1>3. CASE n \notin inbox /\ events[n].key \notin Staged
  BY <1>3 DEF ingest_broker_event, apply_broker_event, open_freeze_ticket, InboxStep
<1> QED BY <1>1, <1>2, <1>3

LEMMA ArmInbox ==
  ASSUME NEW i, NEW a, NEW q, NEW t, arm_call(i, a, q, t) PROVE inbox' = inbox
  BY DEF arm_call, arm_approved_intent, arm_authority_stale, arm_quote_stale, freeze

\* A step of a running command.
LEMMA StepInbox ==
  ASSUME TypeInv, NEW p \in Procs, step(p), LogGrows
  PROVE  InboxStep
<1>0. proc[p] \in ProcState /\ ProcOK(proc[p], Len(events)) /\ Len(events) \in Nat
  BY ProcFacts
<1>1. CASE inbox' = inbox
  BY <1>1 DEF InboxStep
<1>2. CASE reconcile_ingest(p)
  <2>1. proc[p].next \in 1 .. Len(events)
    BY <1>0, <1>2 DEF reconcile_ingest, at_step, ProcOK, ProcState
  <2>2. ingest_broker_event(proc[p].next, events[proc[p].next]) \/ UNCHANGED storeVars
    BY <1>2 DEF reconcile_ingest
  <2> QED BY <1>1, <2>1, <2>2, IngestInbox
<1>3. CASE worker_apply(p) \/ worker_apply_copy(p)
  <2>1. PICK n \in proc[p].answer : ingest_broker_event(n, events[n])
    BY <1>3 DEF worker_apply, worker_apply_copy
  <2>2. n \in 1 .. Len(events)
    BY <1>0 DEF ProcOK
  <2> QED BY <2>1, <2>2, IngestInbox
<1>4. CASE \/ snapshot(p) \/ reconcile_read_local(p)
           \/ reconcile_resolved(p) \/ worker_fence(p)
           \/ worker_validate(p) \/ worker_submit(p) \/ worker_cancel(p)
  BY <1>1, <1>4, SnapshotFrame DEF reconcile_read_local, reconcile_resolved,
     worker_fence, worker_validate, worker_submit, worker_cancel
<1>5. CASE \/ reconcile_begin(p) \/ reconcile_recover(p) \/ reconcile_record(p)
           \/ reconcile_positions(p) \/ reconcile_protection(p) \/ reconcile_cash(p)
           \/ reconcile_conclude(p) \/ observe_authority(p)
  BY <1>1, <1>5 DEF reconcile_begin, freeze, reconcile_recover, recover_claimed_as_unknown,
     reconcile_positions, reconcile_protection, reconcile_cash, set_account_baseline,
     reconcile_record, record_discrepancies,
     reconcile_conclude, unfreeze_after_reconciliation, observe_authority,
     record_broker_snapshot_authority
<1>6. ASSUME NEW k \in Keys, reconcile_resolve(p, k) PROVE InboxStep
  BY <1>1, <1>6 DEF reconcile_resolve, resolve_unknown_at_broker
<1>7. ASSUME NEW i \in Intents, reconcile_absent(p, i) PROVE InboxStep
  BY <1>1, <1>7 DEF reconcile_absent, requeue_unknown_absent_at_broker
<1>8. CASE arm_command(p)
  BY <1>1, <1>8, ArmInbox DEF arm_command
<1>9. CASE worker_lease(p) \/ worker_claim(p) \/ worker_claim_cancel(p)
  BY <1>1, <1>9 DEF worker_lease, acquire_lease, worker_claim, claim_next_raises, claim_next_empty,
     claim_next_expires_arm, claim_next_expires_reservation, claim_next, worker_claim_cancel,
     claim_next_cancel
<1>10. CASE worker_unknown(p) \/ worker_deliver(p)
  BY <1>1, <1>10 DEF worker_unknown, worker_deliver, mark_submission_unknown,
     mark_cancel_unknown, mark_delivered, mark_cancel_delivered
<1> QED BY <1>2, <1>3, <1>4, <1>5, <1>6, <1>7, <1>8, <1>9, <1>10 DEF step

\* A step of the environment.
LEMMA EnvInbox ==
  ASSUME TypeInv, Env, LogGrows
  PROVE  InboxStep
<1>1. CASE inbox' = inbox
  BY <1>1 DEF InboxStep
<1>2. CASE tick \/ (\E p \in Procs : crash(p)) \/ operator_freeze \/ operator_unfreeze
  BY <1>1, <1>2 DEF tick, crash, operator_freeze, freeze, operator_unfreeze, resolve_freeze_ticket
<1>3. ASSUME NEW i \in Intents, operator_stage(i) \/ operator_cancel(i) \/ operator_approve(i)
      PROVE  InboxStep
  BY <1>1, <1>3 DEF operator_stage, stage, operator_cancel, request_cancel, operator_approve, approve
<1>4. ASSUME NEW i, NEW a, NEW q, operator_arm(i, a, q) PROVE InboxStep
  BY <1>1, <1>4, ArmInbox DEF operator_arm
<1>5. ASSUME NEW age, NEW static, quote_arrives(age, static) PROVE InboxStep
  BY <1>1, <1>5 DEF quote_arrives, record_quote_snapshot
<1>6. ASSUME NEW k, broker_fill(k) \/ broker_commission(k) \/ broker_inject(k) PROVE InboxStep
  BY <1>1, <1>6 DEF broker_fill, broker_commission, broker_inject
<1>7. ASSUME NEW n, broker_callback(n) PROVE InboxStep
  BY <1>7, IngestInbox DEF broker_callback
<1> QED BY <1>2, <1>3, <1>4, <1>5, <1>6, <1>7 DEF Env

\* The broker's log only grows.
LEMMA NextLog == TypeInv /\ [Next]_vars => LogGrows
<1> SUFFICES ASSUME TypeInv, [Next]_vars PROVE LogGrows
  OBVIOUS
<1>0. BrokerTypeOK
  BY DEF TypeInv, TypeOK
<1>1. CASE UNCHANGED brokerVars
  BY <1>1, BrokerStays
<1>2. ASSUME NEW p \in Procs, step(p) PROVE LogGrows
  <2>1. proc[p].token \in Nat /\ ProcOK(proc[p], Len(events))
    BY ProcFacts DEF ProcState
  <2>2. CASE worker_fence(p)
    BY <1>0, <1>1, <2>1, <2>2, AdvanceFenceTypes DEF worker_fence
  <2>3. CASE worker_submit(p)
    <3>1. proc[p].work \in Keys
      BY <2>1, <2>3 DEF worker_submit, at_step, ProcOK, WorkStep, Keys
    <3>2. \/ UNCHANGED brokerVars
          \/ submit_known(proc[p].work, proc[p].token)
          \/ \E sc \in SubmitScenario : submit_new(proc[p].work, proc[p].token, sc)
      BY <2>3, PlaneAssumption DEF worker_submit
    <3> QED BY <1>0, <1>1, <2>1, <3>1, <3>2, SubmitTypes
  <2>4. CASE worker_cancel(p)
    <3>1. proc[p].work \in Keys
      BY <2>1, <2>4 DEF worker_cancel, at_step, ProcOK, WorkStep, Keys
    <3>2. UNCHANGED brokerVars \/ cancel_order(proc[p].work, proc[p].token, 0)
      BY <2>4 DEF worker_cancel
    <3> QED BY <1>0, <1>1, <2>1, <3>1, <3>2, CancelOrderTypes
  <2>5. CASE ~(worker_fence(p) \/ worker_submit(p) \/ worker_cancel(p))
    <3>1. UNCHANGED brokerVars
      BY <1>2, <2>5, SnapshotFrame DEF step, reconcile_begin, reconcile_recover,
         reconcile_read_local, reconcile_ingest, reconcile_resolve, reconcile_resolved,
         reconcile_absent, reconcile_positions, reconcile_protection,
         reconcile_cash, reconcile_record,
         reconcile_conclude, observe_authority, arm_command, worker_lease, worker_claim,
         worker_claim_cancel, worker_validate, worker_unknown, worker_apply_copy, worker_apply,
         worker_deliver
    <3> QED BY <1>1, <3>1
  <2> QED BY <2>2, <2>3, <2>4, <2>5
<1>3. CASE Env
  <2>1. ASSUME NEW k \in Keys, broker_fill(k) \/ broker_commission(k) \/ broker_inject(k)
        PROVE  LogGrows
    BY <1>0, <2>1, FillTypes, OtherBrokerTypes, TypesAssumption
    DEF broker_fill, broker_commission, broker_inject
  <2>2. CASE ~ \E k \in Keys : broker_fill(k) \/ broker_commission(k) \/ broker_inject(k)
    <3>1. UNCHANGED brokerVars
      BY <1>3, <2>2 DEF Env, tick, crash, operator_stage, operator_cancel, operator_approve,
         operator_arm, quote_arrives, operator_freeze, operator_unfreeze, broker_callback, Keys
    <3> QED BY <1>1, <3>1
  <2> QED BY <2>1, <2>2
<1>4. ASSUME NEW p \in Procs, NEW kind, NEW owner, start(p, kind, owner) PROVE LogGrows
  BY <1>1, <1>4 DEF start
<1> QED BY <1>1, <1>2, <1>3, <1>4 DEF Next, vars

\* An event that belongs to no intent keeps new risk frozen for good: no reconciliation,
\* operator or restart resolves the ticket it opened, and the flag follows the ticket.
THEOREM OrphansKeepFreeze == Spec => []OrphanKeepsFreeze
<1>1. Init => OrphanInv
  BY DEF Init, StoreInit, OrphanInv
<1>2. TypeInv /\ OrphanInv /\ [Next]_vars => OrphanInv'
  <2> SUFFICES ASSUME TypeInv, OrphanInv, [Next]_vars PROVE OrphanInv'
    OBVIOUS
  <2>1. LogGrows /\ GateStep
    BY NextLog, NextGate
  <2>2. InboxStep
    <3>1. CASE UNCHANGED vars
      BY <2>1, <3>1 DEF vars, InboxStep
    <3>2. ASSUME NEW p \in Procs, NEW kind, NEW owner, start(p, kind, owner) PROVE InboxStep
      BY <2>1, <3>2 DEF start, open_store, InboxStep
    <3> QED BY <2>1, <3>1, <3>2, StepInbox, EnvInbox DEF Next
  <2> QED BY <2>1, <2>2, OrphanInductive
<1>3. OrphanInv /\ FreezeGate => OrphanKeepsFreeze
  BY DEF OrphanInv, FreezeGate, OrphanKeepsFreeze
<1> QED BY <1>1, <1>2, <1>3, InitTypeInv, TypeInvStep, FreezeGateHolds, PTL DEF Spec
=============================================================================
