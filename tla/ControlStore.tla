---------------------------- MODULE ControlStore ----------------------------
(***************************************************************************)
(* DurableExecutionStore (execution/control_store.py): the SQLite control  *)
(* plane that holds intents, reservations, the submit outbox, the cancel   *)
(* commands, the broker event inbox, freeze tickets, the writer lease and  *)
(* the approval arms.                                                      *)
(*                                                                         *)
(* Every method that commits one transaction is one action here, with the  *)
(* method's arguments as parameters.  A method that raises without having  *)
(* committed anything leaves the store unchanged: its caller sees that the *)
(* action's guard does not hold.  Every intent is a BUY of the one traded  *)
(* instrument at price 1, so cash moves by one unit per filled share.      *)
(***************************************************************************)
EXTENDS QuoteAdmission, ExecutionTypes, FiniteSets, FiniteSetsExt

CONSTANTS
    Manual,             \* the intents staged as APPROVAL_PENDING
    Owners,             \* lease owner ids
    Notional,           \* notional_reserved of an intent
    Capacity,           \* account_notional_capacity
    ReservationLife,    \* reservation.expires_at - created_at
    LeaseTtl,           \* ttl of acquire_lease
    AuthorityMaxAge,    \* authority_max_age of arm_approved_intent
    ArmTtl              \* requested expires_at - at of an arm

ASSUME StoreAssumption ==
    /\ Manual \subseteq Intents
    /\ Notional \in Nat
    /\ Capacity \in Nat
    /\ ReservationLife \in Nat \ {0}
    /\ LeaseTtl \in Nat \ {0}
    /\ AuthorityMaxAge \in Nat
    /\ ArmTtl \in Nat \ {0}

VARIABLES
    status,         \* execution_intents.status, "ABSENT" before stage
    filled,         \* execution_intents.filled_quantity
    reservation,    \* risk_reservations: status and expires_at
    outbox,         \* outbox_commands: status, rowid, claimed_at
    cancel,         \* cancel_commands: status, rowid
    rowid,          \* last rowid handed out (order of insertion is all that matters)
    tickets,        \* reason codes of the unresolved BLOCKING freeze tickets
    frozen,         \* control_state.frozen, the flag claim_next reads
    lease,          \* the broker-writer row of execution_leases
    inbox,          \* broker_event_ids present in broker_event_inbox
    cashDelta,      \* cash_projection.cash_delta
    baseline,       \* broker_account_baseline: set?, cash, projection_cash_delta
    openDisc,       \* OPEN rows of reconciliation_discrepancies
    approval,       \* operator_approvals has a row for the intent
    arm,            \* newest approval_arms version of the intent
    authorities,    \* snapshot_as_of of the CONVERGED authority rows
    quotes          \* quote_snapshots

intentVars == <<status, filled, reservation>>
queueVars  == <<outbox, cancel, rowid>>
gateVars   == <<tickets, frozen>>
econVars   == <<inbox, cashDelta, baseline>>
armVars    == <<approval, arm, authorities, quotes>>
storeVars  == <<intentVars, queueVars, gateVars, lease, econVars, openDisc, armVars>>

-----------------------------------------------------------------------------
FreezeReason ==
    {"STARTUP_RECONCILIATION", "RECONCILIATION_IN_PROGRESS",
     "CRITICAL_RECONCILIATION_DISCREPANCY", "INCOMPLETE_BROKER_SNAPSHOT",
     "BROKER_SNAPSHOT_CONSENSUS_PENDING", "BROKER_ONLY_ORDER_OR_EVENT",
     "BROKER_AUTHORITY_STALE", "MARKET_QUOTE_STALE", "MANUAL_OPERATOR_FREEZE"}

\* The tickets a converged reconciliation resolves; the others stay open.
ReconcilerOwned ==
    {"STARTUP_RECONCILIATION", "RECONCILIATION_IN_PROGRESS",
     "CRITICAL_RECONCILIATION_DISCREPANCY", "INCOMPLETE_BROKER_SNAPSHOT",
     "BROKER_SNAPSHOT_CONSENSUS_PENDING"}

Staged == {i \in Intents : status[i] # "ABSENT"}

NoArm == [status |-> "NONE", expires |-> 0, authority |-> 0,
          quote |-> [observed |-> 0, provider |-> 0, static |-> {}]]

\* A new control database: the schema script seeds control_state frozen=1 and the
\* constructor opens the startup ticket.
StoreInit ==
    /\ status = [i \in Intents |-> "ABSENT"]
    /\ filled = [i \in Intents |-> 0]
    /\ reservation = [i \in Intents |-> [status |-> "ABSENT", expires |-> 0]]
    /\ outbox = [i \in Intents |-> [status |-> "ABSENT", row |-> 0, claimedAt |-> -1]]
    /\ cancel = [i \in Intents |-> [status |-> "ABSENT", row |-> 0]]
    /\ rowid = 0
    /\ tickets = {"STARTUP_RECONCILIATION"}
    /\ frozen = TRUE
    /\ lease = [owner |-> "nobody", token |-> 0, expires |-> 0]
    /\ inbox = {}
    /\ cashDelta = 0
    /\ baseline = [set |-> FALSE, cash |-> 0, delta |-> 0]
    /\ openDisc = {}
    /\ approval = [i \in Intents |-> FALSE]
    /\ arm = [i \in Intents |-> NoArm]
    /\ authorities = {}
    /\ quotes = {}

-----------------------------------------------------------------------------
(* Freeze tickets and the control_state flag.                              *)

\* A ticket is identified by reason and source; reopening an unresolved one is a
\* no-op, and a new BLOCKING ticket always raises the flag.
open_freeze_ticket(reason) ==
    /\ tickets' = tickets \union {reason}
    /\ frozen' = IF reason \in tickets THEN frozen ELSE TRUE

\* resolve_freeze_ticket resolves the ticket and leaves control_state alone.
resolve_freeze_ticket(reason) ==
    /\ tickets' = tickets \ {reason}
    /\ UNCHANGED <<frozen, intentVars, queueVars, lease, econVars, openDisc, armVars>>

\* Mutant: the flag is cleared although somebody else's ticket is still open.
unfreeze_after_reconciliation_forgets_remaining ==
    /\ tickets' = tickets \ ReconcilerOwned
    /\ frozen' = FALSE
    /\ UNCHANGED <<intentVars, queueVars, lease, econVars, openDisc, armVars>>

\* Mutant: the reconciler takes every ticket for its own.
unfreeze_after_reconciliation_resolves_all ==
    /\ tickets' = {}
    /\ frozen' = FALSE
    /\ UNCHANGED <<intentVars, queueVars, lease, econVars, openDisc, armVars>>

\* The reconciler resolves its own tickets and recomputes the flag from the rest.
unfreeze_after_reconciliation ==
    /\ tickets' = tickets \ ReconcilerOwned
    /\ frozen' = (tickets' # {})
    /\ UNCHANGED <<intentVars, queueVars, lease, econVars, openDisc, armVars>>

\* Opening the database (DurableExecutionStore.__init__) in any process.
open_store ==
    /\ open_freeze_ticket("STARTUP_RECONCILIATION")
    /\ UNCHANGED <<intentVars, queueVars, lease, econVars, openDisc, armVars>>

\* A ticket opened in a transaction of its own.
freeze(reason) ==
    /\ open_freeze_ticket(reason)
    /\ UNCHANGED <<intentVars, queueVars, lease, econVars, openDisc, armVars>>

-----------------------------------------------------------------------------
(* Staging, approval and arming.                                           *)

\* The reservation statuses that stage and the risk view count.
ActiveReservation == {"ACTIVE", "PARTIALLY_CONSUMED"}

\* Mutant: a partly consumed reservation no longer counts.
active_reserved_notional_untouched ==
    Notional * Cardinality({i \in Intents : reservation[i].status = "ACTIVE"})

active_reserved_notional ==
    Notional * Cardinality({i \in Intents : reservation[i].status \in ActiveReservation})

\* _enqueue: the outbox row is immutable, so a second call only moves the status, from
\* APPROVED or APPROVAL_PENDING (the one other status of a caller is OUTBOXED itself).
enqueue(i) ==
    /\ status' = [status EXCEPT ![i] = "OUTBOXED"]
    /\ IF outbox[i].row = 0
       THEN /\ outbox' = [outbox EXCEPT
                            ![i] = [status |-> "PENDING", row |-> rowid + 1, claimedAt |-> -1]]
            /\ rowid' = rowid + 1
       ELSE UNCHANGED <<outbox, rowid>>

\* Capsule, reservation, intent and outbox row commit together or not at all.  The
\* decision loop stages an intent once.
stage(i, at) ==
    /\ status[i] = "ABSENT"
    /\ tickets = {}
    /\ active_reserved_notional + Notional <= Capacity
    /\ reservation' = [reservation EXCEPT
                         ![i] = [status |-> "ACTIVE", expires |-> at + ReservationLife]]
    /\ IF i \in Manual
       THEN /\ status' = [status EXCEPT ![i] = "APPROVAL_PENDING"]
            /\ UNCHANGED <<outbox, rowid>>
       ELSE enqueue(i)
    /\ UNCHANGED <<filled, cancel, gateVars, lease, econVars, openDisc, armVars>>

\* A second approval never matches the stored receipt (the receipt carries the
\* projection version, which approving increments), so it is refused.
approve(i, at) ==
    /\ tickets = {}
    /\ status[i] \in {"APPROVAL_PENDING", "APPROVED", "OUTBOXED"}
    /\ reservation[i].expires > at
    /\ ~approval[i]
    /\ approval' = [approval EXCEPT ![i] = TRUE]
    /\ status' = [status EXCEPT ![i] = "APPROVED"]
    /\ UNCHANGED <<filled, reservation, queueVars, gateVars, lease, econVars,
                   openDisc, arm, authorities, quotes>>

record_broker_snapshot_authority(asOf) ==
    /\ authorities' = authorities \union {asOf}
    /\ UNCHANGED <<intentVars, queueVars, gateVars, lease, econVars, openDisc,
                   approval, arm, quotes>>

record_quote_snapshot(q) ==
    /\ quotes' = quotes \union {q}
    /\ UNCHANGED <<intentVars, queueVars, gateVars, lease, econVars, openDisc,
                   approval, arm, authorities>>

\* The checks arm_approved_intent makes before it looks at any evidence.
arm_admissible(i, a) ==
    /\ tickets = {}
    /\ status[i] \in {"APPROVED", "OUTBOXED"}
    /\ a \in authorities

\* Too old (or future) authority: the ticket is committed, then the call raises.
arm_authority_stale(i, a, at) ==
    /\ arm_admissible(i, a)
    /\ ~ at - a \in 0 .. AuthorityMaxAge
    /\ freeze("BROKER_AUTHORITY_STALE")

\* Quote observed too long ago: likewise.
arm_quote_stale(i, a, q, at) ==
    /\ arm_admissible(i, a)
    /\ at - a \in 0 .. AuthorityMaxAge
    /\ q \in quotes
    /\ "OBSERVED_QUOTE_STALE" \in quote_reasons(q, at)
    /\ freeze("MARKET_QUOTE_STALE")

\* Mutant: the authority's own expiry is left out of the minimum.
arm_expires_ignores_authority(i, a, q, at) ==
    Min({at + ArmTtl, quote_valid_until(q), reservation[i].expires})

\* effective_expires_at: the requested expiry cut down to every upstream expiry
\* (the approval expires with the reservation).
arm_expires(i, a, q, at) ==
    Min({at + ArmTtl, quote_valid_until(q), a + AuthorityMaxAge, reservation[i].expires})

\* A new version replaces the active one and the submit command is enqueued.
\* (An identical re-arm returns the active version: the same state.)
arm_approved_intent(i, a, q, at) ==
    /\ arm_admissible(i, a)
    /\ at - a \in 0 .. AuthorityMaxAge
    /\ q \in quotes
    /\ quote_eligible(q, at)
    /\ approval[i]
    /\ arm_expires(i, a, q, at) > at
    /\ arm' = [arm EXCEPT ![i] = [status |-> "ACTIVE", expires |-> arm_expires(i, a, q, at),
                                  authority |-> a, quote |-> q]]
    /\ enqueue(i)
    /\ UNCHANGED <<filled, reservation, cancel, gateVars, lease, econVars, openDisc,
                   approval, authorities, quotes>>

-----------------------------------------------------------------------------
(* The writer lease.                                                       *)

lease_available(owner, at) == ~(lease.expires > at /\ lease.owner # owner)

\* Mutant: renewing a lease one already owns keeps the fencing token.
acquire_lease_reuses_token(owner, at) ==
    /\ lease_available(owner, at)
    /\ lease' = [owner |-> owner, expires |-> at + LeaseTtl,
                 token |-> IF lease.owner = owner THEN lease.token ELSE lease.token + 1]
    /\ UNCHANGED <<intentVars, queueVars, gateVars, econVars, openDisc, armVars>>

\* Every acquisition, a renewal by the same owner included, takes a new token.
acquire_lease(owner, at) ==
    /\ lease_available(owner, at)
    /\ lease' = [owner |-> owner, expires |-> at + LeaseTtl, token |-> lease.token + 1]
    /\ UNCHANGED <<intentVars, queueVars, gateVars, econVars, openDisc, armVars>>

validate_lease(owner, token, at) ==
    /\ lease.owner = owner
    /\ lease.token = token
    /\ lease.expires > at

-----------------------------------------------------------------------------
(* The submit outbox.                                                      *)

\* The oldest PENDING submit command.
outbox_head(i) ==
    /\ outbox[i].status = "PENDING"
    /\ \A j \in Intents : outbox[j].status = "PENDING" => outbox[i].row <= outbox[j].row

latest_broker_snapshot_authority(a) ==
    a \in authorities /\ \A b \in authorities : b <= a

\* The evidence an arm is bound to still holds when the command is claimed.
arm_holds(i, at) ==
    /\ arm[i].expires > at
    /\ latest_broker_snapshot_authority(arm[i].authority)
    /\ quote_eligible(arm[i].quote, at)

\* Mutant: only the lease is looked at.
claim_admitted_frozen(owner, token, at) == validate_lease(owner, token, at)

\* claim_next may be called and reaches the head of the outbox.
claim_admitted(owner, token, at) == ~frozen /\ validate_lease(owner, token, at)

\* It raises: frozen, fenced, or the head needs an arm it does not have.
claim_next_raises(owner, token, at) ==
    /\ \/ ~claim_admitted(owner, token, at)
       \/ \E i \in Intents : outbox_head(i) /\ approval[i] /\ arm[i].status # "ACTIVE"
    /\ UNCHANGED storeVars

\* It raises after expiring the head's arm.
claim_next_expires_arm(owner, token, at, i) ==
    /\ claim_admitted(owner, token, at)
    /\ outbox_head(i)
    /\ approval[i]
    /\ arm[i].status = "ACTIVE"
    /\ ~arm_holds(i, at)
    /\ arm' = [arm EXCEPT ![i].status = "EXPIRED"]
    /\ UNCHANGED <<intentVars, queueVars, gateVars, lease, econVars, openDisc,
                   approval, authorities, quotes>>

\* It returns None: nothing is pending.
claim_next_empty(owner, token, at) ==
    /\ claim_admitted(owner, token, at)
    /\ \A i \in Intents : outbox[i].status # "PENDING"
    /\ UNCHANGED storeVars

\* The head may go out: no approval was given, or its arm is active and holds.
head_cleared(owner, token, at, i) ==
    /\ claim_admitted(owner, token, at)
    /\ outbox_head(i)
    /\ approval[i] => arm[i].status = "ACTIVE" /\ arm_holds(i, at)

\* It returns None: the head's reservation has expired and the intent with it.
claim_next_expires_reservation(owner, token, at, i) ==
    /\ head_cleared(owner, token, at, i)
    /\ reservation[i].expires <= at
    /\ outbox' = [outbox EXCEPT ![i].status = "DELIVERED"]
    /\ status' = [status EXCEPT ![i] = "EXPIRED"]
    /\ reservation' = [reservation EXCEPT ![i].status = "EXPIRED"]
    /\ UNCHANGED <<filled, cancel, rowid, gateVars, lease, econVars, openDisc, armVars>>

\* Mutant: the arm stays active after it has been used.
consume_arm_never(i) == arm

\* An arm authorises one claim.
consume_arm(i) == IF approval[i] THEN [arm EXCEPT ![i].status = "CONSUMED"] ELSE arm

\* It returns the head's command and intent, claimed; the arm is consumed.
claim_next(owner, token, at, i) ==
    /\ head_cleared(owner, token, at, i)
    /\ reservation[i].expires > at
    /\ outbox' = [outbox EXCEPT ![i].status = "CLAIMED", ![i].claimedAt = at]
    /\ status' = [status EXCEPT ![i] = "SUBMITTING"]
    /\ arm' = consume_arm(i)
    /\ UNCHANGED <<filled, reservation, cancel, rowid, gateVars, lease, econVars,
                   openDisc, approval, authorities, quotes>>

mark_submission_unknown(i) ==
    /\ outbox' = [outbox EXCEPT ![i].status = "UNKNOWN"]
    /\ status' = [status EXCEPT ![i] = "SUBMISSION_UNKNOWN"]
    /\ UNCHANGED <<filled, reservation, cancel, rowid, gateVars, lease, econVars,
                   openDisc, armVars>>

mark_delivered(i) ==
    /\ outbox' = [outbox EXCEPT ![i].status = "DELIVERED"]
    /\ UNCHANGED <<intentVars, cancel, rowid, gateVars, lease, econVars, openDisc, armVars>>

\* Mutant: a claim whose worker died is left alone.
recover_claimed_as_unknown_never == UNCHANGED storeVars

\* Every claimed submit command, whoever holds it, becomes UNKNOWN.
recover_claimed_as_unknown ==
    /\ outbox' = [i \in Intents |-> IF outbox[i].status = "CLAIMED"
                                    THEN [outbox[i] EXCEPT !.status = "UNKNOWN"]
                                    ELSE outbox[i]]
    /\ status' = [i \in Intents |-> IF outbox[i].status = "CLAIMED"
                                    THEN "SUBMISSION_UNKNOWN" ELSE status[i]]
    /\ UNCHANGED <<filled, reservation, cancel, rowid, gateVars, lease, econVars,
                   openDisc, armVars>>

\* The broker has the order: the command was delivered after all.
resolve_unknown_at_broker(i) ==
    /\ IF outbox[i].status = "UNKNOWN"
       THEN /\ outbox' = [outbox EXCEPT ![i].status = "DELIVERED"]
            /\ status' = IF status[i] = "SUBMISSION_UNKNOWN"
                         THEN [status EXCEPT ![i] = "ACKNOWLEDGED"] ELSE status
       ELSE UNCHANGED <<outbox, status>>
    /\ UNCHANGED <<filled, reservation, cancel, rowid, gateVars, lease, econVars,
                   openDisc, armVars>>

\* Mutant: the comparison with the claim's time is turned round.
requeue_refused_swapped(i, asOf) == outbox[i].status = "UNKNOWN" /\ outbox[i].claimedAt <= asOf

\* The snapshot is no younger than the claim: the call raises.
requeue_refused(i, asOf) == outbox[i].status = "UNKNOWN" /\ asOf <= outbox[i].claimedAt

\* The broker does not have the order: the command becomes pending again.
requeue_unknown_absent_at_broker(i, asOf) ==
    /\ ~requeue_refused(i, asOf)
    /\ IF outbox[i].status = "UNKNOWN"
       THEN /\ outbox' = [outbox EXCEPT ![i].status = "PENDING", ![i].claimedAt = -1]
            /\ status' = [status EXCEPT ![i] = "OUTBOXED"]
       ELSE UNCHANGED <<outbox, status>>
    /\ UNCHANGED <<filled, reservation, cancel, rowid, gateVars, lease, econVars,
                   openDisc, armVars>>

-----------------------------------------------------------------------------
(* Reservations, cancels and the broker event inbox.                       *)

\* _update_reservation: the status is recomputed from the fill count and the
\* intent's status on every call, whatever it was before.
reservation_status(n, st) ==
    IF st \in {"REJECTED", "CANCELLED", "EXPIRED"} THEN "RELEASED"
    ELSE IF n = Qty THEN "CONSUMED"
    ELSE IF n > 0 THEN "PARTIALLY_CONSUMED" ELSE "ACTIVE"

TerminalStatus == {"FILLED", "CANCELLED", "REJECTED", "EXPIRED"}

\* Mutant: a cancel is still treated as local while the submission is under way.
BeforeBroker_submitting == {"APPROVAL_PENDING", "APPROVED", "OUTBOXED", "SUBMITTING"}

\* Nothing can be at the broker yet: a cancel is local.
BeforeBroker == {"APPROVAL_PENDING", "APPROVED", "OUTBOXED"}

\* The first request for an intent that is not terminal.  Before submission the
\* cancel is local: the pending submit command is closed and the capacity freed.
\* (A repeated request returns the stored command and changes nothing.)
request_cancel(i) ==
    /\ status[i] \notin TerminalStatus \union {"ABSENT"}
    /\ cancel[i].row = 0
    /\ rowid' = rowid + 1
    /\ IF status[i] \in BeforeBroker
       THEN /\ cancel' = [cancel EXCEPT ![i] = [status |-> "DELIVERED", row |-> rowid + 1]]
            /\ outbox' = IF outbox[i].status = "PENDING"
                         THEN [outbox EXCEPT ![i].status = "DELIVERED"] ELSE outbox
            /\ status' = [status EXCEPT ![i] = "CANCELLED"]
            /\ reservation' = [reservation EXCEPT
                                 ![i].status = reservation_status(filled[i], "CANCELLED")]
       ELSE /\ cancel' = [cancel EXCEPT ![i] = [status |-> "PENDING", row |-> rowid + 1]]
            /\ status' = [status EXCEPT ![i] = "CANCEL_REQUESTED"]
            /\ UNCHANGED <<outbox, reservation>>
    /\ UNCHANGED <<filled, gateVars, lease, econVars, openDisc, armVars>>

\* The oldest PENDING cancel command.
cancel_head(i) ==
    /\ cancel[i].status = "PENDING"
    /\ \A j \in Intents : cancel[j].status = "PENDING" => cancel[i].row <= cancel[j].row

\* Cancels are claimed under the lease only: a freeze does not stop them.
claim_next_cancel(owner, token, at, i) ==
    /\ validate_lease(owner, token, at)
    /\ cancel_head(i)
    /\ cancel' = [cancel EXCEPT ![i].status = "CLAIMED"]
    /\ UNCHANGED <<intentVars, outbox, rowid, gateVars, lease, econVars, openDisc, armVars>>

mark_cancel_unknown(i) ==
    /\ cancel' = [cancel EXCEPT ![i].status = "UNKNOWN"]
    /\ status' = [status EXCEPT ![i] = "CANCEL_UNKNOWN"]
    /\ UNCHANGED <<filled, reservation, outbox, rowid, gateVars, lease, econVars,
                   openDisc, armVars>>

mark_cancel_delivered(i) ==
    /\ cancel' = [cancel EXCEPT ![i].status = "DELIVERED"]
    /\ UNCHANGED <<intentVars, outbox, rowid, gateVars, lease, econVars, openDisc, armVars>>

\* _status_for: the status an event leaves, given the fill count after it.
status_for(type, total, current) ==
    CASE type = "COMMISSION" -> current
      [] type = "REJECTED" ->
           IF current \in {"PARTIALLY_FILLED", "FILLED"} THEN current ELSE "REJECTED"
      [] type = "CANCELLED" -> IF current = "FILLED" THEN current ELSE "CANCELLED"
      [] type \in {"PARTIAL_FILL", "FILL"} ->
           IF total >= Qty THEN "FILLED" ELSE "PARTIALLY_FILLED"
      [] type = "ACKNOWLEDGED" ->
           IF current \in {"PARTIALLY_FILLED", "FILLED", "CANCELLED", "REJECTED"}
           THEN current ELSE "ACKNOWLEDGED"

\* Cash moved by an event (_update_economic_projections): price 1, commission 1.
event_cash(e) == IF e.type = "COMMISSION" THEN -1 ELSE -e.qty

\* The first delivery of an event: recorded in the inbox, applied to its intent, or,
\* if no intent has its key, kept as an orphan behind a freeze ticket.
apply_broker_event(id, e) ==
    IF e.key \in Staged
    THEN LET i     == e.key
             total == filled[i] + e.qty
             st    == status_for(e.type, total, status[i])
             n     == IF total < Qty THEN total ELSE Qty
         IN  /\ inbox' = inbox \union {id}
             /\ status' = [status EXCEPT ![i] = st]
             /\ filled' = [filled EXCEPT ![i] = n]
             /\ reservation' = [reservation EXCEPT ![i].status = reservation_status(n, st)]
             /\ cashDelta' = cashDelta + event_cash(e)
             /\ UNCHANGED <<queueVars, gateVars, lease, baseline, openDisc, armVars>>
    ELSE /\ inbox' = inbox \union {id}
         /\ open_freeze_ticket("BROKER_ONLY_ORDER_OR_EVENT")
         /\ UNCHANGED <<intentVars, queueVars, lease, cashDelta, baseline, openDisc, armVars>>

\* Mutant: an event is applied again when it is delivered again.
ingest_broker_event_twice(id, e) == apply_broker_event(id, e)

\* A repeated delivery is ignored.
ingest_broker_event(id, e) ==
    IF id \in inbox THEN UNCHANGED storeVars ELSE apply_broker_event(id, e)

-----------------------------------------------------------------------------
(* Reconciliation records.                                                 *)

expected_account_cash == baseline.cash + cashDelta - baseline.delta

set_account_baseline(cash) ==
    /\ baseline' = IF baseline.set THEN baseline
                   ELSE [set |-> TRUE, cash |-> cash, delta |-> cashDelta]
    /\ UNCHANGED <<intentVars, queueVars, gateVars, lease, inbox, cashDelta, openDisc, armVars>>

\* The run's discrepancies are OPEN afterwards and every other one is resolved
\* or superseded.
record_discrepancies(disc) ==
    /\ openDisc' = disc
    /\ UNCHANGED <<intentVars, queueVars, gateVars, lease, econVars, armVars>>

-----------------------------------------------------------------------------
(* Types.                                                                  *)

DiscrepancyKind ==
    {"BROKER_ONLY_ORDER", "FILL_QUANTITY_MISMATCH", "LOCAL_ORDER_MISSING_AT_BROKER",
     "POSITION_MISMATCH", "ORDER_PROTECTION_SHORTFALL", "CASH_MISMATCH",
     "NAKED_LONG_EXPOSURE"}

Discrepancy == DiscrepancyKind \X (Keys \union {"account"})

ReservationRow == [status : ReservationStatus \union {"ABSENT"}, expires : Nat]
OutboxRow == [status : CommandStatus \union {"ABSENT"}, row : Nat, claimedAt : Nat \union {-1}]
CancelRow == [status : CommandStatus \union {"ABSENT"}, row : Nat]
LeaseRow == [owner : Owners \union {"nobody"}, token : Nat, expires : Nat]
BaselineRow == [set : BOOLEAN, cash : Int, delta : Int]
ArmRecord == [status : {"NONE", "ACTIVE", "EXPIRED", "CONSUMED"}, expires : Int,
              authority : Nat, quote : Quote]

StoreTypeOK ==
    /\ status \in [Intents -> ExecutionStatus \union {"ABSENT"}]
    /\ filled \in [Intents -> 0 .. Qty]
    /\ reservation \in [Intents -> ReservationRow]
    /\ outbox \in [Intents -> OutboxRow]
    /\ cancel \in [Intents -> CancelRow]
    /\ rowid \in Nat
    /\ tickets \in SUBSET FreezeReason
    /\ frozen \in BOOLEAN
    /\ lease \in LeaseRow
    /\ inbox \in SUBSET Nat
    /\ cashDelta \in Int
    /\ baseline \in BaselineRow
    /\ openDisc \in SUBSET Discrepancy
    /\ approval \in [Intents -> BOOLEAN]
    /\ arm \in [Intents -> ArmRecord]
    /\ authorities \in SUBSET Nat
    /\ quotes \in SUBSET Quote
=============================================================================
