--------------------------- MODULE ExecutionPlane ---------------------------
(***************************************************************************)
(* The execution plane: operating-system processes that share one control  *)
(* database (ControlStore) and one broker (FakeBroker).                    *)
(*                                                                         *)
(*   reconcile   cli.py execution-reconcile: snapshot, Reconciler          *)
(*   dispatch    cli.py execution-dispatch: snapshot, Reconciler, lease,   *)
(*               ExecutionWorker.dispatch_once                             *)
(*   cancel      lease, ExecutionWorker.dispatch_cancel_once               *)
(*   observe     Reconciler.reconcile_authoritative on a complete snapshot *)
(*               that has its consensus (see SnapshotConsensus)            *)
(*   arm         cli.py execution-arm: open the store, arm one intent      *)
(*                                                                         *)
(* A process reads the clock once, when it starts, and uses that `at` for  *)
(* everything it does.  Every transaction on either database is one step,  *)
(* so processes interleave between transactions; a process may crash       *)
(* between any two steps.  A read that directly follows a process's own    *)
(* transaction is part of that transaction's step.  The operator API and   *)
(* the decision loop act in single steps of their own.                     *)
(***************************************************************************)
EXTENDS ControlStore, FakeBroker

CONSTANTS
    Procs,              \* processes that may be alive at the same time
    Kinds,              \* the commands that are run
    Scenarios,          \* submit scenarios queued at the broker
    Environment,        \* what happens besides: see Env
    MaxTime,            \* bound: last clock value; workers start before it, so that a
                        \* snapshot younger than any claim remains possible
    MaxToken,           \* bound: lease acquisitions
    MaxEvents,          \* bound: broker events
    MaxQuotes,          \* bound: quote snapshots
    MaxCrashes          \* bound: crashes

ASSUME PlaneAssumption ==
    /\ Kinds \subseteq {"reconcile", "dispatch", "cancel", "observe", "arm"}
    /\ Scenarios \subseteq SubmitScenario
    /\ MaxTime \in Nat /\ MaxToken \in Nat /\ MaxEvents \in Nat
    /\ MaxQuotes \in Nat /\ MaxCrashes \in Nat

VARIABLES
    proc,               \* the processes: program counter and local variables
    now,                \* the clock
    crashes             \* crashes so far

vars == <<storeVars, brokerVars, proc, now, crashes>>

-----------------------------------------------------------------------------
(* Processes.                                                              *)

Idle == [pc |-> "idle", kind |-> "none", owner |-> "nobody", at |-> 0,
         cash |-> 0, orders |-> [k \in Keys |-> NoOrder],
         positions |-> [k \in Keys |-> NoOrder], protections |-> [k \in Keys |-> NoOrder],
         seen |-> 0, children |-> [k \in Keys |-> NoOrder],
         local |-> [i \in Intents |-> "ABSENT"], next |-> 0, left |-> {},
         disc |-> {}, token |-> 0, work |-> "none", answer |-> {}]

\* Process p is about to do step s.
at_step(p, s) == proc[p].pc = s

goto(p, s) == proc' = [proc EXCEPT ![p].pc = s]

\* The command ends: it is done, or an exception reaches the top level.
exit(p) == proc' = [proc EXCEPT ![p] = Idle]

\* The keys local_by_key of the reconciler holds.
local_keys(p) == {i \in Intents : proc[p].local[i] # "ABSENT"}

\* Mutant: the snapshot omits the orders that are no longer working.
broker_keys_working(p) ==
    {k \in Keys : proc[p].orders[k].status \in {"ACCEPTED", "PARTIALLY_FILLED"}}

\* The keys broker_by_key of the reconciler holds: orders of every status.
broker_keys(p) == {k \in Keys : proc[p].orders[k].status # "ABSENT"}

Init ==
    /\ StoreInit
    /\ BrokerInit
    /\ proc = [p \in Procs |-> Idle]
    /\ now = 0
    /\ crashes = 0

Alive == {p \in Procs : proc[p].pc # "idle"}

WorkerKinds == {"dispatch", "cancel"}

\* Lease acquisitions still to come from processes already running.
TokensAhead ==
    Cardinality({p \in Alive : proc[p].kind \in WorkerKinds /\ proc[p].token = 0})

\* A command starts: it reads the clock and opens the control database.
start(p, kind, owner) ==
    /\ at_step(p, "idle")
    /\ kind \in WorkerKinds => lease.token + TokensAhead < MaxToken /\ now < MaxTime
    /\ proc' = [proc EXCEPT ![p] =
                  [Idle EXCEPT !.pc = CASE kind = "cancel" -> "lease"
                                        [] kind = "arm" -> "arm"
                                        [] OTHER -> "snapshot",
                               !.kind = kind, !.owner = owner, !.at = now]]
    /\ open_store
    /\ UNCHANGED <<brokerVars, now, crashes>>

-----------------------------------------------------------------------------
(* Reconciler.reconcile over DurableFakeBroker.snapshot.                   *)

\* snapshot makes one query after the other outside any transaction: the cash, ...
snapshot_cash(p) ==
    /\ at_step(p, "snapshot")
    /\ proc' = [proc EXCEPT ![p].pc = "snapshot_orders", ![p].cash = cash]
    /\ UNCHANGED <<storeVars, brokerVars, now, crashes>>

\* ... the orders, ...
snapshot_orders(p) ==
    /\ at_step(p, "snapshot_orders")
    /\ proc' = [proc EXCEPT ![p].pc = "snapshot_positions", ![p].orders = orders]
    /\ UNCHANGED <<storeVars, brokerVars, now, crashes>>

\* ... the positions (what the orders had filled by then), ...
snapshot_positions(p) ==
    /\ at_step(p, "snapshot_positions")
    /\ proc' = [proc EXCEPT ![p].pc = "snapshot_protections", ![p].positions = orders]
    /\ UNCHANGED <<storeVars, brokerVars, now, crashes>>

\* ... the protection of the instrument, from the orders again, ...
snapshot_protections(p) ==
    /\ at_step(p, "snapshot_protections")
    /\ proc' = [proc EXCEPT ![p].pc = "snapshot_events", ![p].protections = orders]
    /\ UNCHANGED <<storeVars, brokerVars, now, crashes>>

\* ... the events, ...
snapshot_events(p) ==
    /\ at_step(p, "snapshot_events")
    /\ proc' = [proc EXCEPT ![p].pc = "snapshot_children", ![p].seen = Len(events)]
    /\ UNCHANGED <<storeVars, brokerVars, now, crashes>>

\* ... and the stop and target children of the orders.
snapshot_children(p) ==
    /\ at_step(p, "snapshot_children")
    /\ proc' = [proc EXCEPT ![p].pc = "in_progress", ![p].children = orders]
    /\ UNCHANGED <<storeVars, brokerVars, now, crashes>>

snapshot(p) ==
    \/ snapshot_cash(p)
    \/ snapshot_orders(p)
    \/ snapshot_positions(p)
    \/ snapshot_protections(p)
    \/ snapshot_events(p)
    \/ snapshot_children(p)

reconcile_begin(p) ==
    /\ at_step(p, "in_progress")
    /\ freeze("RECONCILIATION_IN_PROGRESS")
    /\ goto(p, "recover")
    /\ UNCHANGED <<brokerVars, now, crashes>>

reconcile_recover(p) ==
    /\ at_step(p, "recover")
    /\ recover_claimed_as_unknown
    /\ goto(p, "read_local")
    /\ UNCHANGED <<brokerVars, now, crashes>>

\* local_by_key is read once; the loops below use these statuses.
reconcile_read_local(p) ==
    /\ at_step(p, "read_local")
    /\ proc' = [proc EXCEPT ![p].local = status, ![p].next = 1,
                            ![p].pc = IF proc[p].seen = 0 THEN "resolve" ELSE "ingest",
                            ![p].left = broker_keys(p)]
    /\ UNCHANGED <<storeVars, brokerVars, now, crashes>>

\* Events of keys that are not local are skipped.
reconcile_ingest(p) ==
    LET n == proc[p].next
    IN  /\ at_step(p, "ingest")
        /\ IF events[n].key \in local_keys(p)
           THEN ingest_broker_event(n, events[n])
           ELSE UNCHANGED storeVars
        /\ proc' = [proc EXCEPT ![p].next = n + 1,
                                ![p].pc = IF n = proc[p].seen THEN "resolve" ELSE "ingest"]
        /\ UNCHANGED <<brokerVars, now, crashes>>

\* One order of the snapshot: broker-only, or its unknown submission is resolved
\* and the fill counts are compared.
reconcile_resolve(p, k) ==
    /\ at_step(p, "resolve")
    /\ k \in proc[p].left
    /\ IF k \in local_keys(p)
       THEN /\ resolve_unknown_at_broker(k)
            /\ proc' = [proc EXCEPT
                          ![p].left = @ \ {k},
                          ![p].disc = IF filled[k] # proc[p].orders[k].filled
                                      THEN @ \union {<<"FILL_QUANTITY_MISMATCH", k>>} ELSE @]
       ELSE /\ proc' = [proc EXCEPT
                          ![p].left = @ \ {k},
                          ![p].disc = @ \union {<<"BROKER_ONLY_ORDER", k>>}]
            /\ UNCHANGED storeVars
    /\ UNCHANGED <<brokerVars, now, crashes>>

reconcile_resolved(p) ==
    /\ at_step(p, "resolve")
    /\ proc[p].left = {}
    /\ proc' = [proc EXCEPT ![p].pc = "absent", ![p].left = local_keys(p) \ broker_keys(p)]
    /\ UNCHANGED <<storeVars, brokerVars, now, crashes>>

\* One local intent the snapshot does not have, by the status read earlier: an unknown
\* submission is requeued (or the snapshot is too old, which ends the command); an
\* order believed to be working is a discrepancy.
reconcile_absent(p, i) ==
    /\ at_step(p, "absent")
    /\ i \in proc[p].left
    /\ \/ /\ proc[p].local[i] = "SUBMISSION_UNKNOWN"
          /\ requeue_refused(i, proc[p].at)
          /\ exit(p)
          /\ UNCHANGED storeVars
       \/ /\ proc[p].local[i] = "SUBMISSION_UNKNOWN"
          /\ requeue_unknown_absent_at_broker(i, proc[p].at)
          /\ proc' = [proc EXCEPT ![p].left = @ \ {i}]
       \/ /\ proc[p].local[i] # "SUBMISSION_UNKNOWN"
          /\ proc' = [proc EXCEPT
                        ![p].left = @ \ {i},
                        ![p].disc =
                          IF proc[p].local[i] \in {"SUBMITTING", "ACKNOWLEDGED", "PARTIALLY_FILLED"}
                          THEN @ \union {<<"LOCAL_ORDER_MISSING_AT_BROKER", i>>} ELSE @]
          /\ UNCHANGED storeVars
    /\ UNCHANGED <<brokerVars, now, crashes>>

\* The net position of the local intents and of the snapshot.
local_position == MapThenSumSet(LAMBDA i : filled[i], Intents)
broker_position(p) == MapThenSumSet(LAMBDA k : proc[p].positions[k].filled, Keys)

position_discrepancies(p) ==
    {d \in {<<"POSITION_MISMATCH", "account">>} : local_position # broker_position(p)}

\* After the last absent intent the positions are compared ...
reconcile_positions(p) ==
    /\ at_step(p, "absent")
    /\ proc[p].left = {}
    /\ proc' = [proc EXCEPT ![p].pc = "protection",
                            ![p].disc = @ \union position_discrepancies(p)]
    /\ UNCHANGED <<storeVars, brokerVars, now, crashes>>

\* What the snapshot shows to protect order k: its children, or what its own row says.
protected_quantity(p, k) ==
    LET children == protection_quantity(proc[p].children[k])
    IN  IF children > 0 THEN children ELSE protection_quantity(proc[p].orders[k])

\* The fills as they are now, against that protection.
protection_discrepancies(p) ==
    {"ORDER_PROTECTION_SHORTFALL"}
        \X {k \in broker_keys(p) \intersect local_keys(p) : filled[k] > protected_quantity(p, k)}

reconcile_protection(p) ==
    /\ at_step(p, "protection")
    /\ proc' = [proc EXCEPT ![p].pc = "cash",
                            ![p].disc = @ \union protection_discrepancies(p)]
    /\ UNCHANGED <<storeVars, brokerVars, now, crashes>>

\* Cash, and the naked exposure of the snapshot as a whole.
cash_discrepancies(p) ==
    LET guarded == MapThenSumSet(LAMBDA k : protection_quantity(proc[p].protections[k]), Keys)
    IN  {d \in {"CASH_MISMATCH", "NAKED_LONG_EXPOSURE"} \X {"account"} :
            \/ d[1] = "CASH_MISMATCH" /\ baseline.set /\ expected_account_cash # proc[p].cash
            \/ d[1] = "NAKED_LONG_EXPOSURE" /\ broker_position(p) > guarded}

\* The first reconciliation ever takes the snapshot's cash for the baseline.
reconcile_cash(p) ==
    /\ at_step(p, "cash")
    /\ proc' = [proc EXCEPT ![p].pc = "record",
                            ![p].disc = @ \union cash_discrepancies(p)]
    /\ set_account_baseline(proc[p].cash)
    /\ UNCHANGED <<brokerVars, now, crashes>>

reconcile_record(p) ==
    /\ at_step(p, "record")
    /\ record_discrepancies(proc[p].disc)
    /\ goto(p, "conclude")
    /\ UNCHANGED <<brokerVars, now, crashes>>

\* Mutant: missing protection is reported and not treated as critical.
critical_except_protection(p) ==
    \E d \in proc[p].disc : d[1] \notin {"ORDER_PROTECTION_SHORTFALL", "NAKED_LONG_EXPOSURE"}

\* Every discrepancy the fake broker can cause is of severity CRITICAL.
critical(p) == proc[p].disc # {}

\* A critical discrepancy keeps the freeze and ends the command.  Without any the
\* reconciler unfreezes, and dispatch and observe go on.
reconcile_conclude(p) ==
    /\ at_step(p, "conclude")
    /\ IF critical(p)
       THEN /\ freeze("CRITICAL_RECONCILIATION_DISCREPANCY")
            /\ exit(p)
       ELSE /\ unfreeze_after_reconciliation
            /\ IF proc[p].kind = "reconcile"
               THEN exit(p)
               ELSE proc' = [proc EXCEPT ![p] =
                               [Idle EXCEPT !.pc = IF proc[p].kind = "dispatch"
                                                   THEN "lease" ELSE "authority",
                                            !.kind = proc[p].kind,
                                            !.owner = proc[p].owner, !.at = proc[p].at]]
    /\ UNCHANGED <<brokerVars, now, crashes>>

\* reconcile_authoritative promotes the converged snapshot, after the unfreeze.
observe_authority(p) ==
    /\ at_step(p, "authority")
    /\ record_broker_snapshot_authority(proc[p].at)
    /\ exit(p)
    /\ UNCHANGED <<brokerVars, now, crashes>>

-----------------------------------------------------------------------------
(* Arming an approved intent, by the command line or the operator API.     *)

arm_call(i, a, q, t) ==
    \/ arm_approved_intent(i, a, q, t)
    \/ arm_authority_stale(i, a, t)
    \/ arm_quote_stale(i, a, q, t)

\* execution-arm: refused while any ticket is open.
arm_command(p) ==
    /\ at_step(p, "arm")
    /\ \/ tickets # {} /\ UNCHANGED storeVars
       \/ \E i \in Intents, a \in authorities, q \in quotes : arm_call(i, a, q, proc[p].at)
    /\ exit(p)
    /\ UNCHANGED <<brokerVars, now, crashes>>

-----------------------------------------------------------------------------
(* The lease and ExecutionWorker.                                          *)

worker_lease(p) ==
    /\ at_step(p, "lease")
    /\ IF lease_available(proc[p].owner, proc[p].at)
       THEN /\ acquire_lease(proc[p].owner, proc[p].at)
            /\ proc' = [proc EXCEPT ![p].pc = "fence", ![p].token = lease'.token]
       ELSE /\ exit(p)
            /\ UNCHANGED storeVars
    /\ UNCHANGED <<brokerVars, now, crashes>>

\* ExecutionWorker.__init__ publishes the token to the broker.
worker_fence(p) ==
    /\ at_step(p, "fence")
    /\ IF proc[p].token >= fence
       THEN /\ advance_fence(proc[p].token)
            /\ goto(p, IF proc[p].kind = "dispatch" THEN "claim" ELSE "claim_cancel")
       ELSE /\ exit(p)
            /\ UNCHANGED brokerVars
    /\ UNCHANGED <<storeVars, now, crashes>>

worker_claim(p) ==
    LET o == proc[p].owner
        t == proc[p].token
        a == proc[p].at
    IN  /\ at_step(p, "claim")
        /\ \/ claim_next_raises(o, t, a) /\ exit(p)
           \/ claim_next_empty(o, t, a) /\ exit(p)
           \/ \E i \in Intents : claim_next_expires_arm(o, t, a, i) /\ exit(p)
           \/ \E i \in Intents : claim_next_expires_reservation(o, t, a, i) /\ exit(p)
           \/ \E i \in Intents :
                /\ claim_next(o, t, a, i)
                /\ proc' = [proc EXCEPT ![p].pc = "validate", ![p].work = i]
        /\ UNCHANGED <<brokerVars, now, crashes>>

worker_validate(p) ==
    /\ at_step(p, "validate")
    /\ IF validate_lease(proc[p].owner, proc[p].token, proc[p].at)
       THEN goto(p, IF proc[p].kind = "dispatch" THEN "submit" ELSE "cancel")
       ELSE exit(p)
    /\ UNCHANGED <<storeVars, brokerVars, now, crashes>>

\* The positions in the event log of the events a submit answers with.
submit_answer(scenario) ==
    IF scenario = "PARTIAL_FILL" THEN {Len(events) + 1, Len(events) + 2} ELSE {Len(events) + 1}

\* Where a worker goes with an answer: DUPLICATE_ACK answers its event twice.
apply_step(answer, scenario) ==
    IF answer = {} THEN "deliver" ELSE IF scenario = "DUPLICATE_ACK" THEN "apply_copy" ELSE "apply"

worker_submit(p) ==
    LET k == proc[p].work
        t == proc[p].token
    IN  /\ at_step(p, "submit")
        /\ \/ /\ t < fence
              /\ exit(p)
              /\ UNCHANGED brokerVars
           \/ /\ submit_known(k, t)
              /\ proc' = [proc EXCEPT ![p].pc = apply_step(events_for(k), "ACCEPT"),
                                      ![p].answer = events_for(k)]
           \/ \E scenario \in Scenarios :
                /\ submit_new(k, t, scenario)
                /\ proc' = IF scenario = "ACCEPT_DROP_RESPONSE"
                           THEN [proc EXCEPT ![p].pc = "unknown"]
                           ELSE [proc EXCEPT
                                   ![p].pc = apply_step(submit_answer(scenario), scenario),
                                   ![p].answer = submit_answer(scenario)]
        /\ UNCHANGED <<storeVars, now, crashes>>

\* A cancel answers its one event, or none if the order is already filled.
cancel_answer(k) == IF orders[k].filled < Qty THEN {Len(events) + 1} ELSE {}

\* broker.cancel raises for an order the broker does not have.
worker_cancel(p) ==
    LET k == proc[p].work
        t == proc[p].token
    IN  /\ at_step(p, "cancel")
        /\ \/ /\ t < fence \/ k \notin AtBroker
              /\ exit(p)
              /\ UNCHANGED brokerVars
           \/ \E scenario \in CancelScenario :
                /\ cancel_order(k, t, 0)
                /\ proc' = IF scenario = "CANCEL_DROP_RESPONSE"
                           THEN [proc EXCEPT ![p].pc = "unknown"]
                           ELSE [proc EXCEPT
                                   ![p].pc = apply_step(cancel_answer(k), scenario),
                                   ![p].answer = cancel_answer(k)]
        /\ UNCHANGED <<storeVars, now, crashes>>

\* BrokerSubmissionUnknown: the answer was lost.
worker_unknown(p) ==
    /\ at_step(p, "unknown")
    /\ IF proc[p].kind = "dispatch"
       THEN mark_submission_unknown(proc[p].work)
       ELSE mark_cancel_unknown(proc[p].work)
    /\ exit(p)
    /\ UNCHANGED <<brokerVars, now, crashes>>

\* The first of two copies of the same answered event.
worker_apply_copy(p) ==
    /\ at_step(p, "apply_copy")
    /\ \E n \in proc[p].answer : ingest_broker_event(n, events[n])
    /\ goto(p, "apply")
    /\ UNCHANGED <<brokerVars, now, crashes>>

\* The answered events are ingested oldest first, one transaction each.
worker_apply(p) ==
    /\ at_step(p, "apply")
    /\ \E n \in proc[p].answer :
         /\ \A m \in proc[p].answer : n <= m
         /\ ingest_broker_event(n, events[n])
         /\ proc' = [proc EXCEPT ![p].answer = @ \ {n},
                                 ![p].pc = apply_step(proc[p].answer \ {n}, "ACCEPT")]
    /\ UNCHANGED <<brokerVars, now, crashes>>

worker_deliver(p) ==
    /\ at_step(p, "deliver")
    /\ IF proc[p].kind = "dispatch"
       THEN mark_delivered(proc[p].work)
       ELSE mark_cancel_delivered(proc[p].work)
    /\ exit(p)
    /\ UNCHANGED <<brokerVars, now, crashes>>

worker_claim_cancel(p) ==
    LET o == proc[p].owner
        t == proc[p].token
        a == proc[p].at
    IN  /\ at_step(p, "claim_cancel")
        /\ \/ /\ \/ ~validate_lease(o, t, a)
                 \/ \A i \in Intents : cancel[i].status # "PENDING"
              /\ exit(p)
              /\ UNCHANGED storeVars
           \/ \E i \in Intents :
                /\ claim_next_cancel(o, t, a, i)
                /\ proc' = [proc EXCEPT ![p].pc = "validate", ![p].work = i]
        /\ UNCHANGED <<brokerVars, now, crashes>>

-----------------------------------------------------------------------------
(* Everything that happens besides the processes.                          *)

tick ==
    /\ now < MaxTime
    /\ now' = now + 1
    /\ UNCHANGED <<storeVars, brokerVars, proc, crashes>>

crash(p) ==
    /\ ~at_step(p, "idle")
    /\ crashes < MaxCrashes
    /\ crashes' = crashes + 1
    /\ exit(p)
    /\ UNCHANGED <<storeVars, brokerVars, now>>

\* The decision loop stages an intent; the operator API cancels, freezes, unfreezes.
operator_stage(i) == stage(i, now) /\ UNCHANGED <<brokerVars, proc, now, crashes>>

operator_cancel(i) == request_cancel(i) /\ UNCHANGED <<brokerVars, proc, now, crashes>>

operator_approve(i) == approve(i, now) /\ UNCHANGED <<brokerVars, proc, now, crashes>>

operator_arm(i, a, q) == arm_call(i, a, q, now) /\ UNCHANGED <<brokerVars, proc, now, crashes>>

\* A market data provider delivers a quote, fresh or late, of a realtime feed or not.
quote_arrives(age, static) ==
    /\ age <= now
    /\ Cardinality(quotes) < MaxQuotes
    /\ record_quote_snapshot([observed |-> now, provider |-> now - age, static |-> static])
    /\ UNCHANGED <<brokerVars, proc, now, crashes>>

operator_freeze ==
    freeze("MANUAL_OPERATOR_FREEZE") /\ UNCHANGED <<brokerVars, proc, now, crashes>>

operator_unfreeze ==
    resolve_freeze_ticket("MANUAL_OPERATOR_FREEZE") /\ UNCHANGED <<brokerVars, proc, now, crashes>>

\* The market fills a working order, the broker charges for a filled one.
broker_fill(k) ==
    /\ orders[k].status \in {"ACCEPTED", "PARTIALLY_FILLED"}
    /\ Len(events) < MaxEvents
    /\ \E n \in 1 .. Qty : fill(k, n)
    /\ UNCHANGED <<storeVars, proc, now, crashes>>

broker_commission(k) ==
    /\ orders[k].filled > 0
    /\ Len(events) < MaxEvents
    /\ commission(k)
    /\ UNCHANGED <<storeVars, proc, now, crashes>>

broker_inject(k) ==
    /\ inject_broker_only_order(k)
    /\ UNCHANGED <<storeVars, proc, now, crashes>>

\* A broker adapter hands an event to the store directly, at any time, in any order.
broker_callback(n) ==
    /\ n \in 1 .. Len(events)
    /\ ingest_broker_event(n, events[n])
    /\ UNCHANGED <<brokerVars, proc, now, crashes>>

Env ==
    \/ "tick" \in Environment /\ tick
    \/ "crash" \in Environment /\ \E p \in Procs : crash(p)
    \/ "stage" \in Environment /\ \E i \in Intents : operator_stage(i)
    \/ "cancel" \in Environment /\ \E i \in Intents : operator_cancel(i)
    \/ "approve" \in Environment /\ \E i \in Intents : operator_approve(i)
    \/ "arm" \in Environment
         /\ \E i \in Intents, a \in authorities, q \in quotes : operator_arm(i, a, q)
    \/ "quote" \in Environment
         /\ \E age \in 0 .. 1, static \in {{}, {"FEED_NOT_REALTIME"}} : quote_arrives(age, static)
    \/ "freeze" \in Environment /\ operator_freeze
    \/ "unfreeze" \in Environment /\ operator_unfreeze
    \/ "fill" \in Environment /\ \E k \in Keys : broker_fill(k)
    \/ "commission" \in Environment /\ \E k \in Keys : broker_commission(k)
    \/ "inject" \in Environment /\ \E k \in ExternalKeys : broker_inject(k)
    \/ "callback" \in Environment /\ \E n \in 1 .. MaxEvents + 2 : broker_callback(n)

\* The next step of a running command.
step(p) ==
    \/ snapshot(p)
    \/ reconcile_begin(p)
    \/ reconcile_recover(p)
    \/ reconcile_read_local(p)
    \/ reconcile_ingest(p)
    \/ \E k \in Keys : reconcile_resolve(p, k)
    \/ reconcile_resolved(p)
    \/ \E i \in Intents : reconcile_absent(p, i)
    \/ reconcile_positions(p)
    \/ reconcile_protection(p)
    \/ reconcile_cash(p)
    \/ reconcile_record(p)
    \/ reconcile_conclude(p)
    \/ observe_authority(p)
    \/ arm_command(p)
    \/ worker_lease(p)
    \/ worker_fence(p)
    \/ worker_claim(p)
    \/ worker_claim_cancel(p)
    \/ worker_validate(p)
    \/ worker_submit(p)
    \/ worker_cancel(p)
    \/ worker_unknown(p)
    \/ worker_apply_copy(p)
    \/ worker_apply(p)
    \/ worker_deliver(p)

Next ==
    \/ \E p \in Procs, kind \in Kinds, owner \in Owners : start(p, kind, owner)
    \/ \E p \in Procs : step(p)
    \/ Env

Spec == Init /\ [][Next]_vars

\* A running command goes on, time passes, and somebody keeps running each of the
\* commands (cron, or the operator).
Fairness ==
    /\ WF_vars(tick)
    /\ \A p \in Procs : WF_vars(step(p))
    /\ \A p \in Procs, kind \in Kinds : SF_vars(\E owner \in Owners : start(p, kind, owner))

LiveSpec == Spec /\ Fairness

-----------------------------------------------------------------------------
(* Types.                                                                  *)

ReconcilerStep ==
    {"snapshot", "snapshot_orders", "snapshot_positions", "snapshot_protections",
     "snapshot_events", "snapshot_children", "in_progress", "recover", "read_local", "ingest",
     "resolve", "absent", "protection", "cash", "record", "conclude"}

\* The steps of a worker that has published its token and not yet ended.
FencedStep ==
    {"claim", "claim_cancel", "validate", "submit", "cancel", "unknown", "apply_copy",
     "apply", "deliver"}

ProcStep == ReconcilerStep \union FencedStep \union {"idle", "lease", "fence", "authority", "arm"}

ProcKind == {"none", "reconcile", "dispatch", "cancel", "observe", "arm"}

ProcState ==
    [pc : ProcStep, kind : ProcKind,
     owner : Owners \union {"nobody"}, at : Nat,
     cash : Int, orders : [Keys -> BrokerOrder], positions : [Keys -> BrokerOrder],
     protections : [Keys -> BrokerOrder], seen : Nat, children : [Keys -> BrokerOrder],
     local : [Intents -> ExecutionStatus \union {"ABSENT"}], next : Nat,
     left : SUBSET Keys, disc : SUBSET Discrepancy, token : Nat,
     work : Intents \union {"none"}, answer : SUBSET Nat]

\* Every variable of the plane keeps its type.
TypeOK ==
    /\ StoreTypeOK
    /\ BrokerTypeOK
    /\ proc \in [Procs -> ProcState]
    /\ now \in Nat
    /\ crashes \in Nat

-----------------------------------------------------------------------------
(* Safety.                                                                 *)

\* An unresolved blocking ticket is always visible to the flag that gates dispatch:
\* whoever opens or resolves tickets, in whatever order, claim_next cannot find
\* control_state unfrozen while active_freeze_reasons is not empty.
FreezeGate == tickets # {} => frozen

\* Fencing tokens are handed out once: no two running workers hold the same token,
\* no worker holds one newer than the lease row, and the broker never believes in
\* a token that was not handed out.
FencingTokens ==
    /\ fence <= lease.token
    /\ \A p \in Procs : proc[p].token <= lease.token
    /\ \A p, q \in Procs :
         p # q /\ proc[p].token # 0 => proc[p].token # proc[q].token

\* Events in the inbox that belong to an intent, and the shares they filled.
applied(i) == {n \in inbox : events[n].key = i}
applied_fills(i) == SumFunction([n \in applied(i) |-> events[n].qty])

\* Exactly-once economics: whatever mix of worker answers, replayed snapshots,
\* idempotent resubmissions and callbacks delivered a broker event, the filled
\* quantity and the cash projection count it once, and never run ahead of the broker.
EconomicsAppliedOnce ==
    /\ \A i \in Intents : filled[i] = applied_fills(i) /\ filled[i] <= orders[i].filled
    /\ cashDelta = SumFunction([n \in UNION {applied(i) : i \in Intents} |-> event_cash(events[n])])

\* An event nobody can place keeps new risk frozen: a later converged reconciliation
\* resolves its own tickets and never the orphan's.
OrphanKeepsFreeze ==
    (\E n \in inbox : events[n].key \in ExternalKeys)
        => "BROKER_ONLY_ORDER_OR_EVENT" \in tickets /\ frozen

\* One broker order per client order key: an intent is answered as new at most once,
\* however often its command is requeued, reclaimed and resubmitted, and the order's
\* fills are all its own.
OneOrderPerIntent ==
    \A k \in Intents :
        /\ Cardinality({n \in events_for(k) :
                          events[n].type \in {"ACKNOWLEDGED", "REJECTED"}}) <= 1
        /\ orders[k].filled =
             SumFunction([n \in events_for(k) |-> events[n].qty])

\* A working broker order is backed by an active reservation, so stage counts it.
WorkingOrderReserved ==
    \A i \in Intents :
        orders[i].status \in {"ACCEPTED", "PARTIALLY_FILLED"}
            => reservation[i].status \in ActiveReservation

\* What the account may still buy, counting orders that work at the broker and active
\* reservations alike, never exceeds its capacity.
CapacityRespected ==
    Notional * Cardinality({i \in Intents :
                              \/ reservation[i].status \in {"ACTIVE", "PARTIALLY_CONSUMED"}
                              \/ orders[i].status \in {"ACCEPTED", "PARTIALLY_FILLED"}}) <= Capacity

\* Outside a reconciliation's last step, an OPEN critical discrepancy keeps new risk
\* frozen.
CriticalRetainsFreeze ==
    openDisc # {} /\ (\A p \in Procs : ~at_step(p, "conclude")) => tickets # {}

\* Once all events are in, an intent whose order the broker has cancelled is terminal.
CancelledOrderIsTerminal ==
    \A i \in Intents :
        orders[i].status = "CANCELLED" /\ {n \in 1 .. Len(events) : events[n].key = i} \subseteq inbox
            => status[i] \in TerminalStatus

-----------------------------------------------------------------------------
(* Action properties.                                                      *)

\* A submit command is claimed only while no blocking ticket is open, although
\* claim_next itself looks at control_state only.
ClaimNeedsNoTicket ==
    [][\A i \in Intents :
         outbox[i].status = "PENDING" /\ outbox'[i].status = "CLAIMED" => tickets = {}]_vars

\* Only the writer with the newest published token creates or cancels orders: a worker
\* that was superseded after it validated its lease is stopped by the broker's fence.
NewestWriterWrites ==
    [][\A p, q \in Procs :
         /\ proc[p].pc \in {"submit", "cancel"}
         /\ proc'[p] # proc[p]
         /\ orders' # orders
         /\ proc[q].pc \in FencedStep
         => proc[q].token <= proc[p].token]_vars

\* An unknown submission is requeued only when the broker really does not have it.
RequeueOnlyIfAbsent ==
    [][\A i \in Intents :
         outbox[i].status = "UNKNOWN" /\ outbox'[i].status = "PENDING"
            => orders[i].status = "ABSENT"]_vars

\* A claimed command of an intent under manual control was approved, and on the clock
\* the claim uses nothing it rests on has expired: the authority's age is not looked
\* at by claim_next, only the arm's expiry derived from it.
ClaimWithinEvidence ==
    [][\A i \in Intents :
         outbox[i].status = "PENDING" /\ outbox'[i].status = "CLAIMED" =>
            /\ i \in Manual => approval[i]
            /\ outbox'[i].claimedAt < reservation[i].expires
            /\ approval[i] =>
                 /\ outbox'[i].claimedAt < quote_valid_until(arm[i].quote)
                 /\ outbox'[i].claimedAt < arm[i].authority + AuthorityMaxAge
                 /\ \A b \in authorities : b <= arm[i].authority]_vars

\* While a submission of an approved intent is uncertain, no active arm is left that
\* would authorise a second one: it takes a new arm after the requeue.
UncertainHasNoLiveArm ==
    \A i \in Intents :
        approval[i] /\ outbox[i].status \in {"CLAIMED", "UNKNOWN"} => arm[i].status # "ACTIVE"

\* Starting execution-arm on an unfrozen plane leaves it unfrozen: the command does
\* not open the very ticket that makes its own arm_approved_intent refuse.
ArmCommandNotSelfBlocked ==
    [][\A p \in Procs :
         tickets = {} /\ at_step(p, "idle") /\ proc'[p].pc = "arm" => tickets' = {}]_vars

-----------------------------------------------------------------------------
(* Liveness, of LiveSpec.                                                  *)

\* A submit command whose outcome is uncertain, because its worker crashed or the
\* answer was lost, is eventually known to be delivered or goes back to the queue.
UncertainSubmitResolves ==
    \A i \in Intents :
        outbox[i].status \in {"CLAIMED", "UNKNOWN"} ~> outbox[i].status \in {"PENDING", "DELIVERED"}

\* After any crash, and although every command starts by freezing the plane,
\* reconciliation unfreezes it again and again.
FreezeClears == []<>(tickets = {})

\* A cancel command taken by a worker is eventually delivered, or reported unknown.
ClaimedCancelResolves ==
    \A i \in Intents : cancel[i].status = "CLAIMED" ~> cancel[i].status # "CLAIMED"
=============================================================================
