# Verification of Han Alpha

Han Alpha is an event-driven trading research system.  Its decision loop turns signals
into order plans, a durable execution control plane carries the approved plans to a
broker, and a reconciler keeps the local record and the broker's truth together.  This
directory holds a TLA+ model of that core and of the parts around it that keep state
(the decision loop, the historical replay, the in-memory paper broker, trials, evidence,
backups, the Paper fixture and the acceptance evidence), TLC runs that check it on small
instances and TLAPS proofs of the core's main safety properties for instances of any
size.

Action and operator names are the names of the Python methods they model
(`claim_next`, `mark_submission_unknown`, `register_snapshot_consensus`, ...).  Every
definition that models code is listed with its file and lines under `map` in
`PROJECT.json`.

## 1. The system and its parts

Paths are below `src/src/hanalpha/`.

| Part | State it keeps | Operations | What is hard about it |
|---|---|---|---|
| Control store `execution/control_store.py`, `control_models.py` | one SQLite database: intents, reservations, submit outbox, cancel commands, event inbox, freeze tickets and the `control_state` flag, writer lease, approvals, arms, quote snapshots, broker authorities, votes, discrepancies, cash and positions | one `BEGIN IMMEDIATE` transaction per method | several processes run commands against it; each method is atomic, a command is not |
| Worker `execution/worker.py` | none beyond its lease | `dispatch_once`, `dispatch_cancel_once` | it may stop after any call; the answer of the broker may be lost; it may have been superseded |
| Reconciler `execution/reconciliation.py` | none | `reconcile`, `reconcile_authoritative` | works for many transactions on a snapshot that ages while it works |
| Fake broker `execution/fake_broker.py` | its own SQLite database: orders, positions, cash, event log, protections, fence | `submit_intent`, `cancel_order`, `fill`, `snapshot`, ... | every submit scenario (dropped answers, duplicates, partial fills); a snapshot is several queries |
| Quote admission `execution/admission.py` | none | `evaluate` | which clock an age is measured on |
| Commands `cli.py`, `api/main.py` | none | reconcile, dispatch, arm, freeze, unfreeze, approve, cancel | read the clock once, then run for a long time; can be run twice at once |
| IBKR observer `execution/ibkr_observer.py`, `ibkr_snapshot.py`, `ibkr.py` | a bounded queue, a callback tape, a completeness certificate | callbacks, `drain`, `close`, `certificate`, the reducer | three threads; a dropped or late callback must never yield a complete certificate |
| Decision loop `orchestrator/system.py`, `risk/engine.py`, `portfolio/ledger.py` | kill switch, the ledger of recorded orders, intents in the control store | `run_cycle`, freeze, unfreeze, cancel-all, flatten-all | one copy of the account is used for a whole cycle of awaits; two databases per order |
| Paper broker `execution/simulated.py` | cash, positions, open orders, protections, results by idempotency key | `submit`, `process_quote`, `cancel_all`, `flatten_all` | five dictionaries updated one by one; flattening works on a copy |
| Portfolio simulation `simulation/` | journal, FIFO lots, reservations, orders with their protective pairs | frames of bars, corporate actions and proposals | both legs of a pair in one bar, partial fills, gaps, actions under open orders |
| Experiment registry `experiments/`, `research/promotion.py` | allocations, experiments, status histories, bundles on disk, promotions | allocate, register, run, promote | check and append in different transactions; two runners of one trial |
| Evidence store `evidence/` | documents, call attempts, response cache, claims, contradiction edges | `ingest` | budgets spent by concurrent calls; edges computed from an older reading |
| Backup and restore `ops/backup.py` | backup directories, generations, the CURRENT link | backup, restore | a crash between any two files, a rotten file |
| Artifact registry `ops/artifact_registry.py`, `artifacts.py`, `external_cost.py` | object files and rows | `register`, `resolve`, `external_acceptance_summary` | file, read and insert are three steps; racing registrations |
| Paper fixture `src/scripts/e1_paper_fixture.py` | quote capsules, permits, consumed permits, lifecycle ledger, receipts | capture, permit, start, execute, finish | a one-shot write to a real broker by commands that race and die |
| Burn-in and E1 scenarios `execution/burn_in.py`, `e1_scenarios.py`, `ops/external_runners.py` | session directories, receipts, cases, corpora | capture, receipt, case, evaluate | a capture that dies; evidence cited by several cases; three readers of it |
| Point-in-time data `pit/` | content-addressed raw files, canonical revisions | ingest, as-of query | a revision visible too early |
| Research, strategies, features, API projections | none shared | numerical functions | floating point; no coordination |

How they interact.  The decision loop calls `stage`, which writes capsule,
reservation, intent and outbox row in one transaction.  A dispatch command opens the
store (which opens a `STARTUP_RECONCILIATION` freeze ticket if none is open),
reconciles, and if that unfreezes the plane acquires the writer lease, publishes the
fencing token at the broker, claims the head of the outbox, validates the lease again
and submits.  The answer, or a snapshot taken later by a reconciler, or a callback,
brings the broker's events back into the inbox; ingestion updates the intent, its
reservation, cash and positions.  Anything uncertain or contradictory opens a freeze
ticket, and no new risk is staged or claimed while one is open.

What has to be right, in one line each:

- one broker order per intent, whatever crashes, retries and resubmissions happen;
- every fill and every dollar counted once, whatever the number and order of deliveries;
- no new risk behind an open ticket, although `claim_next` reads a flag and not the tickets;
- tickets go away only for the reason they were opened for, and do go away;
- a superseded writer does not write;
- a claim rests on approval, arm, quote, authority and reservation that are all valid;
- an authority is vouched for by two independent, equivalent observations;
- overlapping decision cycles stay under the exposure limit, and none stages while frozen;
- the replay's books balance, and shares that stay keep their stop when a leg exits;
- a trial, an evidence budget, a restore, a permit and an artifact keep their promise
  although each is written by several steps of processes that race and die.

## 2. Modules

| Module | Models | State | Actions |
|---|---|---|---|
| `ExecutionTypes` | the enums of `control_models.py` and the broker's records | | |
| `QuoteAdmission` | `admission.py` | | operators `quote_reasons`, `quote_eligible`, `quote_valid_until` |
| `ControlStore` | the control store's transactions | tables as functions over `Intents`, tickets and arms as sets | one operator per method; where a method can return, raise or commit and raise, one operator per outcome |
| `FakeBroker` | `fake_broker.py` | `orders`, `events`, `fence`, `cash` | `submit_new`, `cancel_order`, `fill`, ... |
| `ExecutionPlane` | worker, reconciler, commands, operator; composes the two above | `proc` (program counter and locals per process), `now`, `crashes` | one action per transaction or query a command makes |
| `SnapshotConsensus` | `register_snapshot_consensus` and `reconcile_authoritative` | votes, consensus row, authorities, tickets, calls | one action per transaction |
| `IBKRObserver` | `observe_read_only` of `ibkr.py`, the bridge, tape and certificate of `ibkr_observer.py` | `pc` of the main thread, `net` and `writer` threads, `queue` and counters of the bridge, `tape`, `certs` | one action per access to state another thread changes |
| `PortfolioLedger` | `simulation/portfolio.py` | | operators on a ledger record: `reserve`, `apply_fill`, `apply_split`, ... |
| `PortfolioReplay` | `simulation/engine.py`, `orders.py`, `fills.py`; uses the ledger | `ledger`, `orders`, the frame under way | one action per order offered a bar, per corporate action, per proposal |
| `SimulatedBroker` | `execution/simulated.py` | `sim` (cash, positions, protections, results) and a `flatten_all` under way | one per method; `flatten_all` one symbol at a time |
| `TradingLoop` | `run_cycle`, `RiskEngine`, kill switch, audit ledger, operator endpoints | `account`, `staged`, `recorded`, `cycle` per caller | one per stretch between two awaits |
| `TrialLedger` | experiment registry, runner, bundle writer, `PromotionService` | allocations, `history`, `files`, `artifacts`, runs under way | one per transaction or file |
| `EvidenceStore` | `EvidenceService.ingest` and its store | documents, attempts, cache, claims, edges | one per transaction, and the awaited extractor |
| `AtomicRestore` | what backup and restore promise | `whole`, `serving` | `Backup`, `Switch`, `Write` |
| `BackupRestore` | `ops/backup.py`; implements `AtomicRestore` | live databases, backups, generations, temporary directory, link | one per file operation |
| `ArtifactRegistry` | `ArtifactRegistry.register`, `resolve` | `objects`, `rows`, registrations under way | write and read, insert |
| `BurnInEvidence` | burn-in captures, E1 receipts, cases and corpora, and their three readers; composes the registry | staging and session directories, documents, captures under way | one per file operation or command |
| `PaperFixture` | `scripts/e1_paper_fixture.py` | permits, capsules, ledgers, receipts, the broker's orders | one per transaction, broker call or document |
| `MCPlane`, `MCObservation`, `MCTrading` (with `MCReplay`), `MCRecords`, `MCFixture` | TLC instances | | |
| `Tables` | tables and directories as functions from a key to a row; used by the record stores, the ledger, the replay and the paper broker | | operators `put`, `joined` |
| `SumProofs` | lemmas on sums over finite sets, on smallest subsets and least numbers; used by all the proof modules but `PlaneSafetyProofs` and `ObservationProofs` | | |
| `PlaneSafetyProofs`, `PlaneOutcomeProofs` | theorems about `ExecutionPlane`: types, gates and tokens; what its steps add up to | | |
| `ObservationProofs` | theorems about `SnapshotConsensus` and `IBKRObserver` | | |
| `TradingProofs` | theorems about `TradingLoop` and `SimulatedBroker` | | |
| `ReplayProofs` | theorems about `PortfolioReplay` and its ledger | | |
| `FixtureProofs` | theorems about `PaperFixture` and `BurnInEvidence` | | |
| `RecordsProofs` | theorems about `TrialLedger`, `EvidenceStore` and `BackupRestore` | | |

**What a step is.**  A SQLite transaction is one step, and so is every broker call and
every query of a broker snapshot: `FakeBroker.snapshot` reads cash, orders, positions,
protections, events and children in six separate queries, and the model lets the
broker move between any two of them.  A process reads the clock once, when its command
starts (`at`), as `cli.py` does, and may crash between any two steps; nothing of it
survives except what it committed.  In `IBKRObserver` the threads share memory, so a
step is one queue operation, one section under the bridge's lock, one look at
`app.observer` or one SQLite statement; `certificate` evaluates its arguments in the
order of the source, one lock section each, and reads the tape last.

**Data.**  Every intent is a BUY of `Qty` units of one instrument at price one,
reserving `Notional`; a client order key is the intent itself, and `ExternalKeys` are
keys of orders the system did not place.  A broker event is identified by its position
in the broker's log.  A command's answer is the set of positions it returned: the
worker ingests them in any order, one transaction each; `DUPLICATE_ACK` delivers one
of them twice.  Quotes are an event time, a receive time and the reasons that do not
depend on the clock.  `Capacity` is a constant, where the decision loop recomputes it
each cycle.

**The modules around the plane** follow the same rule: a step is what no other actor can
see the inside of.  In `TradingLoop` that is the stretch between two awaits of the asyncio
process, so several calls of `run_cycle` interleave between symbols but not between risk
check and `stage`; the account belongs to other processes and moves at any time.  In
`PortfolioReplay`, which runs alone, a step is one order offered one bar with all that
follows from a fill, so that every order of events inside a frame the input allows is
reached.  In the file-based parts a step is one file written, one rename, one link or one
transaction.  A document is a record of what its readers compare; a content hash is the
document.  Prices of the replay are small integers with the spread in tenths; the
notional of an intent is a number; a claim is its id, scope, kind and life.

**Environment.**  `Kinds` says which commands run, `Scenarios` which submit scenarios
the broker may choose, `Environment` which outside events may happen (time passing,
staging, fills, commissions, foreign orders, callbacks, operator actions, crashes).
A run switches on what its question needs.

## 3. Runs

| Run | Question | Result |
|---|---|---|
| `plane_serial` | One command at a time, submit and cancel, all submit scenarios, a crash, two intents and capacity for one. `CapacityRespected`, `WorkingOrderReserved`, `CriticalRetainsFreeze`, `RequeueOnlyIfAbsent`. | holds |
| `plane_gate` | An operator who freezes and unfreezes at will, callbacks in any number and order, a broker-only order. `TypeOK`, `FreezeGate`, `ClaimNeedsNoTicket`, `EconomicsAppliedOnce`, `OrphanKeepsFreeze`. | holds |
| `plane_writers` | Two commands at a time, either of which may supersede the other as writer, with partial fills. `FencingTokens`, `NewestWriterWrites`, `OneOrderPerIntent`. | holds |
| `plane_arm` | Manual approval, arms, quotes and authorities that age. `ClaimWithinEvidence`, `UncertainHasNoLiveArm`. | holds |
| `plane_live` | With fairness, a crash and lost answers. `UncertainSubmitResolves`, `FreezeClears`. | holds |
| `observation` | Two callers, ten snapshots: late, divergent, drifted, same session, other policy, incomplete. `ConsensusIsWitnessed`, `AuthorityIsWitnessed`. One observation: two facts and an end marker, a queue of one, a writer that may die, a connection that may be lost, callbacks nobody asked for. `ComponentHasAllItems`, `CertifiedModelIsWhole`, `OwnShutdownIsNoLoss`. | holds |
| `trading` | Replay: bars that touch no, one or both protective prices, gap, are thin, late or halted; splits, dividends, delisting. `BooksAgree`, `NoOverdraft`, `ReservationsMirrorOrders`, `OcoExitsOnce`, `AbortsOnlyOnLimits`, `ExitsKeepStops`. Paper broker, with a `flatten_all` under way: `HeldIsProtected`. Two overlapping cycles, fills behind their back, an operator, a crash: `ExposureWithinLimit`, `FrozenStagesNothing`. | holds |
| `records` | Two runners, a promoter, crashes: `AllocationPaysOnce`, `CompletedIsWhole`, `EndIsFinal`. Two ingesters: `BudgetsHold`, `ContradictionsVisible`. Backup and restore: `RestoreIsAtomic` (the refinement). Captures and cases: `CorpusEvidenceIsExclusive`, `VerdictsAgree`. | holds |
| `fixture` | Two commands on two permits, two quotes and a lifecycle, with a crash. `OneWritePerPermit`, `SuccessReceiptIsTrue`. | holds |
| `violate_critical` | Two reconcilers. `CriticalRetainsFreeze`. | violated |
| `violate_protection` | A corporate action on a held, protected position. `EveryShareStopped`. | violated |
| `violate_contradiction` | Three documents ingested one after another. `EdgesAreDeterministic`. | violated |

Parts that share no state at run time are checked in one run: a variable (`half`, `desk`,
`record`), fixed by the initial state, says which part a behaviour exercises, so nothing
is multiplied and each part is explored as if alone.  Parts that do share state are
composed instead: the store, the broker and the commands in `ExecutionPlane`, the ledger
in `PortfolioReplay`, the registry in `BurnInEvidence`.

Each violated property states what a document, a docstring or a test of the
repository says; the finding in `PROJECT.json` quotes the line.

**What the violations show.**

- *Two reconcilers.*  `unfreeze_after_reconciliation` resolves every ticket the
  reconciler may own.  A reconciler with an older, clean snapshot resolves the
  `CRITICAL_RECONCILIATION_DISCREPANCY` ticket another one has just opened, and staging
  and claiming are open while the discrepancy is.
- *Corporate action.*  `_cancel_orders_for_action` cancels every open order of the
  instrument before a split, dividend or symbol change.  Protective orders are placed only
  when an entry fills, so a position that stays open has no stop from then on.  Exits by
  themselves never cost a stop (`ExitsKeepStops` holds).
- *Contradiction edges.*  `_contradictions` identifies an edge by its two claim ids in
  order, but stores left and right as it met them.  When an earlier claim has the larger
  id, a later ingestion computes the same edge with the sides exchanged,
  `finalize_extraction` raises "immutable contradiction conflict", and that document's
  claims are not stored; nor are any other's while both claims are current.

**Known limits of the plane and the fixture**, stated as properties the models break
and not repeated as runs:

- `CancelledOrderIsTerminal` (`ExecutionPlane`).  `_status_for` lets a fill win over
  `CANCELLED`.  If the cancel's answer is ingested before an earlier fill is replayed, the
  intent stays `PARTIALLY_FILLED` for an order the broker has closed, and its reservation
  is never released.
- `ClaimedCancelResolves`.  `recover_claimed_as_unknown` covers `outbox_commands` only; a
  cancel claimed by a worker that died stays `CLAIMED`, and `request_cancel` returns the
  stored command.
- `ArmCommandNotSelfBlocked`.  `execution-arm` opens the store, whose constructor opens a
  ticket, and then calls `arm_approved_intent`, which refuses while a ticket is open.
- `NeverShort` (`PaperFixture`).  `docs/v2-plan/22_ISSUE5_REVIEW_AND_E1_MATRIX_HARDENING_ZH.md`
  line 34 allows only BUY to open and SELL to close a proven position; PLACE accepts SELL,
  and two CLOSE permits that run together each find the one share.

**Limits of what holds**, found with the same models under other constants and stated
here so that nobody reads more into the passing runs:

- `RequeueOnlyIfAbsent`, `CapacityRespected` and `WorkingOrderReserved` hold with one
  process.  With two, a worker slower than its own start time submits after the
  reconciler's snapshot was read and before the requeue, since `claimed_at` is the
  start clock of the command; and the late fill above breaks the reservation
  properties.  What survives is `OneOrderPerIntent`, by the broker's idempotency key.
- `AuthorityIsWitnessed` holds when no observation is handed in twice.  With
  `Replays = TRUE` it fails: an observation that already voted is answered with the
  count of the current consensus row, which may be about another state.
- `NewestWriterWrites` speaks of published tokens.  Between the acquisition of a lease
  and the publication of its token the previous holder still writes.
- `ClaimWithinEvidence` is about the clock value the claim uses.  A dispatch that
  reconciles for long claims with a quote that has expired by then.
- `ComponentHasAllItems` is about the certificate `observe_read_only` returns, issued
  after the network thread and the writer have been joined.  Each certificate saved
  while polling has its counters read before the tape: a fact dropped in between is not
  in the counters, its end marker is on the tape, and the component is called complete.
  The next certificate replaces it, unless the process dies first.
- `CertifiedModelIsWhole` assumes that the network thread ends within the time-out of
  its join, whose outcome the code does not look at.  With `LateThread = TRUE` it fails:
  a late callback finds the bridge closed and is lost without being counted.  With two
  sessions the late callback may also meet the next session's collector, which stamps an
  end marker without a request id (`positionEnd`, `openOrderEnd`) with its own epoch.
- `ExposureWithinLimit` allows, beyond the limit, exactly the notional filled while some
  cycle held its copy of the account (`raced`): such a fill has left the reservations and
  is not in the copy.  `durable_capacity` subtracts the active reservations and `stage`
  counts them again, so a cycle may admit an order `stage` then refuses by raising.
- A crash between `stage` and `record_order`, which write to two databases, leaves an
  intent that will be executed and that the ledger does not know (`crash_after_stage`).
- `HeldIsProtected` asks for a protection of every held symbol; after an add-on buy it
  covers only the quantity of the last buy.  The key `flatten:symbol:quantity` of a
  flatten order is used once: a second flatten of the same quantity sells nothing.
- `EndIsFinal` excepts trials two processes worked on at once (`overlapped`), and a trial
  whose runner died stays `running` for ever.
- `BudgetsHold`: the daily document budget may be passed by one document per further
  process, the call budget never.  `ContradictionsVisible` excepts overlapping ingestions
  (`interfered`): neither reads the other's claims.
- `VerdictsAgree` is about sessions of one scope and binding, and about the acceptance
  summary once every document is registered as its command registers it and every session
  bears the label of a scenario of the policy (`policy_labels`):
  `external_acceptance_summary` looks at no other session, `evaluate_burn_in_corpus` counts
  a case over sessions of any label.
- `RestoreIsAtomic` is about one restore at a time: two would share the temporary
  directory.
- `OneWritePerPermit` says nothing of the receipt: a second execution of a consumed permit
  is recorded as `BROKER_REJECTED` although the first may have been filled, and an
  unrelated error callback makes the receipt of a live order `BROKER_REJECTED` too.  The
  quote is checked before the connection is made, which may outlast it, and
  `finish_lifecycle` may read a clean broker while another command is about to send.
- A capture that died leaves its `.pending` directory, which `ibkr-burn-in-evaluate` lists
  as a session: it fails verification and, with it, the corpus.
- The head of the outbox, approved and without an active arm, makes every `claim_next`
  raise, and `BROKER_AUTHORITY_STALE` and `MARKET_QUOTE_STALE` tickets are resolved by no
  code path: `FreezeClears` is checked without arming.  In `SnapshotConsensus` a converged
  reconciliation resolves the `BROKER_SNAPSHOT_CONSENSUS_PENDING` ticket another observer
  has just opened, and between its unfreeze and the ticket for incomplete components the
  plane is open.  No document says what is expected of either.
- If the writer has died and the queue is full, `close` raises `queue.Full` and
  `observe_read_only` ends without its last certificate (`pc = "raised"`).

**Bounds.**  `MaxTime` bounds the clock, `MaxToken` leases, `MaxEvents` the broker's
log (a guard of the broker's actions: the run explores every history with at most that
many events), `MaxQuotes`, `MaxCrashes`, `MaxVotes`.  They are enough for the cases
the properties are about: two time units separate a reservation's or a quote's validity
from its expiry with a command started on each side; two tokens let one writer
supersede another; three events are an acknowledgement, a partial fill and a closing
event; `Qty = 2` distinguishes a partial fill from a full one; one crash already leaves
every intermediate state behind, and commands started afterwards find it.  Votes: three,
which is a consensus and a divergence in either order.  `plane_writers` uses process
symmetry; the liveness runs use none.  `observation`: a queue of one overflows as soon as
the writer is one fact behind, two items and an end marker let the first, the middle or
the last be the one that is dropped, and one unsolicited event is an update, a critical
error or the loss of the connection at any moment.  `trading`: four frames are an entry,
its fill, an exit or action and what follows, two proposals an entry and a second one or
a sale; three calls of the paper broker are buy, quote and flatten; two cycles, two
symbols and capacity for one and a half orders let the second cycle meet the first's
reservation, fill or release.  `records`: three runs of two runners over three
manifests, one of them racing for an allocation; two backups, two service writes and two
crashes are a restore, a crash and a second restore to the other generation; three
sessions with two cases that want the same one; three documents, two of one content.
`fixture`: two permits let a close or a second order follow the first, and one tick ends
every quote.  Callers, runners and commands are interchangeable and are declared
symmetric; no liveness is checked there.

**Deadlock** is checked in every run of the plane: ticks and new commands are always
possible until the bounds are used up, and a bounded run may stop only by stuttering
commands.  It is not checked in the other runs, whose commands end: an observation, a
replay, a bounded number of cycles, restores or permits.

**Fairness** (`LiveSpec`).  Weak fairness of `tick`: time passes.  Weak fairness of
`step(p)`: a running command goes on, unless it crashes, and crashes are bounded by
`MaxCrashes`.  Strong fairness of `start` for each process and kind of command: the
commands are run again and again by a scheduler or an operator, which is how the
repository's runbooks use them.  Nothing is assumed about the broker, the operator's
other actions, or crashes.  No other module states fairness: nothing in the decision
loop, the records or the fixture is run by a scheduler, and their documents promise
safety only.

**Refinement.**  `BackupRestore` is shown to implement `AtomicRestore`: `whole` is the set
of contents of finished backups, `serving` the files CURRENT resolves to.  A step of the
detailed specification is a finished backup, the switch of the link, a service's write, or
a stutter; a crash, a half-written temporary directory, a failed copy and a rotten backup
file are all stutters.

**Mutants.**  Beside each definition that a property depends on most stands a mutated
form, marked as such: a forgotten status in a query, a token that is not incremented,
a guard left out.  Replacing the definition by it makes the property fail.

## 4. Proofs

| Theorem | States | For |
|---|---|---|
| `PlaneTypes` | `Spec => []TypeOK` | any intents, processes, crashes and bounds |
| `FreezeGateHolds` | `[]FreezeGate` | " |
| `ClaimsNeedNoTicket` | `ClaimNeedsNoTicket` | " |
| `FencingTokensHold` | `[]FencingTokens` | any number of workers |
| `NewestWriterAlone` | `NewestWriterWrites` | " |
| `OrphansKeepFreeze` | `[]OrphanKeepsFreeze` | any broker history |
| `OneOrderPerKey` | `[]OneOrderPerIntent` | any number of workers, answers lost or repeated |
| `EconomicsOnce` | `[]EconomicsAppliedOnce` | any number and order of deliveries |
| `ClaimsWithinEvidence` | `ClaimWithinEvidence` | any approvals, arms, quotes, authorities |
| `UncertainWithoutArm` | `Spec /\ []OneAtATime => []UncertainHasNoLiveArm` | commands that do not overlap |
| `CriticalKeepsFreeze` | `Spec /\ []OneAtATime => []CriticalRetainsFreeze` | " |
| `RequeuesWhatIsAbsent` | `Spec /\ []OneAtATime => RequeueOnlyIfAbsent` | " |
| `ConsensusWitnessed` | `[]ConsensusIsWitnessed` | any snapshots and callers |
| `AuthorityWitnessed` | `NoReplay /\ Spec => []AuthorityIsWitnessed` | any snapshots handed in once |
| `ModelIsWhole` | `InTime /\ ObsSpec => []CertifiedModelIsWhole` | any queue, answers, sessions, failing database |
| `ComponentsHaveAllItems` | `InTime /\ ObsSpec => []ComponentHasAllItems` | " |
| `ShutdownIsNoLoss` | `InTime /\ ObsSpec => []OwnShutdownIsNoLoss` | " |
| `WorkingOrdersBacked` | `Spec /\ []OneAtATime => []WorkingOrderReserved` | " |
| `CapacityHolds` | `Spec /\ []OneAtATime => []CapacityRespected`, for an `Environment` without `"commission"` | " |
| `ExposureStaysWithinLimit` | `DeskSpec => []ExposureWithinLimit` | any overlapping cycles, symbols, strategies, amounts |
| `FrozenStaysEmpty` | `DeskSpec => FrozenStagesNothing` | " |
| `HeldStaysProtected` | `SalesPay /\ SimSpec => []HeldIsProtected` | any orders and quotes |
| `CashCoversReservations` | `Spec => []NoOverdraft` (`PortfolioReplay`) | any bars, proposals, actions, costs |
| `ReservationsStayMirrored` | `[]ReservationsMirrorOrders` | " |
| `OcoNeverExitsTwice` | `[]OcoExitsOnce` | " |
| `LotsAreTheJournals` | `Spec /\ []CostsExact => []BooksAgree` | " |
| `EntriesAlwaysBalance` | `[]EntriesBalance` | ", and divisions with a remainder |
| `ConservationNeverFails` | `[][StartProposals => failure' = {}]_vars` | " |
| `ExitsNeverUnstop` | `Spec => ExitsKeepStops` | " |
| `PermitWritesOnce` | `FixtureSpec => []OneWritePerPermit` | any number of commands, permits, quotes |
| `ReceiptsStayTrue` | `FixtureSpec => []SuccessReceiptIsTrue` | " |
| `CorpusStaysExclusive` | `BurnInSpec => []CorpusEvidenceIsExclusive` | any sessions, receipts, cases, registrars |
| `VerdictsStayAgreed` | `BurnInSpec => []VerdictsAgree` | " |
| `AllocationsPayOnce` | `TrialSpec => []AllocationPaysOnce` | any manifests, runners, promoters, files |
| `CompletedTrialsAreWhole` | `TrialSpec => []CompletedIsWhole` | " |
| `TrialEndIsFinal` | `TrialSpec => EndIsFinal` | " |
| `EvidenceWithinBudgets` | `EvidenceSpec => []BudgetsHold` | any number of ingesting processes |
| `ContradictionsStayVisible` | `EvidenceSpec => []ContradictionsVisible` | any documents, claims, order of ids |
| `RestoreRefinesAtomic` | `BackupSpec => RestoreIsAtomic` | any stores, backups, crashes |

The constants are assumed only to be sets and numbers of the right kind
(`TypesAssumption`, `QuoteAssumption`, `StoreAssumption`, `PlaneAssumption`,
`ConsensusAssumption`, `ObserverAssumption`, `DeskAssumption`, `SimAssumption`,
`LedgerAssumption`, `ReplayAssumption`, `FixtureAssumption`, `BurnInAssumption`,
`ManifestAssumption`, `FileNamesAssumption`, `EvidenceAssumption`, `ClaimsAssumption`,
`IngestersAssumption`), each stated where the constants are declared and evaluated by TLC in
the runs.  `ManifestAssumption` is what a
hash gives (an experiment id is never NULL and different for different manifests);
`FileNamesAssumption` keeps the names of files apart from those of the runner's steps;
`ClaimsAssumption` is how `_materialize` builds a claim: its time is its document's, its id
the hash of its content, so that equal ids are one claim; `BurnInAssumption` numbers the
case ids in the order of their hashes; `IngestersAssumption` says that there are finitely
many processes, `DeskAssumption` that
the universe of symbols is finite and the gross limit at most the capital.

Six hypotheses restrict behaviours or constants, each because the property is false
without it:

- `NoReplay`: no observation is handed in twice.
- `OneAtATime`: a command is started when the one before it has ended or crashed, as cron
  and the operator run them.  `violate_critical` shows what two overlapping reconcilers do,
  the limits above what a slow worker does to a reconciler.  Any number of processes,
  crashes and restarts is still covered; it is the setting of the run `plane_serial`,
  stated of the behaviour instead of by a set of processes.
- `InTime`: the join of the network thread does not time out; see the limits above.
- No commission events, for `CapacityHolds`.  A worker whose submission was filled in part
  dies before `mark_delivered`; the order is cancelled and its reservation released;
  `recover_claimed_as_unknown` and `resolve_unknown_at_broker` then overwrite `CANCELLED`
  with `ACKNOWLEDGED`.  A second intent is staged on the capacity set free, and a late
  commission event of the first makes `_update_reservation` count its reservation as partially
  consumed again.  TLC finds this with commands one at a time when `"commission"` is in
  `Environment`; the run `plane_serial` has none.
- `SalesPay`, for the paper broker: a share sold at the bid, less slippage, brings at least
  one unit and at least the commission.  `_try_fill` checks the cash of a buy and the shares
  of a sale, not that a sale pays its commission: with a lower bid the cash, which
  `HeldIsProtected` keeps from going below zero, would be spent on commissions of sales.

- `CostsExact`, for `BooksAgree`: the cost per share of a purchase the bar may fill and the cost
  per share after a split leave no remainder.  In the code these two are divisions of
  `Decimal`s; in the model they are integers, and where they are cut off the lots are worth
  less than the journal says.  The instance of the run `trading` has no remainder in any state
  (TLC agrees when `CostsExact` is added to its invariants).  That every entry balances needs no
  such hypothesis (`EntriesAlwaysBalance`).

*Types* need a strengthening, `TypeInv`: what a process has read of the broker's log is
a prefix of it (`seen <= Len(events)`), the position it ingests next lies in that
prefix, its answer is a set of positions of the log, and a process at a step of a
worker's command has a command in hand.  Without these the type of the ingested event
is unknown.  One lemma per operator of the store and the broker says that it keeps the
types of its own tables; the step lemmas then only deal with program
counters.

*FreezeGate* (a ticket is open, so the flag is up) is inductive on its own, because
every step either leaves both alone, opens a ticket and raises the flag, resolves
tickets only, or recomputes the flag from what remains (`GateStep`).
`ClaimsNeedNoTicket` follows from it and the guard of `claim_next`.

*FencingTokens* needs `TokenInv`: tokens of running workers are distinct and at most
the lease's, and a worker past `advance_fence` holds a token that is at most the
broker's fence.  Then a worker that succeeds at the broker has the highest token shown.

*OrphanKeepsFreeze* needs that only ingestion changes the inbox, that it opens the
orphan's ticket in the same transaction, and that no step resolves this ticket.

*What the plane's steps add up to* (`PlaneOutcomeProofs`).  The plane has some forty
actions; looking at each once per invariant would be hopeless.  Four lemmas say what any
step does to one part of the state: to the store's rows of intents (`StoreMove`), to the
broker (`BrokerMove`), to one process (`ProcMove`), to the freeze (`GateMove`).  Each later
invariant is preserved move by move.

- `OneOrderPerIntent` needs `LogOK`: an absent order has no events, an order is opened by
  one event, and its fills are the sum over its own events.  The broker only appends,
  so a sum changes by its last term.
- `EconomicsAppliedOnce` needs `EconInv`: the inbox lies in the log, `filled` and
  `cashDelta` are sums over the inboxed events of known intents; together with `LogOK` the
  sum over a subset of the order's events is at most the order's own, so that nothing is
  ever cut off at `Qty`.
- Sums are the community library's `SumFunction`, a recursive function over finite sets.
  That the order of summation does not matter, that a sum splits off any of its terms, and
  that it is monotone are proved by the smallest counterexample: a non-empty set of subsets
  of a finite set has a minimal member (`SmallestSubset`).  This needs no induction theorem
  with an operator for a parameter (`SumProofs`, which the decision loop uses too).
- `ClaimWithinEvidence` needs `CommandInv`: a command belongs to a staged intent, the
  command of an intent under manual control was approved, an uncertain command's intent is
  past its approval, and an active arm does not outlive its authority.
- `WorkingOrderReserved` relates three tables of two databases, none of which another step
  updates together.  `OrderOK` ties the broker's order to its log, `ReservedOK` the rows to
  the order: if it stands, its intent is neither closed nor queued and its missing shares
  are reserved; if it does not exist yet but a worker may still send it, the whole quantity
  is.  The cases that matter are those where one table is behind: an answer lost after the
  order was opened, a cancel applied before an earlier fill, a requeue.
- `CapacityRespected` counts reservations and orders, and neither is monotone: a late fill of
  a cancelled order may reserve again what was released.  `Exposed` counts an intent that has
  an active reservation or a `late` event, a fill or acknowledgement not yet in the inbox of
  an order that is not filled.  No step but `stage` adds to it.  When `stage` runs no ticket
  is open, and then nothing is late: an order cancelled with events outstanding leaves its
  worker's `STARTUP_RECONCILIATION` ticket open, and the reconciler that resolves it has
  first read and ingested every event of cancelled orders (`LateInv`).  So `stage` adds to
  the active reservations alone, which is what its capacity check counts.
- `UncertainHasNoLiveArm` needs `ArmInv`: between claim and answer the worker's command
  stays `CLAIMED`, and the arm of a claimed or uncertain command of an approved intent is
  used up.
- `CriticalRetainsFreeze` needs `VerdictInv`: a reconciler under way has its own ticket
  open, and so has a recorded discrepancy; about to conclude, the reconciler has just
  recorded what it found.
- `RequeueOnlyIfAbsent` needs `SnapOK`: an order that the snapshot of a reconciler does
  not have has not appeared since, because only `submit` creates orders of intents and no
  worker is submitting; the intents left to requeue are those the snapshot does not have.

*Consensus* needs `IInv`: the row's hash is that of the newest accepted vote, and a
count of two or more has two accepted, mutually independent votes for that hash.
The authority theorem adds, for each call between registration and promotion, that its
own snapshot has been voted for and witnessed (`CallInv`); a replayed observation
breaks exactly this, which is why `NoReplay` is a hypothesis.

*The observer* has four layers.  `ThreadInv`: only the current session's network thread
runs, and only until it is joined; after the writer's join it has ended or there is an
error; the last certificate is given the error there is, and calls the queue drained only
if it is empty; whatever was lost has made an error or is about to.  `LossInv`: a
DISCONNECT fact, on the tape or on its way, belongs to a session whose connection was
lost, because the collector is removed before the observer closes the connection.
`ItemInv`: while the collector is installed every item sent is on the tape, on its way,
lost or in a callback's hand; once its end marker is there, in no hand any more.  `CertInv`:
from the last certificate on, a complete one means no error, nothing lost and a tape that
no longer changes.  Every step of a session is described once by what it does to facts
(`FactMove`, `CameIn`) and to connections (`ConnMove`); the start of the next observation
is a case of its own.

*The decision loop*: `DeskInv` adds `CopiesShow`, that the copy of the account a cycle works
with shows all that is held but for what was filled since and counted in `raced`.  A
staged intent fits under the limit beside every active reservation as the copy shows them
(`CapacityFits`), so it fits beside what is really held up to `raced`.  A fill moves its
notional from the reservations to the holdings and leaves their total; sales and releases
lower it.  `FrozenStagesNothing` needs only the types: both ways to a staged intent ask for
the kill switch and for tickets in the step that stages it.

*The paper broker*: `SimInv` says which symbols the three dictionaries agree on, also between
two awaits of `flatten_all`, whose copy of the positions may be old.  A quote offers the open
orders one after the other; that what holds before the list holds after it is proved by the
smallest number of orders after which it would not (`LeastNumber`).

*The replay*: `ReplayInv` is carried through every helper as a predicate `Good` of the triple
(ledger, orders, failure) it works on, in three parts.  `Sound`: types, and the cash promised
by reservations is at most the cash.  `Mirrors`: reservations are the open orders, but for the
one being filled.  `Exits`: the shares promised to the groups of an instrument are held, and
what a group has sold plus what is left of a live leg is at most the entry fill it protects.
The last two are claimed only while `failure` is empty, because an exception leaves the
engine between two calls.  Sums over lots and reservations are `SumFunction`s; a reservation
that changes moves one term, a sale takes from the lots, oldest first, exactly what was sold
(`SellingExists` shows by a least number that the recursive `consume_fifo` is defined).

*The books* (`Books`): the journal sums to nothing, its CASH is the cash, its profit and
commission accounts are `realized`, and, where the divisions are exact, its POSITIONS_AT_COST is
what the lots cost, lot by lot.  Every posting of the ledger is an `Entry`: five amounts that sum
to nothing, one of which is what the lots gain.  That a sale takes from the lots what it posts as
its basis, and a delisting what `cost_basis` says, is a sum of sums (`SumOfSums`).  The `Kept`
lemmas carry this through the engine's calls, an exception between two of them included.

*The stops* need `Paired`: two open legs of one group are a stop and a target, sell the same
instrument and have the same number of shares left, and only legs of a group are reduce-only.
So a leg has at most one open sibling, and what a sale takes from the shares under a live stop
is what it sold, or, when the target fills and the stop is cancelled, all that the stop covered
(`CoverExit`); a partial sale then places a stop for the rest (`ReplaceCovers`).  `Paired` holds
after an exception too, since it speaks of the orders alone.

*The fixture*: a command about to write holds the one unspent consumption of its permit,
link rows name different quotes (`WriteInv`), and every decision taken is a status the
broker's order does not leave any more (`TruthInv`).

*Trials*: `Paid` (a registered experiment holds its allocation), `BundleProgress` (what a
runner has written and recorded by the step it stands at), and for `EndIsFinal` that an
experiment which never overlapped has one worker (`SoleWorker`), who appends to the status
it checked (`StatusIsFresh`).

*Acceptance evidence*: `BurnInInv` says that what an object of the registry stands for is on
disk (`ObjectGood`), how much of a session a capture has written by the step it stands at, and
that no two cases a corpus counts share a session or a receipt (`Exclusive`).  The
evaluation counts cases in the order of their ids; that the count stays exclusive, and that the
other two readers see at least what it saw (`ReadersAgree`), is proved along that order, by the
least id where it would fail.

*Contradictions*: `VisibleInv` says of a process about to store that it has the edges between
its claims and everything visible when it read the clock (`EdgesInHand`), that nothing stored
is younger than that (`StoredBefore`), and that unexpired stored claims have their edges
(`EdgesStored`).  The claims are compared in the order of their ids; that such an order
exists and contains each of them needs the ids to be different (`OrderExists`, by a smallest
set without one, to which its last claim is appended).  `interfered` is what each of the three
stops at.

*Evidence*: stored documents of a day plus the processes admitted and not yet inserted
are at most the budget plus one per further process; calls are counted in the transaction
that inserts them.

*Restore*: the refinement needs `BackupInv`: a manifest is that of a finished backup, what
is copied so far is what the backup holds, what is linked is a whole backup.  Each action
then is `Backup`, `Switch`, `Write` or a stutter of `AtomicRestore`.

Checked by TLC only:

- liveness (`UncertainSubmitResolves`, `FreezeClears`): fairness and `ENABLED` are outside
  the prover;
- `AbortsOnlyOnLimits`: which limits a replay runs into depends on the prices, commissions and
  limits of the instance.

Induction over data appears in the proofs only where the model uses recursive functions or
sums over finite sets: the argument is then a least number or a smallest set for which the
claim fails.  The library's induction theorems and its folds with an operator parameter are
not used; `FoldLeft`, `FoldSeq` and `SetToSortSeq` do not occur in what the proofs reach.

## 5. What is not modelled

Of the control store: the cash bridge, baseline epochs, the write-only ledgers,
`rebuild_projection` and the schema migrations.  Of the observer: how the reducer merges
the fields of an order's facts, commissions and their matching, visibility scopes, the
session export and the snapshot adapter.  The write paths of the IBKR adapter, which
configuration keeps disabled, and its preflight report.  Of the replay: the projection of
point-in-time records into frames and the parity report.  Of the registry of trials:
`register_protocol`.  The extractors, prompts and citations of the evidence service.
Golden tape, safety case, shadow, the operations service and the research statistics
are deterministic reports of one input, without coordination to model check; strategies,
features, regimes and providers are floating-point functions and network I/O.  The
point-in-time store is append-only and content-addressed; what can go wrong there is a
query over timestamps, and it is listed as a hazard without a model.  Each is listed
with its status in `PROJECT.json`.  Formats,
hashes and logging are left out throughout: a canonical hash is the identity of what it
hashes.

## 6. Plan

What exists covers, in the order in which the parts matter to an account, the execution
plane, the consensus and the observer, the replay, the decision loop with its paper
broker, trials, evidence, backups, the fixture and the acceptance evidence.  Next:

1. *Proofs*: what section 4 leaves to TLC of the replay.
2. *Models*: the cash bridge and baseline epochs of the control store; an abstract
   specification of "one economic effect per intent"
   (`docs/adr/0007-durable-execution-control-plane.md`) with `ExecutionPlane` shown to
   implement it; the composition of `SnapshotConsensus` with the plane, for the window
   between the unfreeze and the ticket for incomplete components; the point-in-time
   catalog.
