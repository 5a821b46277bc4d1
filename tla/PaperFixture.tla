------------------------------ MODULE PaperFixture ------------------------------
(***************************************************************************)
(* The isolated Paper fixture (scripts/e1_paper_fixture.py): quote         *)
(* capsules, one-shot permits, the lifecycle ledger, and the `execute`     *)
(* command that spends one permit on one broker write.  Every command is   *)
(* a process of its own; several may run at once, and any may die between  *)
(* two of its steps.  One account and one contract are modelled: the       *)
(* identity, symbol and port bindings then always agree.  Permits and      *)
(* quotes are named by the order they were created in; a broker order is   *)
(* named by the permit that placed it (its "E1FIX:" order reference).      *)
(***************************************************************************)
EXTENDS Integers, Sequences, FiniteSets

CONSTANTS
    Commands,            \* processes running one fixture command each
    Lifecycles,          \* lifecycle ids
    FeedScopes,          \* attested feed scopes, "UNKNOWN" among them
    Prices,              \* limit prices a permit may be asked for
    MaxQuotes,           \* bound: quote capsules captured
    MaxPermits,          \* bound: permits created
    MaxExecutions,       \* bound: execute commands started
    MaxFixtureNow,       \* bound: the clock
    MaxFixtureCrashes    \* bound: commands killed

ASSUME FixtureAssumption ==
    {MaxQuotes, MaxPermits, MaxExecutions, MaxFixtureNow, MaxFixtureCrashes} \subseteq Nat

VARIABLES
    fixtureNow,       \* _utc_now
    capsules,         \* quote capsules: <<[feed, expires]>>
    permits,          \* permits: <<[action, side, quote, target, expires]>>
    lifecycles,       \* fixture_lifecycles: id -> state
    linked,           \* fixture_lifecycle_quotes: rows keyed by permit
    consumed,         \* consumed_fixture_permits
    actions,          \* fixture_lifecycle_actions: rows keyed by permit
    receipts,         \* POST_WRITE receipts written: [permit, decision]
    brokerOrder,      \* the broker's order per placing permit
    cancels,          \* cancel requests on their way
    brokerPosition,   \* the broker's position in the contract
    command,          \* each command's progress
    brokerWrites,     \* broker writes made per permit
    executions,       \* execute commands started
    fixtureCrashes

fixtureVars == <<fixtureNow, capsules, permits, lifecycles, linked, consumed,
                 actions, receipts, brokerOrder, cancels, brokerPosition,
                 command, brokerWrites, executions, fixtureCrashes>>
ledgers == <<lifecycles, linked, consumed, actions, receipts>>
broker == <<brokerOrder, cancels, brokerPosition>>
papers == <<fixtureNow, capsules, permits, executions, fixtureCrashes>>

PermitIds == 1..MaxPermits
FixtureActions == {"PLACE", "MODIFY", "CANCEL", "CLOSE_POSITION"}

\* Fifteen seconds and fifteen minutes: a quote is gone at the next tick, a permit later.
QUOTE_TTL == 0
PERMIT_TTL == 1
\* Prices in cents: the quote's bid and ask, the collar and its one-cent slack.
Bid == 10
Ask == 12
PRICE_COLLAR == 5

NoQuote == 0
NoOrder == 0
Idle == [pc |-> "idle"]
NoRow == [lifecycle |-> "none"]

FixtureInit ==
    /\ fixtureNow = 0 /\ capsules = <<>> /\ permits = <<>>
    /\ lifecycles = [l \in Lifecycles |-> "none"]
    /\ linked = [p \in PermitIds |-> NoRow]
    /\ consumed = {}
    /\ actions = [p \in PermitIds |-> NoRow]
    /\ receipts = {}
    /\ brokerOrder = [p \in PermitIds |-> "none"]
    /\ cancels = {} /\ brokerPosition = 0
    /\ command = [c \in Commands |-> Idle]
    /\ brokerWrites = [p \in PermitIds |-> 0]
    /\ executions = 0 /\ fixtureCrashes = 0

------------------------------------------------------------------------------
(* Quote capsules and permits: immutable documents with an expiry.          *)

\* _quote_capsule_body: written only for a real-time quote of the regular session
\* inside the spread collar; its feed scope is the operator's attestation.
quote_capsule(feed) == [feed |-> feed, expires |-> fixtureNow + QUOTE_TTL]

capture_quote ==
    /\ Len(capsules) < MaxQuotes
    /\ \E feed \in FeedScopes : capsules' = Append(capsules, quote_capsule(feed))
    /\ UNCHANGED <<fixtureNow, permits, ledgers, broker, command, brokerWrites, executions,
                   fixtureCrashes>>

\* _load_quote_capsule: fit for a Paper fixture and not stale.
load_quote_capsule(q) ==
    /\ q \in DOMAIN capsules
    /\ capsules[q].feed # "UNKNOWN"
    /\ capsules[q].expires >= fixtureNow

in_collar(side, price) ==
    IF side = "BUY" THEN price \in (Ask - 1) .. (Ask + PRICE_COLLAR)
                    ELSE price \in (Bid - PRICE_COLLAR) .. (Bid + 1)

\* Only a cancel needs no quote; it lives for the full permit TTL.
quote_bound(action) == action # "CANCEL"
order_bound(action) == action \in {"MODIFY", "CANCEL"}

\* _permit_body: a CLOSE sells; PLACE and MODIFY take the side they are given.
permit_body(action, side, price, q, target) ==
    [action |-> action, quote |-> q, target |-> target,
     side |-> IF action = "CLOSE_POSITION" THEN "SELL" ELSE side,
     expires |-> IF quote_bound(action) THEN capsules[q].expires
                                        ELSE fixtureNow + PERMIT_TTL]

create_permit ==
    \E action \in FixtureActions, side \in {"BUY", "SELL"}, price \in Prices,
       q \in 0..Len(capsules), target \in 0..Len(permits) :
        LET permit == permit_body(action, side, price, q, target) IN
        /\ Len(permits) < MaxPermits
        /\ order_bound(action) <=> target # NoOrder
        /\ quote_bound(action) <=> q # NoQuote
        /\ quote_bound(action) => load_quote_capsule(q) /\ in_collar(permit.side, price)
        /\ permits' = Append(permits, permit)
        /\ UNCHANGED <<fixtureNow, capsules, ledgers, broker, command, brokerWrites,
                       executions, fixtureCrashes>>

tick ==
    /\ fixtureNow < MaxFixtureNow
    /\ fixtureNow' = fixtureNow + 1
    /\ UNCHANGED <<capsules, permits, ledgers, broker, command, brokerWrites, executions,
                   fixtureCrashes>>

------------------------------------------------------------------------------
(* The lifecycle ledger.                                                    *)

\* _fixture_state: the broker's open fixture orders and its position.
fixture_state ==
    [orders |-> {p \in PermitIds : brokerOrder[p] = "Submitted"},
     position |-> brokerPosition]

\* Baselines are zero, so clean means: no fixture order, no position.
cleanup_is_complete(snapshot) == snapshot.orders = {} /\ snapshot.position = 0

\* start_lifecycle reads the broker, then inserts the row.
start_lifecycle_read(c, l) ==
    /\ command[c] = Idle /\ lifecycles[l] = "none"
    /\ \A d \in Commands : command[d] # [pc |-> "start", lifecycle |-> l]
    /\ \E q \in DOMAIN capsules : load_quote_capsule(q)
    /\ cleanup_is_complete(fixture_state)
    /\ command' = [command EXCEPT ![c] = [pc |-> "start", lifecycle |-> l]]
    /\ UNCHANGED <<papers, ledgers, broker, brokerWrites>>

start_lifecycle_insert(c) ==
    /\ command[c].pc = "start"
    /\ lifecycles' = [lifecycles EXCEPT ![command[c].lifecycle] = "STARTED"]
    /\ command' = [command EXCEPT ![c] = Idle]
    /\ UNCHANGED <<papers, linked, consumed, actions, receipts, broker, brokerWrites>>

\* finish_lifecycle reads the broker and registers its receipt; only a clean
\* snapshot goes on to close the lifecycle.
finish_lifecycle_read(c, l) ==
    /\ command[c] = Idle /\ lifecycles[l] # "none"
    /\ cleanup_is_complete(fixture_state)
    /\ command' = [command EXCEPT ![c] = [pc |-> "finish", lifecycle |-> l]]
    /\ UNCHANGED <<papers, ledgers, broker, brokerWrites>>

finish_lifecycle_update(c) ==
    /\ command[c].pc = "finish"
    /\ lifecycles' = [lifecycles EXCEPT ![command[c].lifecycle] = "CLEAN"]
    /\ command' = [command EXCEPT ![c] = Idle]
    /\ UNCHANGED <<papers, linked, consumed, actions, receipts, broker, brokerWrites>>

------------------------------------------------------------------------------
(* execute_permit: load, reserve, consume, write, classify, post, record.   *)

\* _load_permit and _verify_permit_quote_binding.
load_permit(p) ==
    /\ permits[p].expires >= fixtureNow
    /\ permits[p].quote # NoQuote => load_quote_capsule(permits[p].quote)

\* _validate_lifecycle_action.
validate_lifecycle_action(l) == lifecycles[l] \notin {"none", "CLEAN"}

\* The cost gate: a Paper fixture costs nothing, so only a zero budget passes.
external_cost_allowed(max_new_cost) == max_new_cost = 0

execute_load(c, p, l, max_new_cost) ==
    /\ command[c] = Idle /\ executions < MaxExecutions
    /\ load_permit(p) /\ validate_lifecycle_action(l)
    /\ external_cost_allowed(max_new_cost)
    /\ command' = [command EXCEPT ![c] =
           [pc |-> "reserve", permit |-> p, lifecycle |-> l]]
    /\ executions' = executions + 1
    /\ UNCHANGED <<fixtureNow, capsules, permits, fixtureCrashes, ledgers, broker, brokerWrites>>

goto(c, pc) == command' = [command EXCEPT ![c] = [@ EXCEPT !.pc = pc]]
decided(c, decision) ==
    command' = [command EXCEPT ![c] =
        [pc |-> "post", permit |-> @.permit, lifecycle |-> @.lifecycle,
         decision |-> decision]]

\* Mutant: INSERT OR IGNORE.
unique_ignored(taken, key) == TRUE
\* A UNIQUE column refuses a second row.
unique(taken, key) == key \notin taken

link_unique(p) ==
    LET rows == {r \in PermitIds : linked[r] # NoRow} IN
    /\ unique(rows, p)
    /\ permits[p].quote # NoQuote =>
           unique({permits[r].quote : r \in rows}, permits[p].quote)

\* _reserve_lifecycle_action.  A closed lifecycle leaves the outcome unknown;
\* a duplicate row is reported as a broker rejection.
execute_reserve(c) ==
    LET p == command[c].permit
        l == command[c].lifecycle
    IN
    /\ command[c].pc = "reserve"
    /\ UNCHANGED <<papers, lifecycles, consumed, actions, receipts, broker, brokerWrites>>
    /\ \/ /\ ~validate_lifecycle_action(l)
          /\ decided(c, "OUTCOME_UNKNOWN")
          /\ UNCHANGED linked
       \/ /\ validate_lifecycle_action(l) /\ link_unique(p)
          /\ linked' = [linked EXCEPT ![p] =
                 [lifecycle |-> l, decision |-> "AUTHORIZED_NOT_YET_SENT"]]
          /\ goto(c, "consume")
       \/ /\ validate_lifecycle_action(l) /\ ~link_unique(p)
          /\ decided(c, "BROKER_REJECTED")
          /\ UNCHANGED linked

\* _consume_permit_once.
execute_consume(c) ==
    LET p == command[c].permit IN
    /\ command[c].pc = "consume"
    /\ UNCHANGED <<papers, lifecycles, linked, actions, receipts, broker, brokerWrites>>
    /\ \/ /\ unique(consumed, p)
          /\ consumed' = consumed \union {p}
          /\ goto(c, "write")
       \/ /\ ~unique(consumed, p)
          /\ decided(c, "BROKER_REJECTED")
          /\ UNCHANGED consumed

\* The broker order a permit acts on.
order_of(p) == IF order_bound(permits[p].action) THEN permits[p].target ELSE p

\* What _execute_action asks the broker before it writes.
write_allowed(p) ==
    CASE permits[p].action = "PLACE" -> TRUE
      [] permits[p].action = "CLOSE_POSITION" -> brokerPosition = 1
      [] permits[p].action = "CANCEL" -> brokerOrder[permits[p].target] = "Submitted"
      [] permits[p].action = "MODIFY" ->
             /\ brokerOrder[permits[p].target] = "Submitted"
             /\ permits[permits[p].target].side = permits[p].side

\* _execute_action: a lookup that refuses, or times out, writes nothing and
\* leaves the outcome unknown.
execute_write(c) ==
    LET p == command[c].permit IN
    /\ command[c].pc = "write"
    /\ UNCHANGED <<papers, ledgers, brokerPosition>>
    /\ \/ /\ write_allowed(p)
          /\ goto(c, "await")
          /\ brokerWrites' = [brokerWrites EXCEPT ![p] = @ + 1]
          /\ cancels' = IF permits[p].action = "CANCEL"
                        THEN cancels \union {permits[p].target} ELSE cancels
          /\ brokerOrder' = IF order_bound(permits[p].action) THEN brokerOrder
                            ELSE [brokerOrder EXCEPT ![p] = "sent"]
       \/ /\ permits[p].action # "PLACE"
          /\ decided(c, "OUTCOME_UNKNOWN")
          /\ UNCHANGED <<brokerOrder, cancels, brokerWrites>>

\* Mutant: an order id without a status counts as accepted.
classify_outcome_by_id(status, open_order_seen, errors) ==
    IF errors \/ status = "Inactive" THEN "BROKER_REJECTED"
    ELSE IF status = "Filled" THEN "BROKER_FILLED"
    ELSE IF status = "Cancelled" THEN "BROKER_CANCELLED"
    ELSE "BROKER_ACCEPTED_OPEN"
\* _classify_outcome: an actionable error callback outranks any status.
classify_outcome(status, open_order_seen, errors) ==
    IF errors \/ status = "Inactive" THEN "BROKER_REJECTED"
    ELSE IF status = "Filled" THEN "BROKER_FILLED"
    ELSE IF status = "Cancelled" THEN "BROKER_CANCELLED"
    ELSE IF status = "Submitted" /\ open_order_seen THEN "BROKER_ACCEPTED_OPEN"
    ELSE "OUTCOME_UNKNOWN"

\* After at most five seconds: the status callbacks seen so far, if any.
execute_await(c) ==
    LET p == command[c].permit IN
    /\ command[c].pc = "await"
    /\ \E status \in {brokerOrder[order_of(p)], "none"}, seen \in BOOLEAN, errors \in BOOLEAN :
           decided(c, classify_outcome(status, seen, errors))
    /\ UNCHANGED <<papers, ledgers, broker, brokerWrites>>

\* The POST_WRITE receipt is written and registered.
execute_post(c) ==
    /\ command[c].pc = "post"
    /\ receipts' = receipts \union
           {[permit |-> command[c].permit, decision |-> command[c].decision]}
    /\ goto(c, "record")
    /\ UNCHANGED <<papers, lifecycles, linked, consumed, actions, broker, brokerWrites>>

\* _record_lifecycle_action: one transaction; a second row for the permit
\* raises and changes nothing.
execute_record(c) ==
    LET p == command[c].permit
        l == command[c].lifecycle
    IN
    /\ command[c].pc = "record"
    /\ command' = [command EXCEPT ![c] = Idle]
    /\ \/ /\ unique({r \in PermitIds : actions[r] # NoRow}, p)
          /\ actions' = [actions EXCEPT ![p] =
                 [lifecycle |-> l, decision |-> command[c].decision]]
          /\ linked' = IF linked[p] # NoRow /\ linked[p].lifecycle = l
                       THEN [linked EXCEPT ![p].decision = command[c].decision]
                       ELSE linked
          /\ lifecycles' = [lifecycles EXCEPT ![l] = "CLEANUP_REQUIRED"]
       \/ /\ ~unique({r \in PermitIds : actions[r] # NoRow}, p)
          /\ UNCHANGED <<actions, linked, lifecycles>>
    /\ UNCHANGED <<papers, consumed, receipts, broker, brokerWrites>>

\* A command is killed: its transactions are rolled back, its writes stand.
fixture_crash(c) ==
    /\ fixtureCrashes < MaxFixtureCrashes /\ command[c] # Idle
    /\ fixtureCrashes' = fixtureCrashes + 1
    /\ command' = [command EXCEPT ![c] = Idle]
    /\ UNCHANGED <<fixtureNow, capsules, permits, executions, ledgers, broker, brokerWrites>>

------------------------------------------------------------------------------
(* The broker, as the fixture uses it: it accepts or refuses an order, fills *)
(* an accepted one, and cancels one that is still working.                   *)

broker_answers(p) ==
    \/ /\ brokerOrder[p] = "sent"
       /\ \E answer \in {"Submitted", "Inactive"} :
              brokerOrder' = [brokerOrder EXCEPT ![p] = answer]
       /\ UNCHANGED <<cancels, brokerPosition>>
    \/ /\ brokerOrder[p] = "Submitted"
       /\ brokerOrder' = [brokerOrder EXCEPT ![p] = "Filled"]
       /\ brokerPosition' = IF permits[p].side = "BUY" THEN brokerPosition + 1
                                                       ELSE brokerPosition - 1
       /\ UNCHANGED cancels
    \/ /\ brokerOrder[p] = "Submitted" /\ p \in cancels
       /\ brokerOrder' = [brokerOrder EXCEPT ![p] = "Cancelled"]
       /\ UNCHANGED <<cancels, brokerPosition>>

broker_step ==
    /\ \E p \in DOMAIN permits : broker_answers(p)
    /\ UNCHANGED <<papers, ledgers, command, brokerWrites>>

FixtureNext ==
    \/ capture_quote \/ create_permit \/ tick \/ broker_step
    \/ \E c \in Commands :
        \/ \E l \in Lifecycles : start_lifecycle_read(c, l) \/ finish_lifecycle_read(c, l)
        \/ start_lifecycle_insert(c) \/ finish_lifecycle_update(c)
        \/ \E p \in DOMAIN permits, l \in Lifecycles, cost \in {0, 1} :
               execute_load(c, p, l, cost)
        \/ execute_reserve(c) \/ execute_consume(c) \/ execute_write(c)
        \/ execute_await(c) \/ execute_post(c) \/ execute_record(c)
        \/ fixture_crash(c)

FixtureSpec == FixtureInit /\ [][FixtureNext]_fixtureVars

------------------------------------------------------------------------------
(* A permit reaches the broker at most once, and so does a quote: however   *)
(* many commands race for it and wherever they die ("consumes each permit   *)
(* before the first broker write so an uncertain outcome is never retried").*)
(* And whatever was written is on both ledgers, so that finish_lifecycle's  *)
(* receipt lists it.                                                        *)
written == {p \in DOMAIN permits : brokerWrites[p] > 0}
OneWritePerPermit ==
    /\ \A p \in written :
           brokerWrites[p] = 1 /\ p \in consumed /\ linked[p] # NoRow
    /\ \A p, r \in written :
           p # r /\ permits[p].quote # NoQuote => permits[p].quote # permits[r].quote

(* A receipt that claims success tells the truth about the broker's order,  *)
(* although it is classified from whatever callbacks arrived in time and    *)
(* the order moves on meanwhile.                                            *)
SuccessReceiptIsTrue ==
    \A r \in receipts :
        LET status == brokerOrder[order_of(r.permit)] IN
        /\ r.decision = "BROKER_FILLED" => status = "Filled"
        /\ r.decision = "BROKER_CANCELLED" => status = "Cancelled"
        /\ r.decision = "BROKER_ACCEPTED_OPEN" => status \notin {"none", "sent", "Inactive"}

(* "Only BUY to open, or SELL to close after exact proof": the fixture never *)
(* leaves the account short.                                                 *)
NeverShort == brokerPosition >= 0
=============================================================================
