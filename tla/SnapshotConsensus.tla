-------------------------- MODULE SnapshotConsensus --------------------------
(***************************************************************************)
(* Promotion of a broker snapshot to authority: Reconciler.                *)
(* reconcile_authoritative over register_snapshot_consensus and            *)
(* record_broker_snapshot_authority, for one visibility scope.             *)
(*                                                                         *)
(* Callers are processes that each hand one snapshot to                    *)
(* reconcile_authoritative; every transaction of the call is one step.     *)
(* Reconciler.reconcile itself is the subject of ExecutionPlane: here it   *)
(* converges, finds warnings only, or finds something critical.  The       *)
(* control_state flag follows the tickets (FreezeGate of ExecutionPlane)   *)
(* and is left out.                                                        *)
(***************************************************************************)
EXTENDS Integers, Sequences

CONSTANTS
    Snapshots,          \* the snapshots the observer may take
    Callers,            \* concurrent calls of reconcile_authoritative
    MinimumInterval,    \* minimum_consensus_interval
    ValuationBudget,    \* drift allowed between two valuations
    Replays,            \* may a snapshot be handed in a second time?
    MaxVotes            \* bound: rows of broker_snapshot_votes

\* form: what register_snapshot_consensus and reconcile test before they look at any
\* field; components: every component flag is set and no commission is pending.
Snapshot ==
    [observation : Nat, certificate : Nat, session : Nat, hash : Nat, policy : Nat,
     asOf : Nat, watermark : Nat, value : Int, components : BOOLEAN,
     form : {"full", "no metadata", "incomplete"}]

ASSUME ConsensusAssumption ==
    /\ Snapshots \subseteq Snapshot
    /\ MinimumInterval \in Nat
    /\ ValuationBudget \in Nat
    /\ Replays \in BOOLEAN
    /\ MaxVotes \in Nat

VARIABLES
    votes,              \* broker_snapshot_votes, in the order of recorded_at
    row,                \* broker_snapshot_consensus of the scope, count 0: no row
    authority,          \* snapshots in broker_snapshot_authority
    tickets,            \* unresolved freeze tickets
    calls               \* per caller: next step, snapshot

vars == <<votes, row, authority, tickets, calls>>

Disposition ==
    {"ACCEPTED_FIRST", "ACCEPTED_INDEPENDENT", "ACCEPTED_DIVERGENT_RESET",
     "REJECTED_NON_INDEPENDENT"}

\* The tickets unfreeze_after_reconciliation resolves.
ReconcilerOwned ==
    {"STARTUP_RECONCILIATION", "RECONCILIATION_IN_PROGRESS",
     "CRITICAL_RECONCILIATION_DISCREPANCY", "INCOMPLETE_BROKER_SNAPSHOT",
     "BROKER_SNAPSHOT_CONSENSUS_PENDING"}

\* No call is running; the snapshot is the one handed in last, if any.
NoCall == [step |-> "idle", snapshot |-> {}]

Init ==
    /\ votes = <<>>
    /\ row = [hash |-> 0, count |-> 0]
    /\ authority = {}
    /\ tickets = {"STARTUP_RECONCILIATION"}
    /\ calls = [c \in Callers |-> NoCall]

-----------------------------------------------------------------------------
(* register_snapshot_consensus                                             *)

accepted(n) == votes[n].disposition # "REJECTED_NON_INDEPENDENT"

\* The accepted vote with the newest snapshot, the later recorded one of equals.
previous(n) ==
    /\ accepted(n)
    /\ \A m \in DOMAIN votes :
         accepted(m) => \/ votes[m].snapshot.asOf < votes[n].snapshot.asOf
                        \/ votes[m].snapshot.asOf = votes[n].snapshot.asOf /\ m <= n

\* state_equivalent of _authority_equivalence.
authority_equivalence(u, s) ==
    /\ u.hash = s.hash
    /\ u.policy = s.policy
    /\ s.value - u.value \in -ValuationBudget .. ValuationBudget

\* Snapshot s is an observation of its own, later than u.
independent(u, s) ==
    /\ u.certificate # s.certificate
    /\ u.session # s.session
    /\ s.asOf > u.asOf
    /\ s.watermark > u.watermark
    /\ s.asOf - u.asOf >= MinimumInterval

\* The vote of s, given the accepted vote u it is compared with, and the count then.
disposition(u, s) ==
    IF ~authority_equivalence(u, s) THEN "ACCEPTED_DIVERGENT_RESET"
    ELSE IF independent(u, s) THEN "ACCEPTED_INDEPENDENT" ELSE "REJECTED_NON_INDEPENDENT"

\* Mutant: a divergent snapshot does not start the count again.
count_after_never_resets(d) == IF d = "ACCEPTED_INDEPENDENT" THEN row.count + 1 ELSE row.count

count_after(d) ==
    CASE d = "ACCEPTED_INDEPENDENT" -> row.count + 1
      [] d = "REJECTED_NON_INDEPENDENT" -> row.count
      [] d \in {"ACCEPTED_FIRST", "ACCEPTED_DIVERGENT_RESET"} -> 1

record_vote(s, d) ==
    /\ votes' = Append(votes, [snapshot |-> s, disposition |-> d])
    /\ row' = [hash |-> s.hash, count |-> count_after(d)]

\* An observation that already voted: nothing is written.
registered(s) == \E n \in DOMAIN votes : votes[n].snapshot.observation = s.observation

\* Mutant: one accepted vote is enough.
goes_on_first_vote(c) ==
    calls' = [calls EXCEPT ![c].step = IF row'.count >= 1 THEN "reconcile" ELSE "pending"]

\* The consensus row decides, also for an observation that voted earlier.
goes_on(c) ==
    calls' = [calls EXCEPT ![c].step = IF row'.count >= 2 THEN "reconcile" ELSE "pending"]

register_snapshot_consensus(c) ==
    LET s == calls[c].snapshot
    IN  /\ calls[c].step = "register"
        /\ s.form = "full"
        /\ \/ /\ registered(s)
              /\ UNCHANGED <<votes, row>>
           \/ /\ ~registered(s)
              /\ ~ \E n \in DOMAIN votes : accepted(n)
              /\ record_vote(s, "ACCEPTED_FIRST")
           \/ /\ ~registered(s)
              /\ \E n \in DOMAIN votes :
                   previous(n) /\ record_vote(s, disposition(votes[n].snapshot, s))
        /\ goes_on(c)
        /\ UNCHANGED <<authority, tickets>>

\* Without the metadata a vote needs there is no consensus.
register_without_metadata(c) ==
    /\ calls[c].step = "register"
    /\ calls[c].snapshot.form = "no metadata"
    /\ calls' = [calls EXCEPT ![c].step = "pending"]
    /\ UNCHANGED <<votes, row, authority, tickets>>

-----------------------------------------------------------------------------
(* reconcile_authoritative                                                 *)

observe(c, s) ==
    /\ calls[c].step = "idle"
    /\ s.form = "full" => registered(s) \/ Len(votes) < MaxVotes
    /\ registered(s) => Replays
    /\ \A d \in Callers : calls[d].step # "idle" => calls[d].snapshot # s
    /\ calls' = [calls EXCEPT ![c] = [step |-> "register", snapshot |-> s]]
    /\ UNCHANGED <<votes, row, authority, tickets>>

\* An incomplete snapshot is reconciled at once, which only freezes.
incomplete(c) ==
    /\ calls[c].step = "register"
    /\ calls[c].snapshot.form = "incomplete"
    /\ tickets' = tickets \union {"INCOMPLETE_BROKER_SNAPSHOT"}
    /\ calls' = [calls EXCEPT ![c] = NoCall]
    /\ UNCHANGED <<votes, row, authority>>

awaiting_consensus(c) ==
    /\ calls[c].step = "pending"
    /\ tickets' = tickets \union {"BROKER_SNAPSHOT_CONSENSUS_PENDING"}
    /\ calls' = [calls EXCEPT ![c] = NoCall]
    /\ UNCHANGED <<votes, row, authority>>

\* reconcile finds a critical discrepancy: the snapshot is recorded as a rejected
\* candidate, which nothing reads.
reconcile_critical(c) ==
    /\ calls[c].step = "reconcile"
    /\ tickets' = tickets \union {"RECONCILIATION_IN_PROGRESS",
                                  "CRITICAL_RECONCILIATION_DISCREPANCY"}
    /\ calls' = [calls EXCEPT ![c] = NoCall]
    /\ UNCHANGED <<votes, row, authority>>

\* reconcile finds warnings only: it resolves its tickets, and nothing is promoted.
reconcile_degraded(c) ==
    /\ calls[c].step = "reconcile"
    /\ tickets' = tickets \ ReconcilerOwned
    /\ calls' = [calls EXCEPT ![c] = NoCall]
    /\ UNCHANGED <<votes, row, authority>>

\* reconcile converges and resolves the tickets of the reconciler.
reconcile_converged(c) ==
    /\ calls[c].step = "reconcile"
    /\ tickets' = tickets \ ReconcilerOwned
    /\ calls' = [calls EXCEPT ![c].step = "promote"]
    /\ UNCHANGED <<votes, row, authority>>

record_broker_snapshot_authority(c) ==
    /\ calls[c].step = "promote"
    /\ IF calls[c].snapshot.components
       THEN /\ authority' = authority \union {calls[c].snapshot}
            /\ calls' = [calls EXCEPT ![c] = NoCall]
       ELSE /\ calls' = [calls EXCEPT ![c].step = "reject"]
            /\ UNCHANGED authority
    /\ UNCHANGED <<votes, row, tickets>>

authority_rejected(c) ==
    /\ calls[c].step = "reject"
    /\ tickets' = tickets \union {"BROKER_AUTHORITY_COMPONENTS_INCOMPLETE"}
    /\ calls' = [calls EXCEPT ![c] = NoCall]
    /\ UNCHANGED <<votes, row, authority>>

\* The calling process dies between two transactions.
crash(c) ==
    /\ calls[c].step # "idle"
    /\ calls' = [calls EXCEPT ![c] = NoCall]
    /\ UNCHANGED <<votes, row, authority, tickets>>

Next ==
    \E c \in Callers :
        \/ \E s \in Snapshots : observe(c, s)
        \/ register_snapshot_consensus(c)
        \/ register_without_metadata(c)
        \/ incomplete(c)
        \/ awaiting_consensus(c)
        \/ reconcile_critical(c)
        \/ reconcile_degraded(c)
        \/ reconcile_converged(c)
        \/ record_broker_snapshot_authority(c)
        \/ authority_rejected(c)
        \/ crash(c)

Spec == Init /\ [][Next]_vars

-----------------------------------------------------------------------------
(* Properties.                                                             *)

\* Two accepted votes for hash h are witnesses independent of each other.
witnessed(h) ==
    \E m, n \in DOMAIN votes :
        /\ accepted(m) /\ accepted(n)
        /\ votes[m].snapshot.hash = h /\ votes[n].snapshot.hash = h
        /\ votes[m].snapshot.policy = votes[n].snapshot.policy
        /\ votes[n].snapshot.value - votes[m].snapshot.value
             \in -ValuationBudget .. ValuationBudget
        /\ votes[m].snapshot.certificate # votes[n].snapshot.certificate
        /\ votes[m].snapshot.session # votes[n].snapshot.session
        /\ votes[n].snapshot.asOf - votes[m].snapshot.asOf >= MinimumInterval
        /\ votes[n].snapshot.watermark > votes[m].snapshot.watermark

\* A consensus row that counts two stands for two independent, equivalent observations
\* of the very state it names, whatever late, divergent or repeated snapshots were
\* registered in between.
ConsensusIsWitnessed == row.count >= 2 => witnessed(row.hash)

\* A promoted authority shows a broker state that two independent observations agree on.
AuthorityIsWitnessed == \A s \in authority : witnessed(s.hash)
=============================================================================
