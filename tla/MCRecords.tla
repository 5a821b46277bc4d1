------------------------------ MODULE MCRecords -----------------------------
(***************************************************************************)
(* A TLC instance of the records the program keeps beside trading: trials  *)
(* and promotions, documents and claims, the backups of databases, and the *)
(* E1 acceptance evidence with its registry.  Each is written by commands  *)
(* of its own, in files of its own; `record` says which one a behaviour    *)
(* exercises.                                                              *)
(***************************************************************************)
EXTENDS TrialLedger, EvidenceStore, BackupRestore, BurnInEvidence

VARIABLE record

\* Two manifests after one allocation, and a counterfactual of the first.
manifest(id, trial, role, parent) ==
    [id |-> id, trial |-> trial, role |-> role, parent |-> parent]

MCManifests ==
    {manifest(1, 1, "test", 0), manifest(2, 1, "test", 0), manifest(3, 2, "counterfactual", 1)}

MCTrialKeys ==
    {[key |-> "k", role |-> "test"], [key |-> "l", role |-> "counterfactual"],
     [key |-> "n", role |-> "test"]}

MCAuthorities ==
    [reviewer : {"independent", "researcher"}, approved : {TRUE}, gates : {TRUE}]

\* Opposing claims in two documents, a third with the content of the first.  The ids are
\* hashes: the earlier document's claim may well have the larger one.
claim(id, kind, at, expires) ==
    [id |-> id, scope |-> "s", kind |-> kind, at |-> at, expires |-> expires]

document(id, at, content, results) ==
    [id |-> id, day |-> 0, at |-> at, content |-> content, results |-> results]

MCDocuments ==
    {document(1, 0, "x", {<<claim(2, "raise", 0, 1)>>, <<>>}),
     document(2, 0, "y", {<<claim(1, "cut", 0, 3)>>}),
     document(3, 1, "x", {<<claim(3, "raise", 1, 3)>>, <<>>})}

\* The same with a third content: nothing of it is cached when it is read.
MCFreshDocuments ==
    {document(1, 0, "x", {<<claim(2, "raise", 0, 3)>>}),
     document(2, 0, "y", {<<claim(1, "cut", 0, 3)>>}),
     document(3, 0, "z", {<<>>})}

\* Two sessions of a held position from different boots, and one under another client.
observation(id, scenario, boot, client, outcomes) ==
    [id |-> id, scope |-> "api", scenario |-> scenario, boot |-> boot, client |-> client,
     scopeHash |-> client, state |-> "flat", binding |-> "b", positions |-> TRUE,
     orders |-> FALSE, origin |-> "none", outcomes |-> outcomes]

first == observation(1, "static_position", 1, 41, {TRUE})
second == observation(2, "static_position", 2, 41, {TRUE})
switched == observation(3, "client_id_switch", 1, 42, BOOLEAN)

MCObservations == {first, second, switched}

manual == [id |-> 1, type |-> "MANUAL_ACTION", instance |-> 1, marks |-> {}, binding |-> "b"]

MCEventReceipts == {manual}

MCCasePlans ==
    {[type |-> "static_position", children |-> {first, second}, receipts |-> {manual}],
     [type |-> "client_id_switch", children |-> {second, switched}, receipts |-> {}]}

MCSessionRequirements == [static_position |-> 2, client_id_switch |-> 1]
MCCaseRequirements == [static_position |-> 1]
MCOperatorRequests == {[seen |-> first, status |-> "REJECTED"]}

\* Runners, ingesters and registrars are the same two processes.
ProcessSymmetry == Permutations(Runners)

MCInit ==
    /\ record \in {"trial", "evidence", "backup", "burn-in"}
    /\ TrialInit /\ EvidenceInit /\ BackupInit /\ BurnInInit

MCNext ==
    /\ UNCHANGED record
    /\ \/ record = "trial" /\ TrialNext /\ UNCHANGED <<evidenceVars, backupVars, burnInVars>>
       \/ record = "evidence" /\ EvidenceNext /\ UNCHANGED <<trialVars, backupVars, burnInVars>>
       \/ record = "backup" /\ BackupNext /\ UNCHANGED <<trialVars, evidenceVars, burnInVars>>
       \/ record = "burn-in" /\ BurnInNext /\ UNCHANGED <<trialVars, evidenceVars, backupVars>>

MCSpec == MCInit /\ [][MCNext]_<<record, trialVars, evidenceVars, backupVars, burnInVars>>
=============================================================================
