----------------------------- MODULE TrialLedger -----------------------------
(***************************************************************************)
(* The experiment registry, the runner that drives one trial through it    *)
(* and the promotion service (experiments/registry.py, runner.py,          *)
(* artifacts.py, research/promotion.py).                                   *)
(*                                                                         *)
(* Runners and promoters are processes that share one SQLite file and one  *)
(* artifact directory.  allocate_trial decides inside its write            *)
(* transaction; register, transition, record_artifact and promote read     *)
(* first and write in a transaction of their own, so what they read may be *)
(* old.  A manifest fixes the result of its replay, so a file or a digest  *)
(* is known by its name.  Event times are left out.                        *)
(***************************************************************************)
EXTENDS Integers, Sequences, SequencesExt, FiniteSets, Functions, Tables

CONSTANTS
    Manifests,          \* id, trial (allocation number), role, parent (0 for none)
    TrialKeys,          \* idempotency keys with the window role they ask for
    TrialBudget,        \* max_trials of the protocol
    BundleFiles,        \* the files ResultBundleWriter writes
    Authorities,        \* signed assessments with approval: reviewer, approved, gates
    Runners,
    Promoters,
    MaxRuns,            \* bound: runs started
    MaxTrialCrashes     \* bound: crashes

ASSUME TrialAssumption == TrialBudget \in Nat /\ MaxRuns \in Nat /\ MaxTrialCrashes \in Nat

\* experiment_id is the digest of the manifest: never NULL, and different for different ones.
ASSUME ManifestAssumption ==
    /\ \A m \in Manifests : m.id # 0
    /\ \A m, n \in Manifests : m.id = n.id => m = n

\* Where a runner stands; while it inserts a digest, it stands at the file's name.
RunnerSteps ==
    {"idle", "insert", "registered", "append_running", "replay", "write", "record", "fail",
     "append_completed", "append_failed"}

ASSUME FileNamesAssumption == BundleFiles \intersect RunnerSteps = {}

VARIABLES
    allocations,        \* trial_allocations, in the order of trial_number
    history,            \* experiment -> its trial_events
    files,              \* experiment -> files in its artifact directory
    artifacts,          \* experiment -> names in the artifacts table
    authority,          \* experiment -> the recorded assessment and approval
    run,                \* per runner: step, manifest, files left, name being recorded
    promotion,          \* per promoter: step and manifest
    overlapped,         \* history: experiments that two processes worked on at once
    runs,               \* runs started
    trialCrashes

trialVars == <<allocations, history, files, artifacts, authority, run, promotion,
               overlapped, runs, trialCrashes>>

NoRun == [step |-> "idle", m |-> <<>>, todo |-> {}]
NoPromotion == [step |-> "idle", m |-> <<>>]
Ids == {m.id : m \in Manifests}

TrialInit ==
    /\ allocations = <<>>
    /\ history = [e \in {} |-> <<>>]
    /\ files = [e \in Ids |-> {}]
    /\ artifacts = [e \in Ids |-> {}]
    /\ authority = [e \in {} |-> <<>>]
    /\ run = [r \in Runners |-> NoRun]
    /\ promotion = [p \in Promoters |-> NoPromotion]
    /\ overlapped = {}
    /\ runs = 0
    /\ trialCrashes = 0

-----------------------------------------------------------------------------
(* allocate_trial: BEGIN IMMEDIATE around check and insert                 *)

allocate_trial(k) ==
    /\ \A i \in DOMAIN allocations : allocations[i].key # k.key
    /\ Len(allocations) < TrialBudget
    /\ allocations' = Append(allocations, [key |-> k.key, role |-> k.role, experiment |-> 0])
    /\ UNCHANGED <<history, files, artifacts, authority, run, promotion, overlapped, runs,
                   trialCrashes>>

-----------------------------------------------------------------------------
(* ExperimentRunner.run                                                    *)

ALLOWED ==
    [registered |-> {"running", "aborted"}, running |-> {"completed", "failed", "aborted"},
     completed |-> {}, failed |-> {}, aborted |-> {}, promoted |-> {}]

status_of(e) == Last(history[e])

\* Mutant: a failed trial may be run again.
allowed_again(e, status) ==
    status \in ALLOWED[status_of(e)] \/ (status_of(e) = "failed" /\ status = "running")

allowed(e, status) == status \in ALLOWED[status_of(e)]

busy(e) ==
    \/ \E r \in Runners : run[r].step # "idle" /\ run[r].m.id = e
    \/ \E p \in Promoters : promotion[p].step # "idle" /\ promotion[p].m.id = e

at_step(r, step) == run[r].step = step

goes_on(r, step) == run' = [run EXCEPT ![r].step = step]

ends(r) == run' = [run EXCEPT ![r] = NoRun]

\* The reads of register: the allocation matches, is free or is this experiment's own,
\* and the parent of a counterfactual is registered.
registrable(m) ==
    /\ m.trial \in DOMAIN allocations
    /\ allocations[m.trial].role = m.role
    /\ allocations[m.trial].experiment \in {0, m.id}
    /\ m.parent = 0 \/ m.parent \in DOMAIN history

register_read(r, m) ==
    /\ at_step(r, "idle") /\ runs < MaxRuns
    /\ registrable(m)
    /\ runs' = runs + 1
    /\ overlapped' = IF busy(m.id) THEN overlapped \union {m.id} ELSE overlapped
    /\ run' = [run EXCEPT ![r] = [NoRun EXCEPT !.m = m,
                 !.step = IF m.id \in DOMAIN history THEN "registered" ELSE "insert"]]
    /\ UNCHANGED <<allocations, history, files, artifacts, authority, promotion, trialCrashes>>

\* Mutant: the update does not ask for an allocation that is still free.
unconsumed_any(m) == TRUE

\* UPDATE trial_allocations ... WHERE experiment_id IS NULL
unconsumed(m) == allocations[m.trial].experiment = 0

\* A primary key that exists, and an allocation consumed meanwhile, raise.
register_experiment(r) ==
    LET m == run[r].m IN
    /\ at_step(r, "insert")
    /\ IF m.id \notin DOMAIN history /\ unconsumed(m)
       THEN /\ history' = put(history, m.id, <<"registered">>)
            /\ allocations' = [allocations EXCEPT ![m.trial].experiment = m.id]
            /\ goes_on(r, "registered")
       ELSE ends(r) /\ UNCHANGED <<history, allocations>>
    /\ UNCHANGED <<files, artifacts, authority, promotion, overlapped, runs, trialCrashes>>

\* A finished trial returns its result; any other but a registered one is refused.
look_up(r) ==
    /\ at_step(r, "registered")
    /\ IF allowed(run[r].m.id, "running") THEN goes_on(r, "append_running") ELSE ends(r)
    /\ UNCHANGED <<allocations, history, files, artifacts, authority, promotion, overlapped,
                   runs, trialCrashes>>

\* _append, after the check of transition
append_event(r) ==
    LET e == run[r].m.id IN
    /\ run[r].step \in {"append_running", "append_completed", "append_failed"}
    /\ CASE at_step(r, "append_running") ->
              history' = [history EXCEPT ![e] = Append(@, "running")] /\ goes_on(r, "replay")
         [] at_step(r, "append_completed") ->
              history' = [history EXCEPT ![e] = Append(@, "completed")] /\ ends(r)
         [] at_step(r, "append_failed") ->
              history' = [history EXCEPT ![e] = Append(@, "failed")] /\ ends(r)
    /\ UNCHANGED <<allocations, files, artifacts, authority, promotion, overlapped, runs,
                   trialCrashes>>

replay(r) ==
    /\ at_step(r, "replay")
    /\ \/ run' = [run EXCEPT ![r].step = "write", ![r].todo = BundleFiles]
       \/ goes_on(r, "fail")
    /\ UNCHANGED <<allocations, history, files, artifacts, authority, promotion, overlapped,
                   runs, trialCrashes>>

\* Mutant: the digests are recorded for no file.
to_record_none(e) == {}

\* One digest for every file of the bundle.
to_record(e) == BundleFiles

\* A temporary file and os.replace; a file that exists is left as it is.
write_file(r, f) ==
    LET e == run[r].m.id IN
    /\ at_step(r, "write") /\ f \in run[r].todo
    /\ files' = [files EXCEPT ![e] = @ \union {f}]
    /\ run' = IF run[r].todo = {f}
              THEN [run EXCEPT ![r].step = "record", ![r].todo = to_record(e)]
              ELSE [run EXCEPT ![r].todo = @ \ {f}]
    /\ UNCHANGED <<allocations, history, artifacts, authority, promotion, overlapped, runs,
                   trialCrashes>>

record_read(r, f) ==
    /\ at_step(r, "record") /\ f \in run[r].todo
    /\ run' = IF f \in artifacts[run[r].m.id]
              THEN [run EXCEPT ![r].todo = @ \ {f}]
              ELSE [run EXCEPT ![r].step = f, ![r].todo = @ \ {f}]
    /\ UNCHANGED <<allocations, history, files, artifacts, authority, promotion, overlapped,
                   runs, trialCrashes>>

\* The insert raises when another process recorded the name meanwhile.
record_insert(r) ==
    LET e == run[r].m.id IN
    /\ run[r].step \in BundleFiles
    /\ IF run[r].step \in artifacts[e]
       THEN goes_on(r, "fail") /\ UNCHANGED artifacts
       ELSE artifacts' = [artifacts EXCEPT ![e] = @ \union {run[r].step}] /\ goes_on(r, "record")
    /\ UNCHANGED <<allocations, history, files, authority, promotion, overlapped, runs,
                   trialCrashes>>

\* The check of transition; a refused COMPLETED is caught and tries FAILED, a refused
\* FAILED leaves the runner.
conclude(r) ==
    /\ \/ /\ at_step(r, "record") /\ run[r].todo = {}
          /\ goes_on(r, IF allowed(run[r].m.id, "completed") THEN "append_completed" ELSE "fail")
       \/ /\ at_step(r, "fail")
          /\ IF allowed(run[r].m.id, "failed") THEN goes_on(r, "append_failed") ELSE ends(r)
    /\ UNCHANGED <<allocations, history, files, artifacts, authority, promotion, overlapped,
                   runs, trialCrashes>>

crash_run(r) ==
    /\ ~at_step(r, "idle") /\ trialCrashes < MaxTrialCrashes
    /\ trialCrashes' = trialCrashes + 1
    /\ ends(r)
    /\ UNCHANGED <<allocations, history, files, artifacts, authority, promotion, overlapped, runs>>

-----------------------------------------------------------------------------
(* PromotionService                                                        *)

\* External: validator and reviewer file their signed documents, each recorded once.
record_authority(e, a) ==
    /\ e \in DOMAIN history /\ e \notin DOMAIN authority
    /\ authority' = put(authority, e, a)
    /\ UNCHANGED <<allocations, history, files, artifacts, run, promotion, overlapped, runs,
                   trialCrashes>>

\* gates: the signatures verify, the documents bind to the trial and promotion_failures
\* is empty.
approval_valid(a) == a.approved /\ a.gates /\ a.reviewer # "researcher"

promotable(m) ==
    /\ m.id \in DOMAIN history /\ status_of(m.id) = "completed"
    /\ m.role = "test" /\ m.parent = 0
    /\ artifacts[m.id] \subseteq files[m.id] /\ {"manifest", "result"} \subseteq artifacts[m.id]
    /\ m.id \in DOMAIN authority /\ approval_valid(authority[m.id])

promote(p, m) ==
    /\ promotion[p].step = "idle"
    /\ promotable(m)
    /\ promotion' = [promotion EXCEPT ![p] = [step |-> "verified", m |-> m]]
    /\ overlapped' = IF busy(m.id) THEN overlapped \union {m.id} ELSE overlapped
    /\ UNCHANGED <<allocations, history, files, artifacts, authority, run, runs, trialCrashes>>

\* The second reading, in _promote_verified.
promote_read(p) ==
    /\ promotion[p].step = "verified"
    /\ promotion' = [promotion EXCEPT ![p] =
                       IF status_of(@.m.id) = "completed" THEN [@ EXCEPT !.step = "append"]
                                                          ELSE NoPromotion]
    /\ UNCHANGED <<allocations, history, files, artifacts, authority, run, overlapped, runs,
                   trialCrashes>>

promote_append(p) ==
    /\ promotion[p].step = "append"
    /\ history' = [history EXCEPT ![promotion[p].m.id] = Append(@, "promoted")]
    /\ promotion' = [promotion EXCEPT ![p] = NoPromotion]
    /\ UNCHANGED <<allocations, files, artifacts, authority, run, overlapped, runs, trialCrashes>>

TrialNext ==
    \/ \E k \in TrialKeys : allocate_trial(k)
    \/ \E r \in Runners :
         \/ \E m \in Manifests : register_read(r, m)
         \/ register_experiment(r) \/ look_up(r) \/ append_event(r) \/ replay(r)
         \/ \E f \in BundleFiles : write_file(r, f) \/ record_read(r, f)
         \/ record_insert(r) \/ conclude(r) \/ crash_run(r)
    \/ \E e \in Ids, a \in Authorities : record_authority(e, a)
    \/ \E p \in Promoters :
         (\E m \in Manifests : promote(p, m)) \/ promote_read(p) \/ promote_append(p)

TrialSpec == TrialInit /\ [][TrialNext]_trialVars

-----------------------------------------------------------------------------
(* Properties                                                              *)

\* An allocation pays for one experiment, whichever manifests race for it, and every
\* experiment was paid for: the budget, and the single use of a TEST window, bind what
\* is run and not only what is asked for.
AllocationPaysOnce ==
    /\ Len(allocations) <= TrialBudget
    /\ \A m \in Manifests :
         m.id \in DOMAIN history => allocations[m.trial].experiment = m.id

\* A trial that was ever called completed has its whole bundle on disk and in the
\* artifacts table, in spite of crashes, failures and concurrent runs.
CompletedIsWhole ==
    \A e \in DOMAIN history :
      "completed" \in Range(history[e])
        => files[e] = BundleFiles /\ artifacts[e] = BundleFiles

\* The end of a trial is final, save for a promotion of a completed one, unless two
\* processes worked on it at once: each may then act on a status the other replaced.
EndIsFinal ==
    [][ \A e \in DOMAIN history \ overlapped' :
          history'[e] # history[e] =>
            /\ status_of(e) \notin {"failed", "promoted"}
            /\ status_of(e) = "completed" => Last(history'[e]) = "promoted" ]_trialVars
=============================================================================
