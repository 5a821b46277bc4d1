----------------------------- MODULE BurnInEvidence -----------------------------
(***************************************************************************)
(* E1 acceptance evidence: burn-in sessions captured by ibkr-observe       *)
(* (execution/burn_in.py), event receipts and scenario cases               *)
(* (execution/e1_scenarios.py), and the three readers that decide whether  *)
(* the corpus is accepted: ibkr-burn-in-evaluate, e1 progress              *)
(* (ops/external_runners.py) and the dashboard's acceptance summary        *)
(* (ops/artifact_registry.py).                                             *)
(*                                                                         *)
(* A session is the observation it captures: what the broker would show is *)
(* a constant record, with the outcomes its reconciliation may have.       *)
(***************************************************************************)
EXTENDS ArtifactRegistry

CONSTANTS
    Observations,          \* [id, scope, scenario, boot, client, scopeHash, state,
                           \*  binding, positions, orders, origin, outcomes]
    EventReceipts,         \* [id, type, instance, marks, binding]
    CasePlans,             \* build-case requests: [type, children, receipts]
    CaseIds,               \* artifact ids of scenario cases: their ranks in hash order
    SessionRequirements,   \* E1_ACCEPTANCE_POLICIES: scenario -> sessions
    CaseRequirements,      \* scenario -> scenario cases
    ScopeSessions,         \* minimum_scope_sessions
    CrossScopeSessions,    \* minimum_cross_scope_sessions
    StaticSessions,        \* sessions a static_position case needs
    OrderSessions,         \* sessions an order case needs
    Scope,                 \* the scope under acceptance
    OperatorRequests,      \* register-artifact requests: [seen, status]
    MaxCorpora,            \* bound: corpora evaluated
    MaxDay,                \* bound: days
    MaxEvidenceDeaths      \* bound: processes killed

ASSUME BurnInAssumption ==
    /\ IsFiniteSet(CaseIds) /\ CaseIds = 1..Cardinality(CaseIds)
    /\ \A request \in OperatorRequests : request.seen \in Observations

VARIABLES
    staging,         \* .<observation>.pending: the files in it
    directory,       \* sessions/<observation>: the files in it
    sessions,        \* the manifests in manifest.json files
    receiptFiles,    \* event receipts on disk
    cases,           \* scenario case documents on disk
    capturing,       \* each process: the observation it captures
    day,             \* the clock, in days
    evidenceDeaths

burnInVars == <<staging, directory, sessions, receiptFiles, cases, capturing, day,
                evidenceDeaths, registryVars>>
disk == <<staging, directory, sessions, receiptFiles, cases>>

Files == {"tape.sqlite3", "certificate.json", "manifest.json"}
NoCapture == [pc |-> "idle"]

BurnInInit ==
    /\ RegistryInit
    /\ staging = [o \in Observations |-> {}] /\ directory = staging
    /\ sessions = {} /\ receiptFiles = {} /\ cases = {}
    /\ capturing = [r \in Registrars |-> NoCapture]
    /\ day = 0 /\ evidenceDeaths = 0

------------------------------------------------------------------------------
(* persist_burn_in_session.                                                 *)

\* _build_manifest: a session counts for the safety case only if it was
\* reconciled and shows what its scenario label claims.
safety_case_eligible(o, converged) ==
    /\ converged
    /\ o.scenario = "empty_account" => ~o.positions /\ ~o.orders
    /\ o.scenario = "static_position" => o.positions
    /\ o.scenario \in {"api_order", "manual_order"} => o.orders

build_manifest(o, converged) ==
    [kind |-> "session", seen |-> o, passed |-> safety_case_eligible(o, converged)]

\* The tape is exported and the certificate written, under the staging name.
begin_capture(r, o) ==
    /\ capturing[r] = NoCapture /\ registration[r] = NoRegistration
    /\ staging[o] = {} /\ directory[o] = {}
    /\ staging' = [staging EXCEPT ![o] = Files \ {"manifest.json"}]
    /\ capturing' = [capturing EXCEPT ![r] = [pc |-> "manifest", seen |-> o]]
    /\ UNCHANGED <<directory, sessions, receiptFiles, cases, day, evidenceDeaths, registryVars>>

\* The manifest, with the hashes of both.
write_manifest_file(r) ==
    LET o == capturing[r].seen IN
    /\ capturing[r].pc = "manifest"
    /\ \E converged \in o.outcomes :
           sessions' = sessions \union {build_manifest(o, converged)}
    /\ staging' = [staging EXCEPT ![o] = @ \union {"manifest.json"}]
    /\ capturing' = [capturing EXCEPT ![r] = [@ EXCEPT !.pc = "publish"]]
    /\ UNCHANGED <<directory, receiptFiles, cases, day, evidenceDeaths, registryVars>>

\* verify_burn_in_manifest: the manifest and the two files it names, in a
\* session directory or in one that still bears its staging name.
verify_burn_in_manifest(files) == files = Files

manifest_of(o) == CHOOSE m \in sessions : m.seen = o

\* Self-verification, then the rename; ibkr-observe registers the manifest.
publish_session(r) ==
    LET o == capturing[r].seen IN
    /\ capturing[r].pc = "publish" /\ verify_burn_in_manifest(staging[o])
    /\ directory' = [directory EXCEPT ![o] = staging[o]]
    /\ staging' = [staging EXCEPT ![o] = {}]
    /\ capturing' = [capturing EXCEPT ![r] = [@ EXCEPT !.pc = "register"]]
    /\ UNCHANGED <<sessions, receiptFiles, cases, day, evidenceDeaths, registryVars>>

register_session(r) ==
    LET m == manifest_of(capturing[r].seen) IN
    /\ capturing[r].pc = "register"
    /\ register(r, m, IF m.passed THEN "VERIFIED" ELSE "CAPTURED")
    /\ capturing' = [capturing EXCEPT ![r] = NoCapture]
    /\ UNCHANGED <<disk, day, evidenceDeaths>>

\* pit register-artifact: an operator registers a session under a status of their own.
register_artifact(r) ==
    /\ capturing[r] = NoCapture
    /\ \E request \in OperatorRequests :
           /\ verify_burn_in_manifest(directory[request.seen])
           /\ register(r, manifest_of(request.seen), request.status)
    /\ UNCHANGED <<disk, capturing, day, evidenceDeaths>>

\* A registration that is under way inserts its row.
finish_registration(r) ==
    /\ register_insert(r)
    /\ UNCHANGED <<disk, capturing, day, evidenceDeaths>>

process_dies(r) ==
    /\ evidenceDeaths < MaxEvidenceDeaths
    /\ evidenceDeaths' = evidenceDeaths + 1
    /\ \/ /\ capturing[r] # NoCapture
          /\ capturing' = [capturing EXCEPT ![r] = NoCapture]
          /\ UNCHANGED registryVars
       \/ register_dies(r) /\ UNCHANGED capturing
    /\ UNCHANGED <<disk, day>>

------------------------------------------------------------------------------
(* Event receipts and scenario cases.                                       *)

\* _e1_session_by_manifest_id finds any verified session directory.
verified_observations ==
    {o \in Observations : verify_burn_in_manifest(directory[o])
                           \/ verify_burn_in_manifest(staging[o])}

\* e1 event-receipt: bound to a verified session; a PROCESS_BOOT receipt must
\* name the boot that captured it.
event_receipt(r, receipt) ==
    /\ capturing[r] = NoCapture /\ receipt \notin receiptFiles
    /\ \E o \in verified_observations :
           /\ receipt.binding = o.binding
           /\ receipt.type = "PROCESS_BOOT" => receipt.instance = o.boot
    /\ receiptFiles' = receiptFiles \union {receipt}
    /\ register(r, [kind |-> "receipt", receipt |-> receipt, passed |-> TRUE], "VERIFIED")
    /\ UNCHANGED <<staging, directory, sessions, cases, capturing, day, evidenceDeaths>>

\* _check_common_bindings.
common_bindings(type, children, receipts) ==
    /\ Cardinality({o.binding : o \in children}) = 1
    /\ type # "client_id_switch" => Cardinality({o.scopeHash : o \in children}) = 1
    /\ \A o \in children : manifest_of(o).passed
    /\ \A e \in receipts, o \in children : e.binding = o.binding

of_type(receipts, type) == {e \in receipts : e.type = type}
instances(receipts, type) == {e.instance : e \in of_type(receipts, type)}
marks(receipts, type) == UNION {e.marks : e \in of_type(receipts, type)}
reconnected(codes) == "1100" \in codes /\ codes \intersect {"1101", "1102"} # {}

\* _evaluate_scenario: what each scenario asks of its sessions and receipts.
scenario_proven(type, children, receipts) ==
    LET stable == Cardinality({o.state : o \in children}) = 1
        two == Cardinality(children) = 2
        boots == instances(receipts, "PROCESS_BOOT")
        origins == {o.origin : o \in children}
    IN
    CASE type = "static_position" ->
             /\ Cardinality(children) >= StaticSessions /\ stable
             /\ \A o \in children : o.scenario = type /\ o.positions
      [] type \in {"api_order", "manual_order"} ->
             /\ Cardinality(children) >= OrderSessions
             /\ \A o \in children : o.scenario = type /\ o.orders
             /\ type = "api_order" =>
                    /\ of_type(receipts, "FIXTURE_ACTION") # {}
                    /\ "fixture" \in origins /\ Scope = "api"
             /\ type = "manual_order" =>
                    /\ of_type(receipts, "MANUAL_ACTION") # {}
                    /\ "manual" \in origins /\ Scope = "all"
      [] type = "process_restart" ->
             /\ two /\ stable /\ Cardinality(boots) >= 2
             /\ {o.boot : o \in children} = boots
      [] type = "tws_restart" ->
             /\ two /\ stable /\ Cardinality(instances(receipts, "TWS_PROCESS")) >= 2
             /\ {"DOWN", "UP"} \subseteq marks(receipts, "TWS_PROCESS")
      [] type = "network_recovery" ->
             /\ two /\ reconnected(marks(receipts, "CONNECTIVITY"))
             /\ "requests_reissued" \in marks(receipts, "CONNECTIVITY")
      [] type = "nightly_reset" ->
             /\ two /\ stable /\ reconnected(marks(receipts, "NIGHTLY_MAINTENANCE"))
             /\ "maintenance_window" \in marks(receipts, "NIGHTLY_MAINTENANCE")
      [] type = "client_id_switch" ->
             /\ two /\ stable
             /\ Cardinality({o.client : o \in children}) = 2
             /\ Cardinality({o.scopeHash : o \in children}) = 2

\* build_scenario_case.
scenario_case(id, type, children, receipts, expires) ==
    [kind |-> "case", id |-> id, type |-> type, scope |-> Scope,
     children |-> children, receipts |-> receipts, expires |-> expires,
     binding |-> (CHOOSE o \in children : TRUE).binding,
     passed |-> /\ common_bindings(type, children, receipts)
                /\ scenario_proven(type, children, receipts)]

\* e1 build-case writes and registers the case, passing or not.
build_case(r, id, plan) ==
    LET case == scenario_case(id, plan.type, plan.children, plan.receipts, day + 1) IN
    /\ capturing[r] = NoCapture
    /\ plan.children # {} /\ plan.children \subseteq verified_observations
    /\ plan.receipts \subseteq receiptFiles
    /\ \A k \in cases : k.id # id
    /\ cases' = cases \union {case}
    /\ register(r, case, IF case.passed THEN "VERIFIED" ELSE "REJECTED")
    /\ UNCHANGED <<staging, directory, sessions, receiptFiles, capturing, day, evidenceDeaths>>

next_day ==
    /\ day < MaxDay
    /\ day' = day + 1
    /\ UNCHANGED <<disk, capturing, evidenceDeaths, registryVars>>

------------------------------------------------------------------------------
(* allocate_scenario_cases: cases in the order of their ids, each taking    *)
(* the sessions and receipts it rests on.                                   *)

allocation0 == [counted |-> {}, sessions |-> {}, receipts |-> {}]

topology(case, current, cross) ==
    IF case.type = "client_id_switch"
    THEN /\ case.children \subseteq current \union cross
         /\ case.children \intersect cross # {}
         /\ Cardinality({o.scopeHash : o \in case.children}) >= 2
         /\ Cardinality({o.client : o \in case.children}) >= 2
    ELSE case.children \subseteq current

\* Mutant: the sessions and receipts of a counted case are not marked as used.
allocated_shared(a, case, current, cross, available) ==
    IF /\ case.scope = Scope /\ case.passed /\ day <= case.expires
       /\ topology(case, current, cross) /\ case.receipts \subseteq available
    THEN [a EXCEPT !.counted = @ \union {case}] ELSE a

allocated(a, case, current, cross, available) ==
    IF /\ case.scope = Scope /\ case.passed /\ day <= case.expires
       /\ topology(case, current, cross)
       /\ case.children \intersect a.sessions = {}
       /\ case.receipts \intersect a.receipts = {}
       /\ case.receipts \subseteq available
    THEN [counted |-> a.counted \union {case},
          sessions |-> a.sessions \union case.children,
          receipts |-> a.receipts \union case.receipts]
    ELSE a

allocate_scenario_cases(offered, current, cross, available) ==
    LET last == Cardinality(CaseIds)
        after[n \in 0..last] ==
            IF n = 0 THEN allocation0
            ELSE IF \E k \in offered : k.id = n
                 THEN allocated(after[n - 1], CHOOSE k \in offered : k.id = n, current, cross, available)
                 ELSE after[n - 1]
    IN  after[last].counted

cross_scope(manifests) == {o \in manifests : o.scenario = "client_id_switch"}

sessions_met(manifests) ==
    \A scenario \in DOMAIN SessionRequirements :
        Cardinality({o \in manifests : o.scenario = scenario}) >= SessionRequirements[scenario]
cases_met(counted) ==
    \A type \in DOMAIN CaseRequirements :
        Cardinality({k \in counted : k.type = type}) >= CaseRequirements[type]

------------------------------------------------------------------------------
(* The three readers.                                                       *)

\* Every directory under sessions/, staging ones included.
session_dirs == {o \in Observations : directory[o] # {} \/ staging[o] # {}}

\* evaluate_burn_in_corpus: any unverified or ineligible session, and any
\* case that cannot be allocated, blocks the corpus.
corpus_counted ==
    LET manifests == verified_observations
        scoped == manifests \ cross_scope(manifests)
        valid == {k \in cases : Cardinality({o.binding : o \in scoped}) = 1 =>
                                    k.binding \in {o.binding : o \in scoped}}
    IN allocate_scenario_cases(valid, scoped, cross_scope(manifests), receiptFiles)

corpus_passes ==
    LET manifests == verified_observations
        scoped == manifests \ cross_scope(manifests)
    IN
    /\ session_dirs = manifests
    /\ {o.scope : o \in scoped} = {Scope}
    /\ Cardinality(scoped) >= ScopeSessions
    /\ Cardinality(cross_scope(manifests)) >= CrossScopeSessions
    /\ Cardinality({o.binding : o \in scoped}) = 1
    /\ Cardinality({o.scopeHash : o \in scoped}) = 1
    /\ \A o \in manifests : manifest_of(o).passed
    /\ sessions_met(manifests)
    /\ corpus_counted = cases
    /\ cases_met(corpus_counted)

\* Mutant: the receipts directory is not read.
progress_passes_unreceipted ==
    LET manifests == {o \in verified_observations : manifest_of(o).passed /\ o.scope = Scope}
        cross == cross_scope(manifests)
    IN
    /\ sessions_met(manifests)
    /\ cases_met(allocate_scenario_cases(cases, manifests \ cross, cross, {}))

\* e1_progress: unverified, ineligible and out-of-scope sessions are set aside.
progress_passes ==
    LET manifests == {o \in verified_observations : manifest_of(o).passed /\ o.scope = Scope}
        cross == cross_scope(manifests)
        accepted == {k \in cases : {o.binding : o \in manifests} = {k.binding}}
    IN
    /\ sessions_met(manifests)
    /\ cases_met(allocate_scenario_cases(accepted, manifests \ cross, cross, receiptFiles))

\* external_acceptance_summary: the same, from what the registry resolves.
summary_passes ==
    LET manifests == {m.seen : m \in {d \in resolved("session") :
                                          d.seen.scope = Scope
                                          /\ d.seen.scenario \in DOMAIN SessionRequirements}}
        cross == cross_scope(manifests)
        bound == {k \in resolved("case") : {o.binding : o \in manifests} = {k.binding}}
        available == {d.receipt : d \in resolved("receipt")}
    IN
    /\ sessions_met(manifests)
    /\ cases_met(allocate_scenario_cases(bound, manifests \ cross, cross, available))

\* ibkr-burn-in-evaluate registers its verdict with the cases it counted.
evaluate_corpus(r) ==
    LET corpus == [kind |-> "corpus", passed |-> corpus_passes,
                   counted |-> corpus_counted] IN
    /\ capturing[r] = NoCapture
    /\ Cardinality({d \in objects : d.kind = "corpus"}) < MaxCorpora
    /\ register(r, corpus, IF corpus.passed THEN "VERIFIED" ELSE "REJECTED")
    /\ UNCHANGED <<disk, capturing, day, evidenceDeaths>>

BurnInNext ==
    \/ next_day
    \/ \E r \in Registrars :
        \/ \E o \in Observations : begin_capture(r, o)
        \/ write_manifest_file(r) \/ publish_session(r)
        \/ register_session(r) \/ register_artifact(r) \/ finish_registration(r)
        \/ \E receipt \in EventReceipts : event_receipt(r, receipt)
        \/ \E id \in CaseIds, plan \in CasePlans : build_case(r, id, plan)
        \/ evaluate_corpus(r)
        \/ process_dies(r)

BurnInSpec == BurnInInit /\ [][BurnInNext]_burnInVars

------------------------------------------------------------------------------
(* A corpus registered as passing rests on scenario cases that share no     *)
(* session and no receipt: the greedy allocation never lets one piece of    *)
(* evidence prove two cases, in whatever order cases were built.            *)
CorpusEvidenceIsExclusive ==
    \A d \in objects : d.kind = "corpus" /\ d.passed =>
        \A k, l \in d.counted :
            k # l => k.children \intersect l.children = {} /\ k.receipts \intersect l.receipts = {}

(* The readers do not contradict each other: when the evaluation of the     *)
(* directories passes and the sessions share one scope and binding, the     *)
(* progress report passes too, and so does the dashboard's summary once     *)
(* every document is registered as its command registers it and every       *)
(* session bears the label of a scenario that the policy asks for (the      *)
(* summary looks at no other).                                              *)
fully_registered ==
    /\ \A o \in verified_observations : resolve(manifest_of(o))
    /\ \A k \in cases : resolve(k)
    /\ \A e \in receiptFiles : resolve([kind |-> "receipt", receipt |-> e, passed |-> TRUE])
one_scope ==
    \A o, q \in verified_observations : o.scope = q.scope /\ o.binding = q.binding
policy_labels ==
    \A o \in verified_observations : o.scenario \in DOMAIN SessionRequirements
VerdictsAgree ==
    corpus_passes /\ one_scope
        => progress_passes /\ (fully_registered /\ policy_labels => summary_passes)
==============================================================================
