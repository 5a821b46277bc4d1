---------------------------- MODULE EvidenceStore ----------------------------
(***************************************************************************)
(* EvidenceService.ingest and its store (evidence/service.py, store.py).   *)
(*                                                                         *)
(* Several processes (the API and the worker command) ingest documents     *)
(* into one SQLite file.  The document budget is checked before the insert *)
(* is begun; the call budget is checked and reserved in one transaction;   *)
(* the extractor is awaited; the contradictions are computed from claims   *)
(* read before the transaction that stores them.  A claim id is a hash, so *)
(* its order is arbitrary: ids are numbers.  Prices, tokens and the text   *)
(* of documents and citations are left out.                                *)
(***************************************************************************)
EXTENDS Integers, Sequences, SequencesExt, FiniteSetsExt, Functions, Tables

CONSTANTS
    Documents,          \* id, day (of one entity), at, content and the results (sequences
                        \* of claims) the extractor may return for it
    Ingesters,          \* processes
    MaxDocuments,       \* max_documents_per_entity_day
    MaxCalls,           \* max_calls_per_event
    MaxNow,             \* bound: the clock
    MaxEvidenceCrashes  \* bound: crashes

ASSUME EvidenceAssumption ==
    {MaxDocuments, MaxCalls, MaxNow, MaxEvidenceCrashes} \subseteq Nat

\* A claim takes its time from its document, and its id is the hash of what it says there.
ASSUME ClaimsAssumption ==
    /\ \A d \in Documents : d.at \in Int /\ \A s \in d.results :
         /\ s = [n \in 1..Len(s) |-> s[n]] /\ Len(s) \in Nat
         /\ \A n \in DOMAIN s : s[n].id \in Int /\ s[n].at = d.at /\ s[n].expires \in Int
    /\ \A d, e \in Documents : \A s \in d.results, t \in e.results :
         \A m \in DOMAIN s, n \in DOMAIN t : s[m].id = t[n].id => s[m] = t[n]

ASSUME IngestersAssumption == IsFiniteSet(Ingesters) /\ Ingesters # {}

VARIABLES
    evidenceNow,        \* the clock
    documents,          \* stored documents
    cache,              \* content -> extraction result
    attempts,           \* <<document, number>> -> status of the model call
    claims,             \* stored claims
    edges,              \* edge id (the two claim ids) -> <<left, right>>
    ingest,             \* per process: step, document, as_of, attempt, result, edges
    interfered,         \* history: a process stored claims while another was ingesting
    evidenceCrashes

evidenceVars == <<evidenceNow, documents, cache, attempts, claims, edges, ingest,
                  interfered, evidenceCrashes>>

NoIngest == [step |-> "idle", d |-> <<>>, asOf |-> 0, attempt |-> <<>>, result |-> <<>>,
             edges |-> <<>>]

EvidenceInit ==
    /\ evidenceNow = 0
    /\ documents = {}
    /\ cache = <<>>
    /\ attempts = <<>>
    /\ claims = {}
    /\ edges = <<>>
    /\ ingest = [p \in Ingesters |-> NoIngest]
    /\ interfered = FALSE
    /\ evidenceCrashes = 0

advance_clock ==
    /\ evidenceNow < MaxNow
    /\ evidenceNow' = evidenceNow + 1
    /\ UNCHANGED <<documents, cache, attempts, claims, edges, ingest, interfered,
                   evidenceCrashes>>

-----------------------------------------------------------------------------
(* Documents and the call budget                                           *)

step_to(p, step) == ingest' = [ingest EXCEPT ![p].step = step]

leaves(p) == ingest' = [ingest EXCEPT ![p] = NoIngest]

day_full(day) == Cardinality({d \in documents : d.day = day}) >= MaxDocuments

put_document_read(p, d) ==
    /\ ingest[p].step = "idle"
    /\ d.at <= evidenceNow
    /\ d \in documents \/ ~day_full(d.day)
    /\ ingest' = [ingest EXCEPT ![p] = [NoIngest EXCEPT !.d = d, !.asOf = evidenceNow,
                    !.step = IF d \in documents THEN "cached" ELSE "insert"]]
    /\ UNCHANGED <<evidenceNow, documents, cache, attempts, claims, edges, interfered,
                   evidenceCrashes>>

\* The primary key raises when another process stored the document meanwhile.
put_document_insert(p) ==
    /\ ingest[p].step = "insert"
    /\ documents' = documents \union {ingest[p].d}
    /\ IF ingest[p].d \in documents THEN leaves(p) ELSE step_to(p, "cached")
    /\ UNCHANGED <<evidenceNow, cache, attempts, claims, edges, interfered, evidenceCrashes>>

cached(p) ==
    /\ ingest[p].step = "cached"
    /\ IF ingest[p].d.content \in DOMAIN cache THEN leaves(p) ELSE step_to(p, "reserve")
    /\ UNCHANGED <<evidenceNow, documents, cache, attempts, claims, edges, interfered,
                   evidenceCrashes>>

\* Mutant: only calls that came back are counted.
calls_returned(d) ==
    Cardinality({a \in DOMAIN attempts : a[1] = d.id /\ attempts[a] # "started"})

calls(d) == Cardinality({a \in DOMAIN attempts : a[1] = d.id})

\* BEGIN IMMEDIATE around the check and the two inserts
reserve_call(p) ==
    LET d == ingest[p].d
        attempt == <<d.id, Cardinality({a \in DOMAIN attempts : a[1] = d.id}) + 1>>
    IN  /\ ingest[p].step = "reserve"
        /\ IF calls(d) >= MaxCalls
           THEN leaves(p) /\ UNCHANGED attempts
           ELSE /\ attempts' = put(attempts, attempt, "started")
                /\ ingest' = [ingest EXCEPT ![p].step = "extract", ![p].attempt = attempt]
        /\ UNCHANGED <<evidenceNow, documents, cache, claims, edges, interfered,
                       evidenceCrashes>>

-----------------------------------------------------------------------------
(* Contradictions                                                          *)

opposite(a, b) == a.scope = b.scope /\ a.kind # b.kind

claims_as_of(t) == {c \in claims : c.at <= t /\ t < c.expires}

\* Every pair, a later one replacing an earlier one with the same edge id.
contradictions(s) ==
    LET pairs == {x \in (1..Len(s)) \X (1..Len(s)) :
                    x[1] < x[2] /\ opposite(s[x[1]], s[x[2]])}
        id(x) == {s[x[1]].id, s[x[2]].id}
        last(e) == CHOOSE x \in pairs :
                     /\ id(x) = e
                     /\ \A y \in pairs : id(y) = e =>
                          y[1] < x[1] \/ (y[1] = x[1] /\ y[2] <= x[2])
    IN  [e \in {id(x) : x \in pairs} |-> <<s[last(e)[1]].id, s[last(e)[2]].id>>]

\* ORDER BY claim_id
by_id(S) ==
    CHOOSE s \in SetToSeqs(S) : \A m, n \in DOMAIN s : m < n => s[m].id < s[n].id

\* Mutant: the new claims are compared among themselves only.
compared_new(t, result) == result

\* The visible claims in the order of their ids, then the new ones.
compared(t, result) == by_id(claims_as_of(t)) \o result

\* The awaited extractor returns a result or raises.
extract(p) ==
    /\ ingest[p].step = "extract"
    /\ \/ \E result \in ingest[p].d.results :
            ingest' = [ingest EXCEPT ![p].step = "finalize", ![p].result = result,
                         ![p].edges = contradictions(compared(ingest[p].asOf, result))]
       \/ step_to(p, "fail")
    /\ UNCHANGED <<evidenceNow, documents, cache, attempts, claims, edges, interfered,
                   evidenceCrashes>>

\* "immutable contradiction conflict"
edge_conflict(new) == \E e \in DOMAIN new \intersect DOMAIN edges : edges[e] # new[e]

\* What the extractor returned, before it is tied to the document.
drafts(result) == [n \in DOMAIN result |-> <<result[n].scope, result[n].kind>>]

\* "extraction cache conflict"
cache_conflict(d, result) == d.content \in DOMAIN cache /\ cache[d.content] # drafts(result)

-----------------------------------------------------------------------------
(* finalize_extraction: one transaction                                    *)

finalize_extraction(p) ==
    LET i == ingest[p] IN
    /\ i.step = "finalize"
    /\ ~edge_conflict(i.edges) /\ ~cache_conflict(i.d, i.result)
    /\ claims' = claims \union Range(i.result)
    /\ edges' = joined(edges, i.edges)
    /\ cache' = put(cache, i.d.content, drafts(i.result))
    /\ attempts' = [attempts EXCEPT ![i.attempt] = "completed"]
    /\ interfered' = (interfered \/ \E q \in Ingesters \ {p} : ingest[q].step # "idle")
    /\ leaves(p)
    /\ UNCHANGED <<evidenceNow, documents, evidenceCrashes>>

\* complete_call with the error
complete_call(p) ==
    LET i == ingest[p]
        error == CASE i.step = "fail" -> "failed"
                   [] edge_conflict(i.edges) -> "contradiction conflict"
                   [] OTHER -> "cache conflict"
    IN  /\ \/ i.step = "fail"
           \/ i.step = "finalize" /\ (edge_conflict(i.edges) \/ cache_conflict(i.d, i.result))
        /\ attempts' = [attempts EXCEPT ![i.attempt] = error]
        /\ leaves(p)
        /\ UNCHANGED <<evidenceNow, documents, cache, claims, edges, interfered,
                       evidenceCrashes>>

crash_ingest(p) ==
    /\ ingest[p].step # "idle" /\ evidenceCrashes < MaxEvidenceCrashes
    /\ evidenceCrashes' = evidenceCrashes + 1
    /\ leaves(p)
    /\ UNCHANGED <<evidenceNow, documents, cache, attempts, claims, edges, interfered>>

EvidenceNext ==
    \/ advance_clock
    \/ \E p \in Ingesters :
         \/ \E d \in Documents : put_document_read(p, d)
         \/ put_document_insert(p) \/ cached(p) \/ reserve_call(p) \/ extract(p)
         \/ finalize_extraction(p) \/ complete_call(p) \/ crash_ingest(p)

EvidenceSpec == EvidenceInit /\ [][EvidenceNext]_evidenceVars

-----------------------------------------------------------------------------
(* Properties                                                              *)

\* No document is sent to the model more often than its budget, across processes,
\* failures and crashes; the daily document budget, checked before the write begins, is
\* passed by at most one document per further process.
BudgetsHold ==
    /\ \A d \in Documents :
         Cardinality({a \in DOMAIN attempts : a[1] = d.id}) <= MaxCalls
    /\ \A day \in {d.day : d \in Documents} :
         Cardinality({d \in documents : d.day = day})
           <= MaxDocuments + Cardinality(Ingesters) - 1

\* Two opposing claims that a snapshot taken now contains are joined by an edge, unless
\* a process stored claims while another was under way: its as_of or its reading may be
\* older than those claims.
ContradictionsVisible ==
    interfered \/
      \A a, b \in claims_as_of(evidenceNow) :
        opposite(a, b) => {a.id, b.id} \in DOMAIN edges

\* Contradictory claims become deterministic edges: computing the edges again never
\* disagrees with the stored ones.
EdgesAreDeterministic == "contradiction conflict" \notin Range(attempts)
=============================================================================
