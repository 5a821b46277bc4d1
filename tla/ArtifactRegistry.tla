---------------------------- MODULE ArtifactRegistry ----------------------------
(***************************************************************************)
(* The evidence index (ops/artifact_registry.py): an immutable object file *)
(* per document and one immutable row per object.  A document is known by  *)
(* its content, as its digest is.  The commands that register documents    *)
(* run as processes of their own; a registration is two steps (the file    *)
(* and the look-up, then the insert), and a process may die between them.  *)
(***************************************************************************)
EXTENDS Integers, FiniteSets

CONSTANT Registrars       \* processes that register documents

VARIABLES
    objects,         \* documents whose object file is on disk
    rows,            \* evidence_artifacts: [doc, status]
    registration     \* each process: the registration under way

registryVars == <<objects, rows, registration>>

NoRegistration == [pc |-> "idle"]

RegistryInit ==
    /\ objects = {} /\ rows = {}
    /\ registration = [r \in Registrars |-> NoRegistration]

row_of(doc) == {row \in rows : row.doc = doc}

\* register, up to the look-up: write_immutable_bytes confirms an existing
\* object file or links a complete one into place; then a row that is there
\* already ends the registration, equal ("confirmed") or different ("artifact
\* registration is immutable").
register(r, doc, status) ==
    /\ registration[r] = NoRegistration
    /\ objects' = objects \union {doc}
    /\ registration' = [registration EXCEPT ![r] =
           IF row_of(doc) # {} THEN NoRegistration
           ELSE [pc |-> "insert", doc |-> doc, status |-> status]]
    /\ UNCHANGED rows

\* The insert: the primary key refuses a row that appeared meanwhile.
register_insert(r) ==
    LET doc == registration[r].doc IN
    /\ registration[r].pc = "insert"
    /\ rows' = IF row_of(doc) # {} THEN rows
               ELSE rows \union {[doc |-> doc, status |-> registration[r].status]}
    /\ registration' = [registration EXCEPT ![r] = NoRegistration]
    /\ UNCHANGED objects

\* The process dies: the object file stays, the row was never written.
register_dies(r) ==
    /\ registration[r] # NoRegistration
    /\ registration' = [registration EXCEPT ![r] = NoRegistration]
    /\ UNCHANGED <<objects, rows>>

\* _policy_passed, for the documents whose decision is theirs to declare.
policy_passed(doc) == doc.passed

\* resolve: registered, the object on disk, VERIFIED and passing its policy.
resolve(doc) ==
    /\ doc \in objects
    /\ [doc |-> doc, status |-> "VERIFIED"] \in rows
    /\ policy_passed(doc)

resolved(kind) == {doc \in objects : doc.kind = kind /\ resolve(doc)}
==============================================================================
