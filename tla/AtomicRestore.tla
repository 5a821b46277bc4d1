---------------------------- MODULE AtomicRestore ----------------------------
(***************************************************************************)
(* What backup and restore promise (docs/OPS_RUNBOOK.md, "Restore drill"): *)
(* the databases served are those of one whole backup, all switched at     *)
(* once, and afterwards only what the services write to them.              *)
(***************************************************************************)
CONSTANTS
    Stores,             \* the databases of a backup
    Written             \* what a store holds once a service wrote to it

VARIABLES
    whole,              \* the contents of every backup taken so far
    serving             \* the contents the services see, empty before the first restore

Backup(c) ==
    /\ DOMAIN c = Stores
    /\ whole' = whole \union {c}
    /\ UNCHANGED serving

Switch(c) == c \in whole /\ serving' = c /\ UNCHANGED whole

Write(s) ==
    /\ s \in DOMAIN serving
    /\ serving' = [serving EXCEPT ![s] = Written]
    /\ UNCHANGED whole

RestoreInit == whole = {} /\ serving = <<>>

RestoreNext ==
    \/ \E c \in whole' : Backup(c)
    \/ \E c \in whole : Switch(c)
    \/ \E s \in Stores : Write(s)

RestoreSpec == RestoreInit /\ [][RestoreNext]_<<whole, serving>>
=============================================================================
