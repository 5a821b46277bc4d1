---------------------------- MODULE RecordsProofs ----------------------------
(***************************************************************************)
(* The records kept on disk, for any number of processes at work on them.  *)
(* The experiment registry: an allocation pays for one experiment, a       *)
(* completed trial has its whole bundle, and the end of a trial that one   *)
(* process at a time worked on is final.  The evidence store keeps its     *)
(* budgets and joins opposing claims by edges.  Backup and restore, file   *)
(* by file, implement a restore that switches whole backups in one step.   *)
(***************************************************************************)
EXTENDS TrialLedger, EvidenceStore, BackupRestore, SumProofs, FiniteSetTheorems, TLAPS

USE DEF trialVars, evidenceVars, backupVars

-----------------------------------------------------------------------------
(* The experiment registry: types.                                         *)

Status == {"registered", "running", "completed", "failed", "aborted", "promoted"}

AllocationRow ==
    [key : {k.key : k \in TrialKeys}, role : {k.role : k \in TrialKeys},
     experiment : Ids \union {0}]

RunState ==
    [step : RunnerSteps \union BundleFiles, m : Manifests \union {<<>>},
     todo : SUBSET BundleFiles]

PromotionState == [step : {"idle", "verified", "append"}, m : Manifests \union {<<>>}]

TrialTypes ==
    /\ allocations \in Seq(AllocationRow)
    /\ DOMAIN history \subseteq Ids
    /\ \A e \in DOMAIN history : history[e] \in Seq(Status) /\ history[e] # <<>>
    /\ files \in [Ids -> SUBSET BundleFiles]
    /\ artifacts \in [Ids -> SUBSET BundleFiles]
    /\ run \in [Runners -> RunState]
    /\ promotion \in [Promoters -> PromotionState]

\* The runner, or the promoter, works on experiment e.
WorksOn(r, e) == run[r].step # "idle" /\ run[r].m.id = e
Promotes(p, e) == promotion[p].step # "idle" /\ promotion[p].m.id = e

\* Who is busy has a manifest, of an allocation before its insert and of a registered
\* experiment after it.
WorkIsKnown ==
    /\ \A r \in Runners : run[r].step # "idle" =>
         /\ run[r].m \in Manifests
         /\ run[r].step = "insert" => run[r].m.trial \in DOMAIN allocations
         /\ run[r].step # "insert" => run[r].m.id \in DOMAIN history
    /\ \A p \in Promoters : promotion[p].step # "idle" =>
         promotion[p].m \in Manifests /\ promotion[p].m.id \in DOMAIN history

-----------------------------------------------------------------------------
(* The invariants.                                                         *)

\* Every registered experiment holds its allocation.
Paid ==
    /\ Len(allocations) <= TrialBudget
    /\ \A m \in Manifests : m.id \in DOMAIN history =>
         m.trial \in DOMAIN allocations /\ allocations[m.trial].experiment = m.id

\* What a runner has written and recorded, by the step it stands at.
BundleProgress(r) ==
    LET e == run[r].m.id
        done == BundleFiles \ run[r].todo
    IN
    /\ run[r].step = "write" => done \subseteq files[e]
    /\ run[r].step \in {"record", "append_completed"} \union BundleFiles =>
         files[e] = BundleFiles
    /\ run[r].step = "record" => done \subseteq artifacts[e]
    /\ run[r].step \in BundleFiles => done \subseteq artifacts[e] \union {run[r].step}
    /\ run[r].step = "append_completed" => artifacts[e] = BundleFiles

Whole == CompletedIsWhole /\ \A r \in Runners : BundleProgress(r)

\* An experiment that never overlapped has one worker.
SoleWorker ==
    \A e \in Ids \ overlapped :
        /\ \A r, q \in Runners : WorksOn(r, e) /\ WorksOn(q, e) => r = q
        /\ \A p, q \in Promoters : Promotes(p, e) /\ Promotes(q, e) => p = q
        /\ \A r \in Runners, p \in Promoters : ~(WorksOn(r, e) /\ Promotes(p, e))

\* Who is about to append an event still sees the status it checked.
StatusIsFresh ==
    /\ \A r \in Runners : run[r].step # "idle" /\ run[r].m.id \notin overlapped =>
         /\ run[r].step = "append_running" => status_of(run[r].m.id) = "registered"
         /\ run[r].step \in {"append_completed", "append_failed"} =>
              status_of(run[r].m.id) = "running"
    /\ \A p \in Promoters :
         promotion[p].step = "append" /\ promotion[p].m.id \notin overlapped =>
             status_of(promotion[p].m.id) = "completed"

TrialInv == TrialTypes /\ WorkIsKnown /\ Paid /\ Whole /\ SoleWorker /\ StatusIsFresh

-----------------------------------------------------------------------------
(* What an action does to one runner and to one history.                   *)

\* The other runners stand where they stood.
OthersStand(r) == \A q \in Runners \ {r} : run'[q] = run[q]

LEMMA RunSet ==
  ASSUME TrialTypes, NEW r \in Runners, NEW new \in RunState,
         run' = [run EXCEPT ![r] = new]
  PROVE  run' \in [Runners -> RunState] /\ OthersStand(r) /\ run'[r] = new
  BY DEF TrialTypes, OthersStand

LEMMA IdleRun == NoRun \in RunState /\ NoRun.step = "idle"
  BY DEF NoRun, RunState, RunnerSteps

LEMMA EndsMoves ==
  ASSUME TrialTypes, NEW r \in Runners, ends(r)
  PROVE  run' \in [Runners -> RunState] /\ OthersStand(r) /\ run'[r].step = "idle"
  BY RunSet, IdleRun DEF ends

\* One runner changes its step and the files it has left.
LEMMA TwoFieldsMove ==
  ASSUME TrialTypes, NEW r \in Runners, NEW step \in RunnerSteps \union BundleFiles,
         NEW todo \in SUBSET BundleFiles,
         run' = [run EXCEPT ![r].step = step, ![r].todo = todo]
  PROVE  /\ run' \in [Runners -> RunState] /\ OthersStand(r)
         /\ run'[r].step = step /\ run'[r].m = run[r].m /\ run'[r].todo = todo
  <1> DEFINE new == [run[r] EXCEPT !.step = step, !.todo = todo]
  <1>1. run[r] \in RunState /\ run \in [Runners -> RunState]
    BY DEF TrialTypes
  <1>2. new \in RunState /\ new.step = step /\ new.m = run[r].m /\ new.todo = todo
    BY <1>1 DEF RunState
  <1>3. run' = [run EXCEPT ![r] = new]
    BY <1>1 DEF RunState
  <1> HIDE DEF new
  <1> QED
    BY <1>2, <1>3, RunSet

LEMMA TodoMoves ==
  ASSUME TrialTypes, NEW r \in Runners, NEW todo \in SUBSET BundleFiles,
         run' = [run EXCEPT ![r].todo = todo]
  PROVE  /\ run' \in [Runners -> RunState] /\ OthersStand(r)
         /\ run'[r].step = run[r].step /\ run'[r].m = run[r].m /\ run'[r].todo = todo
  <1> DEFINE new == [step |-> run[r].step, m |-> run[r].m, todo |-> todo]
  <1>1. run[r] \in RunState /\ run \in [Runners -> RunState]
    BY DEF TrialTypes
  <1>2. new \in RunState /\ new.step = run[r].step /\ new.m = run[r].m /\ new.todo = todo
    BY <1>1 DEF RunState
  <1>3. [run[r] EXCEPT !.todo = todo] = new
    BY <1>1 DEF RunState
  <1>4. run' = [run EXCEPT ![r] = new]
    BY <1>1, <1>3
  <1> HIDE DEF new
  <1> QED
    BY <1>2, <1>4, RunSet

LEMMA GoesOnMoves ==
  ASSUME TrialTypes, NEW r \in Runners, NEW step \in RunnerSteps \union BundleFiles,
         goes_on(r, step)
  PROVE  /\ run' \in [Runners -> RunState] /\ OthersStand(r)
         /\ run'[r].step = step /\ run'[r].m = run[r].m /\ run'[r].todo = run[r].todo
  <1> DEFINE new == [step |-> step, m |-> run[r].m, todo |-> run[r].todo]
  <1>1. run[r] \in RunState /\ run \in [Runners -> RunState]
    BY DEF TrialTypes
  <1>2. new \in RunState /\ new.step = step /\ new.m = run[r].m /\ new.todo = run[r].todo
    BY <1>1 DEF RunState
  <1>3. [run[r] EXCEPT !.step = step] = new
    BY <1>1 DEF RunState
  <1>4. run' = [run EXCEPT ![r] = new]
    BY <1>1, <1>3 DEF goes_on
  <1> HIDE DEF new
  <1> QED
    BY <1>2, <1>4, RunSet

\* Adding an event to the history of e.
LEMMA HistoryGrows ==
  ASSUME TrialTypes, NEW e \in DOMAIN history, NEW status \in Status,
         history' = [history EXCEPT ![e] = Append(@, status)]
  PROVE  /\ DOMAIN history' = DOMAIN history
         /\ \A x \in DOMAIN history \ {e} : history'[x] = history[x]
         /\ history'[e] \in Seq(Status) /\ history'[e] # <<>>
         /\ Last(history'[e]) = status
         /\ Range(history'[e]) = Range(history[e]) \union {status}
  <1>1. history[e] \in Seq(Status) /\ history'[e] = Append(history[e], status)
    BY DEF TrialTypes
  <1> DEFINE old == history[e]
             new == history'[e]
  <1>2. /\ new \in Seq(Status) /\ Len(new) = Len(old) + 1 /\ Len(old) \in Nat
        /\ \A i \in 1 .. Len(old) : new[i] = old[i]
        /\ new[Len(old) + 1] = status
        /\ DOMAIN old = 1 .. Len(old) /\ DOMAIN new = 1 .. Len(old) + 1
    BY <1>1
  <1> HIDE DEF old, new
  <1>3. new # <<>> /\ Last(new) = status
    BY <1>2 DEF Last
  <1>4. Range(new) = Range(old) \union {status}
    <2>1. \A i \in DOMAIN new : new[i] \in Range(old) \union {status}
      BY <1>2 DEF Range
    <2>2. \A i \in DOMAIN old : old[i] \in Range(new)
      BY <1>2 DEF Range
    <2>3. status \in Range(new)
      <3>1. Len(old) + 1 \in DOMAIN new
        BY <1>2
      <3> QED
        BY <1>2, <3>1 DEF Range
    <2>4. Range(new) \subseteq Range(old) \union {status}
      BY <2>1 DEF Range
    <2>5. Range(old) \subseteq Range(new)
      BY <2>2 DEF Range
    <2> QED
      BY <2>3, <2>4, <2>5
  <1> QED
    BY <1>2, <1>3, <1>4 DEF old, new

LEMMA StatusKnown ==
  ASSUME TrialTypes, NEW e \in DOMAIN history
  PROVE  /\ status_of(e) \in Status
         /\ allowed(e, "running") => status_of(e) = "registered"
         /\ allowed(e, "completed") => status_of(e) = "running"
         /\ allowed(e, "failed") => status_of(e) = "running"
  <1>1. status_of(e) \in Status
    BY DEF TrialTypes, status_of, Last
  <1> QED
    BY <1>1 DEF allowed, ALLOWED, Status

\* The runner's step, and what it has left, in the state before.
LEMMA RunFields ==
  ASSUME TrialTypes, NEW r \in Runners
  PROVE  /\ run[r].step \in RunnerSteps \union BundleFiles
         /\ run[r].m \in Manifests \union {<<>>}
         /\ run[r].todo \in SUBSET BundleFiles
  BY DEF TrialTypes, RunState

LEMMA RegisterReadMoves ==
  ASSUME TrialTypes, NEW r \in Runners, NEW m \in Manifests, register_read(r, m)
  PROVE  /\ run' \in [Runners -> RunState] /\ OthersStand(r)
         /\ run'[r].m = m
         /\ run'[r].step = IF m.id \in DOMAIN history THEN "registered" ELSE "insert"
  <1> DEFINE step == IF m.id \in DOMAIN history THEN "registered" ELSE "insert"
             new == [NoRun EXCEPT !.m = m, !.step = step]
  <1>1. new \in RunState /\ new.m = m /\ new.step = step
    BY DEF NoRun, RunState, RunnerSteps
  <1>2. run' = [run EXCEPT ![r] = new]
    BY DEF register_read
  <1> HIDE DEF new
  <1> QED
    BY <1>1, <1>2, RunSet

LEMMA ReplayMoves ==
  ASSUME TrialTypes, NEW r \in Runners, replay(r)
  PROVE  /\ run' \in [Runners -> RunState] /\ OthersStand(r) /\ run'[r].m = run[r].m
         /\ \/ run'[r].step = "write" /\ run'[r].todo = BundleFiles
            \/ run'[r].step = "fail"
  <1>1. CASE goes_on(r, "fail")
    BY <1>1, GoesOnMoves DEF RunnerSteps
  <1>2. CASE run' = [run EXCEPT ![r].step = "write", ![r].todo = BundleFiles]
    <2>1. "write" \in RunnerSteps \union BundleFiles
      BY DEF RunnerSteps
    <2> QED
      BY <1>2, <2>1, TwoFieldsMove
  <1> QED
    BY <1>1, <1>2 DEF replay

LEMMA WriteMoves ==
  ASSUME TrialTypes, NEW r \in Runners, NEW f \in BundleFiles, write_file(r, f)
  PROVE  /\ run' \in [Runners -> RunState] /\ OthersStand(r) /\ run'[r].m = run[r].m
         /\ \/ /\ run[r].todo = {f}
               /\ run'[r].step = "record" /\ run'[r].todo = BundleFiles
            \/ run'[r].step = "write" /\ run'[r].todo = run[r].todo \ {f}
  <1>1. CASE run[r].todo = {f}
    <2>1. run' = [run EXCEPT ![r].step = "record", ![r].todo = BundleFiles]
      BY <1>1 DEF write_file, to_record
    <2>2. "record" \in RunnerSteps \union BundleFiles
      BY DEF RunnerSteps
    <2> QED
      BY <1>1, <2>1, <2>2, TwoFieldsMove
  <1>2. CASE run[r].todo # {f}
    <2>1. run' = [run EXCEPT ![r].todo = run[r].todo \ {f}] /\ run[r].step = "write"
      BY <1>2 DEF write_file, at_step, TrialTypes, RunState
    <2>2. run[r].todo \ {f} \in SUBSET BundleFiles
      BY RunFields
    <2> QED
      BY <2>1, <2>2, TodoMoves
  <1> QED
    BY <1>1, <1>2

LEMMA RecordReadMoves ==
  ASSUME TrialTypes, NEW r \in Runners, NEW f \in BundleFiles, record_read(r, f)
  PROVE  /\ run' \in [Runners -> RunState] /\ OthersStand(r) /\ run'[r].m = run[r].m
         /\ run'[r].todo = run[r].todo \ {f}
         /\ \/ run'[r].step = "record" /\ f \in artifacts[run[r].m.id]
            \/ run'[r].step = f
  <1>1. CASE f \in artifacts[run[r].m.id]
    <2>1. run' = [run EXCEPT ![r].todo = run[r].todo \ {f}] /\ run[r].step = "record"
      BY <1>1 DEF record_read, at_step, TrialTypes, RunState
    <2>2. run[r].todo \ {f} \in SUBSET BundleFiles
      BY RunFields
    <2> QED
      BY <1>1, <2>1, <2>2, TodoMoves
  <1>2. CASE f \notin artifacts[run[r].m.id]
    <2>1. run' = [run EXCEPT ![r].step = f, ![r].todo = run[r].todo \ {f}]
      BY <1>2 DEF record_read, TrialTypes, RunState
    <2>2. run[r].todo \ {f} \in SUBSET BundleFiles
      BY RunFields
    <2> QED
      BY <2>1, <2>2, TwoFieldsMove
  <1> QED
    BY <1>1, <1>2

\* The actions of a runner that is under way.
RunnerOn(r) ==
    \/ register_experiment(r) \/ look_up(r) \/ append_event(r) \/ replay(r)
    \/ \E f \in BundleFiles : write_file(r, f) \/ record_read(r, f)
    \/ record_insert(r) \/ conclude(r) \/ crash_run(r)

\* A runner under way keeps its manifest until it is idle again.
LEMMA RunnerKeepsManifest ==
  ASSUME TrialTypes, NEW r \in Runners, RunnerOn(r)
  PROVE  /\ run' \in [Runners -> RunState] /\ OthersStand(r) /\ run[r].step # "idle"
         /\ \/ run'[r].step = "idle"
            \/ run'[r].m = run[r].m /\ run'[r].step # "insert"
  <1> DEFINE Goal == /\ run' \in [Runners -> RunState] /\ OthersStand(r)
                     /\ \/ run'[r].step = "idle"
                        \/ run'[r].m = run[r].m /\ run'[r].step # "insert"
  <1>1. run[r].step # "idle"
    BY FileNamesAssumption DEF RunnerOn, register_experiment, look_up, append_event, replay,
       write_file, record_read, record_insert, conclude, crash_run, at_step, RunnerSteps
  <1> SUFFICES Goal
    BY <1>1
  <1>2. ASSUME NEW step \in (RunnerSteps \union BundleFiles) \ {"insert"}, goes_on(r, step)
        PROVE  Goal
    BY <1>2, GoesOnMoves
  <1>3. CASE ends(r)
    BY <1>3, EndsMoves
  <1>4. CASE register_experiment(r) \/ look_up(r) \/ append_event(r) \/ crash_run(r)
    <2>1. \/ ends(r) \/ goes_on(r, "registered") \/ goes_on(r, "append_running")
          \/ goes_on(r, "replay")
      BY <1>4 DEF register_experiment, look_up, append_event, crash_run, at_step
    <2> QED
      BY <1>2, <1>3, <2>1 DEF RunnerSteps
  <1>5. CASE replay(r)
    BY <1>5, ReplayMoves
  <1>6. ASSUME NEW f \in BundleFiles, write_file(r, f)
        PROVE  Goal
    BY <1>6, WriteMoves
  <1>7. ASSUME NEW f \in BundleFiles, record_read(r, f)
        PROVE  Goal
    BY <1>7, RecordReadMoves, FileNamesAssumption DEF RunnerSteps
  <1>8. CASE record_insert(r) \/ conclude(r)
    <2>1. \/ ends(r) \/ goes_on(r, "fail") \/ goes_on(r, "record")
          \/ goes_on(r, "append_completed") \/ goes_on(r, "append_failed")
      BY <1>8 DEF record_insert, conclude
    <2> QED
      BY <1>2, <1>3, <2>1 DEF RunnerSteps
  <1> QED
    BY <1>4, <1>5, <1>6, <1>7, <1>8 DEF RunnerOn

\* The actions of a promoter.
PromoterNext(p) == (\E m \in Manifests : promote(p, m)) \/ promote_read(p) \/ promote_append(p)

LEMMA PromotionSet ==
  ASSUME TrialTypes, NEW p \in Promoters, NEW new \in PromotionState,
         promotion' = [promotion EXCEPT ![p] = new]
  PROVE  /\ promotion' \in [Promoters -> PromotionState] /\ promotion'[p] = new
         /\ \A q \in Promoters \ {p} : promotion'[q] = promotion[q]
  BY DEF TrialTypes

\* A promoter takes up a manifest that is completed, or goes on with its own.
LEMMA PromoterMoves ==
  ASSUME TrialTypes, WorkIsKnown, NEW p \in Promoters, PromoterNext(p)
  PROVE  /\ promotion' \in [Promoters -> PromotionState]
         /\ \A q \in Promoters \ {p} : promotion'[q] = promotion[q]
         /\ \/ promotion'[p].step = "idle"
            \/ /\ promotion'[p].step = "append" /\ promotion[p].step = "verified"
               /\ promotion'[p].m = promotion[p].m
               /\ status_of(promotion[p].m.id) = "completed"
               /\ UNCHANGED <<history, overlapped>>
            \/ /\ promotion'[p].step = "verified" /\ UNCHANGED history
               /\ promotion'[p].m \in Manifests /\ promotion'[p].m.id \in DOMAIN history
               /\ overlapped' = IF busy(promotion'[p].m.id)
                                THEN overlapped \union {promotion'[p].m.id} ELSE overlapped
  <1>1. ASSUME NEW m \in Manifests, promote(p, m)
        PROVE  /\ promotion' \in [Promoters -> PromotionState]
               /\ \A q \in Promoters \ {p} : promotion'[q] = promotion[q]
               /\ promotion'[p].step = "verified" /\ promotion'[p].m = m
    <2> DEFINE new == [step |-> "verified", m |-> m]
    <2>1. new \in PromotionState /\ new.step = "verified" /\ new.m = m
      BY DEF PromotionState
    <2>2. promotion' = [promotion EXCEPT ![p] = new]
      BY <1>1 DEF promote
    <2> HIDE DEF new
    <2> QED
      BY <2>1, <2>2, PromotionSet
  <1>2. ASSUME NEW m \in Manifests, promote(p, m)
        PROVE  /\ m.id \in DOMAIN history /\ UNCHANGED history
               /\ overlapped' = IF busy(m.id) THEN overlapped \union {m.id} ELSE overlapped
    BY <1>2 DEF promote, promotable
  <1>3. NoPromotion \in PromotionState /\ NoPromotion.step = "idle"
    BY DEF NoPromotion, PromotionState
  <1>4. ASSUME promotion' = [promotion EXCEPT ![p] = NoPromotion]
        PROVE  /\ promotion' \in [Promoters -> PromotionState]
               /\ \A q \in Promoters \ {p} : promotion'[q] = promotion[q]
               /\ promotion'[p].step = "idle"
    BY <1>3, <1>4, PromotionSet
  <1>5. CASE promote_read(p)
    <2>1. CASE status_of(promotion[p].m.id) = "completed"
      <3> DEFINE new == [promotion[p] EXCEPT !.step = "append"]
      <3>1. promotion[p] \in PromotionState
        BY DEF TrialTypes
      <3>2. new \in PromotionState /\ new.step = "append" /\ new.m = promotion[p].m
        BY <3>1 DEF PromotionState
      <3>3. promotion' = [promotion EXCEPT ![p] = new]
        BY <1>5, <2>1 DEF promote_read, TrialTypes
      <3>4. promotion[p].step = "verified" /\ UNCHANGED <<history, overlapped>>
        BY <1>5 DEF promote_read
      <3> HIDE DEF new
      <3> QED
        BY <2>1, <3>2, <3>3, <3>4, PromotionSet
    <2>2. CASE status_of(promotion[p].m.id) # "completed"
      <3>1. promotion' = [promotion EXCEPT ![p] = NoPromotion]
        BY <1>5, <2>2 DEF promote_read, TrialTypes
      <3> QED
        BY <3>1, <1>4
    <2> QED
      BY <2>1, <2>2
  <1>6. CASE promote_append(p)
    BY <1>6, <1>4 DEF promote_append
  <1> QED
    BY <1>1, <1>2, <1>5, <1>6 DEF PromoterNext

\* What the runners and promoters leave of the histories.
LEMMA RegisterMoves ==
  ASSUME TrialTypes, WorkIsKnown, NEW r \in Runners, register_experiment(r)
  PROVE  /\ run[r].step = "insert" /\ run[r].m \in Manifests
         /\ run[r].m.trial \in DOMAIN allocations
         /\ UNCHANGED <<files, artifacts, promotion, overlapped>>
         /\ \/ UNCHANGED <<history, allocations>> /\ ends(r)
            \/ /\ goes_on(r, "registered") /\ run[r].m.id \notin DOMAIN history
               /\ DOMAIN history' = DOMAIN history \union {run[r].m.id}
               /\ \A x \in DOMAIN history : history'[x] = history[x]
               /\ history'[run[r].m.id] = <<"registered">>
               /\ allocations' = [allocations EXCEPT ![run[r].m.trial].experiment = run[r].m.id]
               /\ allocations[run[r].m.trial].experiment = 0
  <1>1. run[r].step = "insert"
    BY DEF register_experiment, at_step
  <1>2. run[r].m \in Manifests /\ run[r].m.trial \in DOMAIN allocations
    BY <1>1 DEF WorkIsKnown
  <1>3. UNCHANGED <<files, artifacts, promotion, overlapped>>
    BY DEF register_experiment
  <1>4. CASE run[r].m.id \notin DOMAIN history /\ unconsumed(run[r].m)
    <2>1. /\ history' = put(history, run[r].m.id, <<"registered">>)
          /\ allocations' = [allocations EXCEPT ![run[r].m.trial].experiment = run[r].m.id]
          /\ goes_on(r, "registered")
      BY <1>4 DEF register_experiment
    <2>2. /\ DOMAIN history' = DOMAIN history \union {run[r].m.id}
          /\ \A x \in DOMAIN history : history'[x] = history[x]
          /\ history'[run[r].m.id] = <<"registered">>
      BY <1>4, <2>1 DEF put
    <2> QED
      BY <1>1, <1>2, <1>3, <1>4, <2>1, <2>2 DEF unconsumed
  <1>5. CASE ~(run[r].m.id \notin DOMAIN history /\ unconsumed(run[r].m))
    BY <1>1, <1>2, <1>3, <1>5 DEF register_experiment
  <1> QED
    BY <1>4, <1>5

LEMMA AppendMoves ==
  ASSUME TrialTypes, WorkIsKnown, NEW r \in Runners, append_event(r)
  PROVE  /\ run[r].m.id \in DOMAIN history
         /\ UNCHANGED <<files, artifacts, promotion, overlapped, allocations>>
         /\ \E status \in {"running", "completed", "failed"} :
              /\ history' = [history EXCEPT ![run[r].m.id] = Append(@, status)]
              /\ status = "running" => run[r].step = "append_running"
              /\ status = "completed" => run[r].step = "append_completed"
              /\ status = "failed" => run[r].step = "append_failed"
         /\ ends(r) \/ goes_on(r, "replay")
  BY DEF append_event, at_step, WorkIsKnown

LEMMA PromoteAppends ==
  ASSUME TrialTypes, WorkIsKnown, NEW p \in Promoters, promote_append(p)
  PROVE  /\ promotion[p].step = "append" /\ promotion[p].m.id \in DOMAIN history
         /\ UNCHANGED <<files, artifacts, run, overlapped, allocations>>
         /\ history' = [history EXCEPT ![promotion[p].m.id] = Append(@, "promoted")]
  BY DEF promote_append, WorkIsKnown

-----------------------------------------------------------------------------
(* The types, and the work under way.                                      *)

\* Every history keeps its type and none disappears.
HistoriesKept ==
    /\ DOMAIN history \subseteq DOMAIN history' /\ DOMAIN history' \subseteq Ids
    /\ \A e \in DOMAIN history' : history'[e] \in Seq(Status) /\ history'[e] # <<>>

LEMMA SameHistory == ASSUME TrialTypes, UNCHANGED history PROVE HistoriesKept
  BY DEF TrialTypes, HistoriesKept

LEMMA HistoryStep ==
  ASSUME TrialTypes, WorkIsKnown, [TrialNext]_trialVars
  PROVE  HistoriesKept
  <1>1. ASSUME NEW r \in Runners, register_experiment(r)
        PROVE  HistoriesKept
    <2>1. <<"registered">> \in Seq(Status) /\ <<"registered">> # <<>>
      BY DEF Status
    <2>2. run[r].m.id \in Ids
      BY <1>1, RegisterMoves DEF Ids
    <2> QED
      BY <1>1, <2>1, <2>2, RegisterMoves DEF HistoriesKept, TrialTypes
  <1>2. ASSUME NEW e \in DOMAIN history, NEW status \in Status,
               history' = [history EXCEPT ![e] = Append(@, status)]
        PROVE  HistoriesKept
    BY <1>2, HistoryGrows DEF HistoriesKept, TrialTypes
  <1>3. ASSUME NEW r \in Runners, append_event(r)
        PROVE  HistoriesKept
    BY <1>2, <1>3, AppendMoves DEF Status
  <1>4. ASSUME NEW p \in Promoters, promote_append(p)
        PROVE  HistoriesKept
    BY <1>2, <1>4, PromoteAppends DEF Status
  <1>5. CASE UNCHANGED history
    BY <1>5, SameHistory
  <1> QED
    BY <1>1, <1>3, <1>4, <1>5 DEF TrialNext, allocate_trial, register_read, look_up, replay,
       write_file, record_read, record_insert, conclude, crash_run, record_authority,
       promote, promote_read

\* The allocations grow, and a row changes only when it is consumed.
AllocationsKept ==
    /\ allocations' \in Seq(AllocationRow)
    /\ DOMAIN allocations \subseteq DOMAIN allocations'

LEMMA Consumed ==
  ASSUME TrialTypes, NEW n \in DOMAIN allocations, NEW e \in Ids,
         allocations' = [allocations EXCEPT ![n].experiment = e]
  PROVE  /\ allocations' \in Seq(AllocationRow) /\ DOMAIN allocations' = DOMAIN allocations
         /\ Len(allocations') = Len(allocations)
         /\ allocations'[n].experiment = e
         /\ \A x \in DOMAIN allocations \ {n} : allocations'[x] = allocations[x]
  <1> DEFINE new == [allocations[n] EXCEPT !.experiment = e]
  <1>1. allocations[n] \in AllocationRow /\ allocations \in Seq(AllocationRow)
    BY DEF TrialTypes
  <1>2. new \in AllocationRow /\ new.experiment = e
    BY <1>1 DEF AllocationRow
  <1>3. allocations' = [allocations EXCEPT ![n] = new]
    BY <1>1
  <1> HIDE DEF new
  <1> QED
    BY <1>1, <1>2, <1>3

LEMMA AllocationStep ==
  ASSUME TrialTypes, WorkIsKnown, [TrialNext]_trialVars
  PROVE  AllocationsKept
  <1>1. ASSUME NEW k \in TrialKeys, allocate_trial(k)
        PROVE  AllocationsKept
    <2> DEFINE row == [key |-> k.key, role |-> k.role, experiment |-> 0]
    <2>1. row \in AllocationRow
      BY DEF AllocationRow
    <2>2. allocations' = Append(allocations, row) /\ allocations \in Seq(AllocationRow)
      BY <1>1 DEF allocate_trial, TrialTypes
    <2> HIDE DEF row
    <2> QED
      BY <2>1, <2>2 DEF AllocationsKept
  <1>2. ASSUME NEW r \in Runners, register_experiment(r)
        PROVE  AllocationsKept
    <2>1. run[r].m.id \in Ids
      BY <1>2, RegisterMoves DEF Ids
    <2>2. \/ UNCHANGED allocations
          \/ /\ run[r].m.trial \in DOMAIN allocations
             /\ allocations' = [allocations EXCEPT ![run[r].m.trial].experiment = run[r].m.id]
      BY <1>2, RegisterMoves
    <2> QED
      BY <2>1, <2>2, Consumed DEF AllocationsKept, TrialTypes
  <1>3. CASE UNCHANGED allocations
    BY <1>3 DEF AllocationsKept, TrialTypes
  <1> QED
    BY <1>1, <1>2, <1>3 DEF TrialNext, register_read, look_up, append_event, replay,
       write_file, record_read, record_insert, conclude, crash_run, record_authority,
       promote, promote_read, promote_append

LEMMA TrialTypeStep == TrialTypes /\ WorkIsKnown /\ [TrialNext]_trialVars =>
                         TrialTypes' /\ WorkIsKnown'
  <1> SUFFICES ASSUME TrialTypes, WorkIsKnown, [TrialNext]_trialVars
               PROVE  TrialTypes' /\ WorkIsKnown'
    OBVIOUS
  <1>1. HistoriesKept /\ AllocationsKept
    BY HistoryStep, AllocationStep
  <1>2. ASSUME run' \in [Runners -> RunState], promotion' \in [Promoters -> PromotionState],
               files' \in [Ids -> SUBSET BundleFiles],
               artifacts' \in [Ids -> SUBSET BundleFiles]
        PROVE  TrialTypes'
    BY <1>1, <1>2 DEF TrialTypes, HistoriesKept, AllocationsKept
  <1>3. ASSUME \A r \in Runners : run'[r].step # "idle" =>
                 \/ run'[r] = run[r]
                 \/ /\ run'[r].m \in Manifests
                    /\ run'[r].step = "insert" => run'[r].m.trial \in DOMAIN allocations
                    /\ run'[r].step # "insert" => run'[r].m.id \in DOMAIN history',
               \A p \in Promoters : promotion'[p].step # "idle" =>
                 \/ promotion'[p] = promotion[p]
                 \/ promotion'[p].m \in Manifests /\ promotion'[p].m.id \in DOMAIN history
        PROVE  WorkIsKnown'
    BY <1>1, <1>3 DEF WorkIsKnown, HistoriesKept, AllocationsKept
  <1>4. CASE UNCHANGED <<run, promotion, files, artifacts>>
    BY <1>2, <1>3, <1>4 DEF TrialTypes
  <1>5. ASSUME NEW r \in Runners, NEW m \in Manifests, register_read(r, m)
        PROVE  TrialTypes' /\ WorkIsKnown'
    <2>1. UNCHANGED <<promotion, files, artifacts, history>> /\ m.trial \in DOMAIN allocations
      BY <1>5 DEF register_read, registrable
    <2>2. TrialTypes'
      BY <1>2, <1>5, <2>1, RegisterReadMoves DEF TrialTypes
    <2>3. WorkIsKnown'
      BY <1>3, <1>5, <2>1, RegisterReadMoves DEF OthersStand
    <2> QED
      BY <2>2, <2>3
  <1>6. ASSUME NEW r \in Runners, RunnerOn(r)
        PROVE  TrialTypes' /\ WorkIsKnown'
    <2>1. UNCHANGED promotion
      BY <1>6 DEF RunnerOn, register_experiment, look_up, append_event, replay, write_file,
         record_read, record_insert, conclude, crash_run
    <2>2. run[r].m \in Manifests /\ run[r].m.id \in Ids
      BY <1>6, RunnerKeepsManifest DEF WorkIsKnown, Ids
    <2>3. files' \in [Ids -> SUBSET BundleFiles]
      <3>1. \/ files' = files
            \/ \E f \in BundleFiles : files' = [files EXCEPT ![run[r].m.id] = @ \union {f}]
        BY <1>6 DEF RunnerOn, register_experiment, look_up, append_event, replay, write_file,
           record_read, record_insert, conclude, crash_run
      <3> QED
        BY <3>1, <2>2 DEF TrialTypes
    <2>4. artifacts' \in [Ids -> SUBSET BundleFiles]
      <3>1. \/ artifacts' = artifacts
            \/ \E f \in BundleFiles :
                 artifacts' = [artifacts EXCEPT ![run[r].m.id] = @ \union {f}]
        BY <1>6 DEF RunnerOn, register_experiment, look_up, append_event, replay, write_file,
           record_read, record_insert, conclude, crash_run
      <3> QED
        BY <3>1, <2>2 DEF TrialTypes
    <2>5. TrialTypes'
      BY <1>2, <1>6, <2>1, <2>3, <2>4, RunnerKeepsManifest DEF TrialTypes
    <2>6. run'[r].step # "idle" => run'[r].m.id \in DOMAIN history'
      <3>1. CASE register_experiment(r)
        BY <3>1, <1>6, RegisterMoves, RunnerKeepsManifest, EndsMoves
      <3>2. CASE ends(r)
        BY <3>2, EndsMoves
      <3>3. CASE ~register_experiment(r) /\ ~ends(r)
        <4>1. run[r].step # "insert"
          BY <1>6, <3>3, FileNamesAssumption DEF RunnerOn, look_up, append_event, replay,
             write_file, record_read, record_insert, conclude, crash_run, at_step, RunnerSteps
        <4> QED
          BY <4>1, <1>1, <1>6, RunnerKeepsManifest DEF WorkIsKnown, HistoriesKept
      <3> QED
        BY <3>1, <3>2, <3>3
    <2>7. WorkIsKnown'
      BY <1>3, <1>6, <2>1, <2>2, <2>6, RunnerKeepsManifest DEF OthersStand
    <2> QED
      BY <2>5, <2>7
  <1>7. ASSUME NEW p \in Promoters, PromoterNext(p)
        PROVE  TrialTypes' /\ WorkIsKnown'
    <2>1. UNCHANGED <<run, files, artifacts>>
      BY <1>7 DEF PromoterNext, promote, promote_read, promote_append
    <2>2. TrialTypes'
      BY <1>2, <1>7, <2>1, PromoterMoves DEF TrialTypes
    <2>3. WorkIsKnown'
      BY <1>3, <1>7, <2>1, PromoterMoves DEF WorkIsKnown
    <2> QED
      BY <2>2, <2>3
  <1> QED
    BY <1>4, <1>5, <1>6, <1>7 DEF TrialNext, RunnerOn, PromoterNext, allocate_trial,
       record_authority

-----------------------------------------------------------------------------
(* Allocations.                                                            *)

LEMMA PaidStep == TrialTypes /\ WorkIsKnown /\ Paid /\ [TrialNext]_trialVars => Paid'
  <1> SUFFICES ASSUME TrialTypes, WorkIsKnown, Paid, [TrialNext]_trialVars PROVE Paid'
    OBVIOUS
  <1>1. ASSUME NEW k \in TrialKeys, allocate_trial(k)
        PROVE  Paid'
    <2> DEFINE row == [key |-> k.key, role |-> k.role, experiment |-> 0]
    <2>1. row \in AllocationRow
      BY DEF AllocationRow
    <2>2. /\ allocations' = Append(allocations, row) /\ allocations \in Seq(AllocationRow)
          /\ Len(allocations) < TrialBudget /\ UNCHANGED history
      BY <1>1 DEF allocate_trial, TrialTypes
    <2> HIDE DEF row
    <2>3. /\ Len(allocations') <= TrialBudget
          /\ \A n \in DOMAIN allocations : n \in DOMAIN allocations' /\ allocations'[n] = allocations[n]
      BY <2>1, <2>2, TrialAssumption
    <2> QED
      BY <2>2, <2>3 DEF Paid
  <1>2. ASSUME NEW r \in Runners, register_experiment(r)
        PROVE  Paid'
    <2> DEFINE m == run[r].m
    <2>1. m \in Manifests /\ m.trial \in DOMAIN allocations /\ m.id \in Ids
      BY <1>2, RegisterMoves DEF Ids
    <2>2. CASE UNCHANGED <<history, allocations>>
      BY <2>2 DEF Paid
    <2> HIDE DEF m
    <2>3. CASE /\ DOMAIN history' = DOMAIN history \union {m.id}
               /\ allocations' = [allocations EXCEPT ![m.trial].experiment = m.id]
               /\ allocations[m.trial].experiment = 0
      <3>1. /\ DOMAIN allocations' = DOMAIN allocations /\ Len(allocations') = Len(allocations)
            /\ allocations'[m.trial].experiment = m.id
            /\ \A x \in DOMAIN allocations \ {m.trial} : allocations'[x] = allocations[x]
        BY <2>1, <2>3, Consumed
      <3>2. ASSUME NEW n \in Manifests, n.id \in DOMAIN history'
            PROVE  n.trial \in DOMAIN allocations' /\ allocations'[n.trial].experiment = n.id
        <4>1. CASE n.id = m.id
          BY <4>1, <2>1, <3>1, ManifestAssumption
        <4>2. CASE n.id # m.id
          <5>1. n.trial \in DOMAIN allocations /\ allocations[n.trial].experiment = n.id
            BY <4>2, <2>3, <3>2 DEF Paid
          <5>2. n.trial # m.trial
            BY <5>1, <2>3, ManifestAssumption
          <5> QED
            BY <5>1, <5>2, <3>1
        <4> QED
          BY <4>1, <4>2
      <3> QED
        BY <3>1, <3>2 DEF Paid
    <2> QED
      BY <1>2, <2>2, <2>3, RegisterMoves DEF m
  <1>3. CASE UNCHANGED allocations /\ DOMAIN history' = DOMAIN history
    BY <1>3 DEF Paid
  <1>4. ASSUME NEW r \in Runners, append_event(r)
        PROVE  Paid'
    <2>1. DOMAIN history' = DOMAIN history
      BY <1>4, AppendMoves, HistoryGrows DEF Status
    <2> QED
      BY <1>3, <1>4, <2>1, AppendMoves
  <1>5. ASSUME NEW p \in Promoters, promote_append(p)
        PROVE  Paid'
    <2>1. DOMAIN history' = DOMAIN history
      BY <1>5, PromoteAppends, HistoryGrows DEF Status
    <2> QED
      BY <1>3, <1>5, <2>1, PromoteAppends
  <1> QED
    BY <1>1, <1>2, <1>3, <1>4, <1>5 DEF TrialNext, register_read, look_up, replay,
       write_file, record_read, record_insert, conclude, crash_run, record_authority,
       promote, promote_read

-----------------------------------------------------------------------------
(* Bundles.                                                                *)

\* No file and no recorded name is ever removed.
BundlesGrow == \A e \in Ids : files[e] \subseteq files'[e] /\ artifacts[e] \subseteq artifacts'[e]

LEMMA BundlesStep ==
  ASSUME TrialTypes, WorkIsKnown, [TrialNext]_trialVars
  PROVE  BundlesGrow
  <1>1. /\ \/ files' = files
           \/ \E e \in Ids, f \in BundleFiles : files' = [files EXCEPT ![e] = @ \union {f}]
        /\ \/ artifacts' = artifacts
           \/ \E e \in Ids, f \in BundleFiles :
                artifacts' = [artifacts EXCEPT ![e] = @ \union {f}]
    <2>1. ASSUME NEW r \in Runners, NEW f \in BundleFiles, write_file(r, f)
          PROVE  /\ \E e \in Ids : files' = [files EXCEPT ![e] = @ \union {f}]
                 /\ artifacts' = artifacts
      BY <2>1, RunnerKeepsManifest DEF write_file, WorkIsKnown, Ids, RunnerOn
    <2>2. ASSUME NEW r \in Runners, record_insert(r)
          PROVE  /\ \/ artifacts' = artifacts
                    \/ \E e \in Ids, f \in BundleFiles :
                         artifacts' = [artifacts EXCEPT ![e] = @ \union {f}]
                 /\ files' = files
      BY <2>2, RunnerKeepsManifest DEF record_insert, WorkIsKnown, Ids, RunnerOn
    <2> QED
      BY <2>1, <2>2 DEF TrialNext, allocate_trial, register_read, register_experiment,
         look_up, append_event, replay, record_read, conclude, crash_run, record_authority,
         promote, promote_read, promote_append
  <1>2. files' = files \/ (\E e \in Ids, f \in BundleFiles : files' = [files EXCEPT ![e] = @ \union {f}])
          => \A e \in Ids : files[e] \subseteq files'[e]
    BY DEF TrialTypes
  <1>3. artifacts' = artifacts \/ (\E e \in Ids, f \in BundleFiles : artifacts' = [artifacts EXCEPT ![e] = @ \union {f}])
          => \A e \in Ids : artifacts[e] \subseteq artifacts'[e]
    BY DEF TrialTypes
  <1> QED
    BY <1>1, <1>2, <1>3 DEF BundlesGrow

\* A runner that stands still keeps what it has done.
LEMMA StandingProgress ==
  ASSUME TrialTypes, TrialTypes', WorkIsKnown, BundlesGrow, NEW q \in Runners,
         run'[q] = run[q], BundleProgress(q)
  PROVE  BundleProgress(q)'
  <1>1. CASE run[q].step = "idle"
    BY <1>1, FileNamesAssumption DEF BundleProgress, RunnerSteps
  <1>2. CASE run[q].step # "idle"
    <2> DEFINE e == run[q].m.id
    <2>1. e \in Ids
      BY <1>2 DEF WorkIsKnown, Ids
    <2>2. /\ files[e] \subseteq files'[e] /\ files'[e] \subseteq BundleFiles
          /\ artifacts[e] \subseteq artifacts'[e] /\ artifacts'[e] \subseteq BundleFiles
      BY <2>1 DEF BundlesGrow, TrialTypes
    <2>3. run'[q].m.id = e /\ run'[q].step = run[q].step /\ run'[q].todo = run[q].todo
      OBVIOUS
    <2>4. BundleFiles \ run[q].todo \subseteq files[e] =>
            BundleFiles \ run[q].todo \subseteq files'[e]
      BY <2>2
    <2>5. files[e] = BundleFiles => files'[e] = BundleFiles
      BY <2>2
    <2>6. artifacts[e] = BundleFiles => artifacts'[e] = BundleFiles
      BY <2>2
    <2>7. \A name : BundleFiles \ run[q].todo \subseteq artifacts[e] \union {name} =>
                      BundleFiles \ run[q].todo \subseteq artifacts'[e] \union {name}
      BY <2>2
    <2>8. BundleFiles \ run[q].todo \subseteq artifacts[e] =>
            BundleFiles \ run[q].todo \subseteq artifacts'[e]
      BY <2>2
    <2> QED
      BY <2>3, <2>4, <2>5, <2>6, <2>7, <2>8 DEF BundleProgress
  <1> QED
    BY <1>1, <1>2

\* A runner at one of the other steps has nothing to show.
LEMMA NoProgressNeeded ==
  ASSUME NEW r \in Runners,
         run'[r].step \in RunnerSteps \ {"write", "record", "append_completed"}
  PROVE  BundleProgress(r)'
  BY FileNamesAssumption DEF BundleProgress, RunnerSteps

LEMMA ProgressStep ==
  ASSUME TrialTypes, TrialTypes', WorkIsKnown, Whole, BundlesGrow, NEW r \in Runners,
         RunnerOn(r)
  PROVE  BundleProgress(r)'
  <1> DEFINE e == run[r].m.id
             Other == RunnerSteps \ {"write", "record", "append_completed"}
  <1>0. e \in Ids /\ BundleProgress(r)
    BY RunnerKeepsManifest DEF WorkIsKnown, Ids, Whole
  <1>a. /\ files[e] \subseteq files'[e] /\ files'[e] \subseteq BundleFiles
        /\ artifacts[e] \subseteq artifacts'[e] /\ artifacts'[e] \subseteq BundleFiles
    BY <1>0 DEF BundlesGrow, TrialTypes
  <1>1. ASSUME NEW step \in Other, goes_on(r, step)
        PROVE  BundleProgress(r)'
    BY <1>1, GoesOnMoves, NoProgressNeeded
  <1>2. CASE ends(r)
    BY <1>2, EndsMoves, NoProgressNeeded DEF RunnerSteps
  <1>3. CASE register_experiment(r) \/ look_up(r) \/ append_event(r) \/ crash_run(r)
    <2>1. \/ ends(r) \/ goes_on(r, "registered") \/ goes_on(r, "append_running")
          \/ goes_on(r, "replay")
      BY <1>3 DEF register_experiment, look_up, append_event, crash_run, at_step
    <2> QED
      BY <1>1, <1>2, <2>1 DEF RunnerSteps
  <1>4. CASE replay(r)
    BY <1>4, ReplayMoves, FileNamesAssumption DEF BundleProgress, RunnerSteps
  <1>5. ASSUME NEW f \in BundleFiles, write_file(r, f)
        PROVE  BundleProgress(r)'
    <2>1. /\ run[r].step = "write" /\ f \in files'[e] /\ run'[r].m = run[r].m
          /\ BundleFiles \ run[r].todo \subseteq files[e]
      BY <1>0, <1>5, WriteMoves DEF write_file, at_step, BundleProgress, TrialTypes
    <2>2. BundleFiles \ (run[r].todo \ {f}) \subseteq files'[e]
      BY <1>a, <2>1
    <2>3. CASE run[r].todo = {f} /\ run'[r].step = "record" /\ run'[r].todo = BundleFiles
      BY <1>a, <2>1, <2>2, <2>3, FileNamesAssumption DEF BundleProgress, RunnerSteps
    <2>4. CASE run'[r].step = "write" /\ run'[r].todo = run[r].todo \ {f}
      BY <2>1, <2>2, <2>4, FileNamesAssumption DEF BundleProgress, RunnerSteps
    <2> QED
      BY <1>5, <2>3, <2>4, WriteMoves
  <1>6. ASSUME NEW f \in BundleFiles, record_read(r, f)
        PROVE  BundleProgress(r)'
    <2>1. /\ run[r].step = "record" /\ run'[r].m = run[r].m
          /\ run'[r].todo = run[r].todo \ {f}
          /\ files[e] = BundleFiles /\ BundleFiles \ run[r].todo \subseteq artifacts[e]
      BY <1>0, <1>6, RecordReadMoves DEF record_read, at_step, BundleProgress
    <2>2. files'[e] = BundleFiles
      BY <2>1, <1>a
    <2>3. CASE run'[r].step = "record" /\ f \in artifacts[e]
      BY <1>a, <2>1, <2>2, <2>3, FileNamesAssumption DEF BundleProgress, RunnerSteps
    <2>4. CASE run'[r].step = f
      BY <1>a, <2>1, <2>2, <2>4, FileNamesAssumption DEF BundleProgress, RunnerSteps
    <2> QED
      BY <1>6, <2>3, <2>4, RecordReadMoves
  <1>7. CASE record_insert(r)
    <2>1. /\ run[r].step \in BundleFiles /\ files[e] = BundleFiles
          /\ BundleFiles \ run[r].todo \subseteq artifacts[e] \union {run[r].step}
      BY <1>0, <1>7 DEF record_insert, BundleProgress
    <2>2. CASE goes_on(r, "fail")
      BY <1>1, <2>2 DEF RunnerSteps
    <2>3. CASE goes_on(r, "record") /\ artifacts' = [artifacts EXCEPT ![e] = @ \union {run[r].step}]
      <3>1. artifacts'[e] = artifacts[e] \union {run[r].step}
        BY <1>0, <2>3 DEF TrialTypes
      <3>2. run'[r].step = "record" /\ run'[r].m = run[r].m /\ run'[r].todo = run[r].todo
        BY <2>3, GoesOnMoves DEF RunnerSteps
      <3> QED
        BY <1>a, <2>1, <3>1, <3>2, FileNamesAssumption DEF BundleProgress, RunnerSteps
    <2> QED
      BY <1>7, <2>2, <2>3 DEF record_insert
  <1>8. CASE conclude(r)
    <2>1. CASE goes_on(r, "fail") \/ goes_on(r, "append_failed") \/ ends(r)
      BY <1>1, <1>2, <2>1 DEF RunnerSteps
    <2>2. CASE run[r].step = "record" /\ run[r].todo = {} /\ goes_on(r, "append_completed")
      <3>1. run'[r].step = "append_completed" /\ run'[r].m = run[r].m
        BY <2>2, GoesOnMoves DEF RunnerSteps
      <3>2. files[e] = BundleFiles /\ BundleFiles \subseteq artifacts[e]
        BY <1>0, <2>2 DEF BundleProgress
      <3> QED
        BY <1>a, <3>1, <3>2, FileNamesAssumption DEF BundleProgress, RunnerSteps
    <2> QED
      BY <1>8, <2>1, <2>2 DEF conclude, at_step
  <1> QED
    BY <1>3, <1>4, <1>5, <1>6, <1>7, <1>8 DEF RunnerOn

\* Only append_completed makes a trial completed.
LEMMA CompletedAdded ==
  ASSUME TrialTypes, WorkIsKnown, [TrialNext]_trialVars, NEW e \in DOMAIN history',
         "completed" \in Range(history'[e])
  PROVE  \/ e \in DOMAIN history /\ "completed" \in Range(history[e])
         \/ e \in Ids /\ \E r \in Runners : run[r].step = "append_completed" /\ run[r].m.id = e
  <1>0. e \in Ids
    BY HistoryStep DEF HistoriesKept
  <1>1. CASE UNCHANGED history
    BY <1>1
  <1>2. ASSUME NEW r \in Runners, register_experiment(r)
        PROVE  e \in DOMAIN history /\ history'[e] = history[e]
    <2>1. "completed" \notin Range(<<"registered">>)
      BY DEF Range
    <2>2. history'[e] # <<"registered">>
      BY <2>1
    <2> QED
      BY <1>2, <2>2, RegisterMoves
  <1>3. ASSUME NEW r \in Runners, append_event(r),
               ~(run[r].step = "append_completed" /\ run[r].m.id = e)
        PROVE  e \in DOMAIN history /\ "completed" \in Range(history[e])
    <2>1. PICK status \in {"running", "completed", "failed"} :
            /\ history' = [history EXCEPT ![run[r].m.id] = Append(@, status)]
            /\ status = "completed" => run[r].step = "append_completed"
      BY <1>3, AppendMoves
    <2>2. /\ DOMAIN history' = DOMAIN history
          /\ \A x \in DOMAIN history \ {run[r].m.id} : history'[x] = history[x]
          /\ Range(history'[run[r].m.id]) = Range(history[run[r].m.id]) \union {status}
      <3>1. run[r].m.id \in DOMAIN history /\ status \in Status
        BY <1>3, AppendMoves DEF Status
      <3> QED
        BY <2>1, <3>1, HistoryGrows
    <2> QED
      BY <1>3, <2>1, <2>2
  <1>4. ASSUME NEW p \in Promoters, promote_append(p)
        PROVE  e \in DOMAIN history /\ "completed" \in Range(history[e])
    <2>1. /\ DOMAIN history' = DOMAIN history
          /\ \A x \in DOMAIN history \ {promotion[p].m.id} : history'[x] = history[x]
          /\ Range(history'[promotion[p].m.id]) = Range(history[promotion[p].m.id]) \union {"promoted"}
      BY <1>4, PromoteAppends, HistoryGrows DEF Status
    <2> QED
      BY <2>1
  <1> QED
    BY <1>0, <1>1, <1>2, <1>3, <1>4 DEF TrialNext, allocate_trial, register_read, look_up,
       replay, write_file, record_read, record_insert, conclude, crash_run, record_authority,
       promote, promote_read

LEMMA WholeStep == TrialTypes /\ WorkIsKnown /\ Whole /\ [TrialNext]_trialVars => Whole'
  <1> SUFFICES ASSUME TrialTypes, WorkIsKnown, Whole, [TrialNext]_trialVars PROVE Whole'
    OBVIOUS
  <1>1. TrialTypes' /\ BundlesGrow
    BY TrialTypeStep, BundlesStep
  <1>2. CompletedIsWhole'
    <2> SUFFICES ASSUME NEW e \in DOMAIN history', "completed" \in Range(history'[e])
                 PROVE  files'[e] = BundleFiles /\ artifacts'[e] = BundleFiles
      BY DEF CompletedIsWhole
    <2>1. e \in Ids /\ files[e] = BundleFiles /\ artifacts[e] = BundleFiles
      BY CompletedAdded DEF Whole, CompletedIsWhole, BundleProgress, TrialTypes
    <2> QED
      BY <1>1, <2>1 DEF BundlesGrow, TrialTypes
  <1>3. ASSUME NEW r \in Runners, OthersStand(r), BundleProgress(r)'
        PROVE  \A q \in Runners : BundleProgress(q)'
    BY <1>1, <1>3, StandingProgress DEF Whole, OthersStand
  <1>4. CASE UNCHANGED run
    BY <1>1, <1>2, <1>4, StandingProgress DEF Whole
  <1>5. ASSUME NEW r \in Runners, NEW m \in Manifests, register_read(r, m)
        PROVE  Whole'
    <2>1. OthersStand(r) /\ run'[r].step \in {"registered", "insert"}
      BY <1>5, RegisterReadMoves
    <2>2. BundleProgress(r)'
      BY <2>1, NoProgressNeeded DEF RunnerSteps
    <2> QED
      BY <1>2, <1>3, <2>1, <2>2 DEF Whole
  <1>6. ASSUME NEW r \in Runners, RunnerOn(r)
        PROVE  Whole'
    BY <1>1, <1>2, <1>3, <1>6, RunnerKeepsManifest, ProgressStep DEF Whole
  <1> QED
    BY <1>4, <1>5, <1>6 DEF TrialNext, RunnerOn, allocate_trial, record_authority, promote,
       promote_read, promote_append

-----------------------------------------------------------------------------
(* One worker at a time.                                                   *)

LEMMA RunnerOnKeeps ==
  ASSUME NEW r \in Runners, RunnerOn(r)
  PROVE  UNCHANGED <<overlapped, promotion>>
  BY DEF RunnerOn, register_experiment, look_up, append_event, replay, write_file,
     record_read, record_insert, conclude, crash_run

LEMMA SoleStep ==
  TrialTypes /\ WorkIsKnown /\ SoleWorker /\ [TrialNext]_trialVars =>
    SoleWorker' /\ overlapped \subseteq overlapped'
  <1> SUFFICES ASSUME TrialTypes, WorkIsKnown, SoleWorker, [TrialNext]_trialVars
               PROVE  SoleWorker' /\ overlapped \subseteq overlapped'
    OBVIOUS
  \* Nobody takes up new work.
  <1>1. ASSUME UNCHANGED overlapped,
               \A q \in Runners, e \in Ids : WorksOn(q, e)' => WorksOn(q, e),
               \A q \in Promoters, e \in Ids : Promotes(q, e)' => Promotes(q, e)
        PROVE  SoleWorker' /\ overlapped \subseteq overlapped'
    BY <1>1 DEF SoleWorker
  <1>2. CASE UNCHANGED <<run, promotion, overlapped>>
    BY <1>1, <1>2 DEF WorksOn, Promotes
  <1>3. ASSUME NEW r \in Runners, RunnerOn(r)
        PROVE  SoleWorker' /\ overlapped \subseteq overlapped'
    <2>1. \A q \in Runners, e \in Ids : WorksOn(q, e)' => WorksOn(q, e)
      BY <1>3, RunnerKeepsManifest DEF WorksOn, OthersStand
    <2> QED
      BY <1>1, <1>3, <2>1, RunnerOnKeeps DEF Promotes
  <1>4. ASSUME NEW r \in Runners, NEW m \in Manifests, register_read(r, m)
        PROVE  SoleWorker' /\ overlapped \subseteq overlapped'
    <2>1. /\ overlapped' = IF busy(m.id) THEN overlapped \union {m.id} ELSE overlapped
          /\ UNCHANGED promotion
      BY <1>4 DEF register_read
    <2>2. /\ \A q \in Runners \ {r}, e \in Ids : WorksOn(q, e)' <=> WorksOn(q, e)
          /\ \A q \in Promoters, e \in Ids : Promotes(q, e)' <=> Promotes(q, e)
          /\ \A e \in Ids \ {m.id} : ~WorksOn(r, e)'
      BY <1>4, <2>1, RegisterReadMoves DEF WorksOn, Promotes, OthersStand
    <2>3. m.id \notin overlapped' =>
            /\ \A q \in Runners : ~WorksOn(q, m.id)
            /\ \A q \in Promoters : ~Promotes(q, m.id)
      BY <2>1 DEF busy, WorksOn, Promotes
    <2>4. m.id \in Ids
      BY DEF Ids
    <2> QED
      BY <2>1, <2>2, <2>3, <2>4 DEF SoleWorker
  <1>5. ASSUME NEW p \in Promoters, PromoterNext(p)
        PROVE  SoleWorker' /\ overlapped \subseteq overlapped'
    <2>1. UNCHANGED run
      BY <1>5 DEF PromoterNext, promote, promote_read, promote_append
    <2>2. /\ \A q \in Runners, e \in Ids : WorksOn(q, e)' <=> WorksOn(q, e)
          /\ \A q \in Promoters \ {p}, e \in Ids : Promotes(q, e)' <=> Promotes(q, e)
      BY <1>5, <2>1, PromoterMoves DEF WorksOn, Promotes
    <2>3. ASSUME NEW m \in Manifests, promote(p, m)
          PROVE  SoleWorker' /\ overlapped \subseteq overlapped'
      <3>1. overlapped' = IF busy(m.id) THEN overlapped \union {m.id} ELSE overlapped
        BY <2>3 DEF promote
      <3>2. promotion'[p] = [step |-> "verified", m |-> m]
        BY <2>3 DEF promote, TrialTypes
      <3>3. \A e \in Ids \ {m.id} : ~Promotes(p, e)'
        BY <3>2 DEF Promotes
      <3>4. m.id \notin overlapped' =>
              /\ \A q \in Runners : ~WorksOn(q, m.id)
              /\ \A q \in Promoters : ~Promotes(q, m.id)
        BY <3>1 DEF busy, WorksOn, Promotes
      <3>5. m.id \in Ids
        BY DEF Ids
      <3> QED
        BY <2>2, <3>1, <3>3, <3>4, <3>5 DEF SoleWorker
    <2>4. CASE promote_read(p) \/ promote_append(p)
      <3>1. UNCHANGED overlapped
        BY <2>4 DEF promote_read, promote_append
      <3>2. promotion'[p].step # "idle" =>
              promotion[p].step # "idle" /\ promotion'[p].m = promotion[p].m
        <4>1. CASE promote_append(p)
          BY <4>1 DEF promote_append, TrialTypes, NoPromotion
        <4>2. CASE promote_read(p)
          <5>1. promotion'[p] = IF status_of(promotion[p].m.id) = "completed"
                                THEN [promotion[p] EXCEPT !.step = "append"] ELSE NoPromotion
            BY <4>2 DEF promote_read, TrialTypes
          <5>2. promotion[p] \in PromotionState /\ promotion[p].step = "verified"
            BY <4>2 DEF promote_read, TrialTypes
          <5> QED
            BY <5>1, <5>2 DEF PromotionState, NoPromotion
        <4> QED
          BY <2>4, <4>1, <4>2
      <3>3. \A e \in Ids : Promotes(p, e)' => Promotes(p, e)
        BY <3>2 DEF Promotes
      <3> QED
        BY <1>1, <2>2, <3>1, <3>3
    <2> QED
      BY <1>5, <2>3, <2>4 DEF PromoterNext
  <1> QED
    BY <1>2, <1>3, <1>4, <1>5 DEF TrialNext, RunnerOn, PromoterNext, allocate_trial,
       record_authority

Appending == {"append_running", "append_completed", "append_failed"}

\* Whoever changes a history works on the experiment and stands before its append.
LEMMA HistoryChanged ==
  ASSUME TrialTypes, WorkIsKnown, [TrialNext]_trialVars, NEW e \in DOMAIN history,
         history'[e] # history[e]
  PROVE  \/ \E r \in Runners : /\ run[r].step \in Appending /\ run[r].m.id = e
                               /\ run'[r].step \notin Appending /\ OthersStand(r)
                               /\ UNCHANGED promotion
         \/ \E p \in Promoters : /\ promotion[p].step = "append" /\ promotion[p].m.id = e
                                 /\ promotion'[p].step = "idle" /\ UNCHANGED run
                                 /\ \A q \in Promoters \ {p} : promotion'[q] = promotion[q]
                                 /\ Last(history'[e]) = "promoted"
  <1>1. ASSUME NEW r \in Runners, register_experiment(r)
        PROVE  history'[e] = history[e]
    BY <1>1, RegisterMoves
  <1>2. ASSUME NEW r \in Runners, append_event(r)
        PROVE  /\ run[r].step \in Appending /\ run[r].m.id = e
               /\ run'[r].step \notin Appending /\ OthersStand(r) /\ UNCHANGED promotion
    <2>1. PICK status \in {"running", "completed", "failed"} :
            history' = [history EXCEPT ![run[r].m.id] = Append(@, status)]
      BY <1>2, AppendMoves
    <2>2. run[r].m.id \in DOMAIN history /\ status \in Status
      BY <1>2, AppendMoves DEF Status
    <2>3. run[r].m.id = e
      BY <2>1, <2>2, HistoryGrows
    <2>4. run'[r].step \notin Appending /\ OthersStand(r)
      BY <1>2, AppendMoves, EndsMoves, GoesOnMoves DEF Appending, RunnerSteps
    <2> QED
      BY <1>2, <2>3, <2>4, AppendMoves DEF append_event, Appending
  <1>3. ASSUME NEW p \in Promoters, promote_append(p)
        PROVE  /\ promotion[p].step = "append" /\ promotion[p].m.id = e
               /\ promotion'[p].step = "idle" /\ UNCHANGED run
               /\ \A q \in Promoters \ {p} : promotion'[q] = promotion[q]
               /\ Last(history'[e]) = "promoted"
    <2>1. /\ promotion[p].m.id \in DOMAIN history /\ "promoted" \in Status
          /\ history' = [history EXCEPT ![promotion[p].m.id] = Append(@, "promoted")]
      BY <1>3, PromoteAppends DEF Status
    <2>2. promotion[p].m.id = e /\ Last(history'[e]) = "promoted"
      BY <2>1, HistoryGrows
    <2>3. /\ promotion'[p].step = "idle"
          /\ \A q \in Promoters \ {p} : promotion'[q] = promotion[q]
      BY <1>3 DEF promote_append, TrialTypes, NoPromotion
    <2> QED
      BY <1>3, <2>2, <2>3, PromoteAppends
  <1> QED
    BY <1>1, <1>2, <1>3 DEF TrialNext, allocate_trial, register_read, look_up, replay,
       write_file, record_read, record_insert, conclude, crash_run, record_authority,
       promote, promote_read

\* A runner comes before an append only from the check of transition.
LEMMA AppendPrepared ==
  ASSUME TrialTypes, WorkIsKnown, NEW r \in Runners, RunnerOn(r), run'[r].step \in Appending
  PROVE  /\ UNCHANGED history /\ run'[r].m = run[r].m
         /\ run'[r].step = "append_running" => status_of(run[r].m.id) = "registered"
         /\ run'[r].step \in {"append_completed", "append_failed"} =>
              status_of(run[r].m.id) = "running"
  <1> USE DEF Appending
  <1>1. ASSUME NEW step \in (RunnerSteps \union BundleFiles) \ Appending, goes_on(r, step)
        PROVE  FALSE
    BY <1>1, GoesOnMoves
  <1>2. ~ends(r)
    BY EndsMoves
  <1>3. ~register_experiment(r) /\ ~append_event(r) /\ ~crash_run(r)
    <2>1. register_experiment(r) \/ append_event(r) \/ crash_run(r) =>
            ends(r) \/ goes_on(r, "registered") \/ goes_on(r, "replay")
      BY DEF register_experiment, append_event, crash_run, at_step
    <2> QED
      BY <1>1, <1>2, <2>1 DEF RunnerSteps
  <1>4. ~replay(r)
    BY ReplayMoves
  <1>5. ASSUME NEW f \in BundleFiles
        PROVE  ~write_file(r, f) /\ ~record_read(r, f)
    BY WriteMoves, RecordReadMoves, FileNamesAssumption DEF RunnerSteps
  <1>6. ~record_insert(r)
    BY <1>1, <1>2 DEF record_insert, RunnerSteps
  <1>7. CASE look_up(r)
    <2>1. goes_on(r, "append_running") /\ allowed(run[r].m.id, "running")
      BY <1>2, <1>7 DEF look_up
    <2>2. run[r].m.id \in DOMAIN history /\ UNCHANGED history
      BY <1>7 DEF look_up, at_step, WorkIsKnown
    <2>3. run'[r].step = "append_running" /\ run'[r].m = run[r].m
      BY <2>1, GoesOnMoves DEF RunnerSteps
    <2> QED
      BY <2>1, <2>2, <2>3, StatusKnown
  <1>8. CASE conclude(r)
    <2>1. \/ goes_on(r, "append_completed") /\ allowed(run[r].m.id, "completed")
          \/ goes_on(r, "append_failed") /\ allowed(run[r].m.id, "failed")
      BY <1>1, <1>2, <1>8 DEF conclude, RunnerSteps
    <2>2. run[r].m.id \in DOMAIN history /\ UNCHANGED history
      BY <1>8 DEF conclude, at_step, WorkIsKnown
    <2>3. run'[r].step \in {"append_completed", "append_failed"} /\ run'[r].m = run[r].m
      BY <2>1, GoesOnMoves DEF RunnerSteps
    <2> QED
      BY <2>1, <2>2, <2>3, StatusKnown
  <1> QED
    BY <1>3, <1>4, <1>5, <1>6, <1>7, <1>8 DEF RunnerOn

LEMMA FreshStep ==
  TrialTypes /\ WorkIsKnown /\ SoleWorker /\ StatusIsFresh /\ [TrialNext]_trialVars =>
    StatusIsFresh'
  <1> SUFFICES ASSUME TrialTypes, WorkIsKnown, SoleWorker, StatusIsFresh,
                      [TrialNext]_trialVars
               PROVE  StatusIsFresh'
    OBVIOUS
  <1>0. overlapped \subseteq overlapped' /\ DOMAIN history \subseteq Ids
    BY SoleStep DEF TrialTypes
  \* Nobody else changes the history that a lone worker is about to extend.
  <1>1. ASSUME NEW q \in Runners, run[q].step \in Appending, run'[q] = run[q],
               run[q].m.id \notin overlapped'
        PROVE  history'[run[q].m.id] = history[run[q].m.id]
    <2> SUFFICES ASSUME history'[run[q].m.id] # history[run[q].m.id] PROVE FALSE
      OBVIOUS
    <2>1. run[q].m.id \in DOMAIN history /\ WorksOn(q, run[q].m.id)
      BY <1>1 DEF WorkIsKnown, Appending, WorksOn
    <2>2. \/ \E r \in Runners : r # q /\ WorksOn(r, run[q].m.id)
          \/ \E p \in Promoters : Promotes(p, run[q].m.id)
      BY <1>1, <2>1, HistoryChanged DEF WorksOn, Promotes, Appending
    <2> QED
      BY <1>0, <1>1, <2>1, <2>2 DEF SoleWorker
  <1>2. ASSUME NEW q \in Promoters, promotion[q].step = "append", promotion'[q] = promotion[q],
               promotion[q].m.id \notin overlapped'
        PROVE  history'[promotion[q].m.id] = history[promotion[q].m.id]
    <2> SUFFICES ASSUME history'[promotion[q].m.id] # history[promotion[q].m.id] PROVE FALSE
      OBVIOUS
    <2>1. promotion[q].m.id \in DOMAIN history /\ Promotes(q, promotion[q].m.id)
      BY <1>2 DEF WorkIsKnown, Promotes
    <2>2. \/ \E r \in Runners : WorksOn(r, promotion[q].m.id)
          \/ \E p \in Promoters : p # q /\ Promotes(p, promotion[q].m.id)
      BY <1>2, <2>1, HistoryChanged DEF WorksOn, Promotes, Appending
    <2> QED
      BY <1>0, <1>2, <2>1, <2>2 DEF SoleWorker
  <1>3. ASSUME NEW q \in Runners, run'[q].step \in Appending, run'[q].m.id \notin overlapped'
        PROVE  /\ run'[q].step = "append_running" => Last(history'[run'[q].m.id]) = "registered"
               /\ run'[q].step \in {"append_completed", "append_failed"} =>
                    Last(history'[run'[q].m.id]) = "running"
    <2>1. CASE run'[q] = run[q]
      BY <1>0, <1>1, <1>3, <2>1 DEF StatusIsFresh, status_of, Appending
    <2>2. CASE run'[q] # run[q]
      <3>1. RunnerOn(q)
        <4>1. ASSUME NEW r \in Runners, RunnerOn(r) PROVE r = q
          BY <2>2, <4>1, RunnerKeepsManifest DEF OthersStand
        <4>2. ASSUME NEW r \in Runners, NEW m \in Manifests, register_read(r, m) PROVE FALSE
          BY <1>3, <2>2, <4>2, RegisterReadMoves DEF OthersStand, Appending
        <4> QED
          BY <2>2, <4>1, <4>2 DEF TrialNext, RunnerOn, allocate_trial, record_authority,
             promote, promote_read, promote_append
      <3> QED
        BY <1>3, <3>1, AppendPrepared DEF status_of
    <2> QED
      BY <2>1, <2>2
  <1>4. ASSUME NEW q \in Promoters, promotion'[q].step = "append",
               promotion'[q].m.id \notin overlapped'
        PROVE  Last(history'[promotion'[q].m.id]) = "completed"
    <2>1. CASE promotion'[q] = promotion[q]
      BY <1>0, <1>2, <1>4, <2>1 DEF StatusIsFresh, status_of
    <2>2. CASE promotion'[q] # promotion[q]
      <3>1. PromoterNext(q)
        <4>1. ASSUME NEW p \in Promoters, PromoterNext(p) PROVE p = q
          BY <2>2, <4>1, PromoterMoves
        <4> QED
          BY <2>2, <4>1, RunnerOnKeeps DEF TrialNext, RunnerOn, PromoterNext, allocate_trial,
             record_authority, register_read
      <3> QED
        BY <1>4, <3>1, PromoterMoves DEF status_of
    <2> QED
      BY <2>1, <2>2
  <1> QED
    BY <1>3, <1>4 DEF StatusIsFresh, status_of, Appending

-----------------------------------------------------------------------------
LEMMA TrialInductive == TrialSpec => []TrialInv
  <1>1. TrialInit => TrialInv
    <2> SUFFICES ASSUME TrialInit PROVE TrialInv
      OBVIOUS
    <2>1. /\ NoRun \in RunState /\ NoRun.step = "idle"
          /\ NoPromotion \in PromotionState /\ NoPromotion.step = "idle"
      BY IdleRun DEF NoPromotion, PromotionState
    <2>2. TrialTypes /\ WorkIsKnown
      BY <2>1 DEF TrialInit, TrialTypes, WorkIsKnown
    <2>3. Paid
      BY TrialAssumption DEF TrialInit, Paid
    <2>4. Whole
      BY <2>1, FileNamesAssumption
      DEF TrialInit, Whole, CompletedIsWhole, BundleProgress, RunnerSteps
    <2>5. SoleWorker /\ StatusIsFresh
      BY <2>1 DEF TrialInit, SoleWorker, StatusIsFresh, WorksOn, Promotes
    <2> QED
      BY <2>2, <2>3, <2>4, <2>5 DEF TrialInv
  <1>2. TrialInv /\ [TrialNext]_trialVars => TrialInv'
    BY TrialTypeStep, PaidStep, WholeStep, SoleStep, FreshStep DEF TrialInv
  <1> QED
    BY <1>1, <1>2, PTL DEF TrialSpec

(* Whichever manifests race for an allocation, it pays for one experiment,  *)
(* and no experiment is registered that was not paid for (register's        *)
(* UPDATE ... WHERE experiment_id IS NULL, allocate_trial's budget).        *)
THEOREM AllocationsPayOnce == TrialSpec => []AllocationPaysOnce
  <1>1. TrialInv => AllocationPaysOnce
    BY DEF TrialInv, Paid, AllocationPaysOnce
  <1> QED
    BY <1>1, TrialInductive, PTL

(* In spite of crashes, failures and concurrent runs of one manifest, a     *)
(* trial that was ever completed has its whole bundle on disk and in the    *)
(* artifacts table (ExperimentRunner.run, ResultBundleWriter).              *)
THEOREM CompletedTrialsAreWhole == TrialSpec => []CompletedIsWhole
  <1>1. TrialInv => CompletedIsWhole
    BY DEF TrialInv, Whole
  <1> QED
    BY <1>1, TrialInductive, PTL

(* transition and promote check a status in one transaction and append in   *)
(* the next; unless two processes work on an experiment at once, what they  *)
(* append to is still what they checked, and the end of a trial is final.   *)
THEOREM TrialEndIsFinal == TrialSpec => EndIsFinal
  <1>1. TrialInv /\ [TrialNext]_trialVars =>
          [ \A e \in DOMAIN history \ overlapped' :
              history'[e] # history[e] =>
                /\ status_of(e) \notin {"failed", "promoted"}
                /\ status_of(e) = "completed" => Last(history'[e]) = "promoted" ]_trialVars
    <2> SUFFICES ASSUME TrialInv, [TrialNext]_trialVars,
                        NEW e \in DOMAIN history \ overlapped', history'[e] # history[e]
                 PROVE  /\ status_of(e) \notin {"failed", "promoted"}
                        /\ status_of(e) = "completed" => Last(history'[e]) = "promoted"
      OBVIOUS
    <2>1. TrialTypes /\ WorkIsKnown /\ StatusIsFresh /\ overlapped \subseteq overlapped'
      BY SoleStep DEF TrialInv
    <2>2. CASE \E r \in Runners : run[r].step \in Appending /\ run[r].m.id = e
      BY <2>1, <2>2 DEF StatusIsFresh, Appending
    <2>3. CASE \E p \in Promoters : /\ promotion[p].step = "append" /\ promotion[p].m.id = e
                                    /\ Last(history'[e]) = "promoted"
      BY <2>1, <2>3 DEF StatusIsFresh
    <2> QED
      BY <2>1, <2>2, <2>3, HistoryChanged
  <1> QED
    BY <1>1, TrialInductive, PTL DEF TrialSpec, EndIsFinal

-----------------------------------------------------------------------------
(* The evidence store: types.                                              *)

\* The record of a process has the fields the budgets depend on.
IsIngest(i) == "step" \in DOMAIN i /\ "d" \in DOMAIN i

EvidenceTypes ==
    /\ documents \subseteq Documents /\ IsFiniteSet(documents)
    /\ IsFiniteSet(DOMAIN attempts)
    /\ DOMAIN ingest = Ingesters
    /\ \A p \in Ingesters : IsIngest(ingest[p])
    /\ \A p \in Ingesters : ingest[p].step # "idle" => ingest[p].d \in Documents

\* The processes that passed the check of the daily budget and have not inserted yet.
admitted(day) == {p \in Ingesters : ingest[p].step = "insert" /\ ingest[p].d.day = day}

stored(day) == {d \in documents : d.day = day}

calls_of(id) == {a \in DOMAIN attempts : a[1] = id}

\* Each process is at most one document ahead of the check.
DayBudget ==
    \A day \in {d.day : d \in Documents} :
        Cardinality(stored(day)) + Cardinality(admitted(day))
            <= MaxDocuments + Cardinality(Ingesters) - 1

CallBudget == \A d \in Documents : Cardinality(calls_of(d.id)) <= MaxCalls

EvidenceInv == EvidenceTypes /\ DayBudget /\ CallBudget

\* The sets the budgets count are finite.
LEMMA Countable ==
  ASSUME EvidenceTypes
  PROVE  /\ \A day : IsFiniteSet(stored(day)) /\ Cardinality(stored(day)) \in Nat
         /\ \A day : /\ IsFiniteSet(admitted(day)) /\ Cardinality(admitted(day)) \in Nat
                     /\ Cardinality(admitted(day)) <= Cardinality(Ingesters)
         /\ \A id : IsFiniteSet(calls_of(id)) /\ Cardinality(calls_of(id)) \in Nat
         /\ Cardinality(Ingesters) \in Nat \ {0}
  <1>1. ASSUME NEW day
        PROVE  IsFiniteSet(stored(day)) /\ Cardinality(stored(day)) \in Nat
    <2>1. stored(day) \subseteq documents
      BY DEF stored
    <2> QED
      BY <2>1, FS_Subset, FS_CardinalityType DEF EvidenceTypes
  <1>2. ASSUME NEW day
        PROVE  /\ IsFiniteSet(admitted(day)) /\ Cardinality(admitted(day)) \in Nat
               /\ Cardinality(admitted(day)) <= Cardinality(Ingesters)
    <2>1. admitted(day) \subseteq Ingesters
      BY DEF admitted
    <2> QED
      BY <2>1, FS_Subset, FS_CardinalityType, IngestersAssumption
  <1>3. ASSUME NEW id
        PROVE  IsFiniteSet(calls_of(id)) /\ Cardinality(calls_of(id)) \in Nat
    <2>1. calls_of(id) \subseteq DOMAIN attempts
      BY DEF calls_of
    <2> QED
      BY <2>1, FS_Subset, FS_CardinalityType DEF EvidenceTypes
  <1>4. Cardinality(Ingesters) \in Nat \ {0}
    BY FS_CardinalityType, FS_EmptySet, IngestersAssumption
  <1> QED
    BY <1>1, <1>2, <1>3, <1>4

-----------------------------------------------------------------------------
(* The evidence store: what a step does to one process.                    *)

\* Process p alone moved, to a record with its fields and a known document.
OneMoved(p) ==
    /\ DOMAIN ingest' = Ingesters
    /\ \A q \in Ingesters \ {p} : ingest'[q] = ingest[q]
    /\ IsIngest(ingest'[p])
    /\ ingest'[p].step # "idle" => ingest'[p].d \in Documents

LEMMA IngestSet ==
  ASSUME EvidenceTypes, NEW p \in Ingesters, NEW new, ingest' = [ingest EXCEPT ![p] = new]
  PROVE  /\ DOMAIN ingest' = Ingesters /\ ingest'[p] = new
         /\ \A q \in Ingesters \ {p} : ingest'[q] = ingest[q]
  BY DEF EvidenceTypes

LEMMA NoIngestIdle == IsIngest(NoIngest) /\ NoIngest.step = "idle"
  BY DEF IsIngest, NoIngest

LEMMA Leaves ==
  ASSUME EvidenceTypes, NEW p \in Ingesters, leaves(p)
  PROVE  OneMoved(p) /\ ingest'[p].step = "idle"
  BY IngestSet, NoIngestIdle DEF leaves, OneMoved

LEMMA StepTo ==
  ASSUME EvidenceTypes, NEW p \in Ingesters, NEW step, step_to(p, step),
         ingest[p].d \in Documents
  PROVE  OneMoved(p) /\ ingest'[p].step = step
  <1> DEFINE i == ingest[p]
             new == [i EXCEPT !.step = step]
  <1>1. IsIngest(i)
    BY DEF EvidenceTypes
  <1>2. IsIngest(new) /\ new.step = step /\ new.d = i.d
    BY <1>1 DEF IsIngest
  <1>3. ingest' = [ingest EXCEPT ![p] = new]
    BY DEF step_to, EvidenceTypes
  <1> HIDE DEF new
  <1> QED
    BY <1>2, <1>3, IngestSet DEF OneMoved

\* A call is reserved, or its result comes back: other fields change with the step.
LEMMA Reserves ==
  ASSUME EvidenceTypes, NEW p \in Ingesters, NEW attempt, ingest[p].d \in Documents,
         ingest' = [ingest EXCEPT ![p].step = "extract", ![p].attempt = attempt]
  PROVE  OneMoved(p) /\ ingest'[p].step = "extract"
  <1> DEFINE i == ingest[p]
             new == [i EXCEPT !.step = "extract", !.attempt = attempt]
  <1>1. IsIngest(i)
    BY DEF EvidenceTypes
  <1>2. IsIngest(new) /\ new.step = "extract" /\ new.d = i.d
    BY <1>1 DEF IsIngest
  <1>3. ingest' = [ingest EXCEPT ![p] = new]
    BY DEF EvidenceTypes
  <1> HIDE DEF new
  <1> QED
    BY <1>2, <1>3, IngestSet DEF OneMoved

LEMMA Extracts ==
  ASSUME EvidenceTypes, NEW p \in Ingesters, NEW result, NEW found,
         ingest[p].d \in Documents,
         ingest' = [ingest EXCEPT ![p].step = "finalize", ![p].result = result,
                                  ![p].edges = found]
  PROVE  OneMoved(p) /\ ingest'[p].step = "finalize"
  <1> DEFINE i == ingest[p]
             new == [i EXCEPT !.step = "finalize", !.result = result, !.edges = found]
  <1>1. IsIngest(i)
    BY DEF EvidenceTypes
  <1>2. IsIngest(new) /\ new.step = "finalize" /\ new.d = i.d
    BY <1>1 DEF IsIngest
  <1>3. ingest' = [ingest EXCEPT ![p] = new]
    BY DEF EvidenceTypes
  <1> HIDE DEF new
  <1> QED
    BY <1>2, <1>3, IngestSet DEF OneMoved

\* One element more is at most one more to count.
LEMMA OneMore ==
  ASSUME NEW S, NEW x, IsFiniteSet(S)
  PROVE  /\ Cardinality(S \union {x}) \in Nat
         /\ Cardinality(S \union {x}) <= Cardinality(S) + 1
  <1>1. Cardinality(S) \in Nat
    BY FS_CardinalityType
  <1>2. Cardinality(S \union {x}) = IF x \in S THEN Cardinality(S) ELSE Cardinality(S) + 1
    BY FS_AddElement
  <1> QED
    BY <1>1, <1>2

-----------------------------------------------------------------------------
(* The evidence store: what a step does to the budgets.                    *)

\* A step that neither stores nor admits a document leaves the days within budget.
LEMMA KeepsDays ==
  ASSUME EvidenceTypes, DayBudget, NEW p \in Ingesters, OneMoved(p),
         ingest'[p].step # "insert", documents' = documents,
         IsFiniteSet(DOMAIN attempts')
  PROVE  EvidenceTypes' /\ DayBudget'
  <1>1. EvidenceTypes'
    BY DEF EvidenceTypes, OneMoved
  <1>2. ASSUME NEW day \in {d.day : d \in Documents}
        PROVE  Cardinality(stored(day))' + Cardinality(admitted(day))'
                 <= MaxDocuments + Cardinality(Ingesters) - 1
    <2>1. stored(day)' = stored(day)
      BY DEF stored
    <2>2. admitted(day)' \subseteq admitted(day)
      BY DEF admitted, OneMoved
    <2>3. Cardinality(admitted(day)') <= Cardinality(admitted(day))
      BY <2>2, Countable, FS_Subset
    <2>4. Cardinality(admitted(day)') \in Nat
      BY <2>2, Countable, FS_Subset, FS_CardinalityType
    <2>5. Cardinality(stored(day)) + Cardinality(admitted(day))
            <= MaxDocuments + Cardinality(Ingesters) - 1
      BY <1>2 DEF DayBudget
    <2> HIDE DEF admitted, stored
    <2> QED
      BY <2>1, <2>3, <2>4, <2>5, Countable, EvidenceAssumption
  <1> QED
    BY <1>1, <1>2 DEF DayBudget

LEMMA KeepsCalls ==
  ASSUME CallBudget, DOMAIN attempts' = DOMAIN attempts
  PROVE  CallBudget'
  BY DEF CallBudget, calls_of

\* The check admits a process only below the limit: it and the others still leave the sum
\* within one document per further process.
LEMMA ReadKeepsDays ==
  ASSUME EvidenceInv, NEW p \in Ingesters, NEW d \in Documents, put_document_read(p, d)
  PROVE  EvidenceInv'
  <1> DEFINE new == [NoIngest EXCEPT !.d = d, !.asOf = evidenceNow,
                       !.step = IF d \in documents THEN "cached" ELSE "insert"]
  <1>1. /\ IsIngest(new) /\ new.d = d
        /\ new.step = IF d \in documents THEN "cached" ELSE "insert"
    BY DEF IsIngest, NoIngest
  <1>2. ingest' = [ingest EXCEPT ![p] = new]
    BY DEF put_document_read
  <1> HIDE DEF new
  <1>3. /\ OneMoved(p) /\ ingest'[p].d = d
        /\ ingest'[p].step = IF d \in documents THEN "cached" ELSE "insert"
    BY <1>1, <1>2, IngestSet DEF OneMoved, EvidenceInv
  <1>4. UNCHANGED <<documents, attempts>>
    BY DEF put_document_read
  <1>5. CallBudget' /\ EvidenceTypes'
    BY <1>3, <1>4, KeepsCalls DEF EvidenceInv, EvidenceTypes, OneMoved
  <1>6. DayBudget'
    <2>1. CASE d \in documents
      BY <2>1, <1>3, <1>4, KeepsDays DEF EvidenceInv, EvidenceTypes
    <2>2. CASE d \notin documents
      <3>1. SUFFICES ASSUME NEW day \in {e.day : e \in Documents}
                     PROVE  Cardinality(stored(day))' + Cardinality(admitted(day))'
                              <= MaxDocuments + Cardinality(Ingesters) - 1
        BY DEF DayBudget
      <3>2. stored(day)' = stored(day)
        BY <1>4 DEF stored
      <3>3. CASE day = d.day
        <4>1. ~(Cardinality(stored(day)) >= MaxDocuments)
          BY <2>2, <3>3 DEF put_document_read, day_full, stored
        <4>2. Cardinality(admitted(day)') <= Cardinality(Ingesters)
          BY <1>5, FS_Subset, IngestersAssumption DEF admitted
        <4>3. Cardinality(admitted(day)') \in Nat
          BY FS_Subset, FS_CardinalityType, IngestersAssumption DEF admitted
        <4> HIDE DEF admitted, stored
        <4> QED
          BY <3>2, <4>1, <4>2, <4>3, Countable, EvidenceAssumption DEF EvidenceInv
      <3>4. CASE day # d.day
        <4>1. admitted(day)' \subseteq admitted(day)
          BY <1>3, <3>4 DEF admitted, OneMoved
        <4>2. Cardinality(admitted(day)') <= Cardinality(admitted(day))
          BY <4>1, Countable, FS_Subset DEF EvidenceInv
        <4>3. Cardinality(admitted(day)') \in Nat
          BY <4>1, Countable, FS_Subset, FS_CardinalityType DEF EvidenceInv
        <4>4. Cardinality(stored(day)) + Cardinality(admitted(day))
                <= MaxDocuments + Cardinality(Ingesters) - 1
          BY <3>1 DEF DayBudget, EvidenceInv
        <4> HIDE DEF admitted, stored
        <4> QED
          BY <3>2, <4>2, <4>3, <4>4, Countable, EvidenceAssumption DEF EvidenceInv
      <3> QED
        BY <3>3, <3>4
    <2> QED
      BY <2>1, <2>2
  <1> QED
    BY <1>5, <1>6 DEF EvidenceInv

\* An insert turns one admitted process into at most one stored document.
LEMMA InsertKeepsDays ==
  ASSUME EvidenceInv, NEW p \in Ingesters, put_document_insert(p)
  PROVE  EvidenceInv'
  <1> DEFINE d == ingest[p].d
  <1>1. d \in Documents /\ ingest[p].step = "insert"
    BY DEF put_document_insert, EvidenceInv, EvidenceTypes
  <1>2. OneMoved(p) /\ ingest'[p].step # "insert"
    BY <1>1, Leaves, StepTo DEF put_document_insert, EvidenceInv
  <1>3. documents' = documents \union {d} /\ attempts' = attempts
    BY DEF put_document_insert
  <1>4. CallBudget'
    BY <1>3, KeepsCalls DEF EvidenceInv
  <1>5. IsFiniteSet(documents')
    BY <1>3, FS_AddElement DEF EvidenceInv, EvidenceTypes
  <1>6. EvidenceTypes'
    BY <1>1, <1>2, <1>3, <1>5 DEF EvidenceInv, EvidenceTypes, OneMoved
  <1>7. ASSUME NEW day \in {e.day : e \in Documents}
        PROVE  Cardinality(stored(day))' + Cardinality(admitted(day))'
                 <= MaxDocuments + Cardinality(Ingesters) - 1
    <2>1. Cardinality(stored(day)) + Cardinality(admitted(day))
            <= MaxDocuments + Cardinality(Ingesters) - 1
      BY <1>7 DEF DayBudget, EvidenceInv
    <2>2. CASE day = d.day
      <3>1. p \in admitted(day) /\ admitted(day)' = admitted(day) \ {p}
        BY <1>1, <1>2, <2>2 DEF admitted, OneMoved
      <3>2. Cardinality(admitted(day)') = Cardinality(admitted(day)) - 1
        BY <3>1, Countable, FS_RemoveElement DEF EvidenceInv
      <3>3. stored(day)' = stored(day) \union {d}
        BY <1>3, <2>2 DEF stored
      <3>4. /\ Cardinality(stored(day)') \in Nat
            /\ Cardinality(stored(day)') <= Cardinality(stored(day)) + 1
        BY <3>3, Countable, OneMore DEF EvidenceInv
      <3> HIDE DEF admitted, stored
      <3> QED
        BY <2>1, <3>2, <3>4, Countable, EvidenceAssumption DEF EvidenceInv
    <2>3. CASE day # d.day
      <3>1. stored(day)' = stored(day) /\ admitted(day)' = admitted(day)
        BY <1>1, <1>2, <1>3, <2>3 DEF stored, admitted, OneMoved
      <3> QED
        BY <2>1, <3>1
    <2> QED
      BY <2>2, <2>3
  <1> QED
    BY <1>4, <1>6, <1>7 DEF EvidenceInv, DayBudget

\* The check and the reservation are one transaction: a call is added only below the limit.
LEMMA ReserveKeepsCalls ==
  ASSUME EvidenceInv, NEW p \in Ingesters, reserve_call(p)
  PROVE  EvidenceInv'
  <1> DEFINE d == ingest[p].d
             attempt == <<d.id, Cardinality({a \in DOMAIN attempts : a[1] = d.id}) + 1>>
  <1>1. d \in Documents
    BY DEF reserve_call, EvidenceInv, EvidenceTypes
  <1>2. documents' = documents
    BY DEF reserve_call
  <1>3. CASE calls(d) >= MaxCalls
    <2>1. OneMoved(p) /\ ingest'[p].step # "insert" /\ attempts' = attempts
      BY <1>3, Leaves DEF reserve_call, EvidenceInv
    <2> QED
      BY <1>2, <2>1, KeepsDays, KeepsCalls DEF EvidenceInv, EvidenceTypes
  <1>4. CASE ~(calls(d) >= MaxCalls)
    <2>1. /\ attempts' = put(attempts, attempt, "started")
          /\ ingest' = [ingest EXCEPT ![p].step = "extract", ![p].attempt = attempt]
      BY <1>4 DEF reserve_call
    <2>2. OneMoved(p) /\ ingest'[p].step # "insert"
      BY <1>1, <2>1, Reserves DEF EvidenceInv
    <2>3. DOMAIN attempts' = DOMAIN attempts \union {attempt} /\ attempt[1] = d.id
      BY <2>1 DEF put
    <2> HIDE DEF attempt
    <2>4. IsFiniteSet(DOMAIN attempts')
      BY <2>3, FS_AddElement DEF EvidenceInv, EvidenceTypes
    <2>5. ASSUME NEW e \in Documents PROVE Cardinality(calls_of(e.id))' <= MaxCalls
      <3>1. CASE e.id = d.id
        <4>1. calls_of(e.id)' = calls_of(e.id) \union {attempt}
          BY <2>3, <3>1 DEF calls_of
        <4>2. /\ Cardinality(calls_of(e.id)') \in Nat
              /\ Cardinality(calls_of(e.id)') <= Cardinality(calls_of(e.id)) + 1
          BY <4>1, Countable, OneMore DEF EvidenceInv
        <4>3. ~(Cardinality(calls_of(e.id)) >= MaxCalls)
          BY <1>4, <3>1 DEF calls, calls_of
        <4> HIDE DEF calls_of
        <4> QED
          BY <4>2, <4>3, Countable, EvidenceAssumption DEF EvidenceInv
      <3>2. CASE e.id # d.id
        <4>1. calls_of(e.id)' = calls_of(e.id)
          BY <2>3, <3>2 DEF calls_of
        <4> QED
          BY <4>1 DEF EvidenceInv, CallBudget
      <3> QED
        BY <3>1, <3>2
    <2> QED
      BY <1>2, <2>2, <2>4, <2>5, KeepsDays DEF EvidenceInv, CallBudget
  <1> QED
    BY <1>3, <1>4

LEMMA EvidenceStart == EvidenceInit => EvidenceInv
  <1> SUFFICES ASSUME EvidenceInit PROVE EvidenceInv
    OBVIOUS
  <1>1. DOMAIN attempts = {} /\ documents = {}
    BY DEF EvidenceInit
  <1>2. EvidenceTypes
    BY <1>1, NoIngestIdle, FS_EmptySet DEF EvidenceTypes, EvidenceInit
  <1>3. DayBudget
    <2> SUFFICES ASSUME NEW day \in {d.day : d \in Documents}
                 PROVE  Cardinality(stored(day)) + Cardinality(admitted(day))
                          <= MaxDocuments + Cardinality(Ingesters) - 1
      BY DEF DayBudget
    <2>1. stored(day) = {} /\ admitted(day) = {}
      BY <1>1, NoIngestIdle DEF EvidenceInit, stored, admitted
    <2> QED
      BY <2>1, <1>2, Countable, FS_EmptySet, EvidenceAssumption
  <1>4. CallBudget
    <2> SUFFICES ASSUME NEW d \in Documents PROVE Cardinality(calls_of(d.id)) <= MaxCalls
      BY DEF CallBudget
    <2>1. calls_of(d.id) = {}
      BY <1>1 DEF calls_of
    <2> QED
      BY <2>1, FS_EmptySet, EvidenceAssumption
  <1> QED
    BY <1>2, <1>3, <1>4 DEF EvidenceInv

LEMMA EvidenceStep == EvidenceInv /\ [EvidenceNext]_evidenceVars => EvidenceInv'
  <1> SUFFICES ASSUME EvidenceInv, [EvidenceNext]_evidenceVars PROVE EvidenceInv'
    OBVIOUS
  <1> USE DEF EvidenceInv
  <1>1. CASE UNCHANGED evidenceVars \/ advance_clock
    BY <1>1 DEF advance_clock, EvidenceTypes, DayBudget, CallBudget, stored, admitted,
         calls_of
  <1>2. ASSUME NEW p \in Ingesters, NEW d \in Documents, put_document_read(p, d)
        PROVE  EvidenceInv'
    BY <1>2, ReadKeepsDays
  <1>3. ASSUME NEW p \in Ingesters, put_document_insert(p) PROVE EvidenceInv'
    BY <1>3, InsertKeepsDays
  <1>4. ASSUME NEW p \in Ingesters, reserve_call(p) PROVE EvidenceInv'
    BY <1>4, ReserveKeepsCalls
  <1>5. ASSUME NEW p \in Ingesters, OneMoved(p), ingest'[p].step # "insert",
               documents' = documents, DOMAIN attempts' = DOMAIN attempts
        PROVE  EvidenceInv'
    BY <1>5, KeepsDays, KeepsCalls DEF EvidenceTypes
  <1>6. ASSUME NEW p \in Ingesters, cached(p) PROVE EvidenceInv'
    BY <1>5, <1>6, Leaves, StepTo DEF cached, EvidenceTypes
  <1>7. ASSUME NEW p \in Ingesters, extract(p) PROVE EvidenceInv'
    <2>1. ingest[p].d \in Documents
      BY <1>7 DEF extract, EvidenceTypes
    <2>2. OneMoved(p) /\ ingest'[p].step # "insert"
      <3>1. CASE step_to(p, "fail")
        BY <2>1, <3>1, StepTo
      <3>2. CASE \E result \in ingest[p].d.results :
                   ingest' = [ingest EXCEPT ![p].step = "finalize", ![p].result = result,
                     ![p].edges = contradictions(compared(ingest[p].asOf, result))]
        <4>1. PICK result \in ingest[p].d.results :
                ingest' = [ingest EXCEPT ![p].step = "finalize", ![p].result = result,
                  ![p].edges = contradictions(compared(ingest[p].asOf, result))]
          BY <3>2
        <4> DEFINE found == contradictions(compared(ingest[p].asOf, result))
        <4>2. ingest' = [ingest EXCEPT ![p].step = "finalize", ![p].result = result,
                           ![p].edges = found]
          BY <4>1
        <4> HIDE DEF found
        <4> QED
          BY <2>1, <4>2, Extracts
      <3> QED
        BY <1>7, <3>1, <3>2 DEF extract
    <2> QED
      BY <1>5, <1>7, <2>2 DEF extract
  <1>8. ASSUME NEW p \in Ingesters, finalize_extraction(p) PROVE EvidenceInv'
    BY <1>5, <1>8, Leaves DEF finalize_extraction
  <1>9. ASSUME NEW p \in Ingesters, complete_call(p) PROVE EvidenceInv'
    BY <1>5, <1>9, Leaves DEF complete_call
  <1>10. ASSUME NEW p \in Ingesters, crash_ingest(p) PROVE EvidenceInv'
    BY <1>5, <1>10, Leaves DEF crash_ingest
  <1> QED
    BY <1>1, <1>2, <1>3, <1>4, <1>6, <1>7, <1>8, <1>9, <1>10 DEF EvidenceNext

\* However many processes ingest, fail and crash at once, no document is sent to the model
\* more often than max_calls_per_event, and the daily document budget is passed by at most
\* one document per further process.
THEOREM EvidenceWithinBudgets == EvidenceSpec => []BudgetsHold
  <1>1. EvidenceInv => BudgetsHold
    <2> SUFFICES ASSUME EvidenceInv PROVE BudgetsHold
      OBVIOUS
    <2>1. ASSUME NEW d \in Documents
          PROVE  Cardinality({a \in DOMAIN attempts : a[1] = d.id}) <= MaxCalls
      BY DEF EvidenceInv, CallBudget, calls_of
    <2>2. ASSUME NEW day \in {d.day : d \in Documents}
          PROVE  Cardinality({d \in documents : d.day = day})
                   <= MaxDocuments + Cardinality(Ingesters) - 1
      <3>1. Cardinality(stored(day)) + Cardinality(admitted(day))
              <= MaxDocuments + Cardinality(Ingesters) - 1
        BY <2>2 DEF EvidenceInv, DayBudget
      <3>2. Cardinality(stored(day)) <= MaxDocuments + Cardinality(Ingesters) - 1
        <4> HIDE DEF stored, admitted
        <4> QED
          BY <3>1, Countable, EvidenceAssumption DEF EvidenceInv
      <3> QED
        BY <3>2 DEF stored
    <2> QED
      BY <2>1, <2>2 DEF BudgetsHold
  <1> QED
    BY <1>1, EvidenceStart, EvidenceStep, PTL DEF EvidenceSpec
-----------------------------------------------------------------------------
(* The evidence store: the claims compared.                                *)

\* The claims the extractor may give.
Claims == UNION {Range(s) : s \in UNION {d.results : d \in Documents}}

LEMMA ClaimKnown ==
  ASSUME NEW d \in Documents, NEW s \in d.results
  PROVE  /\ Range(s) \subseteq Claims
         /\ \A c \in Range(s) : c.at = d.at
         /\ IsFiniteSet(Range(s))
  <1>1. Range(s) \subseteq Claims
    BY DEF Claims
  <1>2. \A c \in Range(s) : c.at = d.at
    BY ClaimsAssumption DEF Range
  <1>3. DOMAIN s = 1..Len(s) /\ Len(s) \in Nat
    BY ClaimsAssumption
  <1>4. IsFiniteSet(DOMAIN s)
    BY <1>3, FS_Interval
  <1>5. s \in Surjection(DOMAIN s, Range(s))
    BY <1>3, ClaimsAssumption DEF Surjection, Range
  <1>6. IsFiniteSet(Range(s))
    BY <1>4, <1>5, FS_Surjection
  <1> QED
    BY <1>1, <1>2, <1>6

\* An id is the hash of the claim.
LEMMA IdsDiffer ==
  ASSUME NEW a \in Claims, NEW b \in Claims
  PROVE  /\ a.id \in Int /\ a.at \in Int /\ a.expires \in Int
         /\ a.id = b.id => a = b
  <1>1. PICK d \in Documents : \E s \in d.results : \E m \in DOMAIN s : a = s[m]
    BY DEF Claims, Range
  <1>2. PICK e \in Documents : \E t \in e.results : \E n \in DOMAIN t : b = t[n]
    BY DEF Claims, Range
  <1> QED
    BY <1>1, <1>2, ClaimsAssumption

\* Among claims there is one with the largest id.
LEMMA LastClaim ==
  ASSUME NEW S \in SUBSET Claims, IsFiniteSet(S), S # {}
  PROVE  \E c \in S : \A b \in S \ {c} : b.id < c.id
  <1> DEFINE Above(c) == {b \in S : c.id <= b.id}
             Bad == {Above(c) : c \in S}
  <1>1. Bad \in SUBSET SUBSET S /\ Bad # {}
    OBVIOUS
  <1>2. PICK u \in Bad : \A t \in SUBSET u : t # u => t \notin Bad
    BY <1>1, SmallestSubset
  <1>3. PICK c \in S : u = Above(c)
    BY <1>2
  <1>4. ASSUME NEW b \in S \ {c} PROVE b.id < c.id
    <2>1. SUFFICES ASSUME ~(b.id < c.id) PROVE FALSE
      OBVIOUS
    <2>2. b.id \in Int /\ c.id \in Int /\ b.id # c.id
      BY <1>3, <1>4, IdsDiffer
    <2>3. c.id < b.id
      BY <2>1, <2>2
    <2>4. \A x \in S : x.id \in Int
      BY IdsDiffer
    <2>5. Above(b) \subseteq Above(c) /\ c \notin Above(b) /\ c \in Above(c)
      BY <2>2, <2>3, <2>4, <1>3
    <2>6. Above(b) \in Bad
      BY <1>4
    <2> HIDE DEF Above, Bad
    <2> QED
      BY <1>2, <1>3, <2>5, <2>6
  <1> QED
    BY <1>3, <1>4

\* A sequence with each of the claims once, in the order of their ids.
InOrder(s, S) ==
    /\ s \in SetToSeqs(S)
    /\ \A m, n \in DOMAIN s : m < n => s[m].id < s[n].id

\* Any finite set of claims has one: a smallest set without would have one when its last
\* claim is appended to the sequence of the others.
LEMMA OrderExists ==
  ASSUME NEW S \in SUBSET Claims, IsFiniteSet(S)
  PROVE  \E s : InOrder(s, S)
  <1> DEFINE Bad == {T \in SUBSET S : ~\E s : InOrder(s, T)}
  <1>1. SUFFICES ASSUME Bad # {} PROVE FALSE
    OBVIOUS
  <1>2. Bad \in SUBSET SUBSET S
    OBVIOUS
  <1>2a. \A T \in Bad : T \in SUBSET S /\ ~\E s : InOrder(s, T)
    OBVIOUS
  <1>2b. \A T \in SUBSET S : T \notin Bad => \E s : InOrder(s, T)
    OBVIOUS
  <1> HIDE DEF Bad
  <1>3. PICK T \in Bad : \A U \in SUBSET T : U # T => U \notin Bad
    BY <1>1, <1>2, SmallestSubset
  <1>4. T \in SUBSET Claims /\ T \in SUBSET S /\ ~\E s : InOrder(s, T)
    BY <1>2a, <1>3
  <1>5. IsFiniteSet(T) /\ Cardinality(T) \in Nat
    BY <1>4, FS_Subset, FS_CardinalityType
  <1>6. T # {}
    <2>1. SUFFICES ASSUME T = {} PROVE FALSE
      OBVIOUS
    <2>2. Cardinality(T) = 0 /\ 1..0 = {}
      BY <2>1, FS_EmptySet
    <2> DEFINE e == [n \in 1..0 |-> 0]
    <2>3. e \in [1..0 -> T] /\ DOMAIN e = {}
      BY <2>2
    <2>4. e \in SetToSeqs(T)
      BY <2>2, <2>3 DEF SetToSeqs
    <2> HIDE DEF e
    <2>5. InOrder(e, T)
      BY <2>3, <2>4 DEF InOrder
    <2> QED
      BY <2>5, <1>4
  <1>7. PICK c \in T : \A b \in T \ {c} : b.id < c.id
    BY <1>4, <1>5, <1>6, LastClaim
  <1> DEFINE U == T \ {c}
             k == Cardinality(U)
  <1>8. U \in SUBSET T /\ U # T /\ U \in SUBSET S
    BY <1>4, <1>7
  <1>9. PICK s : InOrder(s, U)
    BY <1>2b, <1>3, <1>8
  <1>10. IsFiniteSet(U) /\ k \in Nat /\ Cardinality(T) = k + 1
    <2>1. IsFiniteSet(U) /\ k = Cardinality(T) - 1
      BY <1>5, <1>7, FS_RemoveElement
    <2>2. k \in Nat
      BY <2>1, FS_CardinalityType
    <2> HIDE DEF k, U
    <2> QED
      BY <1>5, <2>1, <2>2
  <1>11. /\ s \in [1..k -> U]
         /\ \A i, j \in 1..k : i # j => s[i] # s[j]
         /\ \A i, j \in 1..k : i < j => s[i].id < s[j].id
    BY <1>9 DEF InOrder, SetToSeqs
  <1> HIDE DEF U, k
  <1> DEFINE t == [n \in 1..(k + 1) |-> IF n = k + 1 THEN c ELSE s[n]]
  <1>12. \A n \in 1..k : n # k + 1 /\ n \in 1..(k + 1) /\ n < k + 1
    BY <1>10
  <1>13. \A n \in 1..(k + 1) : n = k + 1 \/ n \in 1..k
    BY <1>10
  <1>14. \A b \in U : b # c /\ b \in T /\ b.id < c.id
    BY <1>7 DEF U
  <1>15. t \in [1..(k + 1) -> T]
    BY <1>7, <1>11, <1>13, <1>14
  <1>16. \A i, j \in 1..(k + 1) : i # j => t[i] # t[j]
    <2>1. ASSUME NEW i \in 1..(k + 1), NEW j \in 1..(k + 1), i # j PROVE t[i] # t[j]
      <3>1. CASE i \in 1..k /\ j \in 1..k
        BY <2>1, <3>1, <1>11, <1>12
      <3>2. CASE i = k + 1 \/ j = k + 1
        BY <2>1, <3>2, <1>11, <1>12, <1>13, <1>14
      <3> QED
        BY <3>1, <3>2, <1>13
    <2> QED
      BY <2>1
  <1>17. \A i, j \in 1..(k + 1) : i < j => t[i].id < t[j].id
    <2>1. ASSUME NEW i \in 1..(k + 1), NEW j \in 1..(k + 1), i < j PROVE t[i].id < t[j].id
      <3>1. i \in 1..k
        BY <2>1, <1>10
      <3>2. CASE j \in 1..k
        BY <2>1, <3>1, <3>2, <1>11, <1>12
      <3>3. CASE j = k + 1
        BY <3>1, <3>3, <1>11, <1>12, <1>14
      <3> QED
        BY <3>2, <3>3, <1>13
    <2> QED
      BY <2>1
  <1>18. DOMAIN t = 1..(k + 1)
    OBVIOUS
  <1> HIDE DEF t
  <1>19. InOrder(t, T)
    BY <1>10, <1>15, <1>16, <1>17, <1>18 DEF InOrder, SetToSeqs
  <1> QED
    BY <1>4, <1>19

\* A sequence with n members none of which repeats, of a set with n members, has them all.
LEMMA SequenceHasAll ==
  ASSUME NEW S, IsFiniteSet(S), NEW s \in SetToSeqs(S)
  PROVE  /\ s \in [1..Cardinality(S) -> S] /\ Cardinality(S) \in Nat
         /\ Range(s) = S
  <1> DEFINE D == 1..Cardinality(S)
  <1>1. s \in [D -> S] /\ \A i, j \in D : i # j => s[i] # s[j]
    BY DEF SetToSeqs
  <1>2. Cardinality(S) \in Nat
    BY FS_CardinalityType
  <1>3. IsFiniteSet(D) /\ Cardinality(D) = Cardinality(S)
    BY <1>2, FS_Interval
  <1> HIDE DEF D
  <1>4. s \in Injection(D, S)
    BY <1>1 DEF Injection, IsInjective
  <1>5. s \in Surjection(D, S)
    BY <1>3, <1>4, FS_Injection
  <1>6. Range(s) = S
    BY <1>1, <1>5 DEF Surjection, Range
  <1> QED
    BY <1>1, <1>2, <1>6 DEF D

\* Everything visible and everything new is compared.
LEMMA AllCompared ==
  ASSUME claims \subseteq Claims, IsFiniteSet(claims), NEW t,
         NEW d \in Documents, NEW result \in d.results
  PROVE  /\ \E n \in Nat : compared(t, result) = [m \in 1..n |-> compared(t, result)[m]]
         /\ Len(compared(t, result)) \in Nat
         /\ \A c \in claims_as_of(t) \union Range(result) :
              \E m \in 1..Len(compared(t, result)) : compared(t, result)[m] = c
  <1> DEFINE S == claims_as_of(t)
             s == by_id(S)
             k == Cardinality(S)
             n == Len(result)
  <1>1. S \subseteq claims
    BY DEF claims_as_of
  <1>2. S \in SUBSET Claims /\ IsFiniteSet(S)
    BY <1>1, FS_Subset
  <1> HIDE DEF S
  <1>3. InOrder(s, S)
    BY <1>2, OrderExists DEF by_id, InOrder
  <1>4. s \in SetToSeqs(S)
    BY <1>3 DEF InOrder
  <1> HIDE DEF s
  <1>5. s \in [1..k -> S] /\ k \in Nat /\ Range(s) = S
    BY <1>2, <1>4, SequenceHasAll
  <1>6. n \in Nat /\ result = [m \in 1..n |-> result[m]]
    BY ClaimsAssumption
  <1> HIDE DEF k, n
  <1>7. s \in Seq(S)
    BY <1>5
  <1>8. Len(s) = k
    BY <1>5
  <1>9. result \in Seq(Range(result))
    BY <1>6 DEF Range
  <1>10. Len(result) = n
    BY DEF n
  <1> DEFINE q == s \o result
  <1>11. /\ q \in Seq(S \union Range(result)) /\ Len(q) = k + n
         /\ \A m \in 1..k : q[m] = s[m]
         /\ \A m \in 1..n : q[k + m] = result[m]
    <2>1. s \in Seq(S \union Range(result)) /\ result \in Seq(S \union Range(result))
      BY <1>7, <1>9
    <2>2. q \in Seq(S \union Range(result)) /\ Len(q) = k + n
      BY <2>1, <1>8, <1>10
    <2>3. ASSUME NEW m \in 1..k PROVE q[m] = s[m]
      BY <2>1, <1>5, <1>6, <1>8, <1>10
    <2>4. ASSUME NEW m \in 1..n PROVE q[k + m] = result[m]
      BY <2>1, <1>5, <1>6, <1>8, <1>10
    <2> QED
      BY <2>2, <2>3, <2>4
  <1> HIDE DEF q
  <1>12. Len(q) \in Nat /\ q = [m \in 1..Len(q) |-> q[m]]
    BY <1>11
  <1>13. ASSUME NEW c \in S \union Range(result) PROVE \E m \in 1..Len(q) : q[m] = c
    <2>1. CASE c \in S
      <3>1. PICK m \in 1..k : s[m] = c
        BY <2>1, <1>5 DEF Range
      <3>2. m \in 1..Len(q)
        BY <3>1, <1>5, <1>6, <1>11
      <3> QED
        BY <3>1, <3>2, <1>11
    <2>2. CASE c \in Range(result)
      <3>1. PICK m \in 1..n : result[m] = c
        BY <2>2, <1>6 DEF Range
      <3>2. k + m \in 1..Len(q)
        BY <3>1, <1>5, <1>6, <1>11
      <3> QED
        BY <3>1, <3>2, <1>11
    <2> QED
      BY <2>1, <2>2
  <1>14. compared(t, result) = q
    BY DEF compared, q, s, S
  <1> QED
    BY <1>12, <1>13, <1>14 DEF S

\* Two different members of a sequence, opposed, have an edge.
LEMMA EdgeFound ==
  ASSUME NEW s, Len(s) \in Nat, NEW m \in 1..Len(s), NEW n \in 1..Len(s), opposite(s[m], s[n])
  PROVE  {s[m].id, s[n].id} \in DOMAIN contradictions(s)
  <1> DEFINE pairs == {x \in (1..Len(s)) \X (1..Len(s)) :
                         x[1] < x[2] /\ opposite(s[x[1]], s[x[2]])}
  <1>1. DOMAIN contradictions(s) = {{s[x[1]].id, s[x[2]].id} : x \in pairs}
    BY DEF contradictions
  <1>2. m # n /\ opposite(s[n], s[m])
    BY DEF opposite
  <1>3. CASE m < n
    <2>1. <<m, n>> \in pairs
      BY <1>3
    <2> QED
      BY <1>1, <2>1
  <1>4. CASE n < m
    <2>1. <<n, m>> \in pairs
      BY <1>2, <1>4
    <2>2. {s[n].id, s[m].id} \in DOMAIN contradictions(s)
      BY <1>1, <2>1
    <2> QED
      BY <2>2
  <1> QED
    BY <1>2, <1>3, <1>4

-----------------------------------------------------------------------------
(* The evidence store: what has been compared with what.                   *)

IngestFields == {"step", "d", "asOf", "attempt", "result", "edges"}

\* Stored claims are in the past; a process under way has read the clock since its document
\* appeared.
ClaimTypes ==
    /\ evidenceNow \in Int
    /\ claims \subseteq Claims /\ IsFiniteSet(claims)
    /\ \A c \in claims : c.at <= evidenceNow
    /\ \A p \in Ingesters :
         /\ DOMAIN ingest[p] = IngestFields
         /\ ingest[p].step # "idle" =>
              /\ ingest[p].asOf \in Int /\ ingest[p].asOf <= evidenceNow
              /\ ingest[p].d.at <= ingest[p].asOf
         /\ ingest[p].step = "finalize" => ingest[p].result \in ingest[p].d.results

\* What is stored had appeared when a process under way read the clock.
StoredBefore ==
    \A p \in Ingesters : ingest[p].step # "idle" => \A c \in claims : c.at <= ingest[p].asOf

\* Who is about to store claims has the edges between them and the visible ones.
EdgesInHand ==
    \A p \in Ingesters : ingest[p].step = "finalize" =>
        \A a, b \in claims_as_of(ingest[p].asOf) \union Range(ingest[p].result) :
            opposite(a, b) => {a.id, b.id} \in DOMAIN ingest[p].edges

\* Opposing claims that have not expired have an edge.
EdgesStored ==
    \A a, b \in claims :
        opposite(a, b) /\ evidenceNow < a.expires /\ evidenceNow < b.expires
            => {a.id, b.id} \in DOMAIN edges

VisibleInv ==
    /\ EvidenceInv
    /\ ClaimTypes
    /\ interfered \/ (StoredBefore /\ EdgesInHand /\ EdgesStored)

\* The others are where they were; nothing is stored.
OthersWait(p) ==
    /\ DOMAIN ingest' = Ingesters
    /\ \A q \in Ingesters \ {p} : ingest'[q] = ingest[q]
    /\ DOMAIN ingest'[p] = IngestFields
    /\ UNCHANGED <<evidenceNow, claims, edges, interfered>>

\* A step towards the extraction, or after it: the process keeps its document and clock, or
\* ends.
LEMMA PassesBy ==
  ASSUME VisibleInv, EvidenceInv', NEW p \in Ingesters, OthersWait(p),
         ingest'[p].step # "finalize",
         ingest'[p].step # "idle" =>
             /\ ingest[p].step # "idle"
             /\ ingest'[p].asOf = ingest[p].asOf /\ ingest'[p].d = ingest[p].d
  PROVE  VisibleInv'
  <1>1. ClaimTypes'
    BY DEF VisibleInv, ClaimTypes, OthersWait
  <1>2. StoredBefore => StoredBefore'
    BY DEF StoredBefore, OthersWait
  <1>3. EdgesInHand => EdgesInHand'
    BY DEF EdgesInHand, OthersWait, claims_as_of
  <1>4. EdgesStored => EdgesStored'
    BY DEF EdgesStored, OthersWait
  <1>5. interfered' = interfered
    BY DEF OthersWait
  <1> QED
    BY <1>1, <1>2, <1>3, <1>4, <1>5 DEF VisibleInv

\* The record of a process as each kind of step leaves it.
LEMMA RecordSet ==
  ASSUME VisibleInv, NEW p \in Ingesters, NEW new, DOMAIN new = IngestFields,
         ingest' = [ingest EXCEPT ![p] = new],
         UNCHANGED <<evidenceNow, claims, edges, interfered>>
  PROVE  OthersWait(p) /\ ingest'[p] = new
  BY DEF VisibleInv, EvidenceInv, EvidenceTypes, OthersWait

LEMMA NoIngestFields == DOMAIN NoIngest = IngestFields /\ NoIngest.step = "idle"
  BY DEF NoIngest, IngestFields

LEMMA LeavesVisible ==
  ASSUME VisibleInv, EvidenceInv', NEW p \in Ingesters, leaves(p),
         UNCHANGED <<evidenceNow, claims, edges, interfered>>
  PROVE  VisibleInv'
  <1>1. OthersWait(p) /\ ingest'[p].step = "idle"
    BY NoIngestFields, RecordSet DEF leaves
  <1> QED
    BY <1>1, PassesBy

LEMMA StepVisible ==
  ASSUME VisibleInv, EvidenceInv', NEW p \in Ingesters, NEW step, step_to(p, step),
         step # "finalize", ingest[p].step # "idle",
         UNCHANGED <<evidenceNow, claims, edges, interfered>>
  PROVE  VisibleInv'
  <1> DEFINE i == ingest[p]
             new == [i EXCEPT !.step = step]
  <1>1. DOMAIN i = IngestFields
    BY DEF VisibleInv, ClaimTypes
  <1>2. DOMAIN new = IngestFields /\ new.step = step /\ new.asOf = i.asOf /\ new.d = i.d
    BY <1>1 DEF IngestFields
  <1>3. ingest' = [ingest EXCEPT ![p] = new]
    BY DEF step_to, VisibleInv, EvidenceInv, EvidenceTypes
  <1> HIDE DEF new
  <1>4. OthersWait(p) /\ ingest'[p] = new
    BY <1>2, <1>3, RecordSet
  <1> QED
    BY <1>2, <1>4, PassesBy

LEMMA ReserveVisible ==
  ASSUME VisibleInv, EvidenceInv', NEW p \in Ingesters, reserve_call(p)
  PROVE  VisibleInv'
  <1>1. UNCHANGED <<evidenceNow, claims, edges, interfered>> /\ ingest[p].step = "reserve"
    BY DEF reserve_call
  <1>2. CASE leaves(p)
    BY <1>1, <1>2, LeavesVisible
  <1>3. CASE ~leaves(p)
    <2>1. PICK attempt : ingest' = [ingest EXCEPT ![p].step = "extract", ![p].attempt = attempt]
      BY <1>3 DEF reserve_call
    <2> DEFINE i == ingest[p]
               new == [i EXCEPT !.step = "extract", !.attempt = attempt]
    <2>2. DOMAIN i = IngestFields
      BY DEF VisibleInv, ClaimTypes
    <2>3. /\ DOMAIN new = IngestFields /\ new.step = "extract"
          /\ new.asOf = i.asOf /\ new.d = i.d
      BY <2>2 DEF IngestFields
    <2>4. ingest' = [ingest EXCEPT ![p] = new]
      BY <2>1 DEF VisibleInv, EvidenceInv, EvidenceTypes
    <2> HIDE DEF new
    <2>5. OthersWait(p) /\ ingest'[p] = new
      BY <1>1, <2>3, <2>4, RecordSet
    <2> QED
      BY <1>1, <2>3, <2>5, PassesBy
  <1> QED
    BY <1>2, <1>3

\* A process that begins reads a clock past everything stored.
LEMMA ReadVisible ==
  ASSUME VisibleInv, EvidenceInv', NEW p \in Ingesters, NEW d \in Documents,
         put_document_read(p, d)
  PROVE  VisibleInv'
  <1> DEFINE new == [NoIngest EXCEPT !.d = d, !.asOf = evidenceNow,
                       !.step = IF d \in documents THEN "cached" ELSE "insert"]
  <1>1. /\ DOMAIN new = IngestFields /\ new.d = d /\ new.asOf = evidenceNow
        /\ new.step # "finalize" /\ new.step # "idle"
    BY DEF NoIngest, IngestFields
  <1>2. ingest' = [ingest EXCEPT ![p] = new] /\ d.at <= evidenceNow
        /\ UNCHANGED <<evidenceNow, claims, edges, interfered>>
    BY DEF put_document_read
  <1> HIDE DEF new
  <1>3. OthersWait(p) /\ ingest'[p] = new
    BY <1>1, <1>2, RecordSet
  <1>4. ClaimTypes'
    BY <1>1, <1>2, <1>3 DEF VisibleInv, ClaimTypes, OthersWait
  <1>5. StoredBefore => StoredBefore'
    BY <1>1, <1>3 DEF StoredBefore, OthersWait, VisibleInv, ClaimTypes
  <1>6. EdgesInHand => EdgesInHand'
    BY <1>1, <1>3 DEF EdgesInHand, OthersWait, claims_as_of
  <1>7. EdgesStored => EdgesStored'
    BY <1>3 DEF EdgesStored, OthersWait
  <1>8. interfered' = interfered
    BY <1>2
  <1> QED
    BY <1>4, <1>5, <1>6, <1>7, <1>8 DEF VisibleInv

\* The extractor's answer is compared with everything visible.
LEMMA ExtractVisible ==
  ASSUME VisibleInv, EvidenceInv', NEW p \in Ingesters, extract(p)
  PROVE  VisibleInv'
  <1>1. UNCHANGED <<evidenceNow, claims, edges, interfered>> /\ ingest[p].step = "extract"
    BY DEF extract
  <1>2. CASE step_to(p, "fail")
    BY <1>1, <1>2, StepVisible
  <1>3. CASE ~step_to(p, "fail")
    <2> DEFINE i == ingest[p]
    <2>1. PICK result \in i.d.results :
            ingest' = [ingest EXCEPT ![p].step = "finalize", ![p].result = result,
                         ![p].edges = contradictions(compared(i.asOf, result))]
      BY <1>3 DEF extract
    <2> DEFINE s == compared(i.asOf, result)
               found == contradictions(s)
               new == [i EXCEPT !.step = "finalize", !.result = result, !.edges = found]
    <2>2. DOMAIN i = IngestFields /\ i.d \in Documents
      BY <1>1 DEF VisibleInv, ClaimTypes, EvidenceInv, EvidenceTypes
    <2>3. ASSUME NEW a \in claims_as_of(i.asOf) \union Range(result),
                 NEW b \in claims_as_of(i.asOf) \union Range(result), opposite(a, b)
          PROVE  {a.id, b.id} \in DOMAIN found
      <3>1. /\ Len(s) \in Nat
            /\ \A c \in claims_as_of(i.asOf) \union Range(result) : \E m \in 1..Len(s) : s[m] = c
        BY <2>2, AllCompared DEF VisibleInv, ClaimTypes
      <3> HIDE DEF s
      <3>2. PICK m \in 1..Len(s) : s[m] = a
        BY <3>1
      <3>3. PICK n \in 1..Len(s) : s[n] = b
        BY <3>1
      <3>4. opposite(s[m], s[n])
        BY <2>3, <3>2, <3>3
      <3>5. {s[m].id, s[n].id} \in DOMAIN contradictions(s)
        BY <3>1, <3>4, EdgeFound
      <3> QED
        BY <3>2, <3>3, <3>5
    <2>4. ingest' = [ingest EXCEPT ![p] = new]
      BY <2>1 DEF VisibleInv, EvidenceInv, EvidenceTypes
    <2> HIDE DEF found
    <2>5. /\ DOMAIN new = IngestFields /\ new.step = "finalize" /\ new.asOf = i.asOf
          /\ new.d = i.d /\ new.result = result /\ new.edges = found
      BY <2>2 DEF IngestFields
    <2> HIDE DEF new
    <2>6. OthersWait(p) /\ ingest'[p] = new
      BY <1>1, <2>4, <2>5, RecordSet
    <2>7. ClaimTypes'
      BY <1>1, <2>1, <2>5, <2>6 DEF VisibleInv, ClaimTypes, OthersWait
    <2>8. StoredBefore => StoredBefore'
      BY <1>1, <2>5, <2>6 DEF StoredBefore, OthersWait
    <2>9. EdgesInHand => EdgesInHand'
      <3>1. \A t : claims_as_of(t)' = claims_as_of(t)
        BY <1>1 DEF claims_as_of
      <3>2. ASSUME NEW q \in Ingesters, ingest'[q].step = "finalize", EdgesInHand,
                   NEW a \in claims_as_of(ingest'[q].asOf) \union Range(ingest'[q].result),
                   NEW b \in claims_as_of(ingest'[q].asOf) \union Range(ingest'[q].result),
                   opposite(a, b)
            PROVE  {a.id, b.id} \in DOMAIN ingest'[q].edges
        <4>1. CASE q = p
          BY <3>2, <4>1, <2>3, <2>5, <2>6
        <4>2. CASE q # p
          BY <3>2, <4>2, <2>6 DEF EdgesInHand, OthersWait
        <4> QED
          BY <4>1, <4>2
      <3> QED
        BY <3>1, <3>2, <1>1 DEF EdgesInHand, claims_as_of
    <2>10. EdgesStored => EdgesStored'
      BY <2>6 DEF EdgesStored, OthersWait
    <2> QED
      BY <2>6, <2>7, <2>8, <2>9, <2>10 DEF VisibleInv, OthersWait
  <1> QED
    BY <1>2, <1>3

\* Claims are stored while nobody else is under way, or the interference is recorded.
LEMMA FinalizeVisible ==
  ASSUME VisibleInv, EvidenceInv', NEW p \in Ingesters, finalize_extraction(p)
  PROVE  VisibleInv'
  <1> DEFINE i == ingest[p]
             new == Range(i.result)
  <1>1. /\ claims' = claims \union new /\ edges' = joined(edges, i.edges)
        /\ evidenceNow' = evidenceNow /\ ingest' = [ingest EXCEPT ![p] = NoIngest]
        /\ interfered' = (interfered \/ \E q \in Ingesters \ {p} : ingest[q].step # "idle")
        /\ i.step = "finalize"
    BY DEF finalize_extraction, leaves
  <1>2. i.d \in Documents /\ i.result \in i.d.results
    BY <1>1 DEF VisibleInv, ClaimTypes, EvidenceInv, EvidenceTypes
  <1>3. new \subseteq Claims /\ IsFiniteSet(new) /\ \A c \in new : c.at = i.d.at
    BY <1>2, ClaimKnown
  <1> HIDE DEF new
  <1>4. /\ i.asOf \in Int /\ i.asOf <= evidenceNow /\ i.d.at <= i.asOf
        /\ evidenceNow \in Int /\ i.d.at \in Int
    BY <1>1, <1>2, ClaimsAssumption DEF VisibleInv, ClaimTypes
  <1>5. \A c \in new : c.at <= evidenceNow
    BY <1>3, <1>4
  <1>6. /\ DOMAIN ingest' = Ingesters /\ ingest'[p] = NoIngest
        /\ \A q \in Ingesters \ {p} : ingest'[q] = ingest[q]
    BY <1>1 DEF VisibleInv, EvidenceInv, EvidenceTypes
  <1>7. IsFiniteSet(claims')
    BY <1>1, <1>3, FS_Union DEF VisibleInv, ClaimTypes
  <1>8. ClaimTypes'
    BY <1>1, <1>3, <1>5, <1>6, <1>7, NoIngestFields DEF VisibleInv, ClaimTypes
  <1>9. ASSUME ~interfered'
        PROVE  StoredBefore' /\ EdgesInHand' /\ EdgesStored'
    <2>1. /\ ~interfered
          /\ \A q \in Ingesters \ {p} : ingest[q].step = "idle"
      BY <1>1, <1>9
    <2>2. \A q \in Ingesters : ingest'[q].step = "idle"
      BY <1>6, <2>1, NoIngestFields
    <2>3. StoredBefore' /\ EdgesInHand'
      BY <2>2 DEF StoredBefore, EdgesInHand
    <2>4. ASSUME NEW a \in claims', NEW b \in claims', opposite(a, b),
                 evidenceNow < a.expires, evidenceNow < b.expires
          PROVE  {a.id, b.id} \in DOMAIN edges'
      <3>1. DOMAIN edges' = DOMAIN edges \union DOMAIN i.edges
        BY <1>1 DEF joined
      <3>2. CASE a \in claims /\ b \in claims
        BY <2>1, <2>4, <3>1, <3>2 DEF VisibleInv, EdgesStored
      <3>3. CASE a \in new \/ b \in new
        <4>1. \A c \in claims : c.at <= i.asOf
          BY <1>1, <2>1 DEF VisibleInv, StoredBefore
        <4>2. \A c \in claims : evidenceNow < c.expires => i.asOf < c.expires
          <5>1. \A c \in claims : c.expires \in Int
            BY IdsDiffer DEF VisibleInv, ClaimTypes
          <5> QED
            BY <5>1, <1>4
        <4>3. /\ a \in claims_as_of(i.asOf) \union new
              /\ b \in claims_as_of(i.asOf) \union new
          BY <1>1, <2>4, <4>1, <4>2 DEF claims_as_of
        <4>4. {a.id, b.id} \in DOMAIN i.edges
          BY <1>1, <2>1, <2>4, <4>3 DEF VisibleInv, EdgesInHand, new
        <4> QED
          BY <3>1, <4>4
      <3> QED
        BY <1>1, <3>2, <3>3
    <2>5. EdgesStored'
      BY <2>4, <1>1 DEF EdgesStored
    <2> QED
      BY <2>3, <2>5
  <1> QED
    BY <1>8, <1>9 DEF VisibleInv

LEMMA VisibleStart == EvidenceInit => VisibleInv
  <1> SUFFICES ASSUME EvidenceInit PROVE VisibleInv
    OBVIOUS
  <1>1. EvidenceInv
    BY EvidenceStart
  <1>2. claims = {} /\ evidenceNow = 0 /\ \A p \in Ingesters : ingest[p] = NoIngest
    BY DEF EvidenceInit
  <1>3. ClaimTypes
    BY <1>2, NoIngestFields, FS_EmptySet DEF ClaimTypes
  <1>4. StoredBefore /\ EdgesInHand /\ EdgesStored
    BY <1>2, NoIngestFields DEF StoredBefore, EdgesInHand, EdgesStored
  <1> QED
    BY <1>1, <1>3, <1>4 DEF VisibleInv

LEMMA VisibleStep == VisibleInv /\ [EvidenceNext]_evidenceVars => VisibleInv'
  <1> SUFFICES ASSUME VisibleInv, [EvidenceNext]_evidenceVars PROVE VisibleInv'
    OBVIOUS
  <1>1. EvidenceInv'
    BY EvidenceStep DEF VisibleInv
  <1>2. CASE UNCHANGED evidenceVars
    BY <1>1, <1>2 DEF VisibleInv, ClaimTypes, StoredBefore, EdgesInHand, EdgesStored,
         claims_as_of
  <1>3. CASE advance_clock
    <2>1. /\ evidenceNow' = evidenceNow + 1 /\ evidenceNow \in Int
          /\ UNCHANGED <<claims, edges, ingest, interfered>>
      BY <1>3 DEF advance_clock, VisibleInv, ClaimTypes
    <2>2. \A c \in claims : c.at \in Int /\ c.expires \in Int
      BY IdsDiffer DEF VisibleInv, ClaimTypes
    <2>3. ClaimTypes'
      BY <2>1, <2>2 DEF VisibleInv, ClaimTypes
    <2>4. StoredBefore => StoredBefore'
      BY <2>1 DEF StoredBefore
    <2>5. EdgesInHand => EdgesInHand'
      BY <2>1 DEF EdgesInHand, claims_as_of
    <2>6. EdgesStored => EdgesStored'
      <3>1. \A c \in claims : evidenceNow + 1 < c.expires => evidenceNow < c.expires
        BY <2>1, <2>2
      <3> QED
        BY <2>1, <3>1 DEF EdgesStored
    <2> QED
      BY <1>1, <2>1, <2>3, <2>4, <2>5, <2>6 DEF VisibleInv
  <1>4. ASSUME NEW p \in Ingesters, NEW d \in Documents, put_document_read(p, d)
        PROVE  VisibleInv'
    BY <1>1, <1>4, ReadVisible
  <1>5. ASSUME NEW p \in Ingesters, put_document_insert(p) PROVE VisibleInv'
    BY <1>1, <1>5, LeavesVisible, StepVisible DEF put_document_insert
  <1>6. ASSUME NEW p \in Ingesters, cached(p) PROVE VisibleInv'
    BY <1>1, <1>6, LeavesVisible, StepVisible DEF cached
  <1>7. ASSUME NEW p \in Ingesters, reserve_call(p) PROVE VisibleInv'
    BY <1>1, <1>7, ReserveVisible
  <1>8. ASSUME NEW p \in Ingesters, extract(p) PROVE VisibleInv'
    BY <1>1, <1>8, ExtractVisible
  <1>9. ASSUME NEW p \in Ingesters, finalize_extraction(p) PROVE VisibleInv'
    BY <1>1, <1>9, FinalizeVisible
  <1>10. ASSUME NEW p \in Ingesters, complete_call(p) PROVE VisibleInv'
    BY <1>1, <1>10, LeavesVisible DEF complete_call
  <1>11. ASSUME NEW p \in Ingesters, crash_ingest(p) PROVE VisibleInv'
    BY <1>1, <1>11, LeavesVisible DEF crash_ingest
  <1> QED
    BY <1>2, <1>3, <1>4, <1>5, <1>6, <1>7, <1>8, <1>9, <1>10, <1>11 DEF EvidenceNext

\* Whatever the extractor returns and in whichever order ids fall, two opposing claims a
\* snapshot taken now contains are joined by an edge, unless a process stored claims while
\* another was between reading the clock and storing its own (EvidenceService.ingest).
THEOREM ContradictionsStayVisible == EvidenceSpec => []ContradictionsVisible
  <1>1. VisibleInv => ContradictionsVisible
    BY DEF VisibleInv, EdgesStored, ContradictionsVisible, claims_as_of
  <1> QED
    BY <1>1, VisibleStart, VisibleStep, PTL DEF EvidenceSpec

-----------------------------------------------------------------------------
(* Backup and restore: the invariant.                                      *)

IsTable(f) == f = [x \in DOMAIN f |-> f[x]]

IsDirectory(d) == "files" \in DOMAIN d /\ "manifest" \in DOMAIN d /\ IsTable(d.files)

\* Backups are numbered from 1; every directory holds files and a manifest.
BackupTypes ==
    /\ \E k \in Nat : DOMAIN backups = 1..k
    /\ \A n \in DOMAIN backups : IsDirectory(backups[n])
    /\ \A n \in DOMAIN generations : IsDirectory(generations[n])
    /\ \A n \in DOMAIN temporary : IsDirectory(temporary[n])
    /\ restore \in [step : {"idle", "copy", "rename", "link"}, id : Nat, todo : SUBSET Stores]

\* A manifest is that of a finished backup, which has every store; the running backup has
\* no manifest yet.
BackupsWhole ==
    /\ \A c \in taken : DOMAIN c = Stores
    /\ \A n \in DOMAIN backups : backups[n].manifest # NoManifest => backups[n].manifest \in taken
    /\ taking # 0 => taking \in DOMAIN backups /\ backups[taking].manifest = NoManifest

CurrentWhole ==
    current # 0 => /\ current \in DOMAIN generations
                   /\ DOMAIN generations[current].files = Stores

\* The backup being restored stays verified and its generation is not the one in use;
\* what is copied so far is what the backup holds, and what is linked is a whole backup.
RestoreProgress ==
    restore.step # "idle" =>
      /\ restore.id \in DOMAIN backups
      /\ validated(backups[restore.id])
      /\ current # restore.id
      /\ restore.step = "copy" =>
           /\ restore.id \in DOMAIN temporary
           /\ temporary[restore.id].files =
                [s \in Stores \ restore.todo |-> backups[restore.id].files[s]]
      /\ restore.step = "rename" =>
           /\ restore.id \in DOMAIN temporary
           /\ temporary[restore.id].files = backups[restore.id].files
      /\ restore.step = "link" =>
           /\ restore.id \in DOMAIN generations
           /\ generations[restore.id].files \in taken

BackupInv == BackupTypes /\ BackupsWhole /\ CurrentWhole /\ RestoreProgress
LEMMA PutRow ==
  ASSUME NEW table, NEW key, NEW row
  PROVE  /\ DOMAIN put(table, key, row) = DOMAIN table \union {key}
         /\ put(table, key, row)[key] = row
         /\ \A k \in DOMAIN table \ {key} : put(table, key, row)[k] = table[k]
         /\ IsTable(put(table, key, row))
  BY DEF put, IsTable

\* A new file in a directory, and a new manifest.
LEMMA FilesSet ==
  ASSUME NEW d, IsDirectory(d), NEW contents, IsTable(contents)
  PROVE  /\ IsDirectory([d EXCEPT !.files = contents])
         /\ [d EXCEPT !.files = contents].files = contents
         /\ [d EXCEPT !.files = contents].manifest = d.manifest
  BY DEF IsDirectory

LEMMA ManifestSet ==
  ASSUME NEW d, IsDirectory(d), NEW m
  PROVE  /\ IsDirectory([d EXCEPT !.manifest = m])
         /\ [d EXCEPT !.manifest = m].files = d.files
         /\ [d EXCEPT !.manifest = m].manifest = m
  BY DEF IsDirectory

LEMMA EmptyDirectory == IsDirectory(NewDirectory) /\ NewDirectory.manifest = NoManifest
  BY DEF IsDirectory, NewDirectory, IsTable, NoManifest

\* The next backup takes a number no backup has.
LEMMA NextNumber ==
  ASSUME BackupTypes
  PROVE  LET n == Cardinality(DOMAIN backups) + 1
         IN  /\ n \in Nat \ {0} /\ n \notin DOMAIN backups
             /\ DOMAIN backups \union {n} = 1..n
             /\ \A m \in DOMAIN backups : m \in Nat \ {0}
  <1>1. PICK k \in Nat : DOMAIN backups = 1..k
    BY DEF BackupTypes
  <1>2. Cardinality(1..k) = k
    BY FS_Interval
  <1> QED
    BY <1>1, <1>2

LEMMA BackupStart == BackupInit => BackupInv
  <1> SUFFICES ASSUME BackupInit PROVE BackupInv
    OBVIOUS
  <1>1. /\ DOMAIN backups = {} /\ DOMAIN generations = {} /\ DOMAIN temporary = {}
        /\ DOMAIN backups = 1..0
    BY DEF BackupInit
  <1>2. BackupTypes
    BY <1>1 DEF BackupInit, BackupTypes, NoRestore
  <1> QED
    BY <1>1, <1>2 DEF BackupInit, BackupInv, BackupsWhole, CurrentWhole, RestoreProgress,
         NoRestore

-----------------------------------------------------------------------------
(* Backup and restore: one lemma per operation that changes a directory.   *)

\* What a step that only changes directories of backups outside a restore must keep.
LEMMA BackupsChange ==
  ASSUME BackupInv, BackupTypes', BackupsWhole',
         UNCHANGED <<generations, temporary, current, restore>>, taken \subseteq taken',
         restore.step # "idle" =>
           restore.id \in DOMAIN backups' /\ backups'[restore.id] = backups[restore.id]
  PROVE  BackupInv'
  BY DEF BackupInv, CurrentWhole, RestoreProgress, validated

LEMMA BeginBackup == ASSUME BackupInv, begin_backup PROVE BackupInv'
  <1> DEFINE n == Cardinality(DOMAIN backups) + 1
  <1>1. /\ n \in Nat \ {0} /\ n \notin DOMAIN backups /\ DOMAIN backups \union {n} = 1..n
    BY NextNumber DEF BackupInv
  <1>2. backups' = put(backups, n, NewDirectory) /\ taking' = n
    BY DEF begin_backup
  <1> HIDE DEF n
  <1>3. /\ DOMAIN backups' = DOMAIN backups \union {n} /\ backups'[n] = NewDirectory
        /\ \A m \in DOMAIN backups : backups'[m] = backups[m]
    BY <1>1, <1>2 DEF put
  <1>4. BackupTypes'
    BY <1>1, <1>3, EmptyDirectory DEF begin_backup, BackupInv, BackupTypes
  <1>5. BackupsWhole'
    BY <1>2, <1>3, EmptyDirectory DEF begin_backup, BackupInv, BackupsWhole
  <1> QED
    BY <1>3, <1>4, <1>5, BackupsChange DEF begin_backup, BackupInv, RestoreProgress

\* The running backup is not the one being restored: it has no manifest.
LEMMA TakingIsNotRestored ==
  ASSUME BackupInv, taking # 0, restore.step # "idle"
  PROVE  restore.id # taking /\ restore.id \in DOMAIN backups
  BY DEF BackupInv, BackupsWhole, RestoreProgress, validated

LEMMA BackupStore == ASSUME BackupInv, NEW s \in Stores, backup_store(s) PROVE BackupInv'
  <1> DEFINE d == backups[taking]
             new == [d EXCEPT !.files = put(d.files, s, live[s])]
  <1>1. taking \in DOMAIN backups /\ IsDirectory(d) /\ d.manifest = NoManifest
    BY DEF backup_store, BackupInv, BackupTypes, BackupsWhole
  <1>2. IsDirectory(new) /\ new.manifest = NoManifest
    BY <1>1, FilesSet, PutRow
  <1>3. backups' = [backups EXCEPT ![taking] = new]
    BY DEF backup_store
  <1> HIDE DEF new
  <1>4. /\ DOMAIN backups' = DOMAIN backups /\ backups'[taking] = new
        /\ \A m \in DOMAIN backups \ {taking} : backups'[m] = backups[m]
    BY <1>1, <1>3
  <1>5. BackupTypes'
    BY <1>2, <1>4 DEF backup_store, BackupInv, BackupTypes
  <1>6. BackupsWhole'
    BY <1>2, <1>4 DEF backup_store, BackupInv, BackupsWhole
  <1> QED
    BY <1>4, <1>5, <1>6, TakingIsNotRestored, BackupsChange DEF backup_store

LEMMA WriteManifest == ASSUME BackupInv, write_manifest PROVE BackupInv'
  <1> DEFINE d == backups[taking]
             new == [d EXCEPT !.manifest = d.files]
  <1>1. taking \in DOMAIN backups /\ IsDirectory(d) /\ DOMAIN d.files = Stores
    BY DEF write_manifest, all_copied, BackupInv, BackupTypes, BackupsWhole
  <1>2. IsDirectory(new) /\ new.manifest = d.files
    BY <1>1, ManifestSet
  <1>3. /\ backups' = [backups EXCEPT ![taking] = new] /\ taken' = taken \union {d.files}
        /\ taking' = 0
    BY DEF write_manifest
  <1> HIDE DEF new
  <1>4. /\ DOMAIN backups' = DOMAIN backups /\ backups'[taking] = new
        /\ \A m \in DOMAIN backups \ {taking} : backups'[m] = backups[m]
    BY <1>1, <1>3
  <1>5. BackupTypes'
    BY <1>2, <1>4 DEF write_manifest, BackupInv, BackupTypes
  <1>6. BackupsWhole'
    BY <1>1, <1>2, <1>3, <1>4 DEF BackupInv, BackupsWhole
  <1> QED
    BY <1>3, <1>4, <1>5, <1>6, TakingIsNotRestored, BackupsChange DEF write_manifest

LEMMA Rots == ASSUME BackupInv, NEW n \in DOMAIN backups, NEW s, rot(n, s) PROVE BackupInv'
  <1> DEFINE d == backups[n]
             contents == [d.files EXCEPT ![s] = Rot]
             new == [d EXCEPT !.files = contents]
  <1>1. IsDirectory(d) /\ IsTable(contents)
    BY DEF BackupInv, BackupTypes, IsDirectory, IsTable
  <1>2. backups' = [backups EXCEPT ![n] = [d EXCEPT !.files = contents]]
    BY DEF rot
  <1> HIDE DEF contents
  <1>3. IsDirectory(new) /\ new.manifest = d.manifest
    BY <1>1, FilesSet
  <1>4. backups' = [backups EXCEPT ![n] = new]
    BY <1>2
  <1> HIDE DEF new
  <1>5. /\ DOMAIN backups' = DOMAIN backups /\ backups'[n] = new
        /\ \A m \in DOMAIN backups \ {n} : backups'[m] = backups[m]
    BY <1>4
  <1>6. BackupTypes'
    BY <1>3, <1>5 DEF rot, BackupInv, BackupTypes
  <1>7. BackupsWhole'
    BY <1>3, <1>5 DEF rot, BackupInv, BackupsWhole
  <1>8. restore.step = "idle"
    BY DEF rot, NoRestore
  <1> QED
    BY <1>6, <1>7, <1>8, BackupsChange DEF rot

\* A finished backup is complete: what the manifest names, the files are.
LEMMA VerifiedIsWhole ==
  ASSUME BackupInv, NEW n \in DOMAIN backups, validated(backups[n])
  PROVE  /\ backups[n].files \in taken /\ backups[n].files = backups[n].manifest
         /\ backups[n].files = [s \in Stores |-> backups[n].files[s]]
  <1>1. backups[n].files \in taken /\ backups[n].files = backups[n].manifest
    BY DEF BackupInv, BackupsWhole, validated
  <1>2. DOMAIN backups[n].files = Stores /\ IsTable(backups[n].files)
    BY <1>1 DEF BackupInv, BackupsWhole, BackupTypes, IsDirectory
  <1> QED
    BY <1>1, <1>2 DEF IsTable

LEMMA BeginRestore ==
  ASSUME BackupInv, NEW id \in DOMAIN backups, NEW overwrite, begin_restore(id, overwrite)
  PROVE  BackupInv'
  <1>1. id \in Nat /\ validated(backups[id]) /\ current # id
    BY NextNumber DEF begin_restore, BackupInv, CurrentWhole
  <1>2. UNCHANGED <<backups, taking, generations, current, taken>>
    BY DEF begin_restore
  <1>3. BackupsWhole' /\ CurrentWhole'
    BY <1>2 DEF BackupInv, BackupsWhole, CurrentWhole
  <1>4. CASE id \in DOMAIN generations
    <2>1. restore' = [step |-> "link", id |-> id, todo |-> {}] /\ temporary' = temporary
      BY <1>4 DEF begin_restore
    <2>2. generations[id].files \in taken
      BY <1>1, <1>4, VerifiedIsWhole DEF begin_restore, installable, validated
    <2>3. BackupTypes'
      BY <1>1, <1>2, <2>1 DEF BackupInv, BackupTypes
    <2>4. RestoreProgress'
      BY <1>1, <1>2, <1>4, <2>1, <2>2 DEF RestoreProgress, validated
    <2> QED
      BY <1>3, <2>3, <2>4 DEF BackupInv
  <1>5. CASE id \notin DOMAIN generations
    <2>1. /\ restore' = [step |-> "copy", id |-> id, todo |-> Stores]
          /\ temporary' = put(temporary, id, NewDirectory)
      BY <1>5 DEF begin_restore
    <2>2. /\ DOMAIN temporary' = DOMAIN temporary \union {id} /\ temporary'[id] = NewDirectory
          /\ \A m \in DOMAIN temporary \ {id} : temporary'[m] = temporary[m]
      BY <2>1 DEF put
    <2>3. BackupTypes'
      BY <1>1, <1>2, <2>1, <2>2, EmptyDirectory DEF BackupInv, BackupTypes
    <2>4. NewDirectory.files = [s \in Stores \ Stores |-> backups[id].files[s]]
      BY DEF NewDirectory
    <2>5. RestoreProgress'
      BY <1>1, <1>2, <2>1, <2>2, <2>4 DEF RestoreProgress, validated
    <2> QED
      BY <1>3, <2>3, <2>5 DEF BackupInv
  <1> QED
    BY <1>4, <1>5
LEMMA CopyFile == ASSUME BackupInv, NEW s \in Stores, copy_file(s) PROVE BackupInv'
  <1> DEFINE id == restore.id
             d == temporary[id]
             contents == put(d.files, s, backups[id].files[s])
             new == [d EXCEPT !.files = contents]
             left == restore.todo \ {s}
  <1>1. /\ restore.step = "copy" /\ s \in restore.todo /\ restore.todo \in SUBSET Stores
        /\ id \in DOMAIN temporary /\ IsDirectory(d) /\ id \in Nat
        /\ d.files = [t \in Stores \ restore.todo |-> backups[id].files[t]]
    BY DEF copy_file, BackupInv, BackupTypes, RestoreProgress
  <1>2. restore' = [restore EXCEPT !.todo = left]
    BY DEF copy_file
  <1>3. /\ restore'.step = "copy" /\ restore'.id = id /\ restore'.todo = left
        /\ restore' \in [step : {"idle", "copy", "rename", "link"}, id : Nat, todo : SUBSET Stores]
    BY <1>1, <1>2 DEF BackupInv, BackupTypes
  <1>4. temporary' = [temporary EXCEPT ![id] = new]
    BY DEF copy_file
  <1>5. contents = [t \in Stores \ left |-> backups[id].files[t]]
    <2>1. Stores \ left = (Stores \ restore.todo) \union {s}
      BY <1>1
    <2> QED
      BY <1>1, <2>1 DEF put
  <1>6. IsTable(contents)
    BY PutRow
  <1> HIDE DEF contents
  <1>7. IsDirectory(new) /\ new.files = contents
    BY <1>1, <1>6, FilesSet
  <1> HIDE DEF new, left
  <1>8. /\ DOMAIN temporary' = DOMAIN temporary /\ temporary'[id] = new
        /\ \A m \in DOMAIN temporary \ {id} : temporary'[m] = temporary[m]
    BY <1>1, <1>4
  <1>9. UNCHANGED <<backups, taking, generations, current, taken>>
    BY DEF copy_file
  <1>10. BackupTypes'
    BY <1>3, <1>7, <1>8, <1>9 DEF BackupInv, BackupTypes
  <1>11. BackupsWhole' /\ CurrentWhole'
    BY <1>9 DEF BackupInv, BackupsWhole, CurrentWhole
  <1>12. RestoreProgress'
    BY <1>1, <1>3, <1>5, <1>7, <1>8, <1>9 DEF BackupInv, RestoreProgress, validated
  <1> QED
    BY <1>10, <1>11, <1>12 DEF BackupInv

LEMMA CopyManifest == ASSUME BackupInv, copy_manifest PROVE BackupInv'
  <1> DEFINE id == restore.id
             d == temporary[id]
             new == [d EXCEPT !.manifest = backups[id].manifest]
  <1>1. /\ restore.step = "copy" /\ restore.todo = {}
        /\ id \in DOMAIN temporary /\ IsDirectory(d) /\ id \in DOMAIN backups
        /\ d.files = [t \in Stores \ restore.todo |-> backups[id].files[t]]
        /\ validated(backups[id])
    BY DEF copy_manifest, BackupInv, BackupTypes, RestoreProgress
  <1>2. d.files = backups[id].files
    BY <1>1, VerifiedIsWhole
  <1>3. restore' = [restore EXCEPT !.step = "rename"]
    BY DEF copy_manifest
  <1>4. /\ restore'.step = "rename" /\ restore'.id = id
        /\ restore' \in [step : {"idle", "copy", "rename", "link"}, id : Nat, todo : SUBSET Stores]
    BY <1>1, <1>3 DEF BackupInv, BackupTypes
  <1>5. temporary' = [temporary EXCEPT ![id] = new]
    BY DEF copy_manifest
  <1>6. IsDirectory(new) /\ new.files = d.files
    BY <1>1, ManifestSet
  <1> HIDE DEF new
  <1>7. /\ DOMAIN temporary' = DOMAIN temporary /\ temporary'[id] = new
        /\ \A m \in DOMAIN temporary \ {id} : temporary'[m] = temporary[m]
    BY <1>1, <1>5
  <1>8. UNCHANGED <<backups, taking, generations, current, taken>>
    BY DEF copy_manifest
  <1>9. BackupTypes'
    BY <1>4, <1>6, <1>7, <1>8 DEF BackupInv, BackupTypes
  <1>10. BackupsWhole' /\ CurrentWhole'
    BY <1>8 DEF BackupInv, BackupsWhole, CurrentWhole
  <1>11. RestoreProgress'
    BY <1>1, <1>2, <1>4, <1>6, <1>7, <1>8 DEF BackupInv, RestoreProgress, validated
  <1> QED
    BY <1>9, <1>10, <1>11 DEF BackupInv

LEMMA RenameGeneration == ASSUME BackupInv, rename_generation PROVE BackupInv'
  <1> DEFINE id == restore.id
  <1>1. /\ restore.step = "rename" /\ id \in DOMAIN temporary /\ id \in DOMAIN backups
        /\ IsDirectory(temporary[id]) /\ temporary[id].files = backups[id].files
        /\ validated(backups[id]) /\ current # id
    BY DEF rename_generation, BackupInv, BackupTypes, RestoreProgress
  <1>2. backups[id].files \in taken
    BY <1>1, VerifiedIsWhole
  <1>3. restore' = [restore EXCEPT !.step = "link"]
    BY DEF rename_generation
  <1>4. /\ restore'.step = "link" /\ restore'.id = id
        /\ restore' \in [step : {"idle", "copy", "rename", "link"}, id : Nat, todo : SUBSET Stores]
    BY <1>1, <1>3 DEF BackupInv, BackupTypes
  <1>5. /\ DOMAIN generations' = DOMAIN generations \union {id}
        /\ generations'[id] = temporary[id]
        /\ \A m \in DOMAIN generations \ {id} : generations'[m] = generations[m]
    BY DEF rename_generation, put
  <1>6. /\ DOMAIN temporary' = DOMAIN temporary \ {id}
        /\ \A m \in DOMAIN temporary \ {id} : temporary'[m] = temporary[m]
    BY DEF rename_generation, Restrict
  <1>7. UNCHANGED <<backups, taking, current, taken>>
    BY DEF rename_generation
  <1>8. BackupTypes'
    BY <1>1, <1>4, <1>5, <1>6, <1>7 DEF BackupInv, BackupTypes
  <1>9. BackupsWhole' /\ CurrentWhole'
    BY <1>1, <1>5, <1>7 DEF BackupInv, BackupsWhole, CurrentWhole
  <1>10. RestoreProgress'
    BY <1>1, <1>2, <1>4, <1>5, <1>7 DEF RestoreProgress, validated
  <1> QED
    BY <1>8, <1>9, <1>10 DEF BackupInv

\* A restore that fails, crashes or ends leaves no restore under way.
LEMMA RestoreEnds ==
  ASSUME BackupInv, restore' = NoRestore, UNCHANGED <<backups, taking, generations, taken>>,
         \A n \in DOMAIN temporary' : n \in DOMAIN temporary /\ temporary'[n] = temporary[n],
         CurrentWhole'
  PROVE  BackupInv'
  <1>1. BackupTypes'
    BY DEF BackupInv, BackupTypes, NoRestore
  <1> QED
    BY <1>1 DEF BackupInv, BackupsWhole, RestoreProgress, NoRestore

\* The services write to the generation in use, never to the one being installed.
LEMMA Serves == ASSUME BackupInv, NEW s \in Stores, serve(s) PROVE BackupInv'
  <1> DEFINE d == generations[current]
             contents == [d.files EXCEPT ![s] = Written]
             new == [d EXCEPT !.files = contents]
  <1>1. current \in DOMAIN generations /\ IsDirectory(d) /\ DOMAIN d.files = Stores
    BY DEF serve, BackupInv, BackupTypes, CurrentWhole
  <1>2. IsTable(contents) /\ DOMAIN contents = Stores
    BY <1>1 DEF IsTable
  <1>3. generations' = [generations EXCEPT ![current] = new]
    BY DEF serve
  <1> HIDE DEF contents
  <1>4. IsDirectory(new) /\ new.files = contents
    BY <1>1, <1>2, FilesSet
  <1> HIDE DEF new
  <1>5. /\ DOMAIN generations' = DOMAIN generations /\ generations'[current] = new
        /\ \A m \in DOMAIN generations \ {current} : generations'[m] = generations[m]
    BY <1>1, <1>3
  <1>6. UNCHANGED <<backups, taking, temporary, current, restore, taken>>
    BY DEF serve
  <1>7. BackupTypes'
    BY <1>4, <1>5, <1>6 DEF BackupInv, BackupTypes
  <1>8. BackupsWhole' /\ CurrentWhole'
    BY <1>2, <1>4, <1>5, <1>6 DEF BackupInv, BackupsWhole, CurrentWhole
  <1>9. RestoreProgress'
    BY <1>5, <1>6 DEF BackupInv, RestoreProgress, validated
  <1> QED
    BY <1>7, <1>8, <1>9 DEF BackupInv

LEMMA BackupStep == BackupInv /\ [BackupNext]_backupVars => BackupInv'
  <1> SUFFICES ASSUME BackupInv, [BackupNext]_backupVars PROVE BackupInv'
    OBVIOUS
  <1>1. ASSUME UNCHANGED <<backups, generations, temporary, current, restore, taken>>,
               taking' \in {0, taking}
        PROVE  BackupInv'
    BY <1>1 DEF BackupInv, BackupTypes, BackupsWhole, CurrentWhole, RestoreProgress, validated
  <1>2. CASE UNCHANGED backupVars \/ crash_backup
    BY <1>1, <1>2 DEF crash_backup
  <1>3. ASSUME NEW s \in Stores, write_live(s) PROVE BackupInv'
    BY <1>1, <1>3 DEF write_live
  <1>4. CASE begin_backup
    BY <1>4, BeginBackup
  <1>5. ASSUME NEW s \in Stores, backup_store(s) PROVE BackupInv'
    BY <1>5, BackupStore
  <1>6. CASE write_manifest
    BY <1>6, WriteManifest
  <1>7. ASSUME NEW s \in Stores, NEW n \in DOMAIN backups, rot(n, s) PROVE BackupInv'
    BY <1>7, Rots
  <1>8. ASSUME NEW id \in DOMAIN backups, NEW overwrite \in BOOLEAN,
               begin_restore(id, overwrite)
        PROVE  BackupInv'
    BY <1>8, BeginRestore
  <1>9. ASSUME NEW s \in Stores, copy_file(s) PROVE BackupInv'
    BY <1>9, CopyFile
  <1>10. CASE copy_manifest
    BY <1>10, CopyManifest
  <1>11. CASE rename_generation
    BY <1>11, RenameGeneration
  <1>12. CASE restore_fails
    <2>1. \A n \in DOMAIN temporary' : n \in DOMAIN temporary /\ temporary'[n] = temporary[n]
      BY <1>12 DEF restore_fails, Restrict
    <2> QED
      BY <1>12, <2>1, RestoreEnds DEF restore_fails, BackupInv, CurrentWhole
  <1>13. CASE crash_restore
    BY <1>13, RestoreEnds DEF crash_restore, BackupInv, CurrentWhole
  <1>14. CASE switch_current
    <2>1. restore.id \in DOMAIN generations /\ DOMAIN generations[restore.id].files = Stores
      BY <1>14 DEF switch_current, BackupInv, RestoreProgress, BackupsWhole
    <2>2. CurrentWhole'
      BY <1>14, <2>1 DEF switch_current, CurrentWhole
    <2> QED
      BY <1>14, <2>2, RestoreEnds DEF switch_current
  <1>15. ASSUME NEW s \in Stores, serve(s) PROVE BackupInv'
    BY <1>15, Serves
  <1> QED
    BY <1>2, <1>3, <1>4, <1>5, <1>6, <1>7, <1>8, <1>9, <1>10, <1>11, <1>12, <1>13, <1>14,
       <1>15 DEF BackupNext

-----------------------------------------------------------------------------
(* Backup and restore implement the atomic restore.                        *)

LEMMA RestoreStartsEmpty == BackupInit => Abstract!RestoreInit
  BY DEF BackupInit, Abstract!RestoreInit, served

\* Each step is a backup taken, a switch, a write of a service, or unseen.
LEMMA RestoreSteps ==
  ASSUME BackupInv, [BackupNext]_backupVars
  PROVE  [Abstract!RestoreNext]_<<taken, served>>
  <1>1. ASSUME UNCHANGED <<current, taken>>,
               current # 0 => generations'[current] = generations[current]
        PROVE  UNCHANGED <<taken, served>>
    BY <1>1 DEF served
  <1>2. CASE UNCHANGED backupVars \/ begin_backup \/ crash_backup
    BY <1>1, <1>2 DEF begin_backup, crash_backup
  <1>3. ASSUME NEW s \in Stores, write_live(s) \/ backup_store(s) \/ copy_file(s)
        PROVE  UNCHANGED <<taken, served>>
    BY <1>1, <1>3 DEF write_live, backup_store, copy_file
  <1>4. ASSUME NEW s \in Stores, NEW n \in DOMAIN backups, rot(n, s)
        PROVE  UNCHANGED <<taken, served>>
    BY <1>1, <1>4 DEF rot
  <1>5. ASSUME NEW id \in DOMAIN backups, NEW overwrite \in BOOLEAN,
               begin_restore(id, overwrite)
        PROVE  UNCHANGED <<taken, served>>
    BY <1>1, <1>5 DEF begin_restore
  <1>6. CASE restore_fails \/ copy_manifest \/ crash_restore
    BY <1>1, <1>6 DEF restore_fails, copy_manifest, crash_restore
  <1>7. CASE rename_generation
    <2>1. current # 0 => generations'[current] = generations[current]
      BY <1>7 DEF rename_generation, put, BackupInv, CurrentWhole, RestoreProgress
    <2> QED
      BY <1>1, <1>7, <2>1 DEF rename_generation
  <1>8. CASE write_manifest
    <2> DEFINE c == backups[taking].files
    <2>1. DOMAIN c = Stores /\ taken' = taken \union {c} /\ served' = served
      BY <1>8 DEF write_manifest, all_copied, served
    <2>2. Abstract!Backup(c) /\ c \in taken'
      BY <2>1 DEF Abstract!Backup
    <2> QED
      BY <2>2 DEF Abstract!RestoreNext
  <1>9. CASE switch_current
    <2> DEFINE c == generations[restore.id].files
    <2>1. c \in taken /\ restore.id # 0
      BY <1>9, NextNumber DEF switch_current, BackupInv, RestoreProgress
    <2>2. served' = c /\ taken' = taken
      BY <1>9, <2>1 DEF switch_current, served
    <2>3. Abstract!Switch(c)
      BY <2>1, <2>2 DEF Abstract!Switch
    <2> QED
      BY <2>1, <2>3 DEF Abstract!RestoreNext
  <1>10. ASSUME NEW s \in Stores, serve(s) PROVE Abstract!RestoreNext
    <2>1. current # 0 /\ current \in DOMAIN generations /\ DOMAIN served = Stores
      BY <1>10 DEF serve, BackupInv, CurrentWhole, served
    <2>2. IsDirectory(generations[current])
      BY <2>1 DEF BackupInv, BackupTypes
    <2>3. served' = [served EXCEPT ![s] = Written] /\ taken' = taken
      BY <1>10, <2>1, <2>2 DEF serve, served, IsDirectory
    <2>4. Abstract!Write(s)
      BY <2>1, <2>3 DEF Abstract!Write
    <2> QED
      BY <2>4 DEF Abstract!RestoreNext
  <1> QED
    BY <1>2, <1>3, <1>4, <1>5, <1>6, <1>7, <1>8, <1>9, <1>10 DEF BackupNext

\* restore_databases, with its copies file by file, its crashes and retries and the decay
\* of the backups, implements the restore that switches whole backups in one step.
THEOREM RestoreRefinesAtomic == BackupSpec => RestoreIsAtomic
  <1>1. BackupInv /\ [BackupNext]_backupVars => [Abstract!RestoreNext]_<<taken, served>>
    BY RestoreSteps
  <1> QED
    BY <1>1, BackupStart, BackupStep, RestoreStartsEmpty, PTL
       DEF BackupSpec, RestoreIsAtomic, Abstract!RestoreSpec
==============================================================================
