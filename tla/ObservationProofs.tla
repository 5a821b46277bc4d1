-------------------------- MODULE ObservationProofs --------------------------
(***************************************************************************)
(* Proofs about what an observation of the broker is worth.                *)
(*                                                                         *)
(*   SnapshotConsensus: what a consensus count of two means, for every set *)
(*   of snapshots, any number of concurrent callers, and with replays.     *)
(*                                                                         *)
(*   IBKRObserver: what a certificate says of the tape, for every size of  *)
(*   the queue and of the answers and any number of observations.          *)
(***************************************************************************)
EXTENDS SnapshotConsensus, IBKRObserver, TLAPS

Call == {NoCall} \union
        [step : {"register", "pending", "reconcile", "promote", "reject"}, snapshot : Snapshots]

\* Every variable of the consensus keeps its type, whatever snapshots arrive.
TypeOK ==
    /\ votes \in Seq([snapshot : Snapshots, disposition : Disposition])
    /\ row \in [hash : Nat, count : Nat]
    /\ authority \in SUBSET Snapshots
    /\ calls \in [Callers -> Call]

\* Votes m and n agree and are independent observations, n the later one.
agree(m, n) ==
    /\ authority_equivalence(votes[m].snapshot, votes[n].snapshot)
    /\ independent(votes[m].snapshot, votes[n].snapshot)

\* A count of two stands for an agreeing pair whose later vote is the newest accepted
\* one.  Being the newest is what makes it inductive: a vote that keeps the count is
\* compared with the newest accepted vote and must name the state of the row.
Witness ==
    row.count >= 2 =>
        \E m, n \in DOMAIN votes :
            accepted(m) /\ previous(n) /\ agree(m, n) /\ votes[n].snapshot.hash = row.hash

IInv == TypeOK /\ Witness

-----------------------------------------------------------------------------
\* The initial state has no votes and no row.
LEMMA ConsensusInit == Init => IInv
  BY ConsensusAssumption DEF Init, IInv, TypeOK, Witness, Call, NoCall

\* The elements of a sequence over S are in S, at natural positions.
LEMMA SeqElements ==
  ASSUME NEW S, NEW q \in Seq(S)
  PROVE  \A n \in DOMAIN q : n \in Nat /\ q[n] \in S
  OBVIOUS

\* What appending vote w to the log leaves alone.
LEMMA AppendVote ==
  ASSUME TypeOK,
         NEW w \in [snapshot : Snapshots, disposition : Disposition],
         votes' = Append(votes, w)
  PROVE  /\ votes' \in Seq([snapshot : Snapshots, disposition : Disposition])
         /\ DOMAIN votes' = DOMAIN votes \union {Len(votes) + 1}
         /\ \A n \in DOMAIN votes : votes'[n] = votes[n] /\ n <= Len(votes)
         /\ votes'[Len(votes) + 1] = w
  BY DEF TypeOK

\* Recording the vote of a full snapshot preserves the invariant.
LEMMA RecordVote ==
  ASSUME IInv, NEW s \in Snapshots, NEW d \in Disposition, record_vote(s, d),
         \/ d = "ACCEPTED_FIRST"
         \/ \E n \in DOMAIN votes : previous(n) /\ d = disposition(votes[n].snapshot, s)
  PROVE  /\ votes' \in Seq([snapshot : Snapshots, disposition : Disposition])
         /\ row' \in [hash : Nat, count : Nat]
         /\ Witness'
<1> DEFINE w == [snapshot |-> s, disposition |-> d]
<1> PICK l : l = Len(votes) + 1
  OBVIOUS
<1>1. w \in [snapshot : Snapshots, disposition : Disposition] /\ votes' = Append(votes, w)
  BY DEF record_vote
<1>2. /\ votes' \in Seq([snapshot : Snapshots, disposition : Disposition])
      /\ DOMAIN votes' = DOMAIN votes \union {l}
      /\ \A n \in DOMAIN votes : votes'[n] = votes[n] /\ n <= Len(votes)
      /\ votes'[l] = w
  BY <1>1, AppendVote DEF IInv
<1>3. /\ s.hash \in Nat /\ s.asOf \in Nat
      /\ \A n \in DOMAIN votes : n \in Nat /\ votes[n].snapshot.asOf \in Nat
  <2>1. \A t \in Snapshots : t.hash \in Nat /\ t.asOf \in Nat
    BY ConsensusAssumption DEF Snapshot
  <2>2. \A n \in DOMAIN votes :
          n \in Nat /\ votes[n] \in [snapshot : Snapshots, disposition : Disposition]
    BY SeqElements DEF IInv, TypeOK
  <2> QED BY <2>1, <2>2
<1>4. row' \in [hash : Nat, count : Nat]
  BY <1>3 DEF record_vote, count_after, IInv, TypeOK, Disposition
<1>5. Witness'
  <2>1. SUFFICES ASSUME row'.count >= 2
                 PROVE  \E m, n \in DOMAIN votes' :
                           /\ accepted(m)' /\ previous(n)' /\ agree(m, n)'
                           /\ votes'[n].snapshot.hash = row'.hash
    BY DEF Witness
  <2>2. PICK k \in DOMAIN votes : previous(k) /\ d = disposition(votes[k].snapshot, s)
    BY <2>1 DEF record_vote, count_after, IInv, TypeOK
  <2>3. CASE d = "ACCEPTED_INDEPENDENT"
    <3>1. authority_equivalence(votes[k].snapshot, s) /\ independent(votes[k].snapshot, s)
      BY <2>2, <2>3 DEF disposition
    <3>2. accepted(k)' /\ accepted(l)'
      BY <1>2, <2>2, <2>3 DEF accepted, previous
    <3>3. previous(l)'
      BY <1>2, <1>3, <2>2, <3>1, <3>2 DEF previous, accepted, independent
    <3>4. agree(k, l)'
      BY <1>2, <3>1 DEF agree
    <3>5. votes'[l].snapshot.hash = row'.hash
      BY <1>2 DEF record_vote
    <3> QED BY <1>2, <3>2, <3>3, <3>4, <3>5
  <2>4. CASE d = "REJECTED_NON_INDEPENDENT"
    <3>1. row.count >= 2
      BY <2>1, <2>4 DEF record_vote, count_after
    <3>2. PICK m, n \in DOMAIN votes :
            accepted(m) /\ previous(n) /\ agree(m, n) /\ votes[n].snapshot.hash = row.hash
      BY <3>1 DEF IInv, Witness
    <3>3. n = k
      BY <1>3, <2>2, <3>2 DEF previous
    <3>4. votes[n].snapshot.hash = s.hash
      BY <2>2, <2>4, <3>3 DEF disposition, authority_equivalence
    <3>5. accepted(m)' /\ agree(m, n)'
      BY <1>2, <3>2 DEF accepted, agree
    <3>6. previous(n)'
      BY <1>2, <2>4, <3>2 DEF previous, accepted
    <3>7. votes'[n].snapshot.hash = row'.hash
      BY <1>2, <3>4 DEF record_vote
    <3> QED BY <1>2, <3>5, <3>6, <3>7
  <2>5. CASE d \in {"ACCEPTED_FIRST", "ACCEPTED_DIVERGENT_RESET"}
    BY <2>1, <2>5 DEF record_vote, count_after
  <2> QED BY <2>3, <2>4, <2>5 DEF Disposition
<1> QED BY <1>2, <1>4, <1>5

\* Registering a snapshot preserves the invariant.
LEMMA RegisterStep ==
  ASSUME IInv, NEW c \in Callers, register_snapshot_consensus(c)
  PROVE  IInv'
<1> DEFINE s == calls[c].snapshot
<1>1. calls[c] \in [step : {"register", "pending", "reconcile", "promote", "reject"},
                    snapshot : Snapshots]
  BY DEF IInv, TypeOK, Call, NoCall, register_snapshot_consensus
<1>2. calls' \in [Callers -> Call]
  BY <1>1 DEF IInv, TypeOK, Call, register_snapshot_consensus, goes_on
<1>3. /\ votes' \in Seq([snapshot : Snapshots, disposition : Disposition])
      /\ row' \in [hash : Nat, count : Nat]
      /\ Witness'
  <2>1. CASE UNCHANGED <<votes, row>>
    BY <2>1 DEF IInv, TypeOK, Witness, accepted, previous, agree
  <2>2. CASE record_vote(s, "ACCEPTED_FIRST")
    BY <1>1, <2>2, RecordVote DEF Disposition
  <2>3. CASE \E n \in DOMAIN votes :
               previous(n) /\ record_vote(s, disposition(votes[n].snapshot, s))
    <3>1. PICK n \in DOMAIN votes : previous(n) /\ record_vote(s, disposition(votes[n].snapshot, s))
      BY <2>3
    <3>2. disposition(votes[n].snapshot, s) \in Disposition
      BY DEF disposition, Disposition
    <3> QED BY <1>1, <3>1, <3>2, RecordVote
  <2> QED BY <2>1, <2>2, <2>3 DEF register_snapshot_consensus
<1> QED BY <1>2, <1>3 DEF IInv, TypeOK, register_snapshot_consensus

\* Every step preserves the invariant.
LEMMA ConsensusStep == IInv /\ [Next]_vars => IInv'
<1> SUFFICES ASSUME IInv, [Next]_vars PROVE IInv'
  OBVIOUS
<1>1. CASE UNCHANGED vars
  BY <1>1 DEF vars, IInv, TypeOK, Witness, accepted, previous, agree
<1>2. CASE Next
  <2>1. PICK c \in Callers :
          \/ \E s \in Snapshots : observe(c, s)
          \/ register_snapshot_consensus(c)
          \/ register_without_metadata(c)
          \/ incomplete(c)
          \/ awaiting_consensus(c)
          \/ reconcile_critical(c)
          \/ reconcile_degraded(c)
          \/ reconcile_converged(c)
          \/ record_broker_snapshot_authority(c)
          \/ authority_rejected(c)
          \/ crash(c)
    BY <1>2 DEF Next
  <2>2. CASE register_snapshot_consensus(c)
    BY <2>2, RegisterStep
  <2>3. CASE ~register_snapshot_consensus(c)
    <3>1. UNCHANGED <<votes, row>>
      BY <2>1, <2>3 DEF observe, register_without_metadata, incomplete, awaiting_consensus,
         reconcile_critical, reconcile_degraded, reconcile_converged,
          record_broker_snapshot_authority,
         authority_rejected, crash
    <3>2. Witness'
      BY <3>1 DEF IInv, Witness, accepted, previous, agree
    <3>3. calls' \in [Callers -> Call] /\ authority' \in SUBSET Snapshots
      <4>1. calls \in [Callers -> Call] /\ calls[c] \in Call /\ authority \in SUBSET Snapshots
        BY DEF IInv, TypeOK
      <4>2. CASE \E s \in Snapshots : observe(c, s)
        BY <4>1, <4>2 DEF observe, Call
      <4>3. CASE incomplete(c) \/ awaiting_consensus(c) \/ reconcile_critical(c)
                 \/ reconcile_degraded(c) \/ authority_rejected(c) \/ crash(c)
        BY <4>1, <4>3 DEF incomplete, awaiting_consensus, reconcile_critical, reconcile_degraded,
           authority_rejected, crash, Call
      <4>4. CASE register_without_metadata(c)
        <5>1. calls' = [calls EXCEPT ![c].step = "pending"] /\ calls[c].step = "register"
          BY <4>4 DEF register_without_metadata
        <5>2. calls[c] \in [step : {"register", "pending", "reconcile", "promote", "reject"},
                            snapshot : Snapshots]
          BY <4>1, <5>1 DEF Call, NoCall
        <5>3. authority' = authority
          BY <4>4 DEF register_without_metadata
        <5> QED BY <4>1, <5>1, <5>2, <5>3 DEF Call
      <4>5. CASE reconcile_converged(c)
        BY <4>1, <4>5 DEF reconcile_converged, Call, NoCall
      <4>6. CASE record_broker_snapshot_authority(c)
        BY <4>1, <4>6 DEF record_broker_snapshot_authority, Call, NoCall
      <4> QED BY <2>1, <2>3, <4>2, <4>3, <4>4, <4>5, <4>6
    <3> QED BY <3>1, <3>2, <3>3 DEF IInv, TypeOK
  <2> QED BY <2>2, <2>3
<1> QED BY <1>1, <1>2

\* The invariant gives the property: the pair it names are the two witnesses.
LEMMA WitnessSuffices == IInv => ConsensusIsWitnessed
  BY DEF IInv, Witness, ConsensusIsWitnessed, witnessed, agree, previous,
     authority_equivalence, independent

\* In every behaviour, with any snapshots, any number of callers and replays allowed, a
\* consensus row with a count of two or more is backed by two accepted, equivalent and
\* independent votes for the state it names (register_snapshot_consensus).
THEOREM ConsensusWitnessed == Spec => []ConsensusIsWitnessed
<1>1. Init => IInv
  BY ConsensusInit
<1>2. IInv /\ [Next]_vars => IInv'
  BY ConsensusStep
<1>3. IInv => ConsensusIsWitnessed
  BY WitnessSuffices
<1> QED BY <1>1, <1>2, <1>3, PTL DEF Spec

-----------------------------------------------------------------------------
(* Authority, when no observation is handed in twice.                      *)

\* Calls that have not voted yet carry new observations, no two of them the same one,
\* and a call that got past the vote carries a witnessed state.
CallInv ==
    /\ \A c \in Callers : calls[c].step = "register" => ~registered(calls[c].snapshot)
    /\ \A c, d \in Callers :
         c # d /\ calls[c].step # "idle" /\ calls[d].step # "idle"
            => calls[c].snapshot # calls[d].snapshot
    /\ \A c \in Callers :
         calls[c].step \in {"reconcile", "promote"} => witnessed(calls[c].snapshot.hash)

AInv == IInv /\ CallInv /\ AuthorityIsWitnessed

\* Votes are never lost, so a witnessed state stays witnessed.
LEMMA WitnessedStays ==
  ASSUME IInv,
         \/ UNCHANGED votes
         \/ \E w \in [snapshot : Snapshots, disposition : Disposition] : votes' = Append(votes, w),
         NEW h, witnessed(h)
  PROVE  witnessed(h)'
<1>1. CASE UNCHANGED votes
  BY <1>1 DEF witnessed, accepted
<1>2. CASE \E w \in [snapshot : Snapshots, disposition : Disposition] : votes' = Append(votes, w)
  <2>1. /\ DOMAIN votes \subseteq DOMAIN votes'
        /\ \A n \in DOMAIN votes : votes'[n] = votes[n]
    BY <1>2, AppendVote DEF IInv
  <2> QED BY <2>1 DEF witnessed, accepted
<1> QED BY <1>1, <1>2

\* Only a registration writes votes, and it appends one at most.
LEMMA VotesGrow ==
  ASSUME IInv, NEW c \in Callers, register_snapshot_consensus(c), ~registered(calls[c].snapshot)
  PROVE  /\ calls[c].snapshot \in Snapshots
         /\ row'.hash = calls[c].snapshot.hash
         /\ \E w \in [snapshot : Snapshots, disposition : Disposition] :
              votes' = Append(votes, w) /\ w.snapshot = calls[c].snapshot
<1>1. calls[c].snapshot \in Snapshots
  BY DEF IInv, TypeOK, Call, NoCall, register_snapshot_consensus
<1>2. PICK d \in Disposition : record_vote(calls[c].snapshot, d)
  BY DEF register_snapshot_consensus, disposition, Disposition
<1>3. votes' = Append(votes, [snapshot |-> calls[c].snapshot, disposition |-> d])
  BY <1>2 DEF record_vote
<1>4. row'.hash = calls[c].snapshot.hash
  BY <1>2 DEF record_vote
<1> QED BY <1>1, <1>3, <1>4

\* Observation ids are unique and none is handed in twice.
NoReplay ==
    /\ ~Replays
    /\ \A s, t \in Snapshots : s.observation = t.observation => s = t

\* A registration preserves the invariant about calls.
LEMMA RegisterKeepsCalls ==
  ASSUME NoReplay, AInv, NEW c \in Callers, register_snapshot_consensus(c)
  PROVE  CallInv' /\ AuthorityIsWitnessed'
<1> DEFINE s == calls[c].snapshot
<1>1. calls[c].step = "register" /\ ~registered(s)
  BY DEF register_snapshot_consensus, AInv, CallInv
<1>2. /\ s \in Snapshots
      /\ row'.hash = s.hash
      /\ \E w \in [snapshot : Snapshots, disposition : Disposition] :
           votes' = Append(votes, w) /\ w.snapshot = s
  BY <1>1, VotesGrow DEF AInv
<1>3. PICK w \in [snapshot : Snapshots, disposition : Disposition] :
         votes' = Append(votes, w) /\ w.snapshot = s
  BY <1>2
<1>4. \A h : witnessed(h) => witnessed(h)'
  BY <1>3, WitnessedStays DEF AInv
<1>5. calls' = [calls EXCEPT ![c].step = IF row'.count >= 2 THEN "reconcile" ELSE "pending"]
      /\ authority' = authority
  BY DEF register_snapshot_consensus, goes_on
<1>6. calls \in [Callers -> Call]
  BY DEF AInv, IInv, TypeOK
<1>7. /\ \A d \in Callers : calls'[d].snapshot = calls[d].snapshot
      /\ \A d \in Callers \ {c} : calls'[d] = calls[d]
      /\ calls'[c].step = IF row'.count >= 2 THEN "reconcile" ELSE "pending"
  <2>1. calls[c] \in [step : {"register", "pending", "reconcile", "promote", "reject"},
                      snapshot : Snapshots]
    BY <1>1, <1>6 DEF Call, NoCall
  <2> QED BY <1>5, <1>6, <2>1
<1>8. AuthorityIsWitnessed'
  BY <1>4, <1>5 DEF AInv, AuthorityIsWitnessed
<1>9. ASSUME NEW d \in Callers, calls'[d].step = "register"
      PROVE  ~registered(calls[d].snapshot)'
  <2>1. d # c /\ calls[d].step = "register"
    BY <1>7, <1>9
  <2>2. calls[d].snapshot # s /\ ~registered(calls[d].snapshot)
    BY <1>1, <2>1 DEF AInv, CallInv
  <2>3. calls[d].snapshot \in Snapshots
    BY <1>6, <2>1 DEF Call, NoCall
  <2>4. calls[d].snapshot.observation # s.observation
    BY <1>2, <2>2, <2>3 DEF NoReplay
  <2>5. \A n \in DOMAIN votes' : (n \in DOMAIN votes /\ votes'[n] = votes[n]) \/ votes'[n] = w
    BY <1>3, AppendVote DEF AInv, IInv
  <2>6. calls'[d].snapshot = calls[d].snapshot
    BY <1>7
  <2> QED BY <1>3, <2>2, <2>4, <2>5, <2>6 DEF registered
<1>10. ASSUME NEW d \in Callers, NEW e \in Callers, d # e,
              calls'[d].step # "idle", calls'[e].step # "idle"
       PROVE  calls'[d].snapshot # calls'[e].snapshot
  BY <1>1, <1>7, <1>10 DEF AInv, CallInv
<1>11. ASSUME NEW d \in Callers, calls'[d].step \in {"reconcile", "promote"}
       PROVE  witnessed(calls[d].snapshot.hash)'
  <2>1. CASE d # c
    BY <1>4, <1>7, <1>11, <2>1 DEF AInv, CallInv
  <2>2. CASE d = c
    <3>1. row'.count >= 2
      BY <1>7, <1>11, <2>2
    <3>2. ConsensusIsWitnessed'
      <4>1. IInv'
        BY RegisterStep DEF AInv
      <4> QED BY <4>1, WitnessSuffices, PTL
    <3>3. witnessed(row.hash)'
      BY <3>1, <3>2 DEF ConsensusIsWitnessed
    <3> QED BY <1>2, <1>7, <2>2, <3>3 DEF witnessed, accepted
  <2> QED BY <2>1, <2>2
<1> QED BY <1>8, <1>9, <1>10, <1>11 DEF CallInv

\* Every step preserves the invariant about calls.
LEMMA AuthorityStep == NoReplay /\ AInv /\ [Next]_vars => AInv'
<1> SUFFICES ASSUME NoReplay, AInv, [Next]_vars PROVE AInv'
  OBVIOUS
<1>1. IInv'
  BY ConsensusStep DEF AInv
<1>2. CallInv' /\ AuthorityIsWitnessed'
  <2>1. CASE UNCHANGED vars
    BY <2>1 DEF vars, AInv, CallInv, AuthorityIsWitnessed, registered, witnessed, accepted
  <2>2. ASSUME NEW c \in Callers, register_snapshot_consensus(c)
        PROVE  CallInv' /\ AuthorityIsWitnessed'
    BY <2>2, RegisterKeepsCalls
  <2>3. ASSUME NEW c \in Callers, UNCHANGED votes,
               \/ \E s \in Snapshots : observe(c, s)
               \/ register_without_metadata(c)
               \/ incomplete(c)
               \/ awaiting_consensus(c)
               \/ reconcile_critical(c)
               \/ reconcile_degraded(c)
               \/ reconcile_converged(c)
               \/ record_broker_snapshot_authority(c)
               \/ authority_rejected(c)
               \/ crash(c)
        PROVE  CallInv' /\ AuthorityIsWitnessed'
    <3> DEFINE s == calls[c].snapshot
    <3>1. /\ \A h : witnessed(h)' <=> witnessed(h)
          /\ \A t : registered(t)' <=> registered(t)
      BY <2>3 DEF witnessed, accepted, registered
    <3>2. calls \in [Callers -> Call]
      BY DEF AInv, IInv, TypeOK
    <3>3. CASE \E t \in Snapshots : observe(c, t)
      <4>1. PICK t \in Snapshots : observe(c, t)
        BY <3>3
      <4>2. /\ calls' = [calls EXCEPT ![c] = [step |-> "register", snapshot |-> t]]
            /\ ~registered(t)
            /\ \A d \in Callers : calls[d].step # "idle" => calls[d].snapshot # t
            /\ authority' = authority
        BY <4>1 DEF observe, NoReplay
      <4>3. CallInv'
        BY <3>1, <3>2, <4>2 DEF AInv, CallInv
      <4> QED BY <3>1, <4>2, <4>3 DEF AInv, AuthorityIsWitnessed
    <3>4. CASE \/ incomplete(c) \/ awaiting_consensus(c) \/ reconcile_critical(c)
               \/ reconcile_degraded(c) \/ authority_rejected(c) \/ crash(c)
      <4>1. calls' = [calls EXCEPT ![c] = NoCall] /\ authority' = authority
        BY <3>4 DEF incomplete, awaiting_consensus, reconcile_critical, reconcile_degraded,
                   authority_rejected, crash
      <4>2. CallInv'
        BY <3>1, <3>2, <4>1 DEF AInv, CallInv, NoCall
      <4> QED BY <3>1, <4>1, <4>2 DEF AInv, AuthorityIsWitnessed
    <3>5. CASE register_without_metadata(c) \/ reconcile_converged(c)
      <4>1. PICK q \in {"pending", "promote"} :
              /\ calls' = [calls EXCEPT ![c].step = q]
              /\ calls[c].step # "idle"
              /\ q = "promote" => calls[c].step = "reconcile"
              /\ authority' = authority
        BY <3>5 DEF register_without_metadata, reconcile_converged
      <4>2. calls[c] \in [step : {"register", "pending", "reconcile", "promote", "reject"},
                          snapshot : Snapshots]
        BY <3>2, <4>1 DEF Call, NoCall
      <4>3. /\ \A d \in Callers : calls'[d].snapshot = calls[d].snapshot
            /\ \A d \in Callers \ {c} : calls'[d] = calls[d]
            /\ calls'[c].step = q
        BY <3>2, <4>1, <4>2
      <4>4. CallInv'
        BY <3>1, <4>1, <4>3 DEF AInv, CallInv
      <4> QED BY <3>1, <4>1, <4>4 DEF AInv, AuthorityIsWitnessed
    <3>6. CASE record_broker_snapshot_authority(c)
      <4>1. /\ calls[c].step = "promote"
            /\ authority' \in {authority, authority \union {s}}
            /\ \/ calls' = [calls EXCEPT ![c] = NoCall]
               \/ calls' = [calls EXCEPT ![c].step = "reject"]
        BY <3>6 DEF record_broker_snapshot_authority
      <4>2. AuthorityIsWitnessed'
        BY <3>1, <4>1 DEF AInv, CallInv, AuthorityIsWitnessed
      <4>3. calls[c] \in [step : {"register", "pending", "reconcile", "promote", "reject"},
                          snapshot : Snapshots]
        BY <3>2, <4>1 DEF Call, NoCall
      <4>4. /\ \A d \in Callers \ {c} : calls'[d] = calls[d]
            /\ calls'[c].step \in {"idle", "reject"}
            /\ calls'[c].step # "idle" => calls'[c].snapshot = calls[c].snapshot
        BY <3>2, <4>1, <4>3 DEF NoCall
      <4>5. CallInv'
        BY <3>1, <4>1, <4>4 DEF AInv, CallInv
      <4> QED BY <4>2, <4>5
    <3> QED BY <2>3, <3>3, <3>4, <3>5, <3>6
  <2>4. CASE Next
    BY <2>2, <2>3, <2>4 DEF Next, observe, register_without_metadata, incomplete,
       awaiting_consensus, reconcile_critical, reconcile_degraded, reconcile_converged,
       record_broker_snapshot_authority, authority_rejected, crash
  <2> QED BY <2>1, <2>4
<1> QED BY <1>1, <1>2 DEF AInv

\* If no observation is handed in twice, every snapshot that reconcile_authoritative ever
\* promotes to broker authority shows a state two independent observations agree on,
\* although other callers may vote for other states between its vote and its promotion.
THEOREM AuthorityWitnessed == NoReplay /\ Spec => []AuthorityIsWitnessed
<1>1. Init => AInv
  <2>1. Init => CallInv /\ AuthorityIsWitnessed
    BY DEF Init, CallInv, AuthorityIsWitnessed, NoCall
  <2> QED BY <2>1, ConsensusInit DEF AInv
<1>2. NoReplay /\ AInv /\ [Next]_vars => AInv'
  BY AuthorityStep
<1>3. AInv => AuthorityIsWitnessed
  BY DEF AInv
<1> QED
  <2>1. CASE NoReplay
    <3>1. AInv /\ [Next]_vars => AInv'
      BY <1>2, <2>1
    <3> QED BY <1>1, <1>3, <3>1, PTL DEF Spec
  <2>2. CASE ~NoReplay
    BY <2>2
  <2> QED BY <2>1, <2>2

(* The observer: types.                                                    *)

FactType == {"ITEM", "END", "UPDATE", "ERROR", "DISCONNECT", "CONNECTION", "DRAIN_WATERMARK"}
Fact == [session : Nat, type : FactType, request : Requests \union {"-"}, n : Int, origin : Nat]
ThreadStep == {"idle", "record", "check", "put", "accept", "drop", "write", "written", "gone"}
Thread == [pc : ThreadStep, fact : Fact]

\* Every variable of the observer the proofs look at keeps its type.
ObsTypes ==
    /\ session \in 0 .. MaxSessions
    /\ DOMAIN see = DOMAIN Unseen
    /\ DOMAIN certs = Sessions
    /\ sent \in [Sessions -> [Requests -> Nat]]
    /\ conn \in [Sessions -> {"none", "up", "lost", "closed"}]
    /\ net \in [Sessions -> Thread]
    /\ writer \in Thread
    /\ queue \in Seq(Fact)
    /\ tape \in SUBSET Fact

LEMMA FactTyped ==
  ASSUME NEW s \in Nat, NEW type \in FactType, NEW r \in Requests \union {"-"}, NEW n \in Int
  PROVE  fact(s, type, r, n, s) \in Fact
  BY DEF fact, Fact

LEMMA ThreadFacts ==
  /\ Gone \in Thread /\ Gone.pc = "gone"
  /\ Ready \in Thread /\ Ready.pc = "idle"
  /\ \A x, f : Busy(x, f).pc = x /\ Busy(x, f).fact = f
  /\ \A x \in ThreadStep, f \in Fact : Busy(x, f) \in Thread
  /\ Sentinel \in Fact
<1>1. NoFact \in Fact /\ Sentinel \in Fact
  BY DEF NoFact, Sentinel, FactType, Fact, fact
<1> QED BY <1>1 DEF Gone, Ready, Busy, Thread, ThreadStep

-----------------------------------------------------------------------------
(* The observer: threads.                                                  *)

\* The steps at which the main thread reads what it certifies, and its last ones.
Reading == {"depth", "accepted", "written", "dropped", "error", "count", "certify"}
Ended == {"final", "reduce", "returned"}

\* The current session's network thread is not yet started or has been joined.
Silent == closed \/ see.final \/ pc \in {"connect", "close", "sentinel", "join_writer"} \union Ended

\* A callback has a fact in hand.
InCall == {"record", "check", "put"}

\* What the joins give the last certificate: only the current session's network thread
\* runs, and only before its join; once the writer is joined it has ended or there is an
\* error; the error the last certificate is given is the one there is, and the queue it
\* calls drained is empty; and whatever was lost made an error or is about to.
ThreadInv ==
    /\ pc = "idle" => session = 0
    /\ pc # "idle" => session \in Sessions
    /\ \A s \in Sessions : s # session \/ Silent => net[s] = Gone
    /\ \A s \in Sessions : net[s].pc \in InCall => net[s].fact.session = session
    /\ see.final => pc \in Reading
    /\ closed => see.final \/ pc \in {"sentinel", "join_writer", "raised"} \union Ended
    /\ see.final \/ pc \in Ended => error \/ writer = Gone
    /\ see.final /\ pc \in {"count", "certify"} => see.error = error
    /\ see.final /\ see.drained => queue = <<>>
    /\ lost # {} => error \/ \E s \in Sessions : net[s].pc = "drop"

\* One more of the values a certificate is computed from has been read.
ReadMove ==
    /\ reading
    /\ pc \in Reading \ {"certify"} /\ pc' \in Reading
    /\ see'.final = see.final /\ see'.drained = see.drained /\ DOMAIN see' = DOMAIN see
    /\ pc' \in {"count", "certify"} =>
         see'.error = error \/ (pc = "count" /\ see'.error = see.error)

LEMMA ReadMoves ==
  ASSUME ObsTypes, read
  PROVE  ReadMove
<1> USE DEF ObsTypes, Unseen, at, goto, ReadMove, Reading
<1>1. CASE read_depth
  BY <1>1 DEF read_depth
<1>2. CASE read_accepted
  BY <1>2 DEF read_accepted
<1>3. CASE read_written
  BY <1>3 DEF read_written
<1>4. CASE read_dropped
  BY <1>4 DEF read_dropped
<1>5. CASE read_writer_error
  <2>1. ASSUME NEW x
        PROVE  /\ [see EXCEPT !.error = x].error = x
               /\ [see EXCEPT !.error = x].final = see.final
               /\ [see EXCEPT !.error = x].drained = see.drained
               /\ DOMAIN [see EXCEPT !.error = x] = DOMAIN see
    OBVIOUS
  <2>2. see' = [see EXCEPT !.error = error] /\ reading /\ pc = "error" /\ pc' = "count"
    BY <1>5 DEF read_writer_error
  <2>3. /\ see'.error = error /\ see'.final = see.final /\ see'.drained = see.drained
        /\ DOMAIN see' = DOMAIN see
    BY <2>1, <2>2, Zenon
  <2> QED BY <2>2, <2>3, Zenon
<1>6. CASE read_fact_count
  BY <1>6 DEF read_fact_count
<1> QED BY <1>1, <1>2, <1>3, <1>4, <1>5, <1>6 DEF read

\* A step of a network thread other than the loss of the connection is one of the current
\* session's, before the join.
LEMMA NetworkCurrent ==
  ASSUME ThreadInv, NEW s \in Sessions, network(s), ~connection_lost(s)
  PROVE  s = session /\ ~Silent
<1>1. net[s].pc # "gone"
  BY ThreadFacts DEF network, answer, unsolicited, connectionClosed, record, write_draft_check,
     write_draft_put, write_draft_accept, write_draft_drop
<1> QED BY <1>1, ThreadFacts DEF ThreadInv

LEMMA FactAppended == \A q \in Seq(Fact), f \in Fact : Append(q, f) \in Seq(Fact)
  OBVIOUS

LEMMA FactStamped == \A f \in Fact, s \in Nat : [f EXCEPT !.session = s] \in Fact
  BY DEF Fact

LEMMA CallbackTyped ==
  ASSUME ObsTypes, NEW s \in Sessions, NEW type \in FactType, NEW r \in Requests \union {"-"},
         NEW n \in Int, callback(s, type, r, n)
  PROVE  net' \in [Sessions -> Thread]
<1>1. s \in Nat
  BY ObserverAssumption DEF Sessions
<1>2. Busy("record", fact(s, type, r, n, s)) \in Thread
  BY <1>1, FactTyped, ThreadFacts DEF ThreadStep
<1>3. PICK x \in Thread : net' = [net EXCEPT ![s] = x]
  BY <1>2, ThreadFacts DEF callback
<1> QED BY <1>3 DEF ObsTypes

LEMMA TypesStep == ObsTypes /\ ThreadInv /\ [ObsNext]_obsVars => ObsTypes'
<1> SUFFICES ASSUME ObsTypes, ThreadInv, [ObsNext]_obsVars PROVE ObsTypes'
  OBVIOUS
<1> USE DEF ObsTypes
<1>0. /\ Sessions \subseteq Nat \ {0} /\ MaxSessions \in Nat /\ MaxSessions \in Int /\ Items \in Nat
      /\ \A s \in Sessions : net[s] \in Thread
  BY ObserverAssumption DEF Sessions
<1>1. CASE UNCHANGED obsVars
  BY <1>1 DEF obsVars, mainVars, brokerVars, bridgeVars
<1>2. ASSUME NEW s \in Sessions, network(s) PROVE ObsTypes'
  <2> USE <1>0 DEF mainVars, brokerVars, bridgeVars
  <2>1. net[s] \in Thread
    OBVIOUS
  <2>2. ASSUME NEW r \in Requests, answer(s, r) PROVE ObsTypes'
    <3>1. sent[s][r] \in Nat /\ sent[s] \in [Requests -> Nat]
      OBVIOUS
    <3>2. PICK type \in {"ITEM", "END"} : callback(s, type, r, sent[s][r])
      BY <2>2 DEF answer
    <3>4. net' \in [Sessions -> Thread]
      BY <3>1, <3>2, CallbackTyped DEF FactType
    <3>3. sent' \in [Sessions -> [Requests -> Nat]]
      BY <2>2, <3>1 DEF answer
    <3> QED BY <2>2, <3>3, <3>4 DEF answer
  <2>3. ASSUME NEW type \in {"UPDATE", "ERROR"}, unsolicited(s, type) PROVE ObsTypes'
    <3>0. callback(s, type, "-", 0) /\ type \in FactType /\ "-" \in Requests \union {"-"}
      BY <2>3 DEF unsolicited, FactType
    <3>1. net' \in [Sessions -> Thread]
      <4> HIDE DEF ObsTypes
      <4> QED BY <3>0, CallbackTyped
    <3> QED BY <2>3, <3>1 DEF unsolicited
  <2>4. CASE connection_lost(s)
    BY <2>4 DEF connection_lost
  <2>5. CASE connectionClosed(s)
    <3>0. callback(s, "DISCONNECT", "-", 0) /\ "DISCONNECT" \in FactType
          /\ "-" \in Requests \union {"-"}
      BY <2>5 DEF connectionClosed, FactType
    <3>1. net' \in [Sessions -> Thread]
      <4> HIDE DEF ObsTypes
      <4> QED BY <3>0, CallbackTyped
    <3> QED BY <2>5, <3>1 DEF connectionClosed
  <2>6. CASE record(s)
    <3>1. PICK x \in Thread : net' = [net EXCEPT ![s] = x]
      <4>1. [net[s].fact EXCEPT !.session = session] \in Fact
        BY <2>1, FactStamped DEF Thread
      <4>2. Busy("check", [net[s].fact EXCEPT !.session = session]) \in Thread
        BY <4>1, ThreadFacts DEF ThreadStep
      <4> QED BY <2>6, <4>2, ThreadFacts DEF record
    <3> QED BY <2>6, <3>1 DEF record
  <2>7. after(s) \in Thread /\ \A x \in ThreadStep : [net[s] EXCEPT !.pc = x] \in Thread
    BY <2>1, ThreadFacts DEF after, Thread
  <2>8. CASE write_draft_check(s)
    <3>1. PICK x \in Thread : net' = [net EXCEPT ![s] = x]
      BY <2>7, <2>8 DEF write_draft_check, ThreadStep
    <3> QED BY <2>8, <3>1 DEF write_draft_check
  <2>9. CASE write_draft_put(s)
    <3>1. PICK x \in Thread : net' = [net EXCEPT ![s] = x]
      BY <2>7, <2>9 DEF write_draft_put, ThreadStep
    <3>2. PICK f \in Fact : f = net[s].fact
      BY <2>1 DEF Thread
    <3>3. queue' = queue \/ queue' = Append(queue, f)
      BY <2>9, <3>2 DEF write_draft_put, put
    <3>4. Append(queue, f) \in Seq(Fact) /\ queue \in Seq(Fact)
      BY FactAppended
    <3>5. queue' \in Seq(Fact)
      BY <3>3, <3>4
    <3> QED BY <2>9, <3>1, <3>5 DEF write_draft_put
  <2>10. CASE write_draft_accept(s)
    BY <2>7, <2>10 DEF write_draft_accept
  <2>11. CASE write_draft_drop(s)
    BY <2>7, <2>11 DEF write_draft_drop
  <2> QED BY <1>2, <2>2, <2>3, <2>4, <2>5, <2>6, <2>8, <2>9, <2>10, <2>11 DEF network
<1>3. CASE run
  <2> USE <1>0, ThreadFacts DEF mainVars, brokerVars, bridgeVars
  <2>1. CASE run_get
    <3>1. Head(queue) \in Fact /\ Tail(queue) \in Seq(Fact)
      BY <2>1 DEF run_get
    <3>2. Busy("write", Head(queue)) \in Thread
      BY <3>1 DEF ThreadStep
    <3> QED BY <2>1, <3>1, <3>2 DEF run_get
  <2>2. CASE run_write
    <3>1. writer.fact \in Fact /\ NoFact \in Fact
      BY DEF Thread, NoFact, fact, Fact, FactType
    <3>2. Busy("written", NoFact) \in Thread
      BY <3>1 DEF ThreadStep
    <3> QED BY <2>2, <3>1, <3>2 DEF run_write
  <2>3. CASE run_written \/ run_raises
    BY <2>3 DEF run_written, run_raises
  <2> QED BY <1>3, <2>1, <2>2, <2>3 DEF run
<1>4. CASE main
  <2> USE DEF mainVars, brokerVars, bridgeVars, at, goto
  <2>1. CASE begin
    <3>1. net' \in [Sessions -> Thread] /\ writer' \in Thread
      BY <2>1, ThreadFacts DEF begin
    <3>2. session' \in 0 .. MaxSessions
      BY <1>0, <2>1 DEF begin
    <3> QED BY <2>1, <3>1, <3>2 DEF begin
  <2>2. CASE connect
    BY <2>2, ThreadFacts DEF connect
  <2>3. ASSUME NEW type \in FactType, write_draft_main(fact(session, type, "-", 0, session))
        PROVE  queue' \in Seq(Fact)
    <3>0. session \in Nat /\ "-" \in Requests \union {"-"} /\ 0 \in Int
      BY <1>0
    <3>1. fact(session, type, "-", 0, session) \in Fact
      <4> HIDE DEF ObsTypes
      <4> QED BY <3>0, FactTyped
    <3>2. queue' = queue \/ queue' = Append(queue, fact(session, type, "-", 0, session))
      BY <2>3 DEF write_draft_main, put
    <3> QED BY <3>1, <3>2
  <2>4. CASE record_connection \/ record_watermark
    BY <2>3, <2>4 DEF record_connection, record_watermark, FactType
  <2>5. CASE connect_timeout \/ request \/ detach \/ disconnect \/ join_network \/ close_closed \/ reduce
    BY <2>5 DEF connect_timeout, request, detach, disconnect, join_network, close_closed, reduce
  <2>6. CASE drain_caught_up \/ drain_empty \/ drain_timeout \/ final_drained
    BY <2>6 DEF drain_caught_up, drain_empty, drain_timeout, final_drained, reading, Unseen
  <2>7. CASE read
    BY <2>7, ReadMoves DEF ReadMove, reading
  <2>8. CASE certify
    BY <2>8 DEF certify, Unseen
  <2>9. CASE close_put
    BY <2>9, ThreadFacts DEF close_put, put
  <2>10. CASE close_join
    BY <2>10 DEF close_join
  <2> QED BY <1>4, <2>1, <2>2, <2>4, <2>5, <2>6, <2>7, <2>8, <2>9, <2>10 DEF main
<1> QED BY <1>1, <1>2, <1>3, <1>4 DEF ObsNext

LEMMA ThreadInit == ObsInit => ObsTypes /\ ThreadInv
<1>1. Sessions \subseteq Nat \ {0} /\ 0 \in 0 .. MaxSessions
  BY ObserverAssumption DEF Sessions
<1>2. <<>> \in Seq(Fact)
  OBVIOUS
<1>3. ObsInit => ObsTypes
  BY <1>1, <1>2, ThreadFacts DEF ObsInit, ObsTypes
<1>4. ObsInit => ThreadInv
  BY <1>1, ThreadFacts DEF ObsInit, ThreadInv, Silent, InCall, Reading, Ended, Unseen
<1> QED BY <1>3, <1>4

LEMMA ThreadKept == ~LateThread /\ ObsTypes /\ ThreadInv /\ [ObsNext]_obsVars => ThreadInv'
<1> SUFFICES ASSUME ~LateThread, ObsTypes, ThreadInv, [ObsNext]_obsVars PROVE ThreadInv'
  OBVIOUS
<1>0. /\ net \in [Sessions -> Thread] /\ Sessions \subseteq Nat \ {0} /\ session \in 0 .. MaxSessions
      /\ \A s \in Sessions : net[s] \in Thread
      /\ DOMAIN see = DOMAIN Unseen
  BY ObserverAssumption DEF ObsTypes, Sessions
<1> USE <1>0, ThreadFacts DEF ThreadInv, Silent, Reading, Ended, InCall
<1>1. CASE UNCHANGED obsVars
  BY <1>1 DEF obsVars, mainVars, brokerVars, bridgeVars
<1>2. ASSUME NEW s \in Sessions, network(s) PROVE ThreadInv'
  <2> USE DEF mainVars, brokerVars, bridgeVars
  <2>1. CASE connection_lost(s)
    BY <2>1 DEF connection_lost
  <2>2. CASE ~connection_lost(s)
    <3>1. s = session /\ ~Silent
      BY <1>2, <2>2, NetworkCurrent
    <3>2. \A t \in Sessions : t # s => net[t] = Gone
      BY <3>1
    <3>3. ASSUME NEW type, NEW r, NEW n, callback(s, type, r, n), net[s] = Ready,
                 UNCHANGED <<mainVars, bridgeVars, writer, lost>>
          PROVE  ThreadInv'
      BY <3>1, <3>2, <3>3 DEF callback, fact
    <3>4. CASE (\E r \in Requests : answer(s, r)) \/ connectionClosed(s)
               \/ \E type \in {"UPDATE", "ERROR"} : unsolicited(s, type)
      BY <3>3, <3>4 DEF answer, unsolicited, connectionClosed
    <3>5. CASE record(s)
      <4>1. \A f \in Fact : [f EXCEPT !.session = session].session = session
        BY DEF Fact
      <4>2. net[s].fact \in Fact
        BY DEF Thread
      <4>3. /\ \A t \in Sessions \ {s} : net'[t] = net[t]
            /\ net'[s].pc # "drop" /\ net[s].pc = "record"
            /\ net'[s].pc \in InCall => net'[s].fact.session = session
        <5>1. PICK f \in Fact : f = [net[s].fact EXCEPT !.session = session]
          BY <4>2, FactStamped
        <5>2. f.session = session
          BY <4>1, <4>2, <5>1
        <5>3. net' = [net EXCEPT ![s] = IF observer THEN Busy("check", f) ELSE Gone]
              /\ net[s].pc = "record"
          BY <3>5, <5>1 DEF record
        <5> QED BY <5>2, <5>3
      <4>4. UNCHANGED <<mainVars, bridgeVars, writer, lost>>
        BY <3>5 DEF record
      <4> QED BY <3>1, <3>2, <4>3, <4>4
    <3>6. CASE write_draft_check(s)
      <4>1. /\ net' = [net EXCEPT ![s].pc = "put"]
            /\ UNCHANGED <<lost, mainVars, bridgeVars, writer>>
        BY <3>1, <3>6 DEF write_draft_check
      <4>2. net'[s].pc = "put" /\ net'[s].fact = net[s].fact /\ net[s].pc = "check"
        BY <3>6, <4>1 DEF write_draft_check, Thread
      <4> QED BY <3>1, <3>2, <4>1, <4>2
    <3>7. CASE write_draft_put(s)
      <4>1. /\ \A t \in Sessions \ {s} : net'[t] = net[t]
            /\ net'[s].pc \in {"accept", "drop"} /\ net[s].pc = "put"
            /\ net'[s].pc = "drop" \/ lost' = lost
        BY <3>7 DEF write_draft_put, Thread
      <4>2. UNCHANGED <<mainVars, closed, error, writer>>
        BY <3>7 DEF write_draft_put
      <4> QED BY <3>1, <3>2, <4>1, <4>2
    <3>8. CASE write_draft_accept(s)
      BY <3>1, <3>2, <3>8 DEF write_draft_accept, after, Thread
    <3>9. CASE write_draft_drop(s)
      BY <3>1, <3>2, <3>9 DEF write_draft_drop, after, Thread
    <3> QED BY <1>2, <2>2, <3>4, <3>5, <3>6, <3>7, <3>8, <3>9 DEF network
  <2> QED BY <2>1, <2>2
<1>3. CASE run
  <2> USE DEF mainVars, brokerVars, bridgeVars
  <2>1. CASE run_get
    BY <2>1 DEF run_get
  <2>2. CASE run_write \/ run_written
    BY <2>2 DEF run_write, run_written
  <2>3. CASE run_raises
    BY <2>3 DEF run_raises
  <2> QED BY <1>3, <2>1, <2>2, <2>3 DEF run
<1>4. CASE main
  <2> USE DEF mainVars, brokerVars, bridgeVars, at, goto
  <2>1. CASE begin
    <3>1. \A s \in Sessions : net[s] = Gone
      BY <2>1 DEF begin, Sessions
    <3>2. ~see.final
      BY <2>1 DEF begin
    <3>3. session' \in Sessions
      BY <2>1, ObserverAssumption DEF begin, Sessions
    <3>4. \A s \in Sessions : net'[s] = Gone
      BY <2>1, <3>1 DEF begin
    <3> QED BY <2>1, <3>2, <3>3, <3>4 DEF begin
  <2>2. CASE connect
    <3>1. ~see.final /\ ~closed
      BY <2>2 DEF connect
    <3>2. \A s \in Sessions : s # session => net'[s] = net[s]
      BY <2>2 DEF connect
    <3>3. session \in Sessions /\ net'[session] = Ready
      BY <2>2 DEF connect
    <3>4. lost = {} \/ error \/ \E s \in Sessions : net'[s].pc = "drop"
      BY <2>2, <3>2 DEF connect
    <3> QED BY <2>2, <3>1, <3>2, <3>3, <3>4 DEF connect
  <2>3. CASE record_connection \/ record_watermark
    <3>1. ~see.final /\ ~closed /\ pc' \in {"request", "detach"}
      BY <2>3 DEF record_connection, record_watermark
    <3>2. UNCHANGED <<session, see, net, writer, closed>>
      BY <2>3 DEF record_connection, record_watermark, write_draft_main
    <3>3. (lost' = lost /\ error' = error) \/ error'
      BY <2>3 DEF record_connection, record_watermark, write_draft_main
    <3> QED BY <2>3, <3>1, <3>2, <3>3 DEF record_connection, record_watermark
  <2>4. CASE connect_timeout \/ request \/ detach \/ disconnect
    BY <2>4 DEF connect_timeout, request, detach, disconnect
  <2>5. CASE join_network \/ reduce
    BY <2>5 DEF join_network, reduce
  <2>6. CASE drain_caught_up \/ drain_empty \/ drain_timeout
    BY <2>6 DEF drain_caught_up, drain_empty, drain_timeout, reading, Unseen
  <2>7. CASE read
    BY <2>7, ReadMoves DEF ReadMove, reading
  <2>8. CASE certify
    BY <2>8 DEF certify, Unseen
  <2>9. CASE close_put
    BY <2>9 DEF close_put, put
  <2>10. CASE close_join
    BY <2>10 DEF close_join
  <2>11. CASE close_closed
    BY <2>11 DEF close_closed
  <2>12. CASE final_drained
    BY <2>12 DEF final_drained, reading, Unseen
  <2> QED BY <1>4, <2>1, <2>2, <2>3, <2>4, <2>5, <2>6, <2>7, <2>8, <2>9, <2>10, <2>11, <2>12
          DEF main
<1> QED BY <1>1, <1>2, <1>3, <1>4 DEF ObsNext

-----------------------------------------------------------------------------
(* The observer: the way of a fact.                                        *)

\* The facts on the tape or on their way to it ...
Queued == {queue[k] : k \in 1 .. Len(queue)}
Writing == {f \in {writer.fact} : writer.pc = "write"}
Stored == tape \union Queued \union Writing

\* ... and those a callback has in hand.
InHand == {net[s].fact : s \in {t \in Sessions : net[t].pc \in InCall}}

\* A fact that answers no request and does not report the end of the connection.
Plain(f) == f.type \notin {"ITEM", "END", "DISCONNECT"}

LEMMA QueuedAppend ==
  ASSUME queue \in Seq(Fact), NEW f \in Fact, queue' = Append(queue, f)
  PROVE  Queued' = Queued \union {f}
<1>1. /\ Len(queue') = Len(queue) + 1 /\ Len(queue) \in Nat
      /\ \A k \in 1 .. Len(queue) : queue'[k] = queue[k]
      /\ queue'[Len(queue) + 1] = f
  OBVIOUS
<1>2. Queued' = {queue'[k] : k \in 1 .. Len(queue')}
  BY DEF Queued
<1> QED BY <1>1, <1>2 DEF Queued

LEMMA QueuedTail ==
  ASSUME queue \in Seq(Fact), queue # <<>>, queue' = Tail(queue)
  PROVE  Queued' \subseteq Queued /\ Queued \subseteq Queued' \union {Head(queue)}
         /\ Head(queue) \in Queued
<1>1. /\ Len(queue') = Len(queue) - 1 /\ Len(queue) \in Nat \ {0}
      /\ \A k \in 1 .. Len(queue) - 1 : queue'[k] = queue[k + 1]
      /\ Head(queue) = queue[1]
  OBVIOUS
<1>2. Queued' = {queue'[k] : k \in 1 .. Len(queue')}
  BY DEF Queued
<1>3. ASSUME NEW k \in 1 .. Len(queue) PROVE queue[k] \in Queued' \union {Head(queue)}
  <2>1. CASE k = 1
    BY <1>1, <2>1
  <2>2. CASE k # 1
    <3>1. k - 1 \in 1 .. Len(queue') /\ queue'[k - 1] = queue[k]
      BY <1>1, <2>2
    <3> QED BY <1>2, <3>1
  <2> QED BY <2>1, <2>2
<1>4. ASSUME NEW k \in 1 .. Len(queue') PROVE queue'[k] \in Queued
  <2>1. k + 1 \in 1 .. Len(queue) /\ queue'[k] = queue[k + 1]
    BY <1>1
  <2> QED BY <2>1 DEF Queued
<1>5. Head(queue) \in Queued
  <2>1. 1 \in 1 .. Len(queue)
    BY <1>1
  <2> QED BY <1>1, <2>1 DEF Queued
<1>6. Queued \subseteq Queued' \union {Head(queue)}
  BY <1>3 DEF Queued
<1>7. Queued' \subseteq Queued
  BY <1>2, <1>4
<1> QED BY <1>5, <1>6, <1>7

\* What a step does to the facts.  Within a session only plain facts come from elsewhere
\* than a callback's hand, an answer that is stored or lost remains so, and one in hand
\* vanishes only when the collector has been removed.
FactMove ==
    /\ session' = session /\ (observer' => observer)
    /\ \A f \in Stored' : f \in Stored \union InHand \/ Plain(f)
    /\ \A f \in Stored \union lost : f \in Stored' \union lost' \/ Plain(f)
    /\ observer => \A f \in InHand : f \in InHand' \union Stored' \union lost'

\* No callback comes in.
NoCallback == sent' = sent /\ InHand' \subseteq InHand

\* A callback comes in and finds the collector, or does not.
Callback(type, r, n) ==
    /\ InHand = {} /\ Stored' = Stored /\ lost' = lost
    /\ InHand' = {f \in {fact(session, type, r, n, session)} : observer}

\* Of the network threads only one can have a fact in hand.
LEMMA HandOf ==
  ASSUME NEW s \in Sessions
  PROVE  /\ (\A t \in Sessions \ {s} : net[t] = Gone)
               => InHand = {f \in {net[s].fact} : net[s].pc \in InCall}
         /\ (\A t \in Sessions \ {s} : net'[t] = Gone)
               => InHand' = {f \in {net'[s].fact} : net'[s].pc \in InCall}
  BY ThreadFacts DEF InHand, InCall

\* A step that leaves the threads and the bridge's facts alone.
LEMMA FactsStay ==
  ASSUME UNCHANGED <<session, tape, queue, writer, net, lost, sent>>, observer' => observer
  PROVE  FactMove /\ NoCallback
<1>1. Stored' = Stored /\ InHand' = InHand
  BY DEF Stored, Queued, Writing, InHand
<1> QED BY <1>1 DEF FactMove, NoCallback

\* The three ways a step of a network thread may deal with its fact.
LEMMA HandMoves ==
  ASSUME ObsTypes, ThreadInv, NEW s \in Sessions, s = session, ~Silent,
         NEW x \in Thread, net' = [net EXCEPT ![s] = x],
         UNCHANGED <<session, observer, tape, writer, sent>>,
         \/ /\ UNCHANGED <<queue, lost>>
            /\ \/ net[s].pc \notin InCall /\ x.pc \notin InCall
               \/ net[s].pc \in InCall /\ x.pc \in InCall /\ x.fact = net[s].fact
               \/ x.pc \notin InCall /\ ~observer
         \/ /\ x.pc \notin InCall /\ net[s].pc \in InCall
            /\ queue' = Append(queue, net[s].fact) /\ lost' = lost
         \/ /\ x.pc \notin InCall /\ net[s].pc \in InCall
            /\ queue' = queue /\ lost' = lost \union {net[s].fact}
  PROVE  FactMove /\ NoCallback
<1>0. net \in [Sessions -> Thread] /\ queue \in Seq(Fact) /\ net[s].fact \in Fact
  BY DEF ObsTypes, Thread
<1>1. \A t \in Sessions \ {s} : net[t] = Gone /\ net'[t] = Gone
  BY <1>0 DEF ThreadInv
<1>2. /\ InHand = {f \in {net[s].fact} : net[s].pc \in InCall}
      /\ InHand' = {f \in {x.fact} : x.pc \in InCall}
  BY <1>0, <1>1, HandOf
<1>3. CASE UNCHANGED queue
  <2>1. Stored' = Stored
    BY <1>3 DEF Stored, Queued, Writing
  <2> QED BY <1>2, <1>3, <2>1 DEF FactMove, NoCallback
<1>4. CASE /\ x.pc \notin InCall /\ net[s].pc \in InCall
           /\ queue' = Append(queue, net[s].fact) /\ lost' = lost
  <2>1. Queued' = Queued \union {net[s].fact}
    BY <1>0, <1>4, QueuedAppend
  <2>2. Stored' = Stored \union {net[s].fact}
    BY <2>1 DEF Stored, Writing
  <2> QED BY <1>2, <1>4, <2>2 DEF FactMove, NoCallback
<1> QED BY <1>3, <1>4

\* A callback of the current session.
LEMMA CallbackMoves ==
  ASSUME ObsTypes, ThreadInv, NEW s \in Sessions, s = session, net[s] = Ready,
         NEW type, NEW r, NEW n, callback(s, type, r, n),
         UNCHANGED <<mainVars, bridgeVars, writer, tape, lost>>
  PROVE  FactMove /\ Callback(type, r, n)
<1>0. net \in [Sessions -> Thread]
  BY DEF ObsTypes
<1>1. \A t \in Sessions \ {s} : net[t] = Gone /\ net'[t] = Gone
  BY <1>0 DEF ThreadInv, callback
<1>2. /\ InHand = {f \in {net[s].fact} : net[s].pc \in InCall}
      /\ InHand' = {f \in {net'[s].fact} : net'[s].pc \in InCall}
  BY <1>1, HandOf
<1>3. InHand = {}
  BY <1>2, ThreadFacts DEF InCall
<1>4. InHand' = {f \in {fact(session, type, r, n, session)} : observer}
  <2>1. CASE observer
    <3>1. net'[s] = Busy("record", fact(s, type, r, n, s))
      BY <1>0, <2>1 DEF callback
    <3> QED BY <1>2, <2>1, <3>1, ThreadFacts DEF InCall
  <2>2. CASE ~observer
    <3>1. net'[s] \in {Gone, Ready}
      BY <1>0, <2>2 DEF callback
    <3> QED BY <1>2, <2>2, <3>1, ThreadFacts DEF InCall
  <2> QED BY <2>1, <2>2
<1>5. Stored' = Stored /\ lost' = lost /\ session' = session /\ observer' = observer
  BY DEF Stored, Queued, Writing, mainVars, bridgeVars
<1> QED BY <1>3, <1>4, <1>5 DEF FactMove, Callback

\* How callbacks come in: the next answer to a request, or one nobody asked for.
CameIn ==
    \/ NoCallback
    \/ \E r \in Requests :
         /\ session \in Sessions
         /\ sent[session][r] <= Items
         /\ sent' = [sent EXCEPT ![session][r] = @ + 1]
         /\ Callback(IF sent[session][r] < Items THEN "ITEM" ELSE "END", r, sent[session][r])
    \/ \E type \in {"UPDATE", "ERROR", "DISCONNECT"} :
         /\ sent' = sent
         /\ Callback(type, "-", 0)
         /\ type = "DISCONNECT" => session \in Sessions /\ conn[session] \in {"lost", "closed"}

LEMMA NetworkFacts ==
  ASSUME ObsTypes, ThreadInv, NEW s \in Sessions, network(s)
  PROVE  FactMove /\ CameIn
<1> USE DEF mainVars, brokerVars, bridgeVars
<1>0. net \in [Sessions -> Thread] /\ net[s] \in Thread
  BY DEF ObsTypes
<1>1. CASE connection_lost(s)
  BY <1>1, FactsStay DEF connection_lost, CameIn
<1>2. CASE ~connection_lost(s)
  <2>1. s = session /\ ~Silent /\ ~closed
    BY <1>2, NetworkCurrent DEF Silent
  <2>2. ASSUME NEW r \in Requests, answer(s, r) PROVE FactMove /\ CameIn
    <3> DEFINE type == IF sent[s][r] < Items THEN "ITEM" ELSE "END"
    <3>1. net[s] = Ready /\ callback(s, type, r, sent[s][r])
          /\ UNCHANGED <<mainVars, bridgeVars, writer, tape, lost>>
      BY <2>2 DEF answer
    <3> HIDE DEF type
    <3>2. FactMove /\ Callback(type, r, sent[s][r])
      BY <2>1, <3>1, CallbackMoves
    <3>3. sent[s][r] <= Items /\ sent' = [sent EXCEPT ![s][r] = @ + 1]
      BY <2>2 DEF answer
    <3> QED BY <2>1, <3>2, <3>3 DEF CameIn, type
  <2>3. ASSUME NEW type \in {"UPDATE", "ERROR"}, unsolicited(s, type) PROVE FactMove /\ CameIn
    <3>1. net[s] = Ready /\ callback(s, type, "-", 0)
          /\ UNCHANGED <<mainVars, bridgeVars, writer, tape, lost>> /\ sent' = sent
      BY <2>3 DEF unsolicited
    <3>2. FactMove /\ Callback(type, "-", 0)
      BY <2>1, <3>1, CallbackMoves
    <3> QED BY <3>1, <3>2 DEF CameIn
  <2>4. CASE connectionClosed(s)
    <3>1. net[s] = Ready /\ callback(s, "DISCONNECT", "-", 0) /\ conn[s] \in {"lost", "closed"}
          /\ UNCHANGED <<mainVars, bridgeVars, writer, tape, lost>> /\ sent' = sent
      BY <2>4 DEF connectionClosed
    <3>2. FactMove /\ Callback("DISCONNECT", "-", 0)
      BY <2>1, <3>1, CallbackMoves
    <3> QED BY <2>1, <3>1, <3>2 DEF CameIn
  <2>5. CASE record(s)
    <3>0. net[s].fact \in Fact /\ net[s].fact.session = session /\ net[s].pc = "record"
      BY <1>0, <2>5 DEF record, Thread, ThreadInv, InCall
    <3>1. [net[s].fact EXCEPT !.session = session] = net[s].fact
      BY <3>0 DEF Fact
    <3>2. CASE observer
      <4>1. PICK x \in Thread : x = Busy("check", net[s].fact)
        BY <3>0, ThreadFacts DEF ThreadStep
      <4>2. x.pc = "check" /\ x.fact = net[s].fact
        BY <4>1, ThreadFacts
      <4>3. /\ net' = [net EXCEPT ![s] = x]
            /\ UNCHANGED <<session, observer, tape, writer, sent, queue, lost>>
        BY <2>5, <3>1, <3>2, <4>1 DEF record
      <4> QED BY <2>1, <3>0, <4>2, <4>3, HandMoves DEF InCall, CameIn
    <3>3. CASE ~observer
      <4>1. /\ net' = [net EXCEPT ![s] = Gone]
            /\ UNCHANGED <<session, observer, tape, writer, sent, queue, lost>>
        BY <2>5, <3>3 DEF record
      <4> QED BY <2>1, <3>3, <4>1, HandMoves, ThreadFacts DEF InCall, CameIn
    <3> QED BY <3>2, <3>3
  <2>6. CASE write_draft_check(s)
    <3>1. PICK x \in Thread : x = [net[s] EXCEPT !.pc = "put"]
      BY <1>0 DEF Thread, ThreadStep
    <3>2. x.pc = "put" /\ x.fact = net[s].fact
      BY <1>0, <3>1 DEF Thread
    <3>3. /\ net' = [net EXCEPT ![s] = x] /\ net[s].pc = "check"
          /\ UNCHANGED <<session, observer, tape, writer, sent, queue, lost>>
      BY <2>1, <2>6, <3>1 DEF write_draft_check
    <3> QED BY <2>1, <3>2, <3>3, HandMoves DEF InCall, CameIn
  <2>7. CASE write_draft_put(s)
    <3>1. PICK x \in Thread, y \in {"accept", "drop"} :
            x = [net[s] EXCEPT !.pc = y] /\ net' = [net EXCEPT ![s] = x]
      BY <1>0, <2>7 DEF write_draft_put, Thread, ThreadStep
    <3>2. x.pc \notin InCall
      BY <1>0, <3>1 DEF Thread, InCall
    <3>3. /\ net[s].pc \in InCall
          /\ UNCHANGED <<session, observer, tape, writer, sent>>
          /\ \/ queue' = Append(queue, net[s].fact) /\ lost' = lost
             \/ queue' = queue /\ lost' = lost \union {net[s].fact}
      BY <2>7 DEF write_draft_put, put, InCall
    <3> QED BY <2>1, <3>1, <3>2, <3>3, HandMoves DEF CameIn
  <2>8. CASE write_draft_accept(s) \/ write_draft_drop(s)
    <3>1. after(s) \in Thread /\ after(s).pc \notin InCall
      BY ThreadFacts DEF after, InCall
    <3>2. /\ net' = [net EXCEPT ![s] = after(s)] /\ net[s].pc \notin InCall
          /\ UNCHANGED <<session, observer, tape, writer, sent, queue, lost>>
      BY <2>8 DEF write_draft_accept, write_draft_drop, InCall
    <3> QED BY <2>1, <3>1, <3>2, HandMoves DEF CameIn
  <2> QED BY <1>2, <2>2, <2>3, <2>4, <2>5, <2>6, <2>7, <2>8 DEF network
<1> QED BY <1>1, <1>2

LEMMA WriterFacts ==
  ASSUME ObsTypes, ThreadInv, run
  PROVE  FactMove /\ CameIn
<1> USE DEF mainVars, brokerVars, bridgeVars
<1>0. queue \in Seq(Fact) /\ writer \in Thread
  BY DEF ObsTypes
<1>1. /\ InHand' = InHand /\ sent' = sent /\ session' = session /\ observer' = observer
      /\ lost \subseteq lost'
  BY DEF run, run_get, run_write, run_written, run_raises, InHand
<1>2. /\ \A f \in Stored' : f \in Stored
      /\ \A f \in Stored : f \in Stored' \union lost' \/ Plain(f)
  <2>1. CASE run_get
    <3>1. /\ Queued' \subseteq Queued /\ Queued \subseteq Queued' \union {Head(queue)}
          /\ Head(queue) \in Queued
      BY <1>0, <2>1, QueuedTail DEF run_get
    <3>2. CASE Head(queue) = Sentinel
      <4>1. Plain(Sentinel)
        BY DEF Plain, Sentinel, fact
      <4>2. Writing = {} /\ Writing' = {} /\ tape' = tape
        BY <2>1, <3>2, ThreadFacts DEF run_get, Writing
      <4> QED BY <3>1, <3>2, <4>1, <4>2 DEF Stored
    <3>3. CASE Head(queue) # Sentinel
      <4>1. Writing = {} /\ Writing' = {Head(queue)} /\ tape' = tape
        BY <2>1, <3>3, ThreadFacts DEF run_get, Writing
      <4> QED BY <3>1, <4>1 DEF Stored
    <3> QED BY <3>2, <3>3
  <2>2. CASE run_write
    <3>1. Writing = {writer.fact} /\ Writing' = {} /\ tape' = tape \union {writer.fact}
          /\ Queued' = Queued
      BY <2>2, ThreadFacts DEF run_write, Writing, Queued
    <3> QED BY <3>1 DEF Stored
  <2>3. CASE run_written
    <3>1. Writing = {} /\ Writing' = {} /\ tape' = tape /\ Queued' = Queued
      BY <2>3, ThreadFacts DEF run_written, Writing, Queued
    <3> QED BY <3>1 DEF Stored
  <2>4. CASE run_raises
    <3>1. Writing = {writer.fact} /\ Writing' = {} /\ tape' = tape /\ Queued' = Queued
          /\ lost' = lost \union {writer.fact}
      BY <2>4, ThreadFacts DEF run_raises, Writing, Queued
    <3> QED BY <3>1 DEF Stored
  <2> QED BY <2>1, <2>2, <2>3, <2>4 DEF run
<1> QED BY <1>1, <1>2 DEF FactMove, CameIn, NoCallback

\* The main thread's own facts.
LEMMA MainPuts ==
  ASSUME ObsTypes, NEW f \in Fact, Plain(f),
         UNCHANGED <<session, observer, tape, writer, net, sent>>,
         lost \subseteq lost', queue' = queue \/ queue' = Append(queue, f)
  PROVE  FactMove /\ CameIn
<1>1. queue \in Seq(Fact) /\ InHand' = InHand /\ Writing' = Writing
  BY DEF ObsTypes, InHand, Writing
<1>2. Queued' = Queued \/ Queued' = Queued \union {f}
  <2>1. CASE queue' = queue
    BY <2>1 DEF Queued
  <2>2. CASE queue' = Append(queue, f)
    BY <1>1, <2>2, QueuedAppend
  <2> QED BY <2>1, <2>2
<1>3. Stored' = Stored \/ Stored' = Stored \union {f}
  BY <1>1, <1>2 DEF Stored
<1> QED BY <1>1, <1>3 DEF FactMove, CameIn, NoCallback

LEMMA MainFacts ==
  ASSUME ObsTypes, ThreadInv, main, ~begin
  PROVE  FactMove /\ CameIn
<1> USE DEF mainVars, brokerVars, bridgeVars
<1>0. session \in Nat
  BY ObserverAssumption DEF ObsTypes
<1>1. CASE connect
  <2>1. session \in Sessions /\ \A t \in Sessions \ {session} : net[t] = Gone
    BY <1>1 DEF connect, at, ThreadInv
  <2>2. net[session] = Gone /\ net \in [Sessions -> Thread]
    BY <1>1, <2>1 DEF connect, at, ThreadInv, Silent, ObsTypes
  <2>3. \A t \in Sessions : net[t].pc \notin InCall /\ net'[t].pc \notin InCall
    BY <1>1, <2>1, <2>2, ThreadFacts DEF connect, InCall
  <2>4. InHand = {} /\ InHand' = {}
    BY <2>3 DEF InHand
  <2>5. Stored' = Stored
    BY <1>1 DEF connect, Stored, Queued, Writing
  <2> QED BY <1>1, <2>4, <2>5 DEF connect, FactMove, CameIn, NoCallback
<1>2. ASSUME NEW type \in {"CONNECTION", "DRAIN_WATERMARK"},
             write_draft_main(fact(session, type, "-", 0, session)),
             UNCHANGED <<session, observer, tape, writer, net, sent>>
      PROVE  FactMove /\ CameIn
  <2>1. type \in FactType /\ "-" \in Requests \union {"-"}
    BY DEF FactType
  <2>2. PICK f \in Fact : f = fact(session, type, "-", 0, session)
    BY <1>0, <2>1, FactTyped
  <2>3. Plain(f)
    BY <2>2 DEF Plain, fact
  <2>4. lost \subseteq lost' /\ (queue' = queue \/ queue' = Append(queue, f))
    BY <1>2, <2>2 DEF write_draft_main, put
  <2> QED BY <1>2, <2>3, <2>4, MainPuts
<1>3. CASE record_connection \/ record_watermark
  BY <1>2, <1>3 DEF record_connection, record_watermark
<1>4. CASE close_put
  <2>1. Sentinel \in Fact /\ Plain(Sentinel)
    BY ThreadFacts DEF Plain, Sentinel, fact
  <2>2. /\ UNCHANGED <<session, observer, tape, writer, net, sent, lost>>
        /\ queue' = queue \/ queue' = Append(queue, Sentinel)
    BY <1>4 DEF close_put, put
  <2> QED BY <2>1, <2>2, MainPuts
<1>5. CASE UNCHANGED <<session, tape, queue, writer, net, lost, sent>> /\ (observer' => observer)
  BY <1>5, FactsStay DEF CameIn
<1>6. CASE connect_timeout \/ request \/ detach \/ disconnect \/ join_network \/ close_closed
           \/ close_join \/ reduce \/ certify
  BY <1>5, <1>6 DEF connect_timeout, request, detach, disconnect, join_network, close_closed,
     close_join, reduce, certify
<1>7. CASE drain_caught_up \/ drain_empty \/ drain_timeout \/ final_drained \/ read
  BY <1>5, <1>7, ReadMoves DEF drain_caught_up, drain_empty, drain_timeout, final_drained, reading,
     ReadMove
<1> QED BY <1>1, <1>3, <1>4, <1>6, <1>7 DEF main

\* Every step of a session.
LEMMA FactSteps ==
  ASSUME ObsTypes, ThreadInv, [ObsNext]_obsVars, ~begin
  PROVE  FactMove /\ CameIn
<1>1. CASE UNCHANGED obsVars
  BY <1>1, FactsStay DEF obsVars, mainVars, brokerVars, bridgeVars, CameIn
<1> QED BY <1>1, NetworkFacts, WriterFacts, MainFacts DEF ObsNext

-----------------------------------------------------------------------------
(* The observer: connections.                                              *)

\* A DISCONNECT fact of a session, on the tape or on its way, means that its connection
\* was lost: by the time the observer closes it, the collector is removed.
LossInv ==
    /\ \A f \in Stored \union InHand : Plain(f) \/ f.session \in 1 .. session
    /\ \A f \in Stored \union InHand : f.type = "DISCONNECT" => conn[f.session] = "lost"
    /\ pc = "disconnect" => ~observer
    /\ session \in Sessions /\ conn[session] = "closed" => ~observer
    /\ \A s \in Sessions : s > session => conn[s] = "none" /\ \A r \in Requests : sent[s][r] = 0
    /\ \A s \in Sessions : certs[s].disconnected => conn[s] = "lost"

\* What a step of a session does to the connections and the certificates.
ConnMove ==
    /\ \A s \in Sessions : conn[s] = "lost" => conn'[s] = "lost"
    /\ \A s \in Sessions : s > session => conn'[s] = conn[s]
    /\ session \in Sessions /\ conn'[session] = "closed" => conn[session] = "closed" \/ pc = "disconnect"
    /\ pc' = "disconnect" => pc = "disconnect" \/ ~observer'
    /\ \/ certs' = certs
       \/ /\ pc = "certify" /\ session \in Sessions
          /\ certs' = [certs EXCEPT ![session] = certificate(facts_of(session), see)]

LEMMA ConnSteps ==
  ASSUME ObsTypes, ThreadInv, LossInv, [ObsNext]_obsVars, ~begin
  PROVE  ConnMove
<1> USE DEF mainVars, brokerVars, bridgeVars, ConnMove
<1>0. conn \in [Sessions -> {"none", "up", "lost", "closed"}]
  BY DEF ObsTypes
<1>1. CASE UNCHANGED <<conn, certs, pc>>
  BY <1>1
<1>2. ASSUME NEW s \in Sessions, network(s) PROVE ConnMove
  <2>1. CASE connection_lost(s)
    <3>1. /\ conn[s] = "up" /\ conn' = [conn EXCEPT ![s] = "lost"]
          /\ UNCHANGED <<certs, pc>>
      BY <2>1 DEF connection_lost
    <3>2. ~(s > session)
      BY <3>1 DEF LossInv
    <3> QED BY <1>0, <3>1, <3>2
  <2>2. CASE ~connection_lost(s)
    BY <1>1, <1>2, <2>2 DEF network, answer, unsolicited, connectionClosed, record,
       write_draft_check, write_draft_put, write_draft_accept, write_draft_drop
  <2> QED BY <2>1, <2>2
<1>3. CASE run
  BY <1>1, <1>3 DEF run, run_get, run_write, run_written, run_raises
<1>4. CASE main
  <2> USE DEF at, goto
  <2>0. session \in Int /\ Sessions \subseteq Int
    BY ObserverAssumption DEF ObsTypes, Sessions
  <2>1. CASE connect
    <3>1. /\ conn[session] = "none" /\ conn' = [conn EXCEPT ![session] = "up"]
          /\ certs' = certs /\ pc' = "connected"
      BY <2>1 DEF connect
    <3> QED BY <1>0, <2>0, <3>1
  <2>2. CASE disconnect
    <3>1. /\ conn' = [conn EXCEPT ![session] = IF @ = "lost" THEN @ ELSE "closed"]
          /\ certs' = certs /\ pc' = "join" /\ pc = "disconnect"
      BY <2>2 DEF disconnect
    <3> QED BY <1>0, <2>0, <3>1
  <2>3. CASE certify
    <3>1. /\ certs' = [certs EXCEPT ![session] = certificate(facts_of(session), see)]
          /\ pc = "certify" /\ pc' # "disconnect" /\ conn' = conn
      BY <2>3 DEF certify
    <3> QED BY <3>1 DEF ThreadInv
  <2>4. CASE connect_timeout \/ record_connection \/ request \/ record_watermark \/ join_network
             \/ close_closed \/ close_put \/ close_join \/ reduce \/ detach
    BY <2>4 DEF connect_timeout, record_connection, request, record_watermark, join_network,
       close_closed, close_put, close_join, reduce, detach
  <2>5. CASE drain_caught_up \/ drain_empty \/ drain_timeout \/ final_drained
    BY <2>5 DEF drain_caught_up, drain_empty, drain_timeout, final_drained, reading
  <2>6. CASE read
    BY <2>6, ReadMoves DEF ReadMove, reading, Reading
  <2> QED BY <1>4, <2>1, <2>2, <2>3, <2>4, <2>5, <2>6 DEF main
<1>5. CASE UNCHANGED obsVars
  BY <1>1, <1>5 DEF obsVars
<1> QED BY <1>2, <1>3, <1>4, <1>5 DEF ObsNext

\* A new observation starts with nothing in hand and nothing of its own on the tape.
LEMMA BeginFacts ==
  ASSUME ObsTypes, ThreadInv, begin
  PROVE  /\ InHand' = {} /\ Stored' = tape /\ tape' = tape
         /\ session' = session + 1 /\ session \in Nat /\ session' \in Sessions
         /\ conn' = conn /\ certs' = certs /\ sent' = sent /\ pc' = "connect"
<1> USE DEF begin, brokerVars, goto
<1>1. \A s \in Sessions : net[s] = Gone
  BY DEF ThreadInv, Silent, Ended, Sessions
<1>2. \A s \in Sessions : net'[s] = Gone
  BY <1>1
<1>3. InHand' = {}
  BY <1>2, ThreadFacts DEF InHand, InCall
<1>4. Queued' = {} /\ Writing' = {}
  BY ThreadFacts DEF Queued, Writing
<1>5. session \in Nat /\ session + 1 \in Sessions
  BY ObserverAssumption DEF ObsTypes, Sessions
<1> QED BY <1>3, <1>4, <1>5 DEF Stored

LEMMA LossInit == ObsInit => LossInv
<1> SUFFICES ASSUME ObsInit PROVE LossInv
  OBVIOUS
<1>1. Stored = {} /\ InHand = {}
  BY ThreadFacts DEF ObsInit, Stored, Queued, Writing, InHand, InCall
<1>2. 0 \notin Sessions
  BY DEF Sessions
<1> QED BY <1>1, <1>2 DEF ObsInit, LossInv, NoCertificate

\* The facts of a session after a step: an answer or a lost connection that was not there
\* before came in with this step's callback, and the collector was installed.
LEMMA NewFact ==
  ASSUME FactMove, CameIn, NEW f \in Stored' \union InHand', ~Plain(f), f \notin Stored \union InHand
  PROVE  /\ observer /\ f \in InHand' /\ session \in Sessions /\ InHand = {}
         /\ \/ /\ f = fact(session, "DISCONNECT", "-", 0, session)
               /\ conn[session] \in {"lost", "closed"}
            \/ \E r \in Requests :
                 /\ sent[session][r] <= Items
                 /\ f = fact(session, IF sent[session][r] < Items THEN "ITEM" ELSE "END", r,
                             sent[session][r], session)
<1>1. f \in InHand' /\ ~(InHand' \subseteq InHand)
  BY DEF FactMove
<1>2. ASSUME NEW type, NEW r, NEW n, Callback(type, r, n)
      PROVE  f = fact(session, type, r, n, session) /\ observer /\ InHand = {}
  BY <1>1, <1>2 DEF Callback
<1>3. CASE \E r \in Requests :
         /\ session \in Sessions
         /\ sent[session][r] <= Items
         /\ sent' = [sent EXCEPT ![session][r] = @ + 1]
         /\ Callback(IF sent[session][r] < Items THEN "ITEM" ELSE "END", r, sent[session][r])
  BY <1>1, <1>2, <1>3
<1>4. ASSUME NEW type \in {"UPDATE", "ERROR", "DISCONNECT"}, Callback(type, "-", 0),
             type = "DISCONNECT" => session \in Sessions /\ conn[session] \in {"lost", "closed"}
      PROVE  /\ f = fact(session, "DISCONNECT", "-", 0, session) /\ observer /\ InHand = {}
             /\ session \in Sessions /\ conn[session] \in {"lost", "closed"}
  <2>1. f = fact(session, type, "-", 0, session) /\ observer /\ InHand = {}
    BY <1>2, <1>4
  <2>2. f.type = type
    BY <2>1 DEF fact
  <2> QED BY <1>4, <2>1, <2>2 DEF Plain
<1> QED BY <1>1, <1>3, <1>4 DEF CameIn, NoCallback

LEMMA LossKept == ObsTypes /\ ThreadInv /\ LossInv /\ [ObsNext]_obsVars => LossInv'
<1> SUFFICES ASSUME ObsTypes, ThreadInv, LossInv, [ObsNext]_obsVars PROVE LossInv'
  OBVIOUS
<1>0. /\ Sessions \subseteq Nat \ {0} /\ session \in Nat /\ DOMAIN certs = Sessions
      /\ \A s \in 1 .. session : s \in Sessions
  BY ObserverAssumption DEF ObsTypes, Sessions
<1>1. CASE begin
  <2>1. /\ InHand' = {} /\ Stored' = tape /\ tape' = tape
        /\ session' = session + 1 /\ session' \in Sessions
        /\ conn' = conn /\ certs' = certs /\ sent' = sent /\ pc' = "connect"
    BY <1>1, BeginFacts
  <2>2. \A f \in tape : f \in Stored
    BY DEF Stored
  <2>3. conn[session + 1] = "none"
    BY <1>0, <2>1 DEF LossInv
  <2> QED BY <1>0, <2>1, <2>2, <2>3 DEF LossInv
<1>2. CASE ~begin
  <2>1. FactMove /\ CameIn /\ ConnMove
    BY <1>2, FactSteps, ConnSteps
  <2>2. session' = session /\ (observer' => observer)
    BY <2>1 DEF FactMove
  <2>3. ASSUME NEW f \in Stored' \union InHand', ~Plain(f)
        PROVE  f.session \in 1 .. session /\ (f.type = "DISCONNECT" => conn'[f.session] = "lost")
    <3>1. CASE f \in Stored \union InHand
      <4>1. f.session \in Sessions
        BY <1>0, <2>3, <3>1 DEF LossInv
      <4> QED BY <2>1, <2>3, <3>1, <4>1 DEF LossInv, ConnMove
    <3>2. CASE f \notin Stored \union InHand
      <4>1. f.session = session /\ session \in Sessions /\ observer
            /\ (f.type = "DISCONNECT" => conn[session] \in {"lost", "closed"})
        BY <2>1, <2>3, <3>2, NewFact DEF fact
      <4> QED BY <1>0, <2>1, <4>1 DEF LossInv, ConnMove
    <3> QED BY <3>1, <3>2
  <2>4. /\ pc' = "disconnect" => ~observer'
        /\ session \in Sessions /\ conn'[session] = "closed" => ~observer'
    BY <2>1, <2>2 DEF ConnMove, LossInv
  <2>5. ASSUME NEW s \in Sessions, s > session, NEW r \in Requests
        PROVE  conn'[s] = "none" /\ sent'[s][r] = 0
    <3>1. sent'[s] = sent[s]
      BY <1>0, <2>1, <2>5 DEF CameIn, NoCallback, ObsTypes
    <3> QED BY <2>1, <2>5, <3>1 DEF LossInv, ConnMove
  <2>6. ASSUME NEW s \in Sessions, s > session
        PROVE  conn'[s] = "none"
    BY <2>1, <2>6 DEF LossInv, ConnMove
  <2>7. ASSUME NEW s \in Sessions, certs'[s].disconnected
        PROVE  conn'[s] = "lost"
    <3>1. CASE certs'[s] = certs[s]
      BY <2>1, <2>7, <3>1 DEF LossInv, ConnMove
    <3>2. CASE certs'[s] # certs[s]
      <4>1. s = session /\ certs'[s] = certificate(facts_of(session), see)
        BY <1>0, <2>1, <3>2 DEF ConnMove
      <4>2. certificate(facts_of(session), see).disconnected = disconnected(facts_of(session))
        BY DEF certificate
      <4>3. PICK f \in tape : f.session = session /\ f.type = "DISCONNECT"
        BY <2>7, <4>1, <4>2 DEF disconnected, facts_of
      <4>4. conn[session] = "lost"
        BY <4>3 DEF LossInv, Stored
      <4> QED BY <2>1, <4>1, <4>4 DEF ConnMove
    <3> QED BY <3>1, <3>2
  <2>8. \A f : f.type = "DISCONNECT" => ~Plain(f)
    BY DEF Plain
  <2> QED BY <2>2, <2>3, <2>4, <2>5, <2>6, <2>7, <2>8 DEF LossInv
<1> QED BY <1>1, <1>2

-----------------------------------------------------------------------------
(* The observer: answers.                                                  *)

item(r, n) == fact(session, "ITEM", r, n, session)

\* The items sent so far are stored, lost or in hand, as long as the collector is
\* installed; with an end marker all of them are stored or lost, since the callbacks of a
\* session run one after the other and the end is the last of its request.
ItemInv ==
    /\ \A r \in Requests, n \in 0 .. Items - 1 :
         session \in Sessions /\ observer /\ n < sent[session][r] =>
            item(r, n) \in Stored \union lost \union InHand
    /\ \A f \in Stored \union InHand :
         f.type = "END" /\ f.session = session =>
            \A n \in 0 .. Items - 1 : item(f.request, n) \in Stored \union lost

LEMMA ItemInit == ObsInit => ItemInv
<1> SUFFICES ASSUME ObsInit PROVE ItemInv
  OBVIOUS
<1>1. Stored = {} /\ InHand = {}
  BY ThreadFacts DEF ObsInit, Stored, Queued, Writing, InHand, InCall
<1> QED BY <1>1 DEF ObsInit, ItemInv

LEMMA ItemKept == ObsTypes /\ ThreadInv /\ LossInv /\ ItemInv /\ [ObsNext]_obsVars => ItemInv'
<1> SUFFICES ASSUME ObsTypes, ThreadInv, LossInv, ItemInv, [ObsNext]_obsVars PROVE ItemInv'
  OBVIOUS
<1>0. /\ Sessions \subseteq Nat \ {0} /\ session \in Nat /\ Items \in Nat
      /\ \A s \in Sessions, r \in Requests : sent[s][r] \in Nat
      /\ sent \in [Sessions -> [Requests -> Nat]]
  BY ObserverAssumption DEF ObsTypes, Sessions
<1>1. CASE begin
  <2>1. /\ InHand' = {} /\ Stored' = tape
        /\ session' = session + 1 /\ session' \in Sessions /\ sent' = sent
    BY <1>1, BeginFacts
  <2>2. \A r \in Requests : sent'[session'][r] = 0
    BY <1>0, <2>1 DEF LossInv
  <2>3. ASSUME NEW f \in tape, f.type = "END" PROVE f.session # session'
    <3>1. f \in Stored /\ ~Plain(f)
      BY <2>3 DEF Stored, Plain
    <3> QED BY <1>0, <2>1, <3>1 DEF LossInv
  <2>4. ASSUME NEW r \in Requests, NEW n \in 0 .. Items - 1 PROVE ~(n < sent'[session'][r])
    BY <1>0, <2>2
  <2> QED BY <2>1, <2>3, <2>4 DEF ItemInv
<1>2. CASE ~begin
  <2>1. FactMove /\ CameIn
    BY <1>2, FactSteps
  <2>2. session' = session /\ (observer' => observer)
    BY <2>1 DEF FactMove
  <2>3. ASSUME NEW r, NEW n PROVE ~Plain(item(r, n)) /\ item(r, n)' = item(r, n)
    BY <2>2 DEF Plain, item, fact
  <2>4. ASSUME NEW r, NEW n, item(r, n) \in Stored \union lost PROVE item(r, n) \in Stored' \union lost'
    BY <2>1, <2>3, <2>4 DEF FactMove
  <2>5. ASSUME NEW r \in Requests, NEW n \in 0 .. Items - 1,
               session \in Sessions, observer', n < sent'[session][r]
        PROVE  item(r, n) \in Stored' \union lost' \union InHand'
    <3>1. CASE n < sent[session][r]
      <4>1. item(r, n) \in Stored \union lost \union InHand
        BY <2>2, <2>5, <3>1 DEF ItemInv
      <4> QED BY <2>1, <2>2, <2>4, <2>5, <4>1 DEF FactMove
    <3>2. CASE ~(n < sent[session][r])
      <4>0. sent'[session][r] # sent[session][r]
        BY <2>5, <3>2
      <4>1. PICK q \in Requests :
             /\ sent' = [sent EXCEPT ![session][q] = @ + 1]
             /\ Callback(IF sent[session][q] < Items THEN "ITEM" ELSE "END", q, sent[session][q])
        BY <2>1, <4>0 DEF CameIn, NoCallback
      <4>2. q = r /\ sent'[session][r] = sent[session][r] + 1
        BY <1>0, <2>5, <4>0, <4>1
      <4>3. sent[session][r] = n /\ n < Items
        BY <1>0, <2>5, <3>2, <4>2
      <4>4. Callback("ITEM", r, n)
        BY <4>1, <4>2, <4>3
      <4> QED BY <2>2, <2>5, <4>4 DEF Callback, item
    <3> QED BY <3>1, <3>2
  <2>6. ASSUME NEW f \in Stored' \union InHand', f.type = "END", f.session = session,
               NEW n \in 0 .. Items - 1
        PROVE  item(f.request, n) \in Stored' \union lost'
    <3>0. ~Plain(f)
      BY <2>6 DEF Plain
    <3>1. CASE f \in Stored \union InHand
      BY <2>4, <2>6, <3>1 DEF ItemInv
    <3>2. CASE f \notin Stored \union InHand
      <4>1. /\ observer /\ session \in Sessions /\ InHand = {}
            /\ \/ f = fact(session, "DISCONNECT", "-", 0, session)
               \/ \E r \in Requests :
                     /\ sent[session][r] <= Items
                     /\ f = fact(session, IF sent[session][r] < Items THEN "ITEM" ELSE "END", r,
                                 sent[session][r], session)
        BY <2>1, <3>0, <3>2, NewFact
      <4>2. \A x, y, z : fact(session, x, y, z, session).type = x
                         /\ fact(session, x, y, z, session).request = y
        BY DEF fact
      <4>3. PICK r \in Requests : f.request = r /\ sent[session][r] <= Items /\ ~(sent[session][r] < Items)
        BY <2>6, <4>1, <4>2
      <4>4. n < sent[session][r]
        BY <1>0, <4>1, <4>3
      <4>5. item(r, n) \in Stored \union lost
        BY <4>1, <4>4 DEF ItemInv
      <4> QED BY <2>4, <4>3, <4>5
    <3> QED BY <3>1, <3>2
  <2> QED
    <3>1. \A r, n : item(r, n)' = item(r, n)
      BY <2>3
    <3> HIDE DEF item
    <3>2. \A r \in Requests, n \in 0 .. Items - 1 :
            session' \in Sessions /\ observer' /\ n < sent'[session'][r] =>
               item(r, n)' \in Stored' \union lost' \union InHand'
      BY <2>2, <2>5, <3>1
    <3>3. \A f \in Stored' \union InHand' :
             f.type = "END" /\ f.session = session' =>
                \A n \in 0 .. Items - 1 : item(f.request, n)' \in Stored' \union lost'
      BY <2>2, <2>6, <3>1
    <3> QED BY <3>2, <3>3 DEF ItemInv
<1> QED BY <1>1, <1>2

-----------------------------------------------------------------------------
(* The observer: the certificate returned.                                 *)

\* From the last certificate on: if it is complete nothing was lost and the tape does not
\* change any more, and a component it calls complete has all its items.
CertInv ==
    /\ pc \in {"reduce", "returned"} =>
         /\ certs[session].complete => ~error /\ lost = {} /\ certs[session].facts = facts_of(session)
         /\ \A r \in certs[session].components : \A n \in 0 .. Items - 1 :
              item(r, n) \in certs[session].facts
    /\ pc = "returned" /\ certs[session].complete => model = certs[session].facts

\* The last certificate, when it is issued.
LEMMA LastCertificate ==
  ASSUME ObsTypes, ThreadInv, ItemInv, pc = "certify", see.final,
         NEW c, c = certificate(facts_of(session), see)
  PROVE  /\ c.complete => ~error /\ lost = {}
         /\ c.facts = facts_of(session)
         /\ \A r \in c.components : \A n \in 0 .. Items - 1 : item(r, n) \in c.facts
<1>1. ASSUME fact_delivery_complete(see)
      PROVE  ~error /\ lost = {} /\ Stored = tape
  <2>1. ~error /\ queue = <<>> /\ writer = Gone
    BY <1>1 DEF fact_delivery_complete, ThreadInv
  <2>2. \A s \in Sessions : net[s].pc # "drop"
    BY ThreadFacts DEF ThreadInv, Silent
  <2>3. Queued = {} /\ Writing = {}
    BY <2>1, ThreadFacts DEF Queued, Writing
  <2> QED BY <2>1, <2>2, <2>3 DEF ThreadInv, Stored
<1>2. /\ c.components = {r \in Requests : component_complete(facts_of(session), see, r)}
      /\ c.facts = facts_of(session)
      /\ c.complete => fact_delivery_complete(see)
  BY DEF certificate
<1>3. ASSUME NEW r \in c.components, NEW n \in 0 .. Items - 1
      PROVE  item(r, n) \in c.facts
  <2>1. r \in Requests /\ component_complete(facts_of(session), see, r)
    BY <1>2
  <2>2. r \in ends_of(r)
    BY <2>1 DEF ends_of
  <2>3. fact_delivery_complete(see) /\ end_seen(facts_of(session), r)
    BY <2>1, <2>2 DEF component_complete
  <2>4. PICK f \in tape : f.session = session /\ f.type = "END" /\ f.request = r
    BY <2>3 DEF end_seen, facts_of
  <2>5. f \in Stored
    BY DEF Stored
  <2>6. item(r, n) \in Stored \union lost
    BY <2>4, <2>5 DEF ItemInv
  <2>7. item(r, n) \in tape
    BY <1>1, <2>3, <2>6
  <2>8. item(r, n).session = session
    BY DEF item, fact
  <2> QED BY <1>2, <2>7, <2>8 DEF facts_of
<1> QED BY <1>1, <1>2, <1>3

\* After the last certificate only the main thread moves, or an old error stands.
LEMMA QuietEnd ==
  ASSUME ObsTypes, ThreadInv, pc \in {"reduce", "returned"}, [ObsNext]_obsVars, ~begin
  PROVE  /\ session' = session /\ certs' = certs
         /\ error \/ (tape' = tape /\ lost' = lost /\ error' = error)
         /\ \/ pc = "reduce" /\ pc' = "returned" /\ model' = facts_of(session)
            \/ pc' = pc /\ model' = model
<1> USE DEF mainVars, brokerVars, bridgeVars
<1>1. ASSUME NEW s \in Sessions, network(s) PROVE connection_lost(s)
  BY <1>1, NetworkCurrent DEF Silent, Ended
<1>2. CASE \E s \in Sessions : network(s)
  BY <1>1, <1>2 DEF connection_lost
<1>3. CASE run
  <2>1. error \/ writer.pc = "gone"
    BY ThreadFacts DEF ThreadInv, Ended
  <2> QED BY <1>3, <2>1 DEF run, run_get, run_write, run_written, run_raises
<1>4. CASE main
  <2>1. reduce
    BY <1>4, ReadMoves DEF main, at, connect, connect_timeout, record_connection, request,
       drain_caught_up, drain_empty, drain_timeout, ReadMove, Reading, certify, record_watermark, detach,
       disconnect, join_network, close_closed, close_put, close_join, final_drained
  <2> QED BY <2>1 DEF reduce, at, goto
<1>5. CASE UNCHANGED obsVars
  BY <1>5 DEF obsVars
<1> QED BY <1>2, <1>3, <1>4, <1>5 DEF ObsNext

\* The last certificate is the only way to the end.
LEMMA WayToEnd ==
  ASSUME ObsTypes, ThreadInv, [ObsNext]_obsVars, pc' \in {"reduce", "returned"},
         pc \notin {"reduce", "returned"}
  PROVE  /\ pc = "certify" /\ see.final /\ pc' = "reduce" /\ session' = session
         /\ certs' = [certs EXCEPT ![session] = certificate(facts_of(session), see)]
         /\ tape' = tape /\ lost' = lost /\ error' = error
<1> USE DEF mainVars, brokerVars, bridgeVars
<1>1. pc' # pc
  OBVIOUS
<1>2. main
  <2>1. \A s \in Sessions : ~network(s)
    BY <1>1 DEF network, answer, unsolicited, connection_lost, connectionClosed, record,
       write_draft_check, write_draft_put, write_draft_accept, write_draft_drop
  <2>2. ~run
    BY <1>1 DEF run, run_get, run_write, run_written, run_raises
  <2> QED BY <1>1, <2>1, <2>2 DEF ObsNext, obsVars
<1>3. certify
  BY <1>2, ReadMoves DEF main, at, goto, begin, connect, connect_timeout, record_connection, request,
     drain_caught_up, drain_empty, drain_timeout, ReadMove, Reading, record_watermark, detach,
     disconnect, join_network, close_closed, close_put, close_join, final_drained, reduce
<1> QED BY <1>3 DEF certify, at, goto

LEMMA CertKept ==
  ObsTypes /\ ThreadInv /\ ItemInv /\ CertInv /\ [ObsNext]_obsVars => CertInv'
<1> SUFFICES ASSUME ObsTypes, ThreadInv, ItemInv, CertInv, [ObsNext]_obsVars,
                    pc' \in {"reduce", "returned"}
             PROVE  CertInv'
  BY DEF CertInv
<1>0. ASSUME tape' = tape, session' = session
      PROVE  facts_of(session)' = facts_of(session)
  BY <1>0 DEF facts_of
<1>1. ASSUME session' = session PROVE \A r, n : item(r, n)' = item(r, n)
  BY <1>1 DEF item, fact
<1> HIDE DEF item, facts_of
<1>2. CASE pc \in {"reduce", "returned"}
  <2>0. ~begin
    BY DEF begin, goto
  <2>1. /\ session' = session /\ certs' = certs
        /\ error \/ (tape' = tape /\ lost' = lost /\ error' = error)
        /\ \/ pc = "reduce" /\ pc' = "returned" /\ model' = facts_of(session)
           \/ pc' = pc /\ model' = model
    BY <1>2, <2>0, QuietEnd
  <2>2. certs[session].complete => ~error /\ lost = {} /\ certs[session].facts = facts_of(session)
    BY <1>2 DEF CertInv
  <2>3. certs[session].complete =>
          ~error' /\ lost' = {} /\ certs[session].facts = facts_of(session)'
    BY <1>0, <2>1, <2>2
  <2>4. \A r \in certs[session].components : \A n \in 0 .. Items - 1 : item(r, n)' \in certs[session].facts
    BY <1>1, <1>2, <2>1 DEF CertInv
  <2>5. pc' = "returned" /\ certs[session].complete => model' = certs[session].facts
    BY <1>2, <2>1, <2>2 DEF CertInv
  <2> QED BY <2>1, <2>3, <2>4, <2>5 DEF CertInv
<1>3. CASE pc \notin {"reduce", "returned"}
  <2>1. /\ pc = "certify" /\ see.final /\ pc' = "reduce" /\ session' = session
        /\ certs' = [certs EXCEPT ![session] = certificate(facts_of(session), see)]
        /\ tape' = tape /\ lost' = lost /\ error' = error
    BY <1>3, WayToEnd
  <2>2. session \in Sessions /\ DOMAIN certs = Sessions
    BY <2>1 DEF ThreadInv, ObsTypes
  <2>3. PICK c : c = certificate(facts_of(session), see) /\ certs'[session] = c
    BY <2>1, <2>2
  <2>4. /\ c.complete => ~error /\ lost = {}
        /\ c.facts = facts_of(session)
        /\ \A r \in c.components : \A n \in 0 .. Items - 1 : item(r, n) \in c.facts
    BY <2>1, <2>3, LastCertificate
  <2> QED BY <1>0, <1>1, <2>1, <2>3, <2>4 DEF CertInv
<1> QED BY <1>2, <1>3

-----------------------------------------------------------------------------
(* The observer: theorems.                                                 *)

\* The network thread of an observation ends before its join times out.
InTime == ~LateThread

ObserverInv == ObsTypes /\ ThreadInv /\ LossInv /\ ItemInv /\ CertInv

LEMMA ObserverInvariant == InTime /\ ObsSpec => []ObserverInv
<1> SUFFICES ASSUME InTime PROVE ObsSpec => []ObserverInv
  OBVIOUS
<1>1. ObsInit => ObserverInv
  BY ThreadInit, LossInit, ItemInit DEF ObsInit, ObserverInv, CertInv
<1>2. ObserverInv /\ [ObsNext]_obsVars => ObserverInv'
  BY TypesStep, ThreadKept, LossKept, ItemKept, CertKept DEF ObserverInv, InTime
<1> QED BY <1>1, <1>2, PTL DEF ObsSpec

\* The observer's own shutdown is never recorded as a lost connection, whichever callback
\* the removal of the collector overtakes, for any number of observations.
THEOREM ShutdownIsNoLoss == InTime /\ ObsSpec => []OwnShutdownIsNoLoss
<1>1. ObserverInv => OwnShutdownIsNoLoss
  BY DEF ObserverInv, LossInv, OwnShutdownIsNoLoss
<1> QED BY <1>1, ObserverInvariant, PTL

\* A read model returned with a complete certificate is reduced from the facts the
\* certificate describes and no fact handed to the bridge is missing, for every size of the
\* queue and of the answers, and whether or not the writer's database raises.
THEOREM ModelIsWhole == InTime /\ ObsSpec => []CertifiedModelIsWhole
<1>1. ObserverInv => CertifiedModelIsWhole
  BY DEF ObserverInv, CertInv, CertifiedModelIsWhole
<1> QED BY <1>1, ObserverInvariant, PTL

\* A component that the returned certificate calls complete has every fact of its answer.
THEOREM ComponentsHaveAllItems == InTime /\ ObsSpec => []ComponentHasAllItems
<1>1. ObserverInv => ComponentHasAllItems
  BY DEF ObserverInv, CertInv, ComponentHasAllItems, item
<1> QED BY <1>1, ObserverInvariant, PTL

=============================================================================
