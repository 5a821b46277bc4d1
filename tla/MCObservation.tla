---------------------------- MODULE MCObservation ----------------------------
(***************************************************************************)
(* A TLC instance of the two halves of observing a broker: the observer    *)
(* that records a session, and the consensus that later votes on what      *)
(* sessions saw.  They share no state at run time (a vote is cast on the   *)
(* saved result of an observation), so `half` says which one a behaviour   *)
(* exercises.                                                              *)
(*                                                                         *)
(* The votes: observations of two broker states, some of them late, of the *)
(* same session, with a drifted valuation, under another policy, or unfit  *)
(* for a vote.                                                             *)
(***************************************************************************)
EXTENDS SnapshotConsensus, IBKRObserver, TLC

VARIABLE half

full(o, ses, h, t) ==
    [observation |-> o, certificate |-> o, session |-> ses, hash |-> h, policy |-> 1,
     asOf |-> t, watermark |-> t + 1, value |-> 0, components |-> TRUE, form |-> "full"]

MCSnapshots ==
    {full(1, 1, 1, 0), full(2, 2, 1, 2), full(3, 2, 1, 3), full(4, 3, 2, 1),
     full(5, 4, 2, 4),
     [full(6, 5, 1, 4) EXCEPT !.value = 2],
     [full(7, 6, 1, 5) EXCEPT !.components = FALSE],
     [full(8, 7, 2, 5) EXCEPT !.policy = 2],
     [full(9, 8, 1, 1) EXCEPT !.form = "no metadata"],
     [full(10, 9, 1, 1) EXCEPT !.form = "incomplete"]}

\* The concurrent calls of reconcile_authoritative are interchangeable.
CallerSymmetry == Permutations(Callers)

MCInit == half \in {"observer", "consensus"} /\ Init /\ ObsInit

MCNext ==
    /\ UNCHANGED half
    /\ \/ half = "consensus" /\ Next /\ UNCHANGED obsVars
       \/ half = "observer" /\ ObsNext /\ UNCHANGED vars

MCSpec == MCInit /\ [][MCNext]_<<half, vars, obsVars>>
=============================================================================
