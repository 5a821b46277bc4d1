------------------------------ MODULE MCFixture -----------------------------
(***************************************************************************)
(* A TLC instance of the Paper fixture: two operators, two quotes and two  *)
(* permits, so that an opening fill can be closed while both race.         *)
(***************************************************************************)
EXTENDS PaperFixture, TLC

CommandSymmetry == Permutations(Commands)
=============================================================================
