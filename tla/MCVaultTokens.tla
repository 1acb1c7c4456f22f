---------------------------- MODULE MCVaultTokens ----------------------------
(***************************************************************************)
(* A small instance of VaultTokens for TLC: what is minted and asked.      *)
(***************************************************************************)
EXTENDS VaultTokens, TLC

\* A token of two groups that expires before the clock stops
TeamAndOps == {[owner |-> "alice", groups |-> {"team", "ops"}, lifetime |-> 1]}

TeamQuestions == [token : TokenIds, owner : Subs, group : {"team"}]

ProcessSymmetry == Permutations(Processes)
=============================================================================
