-------------------------- MODULE MCVaultMemberships --------------------------
(***************************************************************************)
(* Small instances of VaultMemberships for TLC: the request sets.          *)
(***************************************************************************)
EXTENDS VaultMemberships, TLC

NoTokens == {}
OneTrusted == <<"alice">>
TwoTrusted == <<"alice", "bob">>

Create(group)      == [op |-> "create", sub |-> None, group |-> group]
Add(sub, group)    == [op |-> "add", sub |-> sub, group |-> group]
Remove(sub, group) == [op |-> "remove", sub |-> sub, group |-> group]

\* The admin group, and another group of the same users
FewRequests ==
  {Create("team"), Add("alice", "team"), Remove("alice", "team"), Add("bob", "team")}
    \cup {Add("bob", "admin"), Remove("alice", "admin"), Remove("bob", "admin")}

\* What two processes need to collide on one document, and a removal, so that
\* an admitted request may outlive its actor's membership
SharedRequests == {Create("team"), Add("bob", "team"), Remove("bob", "admin")}

ProcessSymmetry == Permutations(Processes)
===============================================================================
