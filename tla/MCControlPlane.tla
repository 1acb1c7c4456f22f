---------------------------- MODULE MCControlPlane ----------------------------
(***************************************************************************)
(* Small instances of ControlPlane for TLC: the request sets of each run.  *)
(***************************************************************************)
EXTENDS ControlPlane, TLC

Plain(name)  == [text |-> name, style |-> "plain"]
Padded(name) == [text |-> name, style |-> "padded"]
Cased(name)  == [text |-> name, style |-> "cased"]

Create(raw)      == [op |-> "create_group", name |-> raw]
Add(sub, raw)    == [op |-> "add_membership", sub |-> sub, name |-> raw]
Remove(sub, raw) == [op |-> "remove_membership", sub |-> sub, name |-> raw]
Inspect(t)       == [op |-> "get_token", token |-> t]
Revoke(t)        == [op |-> "revoke_token", token |-> t]
Mint(owner, raws, lifetime) ==
  [op |-> "mint_token", owner |-> owner, names |-> raws, lifetime |-> lifetime]

NoTokens == {}
NoTargets == {}

SlotSymmetry == Permutations(Slots)

OneTrusted == <<"alice">>
TwoTrusted == <<"alice", "bob">>

\* Groups and memberships: every grant and removal, and one of each bad name
MembershipRequests ==
       {Create(Plain("team")), Create(Cased("admin")), Create(Plain(None))}
  \cup {Add(sub, Plain(g)) : sub \in Subs, g \in {"admin", "team"}}
  \cup {Remove(sub, Plain(g)) : sub \in Subs, g \in {"admin", "team"}}

\* The grants and removals of the admin group alone, for two slots
AdminshipRequests ==
       {Add(sub, Plain("admin")) : sub \in Subs}
  \cup {Remove(sub, Padded("admin")) : sub \in Subs}

\* Tokens: good mints of one and of two groups, and each way to be refused
TokenRequests ==
       {Create(Plain("team")), Create(Plain("ops"))}
  \cup {Mint("bob", {Plain("team")}, 2),
        Mint("bob", {Plain("team"), Padded("ops")}, 1),
        Mint("bob", {Plain("team"), Cased("admin")}, 1),
        Mint("bob", {Plain("team"), Plain(None)}, 1),
        Mint("bob", {}, 1),
        Mint("bob", {Plain("team")}, 0)}
  \cup {Revoke(t) : t \in TokenIds}

\* The same with a membership and an inspection, so that every kind of request
\* is logged
AuditRequests ==
  TokenRequests \cup {Add("bob", Plain("team")), Remove("bob", Plain("team"))}
                \cup {Inspect(t) : t \in TokenIds}

AuditTargets == {Padded("team"), Cased("team")}

\* The admin group and the tokens together, for the abstract specification
AccessRequests ==
  AdminshipRequests \cup {Create(Plain("team")), Mint("bob", {Plain("team")}, 1)}
  \cup {Revoke(t) : t \in TokenIds}
===============================================================================
