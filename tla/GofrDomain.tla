------------------------------ MODULE GofrDomain ------------------------------
(***************************************************************************)
(* The vocabulary of gofr-sec: the records of app/domain/models.py and the *)
(* rules of app/domain/rules.py.  A rule that raises in the code is a      *)
(* Boolean operator here: TRUE where the code returns, FALSE where it      *)
(* raises.                                                                 *)
(***************************************************************************)
EXTENDS Integers, FiniteSets

CONSTANTS
  Subs,        \* Keycloak subjects, of users and of admins
  GroupNames,  \* canonical (valid, lower-case, unpadded) group names
  TokenIds,    \* the uuid4 values mint_token can draw
  None         \* Python's None, and the absence of a stored record

RESERVED_ADMIN_GROUP == "admin"

ASSUME SubsAssumption == IsFiniteSet(Subs) /\ None \notin Subs
ASSUME GroupNamesAssumption ==
  RESERVED_ADMIN_GROUP \in GroupNames /\ None \notin GroupNames
ASSUME TokenIdsAssumption == None \notin TokenIds

-------------------------------------------------------------------------------
(***************************************************************************)
(* Group names as clients write them.  Two spellings matter: blanks around *)
(* the name, which every entry point strips, and upper-case letters, which *)
(* only normalize_group_name folds.  The text None is one that is not a    *)
(* group name however it is spelled (empty, or rejected by the pattern).   *)
(***************************************************************************)
RawName == [text : GroupNames \cup {None}, style : {"plain", "padded", "cased"}]

\* None where the code raises ValueError
normalize_group_name(raw) == raw.text

\* A name that was never folded, as a check on the raw text would see it
verbatim_group_name(raw) == IF raw.style = "plain" THEN raw.text ELSE None

\* What is left of a runtime request's group or resource: stripped, not folded
stripped_target(raw) == IF raw.style = "cased" THEN None ELSE raw.text

is_reserved_group(name) == name = RESERVED_ADMIN_GROUP

\* Faulty variant: an off-by-one in the last-admin rule
AllowsEmptyAdminGroup(member_count) == member_count >= 0

\* member_count is the number of admins the removal would leave
ensure_admin_membership_remains(member_count) == member_count > 0

\* Faulty variant: the reserved name is looked for before names are folded
ChecksReservedBeforeFolding(names) ==
  /\ \A raw \in names : normalize_group_name(raw) # None
  /\ \A raw \in names : ~is_reserved_group(verbatim_group_name(raw))

ensure_runtime_groups_allowed(names) ==
  /\ \A raw \in names : normalize_group_name(raw) # None
  /\ \A raw \in names : ~is_reserved_group(normalize_group_name(raw))

-------------------------------------------------------------------------------
(***************************************************************************)
(* Stored records.  Timestamps and fields that only travel to responses    *)
(* (descriptions, granted_at, issued_at, jwt_hash, pending_reveal) are     *)
(* left out.  A group is its name: nothing deletes or deactivates one.     *)
(***************************************************************************)
UserGroupMembership ==
  [keycloak_sub : Subs, group_name : GroupNames, granted_by_sub : Subs \cup {None}]

Status == {"active", "revoked"}

IssuedTokenRecord ==
  [owner_sub : Subs, granted_groups : SUBSET GroupNames, status : Status,
   expires_at : Nat, issued_by_sub : Subs, revoked_at : Nat \cup {None}]

\* A missing record is told from every stored one
ASSUME NoneAssumption == None \notin Status /\ None \notin IssuedTokenRecord

\* The admin requests: one record set per guarded route
AdminRequest ==
       [op : {"create_group"}, name : RawName]
  \cup [op : {"add_membership", "remove_membership"}, sub : Subs, name : RawName]
  \cup [op : {"mint_token"}, owner : Subs, names : SUBSET RawName, lifetime : Int]
  \cup [op : {"get_token", "revoke_token"}, token : TokenIds]
===============================================================================
