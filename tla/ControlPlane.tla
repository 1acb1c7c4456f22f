----------------------------- MODULE ControlPlane -----------------------------
(***************************************************************************)
(* One gofr-sec process and the store behind it.                           *)
(*                                                                         *)
(* A route handler is an `async def` that calls synchronous services: it   *)
(* runs on the event loop without being interleaved with another handler,  *)
(* so one handler is one action.  Its dependencies are plain functions     *)
(* that run in the thread pool before it: between require_admin_identity   *)
(* and the handler, other handlers run.  Admit is the dependency; the      *)
(* request then waits in a slot of `inflight`.                             *)
(*                                                                         *)
(* With Vault behind it a handler may stop at any of its Vault calls,      *)
(* because the call fails (whether or not Vault applied the write) or the  *)
(* process dies.  What it had written by then stays.                       *)
(***************************************************************************)
EXTENDS GofrDomain, Sequences

CONSTANTS
  VaultConfigured,  \* TRUE: Vault repositories; FALSE: in-memory ones
  TrustedSubs,      \* settings.bootstrap.trusted_subs, without duplicates
  AdminRequests,    \* the admin requests clients send
  AuthorizeTargets, \* the group or resource names runtime callers ask for
  Slots,            \* bound: admin requests between their check and handler
  MaxTime           \* bound: the last instant of the clock

ASSUME VaultAssumption == VaultConfigured \in BOOLEAN
ASSUME TrustedAssumption == TrustedSubs \in Seq(Subs)
ASSUME RequestsAssumption == AdminRequests \subseteq AdminRequest
ASSUME TargetsAssumption == AuthorizeTargets \subseteq RawName
ASSUME SlotsAssumption == None \notin Slots
ASSUME MaxTimeAssumption == MaxTime \in Nat

VARIABLES
  proc,         \* "down" or "serving"
  registered,   \* subjects with a stored profile
  groups,       \* names of stored group definitions
  memberships,  \* stored membership records
  tokens,       \* canonical token records, by token id
  userIndex,    \* status in users/<owner>/tokens/<id>, None without an entry
  groupIndex,   \* status in groups/<group>/tokens/<id>, by id and group
  inflight,     \* admitted requests that wait for their handler; `entitled` in
                \* one is history: its actor was an admin when it was admitted
  clock,        \* utc_now()
  audit,        \* the last event appended since the process started
  answer,       \* the last HTTP answer
  bootstrapped,     \* history: a startup completed on this store
  answeredMints,    \* history: tokens whose mint was answered 201
  answeredRevokes   \* history: tokens whose revocation was answered 200

store   == <<registered, groups, memberships, tokens, userIndex, groupIndex>>
history == <<bootstrapped, answeredMints, answeredRevokes>>
vars    == <<proc, store, inflight, clock, audit, answer, history>>

tokenStore   == <<tokens, userIndex, groupIndex>>
tokenHistory == <<answeredMints, answeredRevokes>>

\* Everything but what is only observed: no action reads audit or answer
coreView == <<proc, store, inflight, clock, history>>

-------------------------------------------------------------------------------
\* list_for_group, whose length is count_members
MembershipsOfGroup(group) == {m \in memberships : m.group_name = group}

\* The records _find_membership looks for, none or one
MembershipsOf(sub, group) ==
  {m \in MembershipsOfGroup(group) : m.keycloak_sub = sub}

AdminSubs == {m.keycloak_sub : m \in MembershipsOfGroup(RESERVED_ADMIN_GROUP)}

\* Faulty variant: a registered user passes for an admin
IsRegistered(sub) == sub \in registered

\* has_membership(sub, RESERVED_ADMIN_GROUP)
is_admin(sub) == sub \in AdminSubs

IdleSlots == [slot \in Slots |-> None]

NoIndexEntries == [t \in TokenIds |-> [g \in GroupNames |-> None]]

\* How a handler ends: it returns, one of its Vault calls raises, or the
\* process dies between two of them
Outcomes == IF VaultConfigured THEN {"ok", "error", "crash"} ELSE {"ok"}

\* Faulty variant: a failed write is logged and ignored
IgnoresFailedWrite == [outcome : Outcomes, written : BOOLEAN]

\* A handler that makes one write: it can only return once that is applied.  A
\* failed write is applied by then or never (VaultMemberships has late ones).
SingleWrite == {e \in [outcome : Outcomes, written : BOOLEAN] :
                  e.outcome = "ok" => e.written}

AuditEvent(type, actor, subject, group, token, result) ==
  [event_type |-> type, actor_sub |-> actor, subject_sub |-> subject,
   group_name |-> group, token_id |-> token, result |-> result]

Answer(op, actor, code) == [op |-> op, actor |-> actor, code |-> code]

AnswerCodes == {"ok", "failed", "forbidden", "unavailable"}

Init ==
  /\ proc = "down"
  /\ registered = {}
  /\ groups = {}
  /\ memberships = {}
  /\ tokens = [t \in TokenIds |-> None]
  /\ userIndex = [t \in TokenIds |-> None]
  /\ groupIndex = NoIndexEntries
  /\ inflight = IdleSlots
  /\ clock = 0
  /\ audit = None
  /\ answer = None
  /\ bootstrapped = FALSE
  /\ answeredMints = {}
  /\ answeredRevokes = {}

-------------------------------------------------------------------------------
(***************************************************************************)
(* Startup and crash.                                                      *)
(***************************************************************************)

\* The grants apply_plan adds for the first k trusted subjects
BootstrapGrants(k) ==
  {[keycloak_sub |-> TrustedSubs[i], group_name |-> RESERVED_ADMIN_GROUP,
    granted_by_sub |-> None] :
     i \in {j \in 1..k : ~is_admin(TrustedSubs[j])}}

\* Faulty variant: the memberships are written before the group definition
BindsAdminsFirst ==
  {e \in [outcome : Outcomes, group_written : BOOLEAN, bound : 0..Len(TrustedSubs)] :
     /\ e.group_written => e.bound = Len(TrustedSubs)
     /\ e.outcome = "ok" => e.group_written}

\* How far a startup gets: the group definition, then the memberships in turn
BootstrapProgress ==
  {e \in [outcome : Outcomes, group_written : BOOLEAN, bound : 0..Len(TrustedSubs)] :
     /\ e.bound > 0 => e.group_written
     /\ e.outcome = "ok" => e.group_written /\ e.bound = Len(TrustedSubs)}

Startup ==
  /\ proc = "down"
  /\ \E e \in BootstrapProgress :
       /\ groups' = IF e.group_written THEN groups \cup {RESERVED_ADMIN_GROUP} ELSE groups
       /\ memberships' = memberships \cup BootstrapGrants(e.bound)
       /\ proc' = IF e.outcome = "ok" THEN "serving" ELSE "down"
       /\ bootstrapped' = (bootstrapped \/ e.outcome = "ok")
  /\ UNCHANGED <<registered, tokenStore, inflight, clock, audit, answer, tokenHistory>>

\* What every crash does: the process, its requests and its events are gone
Die ==
  /\ proc' = "down"
  /\ inflight' = IdleSlots
  /\ audit' = None
  /\ answer' = None

\* The process dies between handlers.  Only Vault outlives it.
Crash ==
  /\ proc = "serving"
  /\ Die
  /\ IF VaultConfigured
       THEN UNCHANGED <<store, bootstrapped>>
       ELSE /\ registered' = {}
            /\ groups' = {}
            /\ memberships' = {}
            /\ tokens' = [t \in TokenIds |-> None]
            /\ userIndex' = [t \in TokenIds |-> None]
            /\ groupIndex' = NoIndexEntries
            /\ bootstrapped' = FALSE
  /\ UNCHANGED <<clock, tokenHistory>>

-------------------------------------------------------------------------------
(***************************************************************************)
(* The dependencies of the admin routes.                                   *)
(***************************************************************************)

\* get_token_signer: without Vault there is no signer
SignerMissing(req) == req.op = "mint_token" /\ ~VaultConfigured

\* require_admin_identity lets the request through to its handler
Admit(slot, actor, req) ==
  /\ proc = "serving"
  /\ inflight[slot] = None
  /\ is_admin(actor)
  /\ ~SignerMissing(req)
  /\ inflight' = [inflight EXCEPT ![slot] =
                    [actor |-> actor, req |-> req, entitled |-> actor \in AdminSubs]]
  /\ UNCHANGED <<proc, store, clock, audit, answer, history>>

\* 403 from require_admin_identity, else 503 from get_token_signer; or the
\* read of the memberships fails
Refuse(actor, req) ==
  /\ proc = "serving"
  /\ \/ /\ ~is_admin(actor)
        /\ answer' = Answer(req.op, actor, "forbidden")
     \/ /\ is_admin(actor)
        /\ SignerMissing(req)
        /\ answer' = Answer(req.op, actor, "unavailable")
     \/ /\ VaultConfigured
        /\ answer' = Answer(req.op, actor, "failed")
  /\ UNCHANGED <<proc, store, inflight, clock, audit, history>>

\* The handler of the request in `slot` is about to run
Handles(slot, op) ==
  /\ proc = "serving"
  /\ inflight[slot] # None
  /\ inflight[slot].req.op = op

\* Faulty variant: only what succeeded is logged
AuditsSuccessOnly(slot, outcome, subject, group, token) ==
  LET actor == inflight[slot].actor
      op == inflight[slot].req.op
  IN IF outcome = "crash"
       THEN Die
       ELSE /\ proc' = proc
            /\ inflight' = [inflight EXCEPT ![slot] = None]
            /\ audit' = IF outcome = "ok"
                          THEN AuditEvent(op, actor, subject, group, token, "success")
                          ELSE audit
            /\ answer' = Answer(op, actor, IF outcome = "ok" THEN "ok" ELSE "failed")

\* The handler ends: the service appends its event and the route answers,
\* unless the process died on the way
Finish(slot, outcome, subject, group, token) ==
  LET actor == inflight[slot].actor
      op == inflight[slot].req.op
  IN IF outcome = "crash"
       THEN Die
       ELSE /\ proc' = proc
            /\ inflight' = [inflight EXCEPT ![slot] = None]
            /\ audit' = AuditEvent(op, actor, subject, group, token,
                                   IF outcome = "ok" THEN "success" ELSE "failure")
            /\ answer' = Answer(op, actor, IF outcome = "ok" THEN "ok" ELSE "failed")

-------------------------------------------------------------------------------
(***************************************************************************)
(* AdminGroupService.                                                      *)
(***************************************************************************)
\* Faulty variant: a malformed name is taken as it is
AcceptsMalformedName(name) == ~is_reserved_group(name) /\ name \notin groups

CanCreateGroup(name) ==
  /\ name # None
  /\ ~is_reserved_group(name)
  /\ name \notin groups

CreateGroup(slot) ==
  /\ Handles(slot, "create_group")
  /\ LET name == normalize_group_name(inflight[slot].req.name)
     IN \/ /\ ~CanCreateGroup(name)
           /\ Finish(slot, "error", None, name, None)
           /\ UNCHANGED groups
        \/ /\ CanCreateGroup(name)
           /\ \E e \in SingleWrite :
                /\ groups' = IF e.written THEN groups \cup {name} ELSE groups
                /\ Finish(slot, e.outcome, None, name, None)
  /\ UNCHANGED <<registered, memberships, tokenStore, clock, history>>

CanAddMembership(sub, name) ==
  /\ name \in groups
  /\ sub \in registered

\* Faulty variant: an existing membership is written again
GrantsAgain(sub, name, actor) ==
  {m \in memberships : ~(m.keycloak_sub = sub /\ m.group_name = name)}
    \cup {[keycloak_sub |-> sub, group_name |-> name, granted_by_sub |-> actor]}

\* Faulty variant: the existing record is not looked for
AppendsRecord(sub, name, actor) ==
  memberships \cup
    {[keycloak_sub |-> sub, group_name |-> name, granted_by_sub |-> actor]}

\* An existing membership is returned as it is
WithMembership(sub, name, actor) ==
  IF MembershipsOf(sub, name) # {}
    THEN memberships
    ELSE memberships \cup
           {[keycloak_sub |-> sub, group_name |-> name, granted_by_sub |-> actor]}

AddMembership(slot) ==
  /\ Handles(slot, "add_membership")
  /\ LET sub == inflight[slot].req.sub
         name == normalize_group_name(inflight[slot].req.name)
         actor == inflight[slot].actor
     IN \/ /\ ~CanAddMembership(sub, name)
           /\ Finish(slot, "error", sub, name, None)
           /\ UNCHANGED memberships
        \/ /\ CanAddMembership(sub, name)
           /\ \E e \in SingleWrite :
                /\ memberships' = IF e.written THEN WithMembership(sub, name, actor)
                                               ELSE memberships
                /\ Finish(slot, e.outcome, sub, name, None)
  /\ UNCHANGED <<registered, groups, tokenStore, clock, history>>

CanRemoveMembership(sub, name) ==
  /\ name \in groups
  /\ MembershipsOf(sub, name) # {}
  /\ name = RESERVED_ADMIN_GROUP =>
       ensure_admin_membership_remains(
         Cardinality(MembershipsOfGroup(RESERVED_ADMIN_GROUP)) - 1)

RemoveMembership(slot) ==
  /\ Handles(slot, "remove_membership")
  /\ LET sub == inflight[slot].req.sub
         name == normalize_group_name(inflight[slot].req.name)
     IN \/ /\ ~CanRemoveMembership(sub, name)
           /\ Finish(slot, "error", sub, name, None)
           /\ UNCHANGED memberships
        \/ /\ CanRemoveMembership(sub, name)
           /\ \E e \in SingleWrite :
                /\ memberships' = IF e.written THEN memberships \ MembershipsOf(sub, name)
                                               ELSE memberships
                /\ Finish(slot, e.outcome, sub, name, None)
  /\ UNCHANGED <<registered, groups, tokenStore, clock, history>>

-------------------------------------------------------------------------------
(***************************************************************************)
(* AdminTokenService over VaultTokenRepository.upsert, which writes the    *)
(* canonical record, then the user index entry, then one entry per group.  *)
(* A token's owner and groups never change, so upsert deletes no entry.    *)
(***************************************************************************)
Progress(granted) ==
  [outcome : Outcomes, record : BOOLEAN, user_index : BOOLEAN,
   group_index : SUBSET granted]

\* Faulty variant: the index entries are written before the record
WritesIndexesFirst(granted) ==
  {e \in Progress(granted) :
     /\ e.group_index # {} => e.user_index
     /\ e.record => e.group_index = granted /\ e.user_index
     /\ e.outcome = "ok" => e.record}

\* Faulty variant: a failed write of the record or of the user index entry
\* is logged and ignored
IgnoresFailedWrites(granted) ==
  {e \in Progress(granted) : e.outcome = "ok" => e.group_index = granted}

\* How far an upsert gets by the time its handler ends (the order of the groups is
\* left open; VaultTokens has the writes that arrive later)
UpsertProgress(granted) ==
  {e \in Progress(granted) :
     /\ e.user_index => e.record
     /\ e.group_index # {} => e.user_index
     /\ e.outcome = "ok" => e.user_index /\ e.group_index = granted}

Upsert(t, record, e) ==
  /\ tokens' = IF e.record THEN [tokens EXCEPT ![t] = record] ELSE tokens
  /\ userIndex' = IF e.user_index THEN [userIndex EXCEPT ![t] = record.status]
                                  ELSE userIndex
  /\ groupIndex' = [groupIndex EXCEPT ![t] =
                      [g \in GroupNames |-> IF g \in e.group_index THEN record.status
                                                                   ELSE groupIndex[t][g]]]

\* Faulty variant: the groups are not looked up
SkipsGroupLookup(names) == ensure_runtime_groups_allowed(names) /\ names # {}

\* _validate_groups raises unless every name is a stored runtime group
ValidateGroups(names) ==
  /\ ensure_runtime_groups_allowed(names)
  /\ names # {}
  /\ \A raw \in names : normalize_group_name(raw) \in groups

\* Faulty variant: the owner's profile is not looked up
MintsForAnyone(req) == ValidateGroups(req.names) /\ req.lifetime > 0

CanMint(req) ==
  /\ req.owner \in registered
  /\ ValidateGroups(req.names)
  /\ req.lifetime > 0

NewToken(req, actor) ==
  [owner_sub |-> req.owner,
   granted_groups |-> {normalize_group_name(raw) : raw \in req.names},
   status |-> "active",
   expires_at |-> clock + req.lifetime,
   issued_by_sub |-> actor,
   revoked_at |-> None]

\* Faulty variant: the id of a revoked token may be drawn again
UnusedOrRevokedIds ==
  {t \in TokenIds : tokens[t] = None \/ tokens[t].status = "revoked"}

\* uuid4 draws an id no stored record has
FreshTokenIds == {t \in TokenIds : tokens[t] = None}

\* A signing failure is an error with nothing written.  Minting stops when
\* TokenIds is used up.
MintToken(slot) ==
  /\ Handles(slot, "mint_token")
  /\ LET req == inflight[slot].req
         record == NewToken(req, inflight[slot].actor)
     IN \/ /\ ~CanMint(req)
           /\ Finish(slot, "error", req.owner, None, None)
           /\ UNCHANGED <<tokenStore, answeredMints>>
        \/ /\ CanMint(req)
           /\ \E t \in FreshTokenIds,
                 e \in UpsertProgress(record.granted_groups) :
                /\ Upsert(t, record, e)
                /\ Finish(slot, e.outcome, req.owner, None,
                          IF e.outcome = "ok" THEN t ELSE None)
                /\ answeredMints' = IF e.outcome = "ok" THEN answeredMints \cup {t}
                                                        ELSE answeredMints
  /\ UNCHANGED <<registered, groups, memberships, clock, bootstrapped, answeredRevokes>>

OwnerOrNone(t) == IF tokens[t] = None THEN None ELSE tokens[t].owner_sub

\* Inspection only reads; the read itself may fail
GetToken(slot) ==
  /\ Handles(slot, "get_token")
  /\ LET t == inflight[slot].req.token
     IN \/ Finish(slot, "error", None, None, t) /\ (tokens[t] = None \/ VaultConfigured)
        \/ Finish(slot, "ok", OwnerOrNone(t), None, t) /\ tokens[t] # None
  /\ UNCHANGED <<store, clock, history>>

\* Faulty variant: a revoked record is revoked once more
RevokesAgain(t) == tokens[t] # None

\* revoke_token writes unless the record is missing or already revoked
NeedsRevocation(t) == tokens[t] # None /\ tokens[t].status = "active"

RevokedToken(t) == [tokens[t] EXCEPT !.status = "revoked", !.revoked_at = clock]

RevokeToken(slot) ==
  /\ Handles(slot, "revoke_token")
  /\ LET t == inflight[slot].req.token
     IN \/ /\ tokens[t] = None \/ VaultConfigured
           /\ Finish(slot, "error", None, None, t)
           /\ UNCHANGED <<tokenStore, answeredRevokes>>
        \/ /\ tokens[t] # None /\ ~NeedsRevocation(t)
           /\ Finish(slot, "ok", OwnerOrNone(t), None, t)
           /\ answeredRevokes' = answeredRevokes \cup {t}
           /\ UNCHANGED tokenStore
        \/ /\ NeedsRevocation(t)
           /\ \E e \in UpsertProgress(tokens[t].granted_groups) :
                /\ Upsert(t, RevokedToken(t), e)
                /\ Finish(slot, e.outcome,
                          IF e.outcome = "ok" THEN OwnerOrNone(t) ELSE None, None, t)
                /\ answeredRevokes' = IF e.outcome = "ok" THEN answeredRevokes \cup {t}
                                                          ELSE answeredRevokes
  /\ UNCHANGED <<registered, groups, memberships, clock, bootstrapped, answeredMints>>

-------------------------------------------------------------------------------
(***************************************************************************)
(* Routes of ordinary users and of runtime consumers, without slots: no    *)
(* dependency of theirs reads stored state.                                *)
(***************************************************************************)

\* The service raised nothing, or raised after appending its failure event
Respond(type, actor, subject, group, token, result, code) ==
  /\ audit' = AuditEvent(type, actor, subject, group, token, result)
  /\ answer' = Answer(type, actor, code)

RegisterSelf(sub) ==
  /\ proc = "serving"
  /\ \/ \* the read of the existing profile is outside the try block
        /\ VaultConfigured
        /\ answer' = Answer("register_self", sub, "failed")
        /\ UNCHANGED <<registered, proc, inflight, audit>>
     \/ \E e \in SingleWrite :
          /\ registered' = IF e.written THEN registered \cup {sub} ELSE registered
          /\ IF e.outcome = "crash"
               THEN Die
               ELSE /\ IF e.outcome = "ok"
                         THEN Respond("register_self", sub, sub, None, None,
                                      IF sub \in registered THEN "refreshed" ELSE "created",
                                      "ok")
                         ELSE Respond("register_self", sub, sub, None, None,
                                      "failure", "failed")
                    /\ UNCHANGED <<proc, inflight>>
  /\ UNCHANGED <<groups, memberships, tokenStore, clock, history>>

\* The answer of list_self_tokens: records found through the user index
SelfTokens(sub) ==
  {t \in TokenIds : tokens[t] # None /\ tokens[t].owner_sub = sub /\ userIndex[t] # None}

ListSelfTokens(sub) ==
  /\ proc = "serving"
  /\ \/ Respond("list_self_tokens", sub, sub, None, None, "success", "ok")
     \/ /\ VaultConfigured
        /\ Respond("list_self_tokens", sub, sub, None, None, "failure", "failed")
  /\ UNCHANGED <<proc, store, inflight, clock, history>>

\* The decision on a stripped group or resource name, at the present instant
Allowed(t, owner, target) ==
  /\ tokens[t] # None
  /\ tokens[t].owner_sub = owner
  /\ tokens[t].status = "active"
  /\ clock < tokens[t].expires_at
  /\ target \in tokens[t].granted_groups

Authorize(t, owner, raw) ==
  /\ proc = "serving"
  /\ LET target == stripped_target(raw)
     IN \/ Respond("authorize", owner, owner, target, t,
                   IF Allowed(t, owner, target) THEN "allow" ELSE "deny", "ok")
        \/ /\ VaultConfigured
           /\ Respond("authorize", owner, owner, target, t, "failure", "failed")
  /\ UNCHANGED <<proc, store, inflight, clock, history>>

Tick ==
  /\ clock < MaxTime
  /\ clock' = clock + 1
  /\ UNCHANGED <<proc, store, inflight, audit, answer, history>>

-------------------------------------------------------------------------------
AdminHandler(slot) ==
  \/ CreateGroup(slot)
  \/ AddMembership(slot)
  \/ RemoveMembership(slot)
  \/ MintToken(slot)
  \/ GetToken(slot)
  \/ RevokeToken(slot)

Next ==
  \/ Startup
  \/ Crash
  \/ \E actor \in Subs, req \in AdminRequests :
       \/ \E slot \in Slots : Admit(slot, actor, req)
       \/ Refuse(actor, req)
  \/ \E slot \in Slots : AdminHandler(slot)
  \/ \E sub \in Subs : RegisterSelf(sub) \/ ListSelfTokens(sub)
  \/ \E t \in TokenIds, owner \in Subs, raw \in AuthorizeTargets : Authorize(t, owner, raw)
  \/ Tick

Spec == Init /\ [][Next]_vars

-------------------------------------------------------------------------------
(***************************************************************************)
(* Type correctness.                                                       *)
(***************************************************************************)
EventTypes == {"create_group", "add_membership", "remove_membership", "mint_token",
               "get_token", "revoke_token", "register_self", "list_self_tokens",
               "authorize"}

Results == {"success", "failure", "created", "refreshed", "allow", "deny"}

AuditRecord ==
  [event_type : EventTypes, actor_sub : Subs, subject_sub : Subs \cup {None},
   group_name : GroupNames \cup {None}, token_id : TokenIds \cup {None},
   result : Results]

\* No event is told from every event
ASSUME NoEventAssumption == None \notin AuditRecord

AnswerRecord == [op : EventTypes, actor : Subs, code : AnswerCodes]

InflightRequest == [actor : Subs, req : AdminRequests, entitled : BOOLEAN]

\* Every variable holds values of the kind its declaration describes.
TypeOK ==
  /\ proc \in {"down", "serving"}
  /\ registered \subseteq Subs
  /\ groups \subseteq GroupNames
  /\ memberships \subseteq UserGroupMembership
  /\ tokens \in [TokenIds -> IssuedTokenRecord \cup {None}]
  /\ userIndex \in [TokenIds -> Status \cup {None}]
  /\ groupIndex \in [TokenIds -> [GroupNames -> Status \cup {None}]]
  /\ inflight \in [Slots -> InflightRequest \cup {None}]
  /\ clock \in 0..MaxTime
  /\ audit \in AuditRecord \cup {None}
  /\ answer \in AnswerRecord \cup {None}
  /\ bootstrapped \in BOOLEAN
  /\ answeredMints \subseteq TokenIds
  /\ answeredRevokes \subseteq TokenIds

-------------------------------------------------------------------------------
(***************************************************************************)
(* Who holds authority.                                                    *)
(***************************************************************************)

\* Once a startup has bound the trusted subjects, the admin group never
\* empties: not by concurrent removals admitted together, not by a removal
\* that fails half-way, not while the process is down.  A write that fails is
\* applied by the time its handler ends or never; with one that arrives later
\* the last admin can go (VaultMemberships).
LastAdminRemains ==
  (TrustedSubs # <<>> /\ (proc = "serving" \/ bootstrapped)) => AdminSubs # {}

\* The handler of a waiting request ends, in a return, an error or a crash,
\* and the actor of that request was an admin when it was admitted
Exercises(slot, op) ==
  /\ inflight[slot] # None /\ inflight'[slot] = None
  /\ inflight[slot].req.op = op
  /\ inflight[slot].entitled

\* Only a startup, and only a trusted subject, gets a grant without a granter
BoundAtStartup(m) ==
  /\ proc = "down"
  /\ m.granted_by_sub = None /\ m.group_name = RESERVED_ADMIN_GROUP
  /\ \E i \in 1..Len(TrustedSubs) : m.keycloak_sub = TrustedSubs[i]

\* The request asked for this grant, or for its removal
AsksFor(req, m) ==
  req.sub = m.keycloak_sub /\ normalize_group_name(req.name) = m.group_name

StoreIsLost == ~VaultConfigured /\ proc = "serving" /\ proc' = "down"

GrantsChangeByAuthority ==
  /\ \A m \in memberships' \ memberships :
       \/ BoundAtStartup(m)
       \/ \E slot \in Slots : /\ Exercises(slot, "add_membership")
                             /\ AsksFor(inflight[slot].req, m)
                             /\ m.granted_by_sub = inflight[slot].actor
  /\ \A m \in memberships \ memberships' :
       \/ StoreIsLost
       \/ \E slot \in Slots : /\ Exercises(slot, "remove_membership")
                             /\ AsksFor(inflight[slot].req, m)

TokensChangeByAuthority ==
  \A t \in {u \in TokenIds : tokens'[u] # tokens[u]} :
    \/ StoreIsLost
    \/ /\ tokens[t] = None
       /\ \E slot \in Slots : /\ Exercises(slot, "mint_token")
                             /\ tokens'[t].owner_sub = inflight[slot].req.owner
                             /\ tokens'[t].issued_by_sub = inflight[slot].actor
    \/ \E slot \in Slots : /\ Exercises(slot, "revoke_token")
                          /\ inflight[slot].req.token = t

\* Authority comes from the bootstrap configuration only.  A startup makes the
\* grants without a granter, to trusted subjects.  Every other grant, every
\* removal, every token and every revocation is the work of a handler whose
\* request asked for just that, and whose actor was an admin at the moment the
\* request was admitted (by the time of the write it may not be one any more);
\* grants and tokens name that actor.
AuthorityHasRoot == [][GrantsChangeByAuthority /\ TokensChangeByAuthority]_vars

\* Stored grants never dangle, whatever call failed before: the group of a
\* membership is defined, and its subject has a profile unless the bootstrap
\* made the grant.
GrantsRestOnRecords ==
  \A m \in memberships :
    /\ m.group_name \in groups
    /\ m.granted_by_sub # None => m.keycloak_sub \in registered

\* A repeated grant, a retry after a lost answer and a repeated startup all
\* leave an existing membership, with its granter, as it was, as long as no
\* failed write arrives after its handler.
GrantsNeverRewritten ==
  [][\A m \in memberships, n \in memberships' :
       (m.keycloak_sub = n.keycloak_sub /\ m.group_name = n.group_name) => m = n]_vars

-------------------------------------------------------------------------------
(***************************************************************************)
(* What runtime tokens promise.                                            *)
(***************************************************************************)

\* However its name is spelled, the reserved group is in no runtime token, so
\* no runtime decision ever allows it.
AdminNeverInRuntimeTokens ==
  \A t \in TokenIds, owner \in Subs : ~Allowed(t, owner, RESERVED_ADMIN_GROUP)

\* A canonical record, even one whose mint was never answered, belongs to a
\* registered user and grants at least one group, all of them defined.
TokensRestOnRecords ==
  \A t \in TokenIds :
    tokens[t] # None =>
      /\ tokens[t].owner_sub \in registered
      /\ tokens[t].granted_groups # {}
      /\ tokens[t].granted_groups \subseteq groups

\* A revoked record is never written again: neither its status nor the
\* instant of its revocation changes, whoever revokes it once more.  With a
\* write that arrives after its handler only the status is final (VaultTokens).
RevocationIsFinal ==
  [][\A t \in TokenIds :
       (tokens[t] # None /\ tokens[t].status = "revoked") => tokens'[t] = tokens[t]]_vars

\* Once a token exists its decisions only go from allow to deny.
AuthorizationNeverRegained ==
  [][\A t \in TokenIds, owner \in Subs, g \in GroupNames :
       (tokens[t] # None /\ ~Allowed(t, owner, g)) => ~Allowed(t, owner, g)']_vars

\* After a revocation is answered no request for the token is allowed, across
\* crashes and restarts too.
AnsweredRevocationHolds ==
  \A t \in answeredRevokes, owner \in Subs, g \in GroupNames : ~Allowed(t, owner, g)

\* A token whose mint was answered is in the list its owner is shown and in
\* the index of each of its groups.
AnsweredMintsAreIndexed ==
  \A t \in answeredMints :
    /\ t \in SelfTokens(tokens[t].owner_sub)
    /\ \A g \in tokens[t].granted_groups : groupIndex[t][g] # None

\* Wherever a write stopped, the indexes are never ahead of the record: an
\* entry has its record, and an entry that says revoked has a revoked record.
IndexesFollowRecords ==
  \A t \in TokenIds :
    \A status \in {userIndex[t]} \cup {groupIndex[t][g] : g \in GroupNames} :
      status # None => /\ tokens[t] # None
                       /\ status = "revoked" => tokens[t].status = "revoked"

\* The in-memory service has no signing key, so it holds no token.
NoTokenWithoutVault ==
  ~VaultConfigured => \A t \in TokenIds : tokens[t] = None

-------------------------------------------------------------------------------
(***************************************************************************)
(* What all of it amounts to.  Slots, indexes, waiting requests, failures  *)
(* and the process itself are details that AccessPromise does not have.    *)
(***************************************************************************)
TrustedSet == {TrustedSubs[i] : i \in 1..Len(TrustedSubs)}

\* The canonical record decides: an index entry is no part of a token.
Issued ==
  [t \in {u \in TokenIds : tokens[u] # None} |->
     [owner |-> tokens[t].owner_sub, groups |-> tokens[t].granted_groups,
      expires_at |-> tokens[t].expires_at]]

Revoked == {t \in TokenIds : tokens[t] # None /\ tokens[t].status = "revoked"}

Access == INSTANCE AccessPromise
  WITH AdminGroup <- RESERVED_ADMIN_GROUP, Trusted <- TrustedSet,
       Durable <- VaultConfigured, admins <- AdminSubs, issued <- Issued,
       revoked <- Revoked

\* Every step of the service is one step of AccessPromise or none of it: a
\* handler that failed or died half-way has either done the whole of what was
\* asked, as far as admins and decisions go, or nothing.
ImplementsAccessPromise == Access!Spec

-------------------------------------------------------------------------------
(***************************************************************************)
(* What the audit log says.                                                *)
(***************************************************************************)

\* What a success event claims of the store
EventHolds(e) ==
  CASE e.event_type = "create_group" -> e.group_name \in groups
    [] e.event_type = "add_membership" -> MembershipsOf(e.subject_sub, e.group_name) # {}
    [] e.event_type = "remove_membership" -> MembershipsOf(e.subject_sub, e.group_name) = {}
    [] e.event_type = "mint_token" -> e.subject_sub = OwnerOrNone(e.token_id)
    [] e.event_type = "revoke_token" -> tokens[e.token_id].status = "revoked"
    [] OTHER -> TRUE

\* When an admin request is logged as a success the change it reports is in the
\* store.
SuccessEventsHold ==
  [][\A slot \in Slots :
       /\ proc' = "serving"
       /\ inflight[slot] # None /\ inflight'[slot] = None
       /\ audit' # None /\ audit'.result = "success"
       => EventHolds(audit)']_vars

\* A step of a serving process that changes groups, memberships or tokens
\* appends the event of the request it answers, success or failure: a change
\* made by a call that was then reported as failed is in the log as well.
ChangesAreAudited ==
  [][/\ proc = "serving" /\ proc' = "serving"
     /\ <<groups, memberships, tokens>>' # <<groups, memberships, tokens>>
     => \E slot \in Slots :
          /\ inflight[slot] # None /\ inflight'[slot] = None
          /\ audit' # None
          /\ audit'.event_type = inflight[slot].req.op
          /\ audit'.actor_sub = inflight[slot].actor]_vars

-------------------------------------------------------------------------------
(***************************************************************************)
(* What the documents say and the code does not do.                        *)
(***************************************************************************)

\* docs/gofr_sec_impl_plan.md:201 "repeated startup must not duplicate
\* memberships, destroy existing state, or overwrite manual admin changes":
\* a startup of a store that was bootstrapped before changes no membership.
RepeatedStartupChangesNothing ==
  [][(bootstrapped /\ proc = "down" /\ proc' = "serving") =>
       UNCHANGED memberships]_vars

\* docs/gofr_sec_proposal.md:37 "Only users associated with the reserved admin
\* group can" change groups, memberships and tokens: a handler whose actor is
\* not an admin any more changes none of them.
OnlyAdminsChangeState ==
  [][\A slot \in Slots :
       (/\ proc' = "serving" /\ inflight[slot] # None /\ inflight'[slot] = None
        /\ ~is_admin(inflight[slot].actor)) =>
       UNCHANGED <<groups, memberships, tokens>>]_vars

\* docs/gofr_sec_proposal.md:419 "Revocation and authorization should rely on
\* the token id, hash, status, owner sub, and group indexes": once a revocation
\* is answered no group index entry of the token says active.
AnsweredRevocationReachesIndexes ==
  \A t \in answeredRevokes, g \in GroupNames : groupIndex[t][g] # "active"

-------------------------------------------------------------------------------
(***************************************************************************)
(* The inductive invariants the proofs use: the properties above and what  *)
(* they rest on.                                                           *)
(***************************************************************************)

\* No user has two membership records for one group, so a count of records is
\* a count of admins.
OneRecordPerGrant ==
  \A m, n \in memberships :
    (m.keycloak_sub = n.keycloak_sub /\ m.group_name = n.group_name) => m = n

\* Authority, inductively: requests wait in a slot only for actors that were
\* admins when they were admitted, which takes a trusted subject to begin with,
\* a serving process has bootstrapped its store, and with one record per grant
\* the count of admins that guards a removal is exact.
AuthorityInv ==
  /\ IsFiniteSet(memberships)
  /\ OneRecordPerGrant
  /\ proc = "serving" => bootstrapped
  /\ (bootstrapped /\ TrustedSubs # <<>>) => AdminSubs # {}
  /\ AdminSubs # {} => TrustedSubs # <<>>
  /\ \A slot \in Slots :
       inflight[slot] # None => inflight[slot].entitled /\ TrustedSubs # <<>>
  /\ GrantsRestOnRecords

\* Tokens, inductively: only a service with Vault lets a mint wait, no record
\* grants the reserved group, and what was answered is recorded.
TokenInv ==
  /\ \A slot \in Slots :
       (inflight[slot] # None /\ inflight[slot].req.op = "mint_token") => VaultConfigured
  /\ NoTokenWithoutVault
  /\ TokensRestOnRecords
  /\ \A t \in TokenIds : tokens[t] # None => RESERVED_ADMIN_GROUP \notin tokens[t].granted_groups
  /\ \A t \in answeredRevokes : tokens[t] # None /\ tokens[t].status = "revoked"
  /\ \A t \in answeredMints : tokens[t] # None
  /\ AnsweredMintsAreIndexed
  /\ IndexesFollowRecords
===============================================================================
