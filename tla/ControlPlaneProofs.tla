-------------------------- MODULE ControlPlaneProofs --------------------------
(***************************************************************************)
(* What holds of ControlPlane for every set of subjects, groups, tokens,   *)
(* requests and slots, and for both backends.                              *)
(***************************************************************************)
EXTENDS ControlPlane, FiniteSetTheorems, TLAPS

-------------------------------------------------------------------------------
(***************************************************************************)
(* Type correctness.                                                       *)
(***************************************************************************)

\* The request a handler reads has the fields of its route.
LEMMA RequestFields ==
  ASSUME TypeOK, NEW slot \in Slots, NEW op, Handles(slot, op)
  PROVE  /\ inflight[slot] \in InflightRequest
         /\ inflight[slot].actor \in Subs
         /\ inflight[slot].req \in AdminRequests
         /\ inflight[slot].req \in AdminRequest
         /\ inflight[slot].req.op = op
         /\ op \in EventTypes
<1>1. inflight[slot] \in InflightRequest
  BY DEF TypeOK, Handles
<1>2. /\ inflight[slot].actor \in Subs
      /\ inflight[slot].req \in AdminRequests
      /\ inflight[slot].req \in AdminRequest
  BY <1>1, RequestsAssumption DEF InflightRequest
<1>3. inflight[slot].req.op = op
  BY DEF Handles
<1>4. op \in EventTypes
  BY <1>2, <1>3 DEF AdminRequest, EventTypes
<1> QED
  BY <1>1, <1>2, <1>3, <1>4

LEMMA GroupRequestFields ==
  ASSUME NEW req \in AdminRequest
  PROVE  /\ req.op = "create_group" => req.name \in RawName
         /\ req.op \in {"add_membership", "remove_membership"} =>
              req.sub \in Subs /\ req.name \in RawName
         /\ req.op = "mint_token" =>
              req.owner \in Subs /\ req.names \in SUBSET RawName /\ req.lifetime \in Int
         /\ req.op \in {"get_token", "revoke_token"} => req.token \in TokenIds
  BY DEF AdminRequest

\* Names fold to canonical group names, or are rejected.
LEMMA NormalizedNames ==
  ASSUME NEW raw \in RawName
  PROVE  /\ normalize_group_name(raw) \in GroupNames \cup {None}
         /\ stripped_target(raw) \in GroupNames \cup {None}
  BY DEF RawName, normalize_group_name, stripped_target

LEMMA DieType ==
  ASSUME Die
  PROVE  /\ proc' \in {"down", "serving"}
         /\ inflight' \in [Slots -> InflightRequest \cup {None}]
         /\ audit' \in AuditRecord \cup {None}
         /\ answer' \in AnswerRecord \cup {None}
  BY DEF Die, IdleSlots

\* Every handler ends with a well-formed event and answer.
LEMMA FinishType ==
  ASSUME TypeOK, NEW slot \in Slots, NEW op, Handles(slot, op),
         NEW outcome \in {"ok", "error", "crash"},
         NEW subject \in Subs \cup {None}, NEW group \in GroupNames \cup {None},
         NEW token \in TokenIds \cup {None},
         Finish(slot, outcome, subject, group, token)
  PROVE  /\ proc' \in {"down", "serving"}
         /\ inflight' \in [Slots -> InflightRequest \cup {None}]
         /\ audit' \in AuditRecord \cup {None}
         /\ answer' \in AnswerRecord \cup {None}
<1>1. CASE outcome = "crash"
  BY <1>1, DieType DEF Finish
<1>2. CASE outcome # "crash"
  <2>1. /\ inflight[slot].actor \in Subs
        /\ inflight[slot].req.op \in EventTypes
    BY RequestFields
  <2>2. /\ proc' = proc
        /\ inflight' = [inflight EXCEPT ![slot] = None]
        /\ audit' = AuditEvent(inflight[slot].req.op, inflight[slot].actor, subject,
                               group, token,
                               IF outcome = "ok" THEN "success" ELSE "failure")
        /\ answer' = Answer(inflight[slot].req.op, inflight[slot].actor,
                            IF outcome = "ok" THEN "ok" ELSE "failed")
    BY <1>2 DEF Finish
  <2>3. audit' \in AuditRecord
    BY <2>1, <2>2 DEF AuditEvent, AuditRecord, Results
  <2>4. answer' \in AnswerRecord
    BY <2>1, <2>2 DEF Answer, AnswerRecord, AnswerCodes
  <2> QED
    BY <2>2, <2>3, <2>4 DEF TypeOK
<1> QED
  BY <1>1, <1>2

\* Whatever prefix of its writes was applied, an upsert keeps the token
\* registry well formed.
LEMMA UpsertType ==
  ASSUME TypeOK, NEW t \in TokenIds, NEW record \in IssuedTokenRecord,
         NEW e, Upsert(t, record, e)
  PROVE  /\ tokens' \in [TokenIds -> IssuedTokenRecord \cup {None}]
         /\ userIndex' \in [TokenIds -> Status \cup {None}]
         /\ groupIndex' \in [TokenIds -> [GroupNames -> Status \cup {None}]]
<1>1. record.status \in Status
  BY DEF IssuedTokenRecord
<1>2. tokens' \in [TokenIds -> IssuedTokenRecord \cup {None}]
  BY DEF TypeOK, Upsert
<1>3. userIndex' \in [TokenIds -> Status \cup {None}]
  BY <1>1 DEF TypeOK, Upsert
<1>4. groupIndex' \in [TokenIds -> [GroupNames -> Status \cup {None}]]
  BY <1>1 DEF TypeOK, Upsert
<1> QED
  BY <1>2, <1>3, <1>4

\* Records that mint and revoke store are records.
LEMMA NewTokenType ==
  ASSUME TypeOK, NEW req \in AdminRequest, req.op = "mint_token", CanMint(req),
         NEW actor \in Subs
  PROVE  /\ NewToken(req, actor) \in IssuedTokenRecord
         /\ NewToken(req, actor).granted_groups =
              {normalize_group_name(raw) : raw \in req.names}
<1>1. req.owner \in Subs /\ req.names \in SUBSET RawName /\ req.lifetime \in Int
  BY GroupRequestFields
<1>2. {normalize_group_name(raw) : raw \in req.names} \in SUBSET GroupNames
  BY DEF CanMint, ValidateGroups, TypeOK
<1>3. clock + req.lifetime \in Nat
  BY <1>1, MaxTimeAssumption DEF CanMint, TypeOK
<1> QED
  BY <1>1, <1>2, <1>3 DEF NewToken, IssuedTokenRecord, Status

LEMMA RevokedTokenType ==
  ASSUME TypeOK, NEW t \in TokenIds, tokens[t] # None
  PROVE  /\ tokens[t] \in IssuedTokenRecord
         /\ RevokedToken(t) \in IssuedTokenRecord
<1>1. tokens[t] \in IssuedTokenRecord
  BY DEF TypeOK
<1>2. clock \in Nat
  BY MaxTimeAssumption DEF TypeOK
<1> QED
  BY <1>1, <1>2 DEF RevokedToken, IssuedTokenRecord, Status

LEMMA OwnerType ==
  ASSUME TypeOK, NEW t \in TokenIds
  PROVE  OwnerOrNone(t) \in Subs \cup {None}
  BY DEF TypeOK, OwnerOrNone, IssuedTokenRecord

LEMMA OutcomeKinds == Outcomes \subseteq {"ok", "error", "crash"}
  BY DEF Outcomes

LEMMA BootstrapGrantsType ==
  ASSUME NEW k \in 0..Len(TrustedSubs)
  PROVE  BootstrapGrants(k) \subseteq UserGroupMembership
<1>1. \A i \in 1..k : TrustedSubs[i] \in Subs
  BY TrustedAssumption
<1> QED
  BY <1>1, GroupNamesAssumption DEF BootstrapGrants, UserGroupMembership

\* The admins are subjects.
LEMMA AdminSubsType ==
  ASSUME memberships \subseteq UserGroupMembership
  PROVE  AdminSubs \subseteq Subs
  BY DEF AdminSubs, MembershipsOfGroup, UserGroupMembership

LEMMA NoIndexEntriesType ==
  /\ NoIndexEntries \in [TokenIds -> [GroupNames -> Status \cup {None}]]
  /\ IdleSlots \in [Slots -> InflightRequest \cup {None}]
  BY DEF NoIndexEntries, IdleSlots

LEMMA TypeInit == Init => TypeOK
<1> SUFFICES ASSUME Init PROVE TypeOK
  OBVIOUS
<1>1. /\ tokens \in [TokenIds -> IssuedTokenRecord \cup {None}]
      /\ userIndex \in [TokenIds -> Status \cup {None}]
      /\ groupIndex \in [TokenIds -> [GroupNames -> Status \cup {None}]]
      /\ inflight \in [Slots -> InflightRequest \cup {None}]
  BY NoIndexEntriesType DEF Init
<1>2. bootstrapped \in BOOLEAN
  BY DEF Init
<1>3. clock \in 0..MaxTime
  BY MaxTimeAssumption DEF Init
<1> QED
  BY <1>1, <1>2, <1>3 DEF Init, TypeOK

LEMMA TypeStep == TypeOK /\ [Next]_vars => TypeOK'
<1> SUFFICES ASSUME TypeOK, [Next]_vars
             PROVE  TypeOK'
  OBVIOUS
<1>1. CASE Startup
  <2>1. PICK e \in BootstrapProgress :
          /\ groups' = IF e.group_written THEN groups \cup {RESERVED_ADMIN_GROUP} ELSE groups
          /\ memberships' = memberships \cup BootstrapGrants(e.bound)
          /\ proc' = IF e.outcome = "ok" THEN "serving" ELSE "down"
          /\ bootstrapped' = (bootstrapped \/ e.outcome = "ok")
    BY <1>1 DEF Startup
  <2>2. memberships' \subseteq UserGroupMembership
    BY <2>1, BootstrapGrantsType DEF BootstrapProgress, TypeOK
  <2>4. groups' \subseteq GroupNames
    BY <2>1, GroupNamesAssumption DEF TypeOK
  <2>5. bootstrapped' \in BOOLEAN
    BY <2>1 DEF TypeOK
  <2> QED
    BY <1>1, <2>1, <2>2, <2>4, <2>5 DEF Startup, TypeOK, tokenStore, tokenHistory
<1>2. CASE Crash
  <2>1. CASE VaultConfigured
    BY <1>2, <2>1, DieType DEF Crash, TypeOK, store, tokenHistory
  <2>2. CASE ~VaultConfigured
    BY <1>2, <2>2, DieType, NoIndexEntriesType DEF Crash, TypeOK, tokenHistory
  <2> QED
    BY <2>1, <2>2
<1>3. ASSUME NEW actor \in Subs, NEW req \in AdminRequests, NEW slot \in Slots,
             Admit(slot, actor, req)
      PROVE  TypeOK'
  <2>1. inflight' \in [Slots -> InflightRequest \cup {None}]
    <3>1. [actor |-> actor, req |-> req, entitled |-> actor \in AdminSubs] \in InflightRequest
      BY DEF InflightRequest
    <3> QED
      BY <1>3, <3>1 DEF Admit, TypeOK
  <2> QED
    BY <1>3, <2>1 DEF Admit, TypeOK, store, history
<1>4. ASSUME NEW actor \in Subs, NEW req \in AdminRequests, Refuse(actor, req)
      PROVE  TypeOK'
  <2>1. req.op \in EventTypes
    BY RequestsAssumption DEF AdminRequest, EventTypes
  <2>2. answer' \in AnswerRecord
    BY <1>4, <2>1 DEF Refuse, Answer, AnswerRecord, AnswerCodes
  <2> QED
    BY <1>4, <2>2 DEF Refuse, TypeOK, store, history
<1>5. ASSUME NEW slot \in Slots, CreateGroup(slot)
      PROVE  TypeOK'
  <2> DEFINE name == normalize_group_name(inflight[slot].req.name)
  <2>1. Handles(slot, "create_group")
    BY <1>5 DEF CreateGroup
  <2>2. name \in GroupNames \cup {None}
    BY <2>1, RequestFields, GroupRequestFields, NormalizedNames
  <2>3. PICK outcome \in {"ok", "error", "crash"} : Finish(slot, outcome, None, name, None)
    BY <1>5, OutcomeKinds DEF CreateGroup, SingleWrite
  <2>4. groups' \subseteq GroupNames
    BY <1>5, <2>2 DEF CreateGroup, CanCreateGroup, TypeOK
  <2>5. /\ proc' \in {"down", "serving"}
        /\ inflight' \in [Slots -> InflightRequest \cup {None}]
        /\ audit' \in AuditRecord \cup {None}
        /\ answer' \in AnswerRecord \cup {None}
    BY <2>1, <2>2, <2>3, FinishType
  <2> QED
    BY <1>5, <2>4, <2>5 DEF CreateGroup, TypeOK, tokenStore, history
<1>6. ASSUME NEW slot \in Slots, AddMembership(slot)
      PROVE  TypeOK'
  <2> DEFINE name == normalize_group_name(inflight[slot].req.name)
             sub == inflight[slot].req.sub
             actor == inflight[slot].actor
  <2>1. Handles(slot, "add_membership")
    BY <1>6 DEF AddMembership
  <2>2. name \in GroupNames \cup {None} /\ sub \in Subs /\ actor \in Subs
    BY <2>1, RequestFields, GroupRequestFields, NormalizedNames
  <2>3. PICK outcome \in {"ok", "error", "crash"} : Finish(slot, outcome, sub, name, None)
    BY <1>6, OutcomeKinds DEF AddMembership, SingleWrite
  <2>4. memberships' \subseteq UserGroupMembership
    <3>1. CASE CanAddMembership(sub, name)
      <4>1. name \in GroupNames
        BY <3>1 DEF CanAddMembership, TypeOK
      <4>2. WithMembership(sub, name, actor) \subseteq UserGroupMembership
        BY <2>2, <4>1 DEF WithMembership, UserGroupMembership, TypeOK
      <4> QED
        BY <1>6, <3>1, <4>2 DEF AddMembership, TypeOK
    <3>2. CASE ~CanAddMembership(sub, name)
      BY <1>6, <3>2 DEF AddMembership, TypeOK
    <3> QED
      BY <3>1, <3>2
  <2>6. /\ proc' \in {"down", "serving"}
        /\ inflight' \in [Slots -> InflightRequest \cup {None}]
        /\ audit' \in AuditRecord \cup {None}
        /\ answer' \in AnswerRecord \cup {None}
    BY <2>1, <2>2, <2>3, FinishType
  <2> QED
    BY <1>6, <2>4, <2>6 DEF AddMembership, TypeOK, tokenStore, history
<1>7. ASSUME NEW slot \in Slots, RemoveMembership(slot)
      PROVE  TypeOK'
  <2> DEFINE name == normalize_group_name(inflight[slot].req.name)
             sub == inflight[slot].req.sub
  <2>1. Handles(slot, "remove_membership")
    BY <1>7 DEF RemoveMembership
  <2>2. name \in GroupNames \cup {None} /\ sub \in Subs
    BY <2>1, RequestFields, GroupRequestFields, NormalizedNames
  <2>3. PICK outcome \in {"ok", "error", "crash"} : Finish(slot, outcome, sub, name, None)
    BY <1>7, OutcomeKinds DEF RemoveMembership, SingleWrite
  <2>4. memberships' \subseteq memberships
    BY <1>7 DEF RemoveMembership
  <2>5. /\ proc' \in {"down", "serving"}
        /\ inflight' \in [Slots -> InflightRequest \cup {None}]
        /\ audit' \in AuditRecord \cup {None}
        /\ answer' \in AnswerRecord \cup {None}
    BY <2>1, <2>2, <2>3, FinishType
  <2> QED
    BY <1>7, <2>4, <2>5 DEF RemoveMembership, TypeOK, tokenStore, history
<1>8. ASSUME NEW slot \in Slots, MintToken(slot)
      PROVE  TypeOK'
  <2> DEFINE req == inflight[slot].req
             record == NewToken(req, inflight[slot].actor)
  <2>1. Handles(slot, "mint_token")
    BY <1>8 DEF MintToken
  <2>2. req \in AdminRequest /\ req.op = "mint_token" /\ inflight[slot].actor \in Subs
    BY <2>1, RequestFields
  <2>3. req.owner \in Subs
    BY <2>2, GroupRequestFields
  <2>4. PICK outcome \in {"ok", "error", "crash"}, token \in TokenIds \cup {None} :
          Finish(slot, outcome, req.owner, None, token)
    <3>1. CASE CanMint(req)
      <4>1. PICK t \in FreshTokenIds, e \in UpsertProgress(record.granted_groups) :
              Finish(slot, e.outcome, req.owner, None, IF e.outcome = "ok" THEN t ELSE None)
        BY <1>8, <3>1 DEF MintToken
      <4>2. e.outcome \in {"ok", "error", "crash"}
        BY OutcomeKinds DEF UpsertProgress, Progress
      <4>3. (IF e.outcome = "ok" THEN t ELSE None) \in TokenIds \cup {None}
        BY DEF FreshTokenIds
      <4> QED
        BY <4>1, <4>2, <4>3
    <3>2. CASE ~CanMint(req)
      BY <1>8, <3>2 DEF MintToken
    <3> QED
      BY <3>1, <3>2
  <2>5. /\ tokens' \in [TokenIds -> IssuedTokenRecord \cup {None}]
        /\ userIndex' \in [TokenIds -> Status \cup {None}]
        /\ groupIndex' \in [TokenIds -> [GroupNames -> Status \cup {None}]]
        /\ answeredMints' \subseteq TokenIds
    <3>1. CASE CanMint(req)
      <4>1. record \in IssuedTokenRecord
        BY <2>2, <3>1, NewTokenType
      <4>2. PICK t \in FreshTokenIds, e \in UpsertProgress(record.granted_groups) :
              /\ Upsert(t, record, e)
              /\ answeredMints' = IF e.outcome = "ok" THEN answeredMints \cup {t}
                                                      ELSE answeredMints
        BY <1>8, <3>1 DEF MintToken
      <4>3. t \in TokenIds
        BY DEF FreshTokenIds
      <4> QED
        BY <4>1, <4>2, <4>3, UpsertType DEF TypeOK
    <3>2. CASE ~CanMint(req)
      BY <1>8, <3>2 DEF MintToken, TypeOK, tokenStore
    <3> QED
      BY <3>1, <3>2
  <2>6. /\ proc' \in {"down", "serving"}
        /\ inflight' \in [Slots -> InflightRequest \cup {None}]
        /\ audit' \in AuditRecord \cup {None}
        /\ answer' \in AnswerRecord \cup {None}
    BY <2>1, <2>3, <2>4, FinishType
  <2> QED
    BY <1>8, <2>5, <2>6 DEF MintToken, TypeOK
<1>9. ASSUME NEW slot \in Slots, GetToken(slot)
      PROVE  TypeOK'
  <2> DEFINE t == inflight[slot].req.token
  <2>1. Handles(slot, "get_token")
    BY <1>9 DEF GetToken
  <2>2. t \in TokenIds
    BY <2>1, RequestFields, GroupRequestFields
  <2>3. \/ Finish(slot, "error", None, None, t)
        \/ Finish(slot, "ok", OwnerOrNone(t), None, t)
    BY <1>9 DEF GetToken
  <2>4. /\ proc' \in {"down", "serving"}
        /\ inflight' \in [Slots -> InflightRequest \cup {None}]
        /\ audit' \in AuditRecord \cup {None}
        /\ answer' \in AnswerRecord \cup {None}
    BY <2>1, <2>2, <2>3, OwnerType, FinishType
  <2> QED
    BY <1>9, <2>4 DEF GetToken, TypeOK, store, history
<1>10. ASSUME NEW slot \in Slots, RevokeToken(slot)
       PROVE  TypeOK'
  <2> DEFINE t == inflight[slot].req.token
  <2>1. Handles(slot, "revoke_token")
    BY <1>10 DEF RevokeToken
  <2>2. t \in TokenIds
    BY <2>1, RequestFields, GroupRequestFields
  <2>3. PICK outcome \in {"ok", "error", "crash"}, subject \in Subs \cup {None} :
          Finish(slot, outcome, subject, None, t)
    <3>1. ASSUME NEW e \in UpsertProgress(tokens[t].granted_groups)
          PROVE  e.outcome \in {"ok", "error", "crash"}
      BY OutcomeKinds DEF UpsertProgress, Progress
    <3> QED
      BY <1>10, <2>2, <3>1, OwnerType DEF RevokeToken
  <2>4. /\ tokens' \in [TokenIds -> IssuedTokenRecord \cup {None}]
        /\ userIndex' \in [TokenIds -> Status \cup {None}]
        /\ groupIndex' \in [TokenIds -> [GroupNames -> Status \cup {None}]]
    <3>1. CASE UNCHANGED tokenStore
      BY <3>1 DEF TypeOK, tokenStore
    <3>2. CASE NeedsRevocation(t) /\ \E e : Upsert(t, RevokedToken(t), e)
      BY <2>2, <3>2, RevokedTokenType, UpsertType DEF NeedsRevocation
    <3> QED
      BY <1>10, <3>1, <3>2 DEF RevokeToken
  <2>5. answeredRevokes' \subseteq TokenIds
    BY <1>10, <2>2 DEF RevokeToken, TypeOK
  <2>6. /\ proc' \in {"down", "serving"}
        /\ inflight' \in [Slots -> InflightRequest \cup {None}]
        /\ audit' \in AuditRecord \cup {None}
        /\ answer' \in AnswerRecord \cup {None}
    BY <2>1, <2>2, <2>3, FinishType
  <2> QED
    BY <1>10, <2>4, <2>5, <2>6 DEF RevokeToken, TypeOK
<1>11. ASSUME NEW sub \in Subs, RegisterSelf(sub)
       PROVE  TypeOK'
  <2>1. registered' \subseteq Subs
    BY <1>11 DEF RegisterSelf, TypeOK
  <2>2. /\ proc' \in {"down", "serving"}
        /\ inflight' \in [Slots -> InflightRequest \cup {None}]
        /\ audit' \in AuditRecord \cup {None}
        /\ answer' \in AnswerRecord \cup {None}
    <3>1. CASE Die
      BY <3>1, DieType
    <3>2. CASE UNCHANGED <<proc, inflight, audit>>
               /\ answer' = Answer("register_self", sub, "failed")
      BY <3>2 DEF TypeOK, Answer, AnswerRecord, AnswerCodes, EventTypes
    <3>3. CASE UNCHANGED <<proc, inflight>>
               /\ \E result \in Results, code \in AnswerCodes :
                    Respond("register_self", sub, sub, None, None, result, code)
      BY <3>3 DEF TypeOK, Respond, AuditEvent, AuditRecord, Answer, AnswerRecord, EventTypes
    <3> QED
      BY <1>11, <3>1, <3>2, <3>3 DEF RegisterSelf, Results, AnswerCodes
  <2> QED
    BY <1>11, <2>1, <2>2 DEF RegisterSelf, TypeOK, tokenStore, history
<1>12. ASSUME NEW sub \in Subs, ListSelfTokens(sub)
       PROVE  TypeOK'
  <2>1. audit' \in AuditRecord /\ answer' \in AnswerRecord
    BY <1>12 DEF ListSelfTokens, Respond, AuditEvent, AuditRecord, Answer, AnswerRecord,
                 EventTypes, Results, AnswerCodes
  <2> QED
    BY <1>12, <2>1 DEF ListSelfTokens, TypeOK, store, history
<1>13. ASSUME NEW t \in TokenIds, NEW owner \in Subs, NEW raw \in AuthorizeTargets,
              Authorize(t, owner, raw)
       PROVE  TypeOK'
  <2>1. stripped_target(raw) \in GroupNames \cup {None}
    BY NormalizedNames, TargetsAssumption
  <2>2. audit' \in AuditRecord /\ answer' \in AnswerRecord
    BY <1>13, <2>1 DEF Authorize, Respond, AuditEvent, AuditRecord, Answer, AnswerRecord,
                       EventTypes, Results, AnswerCodes
  <2> QED
    BY <1>13, <2>2 DEF Authorize, TypeOK, store, history
<1>14. CASE Tick
  BY <1>14, MaxTimeAssumption DEF Tick, TypeOK, store, history
<1>15. CASE UNCHANGED vars
  BY <1>15 DEF vars, TypeOK, store, history
<1> QED
  BY <1>1, <1>2, <1>3, <1>4, <1>5, <1>6, <1>7, <1>8, <1>9, <1>10, <1>11, <1>12,
     <1>13, <1>14, <1>15 DEF Next, AdminHandler

\* Type correctness: every reachable state is well typed, whatever the
\* requests, and wherever a handler or a startup stops.
THEOREM TypeCorrect == Spec => []TypeOK
  BY TypeInit, TypeStep, PTL DEF Spec

-------------------------------------------------------------------------------
(***************************************************************************)
(* How a step changes groups, profiles and memberships.  The invariants    *)
(* about authority are preserved by each of these shapes, so their proofs  *)
(* need no action by name.                                                 *)
(***************************************************************************)

\* What only a lost store takes away
Keeps ==
  /\ registered \subseteq registered'
  /\ groups \subseteq groups'

\* A startup binds the first k trusted subjects, all of them if it completes
BindsTrusted(k) ==
  /\ Keeps
  /\ proc = "down"
  /\ memberships' = memberships \cup BootstrapGrants(k)
  /\ k > 0 => RESERVED_ADMIN_GROUP \in groups'
  /\ \/ proc' = "serving" /\ bootstrapped' = TRUE /\ k = Len(TrustedSubs)
     \/ proc' = "down" /\ bootstrapped' = bootstrapped

\* A handler of an admitted actor records a grant
Grants(slot, sub, name) ==
  /\ Keeps
  /\ Handles(slot, "add_membership") /\ inflight'[slot] = None
  /\ sub = inflight[slot].req.sub /\ name = normalize_group_name(inflight[slot].req.name)
  /\ CanAddMembership(sub, name)
  /\ memberships' = WithMembership(sub, name, inflight[slot].actor)
  /\ bootstrapped' = bootstrapped

\* A handler removes a grant that may be removed
Withdraws(slot, sub, name) ==
  /\ Keeps
  /\ Handles(slot, "remove_membership") /\ inflight'[slot] = None
  /\ sub = inflight[slot].req.sub /\ name = normalize_group_name(inflight[slot].req.name)
  /\ CanRemoveMembership(sub, name)
  /\ memberships' = memberships \ MembershipsOf(sub, name)
  /\ bootstrapped' = bootstrapped

\* The in-memory store is lost
Forgets ==
  /\ ~VaultConfigured
  /\ proc = "serving"
  /\ memberships' = {} /\ proc' = "down" /\ bootstrapped' = FALSE

LeavesMemberships ==
  /\ Keeps
  /\ UNCHANGED <<memberships, bootstrapped>>
  /\ proc' = "serving" => proc = "serving"

\* However a handler ends, its request does not wait any more.
LEMMA FinishEmptiesSlot ==
  ASSUME TypeOK, NEW slot \in Slots, NEW outcome, NEW subject, NEW group, NEW token,
         Finish(slot, outcome, subject, group, token)
  PROVE  inflight'[slot] = None
  BY DEF Finish, Die, IdleSlots, TypeOK

LEMMA MembershipSteps ==
  ASSUME TypeOK, [Next]_vars
  PROVE  \/ \E k \in 0..Len(TrustedSubs) : BindsTrusted(k)
         \/ \E slot \in Slots, sub \in Subs, name \in GroupNames :
              Grants(slot, sub, name) \/ Withdraws(slot, sub, name)
         \/ Forgets
         \/ LeavesMemberships
<1>1. CASE Startup
  <2>1. PICK e \in BootstrapProgress :
          /\ groups' = IF e.group_written THEN groups \cup {RESERVED_ADMIN_GROUP} ELSE groups
          /\ memberships' = memberships \cup BootstrapGrants(e.bound)
          /\ proc' = IF e.outcome = "ok" THEN "serving" ELSE "down"
          /\ bootstrapped' = (bootstrapped \/ e.outcome = "ok")
    BY <1>1 DEF Startup
  <2>2. e.bound \in 0..Len(TrustedSubs)
    BY DEF BootstrapProgress
  <2>3. Keeps /\ proc = "down"
    BY <1>1, <2>1 DEF Startup, Keeps
  <2>4. /\ e.bound > 0 => RESERVED_ADMIN_GROUP \in groups'
        /\ e.outcome = "ok" => e.bound = Len(TrustedSubs)
    BY <2>1 DEF BootstrapProgress
  <2>5. bootstrapped' = IF e.outcome = "ok" THEN TRUE ELSE bootstrapped
    BY <2>1 DEF TypeOK
  <2>6. BindsTrusted(e.bound)
    BY <2>1, <2>3, <2>4, <2>5 DEF BindsTrusted
  <2> QED
    BY <2>2, <2>6
<1>2. CASE Crash
  BY <1>2 DEF Crash, Die, Forgets, LeavesMemberships, Keeps, store
<1>3. CASE \E slot \in Slots : AddMembership(slot)
  <2>1. PICK slot \in Slots : AddMembership(slot)
    BY <1>3
  <2> DEFINE name == normalize_group_name(inflight[slot].req.name)
             sub == inflight[slot].req.sub
             actor == inflight[slot].actor
  <2>2. Handles(slot, "add_membership")
    BY <2>1 DEF AddMembership
  <2>3. sub \in Subs
    BY <2>2, RequestFields, GroupRequestFields
  <2>4. /\ Keeps /\ proc = "serving" /\ bootstrapped' = bootstrapped
        /\ inflight'[slot] = None
    BY <2>1, <2>2, FinishEmptiesSlot DEF AddMembership, Keeps, Handles, history
  <2>5. CASE memberships' = memberships
    BY <2>4, <2>5 DEF LeavesMemberships
  <2>6. CASE CanAddMembership(sub, name) /\ memberships' = WithMembership(sub, name, actor)
    <3>1. name \in GroupNames
      BY <2>6 DEF CanAddMembership, TypeOK
    <3>2. Grants(slot, sub, name)
      BY <2>2, <2>4, <2>6 DEF Grants
    <3> QED
      BY <2>3, <3>1, <3>2
  <2> QED
    BY <2>1, <2>5, <2>6 DEF AddMembership
<1>4. CASE \E slot \in Slots : RemoveMembership(slot)
  <2>1. PICK slot \in Slots : RemoveMembership(slot)
    BY <1>4
  <2> DEFINE name == normalize_group_name(inflight[slot].req.name)
             sub == inflight[slot].req.sub
  <2>2. Handles(slot, "remove_membership")
    BY <2>1 DEF RemoveMembership
  <2>3. sub \in Subs
    BY <2>2, RequestFields, GroupRequestFields
  <2>4. /\ Keeps /\ proc = "serving" /\ bootstrapped' = bootstrapped
        /\ inflight'[slot] = None
    BY <2>1, <2>2, FinishEmptiesSlot DEF RemoveMembership, Keeps, Handles, history
  <2>5. CASE memberships' = memberships
    BY <2>4, <2>5 DEF LeavesMemberships
  <2>6. CASE CanRemoveMembership(sub, name)
             /\ memberships' = memberships \ MembershipsOf(sub, name)
    <3>1. name \in GroupNames
      BY <2>6 DEF CanRemoveMembership, TypeOK
    <3>2. Withdraws(slot, sub, name)
      BY <2>2, <2>4, <2>6 DEF Withdraws
    <3> QED
      BY <2>3, <3>1, <3>2
  <2> QED
    BY <2>1, <2>5, <2>6 DEF RemoveMembership
<1>5. CASE \E slot \in Slots : CreateGroup(slot)
  BY <1>5 DEF CreateGroup, Handles, LeavesMemberships, Keeps, history
<1>6. CASE \E slot \in Slots : MintToken(slot) \/ RevokeToken(slot) \/ GetToken(slot)
  BY <1>6 DEF MintToken, RevokeToken, GetToken, Handles, LeavesMemberships, Keeps,
              store, history
<1>7. CASE \E actor \in Subs, req \in AdminRequests :
             (\E slot \in Slots : Admit(slot, actor, req)) \/ Refuse(actor, req)
  BY <1>7 DEF Admit, Refuse, LeavesMemberships, Keeps, store, history
<1>8. CASE \E sub \in Subs : RegisterSelf(sub) \/ ListSelfTokens(sub)
  BY <1>8 DEF RegisterSelf, ListSelfTokens, LeavesMemberships, Keeps, store, history
<1>9. CASE \E t \in TokenIds, owner \in Subs, raw \in AuthorizeTargets : Authorize(t, owner, raw)
  BY <1>9 DEF Authorize, LeavesMemberships, Keeps, store, history
<1>10. CASE Tick \/ UNCHANGED vars
  BY <1>10 DEF Tick, vars, LeavesMemberships, Keeps, store, history
<1> QED
  BY <1>1, <1>2, <1>3, <1>4, <1>5, <1>6, <1>7, <1>8, <1>9, <1>10 DEF Next, AdminHandler

\* A request that a step lets wait is one whose actor is found in the admin
\* group in that step.
LEMMA InflightSteps ==
  ASSUME TypeOK, [Next]_vars, NEW slot \in Slots, inflight'[slot] # None
  PROVE  \/ inflight'[slot] = inflight[slot]
         \/ /\ inflight'[slot].entitled
            /\ AdminSubs # {}
            /\ ~SignerMissing(inflight'[slot].req)
<1> USE DEF TypeOK
<1>1. ASSUME NEW actor \in Subs, NEW req \in AdminRequests, NEW other \in Slots,
             Admit(other, actor, req)
      PROVE  \/ inflight'[slot] = inflight[slot]
             \/ /\ inflight'[slot].entitled
                /\ AdminSubs # {}
                /\ ~SignerMissing(inflight'[slot].req)
  BY <1>1 DEF Admit, is_admin
<1>2. ASSUME NEW other \in Slots, NEW outcome, NEW subject, NEW group, NEW token,
             Finish(other, outcome, subject, group, token)
      PROVE  inflight'[slot] = inflight[slot]
  BY <1>2 DEF Finish, Die, IdleSlots
<1>3. CASE \E other \in Slots : AdminHandler(other)
  BY <1>2, <1>3 DEF AdminHandler, CreateGroup, AddMembership, RemoveMembership, MintToken,
                    GetToken, RevokeToken
<1>4. CASE Crash \/ \E sub \in Subs : RegisterSelf(sub)
  BY <1>4 DEF Crash, RegisterSelf, Die, IdleSlots
<1>5. CASE \/ Startup \/ Tick \/ UNCHANGED vars
           \/ \E actor \in Subs, req \in AdminRequests : Refuse(actor, req)
           \/ \E sub \in Subs : ListSelfTokens(sub)
           \/ \E t \in TokenIds, owner \in Subs, raw \in AuthorizeTargets :
                Authorize(t, owner, raw)
  BY <1>5 DEF Startup, Tick, vars, Refuse, ListSelfTokens, Authorize
<1> QED
  BY <1>1, <1>3, <1>4, <1>5 DEF Next

-------------------------------------------------------------------------------
(***************************************************************************)
(* How a step changes the token registry.                                  *)
(***************************************************************************)

\* A mint stores a prefix of its writes for a fresh id
Mints(slot, t, e) ==
  LET req == inflight[slot].req
      record == NewToken(req, inflight[slot].actor)
  IN /\ Keeps
     /\ Handles(slot, "mint_token") /\ inflight'[slot] = None
     /\ CanMint(req)
     /\ t \in FreshTokenIds
     /\ e \in UpsertProgress(record.granted_groups)
     /\ Upsert(t, record, e)
     /\ answeredMints' = IF e.outcome = "ok" THEN answeredMints \cup {t} ELSE answeredMints
     /\ answeredRevokes' = answeredRevokes

\* A revocation stores a prefix of its writes for an active token
Revokes(slot, t, e) ==
  /\ Keeps
  /\ Handles(slot, "revoke_token") /\ inflight'[slot] = None
  /\ t = inflight[slot].req.token
  /\ NeedsRevocation(t)
  /\ e \in UpsertProgress(tokens[t].granted_groups)
  /\ Upsert(t, RevokedToken(t), e)
  /\ answeredRevokes' = IF e.outcome = "ok" THEN answeredRevokes \cup {t}
                                            ELSE answeredRevokes
  /\ answeredMints' = answeredMints

\* A revocation finds its token revoked
Confirms(t) ==
  /\ Keeps
  /\ tokens[t] # None /\ ~NeedsRevocation(t)
  /\ answeredRevokes' = answeredRevokes \cup {t}
  /\ UNCHANGED <<tokenStore, answeredMints>>

\* The in-memory registry is lost
ForgetsTokens ==
  /\ ~VaultConfigured
  /\ proc = "serving" /\ proc' = "down"
  /\ tokens' = [t \in TokenIds |-> None]
  /\ userIndex' = [t \in TokenIds |-> None]
  /\ groupIndex' = NoIndexEntries
  /\ UNCHANGED tokenHistory

LeavesTokens == Keeps /\ UNCHANGED <<tokenStore, tokenHistory>>

LEMMA TokenSteps ==
  ASSUME TypeOK, [Next]_vars
  PROVE  \/ \E slot \in Slots, t \in TokenIds : \E e : Mints(slot, t, e) \/ Revokes(slot, t, e)
         \/ \E t \in TokenIds : Confirms(t)
         \/ ForgetsTokens
         \/ LeavesTokens
<1>1. CASE \E slot \in Slots : MintToken(slot)
  <2>1. PICK slot \in Slots : MintToken(slot)
    BY <1>1
  <2> DEFINE req == inflight[slot].req
             record == NewToken(req, inflight[slot].actor)
  <2>2. /\ Handles(slot, "mint_token") /\ inflight'[slot] = None
        /\ Keeps /\ answeredRevokes' = answeredRevokes
    BY <2>1, FinishEmptiesSlot DEF MintToken, Keeps
  <2>3. CASE CanMint(req)
    <3>1. PICK t \in FreshTokenIds, e \in UpsertProgress(record.granted_groups) :
            /\ Upsert(t, record, e)
            /\ answeredMints' = IF e.outcome = "ok" THEN answeredMints \cup {t}
                                                    ELSE answeredMints
      BY <2>1, <2>3 DEF MintToken
    <3>2. t \in TokenIds /\ Mints(slot, t, e)
      BY <2>2, <2>3, <3>1 DEF Mints, FreshTokenIds
    <3> QED
      BY <3>2
  <2>4. CASE ~CanMint(req)
    BY <2>1, <2>2, <2>4 DEF MintToken, LeavesTokens, tokenHistory
  <2> QED
    BY <2>3, <2>4
<1>2. CASE \E slot \in Slots : RevokeToken(slot)
  <2>1. PICK slot \in Slots : RevokeToken(slot)
    BY <1>2
  <2> DEFINE t == inflight[slot].req.token
  <2>2. t \in TokenIds
    BY <2>1, RequestFields, GroupRequestFields DEF RevokeToken
  <2>3. /\ Handles(slot, "revoke_token") /\ inflight'[slot] = None
        /\ Keeps /\ answeredMints' = answeredMints
    BY <2>1, FinishEmptiesSlot DEF RevokeToken, Keeps
  <2>4. CASE UNCHANGED <<tokenStore, answeredRevokes>>
    BY <2>3, <2>4 DEF LeavesTokens, tokenHistory
  <2>5. CASE /\ tokens[t] # None /\ ~NeedsRevocation(t)
             /\ answeredRevokes' = answeredRevokes \cup {t}
             /\ UNCHANGED tokenStore
    BY <2>2, <2>3, <2>5 DEF Confirms
  <2>6. CASE /\ NeedsRevocation(t)
             /\ \E e \in UpsertProgress(tokens[t].granted_groups) :
                  /\ Upsert(t, RevokedToken(t), e)
                  /\ answeredRevokes' = IF e.outcome = "ok" THEN answeredRevokes \cup {t}
                                                            ELSE answeredRevokes
    <3>1. \E e : Revokes(slot, t, e)
      BY <2>3, <2>6 DEF Revokes
    <3> QED
      BY <2>2, <3>1
  <2> QED
    BY <2>1, <2>4, <2>5, <2>6 DEF RevokeToken
<1>3. CASE Crash
  BY <1>3 DEF Crash, Die, LeavesTokens, ForgetsTokens, Keeps, store, tokenStore
<1>4. CASE Startup
  BY <1>4 DEF Startup, LeavesTokens, Keeps
<1>5. CASE \E slot \in Slots : \/ CreateGroup(slot) \/ AddMembership(slot)
                              \/ RemoveMembership(slot) \/ GetToken(slot)
  BY <1>5 DEF CreateGroup, AddMembership, RemoveMembership, GetToken, LeavesTokens, Keeps,
              store, tokenStore, history, tokenHistory
<1>6. CASE \E actor \in Subs, req \in AdminRequests :
             (\E slot \in Slots : Admit(slot, actor, req)) \/ Refuse(actor, req)
  BY <1>6 DEF Admit, Refuse, LeavesTokens, Keeps, store, tokenStore, history, tokenHistory
<1>7. CASE \E sub \in Subs : RegisterSelf(sub) \/ ListSelfTokens(sub)
  BY <1>7 DEF RegisterSelf, ListSelfTokens, LeavesTokens, Keeps, store, tokenStore, history,
              tokenHistory
<1>8. CASE \E t \in TokenIds, owner \in Subs, raw \in AuthorizeTargets : Authorize(t, owner, raw)
  BY <1>8 DEF Authorize, LeavesTokens, Keeps, store, tokenStore, history, tokenHistory
<1>9. CASE Tick \/ UNCHANGED vars
  BY <1>9 DEF Tick, vars, LeavesTokens, Keeps, store, tokenStore, history, tokenHistory
<1> QED
  BY <1>1, <1>2, <1>3, <1>4, <1>5, <1>6, <1>7, <1>8, <1>9 DEF Next, AdminHandler

-------------------------------------------------------------------------------
(***************************************************************************)
(* Authority.                                                              *)
(***************************************************************************)

\* A startup adds at most one record per trusted subject.
LEMMA BootstrapGrantsFinite ==
  ASSUME NEW k \in 0..Len(TrustedSubs)
  PROVE  IsFiniteSet(BootstrapGrants(k))
<1> DEFINE grant == [sub \in Subs |-> [keycloak_sub |-> sub,
                                      group_name |-> RESERVED_ADMIN_GROUP,
                                      granted_by_sub |-> None]]
           Image == {grant[sub] : sub \in Subs}
<1>1. IsFiniteSet(Image)
  <2>1. grant \in Surjection(Subs, Image)
    BY DEF Surjection
  <2> QED
    BY <2>1, FS_Surjection, SubsAssumption
<1>2. BootstrapGrants(k) \subseteq Image
  <2>1. \A i \in 1..k : TrustedSubs[i] \in Subs
    BY TrustedAssumption
  <2> QED
    BY <2>1 DEF BootstrapGrants
<1> QED
  BY <1>1, <1>2, FS_Subset

\* What a startup adds: the admin grants, made by nobody, of trusted subjects
\* that are not admins yet, each of the first k among them.
LEMMA BootstrapGrantsContents ==
  ASSUME NEW k \in 0..Len(TrustedSubs)
  PROVE  /\ \A m \in BootstrapGrants(k) :
              /\ m.group_name = RESERVED_ADMIN_GROUP
              /\ m.granted_by_sub = None
              /\ ~is_admin(m.keycloak_sub)
              /\ k > 0
              /\ \E i \in 1..Len(TrustedSubs) : m.keycloak_sub = TrustedSubs[i]
         /\ \A m, n \in BootstrapGrants(k) : m.keycloak_sub = n.keycloak_sub => m = n
         /\ \A i \in 1..k : is_admin(TrustedSubs[i]) \/
              \E m \in BootstrapGrants(k) : m.keycloak_sub = TrustedSubs[i]
<1>1. \A i \in 1..k : i \in 1..Len(TrustedSubs) /\ k > 0
  BY TrustedAssumption
<1>2. ASSUME NEW m \in BootstrapGrants(k)
      PROVE  \E i \in 1..k :
               /\ ~is_admin(TrustedSubs[i])
               /\ m = [keycloak_sub |-> TrustedSubs[i],
                       group_name |-> RESERVED_ADMIN_GROUP, granted_by_sub |-> None]
  BY DEF BootstrapGrants
<1>3. ASSUME NEW i \in 1..k, ~is_admin(TrustedSubs[i])
      PROVE  \E m \in BootstrapGrants(k) : m.keycloak_sub = TrustedSubs[i]
  <2> DEFINE grant == [keycloak_sub |-> TrustedSubs[i],
                       group_name |-> RESERVED_ADMIN_GROUP, granted_by_sub |-> None]
  <2>1. grant \in BootstrapGrants(k)
    BY <1>3 DEF BootstrapGrants
  <2>2. grant.keycloak_sub = TrustedSubs[i]
    OBVIOUS
  <2> QED
    BY <2>1, <2>2
<1>4. ASSUME NEW m \in BootstrapGrants(k)
      PROVE  /\ m.group_name = RESERVED_ADMIN_GROUP
             /\ m.granted_by_sub = None
             /\ ~is_admin(m.keycloak_sub)
             /\ k > 0
             /\ \E i \in 1..Len(TrustedSubs) : m.keycloak_sub = TrustedSubs[i]
  <2>1. PICK i \in 1..k :
               /\ ~is_admin(TrustedSubs[i])
               /\ m = [keycloak_sub |-> TrustedSubs[i],
                       group_name |-> RESERVED_ADMIN_GROUP, granted_by_sub |-> None]
    BY <1>2
  <2> QED
    BY <1>1, <2>1
<1>5. ASSUME NEW m \in BootstrapGrants(k), NEW n \in BootstrapGrants(k),
             m.keycloak_sub = n.keycloak_sub
      PROVE  m = n
  BY <1>2, <1>5
<1> QED
  BY <1>3, <1>4, <1>5

LEMMA AdminSubsContents ==
  \A sub : is_admin(sub) <=> \E m \in memberships :
                               m.keycloak_sub = sub /\ m.group_name = RESERVED_ADMIN_GROUP
  BY DEF is_admin, AdminSubs, MembershipsOfGroup

\* A removal the last-admin rule lets through leaves an admin: with one record
\* per grant, the count of records that is over one counts other admins.
LEMMA AnotherAdminRemains ==
  ASSUME IsFiniteSet(memberships), OneRecordPerGrant, NEW sub,
         CanRemoveMembership(sub, RESERVED_ADMIN_GROUP)
  PROVE  \E m \in MembershipsOfGroup(RESERVED_ADMIN_GROUP) : m.keycloak_sub # sub
<1> DEFINE Admins == MembershipsOfGroup(RESERVED_ADMIN_GROUP)
<1>1. IsFiniteSet(Admins)
  BY FS_Subset DEF MembershipsOfGroup
<1>2. PICK m \in Admins : m.keycloak_sub = sub
  BY DEF CanRemoveMembership, MembershipsOf
<1>3. Cardinality(Admins) \in Nat /\ Cardinality(Admins) - 1 > 0
  BY <1>1, FS_CardinalityType DEF CanRemoveMembership, ensure_admin_membership_remains
<1>4. Cardinality({m}) = 1
  BY FS_Singleton
<1>5. Admins # {m}
  BY <1>3, <1>4
<1>6. PICK n \in Admins : n # m
  BY <1>2, <1>5
<1> QED
  BY <1>2, <1>6 DEF OneRecordPerGrant, MembershipsOfGroup

LEMMA AuthorityInit == Init => AuthorityInv
<1> SUFFICES ASSUME Init PROVE AuthorityInv
  OBVIOUS
<1>1. IsFiniteSet(memberships)
  BY FS_EmptySet DEF Init
<1>2. AdminSubs = {}
  BY DEF Init, AdminSubs, MembershipsOfGroup
<1> QED
  BY <1>1, <1>2 DEF Init, AuthorityInv, OneRecordPerGrant, GrantsRestOnRecords, IdleSlots

\* The part of the invariant that speaks of memberships
GrantInv ==
  /\ IsFiniteSet(memberships)
  /\ OneRecordPerGrant
  /\ proc = "serving" => bootstrapped
  /\ (bootstrapped /\ TrustedSubs # <<>>) => AdminSubs # {}
  /\ AdminSubs # {} => TrustedSubs # <<>>
  /\ GrantsRestOnRecords

LEMMA BindsTrustedStep ==
  ASSUME AuthorityInv, NEW k \in 0..Len(TrustedSubs), BindsTrusted(k)
  PROVE  GrantInv'
<1>1. memberships' = memberships \cup BootstrapGrants(k)
  BY DEF BindsTrusted
<1>2. IsFiniteSet(memberships')
  BY <1>1, BootstrapGrantsFinite, FS_Union DEF AuthorityInv
<1>3. OneRecordPerGrant'
  BY <1>1, BootstrapGrantsContents, AdminSubsContents DEF OneRecordPerGrant, AuthorityInv
<1>4. ((bootstrapped /\ TrustedSubs # <<>>) => AdminSubs # {})'
  <2>1. AdminSubs \subseteq AdminSubs'
    BY <1>1 DEF AdminSubs, MembershipsOfGroup
  <2>2. ASSUME k = Len(TrustedSubs), TrustedSubs # <<>>
        PROVE  AdminSubs' # {}
    <3>1. 1 \in 1..k
      BY <2>2, TrustedAssumption
    <3>2. \E m \in memberships' : m.group_name = RESERVED_ADMIN_GROUP
      BY <1>1, <3>1, BootstrapGrantsContents, AdminSubsContents
    <3> QED
      BY <3>2 DEF AdminSubs, MembershipsOfGroup
  <2> QED
    BY <2>1, <2>2 DEF BindsTrusted, AuthorityInv
<1>7. GrantsRestOnRecords'
  BY <1>1, BootstrapGrantsContents DEF BindsTrusted, Keeps, AuthorityInv, GrantsRestOnRecords
<1>8. (AdminSubs # {} => TrustedSubs # <<>>)'
  <2>1. CASE k = 0
    <3>1. BootstrapGrants(k) = {}
      BY <2>1, BootstrapGrantsContents
    <3>2. AdminSubs' = AdminSubs
      BY <1>1, <3>1 DEF AdminSubs, MembershipsOfGroup
    <3> QED
      BY <3>2 DEF BindsTrusted, AuthorityInv
  <2>2. CASE k # 0
    BY <2>2, TrustedAssumption
  <2> QED
    BY <2>1, <2>2
<1> QED
  BY <1>2, <1>3, <1>4, <1>7, <1>8 DEF BindsTrusted, AuthorityInv, GrantInv

LEMMA GrantsStep ==
  ASSUME TypeOK, AuthorityInv, NEW slot \in Slots, NEW sub \in Subs, NEW name \in GroupNames,
         Grants(slot, sub, name)
  PROVE  GrantInv'
<1> DEFINE actor == inflight[slot].actor
           grant == [keycloak_sub |-> sub, group_name |-> name, granted_by_sub |-> actor]
<1>2. \/ memberships' = memberships
      \/ MembershipsOf(sub, name) = {} /\ memberships' = memberships \cup {grant}
  BY DEF Grants, WithMembership
<1>3. IsFiniteSet(memberships')
  BY <1>2, FS_AddElement DEF AuthorityInv
<1>4. OneRecordPerGrant'
  BY <1>2 DEF AuthorityInv, OneRecordPerGrant, MembershipsOf, MembershipsOfGroup
<1>5. AdminSubs \subseteq AdminSubs'
  BY <1>2 DEF AdminSubs, MembershipsOfGroup
<1>7. GrantsRestOnRecords'
  BY <1>2 DEF Grants, Keeps, CanAddMembership, AuthorityInv, GrantsRestOnRecords
<1>8. TrustedSubs # <<>> /\ proc = "serving"
  BY DEF Grants, Handles, AuthorityInv
<1> QED
  BY <1>3, <1>4, <1>5, <1>7, <1>8 DEF Grants, AuthorityInv, GrantInv

LEMMA WithdrawsStep ==
  ASSUME AuthorityInv, NEW slot \in Slots, NEW sub \in Subs, NEW name \in GroupNames,
         Withdraws(slot, sub, name)
  PROVE  GrantInv'
<1>1. memberships' = memberships \ MembershipsOf(sub, name)
  BY DEF Withdraws
<1>2. IsFiniteSet(memberships')
  BY <1>1, FS_Subset DEF AuthorityInv
<1>3. OneRecordPerGrant'
  BY <1>1 DEF AuthorityInv, OneRecordPerGrant
<1>4. AdminSubs # {} => AdminSubs' # {}
  <2>1. CASE name # RESERVED_ADMIN_GROUP
    BY <1>1, <2>1 DEF AdminSubs, MembershipsOf, MembershipsOfGroup
  <2>2. CASE name = RESERVED_ADMIN_GROUP
    <3>1. PICK m \in MembershipsOfGroup(RESERVED_ADMIN_GROUP) : m.keycloak_sub # sub
      BY <2>2, AnotherAdminRemains DEF Withdraws, AuthorityInv
    <3>2. m \in MembershipsOfGroup(RESERVED_ADMIN_GROUP)'
      BY <1>1, <3>1 DEF MembershipsOf, MembershipsOfGroup
    <3> QED
      BY <3>2 DEF AdminSubs
  <2> QED
    BY <2>1, <2>2
<1>5. AdminSubs' \subseteq AdminSubs
  BY <1>1 DEF AdminSubs, MembershipsOfGroup
<1>7. GrantsRestOnRecords'
  BY <1>1 DEF Withdraws, Keeps, AuthorityInv, GrantsRestOnRecords
<1> QED
  BY <1>2, <1>3, <1>4, <1>5, <1>7 DEF Withdraws, Handles, AuthorityInv, GrantInv

LEMMA ForgetsStep ==
  ASSUME AuthorityInv, Forgets
  PROVE  GrantInv'
<1>1. AdminSubs' = {}
  BY DEF Forgets, AdminSubs, MembershipsOfGroup
<1> QED
  BY <1>1, FS_EmptySet
     DEF Forgets, AuthorityInv, GrantInv, OneRecordPerGrant, GrantsRestOnRecords

LEMMA LeavesStep ==
  ASSUME AuthorityInv, LeavesMemberships
  PROVE  GrantInv'
  BY DEF LeavesMemberships, Keeps, AuthorityInv, GrantInv, OneRecordPerGrant,
         GrantsRestOnRecords, AdminSubs, MembershipsOfGroup

LEMMA GrantStep ==
  ASSUME TypeOK, TypeOK', AuthorityInv, [Next]_vars
  PROVE  GrantInv'
  BY MembershipSteps, BindsTrustedStep, GrantsStep, WithdrawsStep, ForgetsStep, LeavesStep

LEMMA AuthorityStep ==
  ASSUME TypeOK, TypeOK', AuthorityInv, [Next]_vars
  PROVE  AuthorityInv'
<1>1. GrantInv'
  BY GrantStep
<1>2. ASSUME NEW slot \in Slots, inflight'[slot] # None
      PROVE  inflight'[slot].entitled /\ TrustedSubs # <<>>
  BY <1>2, InflightSteps DEF AuthorityInv
<1> QED
  BY <1>1, <1>2 DEF GrantInv, AuthorityInv

\* The inductive invariant behind the theorems on authority.
THEOREM AuthorityInvariant == Spec => []AuthorityInv
<1>1. Init => AuthorityInv
  BY AuthorityInit
<1>2. TypeOK /\ TypeOK' /\ AuthorityInv /\ [Next]_vars => AuthorityInv'
  BY AuthorityStep
<1> QED
  BY <1>1, <1>2, TypeCorrect, PTL DEF Spec

\* Once a startup has bound the trusted subjects the admin group never
\* empties, with any number of removals admitted together and wherever a
\* write fails.
THEOREM LastAdminAlwaysRemains == Spec => []LastAdminRemains
<1>1. AuthorityInv => LastAdminRemains
  BY DEF AuthorityInv, LastAdminRemains
<1> QED
  BY <1>1, AuthorityInvariant, PTL

\* A grant comes from the bootstrap, for a trusted subject, or from the handler
\* of a request to make it, as a removal comes from a request to remove.
LEMMA GrantsChange ==
  ASSUME TypeOK, AuthorityInv, [Next]_vars
  PROVE  GrantsChangeByAuthority
<1>1. ASSUME NEW k \in 0..Len(TrustedSubs), BindsTrusted(k)
      PROVE  GrantsChangeByAuthority
  <2>1. /\ memberships' = memberships \cup BootstrapGrants(k)
        /\ proc = "down"
    BY <1>1 DEF BindsTrusted
  <2>2. \A m \in BootstrapGrants(k) : BoundAtStartup(m)
    BY <2>1, BootstrapGrantsContents DEF BoundAtStartup
  <2> QED
    BY <2>1, <2>2 DEF GrantsChangeByAuthority
<1>2. ASSUME NEW slot \in Slots, NEW sub \in Subs, NEW name \in GroupNames,
             Grants(slot, sub, name)
      PROVE  GrantsChangeByAuthority
  <2>1. Exercises(slot, "add_membership")
    BY <1>2 DEF Grants, Handles, Exercises, AuthorityInv
  <2>2. ASSUME NEW m \in memberships' \ memberships
        PROVE  AsksFor(inflight[slot].req, m) /\ m.granted_by_sub = inflight[slot].actor
    BY <1>2, <2>2 DEF Grants, WithMembership, AsksFor
  <2>3. memberships \subseteq memberships'
    BY <1>2 DEF Grants, WithMembership
  <2> QED
    BY <2>1, <2>2, <2>3 DEF GrantsChangeByAuthority
<1>3. ASSUME NEW slot \in Slots, NEW sub \in Subs, NEW name \in GroupNames,
             Withdraws(slot, sub, name)
      PROVE  GrantsChangeByAuthority
  <2>1. Exercises(slot, "remove_membership")
    BY <1>3 DEF Withdraws, Handles, Exercises, AuthorityInv
  <2>2. ASSUME NEW m \in memberships \ memberships'
        PROVE  AsksFor(inflight[slot].req, m)
    BY <1>3, <2>2 DEF Withdraws, MembershipsOf, MembershipsOfGroup, AsksFor
  <2>3. memberships' \subseteq memberships
    BY <1>3 DEF Withdraws
  <2> QED
    BY <2>1, <2>2, <2>3 DEF GrantsChangeByAuthority
<1>4. CASE Forgets
  BY <1>4 DEF Forgets, StoreIsLost, GrantsChangeByAuthority
<1>5. CASE LeavesMemberships
  BY <1>5 DEF LeavesMemberships, GrantsChangeByAuthority
<1> QED
  BY <1>1, <1>2, <1>3, <1>4, <1>5, MembershipSteps

\* A token record is written by the handler of a mint, or of its revocation.
LEMMA TokensChange ==
  ASSUME TypeOK, AuthorityInv, [Next]_vars
  PROVE  TokensChangeByAuthority
<1> DEFINE Changed == {u \in TokenIds : tokens'[u] # tokens[u]}
<1>1. ASSUME NEW slot \in Slots, NEW t \in TokenIds, NEW e, Mints(slot, t, e)
      PROVE  TokensChangeByAuthority
  <2> DEFINE record == NewToken(inflight[slot].req, inflight[slot].actor)
  <2>1. Exercises(slot, "mint_token")
    BY <1>1 DEF Mints, Handles, Exercises, AuthorityInv
  <2>2. tokens[t] = None
    BY <1>1 DEF Mints, FreshTokenIds
  <2>3. \A u \in Changed : u = t /\ tokens'[u] = record
    BY <1>1 DEF Mints, Upsert, TypeOK
  <2>4. /\ record.owner_sub = inflight[slot].req.owner
        /\ record.issued_by_sub = inflight[slot].actor
    BY DEF NewToken
  <2> QED
    BY <2>1, <2>2, <2>3, <2>4 DEF TokensChangeByAuthority
<1>2. ASSUME NEW slot \in Slots, NEW t \in TokenIds, NEW e, Revokes(slot, t, e)
      PROVE  TokensChangeByAuthority
  <2>1. Exercises(slot, "revoke_token") /\ inflight[slot].req.token = t
    BY <1>2 DEF Revokes, Handles, Exercises, AuthorityInv
  <2>2. \A u \in Changed : u = t
    BY <1>2 DEF Revokes, Upsert, TypeOK
  <2> QED
    BY <2>1, <2>2 DEF TokensChangeByAuthority
<1>3. CASE ForgetsTokens
  BY <1>3 DEF ForgetsTokens, StoreIsLost, TokensChangeByAuthority
<1>4. CASE LeavesTokens \/ \E t \in TokenIds : Confirms(t)
  BY <1>4 DEF LeavesTokens, Confirms, tokenStore, TokensChangeByAuthority
<1> QED
  BY <1>1, <1>2, <1>3, <1>4, TokenSteps

\* Every grant and every token, every removal and every revocation is the
\* bootstrap's or was asked for by somebody who was an admin when the request
\* was admitted.
THEOREM AuthorityAlwaysHasRoot == Spec => AuthorityHasRoot
<1>1. TypeOK /\ AuthorityInv /\ [Next]_vars =>
        [GrantsChangeByAuthority /\ TokensChangeByAuthority]_vars
  BY GrantsChange, TokensChange
<1> QED
  BY <1>1, AuthorityInvariant, TypeCorrect, PTL DEF Spec, AuthorityHasRoot

\* Every grant is of a defined group and, the bootstrap's apart, to a
\* registered user.
THEOREM GrantsAlwaysRestOnRecords == Spec => []GrantsRestOnRecords
<1>1. AuthorityInv => GrantsRestOnRecords
  BY DEF AuthorityInv
<1> QED
  BY <1>1, AuthorityInvariant, PTL

\* A stored grant is never replaced by another for the same subject and group.
THEOREM GrantsStayAsMade == Spec => GrantsNeverRewritten
<1>1. ASSUME TypeOK, TypeOK', AuthorityInv, [Next]_vars,
             NEW m \in memberships, NEW n \in memberships',
             m.keycloak_sub = n.keycloak_sub, m.group_name = n.group_name
      PROVE  m = n
  <2>1. OneRecordPerGrant'
    BY <1>1, GrantStep DEF GrantInv
  <2>2. CASE m \in memberships'
    BY <1>1, <2>1, <2>2 DEF OneRecordPerGrant
  <2>3. CASE n \in memberships
    BY <1>1, <2>3 DEF AuthorityInv, OneRecordPerGrant
  <2>4. memberships \subseteq memberships' \/ memberships' \subseteq memberships
    BY <1>1, MembershipSteps
       DEF BindsTrusted, Grants, WithMembership, Withdraws, Forgets, LeavesMemberships
  <2> QED
    BY <2>2, <2>3, <2>4
<1>2. TypeOK /\ TypeOK' /\ AuthorityInv /\ [Next]_vars =>
        [\A m \in memberships, n \in memberships' :
           (m.keycloak_sub = n.keycloak_sub /\ m.group_name = n.group_name) => m = n]_vars
  BY <1>1
<1> QED
  BY <1>2, AuthorityInvariant, TypeCorrect, PTL DEF Spec, GrantsNeverRewritten
===============================================================================
