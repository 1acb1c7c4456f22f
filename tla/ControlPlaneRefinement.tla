------------------------ MODULE ControlPlaneRefinement ------------------------
(***************************************************************************)
(* ControlPlane implements AccessPromise: initial states map to initial    *)
(* states, and every step maps to one step of AccessPromise or to none.    *)
(***************************************************************************)
EXTENDS ControlPlaneTokenProofs

\* No step changes the members of groups and the tokens at once, but the loss
\* of a store that is not durable; and only requests that waited change tokens.
LEMMA StepKinds ==
  ASSUME TypeOK, [Next]_vars
  PROVE  \/ UNCHANGED <<tokens, clock>>
         \/ /\ UNCHANGED <<memberships, clock>>
            /\ proc = "serving" /\ \E slot \in Slots : inflight[slot] # None
         \/ Forgets /\ UNCHANGED clock
         \/ UNCHANGED <<memberships, tokens>> /\ clock' = clock + 1
<1>1. CASE Crash
  BY <1>1 DEF Crash, Die, Forgets, store
<1>2. CASE \E slot \in Slots : MintToken(slot) \/ RevokeToken(slot)
  BY <1>2 DEF MintToken, RevokeToken, Handles
<1>3. CASE \/ Startup
           \/ \E slot \in Slots : \/ CreateGroup(slot) \/ AddMembership(slot)
                                  \/ RemoveMembership(slot) \/ GetToken(slot)
  BY <1>3 DEF Startup, CreateGroup, AddMembership, RemoveMembership, GetToken, tokenStore,
              store
<1>4. CASE \E actor \in Subs, req \in AdminRequests :
             (\E slot \in Slots : Admit(slot, actor, req)) \/ Refuse(actor, req)
  BY <1>4 DEF Admit, Refuse, store
<1>5. CASE \/ \E sub \in Subs : RegisterSelf(sub) \/ ListSelfTokens(sub)
           \/ \E t \in TokenIds, owner \in Subs, raw \in AuthorizeTargets :
                Authorize(t, owner, raw)
  BY <1>5 DEF RegisterSelf, ListSelfTokens, Authorize, tokenStore, store
<1>6. CASE Tick \/ UNCHANGED vars
  BY <1>6 DEF Tick, vars, store
<1> QED
  BY <1>1, <1>2, <1>3, <1>4, <1>5, <1>6 DEF Next, AdminHandler

\* A request that waits in a serving process proves that somebody is an admin:
\* not necessarily its actor.
LEMMA RequestsNeedAdmins ==
  ASSUME AuthorityInv, proc = "serving", NEW slot \in Slots, inflight[slot] # None
  PROVE  AdminSubs # {}
  BY DEF AuthorityInv

\* With the same records the same tokens are issued.
LEMMA IssuedUnchanged ==
  ASSUME UNCHANGED tokens
  PROVE  Issued' = Issued /\ Revoked' = Revoked
  BY DEF Issued, Revoked

-------------------------------------------------------------------------------
LEMMA InitRefines == Init => Access!Init
<1> SUFFICES ASSUME Init PROVE Access!Init
  OBVIOUS
<1>1. AdminSubs = {}
  BY DEF Init, AdminSubs, MembershipsOfGroup
<1>2. Issued = Access!Nothing /\ Revoked = {}
  BY DEF Init, Issued, Revoked, Access!Nothing
<1> QED
  BY <1>1, <1>2 DEF Init, Access!Init

\* Memberships change as Bind, Appoint, Dismiss or Lose allow.
LEMMA MembershipsRefine ==
  ASSUME TypeOK, AuthorityInv, [Next]_vars, UNCHANGED <<tokens, clock>>
  PROVE  Access!Next \/ UNCHANGED Access!vars \/ Forgets
<1>1. Issued' = Issued /\ Revoked' = Revoked
  BY IssuedUnchanged
<1>2. ASSUME NEW k \in 0..Len(TrustedSubs), BindsTrusted(k)
      PROVE  Access!Next
  <2> DEFINE S == {m.keycloak_sub : m \in BootstrapGrants(k)}
  <2>1. S \in SUBSET TrustedSet
    BY BootstrapGrantsContents DEF TrustedSet
  <2>2. AdminSubs' = AdminSubs \cup S
    BY <1>2, BootstrapGrantsContents DEF BindsTrusted, AdminSubs, MembershipsOfGroup
  <2>3. Access!Bind
    BY <1>1, <2>1, <2>2 DEF Access!Bind
  <2> QED
    BY <2>3 DEF Access!Next
<1>3. ASSUME NEW slot \in Slots, NEW sub \in Subs, NEW name \in GroupNames,
             Grants(slot, sub, name)
      PROVE  Access!Next \/ UNCHANGED Access!vars
  <2>1. AdminSubs # {}
    BY <1>3, RequestsNeedAdmins DEF Grants, Handles
  <2>2. AdminSubs' = AdminSubs \/ AdminSubs' = AdminSubs \cup {sub}
    BY <1>3 DEF Grants, WithMembership, AdminSubs, MembershipsOfGroup
  <2> QED
    BY <1>1, <2>1, <2>2 DEF Access!Next, Access!Appoint, Access!vars
<1>4. ASSUME NEW slot \in Slots, NEW sub \in Subs, NEW name \in GroupNames,
             Withdraws(slot, sub, name)
      PROVE  Access!Next \/ UNCHANGED Access!vars
  <2>1. CASE name # RESERVED_ADMIN_GROUP
    <3>1. AdminSubs' = AdminSubs
      BY <1>4, <2>1 DEF Withdraws, MembershipsOf, AdminSubs, MembershipsOfGroup
    <3> QED
      BY <1>1, <3>1 DEF Access!vars
  <2>2. CASE name = RESERVED_ADMIN_GROUP
    <3>1. AdminSubs' = AdminSubs \ {sub}
      BY <1>4, <2>2 DEF Withdraws, MembershipsOf, AdminSubs, MembershipsOfGroup
    <3>2. AdminSubs \ {sub} # {}
      BY <1>4, <2>2, AnotherAdminRemains DEF Withdraws, AuthorityInv, AdminSubs
    <3> QED
      BY <1>1, <3>1, <3>2 DEF Access!Next, Access!Dismiss
  <2> QED
    BY <2>1, <2>2
<1>5. ASSUME LeavesMemberships
      PROVE  UNCHANGED Access!vars
  BY <1>1, <1>5 DEF LeavesMemberships, Access!vars, AdminSubs, MembershipsOfGroup
<1> QED
  BY <1>2, <1>3, <1>4, <1>5, MembershipSteps

\* Tokens change as Issue and Revoke allow.
LEMMA TokensRefine ==
  ASSUME TypeOK, TypeOK', AuthorityInv, TokenInv, [Next]_vars,
         UNCHANGED <<memberships, clock>>,
         proc = "serving", \E slot \in Slots : inflight[slot] # None
  PROVE  Access!Next \/ UNCHANGED Access!vars
<1>1. AdminSubs # {} /\ AdminSubs' = AdminSubs
  BY RequestsNeedAdmins DEF AdminSubs, MembershipsOfGroup
<1>2. ASSUME NEW slot \in Slots, NEW t \in TokenIds, NEW e, Mints(slot, t, e)
      PROVE  Access!Next \/ UNCHANGED Access!vars
  <2> DEFINE req == inflight[slot].req
             record == NewToken(req, inflight[slot].actor)
  <2>1. req \in AdminRequest /\ req.op = "mint_token" /\ inflight[slot].actor \in Subs
    BY <1>2, RequestFields DEF Mints
  <2>2. /\ record \in IssuedTokenRecord /\ record # None
        /\ record.status = "active"
        /\ record.granted_groups # {}
        /\ RESERVED_ADMIN_GROUP \notin record.granted_groups
    BY <1>2, <2>1, NewTokenContents DEF Mints
  <2>3. clock < record.expires_at
    <3>1. req.lifetime \in Int /\ req.lifetime > 0 /\ clock \in Nat
      BY <1>2, <2>1, GroupRequestFields, MaxTimeAssumption DEF Mints, CanMint, TypeOK
    <3> QED
      BY <3>1 DEF NewToken
  <2>4. tokens[t] = None
    BY <1>2 DEF Mints, FreshTokenIds
  <2>5. \A u \in TokenIds : tokens'[u] = IF u = t /\ e.record THEN record ELSE tokens[u]
    BY <1>2, UpsertContents, <2>2 DEF Mints
  <2>6. CASE e.record
    <3> DEFINE token == [owner |-> record.owner_sub, groups |-> record.granted_groups,
                         expires_at |-> record.expires_at]
    <3>1. token \in Access!IssuedToken
      BY <2>2 DEF IssuedTokenRecord, Access!IssuedToken
    <3>2. {u \in TokenIds : tokens'[u] # None} = {u \in TokenIds : tokens[u] # None} \cup {t}
      BY <2>2, <2>5, <2>6
    <3>3. Issued' = [u \in DOMAIN Issued \cup {t} |-> IF u = t THEN token ELSE Issued[u]]
      BY <2>2, <2>4, <2>5, <2>6, <3>2 DEF Issued
    <3>4. t \notin DOMAIN Issued
      BY <2>4 DEF Issued
    <3>5. Issued'[t] = token
      BY <3>3
    <3>6. clock < token.expires_at
      BY <2>3
    <3>7. Revoked' = Revoked
      BY <2>2, <2>4, <2>5, <2>6 DEF Revoked
    <3>8. Access!Issue(t)
      BY <1>1, <3>1, <3>3, <3>4, <3>5, <3>6, <3>7 DEF Access!Issue
    <3> QED
      BY <3>8 DEF Access!Next
  <2>7. CASE ~e.record
    <3>1. Issued' = Issued /\ Revoked' = Revoked
      BY <2>5, <2>7 DEF Issued, Revoked
    <3> QED
      BY <1>1, <3>1 DEF Access!vars
  <2> QED
    BY <2>6, <2>7
<1>3. ASSUME NEW slot \in Slots, NEW t \in TokenIds, NEW e, Revokes(slot, t, e)
      PROVE  Access!Next \/ UNCHANGED Access!vars
  <2> DEFINE record == RevokedToken(t)
  <2>1. tokens[t] # None /\ tokens[t].status = "active"
    BY <1>3 DEF Revokes, NeedsRevocation
  <2>2. /\ record # None
        /\ record.status = "revoked"
        /\ record.owner_sub = tokens[t].owner_sub
        /\ record.granted_groups = tokens[t].granted_groups
    BY <2>1, RevokedTokenContents
  <2>3. record.expires_at = tokens[t].expires_at
    BY <2>1, RevokedTokenType DEF RevokedToken, IssuedTokenRecord
  <2>4. \A u \in TokenIds : tokens'[u] = IF u = t /\ e.record THEN record ELSE tokens[u]
    BY <1>3, UpsertContents DEF Revokes
  <2>5. CASE e.record
    <3>1. {u \in TokenIds : tokens'[u] # None} = {u \in TokenIds : tokens[u] # None}
      BY <2>1, <2>2, <2>4
    <3>2. t \in DOMAIN Issued
      BY <2>1 DEF Issued
    <3>3. Issued' = Issued
      BY <2>1, <2>2, <2>3, <2>4, <2>5, <3>1 DEF Issued
    <3>4. Revoked' = Revoked \cup {t}
      BY <2>1, <2>2, <2>4, <2>5 DEF Revoked
    <3>5. Access!Revoke(t)
      BY <1>1, <3>2, <3>3, <3>4 DEF Access!Revoke
    <3> QED
      BY <3>5 DEF Access!Next
  <2>6. CASE ~e.record
    <3>1. Issued' = Issued /\ Revoked' = Revoked
      BY <2>4, <2>6 DEF Issued, Revoked
    <3> QED
      BY <1>1, <3>1 DEF Access!vars
  <2> QED
    BY <2>5, <2>6
<1>4. CASE LeavesTokens \/ \E t \in TokenIds : Confirms(t)
  <2>1. Issued' = Issued /\ Revoked' = Revoked
    BY <1>4, IssuedUnchanged DEF LeavesTokens, Confirms, tokenStore
  <2> QED
    BY <1>1, <2>1 DEF Access!vars
<1>5. ASSUME ForgetsTokens
      PROVE  UNCHANGED Access!vars
  <2>1. \A t \in TokenIds : tokens[t] = None /\ tokens'[t] = None
    BY <1>5 DEF ForgetsTokens, TokenInv, NoTokenWithoutVault
  <2>2. Issued' = Issued /\ Revoked' = Revoked
    BY <2>1 DEF Issued, Revoked
  <2> QED
    BY <1>1, <2>2 DEF Access!vars
<1> QED
  BY <1>2, <1>3, <1>4, <1>5, TokenSteps

LEMMA StepRefines ==
  ASSUME TypeOK, TypeOK', AuthorityInv, TokenInv, TokenInv', [Next]_vars
  PROVE  Access!Next \/ UNCHANGED Access!vars
<1>1. ASSUME Forgets, UNCHANGED clock
      PROVE  Access!Next
  <2>1. AdminSubs' = {}
    BY <1>1 DEF Forgets, AdminSubs, MembershipsOfGroup
  <2>2. Issued' = Access!Nothing /\ Revoked' = {}
    BY <1>1 DEF Forgets, TokenInv, NoTokenWithoutVault, Issued, Revoked, Access!Nothing
  <2>3. Access!Lose
    BY <1>1, <2>1, <2>2 DEF Forgets, Access!Lose
  <2> QED
    BY <2>3 DEF Access!Next
<1>2. ASSUME UNCHANGED <<memberships, tokens>>, clock' = clock + 1
      PROVE  Access!Next
  BY <1>2, IssuedUnchanged DEF Access!Next, Access!Pass, AdminSubs, MembershipsOfGroup
<1> QED
  BY <1>1, <1>2, StepKinds, MembershipsRefine, TokensRefine

\* Whatever the requests, the slots and the failing writes, the service does
\* what AccessPromise allows and nothing else.
THEOREM ImplementsAccess == Spec => ImplementsAccessPromise
<1>1. TypeOK /\ TypeOK' /\ AuthorityInv /\ TokenInv /\ TokenInv' /\ [Next]_vars =>
        [Access!Next]_Access!vars
  BY StepRefines
<1> QED
  BY <1>1, InitRefines, TypeCorrect, AuthorityInvariant, TokenInvariant, PTL
     DEF Spec, ImplementsAccessPromise, Access!Spec
===============================================================================
