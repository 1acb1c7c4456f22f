----------------------- MODULE ControlPlaneTokenProofs -----------------------
(***************************************************************************)
(* What ControlPlane promises of runtime tokens and of its audit log, for  *)
(* every set of tokens, groups and requests, wherever a write stops, and   *)
(* for both backends.                                                      *)
(***************************************************************************)
EXTENDS ControlPlaneProofs

\* What the runtime-group rule lets through is never the reserved group.
LEMMA ReservedGroupExcluded ==
  ASSUME NEW names, ensure_runtime_groups_allowed(names)
  PROVE  RESERVED_ADMIN_GROUP \notin {normalize_group_name(raw) : raw \in names}
  BY DEF ensure_runtime_groups_allowed, is_reserved_group

\* A mint stores an active record of defined runtime groups for a registered
\* owner.
LEMMA NewTokenContents ==
  ASSUME TypeOK, NEW req \in AdminRequest, req.op = "mint_token", CanMint(req),
         NEW actor \in Subs
  PROVE  LET record == NewToken(req, actor)
         IN /\ record \in IssuedTokenRecord
            /\ record # None
            /\ record.status = "active"
            /\ record.owner_sub \in registered
            /\ record.granted_groups # {}
            /\ record.granted_groups \subseteq groups
            /\ RESERVED_ADMIN_GROUP \notin record.granted_groups
<1> DEFINE record == NewToken(req, actor)
           granted == {normalize_group_name(raw) : raw \in req.names}
<1>1. record \in IssuedTokenRecord /\ record.granted_groups = granted
  BY NewTokenType
<1>2. /\ granted # {}
      /\ granted \subseteq groups
      /\ RESERVED_ADMIN_GROUP \notin granted
  BY ReservedGroupExcluded DEF CanMint, ValidateGroups
<1>3. record.status = "active" /\ record.owner_sub \in registered
  BY DEF NewToken, CanMint
<1> QED
  BY <1>1, <1>2, <1>3, NoneAssumption

\* Revoking changes nothing of a record but its status and revocation time.
LEMMA RevokedTokenContents ==
  ASSUME TypeOK, NEW t \in TokenIds, tokens[t] # None
  PROVE  /\ RevokedToken(t) \in IssuedTokenRecord
         /\ RevokedToken(t) # None
         /\ RevokedToken(t).status = "revoked"
         /\ RevokedToken(t).owner_sub = tokens[t].owner_sub
         /\ RevokedToken(t).granted_groups = tokens[t].granted_groups
<1>1. tokens[t] \in IssuedTokenRecord /\ RevokedToken(t) \in IssuedTokenRecord
  BY RevokedTokenType
<1>2. RevokedToken(t) # None
  BY <1>1, NoneAssumption
<1>3. /\ RevokedToken(t).status = "revoked"
      /\ RevokedToken(t).owner_sub = tokens[t].owner_sub
      /\ RevokedToken(t).granted_groups = tokens[t].granted_groups
  BY <1>1 DEF RevokedToken, IssuedTokenRecord
<1> QED
  BY <1>1, <1>2, <1>3

\* What an upsert leaves in the store, by token.
LEMMA UpsertContents ==
  ASSUME TypeOK, NEW t \in TokenIds, NEW record, NEW e, Upsert(t, record, e)
  PROVE  \A u \in TokenIds :
           /\ tokens'[u] = IF u = t /\ e.record THEN record ELSE tokens[u]
           /\ userIndex'[u] = IF u = t /\ e.user_index THEN record.status ELSE userIndex[u]
           /\ \A g \in GroupNames :
                groupIndex'[u][g] = IF u = t /\ g \in e.group_index THEN record.status
                                                                    ELSE groupIndex[u][g]
<1>1. /\ tokens \in [TokenIds -> IssuedTokenRecord \cup {None}]
      /\ userIndex \in [TokenIds -> Status \cup {None}]
      /\ groupIndex \in [TokenIds -> [GroupNames -> Status \cup {None}]]
  BY DEF TypeOK
<1>2. \A u \in TokenIds : tokens'[u] = IF u = t /\ e.record THEN record ELSE tokens[u]
  BY <1>1 DEF Upsert
<1>3. \A u \in TokenIds :
        userIndex'[u] = IF u = t /\ e.user_index THEN record.status ELSE userIndex[u]
  BY <1>1 DEF Upsert
<1>4. \A u \in TokenIds, g \in GroupNames :
        groupIndex'[u][g] = IF u = t /\ g \in e.group_index THEN record.status
                                                            ELSE groupIndex[u][g]
  BY <1>1 DEF Upsert
<1> QED
  BY <1>2, <1>3, <1>4

\* The writes of an upsert are applied in order, and all before it returns.
LEMMA UpsertOrder ==
  ASSUME NEW granted, NEW e \in UpsertProgress(granted)
  PROVE  /\ e.group_index \subseteq granted
         /\ e.user_index => e.record
         /\ e.group_index # {} => e.user_index
         /\ e.outcome = "ok" => e.record /\ e.user_index /\ e.group_index = granted
         /\ e.record \in BOOLEAN /\ e.user_index \in BOOLEAN
  BY DEF UpsertProgress, Progress

-------------------------------------------------------------------------------
(***************************************************************************)
(* The invariant, one lemma per shape of step.                             *)
(***************************************************************************)

\* TokenInv without what it says of waiting requests
RegistryInv ==
  /\ NoTokenWithoutVault
  /\ TokensRestOnRecords
  /\ \A t \in TokenIds : tokens[t] # None => RESERVED_ADMIN_GROUP \notin tokens[t].granted_groups
  /\ \A t \in answeredRevokes : tokens[t] # None /\ tokens[t].status = "revoked"
  /\ \A t \in answeredMints : tokens[t] # None
  /\ AnsweredMintsAreIndexed
  /\ IndexesFollowRecords

\* What an index entry says of its record, entry by entry
IndexEntryHolds(t, status) ==
  status # None => tokens[t] # None /\ (status = "revoked" => tokens[t].status = "revoked")

LEMMA IndexesEntrywise ==
  IndexesFollowRecords <=>
    \A t \in TokenIds : /\ IndexEntryHolds(t, userIndex[t])
                        /\ \A g \in GroupNames : IndexEntryHolds(t, groupIndex[t][g])
  BY DEF IndexesFollowRecords, IndexEntryHolds

LEMMA MintsStep ==
  ASSUME TypeOK, TypeOK', TokenInv, NEW slot \in Slots, NEW t \in TokenIds, NEW e,
         Mints(slot, t, e)
  PROVE  RegistryInv'
<1> DEFINE req == inflight[slot].req
           record == NewToken(req, inflight[slot].actor)
<1>1. /\ req \in AdminRequest /\ req.op = "mint_token"
      /\ inflight[slot].actor \in Subs /\ VaultConfigured
  BY RequestFields DEF Mints, TokenInv, Handles
<1>2. /\ record \in IssuedTokenRecord
      /\ record # None
      /\ record.status = "active"
      /\ record.owner_sub \in registered
      /\ record.granted_groups # {}
      /\ record.granted_groups \subseteq groups
      /\ RESERVED_ADMIN_GROUP \notin record.granted_groups
  BY <1>1, NewTokenContents DEF Mints
<1>3. tokens[t] = None
  BY DEF Mints, FreshTokenIds
<1>4. Keeps /\ answeredRevokes' = answeredRevokes
      /\ answeredMints' = IF e.outcome = "ok" THEN answeredMints \cup {t} ELSE answeredMints
  BY DEF Mints
<1>5. \A u \in TokenIds :
        /\ tokens'[u] = IF u = t /\ e.record THEN record ELSE tokens[u]
        /\ userIndex'[u] = IF u = t /\ e.user_index THEN "active" ELSE userIndex[u]
        /\ \A g \in GroupNames :
             groupIndex'[u][g] = IF u = t /\ g \in e.group_index THEN "active"
                                                                 ELSE groupIndex[u][g]
  BY <1>2, UpsertContents DEF Mints
<1>6. /\ e.group_index \subseteq record.granted_groups
      /\ e.user_index => e.record
      /\ e.group_index # {} => e.user_index
      /\ e.outcome = "ok" => e.record /\ e.user_index /\ e.group_index = record.granted_groups
  <2>1. e \in UpsertProgress(record.granted_groups)
    BY DEF Mints
  <2> QED
    BY <2>1, UpsertOrder
<1>7. TokensRestOnRecords'
  BY <1>2, <1>4, <1>5 DEF TokenInv, TokensRestOnRecords, Keeps
<1>8. \A u \in TokenIds :
        tokens'[u] # None => RESERVED_ADMIN_GROUP \notin tokens'[u].granted_groups
  BY <1>2, <1>5 DEF TokenInv
<1>9. /\ \A u \in answeredRevokes' : tokens'[u] # None /\ tokens'[u].status = "revoked"
      /\ \A u \in answeredMints' : tokens'[u] # None
  BY <1>2, <1>3, <1>4, <1>5, <1>6 DEF TokenInv, TypeOK
<1>10. AnsweredMintsAreIndexed'
  <2> SUFFICES ASSUME NEW u \in answeredMints'
               PROVE  /\ tokens'[u] # None /\ userIndex'[u] # None
                      /\ \A g \in tokens'[u].granted_groups : groupIndex'[u][g] # None
    BY DEF AnsweredMintsAreIndexed, SelfTokens, TypeOK
  <2>1. tokens'[u] # None /\ u \in TokenIds
    BY <1>9 DEF TypeOK
  <2>2. tokens'[u].granted_groups \subseteq GroupNames
    BY <2>1 DEF TypeOK, IssuedTokenRecord
  <2>3. CASE u = t
    BY <1>2, <1>3, <1>4, <1>5, <1>6, <2>1, <2>2, <2>3, NoneAssumption DEF TokenInv, Status
  <2>4. CASE u # t
    BY <1>4, <1>5, <2>1, <2>2, <2>4
       DEF TokenInv, AnsweredMintsAreIndexed, SelfTokens
  <2> QED
    BY <2>3, <2>4
<1>11. IndexesFollowRecords'
  <2>1. \A u \in TokenIds :
          /\ IndexEntryHolds(u, userIndex[u])
          /\ \A g \in GroupNames : IndexEntryHolds(u, groupIndex[u][g])
    BY IndexesEntrywise DEF TokenInv
  <2>2. \A u \in TokenIds :
          /\ IndexEntryHolds(u, userIndex[u])'
          /\ \A g \in GroupNames : IndexEntryHolds(u, groupIndex[u][g])'
    BY <1>2, <1>3, <1>5, <1>6, <2>1 DEF IndexEntryHolds
  <2> QED
    BY <2>2, IndexesEntrywise DEF IndexesFollowRecords, IndexEntryHolds
<1> QED
  BY <1>1, <1>7, <1>8, <1>9, <1>10, <1>11 DEF RegistryInv, NoTokenWithoutVault

LEMMA RevokesStep ==
  ASSUME TypeOK, TypeOK', TokenInv, NEW slot \in Slots, NEW t \in TokenIds, NEW e,
         Revokes(slot, t, e)
  PROVE  RegistryInv'
<1> DEFINE record == RevokedToken(t)
<1>1. tokens[t] # None /\ tokens[t].status = "active"
  BY DEF Revokes, NeedsRevocation
<1>2. /\ record # None
      /\ record.status = "revoked"
      /\ record.owner_sub = tokens[t].owner_sub
      /\ record.granted_groups = tokens[t].granted_groups
  BY <1>1, RevokedTokenContents
<1>3. Keeps /\ answeredMints' = answeredMints
      /\ answeredRevokes' = IF e.outcome = "ok" THEN answeredRevokes \cup {t}
                                                ELSE answeredRevokes
  BY DEF Revokes
<1>4. \A u \in TokenIds :
        /\ tokens'[u] = IF u = t /\ e.record THEN record ELSE tokens[u]
        /\ userIndex'[u] = IF u = t /\ e.user_index THEN "revoked" ELSE userIndex[u]
        /\ \A g \in GroupNames :
             groupIndex'[u][g] = IF u = t /\ g \in e.group_index THEN "revoked"
                                                                 ELSE groupIndex[u][g]
  BY <1>2, UpsertContents DEF Revokes
<1>5. /\ e.user_index => e.record
      /\ e.group_index # {} => e.user_index
      /\ e.outcome = "ok" => e.record
  <2>1. e \in UpsertProgress(tokens[t].granted_groups)
    BY DEF Revokes
  <2> QED
    BY <2>1, UpsertOrder
<1>6. TokensRestOnRecords'
  BY <1>1, <1>2, <1>3, <1>4 DEF TokenInv, TokensRestOnRecords, Keeps
<1>7. \A u \in TokenIds :
        tokens'[u] # None => RESERVED_ADMIN_GROUP \notin tokens'[u].granted_groups
  BY <1>1, <1>2, <1>4 DEF TokenInv
<1>8. /\ \A u \in answeredRevokes' : tokens'[u] # None /\ tokens'[u].status = "revoked"
      /\ \A u \in answeredMints' : tokens'[u] # None
  BY <1>1, <1>2, <1>3, <1>4, <1>5 DEF TokenInv, TypeOK
<1>9. AnsweredMintsAreIndexed'
  <2> SUFFICES ASSUME NEW u \in answeredMints'
               PROVE  /\ tokens'[u] # None /\ userIndex'[u] # None
                      /\ \A g \in tokens'[u].granted_groups : groupIndex'[u][g] # None
    BY DEF AnsweredMintsAreIndexed, SelfTokens, TypeOK
  <2>1. /\ u \in TokenIds
        /\ tokens[u] # None /\ userIndex[u] # None
        /\ \A g \in tokens[u].granted_groups : groupIndex[u][g] # None
    BY <1>3 DEF TokenInv, AnsweredMintsAreIndexed, SelfTokens
  <2>2. tokens[u].granted_groups \subseteq GroupNames
    BY <2>1 DEF TypeOK, IssuedTokenRecord
  <2>3. tokens'[u].granted_groups = tokens[u].granted_groups
    BY <1>2, <1>4, <2>1
  <2> QED
    BY <1>2, <1>4, <2>1, <2>2, <2>3, NoneAssumption DEF Status
<1>10. IndexesFollowRecords'
  <2>1. \A u \in TokenIds :
          /\ IndexEntryHolds(u, userIndex[u])
          /\ \A g \in GroupNames : IndexEntryHolds(u, groupIndex[u][g])
    BY IndexesEntrywise DEF TokenInv
  <2>2. \A u \in TokenIds :
          /\ IndexEntryHolds(u, userIndex[u])'
          /\ \A g \in GroupNames : IndexEntryHolds(u, groupIndex[u][g])'
    BY <1>1, <1>2, <1>4, <1>5, <2>1 DEF IndexEntryHolds
  <2> QED
    BY <2>2, IndexesEntrywise DEF IndexesFollowRecords, IndexEntryHolds
<1>11. NoTokenWithoutVault'
  BY <1>1 DEF TokenInv, NoTokenWithoutVault
<1> QED
  BY <1>6, <1>7, <1>8, <1>9, <1>10, <1>11 DEF RegistryInv

\* The other shapes leave the registry as it is, or lose one that was empty.
LEMMA QuietTokenSteps ==
  ASSUME TypeOK, TokenInv,
         LeavesTokens \/ ForgetsTokens \/ \E t \in TokenIds : Confirms(t)
  PROVE  RegistryInv'
<1>1. ASSUME Keeps, UNCHANGED <<tokenStore, answeredMints>>,
             \A u \in answeredRevokes' : tokens[u] # None /\ tokens[u].status = "revoked"
      PROVE  RegistryInv'
  BY <1>1 DEF TokenInv, RegistryInv, Keeps, tokenStore, NoTokenWithoutVault,
              TokensRestOnRecords, AnsweredMintsAreIndexed, SelfTokens, IndexesFollowRecords
<1>2. CASE LeavesTokens
  BY <1>1, <1>2 DEF LeavesTokens, tokenHistory, TokenInv
<1>3. CASE \E t \in TokenIds : Confirms(t)
  <2>1. PICK t \in TokenIds : Confirms(t)
    BY <1>3
  <2>2. tokens[t].status = "revoked"
    BY <2>1 DEF Confirms, NeedsRevocation, TypeOK, IssuedTokenRecord, Status
  <2> QED
    BY <1>1, <2>1, <2>2 DEF Confirms, TokenInv
<1>4. CASE ForgetsTokens
  <2>1. answeredRevokes' = {} /\ answeredMints' = {}
    BY <1>4 DEF ForgetsTokens, tokenHistory, TokenInv, NoTokenWithoutVault, TypeOK
  <2>2. \A t \in TokenIds : /\ tokens'[t] = None /\ userIndex'[t] = None
                            /\ \A g \in GroupNames : groupIndex'[t][g] = None
    BY <1>4 DEF ForgetsTokens, NoIndexEntries
  <2> QED
    BY <2>1, <2>2 DEF RegistryInv, NoTokenWithoutVault, TokensRestOnRecords,
                      AnsweredMintsAreIndexed, IndexesFollowRecords
<1> QED
  BY <1>2, <1>3, <1>4

LEMMA TokenInvInit == Init => TokenInv
<1> SUFFICES ASSUME Init PROVE TokenInv
  OBVIOUS
<1>1. \A t \in TokenIds : /\ tokens[t] = None /\ userIndex[t] = None
                          /\ \A g \in GroupNames : groupIndex[t][g] = None
  BY DEF Init, NoIndexEntries
<1> QED
  BY <1>1 DEF Init, TokenInv, IdleSlots, NoTokenWithoutVault, TokensRestOnRecords,
              AnsweredMintsAreIndexed, IndexesFollowRecords

LEMMA TokenInvStep ==
  ASSUME TypeOK, TypeOK', TokenInv, [Next]_vars
  PROVE  TokenInv'
<1>1. RegistryInv'
  BY TokenSteps, MintsStep, RevokesStep, QuietTokenSteps
<1>2. ASSUME NEW slot \in Slots, inflight'[slot] # None,
             inflight'[slot].req.op = "mint_token"
      PROVE  VaultConfigured
  BY <1>2, InflightSteps DEF TokenInv, SignerMissing
<1> QED
  BY <1>1, <1>2 DEF RegistryInv, TokenInv

\* The inductive invariant behind the theorems on tokens.
THEOREM TokenInvariant == Spec => []TokenInv
<1>1. TypeOK /\ TypeOK' /\ TokenInv /\ [Next]_vars => TokenInv'
  BY TokenInvStep
<1> QED
  BY <1>1, TokenInvInit, TypeCorrect, PTL DEF Spec

-------------------------------------------------------------------------------
(***************************************************************************)
(* What follows.                                                           *)
(***************************************************************************)

\* No runtime decision allows the reserved group, however it was spelled in
\* the mint request.
THEOREM AdminNeverGranted == Spec => []AdminNeverInRuntimeTokens
<1>1. TokenInv => AdminNeverInRuntimeTokens
  BY DEF TokenInv, AdminNeverInRuntimeTokens, Allowed
<1> QED
  BY <1>1, TokenInvariant, PTL

\* Every stored token belongs to a registered user and grants defined groups.
THEOREM TokensAlwaysRestOnRecords == Spec => []TokensRestOnRecords
<1>1. TokenInv => TokensRestOnRecords
  BY DEF TokenInv
<1> QED
  BY <1>1, TokenInvariant, PTL

\* An answered revocation holds for every later request, across crashes.
THEOREM AnsweredRevocationAlwaysHolds == Spec => []AnsweredRevocationHolds
<1>1. TokenInv => AnsweredRevocationHolds
  BY DEF TokenInv, AnsweredRevocationHolds, Allowed
<1> QED
  BY <1>1, TokenInvariant, PTL

\* Every token whose mint was answered is found through its indexes.
THEOREM AnsweredMintsAlwaysIndexed == Spec => []AnsweredMintsAreIndexed
<1>1. TokenInv => AnsweredMintsAreIndexed
  BY DEF TokenInv
<1> QED
  BY <1>1, TokenInvariant, PTL

\* No index entry is ever ahead of its record, wherever a write stopped.
THEOREM IndexesAlwaysFollowRecords == Spec => []IndexesFollowRecords
<1>1. TokenInv => IndexesFollowRecords
  BY DEF TokenInv
<1> QED
  BY <1>1, TokenInvariant, PTL

\* Without Vault there is never a token.
THEOREM NoTokenEverWithoutVault == Spec => []NoTokenWithoutVault
<1>1. TokenInv => NoTokenWithoutVault
  BY DEF TokenInv
<1> QED
  BY <1>1, TokenInvariant, PTL

\* A stored token changes only by its revocation, and only while it is active.
LEMMA StoredTokenStep ==
  ASSUME TypeOK, TokenInv, [Next]_vars, NEW t \in TokenIds, tokens[t] # None
  PROVE  \/ tokens'[t] = tokens[t]
         \/ tokens[t].status = "active" /\ tokens'[t].status = "revoked"
<1>1. ASSUME NEW slot \in Slots, NEW u \in TokenIds, NEW e, Mints(slot, u, e)
      PROVE  tokens'[t] = tokens[t]
  BY <1>1 DEF Mints, FreshTokenIds, Upsert, TypeOK
<1>2. ASSUME NEW slot \in Slots, NEW u \in TokenIds, NEW e, Revokes(slot, u, e)
      PROVE  \/ tokens'[t] = tokens[t]
             \/ tokens[t].status = "active" /\ tokens'[t].status = "revoked"
  <2>1. NeedsRevocation(u) /\ Upsert(u, RevokedToken(u), e)
    BY <1>2 DEF Revokes
  <2>2. tokens[u] # None /\ tokens[u].status = "active"
    BY <2>1 DEF NeedsRevocation
  <2>3. RevokedToken(u).status = "revoked"
    BY <2>2, RevokedTokenContents
  <2> QED
    BY <2>1, <2>2, <2>3, UpsertContents
<1>3. CASE LeavesTokens \/ \E u \in TokenIds : Confirms(u)
  BY <1>3 DEF LeavesTokens, Confirms, tokenStore
<1>4. ~ForgetsTokens
  BY DEF ForgetsTokens, TokenInv, NoTokenWithoutVault
<1> QED
  BY <1>1, <1>2, <1>3, <1>4, TokenSteps

\* A revoked record is never written again.
THEOREM RevocationAlwaysFinal == Spec => RevocationIsFinal
<1>1. TypeOK /\ TokenInv /\ [Next]_vars =>
        [\A t \in TokenIds :
           (tokens[t] # None /\ tokens[t].status = "revoked") => tokens'[t] = tokens[t]]_vars
  BY StoredTokenStep
<1> QED
  BY <1>1, TokenInvariant, TypeCorrect, PTL DEF Spec, RevocationIsFinal

LEMMA ClockAdvances ==
  ASSUME TypeOK, [Next]_vars
  PROVE  clock \in Nat /\ clock' \in Nat /\ clock <= clock'
<1>1. clock' = clock \/ clock' = clock + 1
  BY DEF Next, vars, store, AdminHandler, Startup, Crash, Admit, Refuse, CreateGroup,
         AddMembership, RemoveMembership, MintToken, GetToken, RevokeToken, RegisterSelf,
         ListSelfTokens, Authorize, Tick
<1>2. clock \in Nat
  BY MaxTimeAssumption DEF TypeOK
<1> QED
  BY <1>1, <1>2

\* Once a token exists its decisions only go from allow to deny: with a clock
\* that is not set back, no sequence of calls, retries and crashes revives one.
THEOREM AuthorizationNeverComesBack == Spec => AuthorizationNeverRegained
<1>1. ASSUME TypeOK, TokenInv, [Next]_vars, NEW t \in TokenIds, NEW owner \in Subs,
             NEW g \in GroupNames, tokens[t] # None, ~Allowed(t, owner, g)
      PROVE  ~Allowed(t, owner, g)'
  <2>1. CASE tokens'[t] = tokens[t]
    <3>1. tokens[t].expires_at \in Nat
      BY <1>1 DEF TypeOK, IssuedTokenRecord
    <3> QED
      BY <1>1, <2>1, <3>1, ClockAdvances DEF Allowed
  <2>2. CASE tokens'[t].status = "revoked"
    BY <2>2 DEF Allowed
  <2> QED
    BY <1>1, <2>1, <2>2, StoredTokenStep
<1>2. TypeOK /\ TokenInv /\ [Next]_vars =>
        [\A t \in TokenIds, owner \in Subs, g \in GroupNames :
           (tokens[t] # None /\ ~Allowed(t, owner, g)) => ~Allowed(t, owner, g)']_vars
  BY <1>1
<1> QED
  BY <1>2, TokenInvariant, TypeCorrect, PTL DEF Spec, AuthorizationNeverRegained

-------------------------------------------------------------------------------
(***************************************************************************)
(* The audit log.                                                          *)
(***************************************************************************)

\* In a process that stays up only the handler of a request takes it out of
\* its slot.
LEMMA AnsweringSteps ==
  ASSUME TypeOK, [Next]_vars, NEW slot \in Slots,
         proc' = "serving", inflight[slot] # None, inflight'[slot] = None
  PROVE  AdminHandler(slot)
<1> USE DEF TypeOK
<1>1. ASSUME NEW other \in Slots, NEW outcome, NEW subject, NEW group, NEW token,
             Finish(other, outcome, subject, group, token)
      PROVE  other = slot
  BY <1>1 DEF Finish, Die
<1>2. CASE \E other \in Slots : AdminHandler(other)
  <2>1. PICK other \in Slots : AdminHandler(other)
    BY <1>2
  <2>2. other = slot
    BY <1>1, <2>1 DEF AdminHandler, CreateGroup, AddMembership, RemoveMembership, MintToken,
                      GetToken, RevokeToken
  <2> QED
    BY <2>1, <2>2
<1>3. ASSUME NEW actor \in Subs, NEW req \in AdminRequests, NEW other \in Slots,
             Admit(other, actor, req)
      PROVE  FALSE
  BY <1>3, SlotsAssumption DEF Admit
<1>4. CASE Crash \/ \E sub \in Subs : RegisterSelf(sub)
  BY <1>4 DEF Crash, RegisterSelf, Die
<1>5. CASE \/ Startup \/ Tick \/ UNCHANGED vars
           \/ \E actor \in Subs, req \in AdminRequests : Refuse(actor, req)
           \/ \E sub \in Subs : ListSelfTokens(sub)
           \/ \E t \in TokenIds, owner \in Subs, raw \in AuthorizeTargets :
                Authorize(t, owner, raw)
  BY <1>5 DEF Startup, Tick, vars, Refuse, ListSelfTokens, Authorize
<1> QED
  BY <1>2, <1>3, <1>4, <1>5 DEF Next

\* The event a handler leaves behind in a process that stays up.
LEMMA FinishEvent ==
  ASSUME NEW slot \in Slots, NEW STATE outcome, NEW STATE subject, NEW STATE group,
         NEW STATE token, Finish(slot, outcome, subject, group, token), proc' = "serving"
  PROVE  /\ outcome # "crash"
         /\ audit'.event_type = inflight[slot].req.op
         /\ audit'.actor_sub = inflight[slot].actor
         /\ audit'.subject_sub = subject
         /\ audit'.group_name = group
         /\ audit'.token_id = token
         /\ audit'.result = "success" => outcome = "ok"
<1>1. outcome # "crash"
  BY DEF Finish, Die
<1>2. audit' = AuditEvent(inflight[slot].req.op, inflight[slot].actor, subject, group, token,
                          IF outcome = "ok" THEN "success" ELSE "failure")
  BY <1>1 DEF Finish
<1> QED
  BY <1>1, <1>2 DEF AuditEvent

\* What the event types claim, after a step.
LEMMA EventClaims ==
  /\ audit'.event_type = "create_group" => (EventHolds(audit)' <=> audit'.group_name \in groups')
  /\ audit'.event_type = "add_membership" =>
       (EventHolds(audit)' <=> MembershipsOf(audit.subject_sub, audit.group_name)' # {})
  /\ audit'.event_type = "remove_membership" =>
       (EventHolds(audit)' <=> MembershipsOf(audit.subject_sub, audit.group_name)' = {})
  /\ audit'.event_type = "mint_token" =>
       (EventHolds(audit)' <=> audit'.subject_sub = OwnerOrNone(audit.token_id)')
  /\ audit'.event_type = "get_token" => EventHolds(audit)'
  /\ audit'.event_type = "revoke_token" =>
       (EventHolds(audit)' <=> tokens'[audit'.token_id].status = "revoked")
  BY DEF EventHolds

\* Each handler has done what the success it logs reports.
LEMMA GroupEventHolds ==
  ASSUME TypeOK, NEW slot \in Slots, proc' = "serving", audit'.result = "success",
         CreateGroup(slot) \/ AddMembership(slot) \/ RemoveMembership(slot)
  PROVE  EventHolds(audit)'
<1> DEFINE req == inflight[slot].req
           name == normalize_group_name(req.name)
<1>1. CASE CreateGroup(slot)
  <2>1. req.op = "create_group"
    BY <1>1 DEF CreateGroup, Handles
  <2>2. CASE Finish(slot, "error", None, name, None)
    BY <2>2, FinishEvent
  <2>3. ASSUME NEW e \in SingleWrite,
               groups' = IF e.written THEN groups \cup {name} ELSE groups,
               Finish(slot, e.outcome, None, name, None)
        PROVE  EventHolds(audit)'
    <3>1. e.outcome = "ok" /\ audit'.event_type = "create_group" /\ audit'.group_name = name
      BY <2>1, <2>3, FinishEvent
    <3>2. name \in groups'
      BY <2>3, <3>1 DEF SingleWrite
    <3> QED
      BY <3>1, <3>2, EventClaims
  <2> QED
    BY <1>1, <2>2, <2>3 DEF CreateGroup
<1>2. CASE AddMembership(slot)
  <2>1. req.op = "add_membership"
    BY <1>2 DEF AddMembership, Handles
  <2>2. CASE Finish(slot, "error", req.sub, name, None)
    BY <2>2, FinishEvent
  <2>3. ASSUME NEW e \in SingleWrite,
               memberships' = IF e.written THEN WithMembership(req.sub, name, inflight[slot].actor)
                                           ELSE memberships,
               Finish(slot, e.outcome, req.sub, name, None)
        PROVE  EventHolds(audit)'
    <3>1. /\ e.outcome = "ok" /\ audit'.event_type = "add_membership"
          /\ audit'.group_name = name /\ audit'.subject_sub = req.sub
      BY <2>1, <2>3, FinishEvent
    <3>2. memberships' = WithMembership(req.sub, name, inflight[slot].actor)
      BY <2>3, <3>1 DEF SingleWrite
    <3>3. \E m \in memberships' : m.keycloak_sub = req.sub /\ m.group_name = name
      <4>1. CASE MembershipsOf(req.sub, name) # {}
        BY <3>2, <4>1 DEF WithMembership, MembershipsOf, MembershipsOfGroup
      <4>2. CASE MembershipsOf(req.sub, name) = {}
        <5> DEFINE m == [keycloak_sub |-> req.sub, group_name |-> name,
                         granted_by_sub |-> inflight[slot].actor]
        <5>1. m \in memberships' /\ m.keycloak_sub = req.sub /\ m.group_name = name
          BY <3>2, <4>2 DEF WithMembership
        <5> QED
          BY <5>1
      <4> QED
        BY <4>1, <4>2
    <3>4. MembershipsOf(audit.subject_sub, audit.group_name)' # {}
      BY <3>1, <3>3 DEF MembershipsOf, MembershipsOfGroup
    <3> QED
      BY <3>1, <3>4, EventClaims
  <2> QED
    BY <1>2, <2>2, <2>3 DEF AddMembership
<1>3. CASE RemoveMembership(slot)
  <2>1. req.op = "remove_membership"
    BY <1>3 DEF RemoveMembership, Handles
  <2>2. CASE Finish(slot, "error", req.sub, name, None)
    BY <2>2, FinishEvent
  <2>3. ASSUME NEW e \in SingleWrite,
               memberships' = IF e.written THEN memberships \ MembershipsOf(req.sub, name)
                                           ELSE memberships,
               Finish(slot, e.outcome, req.sub, name, None)
        PROVE  EventHolds(audit)'
    <3>1. /\ e.outcome = "ok" /\ audit'.event_type = "remove_membership"
          /\ audit'.group_name = name /\ audit'.subject_sub = req.sub
      BY <2>1, <2>3, FinishEvent
    <3>2. memberships' = memberships \ MembershipsOf(req.sub, name)
      BY <2>3, <3>1 DEF SingleWrite
    <3>3. MembershipsOf(audit.subject_sub, audit.group_name)' = {}
      BY <3>1, <3>2 DEF MembershipsOf, MembershipsOfGroup
    <3> QED
      BY <3>1, <3>3, EventClaims
  <2> QED
    BY <1>3, <2>2, <2>3 DEF RemoveMembership
<1> QED
  BY <1>1, <1>2, <1>3

\* The same of the handlers of tokens: the record is the first of their writes.
LEMMA TokenEventHolds ==
  ASSUME TypeOK, NEW slot \in Slots, proc' = "serving", audit'.result = "success",
         MintToken(slot) \/ GetToken(slot) \/ RevokeToken(slot)
  PROVE  EventHolds(audit)'
<1> DEFINE req == inflight[slot].req
           t == req.token
<1>1. CASE MintToken(slot)
  <2> DEFINE record == NewToken(req, inflight[slot].actor)
  <2>1. Handles(slot, "mint_token") /\ req.op = "mint_token"
    BY <1>1 DEF MintToken, Handles
  <2>2. CASE Finish(slot, "error", req.owner, None, None)
    BY <2>2, FinishEvent
  <2>3. ASSUME CanMint(req), NEW u \in FreshTokenIds, NEW e \in UpsertProgress(record.granted_groups),
               Upsert(u, record, e),
               Finish(slot, e.outcome, req.owner, None, IF e.outcome = "ok" THEN u ELSE None)
        PROVE  EventHolds(audit)'
    <3>1. /\ e.outcome = "ok" /\ audit'.event_type = "mint_token"
          /\ audit'.subject_sub = req.owner /\ audit'.token_id = u
      BY <2>1, <2>3, FinishEvent
    <3>2. e.record /\ u \in TokenIds
      BY <3>1 DEF UpsertProgress, FreshTokenIds
    <3>3. tokens'[u] = record
      BY <2>3, <3>2, UpsertContents
    <3>4. record # None /\ record.owner_sub = req.owner
      <4>1. inflight[slot].actor \in Subs /\ req \in AdminRequest
        BY <2>1, RequestFields
      <4>2. record # None
        BY <2>1, <2>3, <4>1, NewTokenContents
      <4> QED
        BY <4>2 DEF NewToken
    <3>5. audit'.subject_sub = OwnerOrNone(audit.token_id)'
      BY <3>1, <3>3, <3>4 DEF OwnerOrNone
    <3> QED
      BY <3>1, <3>5, EventClaims
  <2> QED
    BY <1>1, <2>2, <2>3 DEF MintToken
<1>2. CASE GetToken(slot)
  <2>1. audit'.event_type = "get_token"
    BY <1>2, FinishEvent DEF GetToken, Handles
  <2> QED
    BY <2>1, EventClaims
<1>3. CASE RevokeToken(slot)
  <2>1. /\ Handles(slot, "revoke_token") /\ req.op = "revoke_token"
        /\ t \in TokenIds
    BY <1>3, RequestFields, GroupRequestFields DEF RevokeToken, Handles
  <2>2. CASE Finish(slot, "error", None, None, t)
    BY <2>2, FinishEvent
  <2>3. CASE /\ tokens[t] # None /\ ~NeedsRevocation(t) /\ UNCHANGED tokenStore
             /\ Finish(slot, "ok", OwnerOrNone(t), None, t)
    <3>1. audit'.event_type = "revoke_token" /\ audit'.token_id = t
      BY <2>1, <2>3, FinishEvent
    <3>2. tokens'[t].status = "revoked"
      BY <2>1, <2>3 DEF NeedsRevocation, tokenStore, TypeOK, IssuedTokenRecord, Status
    <3> QED
      BY <3>1, <3>2, EventClaims
  <2>4. ASSUME NeedsRevocation(t), NEW e \in UpsertProgress(tokens[t].granted_groups),
               Upsert(t, RevokedToken(t), e),
               Finish(slot, e.outcome, IF e.outcome = "ok" THEN OwnerOrNone(t) ELSE None, None, t)
        PROVE  EventHolds(audit)'
    <3>1. e.outcome = "ok" /\ audit'.event_type = "revoke_token" /\ audit'.token_id = t
      BY <2>1, <2>4, FinishEvent
    <3>2. e.record
      BY <3>1 DEF UpsertProgress
    <3>3. tokens'[t] = RevokedToken(t)
      <4>1. tokens \in [TokenIds -> IssuedTokenRecord \cup {None}]
        BY DEF TypeOK
      <4> QED
        BY <2>1, <2>4, <3>2, <4>1 DEF Upsert
    <3>4. RevokedToken(t).status = "revoked"
      BY <2>1, <2>4 DEF RevokedToken, NeedsRevocation, TypeOK, IssuedTokenRecord
    <3> QED
      BY <3>1, <3>3, <3>4, EventClaims
  <2> QED
    BY <1>3, <2>2, <2>3, <2>4 DEF RevokeToken
<1> QED
  BY <1>1, <1>2, <1>3

\* Every admin handler that ends in a process that stays up appends the event
\* of its request.
LEMMA AnswersAreAudited ==
  ASSUME TypeOK, NEW slot \in Slots, proc' = "serving", AdminHandler(slot)
  PROVE  /\ audit' \in AuditRecord
         /\ audit'.event_type = inflight[slot].req.op
         /\ audit'.actor_sub = inflight[slot].actor
<1> DEFINE req == inflight[slot].req
           name == normalize_group_name(req.name)
           owner == OwnerOrNone(req.token)
<1>1. \/ /\ Handles(slot, "create_group")
         /\ \E outcome : Finish(slot, outcome, None, name, None)
      \/ /\ Handles(slot, "add_membership") \/ Handles(slot, "remove_membership")
         /\ \E outcome : Finish(slot, outcome, req.sub, name, None)
      \/ /\ Handles(slot, "mint_token")
         /\ \E outcome : \E token \in TokenIds \cup {None} :
              Finish(slot, outcome, req.owner, None, token)
      \/ /\ Handles(slot, "get_token") \/ Handles(slot, "revoke_token")
         /\ \E outcome : \E subject \in {None, owner} :
              Finish(slot, outcome, subject, None, req.token)
  <2>1. CASE MintToken(slot)
    BY <2>1 DEF MintToken, FreshTokenIds
  <2>2. CASE CreateGroup(slot)
    BY <2>2 DEF CreateGroup
  <2>3. CASE AddMembership(slot)
    BY <2>3 DEF AddMembership
  <2>4. CASE RemoveMembership(slot)
    BY <2>4 DEF RemoveMembership
  <2>5. CASE GetToken(slot)
    BY <2>5 DEF GetToken
  <2>6. CASE RevokeToken(slot)
    BY <2>6 DEF RevokeToken
  <2> QED
    BY <2>1, <2>2, <2>3, <2>4, <2>5, <2>6 DEF AdminHandler
<1>2. ASSUME NEW op, Handles(slot, op), NEW outcome, NEW subject \in Subs \cup {None},
             NEW group \in GroupNames \cup {None}, NEW token \in TokenIds \cup {None},
             Finish(slot, outcome, subject, group, token)
      PROVE  audit' \in AuditRecord
  <2>1. inflight[slot].actor \in Subs /\ req.op \in EventTypes
    BY <1>2, RequestFields
  <2>2. audit' = AuditEvent(req.op, inflight[slot].actor, subject, group, token,
                            IF outcome = "ok" THEN "success" ELSE "failure")
    BY <1>2, FinishEvent DEF Finish
  <2> QED
    BY <2>1, <2>2 DEF AuditEvent, AuditRecord, Results
<1>3. ASSUME NEW op, Handles(slot, op)
      PROVE  /\ req.op = op /\ req \in AdminRequest
             /\ op = "create_group" => req.name \in RawName
             /\ op \in {"add_membership", "remove_membership"} =>
                  req.sub \in Subs /\ req.name \in RawName
             /\ op = "mint_token" => req.owner \in Subs
             /\ op \in {"get_token", "revoke_token"} =>
                  req.token \in TokenIds /\ owner \in Subs \cup {None}
  BY <1>3, RequestFields, GroupRequestFields, OwnerType
<1>4. audit' \in AuditRecord
  <2> HIDE DEF req, name, owner
  <2>1. CASE /\ Handles(slot, "create_group")
             /\ \E outcome : Finish(slot, outcome, None, name, None)
    <3>1. name \in GroupNames \cup {None}
      BY <1>3, <2>1, NormalizedNames DEF name
    <3> QED
      BY <1>2, <2>1, <3>1
  <2>2. CASE /\ Handles(slot, "add_membership") \/ Handles(slot, "remove_membership")
             /\ \E outcome : Finish(slot, outcome, req.sub, name, None)
    <3>1. req.sub \in Subs /\ name \in GroupNames \cup {None}
      BY <1>3, <2>2, NormalizedNames DEF name
    <3> QED
      BY <1>2, <2>2, <3>1
  <2>3. CASE /\ Handles(slot, "mint_token")
             /\ \E outcome : \E token \in TokenIds \cup {None} :
                  Finish(slot, outcome, req.owner, None, token)
    BY <1>2, <1>3, <2>3
  <2>4. CASE /\ Handles(slot, "get_token") \/ Handles(slot, "revoke_token")
             /\ \E outcome : \E subject \in {None, owner} :
                  Finish(slot, outcome, subject, None, req.token)
    BY <1>2, <1>3, <2>4
  <2> QED
    BY <1>1, <2>1, <2>2, <2>3, <2>4
<1> QED
  BY <1>1, <1>4, FinishEvent

\* What an admin request is logged to have done is in the store: the event of
\* a success is appended after the last of its writes.
THEOREM SuccessEventsAlwaysHold == Spec => SuccessEventsHold
<1>1. ASSUME TypeOK, [Next]_vars, NEW slot \in Slots, proc' = "serving",
             inflight[slot] # None, inflight'[slot] = None, audit'.result = "success"
      PROVE  EventHolds(audit)'
  BY <1>1, AnsweringSteps, GroupEventHolds, TokenEventHolds DEF AdminHandler
<1>2. TypeOK /\ [Next]_vars =>
        [\A slot \in Slots :
           /\ proc' = "serving"
           /\ inflight[slot] # None /\ inflight'[slot] = None
           /\ audit' # None /\ audit'.result = "success"
           => EventHolds(audit)']_vars
  BY <1>1
<1> QED
  BY <1>2, TypeCorrect, PTL DEF Spec, SuccessEventsHold

\* In a process that stays up only an admin handler changes groups,
\* memberships or tokens, and it takes its request out of its slot.
LEMMA ChangesAreAnswers ==
  ASSUME TypeOK, [Next]_vars, proc = "serving", proc' = "serving",
         <<groups, memberships, tokens>>' # <<groups, memberships, tokens>>
  PROVE  \E slot \in Slots : /\ AdminHandler(slot)
                            /\ inflight[slot] # None /\ inflight'[slot] = None
<1>1. ASSUME NEW slot \in Slots, AdminHandler(slot)
      PROVE  inflight[slot] # None /\ inflight'[slot] = None
  <2>1. ASSUME NEW outcome, NEW subject, NEW group, NEW token,
               Finish(slot, outcome, subject, group, token)
        PROVE  inflight'[slot] = None
    BY <2>1 DEF Finish, Die, IdleSlots, TypeOK
  <2> QED
    BY <1>1, <2>1 DEF AdminHandler, CreateGroup, AddMembership, RemoveMembership, MintToken,
                      GetToken, RevokeToken, Handles
<1>2. CASE Startup \/ Crash
  BY <1>2 DEF Startup, Crash, Die
<1>3. CASE \/ Tick \/ UNCHANGED vars
           \/ \E actor \in Subs, req \in AdminRequests :
                (\E slot \in Slots : Admit(slot, actor, req)) \/ Refuse(actor, req)
           \/ \E sub \in Subs : RegisterSelf(sub) \/ ListSelfTokens(sub)
           \/ \E t \in TokenIds, owner \in Subs, raw \in AuthorizeTargets :
                Authorize(t, owner, raw)
  BY <1>3 DEF Tick, vars, Admit, Refuse, RegisterSelf, ListSelfTokens, Authorize, store,
              tokenStore
<1> QED
  BY <1>1, <1>2, <1>3 DEF Next

\* No step of a process that stays up changes groups, memberships or tokens
\* without the event of an admitted request: what a handler has written before
\* one of its calls failed is logged too, and only a startup or a handler that
\* its process did not survive changes them unlogged.
THEOREM ChangesAreAlwaysAudited == Spec => ChangesAreAudited
<1>1. ASSUME TypeOK, [Next]_vars, proc = "serving", proc' = "serving",
             <<groups, memberships, tokens>>' # <<groups, memberships, tokens>>
      PROVE  \E slot \in Slots :
               /\ inflight[slot] # None /\ inflight'[slot] = None
               /\ audit' # None
               /\ audit'.event_type = inflight[slot].req.op
               /\ audit'.actor_sub = inflight[slot].actor
  BY <1>1, ChangesAreAnswers, AnswersAreAudited, NoEventAssumption
<1>2. TypeOK /\ [Next]_vars =>
        [/\ proc = "serving" /\ proc' = "serving"
         /\ <<groups, memberships, tokens>>' # <<groups, memberships, tokens>>
         => \E slot \in Slots :
              /\ inflight[slot] # None /\ inflight'[slot] = None
              /\ audit' # None
              /\ audit'.event_type = inflight[slot].req.op
              /\ audit'.actor_sub = inflight[slot].actor]_vars
  BY <1>1
<1> QED
  BY <1>2, TypeCorrect, PTL DEF Spec, ChangesAreAudited
===============================================================================
