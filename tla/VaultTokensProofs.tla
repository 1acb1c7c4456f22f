-------------------------- MODULE VaultTokensProofs --------------------------
(***************************************************************************)
(* What holds of VaultTokens for any number of processes, tokens, groups   *)
(* and late writes, however long they are under way.                       *)
(***************************************************************************)
EXTENDS VaultTokens, TLAPS

PCs == {"idle", "find", "record", "user", "group", "decide", "keys", "get"}
Storing == {"record", "user", "group"}

\* The part of the type invariant that speaks of one process
LocalTyped(next, j, visits) ==
  /\ next \in PCs /\ j \in Job \cup {None}
  /\ next = "idle" => j = None
  /\ next = "find" => j \in Revoking
  /\ next \in Storing => j \in Upserting /\ visits \subseteq j.record.granted_groups
  /\ next = "decide" => j \in Deciding
  /\ next \in {"keys", "get"} => j \in Listing /\ visits \subseteq TokenIds

LocalTypes ==
  /\ pc \in [Processes -> PCs] /\ job \in [Processes -> Job \cup {None}]
  /\ \A p \in Processes : LocalTyped(pc[p], job[p], todo[p])
  /\ listed \in [Processes -> SUBSET [token : TokenIds, record : IssuedTokenRecord]]
  /\ DOMAIN todo = Processes

StoreTypes ==
  /\ tokens \in [TokenIds -> IssuedTokenRecord \cup {None}]
  /\ userIndex \in [TokenIds -> Entry \cup {None}]
  /\ groupIndex \in [TokenIds -> [GroupNames -> Entry \cup {None}]]
  /\ late \in [LateSlots -> Write \cup {None}]

RestTypes ==
  /\ clock \in Nat
  /\ drawn \subseteq TokenIds
  /\ answer \in Answer \cup {None}
  /\ answeredMints \subseteq TokenIds /\ answeredRevokes \subseteq TokenIds

LEMMA TypeParts == LocalTypes /\ StoreTypes /\ RestTypes => TypeOK
  BY DEF LocalTypes, LocalTyped, StoreTypes, RestTypes, TypeOK, PCs, Storing

LEMMA Order == /\ UpsertOrder[1] = "record" /\ UpsertOrder[2] = "user" /\ UpsertOrder[3] = "group"
               /\ \A i \in 1..3 : UpsertOrder[i] \in Storing
  BY DEF UpsertOrder, Storing

\* A process turns to work of the kind its next call belongs to.
LEMMA TurnedTyped ==
  ASSUME LocalTypes, NEW p \in Processes, NEW STATE next, NEW STATE j, NEW STATE visits,
         TurnTo(p, next, j, visits), LocalTyped(next, j, visits)
  PROVE  LocalTypes'
<1>1. /\ pc' = [pc EXCEPT ![p] = next] /\ job' = [job EXCEPT ![p] = j]
      /\ todo' = [todo EXCEPT ![p] = visits] /\ listed' = [listed EXCEPT ![p] = {}]
  BY DEF TurnTo
<1>2. /\ pc' \in [Processes -> PCs] /\ job' \in [Processes -> Job \cup {None}]
      /\ listed' \in [Processes -> SUBSET [token : TokenIds, record : IssuedTokenRecord]]
      /\ DOMAIN todo' = Processes
  BY <1>1 DEF LocalTypes, LocalTyped
<1>3. \A q \in Processes : LocalTyped(pc'[q], job'[q], todo'[q])
  BY <1>1 DEF LocalTypes
<1> QED
  BY <1>2, <1>3 DEF LocalTypes

LEMMA RestTyped ==
  ASSUME LocalTypes, NEW p \in Processes, Rest(p)
  PROVE  LocalTypes'
<1>1. LocalTyped("idle", None, {})
  BY DEF LocalTyped, PCs, Storing
<1> QED
  BY <1>1, TurnedTyped DEF Rest

EntryOf(record) == [owner_sub |-> record.owner_sub, status |-> record.status]

\* A write is of one document.
LEMMA WriteCases ==
  ASSUME NEW STATE w, w \in Write, ApplyWrite(w)
  PROVE  /\ w.to \in Storing /\ w.token \in TokenIds /\ w.record \in IssuedTokenRecord
         /\ EntryOf(w.record) \in Entry
         /\ w.to = "record" => /\ tokens' = [tokens EXCEPT ![w.token] = w.record]
                               /\ UNCHANGED <<userIndex, groupIndex>>
         /\ w.to = "user" => /\ userIndex' = [userIndex EXCEPT ![w.token] = EntryOf(w.record)]
                             /\ UNCHANGED <<tokens, groupIndex>>
         /\ w.to = "group" =>
              /\ groupIndex' = [groupIndex EXCEPT ![w.token][w.group] = EntryOf(w.record)]
              /\ UNCHANGED <<tokens, userIndex>>
<1>1. /\ w.to \in Storing /\ w.token \in TokenIds /\ w.record \in IssuedTokenRecord
      /\ w.record.owner_sub \in Subs /\ w.record.status \in Status
  BY DEF Write, Storing, IssuedTokenRecord
<1>2. EntryOf(w.record) \in Entry
  BY <1>1 DEF EntryOf, Entry
<1>3. CASE w.to = "record"
  BY <1>1, <1>2, <1>3 DEF ApplyWrite
<1>4. CASE w.to = "user"
  BY <1>1, <1>2, <1>4 DEF ApplyWrite, EntryOf
<1>5. CASE w.to = "group"
  BY <1>1, <1>2, <1>5 DEF ApplyWrite, EntryOf
<1> QED
  BY <1>1, <1>3, <1>4, <1>5 DEF Storing

\* A write of a typed record leaves typed documents.
LEMMA WriteTyped ==
  ASSUME StoreTypes, NEW STATE w, w \in Write, ApplyWrite(w)
  PROVE  /\ tokens' \in [TokenIds -> IssuedTokenRecord \cup {None}]
         /\ userIndex' \in [TokenIds -> Entry \cup {None}]
         /\ groupIndex' \in [TokenIds -> [GroupNames -> Entry \cup {None}]]
<1>1. /\ w.to \in Storing /\ w.token \in TokenIds /\ w.record \in IssuedTokenRecord
      /\ EntryOf(w.record) \in Entry
  BY WriteCases
<1>2. CASE w.to = "record"
  BY <1>1, <1>2, WriteCases DEF StoreTypes
<1>3. CASE w.to = "user"
  BY <1>1, <1>3, WriteCases DEF StoreTypes
<1>4. CASE w.to = "group"
  <2> DEFINE old == groupIndex[w.token]
             new == [old EXCEPT ![w.group] = EntryOf(w.record)]
  <2>1. old \in [GroupNames -> Entry \cup {None}]
    BY <1>1 DEF StoreTypes
  <2>2. new \in [GroupNames -> Entry \cup {None}]
    BY <1>1, <2>1
  <2>3. groupIndex' = [groupIndex EXCEPT ![w.token] = new] /\ UNCHANGED <<tokens, userIndex>>
    BY <1>4, WriteCases
  <2> QED
    BY <1>1, <2>2, <2>3 DEF StoreTypes
<1> QED
  BY <1>1, <1>2, <1>3, <1>4 DEF Storing

\* The token a mint draws, and the record a revocation writes, are typed.
LEMMA RecordsTyped ==
  ASSUME clock \in Nat
  PROVE  /\ \A req \in MintRequests, actor \in Subs :
              NewToken(req, actor) \in IssuedTokenRecord
         /\ \A record \in IssuedTokenRecord : RevokedToken(record) \in IssuedTokenRecord
<1>1. ASSUME NEW req \in MintRequests, NEW actor \in Subs
      PROVE  NewToken(req, actor) \in IssuedTokenRecord
  <2>1. /\ req.owner \in Subs /\ req.groups \in SUBSET GroupNames
        /\ req.lifetime \in Nat
    BY MintRequestsAssumption DEF MintRequest
  <2> QED
    BY <2>1 DEF NewToken, IssuedTokenRecord, Status
<1>2. ASSUME NEW record \in IssuedTokenRecord
      PROVE  RevokedToken(record) \in IssuedTokenRecord
  BY DEF RevokedToken, IssuedTokenRecord, Status
<1> QED
  BY <1>1, <1>2

-------------------------------------------------------------------------------
(***************************************************************************)
(* Types.                                                                  *)
(***************************************************************************)
Types == LocalTypes /\ StoreTypes /\ RestTypes

LEMMA TypesInit == Init => Types
  BY DEF Init, Types, LocalTypes, LocalTyped, StoreTypes, RestTypes, PCs, Storing

LEMMA TypesStep == Types /\ [Next]_vars => Types'
<1> SUFFICES ASSUME Types, [Next]_vars
             PROVE  Types'
  OBVIOUS
<1> USE DEF Types
<1>1. ASSUME NEW p \in Processes, NEW actor \in Subs, NEW req \in MintRequests, Mint(p, actor, req)
      PROVE  Types'
  <2>1. PICK t \in FreshTokenIds :
          /\ TurnTo(p, UpsertOrder[1],
                    [op |-> "mint", token |-> t, record |-> NewToken(req, actor)], req.groups)
          /\ drawn' = drawn \cup {t}
    BY <1>1 DEF Mint
  <2> DEFINE j == [op |-> "mint", token |-> t, record |-> NewToken(req, actor)]
  <2>2. j \in Upserting /\ req.groups = j.record.granted_groups /\ t \in TokenIds
    BY RecordsTyped DEF RestTypes, Upserting, FreshTokenIds, NewToken
  <2>3. LocalTyped("record", j, req.groups)
    BY <2>2 DEF LocalTyped, Storing, PCs, Job
  <2> HIDE DEF j
  <2>4. LocalTypes'
    BY <2>1, <2>3, Order, TurnedTyped DEF j
  <2> QED
    BY <1>1, <2>1, <2>2, <2>4 DEF Mint, StoreTypes, RestTypes, store, answers
<1>2. ASSUME NEW p \in Processes, NEW t \in TokenIds, Revoke(p, t)
      PROVE  Types'
  <2> DEFINE j == [op |-> "revoke", token |-> t, record |-> None]
  <2>1. LocalTyped("find", j, {})
    BY DEF LocalTyped, Storing, PCs, Job, Revoking
  <2> HIDE DEF j
  <2>2. LocalTypes'
    BY <1>2, <2>1, TurnedTyped DEF Revoke, j
  <2> QED
    BY <1>2, <2>2 DEF Revoke, StoreTypes, RestTypes, store, answers
<1>3. ASSUME NEW p \in Processes, NEW q \in Questions, Ask(p, q)
      PROVE  Types'
  <2> DEFINE j == [op |-> "authorize", token |-> q.token, owner |-> q.owner, group |-> q.group,
                   at |-> clock, held |-> tokens[q.token]]
  <2>1. q \in Question
    BY QuestionsAssumption
  <2>2. LocalTyped("decide", j, {})
    BY <2>1 DEF LocalTyped, Storing, PCs, Job, Deciding, Question, StoreTypes, RestTypes
  <2> HIDE DEF j
  <2>3. LocalTypes'
    BY <1>3, <2>2, TurnedTyped DEF Ask, j
  <2> QED
    BY <1>3, <2>3 DEF Ask, StoreTypes, RestTypes, store, answers
<1>4. ASSUME NEW p \in Processes, NEW owner \in Subs, ListSelf(p, owner)
      PROVE  Types'
  <2> DEFINE j == [op |-> "list", owner |-> owner, minted |-> answeredMints,
                   revoked |-> answeredRevokes]
  <2>1. LocalTyped("keys", j, {})
    BY DEF LocalTyped, Storing, PCs, Job, Listing, RestTypes
  <2> HIDE DEF j
  <2>2. LocalTypes'
    BY <1>4, <2>1, TurnedTyped DEF ListSelf, j
  <2> QED
    BY <1>4, <2>2 DEF ListSelf, StoreTypes, RestTypes, store, answers
<1>5. ASSUME NEW p \in Processes, Find(p)
      PROVE  Types'
  <2> DEFINE t == job[p].token
             j == [op |-> "revoke", token |-> t, record |-> RevokedToken(tokens[t])]
  <2>1. /\ t \in TokenIds /\ tokens[t] \in IssuedTokenRecord
    BY <1>5 DEF Find, LocalTypes, LocalTyped, Revoking, StoreTypes
  <2>2. LocalTypes' /\ answeredRevokes' \subseteq TokenIds
    <3>1. CASE Rest(p) /\ answeredRevokes' = answeredRevokes \cup {t}
      BY <2>1, <3>1, RestTyped DEF RestTypes
    <3>2. CASE /\ TurnTo(p, UpsertOrder[1], j, tokens[t].granted_groups)
               /\ UNCHANGED answeredRevokes
      <4>1. j \in Upserting /\ j.record.granted_groups = tokens[t].granted_groups
        BY <2>1, RecordsTyped DEF Upserting, RestTypes, RevokedToken, IssuedTokenRecord
      <4>2. LocalTyped("record", j, tokens[t].granted_groups)
        BY <4>1 DEF LocalTyped, Storing, PCs, Job
      <4> HIDE DEF j
      <4>3. LocalTypes'
        BY <3>2, <4>2, Order, TurnedTyped
      <4> QED
        BY <3>2, <4>3 DEF RestTypes
    <3> QED
      BY <1>5, <3>1, <3>2 DEF Find
  <2> QED
    BY <1>5, <2>2 DEF Find, StoreTypes, RestTypes, store
<1>6. ASSUME NEW p \in Processes, NEW i \in 1..3, NEW g \in GroupNames \cup {None}, Store(p, i, g)
      PROVE  Types'
  <2> DEFINE w == [to |-> UpsertOrder[i], group |-> g, token |-> job[p].token,
                   record |-> job[p].record]
  <2>1. PICK e \in WriteEffect :
          /\ IF e.applied = "now" THEN ApplyWrite(w) ELSE UNCHANGED store
          /\ IF e.applied = "late"
               THEN \E l \in LateSlots : late[l] = None /\ late' = [late EXCEPT ![l] = w]
               ELSE UNCHANGED late
          /\ IF e.ok THEN AfterStore(p, i, g) ELSE Rest(p) /\ UNCHANGED answers
    BY <1>6 DEF Store
  <2>2. /\ pc[p] = UpsertOrder[i] /\ answer' = None /\ UNCHANGED <<clock, drawn>>
        /\ job[p] \in Upserting /\ todo[p] \subseteq job[p].record.granted_groups
    BY <1>6, Order DEF Store, LocalTypes, LocalTyped
  <2>3. w \in Write /\ job[p].token \in TokenIds
    BY <2>2, Order DEF Write, Upserting, Storing
  <2> HIDE DEF w
  <2>4. StoreTypes'
    BY <2>1, <2>3, WriteTyped DEF StoreTypes, store
  <2>5. LocalTypes' /\ answeredMints' \subseteq TokenIds /\ answeredRevokes' \subseteq TokenIds
    <3>1. CASE Rest(p)
      BY <2>1, <2>3, <3>1, RestTyped DEF RestTypes, AfterStore, answers
    <3>2. CASE /\ pc' = [pc EXCEPT ![p] = UpsertOrder[IF i < 3 THEN i + 1 ELSE 3]]
               /\ todo' = [todo EXCEPT ![p] = IF i < 3 THEN todo[p] ELSE todo[p] \ {g}]
               /\ UNCHANGED <<job, listed, answers>>
      <4> DEFINE next == UpsertOrder[IF i < 3 THEN i + 1 ELSE 3]
                 visits == IF i < 3 THEN todo[p] ELSE todo[p] \ {g}
      <4>1. next \in Storing /\ visits \subseteq job[p].record.granted_groups
        BY <2>2, Order
      <4>2. LocalTyped(next, job[p], visits)
        BY <2>2, <4>1 DEF LocalTyped, Storing, PCs, Job
      <4> HIDE DEF next, visits
      <4>3. pc' = [pc EXCEPT ![p] = next] /\ todo' = [todo EXCEPT ![p] = visits]
        BY <3>2 DEF next, visits
      <4>4. LocalTypes'
        BY <3>2, <4>2, <4>3 DEF LocalTypes, LocalTyped
      <4> QED
        BY <3>2, <4>4 DEF RestTypes, answers
    <3> QED
      BY <2>1, <3>1, <3>2 DEF AfterStore
  <2> QED
    BY <2>2, <2>4, <2>5 DEF RestTypes
<1>7. ASSUME NEW p \in Processes, Decide(p)
      PROVE  Types'
  <2>1. job[p] \in Deciding
    BY <1>7 DEF Decide, LocalTypes, LocalTyped
  <2>2. answer' \in Answer
    BY <1>7, <2>1 DEF Decide, Answer, Allows
  <2> QED
    BY <1>7, <2>2, RestTyped DEF Decide, StoreTypes, RestTypes, store, answers
<1>8. ASSUME NEW p \in Processes, ListKeys(p)
      PROVE  Types'
  <2> DEFINE keys == {t \in TokenIds : userIndex[t] # None /\ userIndex[t].owner_sub = job[p].owner}
  <2>1. job[p] \in Listing
    BY <1>8 DEF ListKeys, LocalTypes, LocalTyped
  <2>2. CASE Rest(p) /\ answer' = [job |-> job[p], records |-> {}]
    BY <1>8, <2>1, <2>2, RestTyped DEF ListKeys, StoreTypes, RestTypes, store, answers, Answer
  <2>3. CASE TurnTo(p, "get", job[p], keys) /\ answer' = None
    <3>1. LocalTyped("get", job[p], keys)
      BY <2>1 DEF LocalTyped, Storing, PCs, Job
    <3> HIDE DEF keys
    <3>2. LocalTypes'
      BY <2>3, <3>1, TurnedTyped
    <3> QED
      BY <1>8, <2>3, <3>2 DEF ListKeys, StoreTypes, RestTypes, store, answers
  <2> QED
    BY <1>8, <2>2, <2>3 DEF ListKeys
<1>9. ASSUME NEW p \in Processes, NEW t \in TokenIds, ReadListed(p, t)
      PROVE  Types'
  <2> DEFINE read == listed[p] \cup
               (IF tokens[t] = None THEN {} ELSE {[token |-> t, record |-> tokens[t]]})
  <2>1. job[p] \in Listing /\ pc[p] = "get" /\ todo[p] \subseteq TokenIds
    BY <1>9 DEF ReadListed, LocalTypes, LocalTyped
  <2>2. read \subseteq [token : TokenIds, record : IssuedTokenRecord]
    BY DEF LocalTypes, StoreTypes
  <2> HIDE DEF read
  <2>3. CASE Rest(p) /\ answer' = [job |-> job[p], records |-> read]
    BY <1>9, <2>1, <2>2, <2>3, RestTyped
    DEF ReadListed, StoreTypes, RestTypes, store, answers, Answer
  <2>4. CASE /\ todo' = [todo EXCEPT ![p] = todo[p] \ {t}]
             /\ listed' = [listed EXCEPT ![p] = read]
             /\ answer' = None /\ UNCHANGED <<pc, job>>
    <3>1. LocalTypes'
      BY <2>1, <2>2, <2>4 DEF LocalTypes, LocalTyped, Storing
    <3> QED
      BY <1>9, <2>4, <3>1 DEF ReadListed, StoreTypes, RestTypes, store, answers
  <2> QED
    BY <1>9, <2>3, <2>4 DEF ReadListed, read
<1>10. ASSUME NEW p \in Processes, Abandon(p)
       PROVE  Types'
  BY <1>10, RestTyped DEF Abandon, StoreTypes, RestTypes, store, answers
<1>11. ASSUME NEW l \in LateSlots, ArriveLate(l)
       PROVE  Types'
  <2>1. late[l] \in Write
    BY <1>11 DEF ArriveLate, StoreTypes
  <2>2. StoreTypes'
    BY <1>11, <2>1, WriteTyped DEF ArriveLate, StoreTypes, store
  <2> QED
    BY <1>11, <2>2 DEF ArriveLate, LocalTypes, RestTypes, local, answers
<1>12. CASE Tick
  BY <1>12 DEF Tick, LocalTypes, StoreTypes, RestTypes, store, local, answers
<1>13. CASE UNCHANGED vars
  BY <1>13 DEF vars, LocalTypes, StoreTypes, RestTypes, store, local, answers
<1> QED
  BY <1>1, <1>2, <1>3, <1>4, <1>5, <1>6, <1>7, <1>8, <1>9, <1>10, <1>11, <1>12, <1>13
  DEF Next, Handler

THEOREM TypesInvariant == Spec => []Types
  BY TypesInit, TypesStep, PTL DEF Spec

\* Every variable holds values of its kind, in every process.
THEOREM TokensTypeCorrect == Spec => []TypeOK
<1>1. Types => TypeOK
  BY TypeParts DEF Types
<1> QED
  BY <1>1, TypesInvariant, PTL

-------------------------------------------------------------------------------
(***************************************************************************)
(* The inductive invariant.  Before the record of a token is written, the  *)
(* write of its mint is the only thing under way; from then on only        *)
(* revocations write the record, and no index entry is ahead of it.        *)
(***************************************************************************)
Upserts(p, t) == pc[p] \in Storing /\ job[p].token = t
IsLate(l, t) == late[l] # None /\ late[l].token = t

SameToken(r, s) ==
  /\ r.owner_sub = s.owner_sub /\ r.granted_groups = s.granted_groups
  /\ r.expires_at = s.expires_at

\* A pending write of `record` (of the record itself when `recording`, else of
\* an index entry) is no harm to the one that is stored
Behind(record, recording, stored) ==
  /\ SameToken(record, stored)
  /\ recording => record.status = "revoked"
  /\ (record.status = "revoked" /\ ~recording) => stored.status = "revoked"

Fits(entry, stored) ==
  entry # None => /\ entry.owner_sub = stored.owner_sub
                  /\ entry.status = "revoked" => stored.status = "revoked"

Unrecorded(t) ==
  /\ userIndex[t] = None /\ \A g \in GroupNames : groupIndex[t][g] = None
  /\ \A p \in Processes : Upserts(p, t) => pc[p] = "record" /\ job[p].record.status = "active"
  /\ \A l \in LateSlots : IsLate(l, t) => late[l].to = "record" /\ late[l].record.status = "active"
  /\ \A p, q \in Processes : Upserts(p, t) /\ Upserts(q, t) => p = q
  /\ \A l, k \in LateSlots : IsLate(l, t) /\ IsLate(k, t) => l = k
  /\ \A p \in Processes, l \in LateSlots : ~(Upserts(p, t) /\ IsLate(l, t))

Recorded(t) ==
  /\ Fits(userIndex[t], tokens[t]) /\ \A g \in GroupNames : Fits(groupIndex[t][g], tokens[t])
  /\ \A p \in Processes : Upserts(p, t) => Behind(job[p].record, pc[p] = "record", tokens[t])
  /\ \A l \in LateSlots : IsLate(l, t) => Behind(late[l].record, late[l].to = "record", tokens[t])

TokenSound(t) ==
  /\ t \notin drawn => /\ tokens[t] = None
                       /\ \A p \in Processes : ~Upserts(p, t)
                       /\ \A l \in LateSlots : ~IsLate(l, t)
  /\ tokens[t] = None => Unrecorded(t)
  /\ tokens[t] # None => Recorded(t)

\* How far an upsert has come
JobSound(p) ==
  pc[p] \in Storing =>
    LET j == job[p]
    IN /\ j.op = "revoke" <=> j.record.status = "revoked"
       /\ pc[p] # "group" => todo[p] = j.record.granted_groups
       /\ pc[p] = "group" => /\ userIndex[j.token] # None
                             /\ \A g \in j.record.granted_groups \ todo[p] :
                                  groupIndex[j.token][g] # None

TokensInv ==
  /\ Types
  /\ \A t \in TokenIds : TokenSound(t)
  /\ \A p \in Processes : JobSound(p)
  /\ AnsweredChangesStand

LEMMA TokensInit == Init => TokensInv
<1> SUFFICES ASSUME Init PROVE TokensInv
  OBVIOUS
<1>1. Types
  BY TypesInit
<1>2. \A t \in TokenIds : TokenSound(t)
  BY DEF Init, TokenSound, Unrecorded, Upserts, IsLate, Storing
<1>3. (\A p \in Processes : JobSound(p)) /\ AnsweredChangesStand
  BY DEF Init, JobSound, AnsweredChangesStand, Storing
<1> QED
  BY <1>1, <1>2, <1>3 DEF TokensInv

\* Nothing new is under way for a token.
LEMMA Untouched ==
  ASSUME NEW t \in TokenIds, TokenSound(t),
         tokens'[t] = tokens[t], userIndex'[t] = userIndex[t], groupIndex'[t] = groupIndex[t],
         t \in drawn => t \in drawn',
         \A p \in Processes : Upserts(p, t)' =>
           /\ Upserts(p, t) /\ job'[p] = job[p]
           /\ pc'[p] = "record" <=> pc[p] = "record",
         \A l \in LateSlots : IsLate(l, t)' => IsLate(l, t) /\ late'[l] = late[l]
  PROVE  TokenSound(t)'
<1>1. CASE tokens[t] = None
  <2>1. Unrecorded(t)
    BY <1>1 DEF TokenSound
  <2>2. Unrecorded(t)'
    BY <2>1 DEF Unrecorded
  <2> QED
    BY <1>1, <2>2 DEF TokenSound
<1>2. CASE tokens[t] # None
  <2>1. Recorded(t) /\ t \in drawn
    BY <1>2 DEF TokenSound
  <2>2. Recorded(t)'
    BY <2>1 DEF Recorded
  <2> QED
    BY <1>2, <2>1, <2>2 DEF TokenSound
<1> QED
  BY <1>1, <1>2

\* A write that is due: the mint's, or one behind the stored record
Due(w) ==
  IF tokens[w.token] = None
    THEN w.to = "record" /\ w.record.status = "active"
    ELSE Behind(w.record, w.to = "record", tokens[w.token])

\* What the application of a due write does.
LEMMA DueApplied ==
  ASSUME Types, NEW STATE w, w \in Write, TokenSound(w.token), Due(w), ApplyWrite(w)
  PROVE  LET t == w.token
         IN /\ t \in TokenIds /\ tokens'[t] # None
            /\ Behind(w.record, FALSE, tokens'[t])
            /\ Fits(userIndex'[t], tokens'[t])
            /\ \A g \in GroupNames : Fits(groupIndex'[t][g], tokens'[t])
            /\ tokens[t] # None =>
                 /\ SameToken(tokens[t], tokens'[t])
                 /\ tokens[t].status = "revoked" => tokens'[t].status = "revoked"
            /\ \A u \in TokenIds : u # t => /\ tokens'[u] = tokens[u]
                                          /\ userIndex'[u] = userIndex[u]
                                          /\ groupIndex'[u] = groupIndex[u]
            /\ userIndex[t] # None \/ w.to = "user" => userIndex'[t] # None
            /\ \A g \in GroupNames : groupIndex[t][g] # None \/ (w.to = "group" /\ w.group = g) =>
                 groupIndex'[t][g] # None
<1> DEFINE t == w.token
<1>1. /\ w.to \in Storing /\ t \in TokenIds /\ w.record \in IssuedTokenRecord
      /\ EntryOf(w.record) \in Entry
      /\ w.record.status \in Status /\ w.record # None /\ EntryOf(w.record) # None
  BY WriteCases, NoneAssumption, NoEntryAssumption DEF IssuedTokenRecord
<1>2. /\ EntryOf(w.record).owner_sub = w.record.owner_sub
      /\ EntryOf(w.record).status = w.record.status
  BY DEF EntryOf
<1>3. /\ DOMAIN tokens = TokenIds /\ DOMAIN userIndex = TokenIds /\ DOMAIN groupIndex = TokenIds
      /\ DOMAIN groupIndex[t] = GroupNames
  BY <1>1 DEF Types, StoreTypes
<1> HIDE DEF t
<1>4. CASE w.to = "record"
  <2>1. tokens' = [tokens EXCEPT ![t] = w.record] /\ UNCHANGED <<userIndex, groupIndex>>
    BY <1>4, WriteCases DEF t
  <2>2. tokens'[t] = w.record
    BY <1>1, <1>3, <2>1
  <2>3. /\ userIndex'[t] = userIndex[t] /\ \A g \in GroupNames : groupIndex'[t][g] = groupIndex[t][g]
        /\ \A u \in TokenIds : u # t => /\ tokens'[u] = tokens[u]
                                      /\ userIndex'[u] = userIndex[u]
                                      /\ groupIndex'[u] = groupIndex[u]
    BY <1>1, <1>3, <2>1
  <2>4. /\ Behind(w.record, FALSE, w.record)
        /\ Fits(userIndex[t], w.record) /\ \A g \in GroupNames : Fits(groupIndex[t][g], w.record)
        /\ tokens[t] # None =>
             /\ SameToken(tokens[t], w.record)
             /\ tokens[t].status = "revoked" => w.record.status = "revoked"
    <3>1. Behind(w.record, FALSE, w.record)
      BY DEF Behind, SameToken
    <3>2. CASE tokens[t] = None
      <4>1. userIndex[t] = None /\ \A g \in GroupNames : groupIndex[t][g] = None
        BY <1>1, <3>2 DEF TokenSound, Unrecorded, t
      <4> QED
        BY <3>1, <3>2, <4>1 DEF Fits
    <3>3. CASE tokens[t] # None
      <4>1. Behind(w.record, TRUE, tokens[t])
        BY <1>4, <3>3 DEF Due, t
      <4>2. Fits(userIndex[t], tokens[t]) /\ \A g \in GroupNames : Fits(groupIndex[t][g], tokens[t])
        BY <1>1, <3>3 DEF TokenSound, Recorded, t
      <4>3. SameToken(w.record, tokens[t]) /\ w.record.status = "revoked"
        BY <4>1 DEF Behind
      <4> QED
        BY <3>1, <3>3, <4>2, <4>3 DEF Fits, SameToken
    <3> QED
      BY <3>2, <3>3
  <2>5. /\ Fits(userIndex'[t], tokens'[t])
        /\ \A g \in GroupNames : Fits(groupIndex'[t][g], tokens'[t])
    BY <2>2, <2>3, <2>4
  <2> QED
    BY <1>1, <1>4, <2>2, <2>3, <2>4, <2>5 DEF t
<1>5. CASE w.to = "user"
  <2>1. userIndex' = [userIndex EXCEPT ![t] = EntryOf(w.record)] /\ UNCHANGED <<tokens, groupIndex>>
    BY <1>5, WriteCases DEF t
  <2>2. tokens[t] # None /\ Recorded(t) /\ Behind(w.record, FALSE, tokens[t])
    BY <1>1, <1>5 DEF TokenSound, Due, t
  <2>3. userIndex'[t] = EntryOf(w.record) /\ Fits(userIndex'[t], tokens[t])
    BY <1>1, <1>2, <1>3, <2>1, <2>2 DEF Fits, Behind, SameToken
  <2> QED
    BY <1>1, <1>3, <1>5, <2>1, <2>2, <2>3 DEF Recorded, SameToken, t
<1>6. CASE w.to = "group"
  <2>1. /\ groupIndex' = [groupIndex EXCEPT ![t][w.group] = EntryOf(w.record)]
        /\ UNCHANGED <<tokens, userIndex>>
    BY <1>6, WriteCases DEF t
  <2>2. tokens[t] # None /\ Recorded(t) /\ Behind(w.record, FALSE, tokens[t])
    BY <1>1, <1>6 DEF TokenSound, Due, t
  <2>3. /\ \A g \in GroupNames : groupIndex'[t][g] =
             IF g = w.group THEN EntryOf(w.record) ELSE groupIndex[t][g]
        /\ \A u \in TokenIds : u # t => groupIndex'[u] = groupIndex[u]
    BY <1>1, <1>3, <2>1
  <2>4. \A g \in GroupNames : Fits(groupIndex'[t][g], tokens[t])
    BY <1>2, <2>2, <2>3 DEF Recorded, Fits, Behind, SameToken
  <2> QED
    BY <1>1, <1>6, <2>1, <2>2, <2>3, <2>4 DEF Recorded, SameToken, t
<1> QED
  BY <1>1, <1>4, <1>5, <1>6 DEF Storing

\* What was behind a record is behind the one that replaces it.
LEMMA StaysBehind ==
  ASSUME NEW record, NEW recording \in BOOLEAN, NEW stored, NEW stored2,
         Behind(record, recording, stored), SameToken(stored, stored2),
         stored.status = "revoked" => stored2.status = "revoked"
  PROVE  Behind(record, recording, stored2)
  BY DEF Behind, SameToken

\* What TurnTo does to each process.
LEMMA Turned ==
  ASSUME Types, NEW p \in Processes, NEW STATE next, NEW STATE j, NEW STATE visits,
         TurnTo(p, next, j, visits)
  PROVE  /\ pc'[p] = next /\ job'[p] = j /\ todo'[p] = visits /\ listed'[p] = {}
         /\ \A q \in Processes : q # p => /\ pc'[q] = pc[q] /\ job'[q] = job[q]
                                          /\ todo'[q] = todo[q] /\ listed'[q] = listed[q]
  BY DEF TurnTo, Types, LocalTypes

LEMMA Rested ==
  ASSUME Types, NEW p \in Processes, Rest(p)
  PROVE  /\ pc'[p] = "idle"
         /\ \A q \in Processes : q # p => /\ pc'[q] = pc[q] /\ job'[q] = job[q]
                                          /\ todo'[q] = todo[q] /\ listed'[q] = listed[q]
  BY Turned DEF Rest

\* No step unwrites a document, or changes a record but by its revocation.
Grows ==
  \A t \in TokenIds :
    /\ tokens[t] # None =>
         /\ tokens'[t] # None
         /\ SameToken(tokens[t], tokens'[t])
         /\ tokens[t].status = "revoked" => tokens'[t].status = "revoked"
    /\ userIndex[t] # None => userIndex'[t] # None
    /\ \A g \in GroupNames : groupIndex[t][g] # None => groupIndex'[t][g] # None

LEMMA UnchangedGrows == UNCHANGED store => Grows
  BY DEF store, Grows, SameToken

LEMMA DueGrows ==
  ASSUME Types, NEW STATE w, w \in Write, TokenSound(w.token), Due(w), ApplyWrite(w)
  PROVE  Grows
<1>1. /\ w.token \in TokenIds /\ tokens'[w.token] # None
      /\ tokens[w.token] # None =>
           /\ SameToken(tokens[w.token], tokens'[w.token])
           /\ tokens[w.token].status = "revoked" => tokens'[w.token].status = "revoked"
      /\ userIndex[w.token] # None => userIndex'[w.token] # None
      /\ \A g \in GroupNames : groupIndex[w.token][g] # None => groupIndex'[w.token][g] # None
      /\ \A u \in TokenIds : u # w.token => /\ tokens'[u] = tokens[u]
                                          /\ userIndex'[u] = userIndex[u]
                                          /\ groupIndex'[u] = groupIndex[u]
  BY DueApplied
<1>2. ASSUME NEW u \in TokenIds, u # w.token
      PROVE  SameToken(tokens[u], tokens'[u])
  BY <1>1, <1>2 DEF SameToken
<1> QED
  BY <1>1, <1>2 DEF Grows

LEMMA JobKept ==
  ASSUME Types, Grows, NEW p \in Processes, JobSound(p),
         pc'[p] \in Storing => pc'[p] = pc[p] /\ job'[p] = job[p] /\ todo'[p] = todo[p]
  PROVE  JobSound(p)'
<1>1. CASE pc'[p] \in Storing
  <2>1. job[p].token \in TokenIds /\ job[p].record.granted_groups \subseteq GroupNames
    BY <1>1 DEF Types, LocalTypes, LocalTyped, Upserting, IssuedTokenRecord
  <2> QED
    BY <1>1, <2>1 DEF JobSound, Grows
<1> QED
  BY <1>1 DEF JobSound

LEMMA AnsweredKept ==
  ASSUME Types, Grows, AnsweredChangesStand, NEW t \in TokenIds
  PROVE  /\ t \in answeredMints =>
              /\ tokens'[t] # None /\ userIndex'[t] # None
              /\ \A g \in tokens'[t].granted_groups : groupIndex'[t][g] # None
         /\ t \in answeredRevokes => tokens'[t] # None /\ tokens'[t].status = "revoked"
<1>1. t \in answeredMints =>
        /\ tokens[t] # None /\ userIndex[t] # None
        /\ \A g \in tokens[t].granted_groups : groupIndex[t][g] # None
        /\ tokens[t].granted_groups \subseteq GroupNames
  BY DEF AnsweredChangesStand, Types, StoreTypes, IssuedTokenRecord
<1>2. t \in answeredRevokes => tokens[t] # None /\ tokens[t].status = "revoked"
  BY DEF AnsweredChangesStand
<1> QED
  BY <1>1, <1>2 DEF Grows, SameToken

\* Steps that begin, end or read.
LEMMA QuietStep ==
  ASSUME TokensInv, Types', UNCHANGED <<store, late, drawn, answers>>,
         \A p \in Processes :
           pc'[p] \in Storing => pc'[p] = pc[p] /\ job'[p] = job[p] /\ todo'[p] = todo[p]
  PROVE  TokensInv'
<1>1. Types /\ Grows
  BY UnchangedGrows DEF TokensInv
<1>2. ASSUME NEW t \in TokenIds PROVE TokenSound(t)'
  <2>1. TokenSound(t)
    BY DEF TokensInv
  <2>2. \A p \in Processes : Upserts(p, t)' =>
           /\ Upserts(p, t) /\ job'[p] = job[p]
           /\ pc'[p] = "record" <=> pc[p] = "record"
    BY DEF Upserts
  <2>3. \A l \in LateSlots : IsLate(l, t)' => IsLate(l, t) /\ late'[l] = late[l]
    BY DEF IsLate
  <2> QED
    BY <2>1, <2>2, <2>3, Untouched DEF store
<1>3. ASSUME NEW p \in Processes PROVE JobSound(p)'
  BY <1>1, <1>3, JobKept DEF TokensInv
<1>4. AnsweredChangesStand'
  BY DEF TokensInv, AnsweredChangesStand, store, answers
<1> QED
  BY <1>2, <1>3, <1>4 DEF TokensInv

\* The token of a due write is sound when the write is applied.
LEMMA AppliedSound ==
  ASSUME Types, NEW t \in TokenIds, NEW STATE w, w \in Write, w.token = t,
         TokenSound(t), Due(w), ApplyWrite(w), t \in drawn',
         \A p \in Processes : Upserts(p, t)' =>
           \/ /\ tokens[t] # None /\ Upserts(p, t) /\ job'[p] = job[p]
              /\ pc'[p] = "record" <=> pc[p] = "record"
           \/ pc'[p] # "record" /\ job'[p].record = w.record,
         \A l \in LateSlots : IsLate(l, t)' =>
           tokens[t] # None /\ IsLate(l, t) /\ late'[l] = late[l]
  PROVE  TokenSound(t)'
<1>1. /\ tokens'[t] # None
      /\ Behind(w.record, FALSE, tokens'[t])
      /\ Fits(userIndex'[t], tokens'[t])
      /\ \A g \in GroupNames : Fits(groupIndex'[t][g], tokens'[t])
      /\ tokens[t] # None =>
           /\ SameToken(tokens[t], tokens'[t])
           /\ tokens[t].status = "revoked" => tokens'[t].status = "revoked"
  BY DueApplied
<1>2. tokens[t] # None => Recorded(t)
  BY DEF TokenSound
<1>3. ASSUME NEW p \in Processes, Upserts(p, t)'
      PROVE  Behind(job'[p].record, pc'[p] = "record", tokens'[t])
  <2>1. CASE /\ tokens[t] # None /\ Upserts(p, t) /\ job'[p] = job[p]
             /\ pc'[p] = "record" <=> pc[p] = "record"
    <3>1. Behind(job[p].record, pc[p] = "record", tokens[t])
      BY <1>2, <2>1 DEF Recorded
    <3>2. Behind(job[p].record, pc[p] = "record", tokens'[t])
      BY <1>1, <2>1, <3>1, StaysBehind
    <3> QED
      BY <2>1, <3>2 DEF Behind
  <2>2. CASE pc'[p] # "record" /\ job'[p].record = w.record
    BY <1>1, <2>2 DEF Behind
  <2> QED
    BY <1>3, <2>1, <2>2
<1>4. ASSUME NEW l \in LateSlots, IsLate(l, t)'
      PROVE  Behind(late'[l].record, late'[l].to = "record", tokens'[t])
  <2>1. tokens[t] # None /\ IsLate(l, t) /\ late'[l] = late[l]
    BY <1>4
  <2>2. Behind(late[l].record, late[l].to = "record", tokens[t])
    BY <1>2, <2>1 DEF Recorded
  <2>3. Behind(late[l].record, late[l].to = "record", tokens'[t])
    BY <1>1, <2>1, <2>2, StaysBehind
  <2> QED
    BY <2>1, <2>3
<1>5. Recorded(t)'
  BY <1>1, <1>3, <1>4 DEF Recorded
<1> QED
  BY <1>1, <1>5 DEF TokenSound

\* A step that writes no document changes no token but the one it is about.
LEMMA OthersUntouched ==
  ASSUME Types, NEW t \in TokenIds, NEW u \in TokenIds, u # t, TokenSound(u),
         tokens'[u] = tokens[u], userIndex'[u] = userIndex[u], groupIndex'[u] = groupIndex[u],
         drawn \subseteq drawn', NEW p \in Processes,
         pc'[p] \in Storing => job'[p].token = t,
         \A q \in Processes : q # p => pc'[q] = pc[q] /\ job'[q] = job[q],
         \A l \in LateSlots : late'[l] = late[l] \/ late'[l].token = t
  PROVE  TokenSound(u)'
<1>1. \A q \in Processes : Upserts(q, u)' =>
        /\ Upserts(q, u) /\ job'[q] = job[q]
        /\ pc'[q] = "record" <=> pc[q] = "record"
  BY DEF Upserts
<1>2. \A l \in LateSlots : IsLate(l, u)' => IsLate(l, u) /\ late'[l] = late[l]
  BY DEF IsLate
<1> QED
  BY <1>1, <1>2, Untouched

LEMMA MintStep ==
  ASSUME TokensInv, Types', NEW p \in Processes, NEW actor \in Subs, NEW req \in MintRequests,
         Mint(p, actor, req)
  PROVE  TokensInv'
<1>1. PICK t \in FreshTokenIds :
        /\ TurnTo(p, UpsertOrder[1],
                  [op |-> "mint", token |-> t, record |-> NewToken(req, actor)], req.groups)
        /\ drawn' = drawn \cup {t}
  BY DEF Mint
<1> DEFINE j == [op |-> "mint", token |-> t, record |-> NewToken(req, actor)]
<1>2. /\ j.op = "mint" /\ j.token = t /\ j.record.status = "active"
      /\ j.record.granted_groups = req.groups /\ t \in TokenIds \ drawn
  BY DEF NewToken, FreshTokenIds
<1> HIDE DEF j
<1>3. /\ pc'[p] = "record" /\ job'[p] = j /\ todo'[p] = req.groups
      /\ \A q \in Processes : q # p => pc'[q] = pc[q] /\ job'[q] = job[q] /\ todo'[q] = todo[q]
  BY <1>1, Order, Turned DEF TokensInv, j
<1>4. /\ UNCHANGED <<store, late, answers>> /\ Types
      /\ UNCHANGED <<tokens, userIndex, groupIndex>>
  BY DEF Mint, TokensInv, store
<1>5. TokenSound(t)'
  <2>1. /\ tokens[t] = None /\ \A q \in Processes : ~Upserts(q, t)
        /\ \A l \in LateSlots : ~IsLate(l, t)
        /\ Unrecorded(t)
    BY <1>2 DEF TokensInv, TokenSound
  <2>2. /\ \A q \in Processes : Upserts(q, t)' => q = p
        /\ \A l \in LateSlots : ~IsLate(l, t)'
    BY <1>3, <1>4, <2>1 DEF Upserts, IsLate
  <2>3. Unrecorded(t)'
    BY <1>2, <1>3, <1>4, <2>1, <2>2 DEF Unrecorded
  <2> QED
    BY <1>1, <1>4, <2>1, <2>3 DEF TokenSound
<1>6. ASSUME NEW u \in TokenIds, u # t PROVE TokenSound(u)'
  BY <1>1, <1>2, <1>3, <1>4, <1>6, OthersUntouched DEF TokensInv
<1>7. ASSUME NEW q \in Processes PROVE JobSound(q)'
  <2>1. CASE q = p
    BY <1>2, <1>3, <2>1 DEF JobSound
  <2>2. CASE q # p
    BY <1>3, <1>4, <2>2, UnchangedGrows, JobKept DEF TokensInv
  <2> QED
    BY <2>1, <2>2
<1>8. AnsweredChangesStand'
  BY <1>4 DEF TokensInv, AnsweredChangesStand, answers
<1> QED
  BY <1>5, <1>6, <1>7, <1>8 DEF TokensInv

LEMMA FindStep ==
  ASSUME TokensInv, Types', NEW p \in Processes, Find(p)
  PROVE  TokensInv'
<1> DEFINE t == job[p].token
           j == [op |-> "revoke", token |-> t, record |-> RevokedToken(tokens[t])]
<1>1. /\ UNCHANGED <<store, late, drawn, answeredMints>> /\ Types
      /\ UNCHANGED <<tokens, userIndex, groupIndex>>
  BY DEF Find, TokensInv, store
<1>2. /\ t \in TokenIds /\ tokens[t] # None /\ tokens[t] \in IssuedTokenRecord
  BY <1>1 DEF Find, Types, LocalTypes, LocalTyped, Revoking, StoreTypes
<1>3. CASE tokens[t].status = "revoked"
  <2>1. Rest(p) /\ answeredRevokes' = answeredRevokes \cup {t}
    BY <1>3 DEF Find
  <2>2. /\ pc'[p] = "idle"
        /\ \A q \in Processes : q # p => pc'[q] = pc[q] /\ job'[q] = job[q] /\ todo'[q] = todo[q]
    BY <1>1, <2>1, Rested
  <2> HIDE DEF t
  <2>3. ASSUME NEW u \in TokenIds PROVE TokenSound(u)'
    <3>1. \A q \in Processes : Upserts(q, u)' =>
            /\ Upserts(q, u) /\ job'[q] = job[q]
            /\ pc'[q] = "record" <=> pc[q] = "record"
      BY <2>2 DEF Upserts, Storing
    <3>2. \A l \in LateSlots : IsLate(l, u)' => IsLate(l, u) /\ late'[l] = late[l]
      BY <1>1 DEF IsLate
    <3> QED
      BY <1>1, <3>1, <3>2, Untouched DEF TokensInv
  <2>4. ASSUME NEW q \in Processes PROVE JobSound(q)'
    BY <1>1, <2>2, UnchangedGrows, JobKept DEF TokensInv, Storing
  <2>5. AnsweredChangesStand'
    BY <1>1, <1>2, <1>3, <2>1 DEF TokensInv, AnsweredChangesStand
  <2> QED
    BY <2>3, <2>4, <2>5 DEF TokensInv
<1>4. CASE tokens[t].status # "revoked"
  <2>1. TurnTo(p, UpsertOrder[1], j, tokens[t].granted_groups) /\ UNCHANGED answeredRevokes
    BY <1>4 DEF Find
  <2>2. /\ j.op = "revoke" /\ j.token = t /\ j.record.status = "revoked"
        /\ j.record.granted_groups = tokens[t].granted_groups
        /\ SameToken(j.record, tokens[t])
    BY <1>2 DEF RevokedToken, SameToken, IssuedTokenRecord
  <2> HIDE DEF j
  <2>3. /\ pc'[p] = "record" /\ job'[p] = j /\ todo'[p] = tokens[t].granted_groups
        /\ \A q \in Processes : q # p => pc'[q] = pc[q] /\ job'[q] = job[q] /\ todo'[q] = todo[q]
    BY <1>1, <2>1, Order, Turned
  <2> HIDE DEF t
  <2>4. PICK c \in TokenIds : c = t
    BY <1>2
  <2>5. TokenSound(c)'
    <3>1. TokenSound(c) /\ Recorded(c) /\ c \in drawn
      BY <1>2, <2>4 DEF TokensInv, TokenSound
    <3>2. ASSUME NEW q \in Processes, Upserts(q, c)'
          PROVE  Behind(job'[q].record, pc'[q] = "record", tokens'[c])
      <4>1. CASE q = p
        BY <1>1, <2>2, <2>3, <2>4, <4>1 DEF Behind
      <4>2. CASE q # p
        BY <1>1, <2>3, <3>1, <3>2, <4>2 DEF Recorded, Upserts
      <4> QED
        BY <4>1, <4>2
    <3>3. \A l \in LateSlots : IsLate(l, c)' =>
            Behind(late'[l].record, late'[l].to = "record", tokens'[c])
      BY <1>1, <3>1 DEF Recorded, IsLate
    <3>4. Recorded(c)'
      BY <1>1, <3>1, <3>2, <3>3 DEF Recorded
    <3> QED
      BY <1>1, <1>2, <2>4, <3>1, <3>4 DEF TokenSound
  <2>6. ASSUME NEW u \in TokenIds, u # c PROVE TokenSound(u)'
    BY <1>1, <2>2, <2>3, <2>4, <2>6, OthersUntouched DEF TokensInv
  <2>7. ASSUME NEW q \in Processes PROVE JobSound(q)'
    <3>1. CASE q = p
      BY <2>2, <2>3, <3>1 DEF JobSound
    <3>2. CASE q # p
      BY <1>1, <2>3, <3>2, UnchangedGrows, JobKept DEF TokensInv
    <3> QED
      BY <3>1, <3>2
  <2>8. AnsweredChangesStand'
    BY <1>1, <2>1 DEF TokensInv, AnsweredChangesStand
  <2> QED
    BY <2>5, <2>6, <2>7, <2>8 DEF TokensInv
<1> QED
  BY <1>3, <1>4

\* The next write of an upsert is due.
WriteOf(p, i, g) ==
  [to |-> UpsertOrder[i], group |-> g, token |-> job[p].token, record |-> job[p].record]

StoreReady(p, i, g) ==
  /\ pc[p] = UpsertOrder[i]
  /\ IF UpsertOrder[i] = "group" THEN g \in todo[p] ELSE g = None

LEMMA NextWriteDue ==
  ASSUME TokensInv, NEW p \in Processes, NEW i \in 1..3, NEW g \in GroupNames \cup {None},
         StoreReady(p, i, g)
  PROVE  LET w == WriteOf(p, i, g)
         IN /\ w \in Write /\ w.token \in TokenIds /\ w.token = job[p].token
            /\ w.record = job[p].record /\ w.to = pc[p] /\ w.group = g
            /\ Upserts(p, w.token) /\ w.token \in drawn
            /\ TokenSound(w.token) /\ Due(w) /\ job[p] \in Upserting
            /\ todo[p] \subseteq job[p].record.granted_groups
            /\ job[p].record.granted_groups \subseteq GroupNames
<1> DEFINE w == WriteOf(p, i, g)
           t == job[p].token
<1>1. /\ pc[p] = UpsertOrder[i] /\ pc[p] \in Storing
      /\ job[p] \in Upserting /\ todo[p] \subseteq job[p].record.granted_groups
  BY Order DEF StoreReady, TokensInv, Types, LocalTypes, LocalTyped
<1>2. /\ w.token = t /\ w.record = job[p].record /\ w.to = pc[p] /\ w.group = g
      /\ w \in Write /\ t \in TokenIds /\ job[p].record.granted_groups \subseteq GroupNames
  BY <1>1 DEF WriteOf, Write, Upserting, Storing, IssuedTokenRecord
<1>3. Upserts(p, t) /\ TokenSound(t)
  BY <1>1, <1>2 DEF Upserts, TokensInv
<1>4. t \in drawn
  BY <1>2, <1>3 DEF TokenSound
<1> HIDE DEF w
<1>5. Due(w)
  <2>1. CASE tokens[t] = None
    BY <1>2, <1>3, <2>1 DEF Due, TokenSound, Unrecorded
  <2>2. CASE tokens[t] # None
    BY <1>2, <1>3, <2>2 DEF Due, TokenSound, Recorded
  <2> QED
    BY <2>1, <2>2
<1> QED
  BY <1>1, <1>2, <1>3, <1>4, <1>5 DEF w

\* The call never reached Vault.
LEMMA StoreLost ==
  ASSUME TokensInv, Types', NEW p \in Processes, Rest(p), UNCHANGED <<store, late, drawn, answers>>
  PROVE  TokensInv'
<1>1. /\ pc'[p] = "idle"
      /\ \A q \in Processes : q # p => pc'[q] = pc[q] /\ job'[q] = job[q] /\ todo'[q] = todo[q]
  BY Rested DEF TokensInv
<1>2. \A q \in Processes :
        pc'[q] \in Storing => pc'[q] = pc[q] /\ job'[q] = job[q] /\ todo'[q] = todo[q]
  BY <1>1 DEF Storing
<1> QED
  BY <1>2, QuietStep

\* The caller gave up, and the write is on its way.
LEMMA StoreLater ==
  ASSUME TokensInv, Types', NEW p \in Processes, NEW i \in 1..3, NEW g \in GroupNames \cup {None},
         StoreReady(p, i, g), Rest(p), UNCHANGED <<store, drawn, answers>>,
         NEW l \in LateSlots, late[l] = None, late' = [late EXCEPT ![l] = WriteOf(p, i, g)]
  PROVE  TokensInv'
<1> DEFINE w == WriteOf(p, i, g)
<1>1. /\ w \in Write /\ w.token \in TokenIds /\ w.record = job[p].record /\ w.to = pc[p]
      /\ Upserts(p, w.token) /\ TokenSound(w.token) /\ Due(w) /\ w.token \in drawn
  BY NextWriteDue
<1>2. /\ pc'[p] = "idle"
      /\ \A q \in Processes : q # p => pc'[q] = pc[q] /\ job'[q] = job[q] /\ todo'[q] = todo[q]
  BY Rested DEF TokensInv
<1> HIDE DEF w
<1>4. late'[l] = w /\ \A k \in LateSlots : k # l => late'[k] = late[k]
  BY DEF TokensInv, Types, StoreTypes, w
<1>5. UNCHANGED <<tokens, userIndex, groupIndex>>
  BY DEF store
<1>6. PICK t \in TokenIds : t = w.token
  BY <1>1
<1>7. TokenSound(t)'
  <2>1. /\ \A q \in Processes : Upserts(q, t)' => q # p /\ Upserts(q, t) /\ job'[q] = job[q]
                                                 /\ pc'[q] = pc[q]
        /\ \A k \in LateSlots : IsLate(k, t)' => k = l \/ (IsLate(k, t) /\ late'[k] = late[k])
    BY <1>2, <1>4 DEF Upserts, IsLate, Storing
  <2>2. CASE tokens[t] = None
    <3>1. Unrecorded(t) /\ w.to = "record" /\ w.record.status = "active"
      BY <1>1, <1>6, <2>2 DEF TokenSound, Due
    <3>2. (\A q \in Processes : ~Upserts(q, t)') /\ \A k \in LateSlots : IsLate(k, t)' => k = l
      BY <1>1, <1>6, <2>1, <3>1 DEF Unrecorded
    <3>3. Unrecorded(t)'
      BY <1>4, <1>5, <3>1, <3>2 DEF Unrecorded
    <3> QED
      BY <1>1, <1>5, <1>6, <2>2, <3>3 DEF TokenSound
  <2>3. CASE tokens[t] # None
    <3>1. Recorded(t) /\ Behind(w.record, w.to = "record", tokens[t])
      BY <1>1, <1>6, <2>3 DEF TokenSound, Due
    <3>2. \A k \in LateSlots : IsLate(k, t)' =>
            Behind(late'[k].record, late'[k].to = "record", tokens'[t])
      BY <1>4, <1>5, <2>1, <3>1 DEF Recorded
    <3>3. \A q \in Processes : Upserts(q, t)' =>
            Behind(job'[q].record, pc'[q] = "record", tokens'[t])
      BY <1>5, <2>1, <3>1 DEF Recorded
    <3>4. Recorded(t)'
      BY <1>5, <3>1, <3>2, <3>3 DEF Recorded
    <3> QED
      BY <1>1, <1>5, <1>6, <2>3, <3>4 DEF TokenSound
  <2> QED
    BY <2>2, <2>3
<1>8. ASSUME NEW u \in TokenIds, u # t PROVE TokenSound(u)'
  BY <1>1, <1>2, <1>4, <1>5, <1>6, <1>8, OthersUntouched DEF TokensInv, Storing
<1>9. ASSUME NEW q \in Processes PROVE JobSound(q)'
  BY <1>2, UnchangedGrows, JobKept DEF TokensInv, Storing
<1>10. AnsweredChangesStand'
  BY <1>5 DEF TokensInv, AnsweredChangesStand, answers
<1> QED
  BY <1>7, <1>8, <1>9, <1>10 DEF TokensInv

\* The write was applied, and its caller goes on or fails.
LEMMA StoreNow ==
  ASSUME TokensInv, Types', NEW p \in Processes, NEW i \in 1..3, NEW g \in GroupNames \cup {None},
         StoreReady(p, i, g), ApplyWrite(WriteOf(p, i, g)), UNCHANGED <<late, drawn>>,
         AfterStore(p, i, g) \/ (Rest(p) /\ UNCHANGED answers)
  PROVE  TokensInv'
<1> DEFINE w == WriteOf(p, i, g)
           j == job[p]
<1>1. /\ w \in Write /\ w.token \in TokenIds /\ w.record = j.record /\ w.to = pc[p] /\ w.group = g
      /\ w.token = j.token
      /\ Upserts(p, w.token) /\ TokenSound(w.token) /\ Due(w) /\ w.token \in drawn
      /\ j \in Upserting /\ j.record.granted_groups \subseteq GroupNames
  BY NextWriteDue
<1>2. /\ pc[p] = UpsertOrder[i] /\ pc[p] \in Storing
      /\ IF pc[p] = "group" THEN g \in todo[p] ELSE g = None
  BY Order DEF StoreReady
<1> HIDE DEF w
<1>3. ApplyWrite(w) /\ Types
  BY DEF w, TokensInv
<1>4. Grows
  BY <1>1, <1>3, DueGrows
<1>5. PICK t \in TokenIds : t = w.token
  BY <1>1
<1>6. /\ tokens'[t] # None /\ Behind(w.record, FALSE, tokens'[t])
      /\ \A u \in TokenIds : u # t => /\ tokens'[u] = tokens[u]
                                    /\ userIndex'[u] = userIndex[u]
                                    /\ groupIndex'[u] = groupIndex[u]
      /\ w.to = "user" => userIndex'[t] # None
      /\ \A h \in GroupNames : groupIndex[t][h] # None \/ (w.to = "group" /\ h = g) =>
           groupIndex'[t][h] # None
  BY <1>1, <1>3, <1>5, DueApplied
\* where the process is now
<1>7. \/ /\ pc'[p] = "idle"
         /\ \/ UNCHANGED answers
            \/ /\ i = 3 /\ todo[p] = {g}
               /\ answeredMints' = IF j.op = "mint" THEN answeredMints \cup {j.token}
                                                   ELSE answeredMints
               /\ answeredRevokes' = IF j.op = "revoke" THEN answeredRevokes \cup {j.token}
                                                       ELSE answeredRevokes
      \/ /\ pc'[p] = UpsertOrder[IF i < 3 THEN i + 1 ELSE 3]
         /\ job'[p] = job[p]
         /\ todo'[p] = IF i < 3 THEN todo[p] ELSE todo[p] \ {g}
         /\ UNCHANGED answers
  BY <1>3, Rested DEF AfterStore, Types, LocalTypes
<1>8. \A q \in Processes : q # p => pc'[q] = pc[q] /\ job'[q] = job[q] /\ todo'[q] = todo[q]
  BY <1>3, Rested DEF AfterStore, Types, LocalTypes
<1> HIDE DEF j
<1>9. pc'[p] \in Storing => pc'[p] # "record" /\ job'[p] = job[p]
  BY <1>7, Order DEF Storing
<1>10. TokenSound(t)'
  <2>1. ASSUME NEW q \in Processes, Upserts(q, t)'
        PROVE  \/ /\ tokens[t] # None /\ Upserts(q, t) /\ job'[q] = job[q]
                  /\ pc'[q] = "record" <=> pc[q] = "record"
               \/ pc'[q] # "record" /\ job'[q].record = w.record
    <3>1. CASE q = p
      BY <1>1, <1>9, <2>1, <3>1 DEF Upserts, j
    <3>2. CASE q # p
      <4>1. Upserts(q, t) /\ job'[q] = job[q] /\ pc'[q] = pc[q]
        BY <1>8, <2>1, <3>2 DEF Upserts
      <4>2. tokens[t] # None
        BY <1>1, <1>5, <3>2, <4>1 DEF TokenSound, Unrecorded
      <4> QED
        BY <4>1, <4>2
    <3> QED
      BY <3>1, <3>2
  <2>2. ASSUME NEW l \in LateSlots, IsLate(l, t)'
        PROVE  tokens[t] # None /\ IsLate(l, t) /\ late'[l] = late[l]
    BY <1>1, <1>5, <2>2 DEF IsLate, TokenSound, Unrecorded
  <2>3. TokenSound(t) /\ t \in drawn'
    BY <1>1, <1>5
  <2> QED
    BY <1>1, <1>3, <1>5, <2>1, <2>2, <2>3, AppliedSound
<1>11. ASSUME NEW u \in TokenIds, u # t PROVE TokenSound(u)'
  BY <1>1, <1>5, <1>6, <1>8, <1>9, <1>11, OthersUntouched DEF TokensInv, j
<1>12. ASSUME NEW q \in Processes PROVE JobSound(q)'
  <2>1. CASE q # p \/ pc'[q] \notin Storing
    BY <1>3, <1>4, <1>8, <2>1, JobKept DEF TokensInv
  <2>2. CASE q = p /\ pc'[p] \in Storing
    <3>1. /\ job'[p] = job[p] /\ pc'[p] = UpsertOrder[IF i < 3 THEN i + 1 ELSE 3]
          /\ todo'[p] = IF i < 3 THEN todo[p] ELSE todo[p] \ {g}
      BY <1>7, <2>2 DEF Storing
    <3>2. JobSound(p) /\ j.token = t
      BY <1>1, <1>5 DEF TokensInv
    <3>3. /\ j.op = "revoke" <=> j.record.status = "revoked"
          /\ pc[p] # "group" => todo[p] = j.record.granted_groups
          /\ pc[p] = "group" => /\ userIndex[t] # None
                                /\ \A h \in j.record.granted_groups \ todo[p] :
                                     groupIndex[t][h] # None
      BY <1>2, <3>2 DEF JobSound, j
    <3>4. /\ pc'[p] # "group" => todo'[p] = j.record.granted_groups
          /\ pc'[p] = "group" => userIndex'[t] # None
      BY <1>1, <1>2, <1>4, <1>6, <3>1, <3>3, Order DEF Grows
    <3>5. pc'[p] = "group" => \A h \in j.record.granted_groups \ todo'[p] :
                                groupIndex'[t][h] # None
      <4>1. CASE i = 3
        BY <1>1, <1>2, <1>6, <3>1, <3>3, <4>1, Order
      <4>2. CASE i # 3
        BY <1>2, <3>1, <3>3, <4>2, Order
      <4> QED
        BY <4>1, <4>2
    <3> QED
      BY <2>2, <3>1, <3>2, <3>3, <3>4, <3>5 DEF JobSound, j
  <2> QED
    BY <2>1, <2>2
<1>13. AnsweredChangesStand'
  <2>1. ASSUME i = 3, todo[p] = {g}
        PROVE  /\ j.op = "mint" =>
                    /\ userIndex'[t] # None
                    /\ \A h \in tokens'[t].granted_groups : groupIndex'[t][h] # None
               /\ j.op = "revoke" => tokens'[t].status = "revoked"
    <3>1. JobSound(p) /\ pc[p] = "group" /\ j.token = t /\ w.to = "group"
      BY <1>1, <1>2, <1>5, <2>1, Order DEF TokensInv
    <3>2. /\ j.op = "revoke" <=> j.record.status = "revoked"
          /\ userIndex[t] # None
          /\ \A h \in j.record.granted_groups \ {g} : groupIndex[t][h] # None
      BY <2>1, <3>1, <1>2 DEF JobSound, j
    <3>3. tokens'[t].granted_groups = j.record.granted_groups
      BY <1>1, <1>6 DEF Behind, SameToken
    <3>4. \A h \in j.record.granted_groups : groupIndex'[t][h] # None
      BY <1>1, <1>6, <3>1, <3>2
    <3>5. userIndex'[t] # None
      BY <1>4, <3>2 DEF Grows
    <3>6. j.op = "revoke" => tokens'[t].status = "revoked"
      BY <1>1, <1>6, <3>2 DEF Behind
    <3> QED
      BY <3>3, <3>4, <3>5, <3>6
  <2>2. \A u \in TokenIds :
          /\ u \in answeredMints =>
               /\ tokens'[u] # None /\ userIndex'[u] # None
               /\ \A h \in tokens'[u].granted_groups : groupIndex'[u][h] # None
          /\ u \in answeredRevokes => tokens'[u] # None /\ tokens'[u].status = "revoked"
    BY <1>3, <1>4, AnsweredKept DEF TokensInv
  <2>3. /\ answeredMints' \subseteq TokenIds /\ answeredRevokes' \subseteq TokenIds
        /\ \/ UNCHANGED answers
           \/ /\ i = 3 /\ todo[p] = {g}
              /\ answeredMints' = IF j.op = "mint" THEN answeredMints \cup {t} ELSE answeredMints
              /\ answeredRevokes' = IF j.op = "revoke" THEN answeredRevokes \cup {t}
                                                      ELSE answeredRevokes
    BY <1>1, <1>5, <1>7 DEF Types, RestTypes
  <2>4. \A u \in answeredMints' :
          /\ tokens'[u] # None /\ userIndex'[u] # None
          /\ \A h \in tokens'[u].granted_groups : groupIndex'[u][h] # None
    BY <1>6, <2>1, <2>2, <2>3 DEF answers
  <2>5. \A u \in answeredRevokes' : tokens'[u] # None /\ tokens'[u].status = "revoked"
    BY <1>6, <2>1, <2>2, <2>3 DEF answers
  <2> QED
    BY <2>4, <2>5 DEF AnsweredChangesStand
<1> QED
  BY <1>10, <1>11, <1>12, <1>13 DEF TokensInv

LEMMA StoreStep ==
  ASSUME TokensInv, Types', NEW p \in Processes, NEW i \in 1..3, NEW g \in GroupNames \cup {None},
         Store(p, i, g)
  PROVE  TokensInv'
<1>1. PICK e \in WriteEffect :
        /\ IF e.applied = "now" THEN ApplyWrite(WriteOf(p, i, g)) ELSE UNCHANGED store
        /\ IF e.applied = "late"
             THEN \E l \in LateSlots :
                    late[l] = None /\ late' = [late EXCEPT ![l] = WriteOf(p, i, g)]
             ELSE UNCHANGED late
        /\ IF e.ok THEN AfterStore(p, i, g) ELSE Rest(p) /\ UNCHANGED answers
  BY DEF Store, WriteOf
<1>2. StoreReady(p, i, g) /\ UNCHANGED drawn
  BY DEF Store, StoreReady
<1>3. e.applied \in {"now", "never", "late"} /\ (e.ok => e.applied = "now")
  BY DEF WriteEffect
<1>4. CASE e.applied = "now"
  BY <1>1, <1>2, <1>4, StoreNow
<1>5. CASE e.applied = "late"
  BY <1>1, <1>2, <1>3, <1>5, StoreLater
<1>6. CASE e.applied = "never"
  BY <1>1, <1>2, <1>3, <1>6, StoreLost
<1> QED
  BY <1>3, <1>4, <1>5, <1>6

LEMMA ArriveStep ==
  ASSUME TokensInv, Types', NEW l \in LateSlots, ArriveLate(l)
  PROVE  TokensInv'
<1> DEFINE w == late[l]
<1>1. /\ late[l] # None /\ late' = [late EXCEPT ![l] = None]
      /\ UNCHANGED <<local, drawn, answers>> /\ Types
      /\ UNCHANGED <<pc, job, todo>>
  BY DEF ArriveLate, TokensInv, local
<1>2. late'[l] = None /\ \A k \in LateSlots : k # l => late'[k] = late[k]
  BY <1>1 DEF Types, StoreTypes
<1>3. w \in Write /\ w.token \in TokenIds
  BY <1>1 DEF Types, StoreTypes, Write
<1>4. PICK t \in TokenIds : t = w.token
  BY <1>3
<1>5. IsLate(l, t) /\ TokenSound(t) /\ t \in drawn
  BY <1>1, <1>4 DEF IsLate, TokensInv, TokenSound
<1>6. Due(w)
  <2>1. CASE tokens[t] = None
    BY <1>4, <1>5, <2>1 DEF Due, TokenSound, Unrecorded
  <2>2. CASE tokens[t] # None
    BY <1>4, <1>5, <2>2 DEF Due, TokenSound, Recorded
  <2> QED
    BY <2>1, <2>2
<1>7. \A u \in TokenIds, k \in LateSlots : IsLate(k, u)' => k # l /\ IsLate(k, u) /\ late'[k] = late[k]
  BY <1>2 DEF IsLate
<1>8. \A u \in TokenIds, q \in Processes : Upserts(q, u)' => Upserts(q, u)
  BY <1>1 DEF Upserts
<1>9. CASE ApplyWrite(w)
  <2> HIDE DEF w
  <2>1. Grows
    BY <1>1, <1>3, <1>4, <1>5, <1>6, <1>9, DueGrows
  <2>2. \A u \in TokenIds : u # t => /\ tokens'[u] = tokens[u]
                                   /\ userIndex'[u] = userIndex[u]
                                   /\ groupIndex'[u] = groupIndex[u]
    BY <1>1, <1>3, <1>4, <1>5, <1>6, <1>9, DueApplied
  <2>3. TokenSound(t)'
    <3>1. ASSUME NEW q \in Processes, Upserts(q, t)'
          PROVE  /\ tokens[t] # None /\ Upserts(q, t) /\ job'[q] = job[q]
                 /\ pc'[q] = "record" <=> pc[q] = "record"
      BY <1>1, <1>5, <1>8, <3>1 DEF TokenSound, Unrecorded
    <3>2. ASSUME NEW k \in LateSlots, IsLate(k, t)'
          PROVE  tokens[t] # None /\ IsLate(k, t) /\ late'[k] = late[k]
      BY <1>5, <1>7, <3>2 DEF TokenSound, Unrecorded
    <3>3. t \in drawn'
      BY <1>1, <1>5
    <3> QED
      BY <1>1, <1>3, <1>4, <1>5, <1>6, <1>9, <3>1, <3>2, <3>3, AppliedSound
  <2>4. ASSUME NEW u \in TokenIds, u # t PROVE TokenSound(u)'
    BY <1>1, <1>7, <1>8, <2>2, <2>4, Untouched DEF TokensInv
  <2>5. \A q \in Processes : JobSound(q)'
    BY <1>1, <2>1, JobKept DEF TokensInv
  <2>6. \A u \in TokenIds :
          /\ u \in answeredMints =>
               /\ tokens'[u] # None /\ userIndex'[u] # None
               /\ \A h \in tokens'[u].granted_groups : groupIndex'[u][h] # None
          /\ u \in answeredRevokes => tokens'[u] # None /\ tokens'[u].status = "revoked"
    BY <1>1, <2>1, AnsweredKept DEF TokensInv
  <2>7. AnsweredChangesStand'
    BY <1>1, <2>6 DEF AnsweredChangesStand, answers, Types, RestTypes
  <2> QED
    BY <2>3, <2>4, <2>5, <2>7 DEF TokensInv
<1>10. CASE UNCHANGED store
  <2>1. UNCHANGED <<tokens, userIndex, groupIndex>>
    BY <1>10 DEF store
  <2>2. ASSUME NEW u \in TokenIds PROVE TokenSound(u)'
    BY <1>1, <1>7, <1>8, <2>1, Untouched DEF TokensInv
  <2>3. \A q \in Processes : JobSound(q)'
    BY <1>1, <1>10, UnchangedGrows, JobKept DEF TokensInv
  <2>4. AnsweredChangesStand'
    BY <1>1, <2>1 DEF TokensInv, AnsweredChangesStand, answers
  <2> QED
    BY <2>2, <2>3, <2>4 DEF TokensInv
<1> QED
  BY <1>9, <1>10 DEF ArriveLate

LEMMA TokensStep == TokensInv /\ [Next]_vars => TokensInv'
<1> SUFFICES ASSUME TokensInv, [Next]_vars
             PROVE  TokensInv'
  OBVIOUS
<1>1. Types /\ Types'
  BY TypesStep DEF TokensInv
<1>2. ASSUME NEW p \in Processes, NEW actor \in Subs, NEW req \in MintRequests, Mint(p, actor, req)
      PROVE  TokensInv'
  BY <1>1, <1>2, MintStep
<1>3. ASSUME NEW p \in Processes, Find(p)
      PROVE  TokensInv'
  BY <1>1, <1>3, FindStep
<1>4. ASSUME NEW p \in Processes, NEW i \in 1..3, NEW g \in GroupNames \cup {None}, Store(p, i, g)
      PROVE  TokensInv'
  BY <1>1, <1>4, StoreStep
<1>5. ASSUME NEW l \in LateSlots, ArriveLate(l)
      PROVE  TokensInv'
  BY <1>1, <1>5, ArriveStep
<1>6. ASSUME NEW p \in Processes, NEW next, next \notin Storing, NEW j, NEW visits,
             TurnTo(p, next, j, visits), UNCHANGED <<store, late, drawn, answers>>
      PROVE  TokensInv'
  <2>1. \A q \in Processes :
          pc'[q] \in Storing => pc'[q] = pc[q] /\ job'[q] = job[q] /\ todo'[q] = todo[q]
    BY <1>1, <1>6 DEF TurnTo, Types, LocalTypes
  <2> QED
    BY <1>1, <1>6, <2>1, QuietStep
<1>7. ASSUME NEW p \in Processes, Rest(p), UNCHANGED <<store, late, drawn, answers>>
      PROVE  TokensInv'
  BY <1>6, <1>7 DEF Rest, Storing
<1>8. ASSUME NEW p \in Processes, NEW t \in TokenIds, Revoke(p, t)
      PROVE  TokensInv'
  BY <1>6, <1>8 DEF Revoke, Storing
<1>9. ASSUME NEW p \in Processes, NEW q \in Questions, Ask(p, q)
      PROVE  TokensInv'
  BY <1>6, <1>9 DEF Ask, Storing
<1>10. ASSUME NEW p \in Processes, NEW owner \in Subs, ListSelf(p, owner)
       PROVE  TokensInv'
  BY <1>6, <1>10 DEF ListSelf, Storing
<1>11. ASSUME NEW p \in Processes, Decide(p) \/ Abandon(p)
       PROVE  TokensInv'
  BY <1>7, <1>11 DEF Decide, Abandon
<1>12. ASSUME NEW p \in Processes, ListKeys(p)
       PROVE  TokensInv'
  BY <1>6, <1>7, <1>12 DEF ListKeys, Storing
<1>13. ASSUME NEW p \in Processes, NEW t \in TokenIds, ReadListed(p, t)
       PROVE  TokensInv'
  <2>1. UNCHANGED <<store, late, drawn, answers>>
    BY <1>13 DEF ReadListed
  <2>2. CASE Rest(p)
    BY <1>7, <2>1, <2>2
  <2>3. CASE todo' = [todo EXCEPT ![p] = todo[p] \ {t}] /\ UNCHANGED <<pc, job>>
    <3>1. pc[p] \notin Storing
      BY <1>13 DEF ReadListed, Storing
    <3>2. \A q \in Processes :
            pc'[q] \in Storing => pc'[q] = pc[q] /\ job'[q] = job[q] /\ todo'[q] = todo[q]
      BY <1>1, <2>3, <3>1 DEF Types, LocalTypes
    <3> QED
      BY <1>1, <2>1, <3>2, QuietStep
  <2> QED
    BY <1>13, <2>2, <2>3 DEF ReadListed
<1>14. CASE Tick \/ UNCHANGED vars
  <2>1. UNCHANGED <<store, late, drawn, answers>> /\ UNCHANGED <<pc, job, todo>>
    BY <1>14 DEF Tick, vars, local, store, answers
  <2> QED
    BY <1>1, <2>1, QuietStep
<1> QED
  BY <1>2, <1>3, <1>4, <1>5, <1>8, <1>9, <1>10, <1>11, <1>12, <1>13, <1>14 DEF Next, Handler

THEOREM TokensInvariant == Spec => []TokensInv
  BY TokensInit, TokensStep, PTL DEF Spec

\* No index entry is ahead of its record, for any number of processes, however
\* their upserts stop and whichever writes are late.
THEOREM IndexesNeverLead == Spec => []IndexesFollowRecords
<1>1. TokensInv => IndexesFollowRecords
  <2> SUFFICES ASSUME TokensInv, NEW t \in TokenIds, NEW g \in GroupNames,
                      NEW entry \in {userIndex[t], groupIndex[t][g]}, entry # None
               PROVE  /\ tokens[t] # None
                      /\ entry.owner_sub = tokens[t].owner_sub
                      /\ entry.status = "revoked" => tokens[t].status = "revoked"
    BY DEF IndexesFollowRecords
  <2>1. TokenSound(t)
    BY DEF TokensInv
  <2> QED
    BY <2>1 DEF TokenSound, Unrecorded, Recorded, Fits
<1> QED
  BY <1>1, TokensInvariant, PTL

\* An answered mint and an answered revocation stand for ever, whatever other
\* processes write and whenever.
THEOREM AnsweredTokensStand == Spec => []AnsweredChangesStand
<1>1. TokensInv => AnsweredChangesStand
  BY DEF TokensInv
<1> QED
  BY <1>1, TokensInvariant, PTL

\* What no step takes back.
LEMMA StepKeeps ==
  ASSUME TokensInv, [Next]_vars
  PROVE  /\ Grows
         /\ answeredMints \subseteq answeredMints' /\ answeredRevokes \subseteq answeredRevokes'
         /\ clock \in Nat /\ clock' \in Nat /\ clock <= clock'
<1>1. Types /\ clock \in Nat
  BY DEF TokensInv, Types, RestTypes
<1>2. ASSUME NEW p \in Processes, Handler(p),
             ~\E i \in 1..3, g \in GroupNames \cup {None} : Store(p, i, g)
      PROVE  /\ UNCHANGED <<store, clock>>
             /\ answeredMints \subseteq answeredMints' /\ answeredRevokes \subseteq answeredRevokes'
  <2>1. \/ \E actor \in Subs, req \in MintRequests : Mint(p, actor, req)
        \/ \E t \in TokenIds : Revoke(p, t)
        \/ \E q \in Questions : Ask(p, q)
        \/ \E owner \in Subs : ListSelf(p, owner)
        \/ Find(p) \/ Decide(p) \/ ListKeys(p) \/ Abandon(p)
        \/ \E t \in TokenIds : ReadListed(p, t)
    BY <1>2 DEF Handler
  <2> QED
    BY <2>1 DEF Mint, Revoke, Ask, ListSelf, Find, Decide, ListKeys, Abandon, ReadListed, answers
<1>3. ASSUME NEW p \in Processes, NEW i \in 1..3, NEW g \in GroupNames \cup {None}, Store(p, i, g)
      PROVE  /\ Grows /\ clock' = clock
             /\ answeredMints \subseteq answeredMints' /\ answeredRevokes \subseteq answeredRevokes'
  <2>1. StoreReady(p, i, g) /\ (ApplyWrite(WriteOf(p, i, g)) \/ UNCHANGED store)
        /\ clock' = clock
    BY <1>3 DEF Store, StoreReady, WriteOf
  <2>2. WriteOf(p, i, g) \in Write /\ TokenSound(WriteOf(p, i, g).token) /\ Due(WriteOf(p, i, g))
    BY <2>1, NextWriteDue
  <2>3. Grows
    BY <1>1, <2>1, <2>2, DueGrows, UnchangedGrows
  <2>4. AfterStore(p, i, g) \/ UNCHANGED answers
    BY <1>3 DEF Store
  <2> QED
    BY <2>1, <2>3, <2>4 DEF AfterStore, answers
<1>4. ASSUME NEW l \in LateSlots, ArriveLate(l)
      PROVE  Grows /\ UNCHANGED <<clock, answers>>
  <2>1. /\ late[l] # None /\ (ApplyWrite(late[l]) \/ UNCHANGED store)
        /\ UNCHANGED <<clock, answers>>
    BY <1>4 DEF ArriveLate
  <2>2. late[l] \in Write /\ late[l].token \in TokenIds
    BY <1>1, <2>1 DEF Types, StoreTypes, Write
  <2>3. TokenSound(late[l].token) /\ IsLate(l, late[l].token)
    BY <2>1, <2>2 DEF TokensInv, IsLate
  <2>4. Due(late[l])
    BY <2>2, <2>3 DEF TokenSound, Unrecorded, Recorded, Due
  <2> QED
    BY <1>1, <2>1, <2>2, <2>3, <2>4, DueGrows, UnchangedGrows
<1>5. CASE Tick \/ UNCHANGED vars
  BY <1>1, <1>5, UnchangedGrows DEF Tick, vars, answers
<1> QED
  BY <1>1, <1>2, <1>3, <1>4, <1>5, UnchangedGrows DEF Next, answers

\* A record only ever changes by its revocation.
THEOREM RecordsChangeOnlyByRevocation == Spec => RecordsOnlyGetRevoked
<1>1. TokensInv /\ [Next]_vars =>
        [\A t \in TokenIds :
           tokens[t] # None =>
             /\ tokens'[t] # None
             /\ tokens'[t].owner_sub = tokens[t].owner_sub
             /\ tokens'[t].granted_groups = tokens[t].granted_groups
             /\ tokens'[t].expires_at = tokens[t].expires_at
             /\ tokens[t].status = "revoked" => tokens'[t].status = "revoked"]_vars
  BY StepKeeps DEF Grows, SameToken
<1> QED
  BY <1>1, TokensInvariant, PTL DEF Spec, RecordsOnlyGetRevoked

-------------------------------------------------------------------------------
(***************************************************************************)
(* What readers are told: a question or a listing under way agrees with    *)
(* the records so far.                                                     *)
(***************************************************************************)
DecideSound(p) ==
  pc[p] = "decide" =>
    LET j == job[p]
    IN /\ j.at \in Nat /\ j.at <= clock
       /\ j.held # None =>
            /\ tokens[j.token] # None /\ SameToken(j.held, tokens[j.token])
            /\ j.held.status = "revoked" => tokens[j.token].status = "revoked"

ListSound(p) ==
  pc[p] \in {"keys", "get"} =>
    /\ job[p].minted \subseteq answeredMints /\ job[p].revoked \subseteq answeredRevokes
    /\ pc[p] = "get" =>
         /\ \A t \in todo[p] : tokens[t] # None /\ tokens[t].owner_sub = job[p].owner
         /\ \A r \in listed[p] : /\ r.record.owner_sub = job[p].owner
                                 /\ r.token \in job[p].revoked => r.record.status = "revoked"
         /\ \A t \in job[p].minted :
              tokens[t].owner_sub = job[p].owner =>
                t \in todo[p] \/ \E r \in listed[p] : r.token = t

ReadersInv ==
  /\ \A p \in Processes : DecideSound(p) /\ ListSound(p)
  /\ DecisionsAreRight /\ ListingsAreCurrent

LEMMA ReadersInit == Init => ReadersInv
  BY DEF Init, ReadersInv, DecideSound, ListSound, DecisionsAreRight, ListingsAreCurrent

LEMMA ReaderKept ==
  ASSUME TokensInv, [Next]_vars, NEW p \in Processes, DecideSound(p), ListSound(p),
         \/ pc'[p] \notin {"decide", "keys", "get"}
         \/ pc'[p] = pc[p] /\ job'[p] = job[p] /\ todo'[p] = todo[p] /\ listed'[p] = listed[p]
  PROVE  DecideSound(p)' /\ ListSound(p)'
<1>1. /\ Grows /\ Types
      /\ answeredMints \subseteq answeredMints' /\ answeredRevokes \subseteq answeredRevokes'
      /\ clock \in Nat /\ clock' \in Nat /\ clock <= clock'
  BY StepKeeps DEF TokensInv
<1>2. CASE pc'[p] \notin {"decide", "keys", "get"}
  BY <1>2 DEF DecideSound, ListSound
<1>3. CASE pc'[p] = pc[p] /\ job'[p] = job[p] /\ todo'[p] = todo[p] /\ listed'[p] = listed[p]
  <2>1. DecideSound(p)'
    <3>1. CASE pc[p] = "decide"
      <4>1. job[p] \in Deciding
        BY <1>1, <3>1 DEF Types, LocalTypes, LocalTyped
      <4>2. job[p].token \in TokenIds /\ job[p].at \in Nat
        BY <4>1 DEF Deciding
      <4> QED
        BY <1>1, <1>3, <3>1, <4>2 DEF DecideSound, Grows, SameToken
    <3> QED
      BY <1>3, <3>1 DEF DecideSound
  <2>2. ListSound(p)'
    <3>1. CASE pc[p] \in {"keys", "get"}
      <4>1. todo[p] \subseteq TokenIds
        BY <1>1, <3>1 DEF Types, LocalTypes, LocalTyped
      <4>2. /\ job[p].minted \subseteq answeredMints /\ job[p].revoked \subseteq answeredRevokes
            /\ \A t \in job[p].minted : t \in TokenIds /\ tokens[t] # None
        BY <1>1, <3>1 DEF ListSound, TokensInv, AnsweredChangesStand, Types, RestTypes
      <4>3. \A t \in TokenIds : tokens[t] # None =>
              tokens'[t] # None /\ tokens'[t].owner_sub = tokens[t].owner_sub
        BY <1>1 DEF Grows, SameToken
      <4> QED
        BY <1>1, <1>3, <3>1, <4>1, <4>2, <4>3 DEF ListSound
    <3> QED
      BY <1>3, <3>1 DEF ListSound
  <2> QED
    BY <2>1, <2>2
<1> QED
  BY <1>2, <1>3

\* Steps that tell a reader nothing and read no document.
LEMMA SilentStep ==
  ASSUME TokensInv, ReadersInv, [Next]_vars, answer' = None,
         \A p \in Processes :
           \/ pc'[p] \notin {"decide", "keys", "get"}
           \/ pc'[p] = pc[p] /\ job'[p] = job[p] /\ todo'[p] = todo[p] /\ listed'[p] = listed[p]
  PROVE  ReadersInv'
<1>1. \A p \in Processes : DecideSound(p)' /\ ListSound(p)'
  BY ReaderKept DEF ReadersInv
<1>2. DecisionsAreRight' /\ ListingsAreCurrent'
  BY DEF DecisionsAreRight, ListingsAreCurrent
<1> QED
  BY <1>1, <1>2 DEF ReadersInv

LEMMA AskStep ==
  ASSUME TokensInv, ReadersInv, [Next]_vars, NEW p \in Processes, NEW q \in Questions, Ask(p, q)
  PROVE  ReadersInv'
<1> DEFINE j == [op |-> "authorize", token |-> q.token, owner |-> q.owner, group |-> q.group,
                 at |-> clock, held |-> tokens[q.token]]
<1>1. Types /\ clock \in Nat /\ UNCHANGED <<store, clock>> /\ answer' = None
  BY DEF TokensInv, Types, RestTypes, Ask
<1>2. j.token = q.token /\ j.at = clock /\ j.held = tokens[q.token]
  OBVIOUS
<1>3. TurnTo(p, "decide", j, {})
  BY DEF Ask
<1> HIDE DEF j
<1>4. /\ pc'[p] = "decide" /\ job'[p] = j
      /\ \A r \in Processes : r # p => /\ pc'[r] = pc[r] /\ job'[r] = job[r]
                                       /\ todo'[r] = todo[r] /\ listed'[r] = listed[r]
  BY <1>1, <1>3, Turned
<1>5. DecideSound(p)' /\ ListSound(p)'
  BY <1>1, <1>2, <1>4 DEF DecideSound, ListSound, SameToken, store
<1>6. ASSUME NEW r \in Processes, r # p PROVE DecideSound(r)' /\ ListSound(r)'
  BY <1>4, <1>6, ReaderKept DEF ReadersInv
<1> QED
  BY <1>1, <1>5, <1>6 DEF ReadersInv, DecisionsAreRight, ListingsAreCurrent

LEMMA ListSelfStep ==
  ASSUME TokensInv, ReadersInv, [Next]_vars, NEW p \in Processes, NEW owner \in Subs,
         ListSelf(p, owner)
  PROVE  ReadersInv'
<1> DEFINE j == [op |-> "list", owner |-> owner, minted |-> answeredMints,
                 revoked |-> answeredRevokes]
<1>1. Types /\ UNCHANGED <<answeredMints, answeredRevokes>> /\ answer' = None
  BY DEF TokensInv, ListSelf, answers
<1>2. j.minted = answeredMints /\ j.revoked = answeredRevokes
  OBVIOUS
<1>3. TurnTo(p, "keys", j, {})
  BY DEF ListSelf
<1> HIDE DEF j
<1>4. /\ pc'[p] = "keys" /\ job'[p] = j
      /\ \A r \in Processes : r # p => /\ pc'[r] = pc[r] /\ job'[r] = job[r]
                                       /\ todo'[r] = todo[r] /\ listed'[r] = listed[r]
  BY <1>1, <1>3, Turned
<1>5. DecideSound(p)' /\ ListSound(p)'
  BY <1>1, <1>2, <1>4 DEF DecideSound, ListSound
<1>6. ASSUME NEW r \in Processes, r # p PROVE DecideSound(r)' /\ ListSound(r)'
  BY <1>4, <1>6, ReaderKept DEF ReadersInv
<1> QED
  BY <1>1, <1>5, <1>6 DEF ReadersInv, DecisionsAreRight, ListingsAreCurrent

LEMMA DecideStep ==
  ASSUME TokensInv, ReadersInv, [Next]_vars, NEW p \in Processes, Decide(p)
  PROVE  ReadersInv'
<1> DEFINE j == job[p]
           t == j.token
<1>1. /\ Types /\ pc[p] = "decide" /\ UNCHANGED <<tokens, clock>> /\ Rest(p)
      /\ answer' = [job |-> j, allowed |-> Allows(tokens[t], j)]
  BY DEF TokensInv, Decide, store
<1>2. /\ j \in Deciding /\ t \in TokenIds /\ j.op = "authorize" /\ clock \in Nat
      /\ j.held \in IssuedTokenRecord \cup {None}
  BY <1>1 DEF Types, LocalTypes, LocalTyped, Deciding, RestTypes
<1>3. /\ pc'[p] = "idle"
      /\ \A r \in Processes : r # p => /\ pc'[r] = pc[r] /\ job'[r] = job[r]
                                       /\ todo'[r] = todo[r] /\ listed'[r] = listed[r]
  BY <1>1, Turned DEF Rest
<1>4. \A r \in Processes : DecideSound(r)' /\ ListSound(r)'
  BY <1>3, ReaderKept DEF ReadersInv
<1>5. ASSUME j.held # None
      PROVE  IF Allows(tokens[t], j)
               THEN /\ j.held.owner_sub = j.owner /\ j.group \in j.held.granted_groups
                    /\ j.held.status = "active" /\ j.at < j.held.expires_at
               ELSE \/ tokens[t].owner_sub # j.owner \/ j.group \notin tokens[t].granted_groups
                    \/ tokens[t].status = "revoked" \/ clock >= tokens[t].expires_at
  <2>1. /\ j.at \in Nat /\ j.at <= clock
        /\ tokens[t] # None /\ SameToken(j.held, tokens[t])
        /\ j.held.status = "revoked" => tokens[t].status = "revoked"
    BY <1>1, <1>5 DEF ReadersInv, DecideSound
  <2>2. /\ tokens[t].status \in {"active", "revoked"} /\ j.held.status \in {"active", "revoked"}
        /\ tokens[t].expires_at \in Nat
    BY <1>1, <1>2, <1>5, <2>1 DEF Types, StoreTypes, IssuedTokenRecord, Status
  <2> HIDE DEF j
  <2>3. CASE Allows(tokens[t], j)
    BY <2>1, <2>2, <2>3 DEF Allows, SameToken
  <2>4. CASE ~Allows(tokens[t], j)
    BY <1>2, <2>1, <2>2, <2>4 DEF Allows
  <2> QED
    BY <2>3, <2>4
<1>6. DecisionsAreRight'
  BY <1>1, <1>5 DEF DecisionsAreRight
<1>7. ListingsAreCurrent'
  BY <1>1, <1>2 DEF ListingsAreCurrent
<1> QED
  BY <1>4, <1>6, <1>7 DEF ReadersInv

LEMMA ListKeysStep ==
  ASSUME TokensInv, ReadersInv, [Next]_vars, NEW p \in Processes, ListKeys(p)
  PROVE  ReadersInv'
<1> DEFINE j == job[p]
           keys == {t \in TokenIds : userIndex[t] # None /\ userIndex[t].owner_sub = j.owner}
<1>1. /\ Types /\ pc[p] = "keys" /\ UNCHANGED <<tokens, answeredMints, answeredRevokes>>
      /\ IF keys = {} THEN Rest(p) /\ answer' = [job |-> j, records |-> {}]
                      ELSE TurnTo(p, "get", j, keys) /\ answer' = None
  BY DEF TokensInv, ListKeys, store, answers
<1>2. j \in Listing /\ j.op = "list" /\ j.minted \subseteq answeredMints /\ j.revoked \subseteq answeredRevokes
  BY <1>1 DEF Types, LocalTypes, LocalTyped, Listing, ReadersInv, ListSound
<1>3. \A t \in keys : tokens[t] # None /\ tokens[t].owner_sub = j.owner
  BY DEF TokensInv, TokenSound, Unrecorded, Recorded, Fits
<1>4. \A t \in j.minted : tokens[t].owner_sub = j.owner => t \in keys
  <2>1. ASSUME NEW t \in j.minted, tokens[t].owner_sub = j.owner PROVE t \in keys
    <3>1. t \in TokenIds /\ tokens[t] # None /\ userIndex[t] # None
      BY <1>2 DEF TokensInv, AnsweredChangesStand, Types, RestTypes
    <3>2. Recorded(t)
      BY <3>1 DEF TokensInv, TokenSound
    <3> QED
      BY <2>1, <3>1, <3>2 DEF Recorded, Fits
  <2> QED
    BY <2>1
<1> HIDE DEF keys
<1>5. CASE keys = {}
  <2>1. /\ pc'[p] = "idle"
        /\ \A r \in Processes : r # p => /\ pc'[r] = pc[r] /\ job'[r] = job[r]
                                         /\ todo'[r] = todo[r] /\ listed'[r] = listed[r]
    BY <1>1, <1>5, Turned DEF Rest
  <2>2. \A r \in Processes : DecideSound(r)' /\ ListSound(r)'
    BY <2>1, ReaderKept DEF ReadersInv
  <2>3. answer' = [job |-> j, records |-> {}]
    BY <1>1, <1>5
  <2>4. ListingsAreCurrent'
    BY <1>1, <1>2, <1>4, <1>5, <2>3 DEF ListingsAreCurrent
  <2>5. DecisionsAreRight'
    BY <1>2, <2>3 DEF DecisionsAreRight
  <2> QED
    BY <2>2, <2>4, <2>5 DEF ReadersInv
<1>6. CASE keys # {}
  <2>1. /\ pc'[p] = "get" /\ job'[p] = j /\ todo'[p] = keys /\ listed'[p] = {}
        /\ \A r \in Processes : r # p => /\ pc'[r] = pc[r] /\ job'[r] = job[r]
                                         /\ todo'[r] = todo[r] /\ listed'[r] = listed[r]
    BY <1>1, <1>6, Turned
  <2>2. ASSUME NEW r \in Processes, r # p PROVE DecideSound(r)' /\ ListSound(r)'
    BY <2>1, <2>2, ReaderKept DEF ReadersInv
  <2> HIDE DEF j
  <2>3. DecideSound(p)' /\ ListSound(p)'
    BY <1>1, <1>2, <1>3, <1>4, <2>1 DEF DecideSound, ListSound
  <2> QED
    BY <1>1, <1>6, <2>2, <2>3 DEF ReadersInv, DecisionsAreRight, ListingsAreCurrent
<1> QED
  BY <1>5, <1>6

LEMMA ReadListedStep ==
  ASSUME TokensInv, ReadersInv, [Next]_vars, NEW p \in Processes, NEW t \in TokenIds,
         ReadListed(p, t)
  PROVE  ReadersInv'
<1> DEFINE j == job[p]
           read == listed[p] \cup
             (IF tokens[t] = None THEN {} ELSE {[token |-> t, record |-> tokens[t]]})
<1>1. /\ Types /\ pc[p] = "get" /\ t \in todo[p]
      /\ UNCHANGED <<tokens, answeredMints, answeredRevokes>>
      /\ IF todo[p] = {t} THEN Rest(p) /\ answer' = [job |-> j, records |-> read]
           ELSE /\ todo' = [todo EXCEPT ![p] = todo[p] \ {t}]
                /\ listed' = [listed EXCEPT ![p] = read]
                /\ answer' = None
                /\ UNCHANGED <<pc, job>>
  BY DEF TokensInv, ReadListed, store, answers
<1>2. /\ j \in Listing /\ j.op = "list"
      /\ j.minted \subseteq answeredMints /\ j.revoked \subseteq answeredRevokes
      /\ \A u \in todo[p] : tokens[u] # None /\ tokens[u].owner_sub = j.owner
      /\ \A r \in listed[p] : /\ r.record.owner_sub = j.owner
                              /\ r.token \in j.revoked => r.record.status = "revoked"
      /\ \A u \in j.minted :
           tokens[u].owner_sub = j.owner => u \in todo[p] \/ \E r \in listed[p] : r.token = u
  BY <1>1 DEF Types, LocalTypes, LocalTyped, Listing, ReadersInv, ListSound
<1>3. PICK new : new = [token |-> t, record |-> tokens[t]]
  OBVIOUS
<1>4. new.token = t /\ new.record = tokens[t] /\ read = listed[p] \cup {new}
  BY <1>1, <1>2, <1>3
<1> HIDE DEF read
<1>5. t \in j.revoked => tokens[t].status = "revoked"
  BY <1>2 DEF TokensInv, AnsweredChangesStand
<1> HIDE DEF j
<1>6. \A r \in read : /\ r.record.owner_sub = j.owner
                      /\ r.token \in j.revoked => r.record.status = "revoked"
  BY <1>1, <1>2, <1>4, <1>5
<1>7. \A u \in j.minted :
        tokens[u].owner_sub = j.owner => u \in todo[p] \ {t} \/ \E r \in read : r.token = u
  BY <1>2, <1>4
<1>8. CASE todo[p] = {t}
  <2>1. /\ pc'[p] = "idle" /\ answer' = [job |-> j, records |-> read]
        /\ \A r \in Processes : r # p => /\ pc'[r] = pc[r] /\ job'[r] = job[r]
                                         /\ todo'[r] = todo[r] /\ listed'[r] = listed[r]
    BY <1>1, <1>8, Turned DEF Rest, j
  <2>2. \A r \in Processes : DecideSound(r)' /\ ListSound(r)'
    BY <2>1, ReaderKept DEF ReadersInv
  <2>3. ListingsAreCurrent'
    BY <1>1, <1>6, <1>7, <1>8, <2>1 DEF ListingsAreCurrent
  <2>4. DecisionsAreRight'
    BY <1>2, <2>1 DEF DecisionsAreRight
  <2> QED
    BY <2>2, <2>3, <2>4 DEF ReadersInv
<1>9. CASE todo[p] # {t}
  <2>1. /\ pc'[p] = "get" /\ job'[p] = j /\ todo'[p] = todo[p] \ {t} /\ listed'[p] = read
        /\ answer' = None
        /\ \A r \in Processes : r # p => /\ pc'[r] = pc[r] /\ job'[r] = job[r]
                                         /\ todo'[r] = todo[r] /\ listed'[r] = listed[r]
    BY <1>1, <1>9 DEF Types, LocalTypes, j
  <2>2. ASSUME NEW r \in Processes, r # p PROVE DecideSound(r)' /\ ListSound(r)'
    BY <2>1, <2>2, ReaderKept DEF ReadersInv
  <2>3. DecideSound(p)' /\ ListSound(p)'
    BY <1>1, <1>2, <1>6, <1>7, <2>1 DEF DecideSound, ListSound
  <2> QED
    BY <2>1, <2>2, <2>3 DEF ReadersInv, DecisionsAreRight, ListingsAreCurrent
<1> QED
  BY <1>8, <1>9

LEMMA ReadersStep == TokensInv /\ ReadersInv /\ [Next]_vars => ReadersInv'
<1> SUFFICES ASSUME TokensInv, ReadersInv, [Next]_vars
             PROVE  ReadersInv'
  OBVIOUS
<1>1. Types
  BY DEF TokensInv
<1>2. ASSUME NEW p \in Processes, answer' = None, pc'[p] \notin {"decide", "keys", "get"},
             \A q \in Processes : q # p => /\ pc'[q] = pc[q] /\ job'[q] = job[q]
                                           /\ todo'[q] = todo[q] /\ listed'[q] = listed[q]
      PROVE  ReadersInv'
  BY <1>2, SilentStep
<1>3. ASSUME NEW p \in Processes, NEW actor \in Subs, NEW req \in MintRequests, Mint(p, actor, req)
      PROVE  ReadersInv'
  <2>1. PICK t \in FreshTokenIds :
          TurnTo(p, "record", [op |-> "mint", token |-> t, record |-> NewToken(req, actor)],
                 req.groups)
    BY <1>3, Order DEF Mint
  <2> QED
    BY <1>1, <1>2, <1>3, <2>1, Turned DEF Mint
<1>4. ASSUME NEW p \in Processes, NEW t \in TokenIds, Revoke(p, t)
      PROVE  ReadersInv'
  BY <1>1, <1>2, <1>4, Turned DEF Revoke
<1>5. ASSUME NEW p \in Processes, NEW q \in Questions, Ask(p, q)
      PROVE  ReadersInv'
  BY <1>5, AskStep
<1>6. ASSUME NEW p \in Processes, NEW owner \in Subs, ListSelf(p, owner)
      PROVE  ReadersInv'
  BY <1>6, ListSelfStep
<1>7. ASSUME NEW p \in Processes, Find(p)
      PROVE  ReadersInv'
  <2>1. \/ Rest(p)
        \/ TurnTo(p, "record", [op |-> "revoke", token |-> job[p].token,
                                record |-> RevokedToken(tokens[job[p].token])],
                  tokens[job[p].token].granted_groups)
    BY <1>7, Order DEF Find
  <2> QED
    BY <1>1, <1>2, <1>7, <2>1, Turned, Rested DEF Find
<1>8. ASSUME NEW p \in Processes, NEW i \in 1..3, NEW g \in GroupNames \cup {None}, Store(p, i, g)
      PROVE  ReadersInv'
  <2>1. answer' = None /\ (AfterStore(p, i, g) \/ Rest(p))
    BY <1>8 DEF Store
  <2>2. CASE Rest(p)
    BY <1>1, <1>2, <2>1, <2>2, Rested
  <2>3. CASE ~Rest(p)
    <3>1. /\ pc' = [pc EXCEPT ![p] = UpsertOrder[IF i < 3 THEN i + 1 ELSE 3]]
          /\ todo' = [todo EXCEPT ![p] = IF i < 3 THEN todo[p] ELSE todo[p] \ {g}]
          /\ UNCHANGED <<job, listed>>
      BY <2>1, <2>3 DEF AfterStore
    <3>2. pc'[p] \in Storing
      BY <1>1, <3>1, Order DEF Types, LocalTypes
    <3> QED
      BY <1>1, <1>2, <2>1, <3>1, <3>2 DEF Types, LocalTypes, Storing
  <2> QED
    BY <2>2, <2>3
<1>9. ASSUME NEW p \in Processes, Decide(p)
      PROVE  ReadersInv'
  BY <1>9, DecideStep
<1>10. ASSUME NEW p \in Processes, ListKeys(p)
       PROVE  ReadersInv'
  BY <1>10, ListKeysStep
<1>11. ASSUME NEW p \in Processes, NEW t \in TokenIds, ReadListed(p, t)
       PROVE  ReadersInv'
  BY <1>11, ReadListedStep
<1>12. ASSUME NEW p \in Processes, Abandon(p)
       PROVE  ReadersInv'
  BY <1>1, <1>2, <1>12, Rested DEF Abandon
<1>13. CASE Tick \/ \E l \in LateSlots : ArriveLate(l)
  BY <1>13, SilentStep DEF Tick, ArriveLate, local
<1>14. CASE UNCHANGED vars
  <2>1. UNCHANGED <<pc, job, todo, listed, tokens, clock, answer>>
    BY <1>14 DEF vars, local, store
  <2>2. \A p \in Processes : DecideSound(p)' /\ ListSound(p)'
    BY <2>1, ReaderKept DEF ReadersInv
  <2> QED
    BY <2>1, <2>2 DEF ReadersInv, DecisionsAreRight, ListingsAreCurrent
<1> QED
  BY <1>3, <1>4, <1>5, <1>6, <1>7, <1>8, <1>9, <1>10, <1>11, <1>12, <1>13, <1>14
  DEF Next, Handler

THEOREM ReadersInvariant == Spec => []ReadersInv
  BY TokensInvariant, ReadersInit, ReadersStep, PTL DEF Spec

\* The runtime's decision is right at some instant of the call, however its
\* read falls among the writes of other processes and the late ones.
THEOREM DecisionsAreAlwaysRight == Spec => []DecisionsAreRight
<1>1. ReadersInv => DecisionsAreRight
  BY DEF ReadersInv
<1> QED
  BY <1>1, ReadersInvariant, PTL

\* A listing shows what was answered before it began, whatever was written
\* between its reads.
THEOREM ListingsAreAlwaysCurrent == Spec => []ListingsAreCurrent
<1>1. ReadersInv => ListingsAreCurrent
  BY DEF ReadersInv
<1> QED
  BY <1>1, ReadersInvariant, PTL
===============================================================================
