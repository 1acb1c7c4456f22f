----------------------------- MODULE VaultTokens -----------------------------
(***************************************************************************)
(* The token registry, Vault call by Vault call, for any number of         *)
(* processes on one Vault prefix: mint, revoke, the owner's listing and    *)
(* the runtime's question.  Time passes between any two calls, and a write *)
(* whose caller gave up may still reach Vault, later.                      *)
(*                                                                         *)
(* A handler that fails and a process that dies are one step here: either  *)
(* way nobody is answered 200, and a startup touches no token.  Owners are *)
(* registered and the groups of a request are defined and not reserved,    *)
(* which mint_token has checked by the time it draws an id.                *)
(***************************************************************************)
EXTENDS GofrDomain

CONSTANTS
  MintRequests,  \* what is minted: owner, groups and lifetime
  Questions,     \* what the runtime asks: token, owner and group
  Processes,     \* the processes on the Vault prefix
  LateSlots,     \* bound: writes on their way to Vault that nobody waits for
  MaxTime        \* bound: the last instant of the clock

MintRequest == [owner : Subs, groups : (SUBSET GroupNames) \ {{}}, lifetime : Nat \ {0}]
Question == [token : TokenIds, owner : Subs, group : GroupNames]

ASSUME MintRequestsAssumption == MintRequests \subseteq MintRequest
ASSUME QuestionsAssumption == Questions \subseteq Question
ASSUME MaxTimeAssumption == MaxTime \in Nat

VARIABLES
  tokens,      \* the canonical record of each token
  userIndex,   \* its entry below its owner
  groupIndex,  \* its entries below its groups
  clock,       \* utc_now(), the same for all processes
  pc,          \* the call a process makes next
  job,         \* what its handler works on
  todo,        \* what its loop has still to visit: groups, or listed ids
  listed,      \* the records a listing has read
  late,        \* writes Vault may still apply
  drawn,       \* the ids uuid4 has drawn
  answer,      \* the answer of the last step, if it gave one
  answeredMints, answeredRevokes  \* history: tokens whose change was answered 200

store == <<tokens, userIndex, groupIndex>>
local == <<pc, job, todo, listed>>
answers == <<answeredMints, answeredRevokes>>
vars == <<store, clock, local, late, drawn, answer, answers>>

Entry == [owner_sub : Subs, status : Status]

\* A missing entry is told from every stored one
ASSUME NoEntryAssumption == None \notin Entry

\* The work of one handler.  `held`, `minted` and `revoked` are history: what
\* was recorded and answered when the request began.
Upserting == [op : {"mint", "revoke"}, token : TokenIds, record : IssuedTokenRecord]
Revoking  == [op : {"revoke"}, token : TokenIds, record : {None}]
Deciding  == [op : {"authorize"}, token : TokenIds, owner : Subs, group : GroupNames,
              at : Nat, held : IssuedTokenRecord \cup {None}]
Listing   == [op : {"list"}, owner : Subs, minted : SUBSET TokenIds,
              revoked : SUBSET TokenIds]
Job == Upserting \cup Revoking \cup Deciding \cup Listing

Write == [to : {"record", "user", "group"}, group : GroupNames \cup {None},
          token : TokenIds, record : IssuedTokenRecord]

Init ==
  /\ tokens = [t \in TokenIds |-> None]
  /\ userIndex = [t \in TokenIds |-> None]
  /\ groupIndex = [t \in TokenIds |-> [g \in GroupNames |-> None]]
  /\ clock = 0
  /\ pc = [p \in Processes |-> "idle"]
  /\ job = [p \in Processes |-> None]
  /\ todo = [p \in Processes |-> {}]
  /\ listed = [p \in Processes |-> {}]
  /\ late = [l \in LateSlots |-> None]
  /\ drawn = {}
  /\ answer = None
  /\ answeredMints = {} /\ answeredRevokes = {}

-------------------------------------------------------------------------------
(***************************************************************************)
(* How a handler moves from one call to the next.                          *)
(***************************************************************************)
TurnTo(p, next, j, visits) ==
  /\ pc' = [pc EXCEPT ![p] = next]
  /\ job' = [job EXCEPT ![p] = j]
  /\ todo' = [todo EXCEPT ![p] = visits]
  /\ listed' = [listed EXCEPT ![p] = {}]

Rest(p) == TurnTo(p, "idle", None, {})

ApplyWrite(w) ==
  LET entry == [owner_sub |-> w.record.owner_sub, status |-> w.record.status]
  IN CASE w.to = "record" ->
            /\ tokens' = [tokens EXCEPT ![w.token] = w.record]
            /\ UNCHANGED <<userIndex, groupIndex>>
       [] w.to = "user" ->
            /\ userIndex' = [userIndex EXCEPT ![w.token] = entry]
            /\ UNCHANGED <<tokens, groupIndex>>
       [] w.to = "group" ->
            /\ groupIndex' = [groupIndex EXCEPT ![w.token][w.group] = entry]
            /\ UNCHANGED <<tokens, userIndex>>

\* Faulty variant: the writes of an upsert do not stop at one that failed
IgnoresFailedWrites == [applied : {"now", "never", "late"}, ok : {TRUE}]

\* When Vault applies a write, and whether its caller learns of it
WriteEffect ==
  {e \in [applied : {"now", "never", "late"}, ok : BOOLEAN] : e.ok => e.applied = "now"}

\* Faulty variant: the entry of the owner is written before the record
OwnerEntryFirst == <<"user", "record", "group">>

\* The writes of an upsert, in order; the last is one for each group.  The
\* deletions in between have no case, since no record changes owner or groups,
\* and the read before them is only one more call that can fail.
UpsertOrder == <<"record", "user", "group">>

-------------------------------------------------------------------------------
(***************************************************************************)
(* Handlers begin.  The request was admitted at some earlier time.         *)
(***************************************************************************)

\* Faulty variant: ids come from something that can repeat itself
AnyTokenId == TokenIds

FreshTokenIds == TokenIds \ drawn

\* Faulty variant: the lifetime is subtracted
ExpiresBeforeIssue(req, actor) ==
  [owner_sub |-> req.owner, granted_groups |-> req.groups, status |-> "active",
   expires_at |-> clock - req.lifetime, issued_by_sub |-> actor, revoked_at |-> None]

NewToken(req, actor) ==
  [owner_sub |-> req.owner, granted_groups |-> req.groups, status |-> "active",
   expires_at |-> clock + req.lifetime, issued_by_sub |-> actor, revoked_at |-> None]

\* The record is made, and its JWT signed, some time before it is written
Mint(p, actor, req) ==
  /\ pc[p] = "idle"
  /\ \E t \in FreshTokenIds :
       /\ TurnTo(p, UpsertOrder[1],
                 [op |-> "mint", token |-> t, record |-> NewToken(req, actor)], req.groups)
       /\ drawn' = drawn \cup {t}
  /\ answer' = None
  /\ UNCHANGED <<store, clock, late, answers>>

Revoke(p, t) ==
  /\ pc[p] = "idle"
  /\ TurnTo(p, "find", [op |-> "revoke", token |-> t, record |-> None], {})
  /\ answer' = None
  /\ UNCHANGED <<store, clock, late, drawn, answers>>

\* authorize takes the time before it reads the record
Ask(p, q) ==
  /\ pc[p] = "idle"
  /\ TurnTo(p, "decide",
            [op |-> "authorize", token |-> q.token, owner |-> q.owner, group |-> q.group,
             at |-> clock, held |-> tokens[q.token]], {})
  /\ answer' = None
  /\ UNCHANGED <<store, clock, late, drawn, answers>>

ListSelf(p, owner) ==
  /\ pc[p] = "idle"
  /\ TurnTo(p, "keys", [op |-> "list", owner |-> owner, minted |-> answeredMints,
                        revoked |-> answeredRevokes], {})
  /\ answer' = None
  /\ UNCHANGED <<store, clock, late, drawn, answers>>

-------------------------------------------------------------------------------
(***************************************************************************)
(* The calls of a handler.                                                 *)
(***************************************************************************)
RevokedToken(record) == [record EXCEPT !.status = "revoked", !.revoked_at = clock]

\* revoke_token reads the record: a revoked one is answered as it is
Find(p) ==
  LET t == job[p].token
  IN /\ pc[p] = "find"
     /\ tokens[t] # None
     /\ IF tokens[t].status = "revoked"
          THEN /\ Rest(p)
               /\ answeredRevokes' = answeredRevokes \cup {t}
          ELSE /\ TurnTo(p, UpsertOrder[1],
                         [op |-> "revoke", token |-> t, record |-> RevokedToken(tokens[t])],
                         tokens[t].granted_groups)
               /\ UNCHANGED answeredRevokes
     /\ answer' = None
     /\ UNCHANGED <<store, clock, late, drawn, answeredMints>>

AfterStore(p, i, g) ==
  /\ IF i < 3 \/ todo[p] # {g}
       THEN /\ pc' = [pc EXCEPT ![p] = UpsertOrder[IF i < 3 THEN i + 1 ELSE 3]]
            /\ todo' = [todo EXCEPT ![p] = IF i < 3 THEN todo[p] ELSE todo[p] \ {g}]
            /\ UNCHANGED <<job, listed, answers>>
       ELSE /\ Rest(p)
            /\ answeredMints' = IF job[p].op = "mint" THEN answeredMints \cup {job[p].token}
                                                     ELSE answeredMints
            /\ answeredRevokes' = IF job[p].op = "revoke"
                                    THEN answeredRevokes \cup {job[p].token}
                                    ELSE answeredRevokes

\* One write of an upsert.  The groups come in the record's order, which the
\* model leaves open.
Store(p, i, g) ==
  LET w == [to |-> UpsertOrder[i], group |-> g, token |-> job[p].token,
            record |-> job[p].record]
  IN /\ pc[p] = UpsertOrder[i]
     /\ IF UpsertOrder[i] = "group" THEN g \in todo[p] ELSE g = None
     /\ \E e \in WriteEffect :
          /\ IF e.applied = "now" THEN ApplyWrite(w) ELSE UNCHANGED store
          /\ IF e.applied = "late"
               THEN \E l \in LateSlots : late[l] = None /\ late' = [late EXCEPT ![l] = w]
               ELSE UNCHANGED late
          /\ IF e.ok THEN AfterStore(p, i, g) ELSE Rest(p) /\ UNCHANGED answers
     /\ answer' = None
     /\ UNCHANGED <<clock, drawn>>

\* Faulty variant: a token is good at the instant it expires
AllowsAtExpiry(record, j) ==
  /\ record # None
  /\ record.owner_sub = j.owner /\ record.status = "active"
  /\ j.at <= record.expires_at /\ j.group \in record.granted_groups

Allows(record, j) ==
  /\ record # None
  /\ record.owner_sub = j.owner /\ record.status = "active"
  /\ j.at < record.expires_at /\ j.group \in record.granted_groups

Decide(p) ==
  /\ pc[p] = "decide"
  /\ answer' = [job |-> job[p], allowed |-> Allows(tokens[job[p].token], job[p])]
  /\ Rest(p)
  /\ UNCHANGED <<store, clock, late, drawn, answers>>

\* list_secrets below the owner
ListKeys(p) ==
  LET keys == {t \in TokenIds : userIndex[t] # None /\ userIndex[t].owner_sub = job[p].owner}
  IN /\ pc[p] = "keys"
     /\ IF keys = {}
          THEN Rest(p) /\ answer' = [job |-> job[p], records |-> {}]
          ELSE TurnTo(p, "get", job[p], keys) /\ answer' = None
     /\ UNCHANGED <<store, clock, late, drawn, answers>>

\* One record of the listing
ReadListed(p, t) ==
  LET read == listed[p] \cup
                (IF tokens[t] = None THEN {} ELSE {[token |-> t, record |-> tokens[t]]})
  IN /\ pc[p] = "get" /\ t \in todo[p]
     /\ IF todo[p] = {t}
          THEN Rest(p) /\ answer' = [job |-> job[p], records |-> read]
          ELSE /\ todo' = [todo EXCEPT ![p] = todo[p] \ {t}]
               /\ listed' = [listed EXCEPT ![p] = read]
               /\ answer' = None
               /\ UNCHANGED <<pc, job>>
     /\ UNCHANGED <<store, clock, late, drawn, answers>>

\* A call raises without writing, revoke_token finds no record, or the process
\* dies and starts again
Abandon(p) ==
  /\ pc[p] # "idle"
  /\ Rest(p)
  /\ answer' = None
  /\ UNCHANGED <<store, clock, late, drawn, answers>>

\* A write that nobody waits for reaches Vault, or is lost on the way
ArriveLate(l) ==
  /\ late[l] # None
  /\ ApplyWrite(late[l]) \/ UNCHANGED store
  /\ late' = [late EXCEPT ![l] = None]
  /\ answer' = None
  /\ UNCHANGED <<clock, local, drawn, answers>>

Tick ==
  /\ clock < MaxTime
  /\ clock' = clock + 1
  /\ answer' = None
  /\ UNCHANGED <<store, local, late, drawn, answers>>

Handler(p) ==
  \/ \E actor \in Subs, req \in MintRequests : Mint(p, actor, req)
  \/ \E t \in TokenIds : Revoke(p, t)
  \/ \E q \in Questions : Ask(p, q)
  \/ \E owner \in Subs : ListSelf(p, owner)
  \/ Find(p) \/ Decide(p) \/ ListKeys(p) \/ Abandon(p)
  \/ \E i \in 1..3, g \in GroupNames \cup {None} : Store(p, i, g)
  \/ \E t \in TokenIds : ReadListed(p, t)

Next == Tick \/ (\E p \in Processes : Handler(p)) \/ (\E l \in LateSlots : ArriveLate(l))

Spec == Init /\ [][Next]_vars

-------------------------------------------------------------------------------
Answer ==
       [job : Deciding, allowed : BOOLEAN]
  \cup [job : Listing, records : SUBSET [token : TokenIds, record : IssuedTokenRecord]]

\* Every variable holds values of the kind its declaration describes, and a
\* process works on the kind of job its next call belongs to.
TypeOK ==
  /\ tokens \in [TokenIds -> IssuedTokenRecord \cup {None}]
  /\ userIndex \in [TokenIds -> Entry \cup {None}]
  /\ groupIndex \in [TokenIds -> [GroupNames -> Entry \cup {None}]]
  /\ clock \in Nat
  /\ pc \in [Processes -> {"idle", "find", "record", "user", "group", "decide", "keys", "get"}]
  /\ job \in [Processes -> Job \cup {None}]
  /\ \A p \in Processes :
       /\ pc[p] = "idle" => job[p] = None
       /\ pc[p] = "find" => job[p] \in Revoking
       /\ pc[p] \in {"record", "user", "group"} =>
            job[p] \in Upserting /\ todo[p] \subseteq job[p].record.granted_groups
       /\ pc[p] = "decide" => job[p] \in Deciding
       /\ pc[p] \in {"keys", "get"} => job[p] \in Listing /\ todo[p] \subseteq TokenIds
  /\ listed \in [Processes -> SUBSET [token : TokenIds, record : IssuedTokenRecord]]
  /\ late \in [LateSlots -> Write \cup {None}]
  /\ drawn \subseteq TokenIds
  /\ answer \in Answer \cup {None}
  /\ answeredMints \subseteq TokenIds /\ answeredRevokes \subseteq TokenIds

-------------------------------------------------------------------------------
(***************************************************************************)
(* What any number of processes and late writes leave standing.            *)
(***************************************************************************)

\* However revocations race each other and the writes of a mint, a record only
\* ever changes by its revocation: no owner, group or lifetime changes, and
\* no late write makes a revoked token active again.
RecordsOnlyGetRevoked ==
  [][\A t \in TokenIds :
       tokens[t] # None =>
         /\ tokens'[t] # None
         /\ tokens'[t].owner_sub = tokens[t].owner_sub
         /\ tokens'[t].granted_groups = tokens[t].granted_groups
         /\ tokens'[t].expires_at = tokens[t].expires_at
         /\ tokens[t].status = "revoked" => tokens'[t].status = "revoked"]_vars

\* No entry is ahead of its record, wherever an upsert stopped and whichever
\* write is late: every entry has a record of the same owner, and says
\* revoked only when the record does.
IndexesFollowRecords ==
  \A t \in TokenIds, g \in GroupNames :
    \A entry \in {userIndex[t], groupIndex[t][g]} :
      entry # None =>
        /\ tokens[t] # None
        /\ entry.owner_sub = tokens[t].owner_sub
        /\ entry.status = "revoked" => tokens[t].status = "revoked"

\* What was answered stays so: a minted token is recorded and in all its
\* indexes, a revoked token is recorded as revoked.
AnsweredChangesStand ==
  /\ \A t \in answeredMints :
       /\ tokens[t] # None /\ userIndex[t] # None
       /\ \A g \in tokens[t].granted_groups : groupIndex[t][g] # None
  /\ \A t \in answeredRevokes : tokens[t] # None /\ tokens[t].status = "revoked"

\* A listing begun after a mint was answered shows the token, one begun after
\* a revocation was answered shows it revoked, and it shows only the owner's.
ListingsAreCurrent ==
  (answer # None /\ answer.job.op = "list") =>
    /\ \A r \in answer.records :
         /\ r.record.owner_sub = answer.job.owner
         /\ r.token \in answer.job.revoked => r.record.status = "revoked"
    /\ \A t \in answer.job.minted :
         (tokens[t] # None /\ tokens[t].owner_sub = answer.job.owner) =>
           \E r \in answer.records : r.token = t

\* The decision on a token that was recorded when the request came in is right
\* at some instant of the call: an allow when it began, a deny when it ended.
\* So no request that begins after an answered revocation is allowed.
DecisionsAreRight ==
  (answer # None /\ answer.job.op = "authorize" /\ answer.job.held # None) =>
    LET held == answer.job.held
        now == tokens[answer.job.token]
    IN IF answer.allowed
         THEN /\ held.owner_sub = answer.job.owner /\ answer.job.group \in held.granted_groups
              /\ held.status = "active" /\ answer.job.at < held.expires_at
         ELSE \/ now.owner_sub # answer.job.owner \/ answer.job.group \notin now.granted_groups
              \/ now.status = "revoked" \/ clock >= now.expires_at
===============================================================================
