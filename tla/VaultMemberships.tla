--------------------------- MODULE VaultMemberships ---------------------------
(***************************************************************************)
(* Groups and memberships, Vault call by Vault call, for any number of     *)
(* processes on one Vault prefix.  The memberships of a user are one       *)
(* document, read and written back without check-and-set.  ControlPlane    *)
(* runs a handler of the same services in one step.                        *)
(*                                                                         *)
(* Handlers never await, so a process runs one at a time; only the admin   *)
(* check of a request runs beside it, in the thread pool.  A write whose   *)
(* call timed out or whose process died may still reach Vault, later.      *)
(*                                                                         *)
(* Every subject is registered, and group names are folded already.        *)
(***************************************************************************)
EXTENDS GofrDomain, Sequences

CONSTANTS
  TrustedSubs,  \* settings.bootstrap.trusted_subs
  Requests,     \* the admin requests clients send
  Processes,    \* the processes on the Vault prefix
  LateSlots     \* bound: writes on their way to Vault that nobody waits for

Request ==
       [op : {"create"}, sub : {None}, group : GroupNames \ {RESERVED_ADMIN_GROUP}]
  \cup [op : {"add", "remove"}, sub : Subs, group : GroupNames]

ASSUME TrustedAssumption == TrustedSubs \in Seq(Subs)
ASSUME RequestsAssumption == Requests \subseteq Request

VARIABLES
  groups,     \* stored group definitions
  documents,  \* the membership document of each user, as a set of records
  pc,         \* what a process does next
  boot,       \* how far its startup is, 0 when it serves or is down
  job,        \* the change it works on
  todo,       \* count_members: users whose document is still to be read
  found,      \* count_members: the records read so far
  loaded,     \* the document it is about to write
  waiting,    \* a request between its admin check and its handler; `entitled`, in it
              \* and in its job, is history: its actor was an admin when checked
  late,       \* writes Vault may still apply
  answered    \* history: what the last answered change of a membership made it

store == <<groups, documents>>
local == <<pc, boot, job, todo, found, loaded>>
vars  == <<store, local, waiting, late, answered>>

\* Everything but the answers, which no action reads
coreView == <<store, local, waiting, late>>

Job == [actor : Subs \cup {None}, op : {"create", "add", "remove"},
        sub : Subs \cup {None}, group : GroupNames, entitled : BOOLEAN]

\* To have no job, or no answer, is told from having one
ASSUME NoJobAssumption == None \notin Job
ASSUME NoAnswerAssumption == None \notin {"held", "gone"}

-------------------------------------------------------------------------------
Holding(document, group) == {m \in document : m.group_name = group}

AdminSubs == {sub \in Subs : Holding(documents[sub], RESERVED_ADMIN_GROUP) # {}}

\* Faulty variant: any membership passes for an admin membership
HasAnyMembership(sub) == documents[sub] # {}

\* has_membership(sub, RESERVED_ADMIN_GROUP)
is_admin(sub) == sub \in AdminSubs

\* ensure_group and ensure_membership of apply_plan
BootCreate == [actor |-> None, op |-> "create", sub |-> None,
               group |-> RESERVED_ADMIN_GROUP, entitled |-> FALSE]
BootAdd(sub) == [actor |-> None, op |-> "add", sub |-> sub,
                 group |-> RESERVED_ADMIN_GROUP, entitled |-> FALSE]

\* Faulty variant: the admins are bound before their group is defined
DefinesGroupLast ==
  [i \in 1..Len(TrustedSubs) |-> BootAdd(TrustedSubs[i])] \o <<BootCreate>>

\* What apply_plan does at every startup, in this order
BootJobs == <<BootCreate>> \o [i \in 1..Len(TrustedSubs) |-> BootAdd(TrustedSubs[i])]

\* The record a job makes
Grant(j) == [keycloak_sub |-> j.sub, group_name |-> j.group, granted_by_sub |-> j.actor]

\* Faulty variant: the document is replaced by the new record
ForgetsOtherGroups(document, j) == {Grant(j)}

\* Faulty variant: an existing record of the group is not dropped
AppendsRecord(document, j) == document \cup {Grant(j)}

\* Faulty variant: subject and granter are swapped
SwapsSubjects(document, j) ==
  (document \ Holding(document, j.group)) \cup
    {[keycloak_sub |-> j.actor, group_name |-> j.group, granted_by_sub |-> j.sub]}

\* add: the records of other groups, and the new one
WithGrant(document, j) == (document \ Holding(document, j.group)) \cup {Grant(j)}

\* What a job writes: a group definition (no sub) or a user's whole document
Write(p) == [actor |-> job[p].actor, sub |-> job[p].sub, group |-> job[p].group,
             document |-> loaded[p]]

ApplyWrite(w) ==
  IF w.sub = None
    THEN groups' = groups \cup {w.group} /\ UNCHANGED documents
    ELSE documents' = [documents EXCEPT ![w.sub] = w.document] /\ UNCHANGED groups

Init ==
  /\ groups = {}
  /\ documents = [sub \in Subs |-> {}]
  /\ pc = [p \in Processes |-> "down"]
  /\ boot = [p \in Processes |-> 0]
  /\ job = [p \in Processes |-> None]
  /\ todo = [p \in Processes |-> {}]
  /\ found = [p \in Processes |-> {}]
  /\ loaded = [p \in Processes |-> {}]
  /\ waiting = [p \in Processes |-> None]
  /\ late = [l \in LateSlots |-> None]
  /\ answered = [sub \in Subs |-> [group \in GroupNames |-> None]]

-------------------------------------------------------------------------------
\* The process turns to job j, or to none
TurnTo(p, next, step, j) ==
  /\ pc' = [pc EXCEPT ![p] = next]
  /\ boot' = [boot EXCEPT ![p] = step]
  /\ job' = [job EXCEPT ![p] = j]
  /\ todo' = [todo EXCEPT ![p] = {}]
  /\ found' = [found EXCEPT ![p] = {}]
  /\ loaded' = [loaded EXCEPT ![p] = {}]

\* A handler has answered; a startup goes on to its next job and then serves
Proceed(p) ==
  IF boot[p] = 0 \/ boot[p] = Len(BootJobs)
    THEN TurnTo(p, "idle", 0, None)
    ELSE TurnTo(p, "find", boot[p] + 1, BootJobs[boot[p] + 1])

\* A handler answers an error, a startup ends the process
GiveUp(p) == TurnTo(p, IF boot[p] = 0 THEN "idle" ELSE "down", 0, None)

Startup(p) ==
  /\ pc[p] = "down"
  /\ TurnTo(p, "find", 1, BootJobs[1])
  /\ UNCHANGED <<store, waiting, late, answered>>

\* The process dies between two calls
Crash(p) ==
  /\ pc[p] # "down"
  /\ TurnTo(p, "down", 0, None)
  /\ waiting' = [waiting EXCEPT ![p] = None]
  /\ UNCHANGED <<store, late, answered>>

\* require_admin_identity, while a handler may be running
Admit(p, actor, req) ==
  /\ pc[p] # "down" /\ boot[p] = 0
  /\ waiting[p] = None
  /\ is_admin(actor)
  /\ waiting' = [waiting EXCEPT ![p] = [actor |-> actor, op |-> req.op, sub |-> req.sub,
                                        group |-> req.group,
                                        entitled |-> actor \in AdminSubs]]
  /\ UNCHANGED <<store, local, late, answered>>

Handle(p) ==
  /\ pc[p] = "idle" /\ waiting[p] # None
  /\ TurnTo(p, "find", 0, waiting[p])
  /\ waiting' = [waiting EXCEPT ![p] = None]
  /\ UNCHANGED <<store, late, answered>>

-------------------------------------------------------------------------------
(***************************************************************************)
(* The calls of a job.  `find` is the read that decides whether there is   *)
(* anything to do: repository.get for a group, _find_membership or         *)
(* has_membership for a membership.  The look at the group definition      *)
(* before it is part of it, because definitions are never deleted.         *)
(***************************************************************************)
Found(j) == IF j.op = "create" THEN j.group \in groups
                               ELSE Holding(documents[j.sub], j.group) # {}

\* The bootstrap does not look at the definition it has just written
GroupKnown(p) == job[p].op = "create" \/ boot[p] # 0 \/ job[p].group \in groups

FindNothingToDo(p) ==
  LET j == job[p]
  IN /\ pc[p] = "find" /\ GroupKnown(p)
     /\ j.op = "add" \/ (j.op = "create" /\ boot[p] # 0)
     /\ Found(j)
     /\ Proceed(p)
     /\ answered' = IF j.op = "add" THEN [answered EXCEPT ![j.sub][j.group] = "held"]
                                    ELSE answered
     /\ UNCHANGED <<store, waiting, late>>

FindNoGrounds(p) ==
  LET j == job[p]
  IN /\ pc[p] = "find"
     /\ \/ ~GroupKnown(p)
        \/ j.op = "remove" /\ ~Found(j)
        \/ j.op = "create" /\ Found(j) /\ boot[p] = 0
     /\ GiveUp(p)
     /\ UNCHANGED <<store, waiting, late, answered>>

FindWork(p) ==
  LET j == job[p]
      last == j.op = "remove" /\ j.group = RESERVED_ADMIN_GROUP
  IN /\ pc[p] = "find" /\ GroupKnown(p)
     /\ Found(j) <=> j.op = "remove"
     /\ pc' = [pc EXCEPT ![p] = CASE j.op = "create" -> "store"
                                  [] last -> "count"
                                  [] OTHER -> "load"]
     /\ todo' = [todo EXCEPT ![p] = IF last THEN Subs ELSE {}]
     /\ UNCHANGED <<store, boot, job, found, loaded, waiting, late, answered>>

\* Faulty variant: the users are listed again after each of them
ListsUsersAgain(p, sub) == Subs \ {sub}

StillToRead(p, sub) == todo[p] \ {sub}

\* count_members: one document per call (the code reads them in the order of
\* their names), and the last-admin rule after the last
Count(p, sub) ==
  LET admins == found[p] \cup Holding(documents[sub], RESERVED_ADMIN_GROUP)
  IN /\ pc[p] = "count" /\ sub \in todo[p]
     /\ IF StillToRead(p, sub) # {}
          THEN /\ todo' = [todo EXCEPT ![p] = StillToRead(p, sub)]
               /\ found' = [found EXCEPT ![p] = admins]
               /\ UNCHANGED <<pc, boot, job, loaded>>
          ELSE IF ensure_admin_membership_remains(Cardinality(admins) - 1)
                 THEN TurnTo(p, "load", boot[p], job[p])
                 ELSE GiveUp(p)
     /\ UNCHANGED <<store, waiting, late, answered>>

\* add and remove of the repository read the document once more
Load(p) ==
  LET j == job[p]
      document == documents[j.sub]
  IN /\ pc[p] = "load"
     /\ IF j.op = "remove" /\ Holding(document, j.group) = {}
          THEN GiveUp(p)
          ELSE /\ pc' = [pc EXCEPT ![p] = "store"]
               /\ loaded' = [loaded EXCEPT ![p] = IF j.op = "add"
                                                    THEN WithGrant(document, j)
                                                    ELSE document \ Holding(document, j.group)]
               /\ UNCHANGED <<boot, job, todo, found>>
     /\ UNCHANGED <<store, waiting, late, answered>>

\* When Vault applies a write, and how its call ends
WriteEffect ==
  {e \in [applied : {"now", "never", "late"}, outcome : {"ok", "error", "crash"}] :
     e.outcome = "ok" => e.applied = "now"}

Answered(j, outcome) ==
  IF j.op = "create"
    THEN answered
    ELSE [answered EXCEPT ![j.sub][j.group] =
            IF outcome # "ok" THEN None ELSE IF j.op = "add" THEN "held" ELSE "gone"]

Store(p) ==
  /\ pc[p] = "store"
  /\ \E e \in WriteEffect :
       /\ IF e.applied = "now" THEN ApplyWrite(Write(p)) ELSE UNCHANGED store
       /\ IF e.applied = "late"
            THEN \E l \in LateSlots : late[l] = None /\ late' = [late EXCEPT ![l] = Write(p)]
            ELSE UNCHANGED late
       /\ CASE e.outcome = "ok" -> Proceed(p)
            [] e.outcome = "error" -> GiveUp(p)
            [] e.outcome = "crash" -> TurnTo(p, "down", 0, None)
       /\ waiting' = IF e.outcome = "crash" THEN [waiting EXCEPT ![p] = None] ELSE waiting
       /\ answered' = Answered(job[p], e.outcome)

\* A read raises
ReadFails(p) ==
  /\ pc[p] \in {"find", "count", "load"}
  /\ GiveUp(p)
  /\ UNCHANGED <<store, waiting, late, answered>>

\* A write that nobody waits for reaches Vault, or is lost on the way
ArriveLate(l) ==
  /\ late[l] # None
  /\ ApplyWrite(late[l]) \/ UNCHANGED store
  /\ late' = [late EXCEPT ![l] = None]
  /\ UNCHANGED <<local, waiting, answered>>

-------------------------------------------------------------------------------
\* The next call of the handler or startup that process p runs
Call(p) ==
  \/ FindNothingToDo(p) \/ FindNoGrounds(p) \/ FindWork(p)
  \/ \E sub \in Subs : Count(p, sub)
  \/ Load(p) \/ Store(p) \/ ReadFails(p)

Next ==
  \/ \E p \in Processes :
       \/ Startup(p) \/ Crash(p) \/ Handle(p) \/ Call(p)
       \/ \E actor \in Subs, req \in Requests : Admit(p, actor, req)
  \/ \E l \in LateSlots : ArriveLate(l)

Spec == Init /\ [][Next]_vars

\* A Vault call ends (VAULT_TIMEOUT), and the event loop goes on with the
\* handler and then with the next request.
FairSpec == Spec /\ \A p \in Processes : WF_vars(Call(p)) /\ WF_vars(Handle(p))

-------------------------------------------------------------------------------
PCs == {"down", "idle", "find", "count", "load", "store"}

PendingWrite ==
  [actor : Subs \cup {None}, sub : Subs \cup {None}, group : GroupNames,
   document : SUBSET UserGroupMembership]

\* Every variable holds values of the kind its declaration describes, a record
\* is in the document of its subject, and a process works on a job exactly
\* while its next step is a call.
TypeOK ==
  /\ groups \subseteq GroupNames
  /\ documents \in [Subs -> SUBSET UserGroupMembership]
  /\ \A sub \in Subs, m \in UNION {documents[s] : s \in Subs} :
       m \in documents[sub] <=> m.keycloak_sub = sub
  /\ pc \in [Processes -> PCs]
  /\ boot \in [Processes -> 0..Len(BootJobs)]
  /\ job \in [Processes -> Job \cup {None}]
  /\ \A p \in Processes : job[p] = None <=> pc[p] \in {"down", "idle"}
  /\ todo \in [Processes -> SUBSET Subs]
  /\ found \in [Processes -> SUBSET UserGroupMembership]
  /\ loaded \in [Processes -> SUBSET UserGroupMembership]
  /\ waiting \in [Processes -> Job \cup {None}]
  /\ late \in [LateSlots -> PendingWrite \cup {None}]
  /\ answered \in [Subs -> [GroupNames -> {"held", "gone", None}]]

-------------------------------------------------------------------------------
(***************************************************************************)
(* What any number of processes and late writes leave standing.            *)
(***************************************************************************)

\* Two processes that grant the same membership at once, or a grant that
\* arrives after its retry, never leave two records of it.
OneRecordPerGrant ==
  \A sub \in Subs : \A m, n \in documents[sub] : m.group_name = n.group_name => m = n

\* The records in the store, in a document about to be written, and in one
\* that may still reach Vault
Records ==
  UNION ({documents[sub] : sub \in Subs} \cup {loaded[p] : p \in Processes}
           \cup {late[l].document : l \in {k \in LateSlots : late[k] # None}})

\* The bootstrap for a trusted subject, or a request whose actor was an admin
HasGrounds(p) ==
  IF boot[p] = 0
    THEN job[p].entitled
    ELSE /\ job[p].actor = None /\ job[p].group = RESERVED_ADMIN_GROUP
         /\ \E i \in 1..Len(TrustedSubs) : job[p].sub = TrustedSubs[i]

\* A lost update or a late write may bring a membership back or take one away,
\* but every record in the store, about to be written or on its way was once
\* made, with the granter it names, by the bootstrap for a trusted subject or
\* by the handler of a request whose actor was an admin when it was admitted:
\* none comes into being otherwise.  By then the actor may not be one any more.
AuthorityHasRoot ==
  [][\A m \in Records' \ Records :
       \E p \in Processes : job[p] # None /\ job[p].op = "add"
                           /\ m = Grant(job[p]) /\ HasGrounds(p)]_vars

\* No membership of an undefined group is stored, whichever process was
\* defining it and whatever failed or came late.
GrantsRestOnRecords ==
  \A sub \in Subs : \A m \in documents[sub] : m.group_name \in groups

\* Every call that is due is made and every admitted request gets its handler:
\* no handler waits for another process, and count_members comes to an end.
HandlersEnd ==
  \A p \in Processes :
    /\ job[p] # None ~> job[p] = None
    /\ waiting[p] # None ~> waiting[p] = None

-------------------------------------------------------------------------------
(***************************************************************************)
(* What takes a single process whose writes are never late.                *)
(***************************************************************************)

\* The last answered change of a membership holds until the next one of the
\* same membership: no change of another group or user, failed or not, undoes
\* it.
AnsweredChangesHold ==
  \A sub \in Subs, group \in GroupNames :
    /\ answered[sub][group] = "held" => Holding(documents[sub], group) # {}
    /\ answered[sub][group] = "gone" => Holding(documents[sub], group) = {}

\* A startup writes, or a write of one arrives late
StartupWrites ==
  \/ \E p \in Processes : boot[p] # 0 /\ pc[p] = "store" /\ pc'[p] # "store"
  \/ \E l \in LateSlots : late[l] # None /\ late[l].actor = None /\ late'[l] = None

\* docs/gofr_sec_impl_plan.md:201 "repeated startup must not duplicate
\* memberships, destroy existing state, or overwrite manual admin changes":
\* a startup's write leaves every membership that is there.
StartupKeepsGrants ==
  [][StartupWrites => \A sub \in Subs : documents[sub] \subseteq documents'[sub]]_vars

\* docs/gofr_sec_proposal.md:56 "At least one Keycloak user must always remain
\* associated with admin": once there is an admin there is one after every step.
AnAdminAlwaysRemains == [][AdminSubs # {} => AdminSubs' # {}]_vars

Access == INSTANCE AccessPromise
  WITH AdminGroup <- RESERVED_ADMIN_GROUP,
       Trusted <- {TrustedSubs[i] : i \in 1..Len(TrustedSubs)}, Durable <- TRUE,
       admins <- AdminSubs, issued <- [t \in {} |-> {}], revoked <- {}, clock <- 0

\* Call by call the service still does what it promises of its admins: each
\* write appoints or dismisses one, as an admin's request or the bootstrap
\* asked, and the last is never dismissed.
ImplementsAccessPromise == Access!Spec
===============================================================================
