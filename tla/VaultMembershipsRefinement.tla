---------------------- MODULE VaultMembershipsRefinement ----------------------
(***************************************************************************)
(* VaultMemberships, call by call, implements AccessPromise when a single  *)
(* process writes and no write is late: count_members counts the admins    *)
(* there are, and the last of them is never removed.                       *)
(***************************************************************************)
EXTENDS VaultMembershipsProofs, FiniteSetTheorems

\* The records of the admin group, in the documents of S
AdminRecords(S) == UNION {Holding(documents[sub], RESERVED_ADMIN_GROUP) : sub \in S}

\* count_members has the records of every user it is done with
CountsAdmins(p) ==
  /\ pc[p] = "find" => found[p] = {}
  /\ pc[p] = "count" => /\ found[p] = AdminRecords(Subs \ todo[p])
                        /\ job[p].group = RESERVED_ADMIN_GROUP

\* Past the last-admin rule, a removal leaves another admin
SparesLastAdmin(p) ==
  (/\ pc[p] \in {"load", "store"}
   /\ job[p].op = "remove" /\ job[p].group = RESERVED_ADMIN_GROUP) =>
     AdminSubs \ {job[p].sub} # {}

\* Requests are admitted for admins, and there is one until they are done
WorkNeedsAdmin(p) ==
  (waiting[p] # None \/ (job[p] # None /\ boot[p] = 0)) => AdminSubs # {}

CountInv(p) ==
  /\ AloneInv(p)
  /\ CountsAdmins(p)
  /\ SparesLastAdmin(p)
  /\ WorkNeedsAdmin(p)

-------------------------------------------------------------------------------
(***************************************************************************)
(* What the count says.                                                    *)
(***************************************************************************)

\* Two records of the admin group are of two admins.
LEMMA CountedAdmins ==
  ASSUME VaultInv, ensure_admin_membership_remains(Cardinality(AdminRecords(Subs)) - 1),
         NEW sub \in Subs
  PROVE  AdminSubs \ {sub} # {}
<1> DEFINE records == AdminRecords(Subs)
<1>1. Cardinality(records) # 0 /\ Cardinality(records) # 1
  BY DEF ensure_admin_membership_remains
<1>2. records # {} /\ \A m : records # {m}
  BY <1>1, FS_EmptySet, FS_Singleton
<1>3. \E m \in records, n \in records : m # n
  <2>1. PICK m : m \in records
    BY <1>2
  <2>2. PICK n \in records : n # m
    BY <1>2, <2>1
  <2> QED
    BY <2>1, <2>2
<1>4. \A r \in records : \E s \in Subs : r \in Holding(documents[s], RESERVED_ADMIN_GROUP)
  BY DEF AdminRecords
<1> HIDE DEF records
<1>5. PICK m \in records, n \in records : m # n
  BY <1>3
<1>6. PICK s \in Subs, t \in Subs :
        /\ m \in Holding(documents[s], RESERVED_ADMIN_GROUP)
        /\ n \in Holding(documents[t], RESERVED_ADMIN_GROUP)
  BY <1>4, <1>5
<1>7. s # t
  BY <1>5, <1>6 DEF VaultInv, Sound, Holding
<1>8. s \in AdminSubs /\ t \in AdminSubs
  BY <1>6 DEF AdminSubs
<1> QED
  BY <1>7, <1>8

\* One more user is read.
LEMMA CountedOneMore ==
  ASSUME NEW S, NEW sub
  PROVE  AdminRecords(S) \cup Holding(documents[sub], RESERVED_ADMIN_GROUP)
           = AdminRecords(S \cup {sub})
  BY DEF AdminRecords

-------------------------------------------------------------------------------
(***************************************************************************)
(* What a write does to the admins.                                        *)
(***************************************************************************)
\* None, or it makes the job's user one, or it removes one who is not the last.
LEMMA StoreAdmins ==
  ASSUME NEW p, Alone(p), CountInv(p), Store(p)
  PROVE  \/ AdminSubs' = AdminSubs
         \/ /\ job[p].sub \in Subs /\ AdminSubs' = AdminSubs \cup {job[p].sub}
            /\ IF boot[p] = 0 THEN AdminSubs # {} ELSE IsTrusted(job[p].sub)
         \/ /\ job[p].sub \in Subs /\ AdminSubs' = AdminSubs \ {job[p].sub}
            /\ AdminSubs' # {}
<1> DEFINE j == job[p]
           document == documents[j.sub]
           admin == RESERVED_ADMIN_GROUP
<1>1. /\ pc[p] = "store" /\ p \in Processes
      /\ documents \in [Subs -> SUBSET UserGroupMembership]
  BY DEF Store, Alone, CountInv, AloneInv, VaultInv, TypeOK
<1>2. /\ j \in Job /\ (j.op = "create" <=> j.sub = None) /\ (j.op # "create" => j.sub \in Subs)
      /\ JobSound(j, "store", boot[p], loaded[p], groups)
  BY <1>1, JobFacts DEF CountInv, AloneInv
<1>3. PICK e \in WriteEffect :
        IF e.applied = "now" THEN ApplyWrite(Write(p)) ELSE UNCHANGED store
  BY DEF Store
<1>4. CASE e.applied # "now" \/ j.op = "create"
  <2>1. documents' = documents
    BY <1>2, <1>3, <1>4 DEF ApplyWrite, Write, store
  <2> QED
    BY <2>1 DEF AdminSubs, Holding
<1>5. CASE e.applied = "now" /\ j.op # "create"
  <2>1. documents' = [documents EXCEPT ![j.sub] = loaded[p]] /\ j.sub \in Subs
    BY <1>2, <1>3, <1>5 DEF ApplyWrite, Write
  <2>2. AdminSubs' = IF Holding(loaded[p], admin) # {} THEN AdminSubs \cup {j.sub}
                                                       ELSE AdminSubs \ {j.sub}
    BY <1>1, <2>1 DEF AdminSubs, Holding
  <2>3. j.sub \in AdminSubs <=> Holding(document, admin) # {}
    BY <2>1 DEF AdminSubs
  <2>4. CASE j.group # admin
    <3>1. Holding(loaded[p], admin) = Holding(document, admin)
      <4>1. CASE j.op = "add"
        <5>1. loaded[p] = WithGrant(document, j)
          BY <1>1, <4>1 DEF CountInv, AloneInv, UnchangedSinceRead
        <5>2. Grant(j).group_name # admin
          BY <2>4 DEF Grant
        <5> QED
          BY <2>4, <5>1, <5>2 DEF WithGrant, Holding
      <4>2. CASE j.op = "remove"
        BY <1>1, <2>4, <4>2 DEF CountInv, AloneInv, UnchangedSinceRead, Holding
      <4> QED
        BY <1>2, <1>5, <4>1, <4>2 DEF Job
    <3> QED
      BY <2>2, <2>3, <3>1
  <2>5. CASE j.group = admin /\ j.op = "add"
    <3>1. Holding(loaded[p], admin) # {}
      <4> DEFINE m == Grant(j)
      <4>1. m.group_name = j.group /\ m \in WithGrant(document, j)
        BY DEF WithGrant, Grant
      <4>2. loaded[p] = WithGrant(document, j)
        BY <1>1, <2>5 DEF CountInv, AloneInv, UnchangedSinceRead
      <4> HIDE DEF m
      <4> QED
        BY <2>5, <4>1, <4>2 DEF Holding
    <3>2. IF boot[p] = 0 THEN AdminSubs # {} ELSE IsTrusted(j.sub)
      <4>1. CASE boot[p] = 0
        BY <1>1, <4>1, JobFacts DEF CountInv, AloneInv, WorkNeedsAdmin
      <4>2. CASE boot[p] # 0
        BY <1>2, <2>5, <4>2, BootJobTyped DEF JobSound
      <4> QED
        BY <4>1, <4>2
    <3> QED
      BY <2>1, <2>2, <3>1, <3>2
  <2>6. CASE j.group = admin /\ j.op = "remove"
    <3>1. Holding(loaded[p], admin) = {}
      BY <1>1, <2>6 DEF CountInv, AloneInv, UnchangedSinceRead, Holding
    <3>2. AdminSubs \ {j.sub} # {}
      BY <1>1, <2>6 DEF CountInv, SparesLastAdmin
    <3> QED
      BY <2>1, <2>2, <3>1, <3>2
  <2> QED
    BY <1>2, <1>5, <2>4, <2>5, <2>6 DEF Job
<1> QED
  BY <1>4, <1>5

\* Every other step leaves the admins as they are.
LEMMA OthersLeaveAdmins ==
  ASSUME NEW p, Alone(p), CountInv(p), [Next]_vars, ~Store(p)
  PROVE  AdminSubs' = AdminSubs /\ UNCHANGED documents
<1>1. UNCHANGED documents
  BY StoreWritesAlone DEF CountInv
<1> QED
  BY <1>1 DEF AdminSubs, Holding

\* Once there is an admin there is one after each step.
LEMMA AdminRemainsStep ==
  ASSUME NEW p, Alone(p), CountInv(p), [Next]_vars
  PROVE  AdminSubs # {} => AdminSubs' # {}
<1>1. CASE Store(p)
  BY <1>1, StoreAdmins
<1>2. CASE ~Store(p)
  BY <1>2, OthersLeaveAdmins
<1> QED
  BY <1>1, <1>2

\* A process that is down, idle or starting works for no request.
LEMMA ProceededWorks ==
  ASSUME NEW p \in Processes, LocalTypes, Proceed(p) \/ GiveUp(p)
  PROVE  job'[p] # None => boot'[p] # 0
<1>1. CASE GiveUp(p)
  BY <1>1 DEF GiveUp, TurnTo, LocalTypes
<1>2. CASE Proceed(p) /\ (boot[p] = 0 \/ boot[p] = Len(BootJobs))
  BY <1>2 DEF Proceed, TurnTo, LocalTypes
<1>3. CASE Proceed(p) /\ ~(boot[p] = 0 \/ boot[p] = Len(BootJobs))
  <2>1. TurnTo(p, "find", boot[p] + 1, BootJobs[boot[p] + 1])
    BY <1>3 DEF Proceed
  <2>2. boot'[p] = boot[p] + 1 /\ boot[p] \in Nat
    BY <2>1, BootJobsContents DEF TurnTo, LocalTypes
  <2> QED
    BY <2>2
<1> QED
  BY <1>1, <1>2, <1>3

\* A request is admitted, and worked on, only while there is an admin.
LEMMA WorkNeedsAdminStep ==
  ASSUME NEW p, Alone(p), CountInv(p), [Next]_vars
  PROVE  WorkNeedsAdmin(p)'
<1> DEFINE Works == waiting[p] # None \/ (job[p] # None /\ boot[p] = 0)
<1>1. /\ p \in Processes /\ LocalTypes /\ VaultInv
      /\ waiting \in [Processes -> Job \cup {None}]
      /\ Works => AdminSubs # {}
      /\ job[p] = None <=> pc[p] \in {"down", "idle"}
  BY VaultInvParts DEF Alone, CountInv, AloneInv, WorkNeedsAdmin, VaultInv, TypeOK
<1>2. SUFFICES Works' => AdminSubs # {}
  BY <1>2, AdminRemainsStep DEF WorkNeedsAdmin
<1>3. CASE Startup(p)
  <2>1. boot'[p] # 0 /\ UNCHANGED waiting
    BY <1>1, <1>3 DEF Startup, TurnTo, LocalTypes
  <2> QED
    BY <1>1, <2>1
<1>4. CASE Crash(p)
  BY <1>1, <1>4 DEF Crash, TurnTo, LocalTypes
<1>5. CASE Handle(p)
  BY <1>1, <1>5 DEF Handle
<1>6. ASSUME NEW actor \in Subs, NEW req \in Requests, Admit(p, actor, req)
      PROVE  AdminSubs # {}
  BY <1>6 DEF Admit, is_admin
<1>7. ASSUME UNCHANGED waiting, Proceed(p) \/ GiveUp(p)
      PROVE  Works' => AdminSubs # {}
  <2>1. job'[p] # None => boot'[p] # 0
    BY <1>1, <1>7, ProceededWorks
  <2> QED
    BY <1>1, <1>7, <2>1
<1>8. CASE FindNothingToDo(p) \/ FindNoGrounds(p) \/ ReadFails(p)
  BY <1>7, <1>8 DEF FindNothingToDo, FindNoGrounds, ReadFails
<1>9. ASSUME UNCHANGED <<waiting, job, boot>>
      PROVE  Works' => AdminSubs # {}
  BY <1>1, <1>9
<1>10. CASE FindWork(p)
  BY <1>9, <1>10 DEF FindWork
<1>11. ASSUME NEW sub \in Subs, Count(p, sub)
       PROVE  Works' => AdminSubs # {}
  <2>1. UNCHANGED waiting
    BY <1>11 DEF Count
  <2>2. CASE TurnTo(p, "load", boot[p], job[p])
    <3>1. job'[p] = job[p] /\ boot'[p] = boot[p]
      BY <1>1, <2>2 DEF TurnTo, LocalTypes
    <3> QED
      BY <1>1, <2>1, <3>1
  <2> QED
    BY <1>7, <1>9, <1>11, <2>1, <2>2 DEF Count
<1>12. CASE Load(p)
  BY <1>7, <1>9, <1>12 DEF Load
<1>13. CASE Store(p)
  <2>1. PICK e \in WriteEffect :
          /\ CASE e.outcome = "ok" -> Proceed(p)
               [] e.outcome = "error" -> GiveUp(p)
               [] e.outcome = "crash" -> TurnTo(p, "down", 0, None)
          /\ waiting' = IF e.outcome = "crash" THEN [waiting EXCEPT ![p] = None] ELSE waiting
    BY <1>13 DEF Store
  <2>2. e.outcome \in {"ok", "error", "crash"}
    BY DEF WriteEffect
  <2>3. CASE e.outcome = "crash"
    <3>1. TurnTo(p, "down", 0, None) /\ waiting' = [waiting EXCEPT ![p] = None]
      BY <2>1, <2>3
    <3> QED
      BY <1>1, <3>1 DEF TurnTo, LocalTypes
  <2>4. CASE e.outcome # "crash"
    <3>1. UNCHANGED waiting /\ (Proceed(p) \/ GiveUp(p))
      BY <2>1, <2>2, <2>4
    <3> QED
      BY <1>7, <3>1
  <2> QED
    BY <2>3, <2>4
<1>14. CASE UNCHANGED vars
  BY <1>9, <1>14 DEF vars, local
<1> QED
  BY <1>3, <1>4, <1>5, <1>6, <1>8, <1>10, <1>11, <1>12, <1>13, <1>14 DEF Next, Call, Alone

-------------------------------------------------------------------------------
(***************************************************************************)
(* The invariant: a count goes on from the documents it has read.          *)
(***************************************************************************)
CountsOn(p) == CountsAdmins(p) /\ SparesLastAdmin(p)

\* A process that turns to a job, or to none, has counted nothing.
LEMMA TurnedCountsOn ==
  ASSUME NEW p \in Processes, LocalTypes, NEW STATE next, next \in {"down", "idle", "find"},
         NEW STATE step, NEW STATE j, TurnTo(p, next, step, j)
  PROVE  CountsOn(p)'
<1>1. pc'[p] \in {"down", "idle", "find"} /\ found'[p] = {}
  BY DEF TurnTo, LocalTypes
<1> QED
  BY <1>1 DEF CountsOn, CountsAdmins, SparesLastAdmin

\* The same of one that has answered.
LEMMA ProceededCountsOn ==
  ASSUME NEW p \in Processes, LocalTypes, Proceed(p) \/ GiveUp(p)
  PROVE  CountsOn(p)'
<1>1. CASE GiveUp(p)
  <2> DEFINE next == IF boot[p] = 0 THEN "idle" ELSE "down"
  <2>1. next \in {"down", "idle", "find"} /\ TurnTo(p, next, 0, None)
    BY <1>1 DEF GiveUp
  <2> HIDE DEF next
  <2> QED
    BY <2>1, TurnedCountsOn
<1>2. CASE Proceed(p) /\ (boot[p] = 0 \/ boot[p] = Len(BootJobs))
  <2>1. TurnTo(p, "idle", 0, None)
    BY <1>2 DEF Proceed
  <2> QED
    BY <2>1, TurnedCountsOn
<1>3. CASE Proceed(p) /\ ~(boot[p] = 0 \/ boot[p] = Len(BootJobs))
  <2>1. TurnTo(p, "find", boot[p] + 1, BootJobs[boot[p] + 1])
    BY <1>3 DEF Proceed
  <2> QED
    BY <2>1, TurnedCountsOn
<1> QED
  BY <1>1, <1>2, <1>3

\* The read of one more user's document, and the last-admin rule after the last.
LEMMA CountStep ==
  ASSUME NEW p, Alone(p), CountInv(p), [Next]_vars, NEW sub \in Subs, Count(p, sub)
  PROVE  CountsOn(p)'
<1> DEFINE admins == found[p] \cup Holding(documents[sub], RESERVED_ADMIN_GROUP)
<1>1. /\ p \in Processes /\ LocalTypes /\ VaultInv
      /\ pc[p] = "count" /\ sub \in todo[p]
      /\ found[p] = AdminRecords(Subs \ todo[p]) /\ job[p].group = RESERVED_ADMIN_GROUP
  BY VaultInvParts DEF Alone, CountInv, AloneInv, CountsAdmins, Count
<1>2. admins = AdminRecords(Subs \ (todo[p] \ {sub}))
  <2>1. (Subs \ todo[p]) \cup {sub} = Subs \ (todo[p] \ {sub})
    OBVIOUS
  <2> QED
    BY <1>1, <2>1, CountedOneMore
<1>3. AdminSubs' = AdminSubs /\ UNCHANGED documents
  <2>1. ~Store(p)
    BY <1>1 DEF Store
  <2> QED
    BY <2>1, OthersLeaveAdmins
<1>4. CASE StillToRead(p, sub) # {}
  <2>1. /\ todo'[p] = todo[p] \ {sub} /\ found'[p] = admins
        /\ pc'[p] = "count" /\ job'[p] = job[p]
    BY <1>1, <1>4 DEF Count, StillToRead, LocalTypes
  <2>2. found'[p] = AdminRecords(Subs \ todo[p])'
    BY <1>2, <1>3, <2>1 DEF AdminRecords, Holding
  <2> QED
    BY <1>1, <2>1, <2>2 DEF CountsOn, CountsAdmins, SparesLastAdmin
<1>5. CASE StillToRead(p, sub) = {} /\ ~ensure_admin_membership_remains(Cardinality(admins) - 1)
  <2>1. GiveUp(p)
    BY <1>5 DEF Count
  <2> QED
    BY <1>1, <2>1, ProceededCountsOn
<1>6. CASE StillToRead(p, sub) = {} /\ ensure_admin_membership_remains(Cardinality(admins) - 1)
  <2>1. TurnTo(p, "load", boot[p], job[p])
    BY <1>6 DEF Count
  <2>2. pc'[p] = "load" /\ job'[p] = job[p]
    BY <1>1, <2>1 DEF TurnTo, LocalTypes
  <2>3. admins = AdminRecords(Subs)
    <3>1. Subs \ (todo[p] \ {sub}) = Subs
      BY <1>6 DEF StillToRead
    <3> QED
      BY <1>2, <3>1
  <2>4. job[p].sub \in Subs
    BY <1>1, JobFacts DEF JobSound
  <2>5. AdminSubs \ {job[p].sub} # {}
    BY <1>1, <1>6, <2>3, <2>4, CountedAdmins
  <2> QED
    BY <1>3, <2>2, <2>5 DEF CountsOn, CountsAdmins, SparesLastAdmin
<1> QED
  BY <1>4, <1>5, <1>6

\* Every step keeps the count and what the rule concluded from it.
LEMMA CountInvStep ==
  ASSUME NEW p, Alone(p), CountInv(p), [Next]_vars
  PROVE  CountInv(p)'
<1>1. AloneInv(p)' /\ WorkNeedsAdmin(p)'
  BY AloneStep, WorkNeedsAdminStep DEF CountInv
<1>2. p \in Processes /\ LocalTypes /\ VaultInv
  BY VaultInvParts DEF Alone, CountInv, AloneInv
<1>3. ~Store(p) => AdminSubs' = AdminSubs /\ UNCHANGED documents
  BY OthersLeaveAdmins
<1>4. CountsOn(p)'
  <2>1. CASE Startup(p) \/ Crash(p) \/ Handle(p)
    BY <1>2, <2>1, TurnedCountsOn DEF Startup, Crash, Handle
  <2>2. CASE FindNothingToDo(p) \/ FindNoGrounds(p) \/ ReadFails(p)
    BY <1>2, <2>2, ProceededCountsOn DEF FindNothingToDo, FindNoGrounds, ReadFails
  <2>3. CASE FindWork(p)
    <3>1. /\ found'[p] = {} /\ job'[p] = job[p] /\ pc'[p] # "find"
          /\ pc'[p] = "count" => todo'[p] = Subs /\ job[p].group = RESERVED_ADMIN_GROUP
          /\ pc'[p] \in {"load", "store"} =>
               ~(job[p].op = "remove" /\ job[p].group = RESERVED_ADMIN_GROUP)
      BY <1>2, <2>3 DEF FindWork, LocalTypes, CountInv, CountsAdmins
    <3>2. AdminRecords({})' = {}
      BY DEF AdminRecords
    <3>3. pc'[p] = "count" => Subs \ todo'[p] = {}
      BY <3>1
    <3>4. pc'[p] = "count" => found'[p] = AdminRecords(Subs \ todo[p])'
      BY <3>1, <3>2, <3>3 DEF AdminRecords
    <3> QED
      BY <3>1, <3>4 DEF CountsOn, CountsAdmins, SparesLastAdmin
  <2>4. ASSUME NEW sub \in Subs, Count(p, sub)
        PROVE  CountsOn(p)'
    BY <2>4, CountStep
  <2>5. CASE Load(p)
    <3>1. ~Store(p)
      BY <2>5 DEF Load, Store
    <3>2. CASE GiveUp(p)
      BY <1>2, <3>2, ProceededCountsOn
    <3>3. CASE pc' = [pc EXCEPT ![p] = "store"] /\ UNCHANGED <<boot, job, todo, found>>
      <4>1. pc'[p] = "store" /\ job'[p] = job[p] /\ pc[p] = "load"
        BY <1>2, <2>5, <3>3 DEF Load, LocalTypes
      <4> QED
        BY <1>3, <3>1, <4>1 DEF CountsOn, CountsAdmins, SparesLastAdmin, CountInv
    <3> QED
      BY <2>5, <3>2, <3>3 DEF Load
  <2>6. CASE Store(p)
    <3>1. pc'[p] \in {"down", "idle", "find"}
      BY <2>6, StoreAlone DEF CountInv
    <3>2. pc'[p] = "find" => found'[p] = {}
      <4>1. PICK e \in WriteEffect :
              CASE e.outcome = "ok" -> Proceed(p)
                [] e.outcome = "error" -> GiveUp(p)
                [] e.outcome = "crash" -> TurnTo(p, "down", 0, None)
        BY <2>6 DEF Store
      <4>2. e.outcome \in {"ok", "error", "crash"}
        BY DEF WriteEffect
      <4>3. CASE e.outcome = "ok"
        <5>1. Proceed(p)
          BY <4>1, <4>3
        <5> QED
          BY <1>2, <5>1, ProceededCountsOn DEF CountsOn, CountsAdmins
      <4>4. CASE e.outcome = "error"
        <5>1. GiveUp(p)
          BY <4>1, <4>4
        <5> QED
          BY <1>2, <5>1, ProceededCountsOn DEF CountsOn, CountsAdmins
      <4>5. CASE e.outcome = "crash"
        <5>1. TurnTo(p, "down", 0, None)
          BY <4>1, <4>5
        <5> QED
          BY <1>2, <5>1 DEF TurnTo, LocalTypes
      <4> QED
        BY <4>2, <4>3, <4>4, <4>5
    <3> QED
      BY <3>1, <3>2 DEF CountsOn, CountsAdmins, SparesLastAdmin
  <2>7. CASE UNCHANGED local /\ ~Store(p)
    BY <1>3, <2>7
    DEF local, CountsOn, CountInv, CountsAdmins, SparesLastAdmin, AdminRecords, Holding
  <2>8. ASSUME NEW actor \in Subs, NEW req \in Requests, Admit(p, actor, req)
        PROVE  UNCHANGED local
    BY <2>8 DEF Admit
  <2>9. UNCHANGED vars => UNCHANGED local
    BY DEF vars
  <2> QED
    BY <2>1, <2>2, <2>3, <2>4, <2>5, <2>6, <2>7, <2>8, <2>9 DEF Next, Call, Alone
<1> QED
  BY <1>1, <1>4 DEF CountInv, CountsOn

\* A process that is down counts nothing.
LEMMA CountInvInit ==
  ASSUME NEW p, Alone(p), Init
  PROVE  CountInv(p)
<1>1. AloneInv(p) /\ pc[p] = "down" /\ job[p] = None /\ waiting[p] = None
  BY AloneInit DEF Alone, Init
<1> QED
  BY <1>1 DEF CountInv, CountsAdmins, SparesLastAdmin, WorkNeedsAdmin

\* A single process never removes the last admin, however a startup, a crash
\* or a failed write comes between the count and the removal.
THEOREM AnAdminRemainsAlone ==
  ASSUME NEW p, Processes = {p}, LateSlots = {}
  PROVE  Spec => AnAdminAlwaysRemains
<1>1. Alone(p)
  BY DEF Alone
<1>2. Init => CountInv(p)
  BY <1>1, CountInvInit
<1>3. CountInv(p) /\ [Next]_vars => CountInv(p)'
  BY <1>1, CountInvStep
<1>4. CountInv(p) /\ [Next]_vars => [AdminSubs # {} => AdminSubs' # {}]_vars
  BY <1>1, AdminRemainsStep
<1> QED
  BY <1>2, <1>3, <1>4, PTL DEF Spec, AnAdminAlwaysRemains

-------------------------------------------------------------------------------
(***************************************************************************)
(* The refinement.                                                         *)
(***************************************************************************)
\* An empty Vault has no admins.
LEMMA AloneInitRefines == Init => Access!Init
  BY DEF Init, AdminSubs, Holding, Access!Init, Access!Nothing

\* Every write binds, appoints or dismisses an admin, or changes none.
LEMMA AloneStepRefines ==
  ASSUME NEW p, Alone(p), CountInv(p), [Next]_vars
  PROVE  Access!Next \/ UNCHANGED Access!vars
<1> DEFINE sub == job[p].sub
<1>1. CASE AdminSubs' = AdminSubs
  BY <1>1 DEF Access!vars
<1>2. CASE Store(p) /\ AdminSubs' # AdminSubs
  <2>1. CASE /\ boot[p] # 0 /\ sub \in Subs /\ IsTrusted(sub)
             /\ AdminSubs' = AdminSubs \cup {sub}
    <3>1. {sub} \in SUBSET {TrustedSubs[i] : i \in 1..Len(TrustedSubs)}
      BY <2>1 DEF IsTrusted
    <3>2. Access!Bind
      BY <2>1, <3>1 DEF Access!Bind
    <3> QED
      BY <3>2 DEF Access!Next
  <2>2. CASE boot[p] = 0 /\ sub \in Subs /\ AdminSubs # {} /\ AdminSubs' = AdminSubs \cup {sub}
    <3>1. Access!Appoint(sub)
      BY <2>2 DEF Access!Appoint
    <3> QED
      BY <2>2, <3>1 DEF Access!Next
  <2>3. CASE sub \in Subs /\ AdminSubs' = AdminSubs \ {sub} /\ AdminSubs' # {}
    <3>1. Access!Dismiss(sub)
      BY <2>3 DEF Access!Dismiss
    <3> QED
      BY <2>3, <3>1 DEF Access!Next
  <2> QED
    BY <1>2, <2>1, <2>2, <2>3, StoreAdmins
<1>3. CASE ~Store(p)
  BY <1>1, <1>3, OthersLeaveAdmins
<1> QED
  BY <1>1, <1>2, <1>3

\* Vault call by Vault call, a single process does what AccessPromise allows of
\* the admins and nothing else.
THEOREM ImplementsAccessAlone ==
  ASSUME NEW p, Processes = {p}, LateSlots = {}
  PROVE  Spec => ImplementsAccessPromise
<1>1. Alone(p)
  BY DEF Alone
<1>2. Init => CountInv(p)
  BY <1>1, CountInvInit
<1>3. CountInv(p) /\ [Next]_vars => CountInv(p)'
  BY <1>1, CountInvStep
<1>4. CountInv(p) /\ [Next]_vars => [Access!Next]_Access!vars
  BY <1>1, AloneStepRefines
<1> QED
  BY <1>2, <1>3, <1>4, AloneInitRefines, PTL
     DEF Spec, ImplementsAccessPromise, Access!Spec
===============================================================================
