------------------------ MODULE VaultMembershipsProofs ------------------------
(***************************************************************************)
(* What holds of VaultMemberships for any number of processes, writes that *)
(* are late, subjects, groups and requests; and, at the end, what a single *)
(* process without late writes adds to it.                                 *)
(***************************************************************************)
EXTENDS VaultMemberships, SequenceTheorems, TLAPS

-------------------------------------------------------------------------------
(***************************************************************************)
(* The bootstrap's jobs.                                                   *)
(***************************************************************************)
IsTrusted(sub) == \E i \in 1..Len(TrustedSubs) : sub = TrustedSubs[i]

\* The bootstrap defines its group, and then adds trusted subjects to it.
LEMMA BootJobsContents ==
  /\ Len(BootJobs) \in Nat \ {0}
  /\ BootJobs[1] = BootCreate
  /\ \A i \in 1..Len(BootJobs) :
       \/ BootJobs[i] = BootCreate
       \/ \E sub \in Subs : IsTrusted(sub) /\ BootJobs[i] = BootAdd(sub)
<1> DEFINE adds == [i \in 1..Len(TrustedSubs) |-> BootAdd(TrustedSubs[i])]
           jobs == {BootCreate} \cup {BootAdd(sub) : sub \in Subs}
<1>1. TrustedSubs \in Seq(Subs) /\ Len(TrustedSubs) \in Nat
  BY TrustedAssumption
<1>2. \A i \in 1..Len(TrustedSubs) : TrustedSubs[i] \in Subs
  BY <1>1
<1>3. adds \in Seq(jobs) /\ Len(adds) = Len(TrustedSubs)
  <2>1. adds \in [1..Len(TrustedSubs) -> jobs]
    BY <1>2
  <2> QED
    BY <1>1, <2>1, SeqDef, LenProperties
<1>4. <<BootCreate>> \in Seq(jobs) /\ Len(<<BootCreate>>) = 1 /\ <<BootCreate>>[1] = BootCreate
  OBVIOUS
<1>5. BootJobs = <<BootCreate>> \o adds
  BY DEF BootJobs
<1>6. \A k \in 1..Len(TrustedSubs) : adds[k] = BootAdd(TrustedSubs[k])
  OBVIOUS
<1> HIDE DEF adds, jobs
<1>7. /\ Len(BootJobs) = 1 + Len(adds)
      /\ \A i \in 1..Len(BootJobs) : BootJobs[i] = IF i <= 1 THEN <<BootCreate>>[i] ELSE adds[i - 1]
  BY <1>3, <1>4, <1>5, ConcatProperties
<1>8. ASSUME NEW i \in 1..Len(BootJobs), i # 1
      PROVE  \E sub \in Subs : IsTrusted(sub) /\ BootJobs[i] = BootAdd(sub)
  <2>1. i - 1 \in 1..Len(TrustedSubs)
    BY <1>1, <1>3, <1>7, <1>8
  <2>2. BootJobs[i] = BootAdd(TrustedSubs[i - 1])
    <3>1. BootJobs[i] = adds[i - 1]
      BY <1>7, <1>8
    <3> QED
      BY <1>6, <2>1, <3>1
  <2> QED
    BY <1>2, <2>1, <2>2 DEF IsTrusted
<1> QED
  BY <1>1, <1>3, <1>4, <1>7, <1>8

-------------------------------------------------------------------------------
(***************************************************************************)
(* The inductive invariant.  Its parts take the group definitions as a     *)
(* parameter, because they only grow.                                      *)
(***************************************************************************)

\* A document, stored or about to be: one record per defined group
Sound(document, sub, defined) ==
  /\ document \subseteq UserGroupMembership
  /\ \A m \in document : m.keycloak_sub = sub /\ m.group_name \in defined
  /\ \A m, n \in document : m.group_name = n.group_name => m = n

\* What somebody asked for who was an admin when it was checked
Asked(j) ==
  j \in Job /\ j.entitled /\ (j.op = "create" <=> j.sub = None)

\* What a startup does: it adds admins once their group is defined
Booting(j, defined) ==
  \/ j = BootCreate
  \/ /\ \E sub \in Subs : IsTrusted(sub) /\ j = BootAdd(sub)
     /\ RESERVED_ADMIN_GROUP \in defined

\* How far a job has come: groups are looked up before a record is added
JobSound(j, next, step, document, defined) ==
  /\ IF step = 0 THEN Asked(j) ELSE Booting(j, defined)
  /\ next = "load" => j.op # "create"
  /\ next = "count" => j.op = "remove"
  /\ next = "load" /\ j.op = "add" => j.group \in defined
  /\ next = "store" /\ j.op # "create" => Sound(document, j.sub, defined)

JobsSound(jobs, nexts, steps, writes, defined) ==
  \A p \in Processes : jobs[p] # None =>
    JobSound(jobs[p], nexts[p], steps[p], writes[p], defined)

VaultInv ==
  /\ TypeOK
  /\ \A sub \in Subs : Sound(documents[sub], sub, groups)
  /\ JobsSound(job, pc, boot, loaded, groups)
  /\ \A p \in Processes : waiting[p] # None => Asked(waiting[p])
  /\ \A l \in LateSlots : (late[l] # None /\ late[l].sub # None) =>
       Sound(late[l].document, late[l].sub, groups)

LEMMA BootJobTyped ==
  ASSUME NEW j, NEW defined, Booting(j, defined)
  PROVE  /\ j \in Job /\ j # None /\ j.actor = None /\ j.group = RESERVED_ADMIN_GROUP
         /\ j.op \in {"create", "add"} /\ (j.op = "create" <=> j.sub = None)
         /\ j.op = "add" => RESERVED_ADMIN_GROUP \in defined /\ IsTrusted(j.sub)
<1>1. RESERVED_ADMIN_GROUP \in GroupNames /\ None \notin Subs
  BY SubsAssumption, GroupNamesAssumption
<1>2. CASE j = BootCreate
  <2>1. j.actor = None /\ j.op = "create" /\ j.sub = None /\ j.group = RESERVED_ADMIN_GROUP
    BY <1>2 DEF BootCreate
  <2>2. j \in Job
    BY <1>1, <1>2 DEF BootCreate, Job
  <2> QED
    BY <2>1, <2>2, NoJobAssumption
<1>3. ASSUME NEW sub, IsTrusted(sub), j = BootAdd(sub), RESERVED_ADMIN_GROUP \in defined
      PROVE  /\ j \in Job /\ j # None /\ j.actor = None /\ j.group = RESERVED_ADMIN_GROUP
             /\ j.op = "add" /\ j.sub # None /\ IsTrusted(j.sub)
  <2>1. sub \in Subs
    BY <1>3, TrustedAssumption DEF IsTrusted
  <2>2. /\ j.actor = None /\ j.op = "add" /\ j.sub = sub
        /\ j.group = RESERVED_ADMIN_GROUP
    BY <1>3 DEF BootAdd
  <2>3. j \in Job
    BY <1>1, <1>3, <2>1 DEF BootAdd, Job
  <2> QED
    BY <1>1, <1>3, <2>1, <2>2, <2>3, NoJobAssumption
<1> QED
  BY <1>2, <1>3 DEF Booting

LEMMA SoundGrows ==
  ASSUME NEW document, NEW sub, NEW defined, NEW defined2,
         Sound(document, sub, defined), defined \subseteq defined2
  PROVE  Sound(document, sub, defined2)
  BY DEF Sound

LEMMA JobSoundGrows ==
  ASSUME NEW j, NEW next, NEW step, NEW document,
         NEW defined, NEW defined2,
         JobSound(j, next, step, document, defined), defined \subseteq defined2
  PROVE  JobSound(j, next, step, document, defined2)
<1>1. Booting(j, defined) => Booting(j, defined2)
  BY DEF Booting
<1> QED
  BY <1>1, SoundGrows DEF JobSound

-------------------------------------------------------------------------------
(***************************************************************************)
(* Two halves of a step: the store and the process.                        *)
(***************************************************************************)
StoreTypes ==
  /\ groups \subseteq GroupNames
  /\ documents \in [Subs -> SUBSET UserGroupMembership]
  /\ \A sub \in Subs : Sound(documents[sub], sub, groups)

LocalTypes ==
  /\ pc \in [Processes -> PCs]
  /\ boot \in [Processes -> 0..Len(BootJobs)]
  /\ job \in [Processes -> Job \cup {None}]
  /\ \A p \in Processes : job[p] = None <=> pc[p] \in {"down", "idle"}
  /\ todo \in [Processes -> SUBSET Subs]
  /\ found \in [Processes -> SUBSET UserGroupMembership]
  /\ loaded \in [Processes -> SUBSET UserGroupMembership]

QueueTypes ==
  /\ waiting \in [Processes -> Job \cup {None}]
  /\ late \in [LateSlots -> PendingWrite \cup {None}]
  /\ answered \in [Subs -> [GroupNames -> {"held", "gone", None}]]
  /\ \A p \in Processes : waiting[p] # None => Asked(waiting[p])
  /\ \A l \in LateSlots : (late[l] # None /\ late[l].sub # None) =>
       Sound(late[l].document, late[l].sub, groups)

LEMMA VaultInvParts ==
  VaultInv <=> /\ StoreTypes /\ LocalTypes /\ QueueTypes
               /\ JobsSound(job, pc, boot, loaded, groups)
<1>1. StoreTypes => \A sub \in Subs, m \in UNION {documents[s] : s \in Subs} :
                      m \in documents[sub] <=> m.keycloak_sub = sub
  BY DEF StoreTypes, Sound
<1> QED
  BY <1>1 DEF VaultInv, TypeOK, StoreTypes, LocalTypes, QueueTypes

\* The same after a step.
LEMMA VaultInvKept ==
  ASSUME StoreTypes', LocalTypes', QueueTypes',
         JobsSound(job', pc', boot', loaded', groups')
  PROVE  VaultInv'
<1>1. \A sub \in Subs, m \in UNION {documents'[s] : s \in Subs} :
        m \in documents'[sub] <=> m.keycloak_sub = sub
  BY DEF StoreTypes, Sound
<1> QED
  BY <1>1 DEF VaultInv, TypeOK, StoreTypes, LocalTypes, QueueTypes

\* The parts that a step does not touch stand while the store grows.
LEMMA RestGrows ==
  ASSUME VaultInv, groups \subseteq groups'
  PROVE  /\ UNCHANGED local =>
              LocalTypes' /\ JobsSound(job', pc', boot', loaded', groups')
         /\ UNCHANGED waiting =>
              /\ waiting' \in [Processes -> Job \cup {None}]
              /\ \A p \in Processes : waiting'[p] # None => Asked(waiting'[p])
         /\ UNCHANGED late =>
              /\ late' \in [LateSlots -> PendingWrite \cup {None}]
              /\ \A l \in LateSlots : (late'[l] # None /\ late'[l].sub # None) =>
                   Sound(late'[l].document, late'[l].sub, groups')
<1> USE VaultInvParts
<1>1. ASSUME UNCHANGED local
      PROVE  LocalTypes' /\ JobsSound(job', pc', boot', loaded', groups')
  <2>1. LocalTypes'
    BY <1>1 DEF LocalTypes, local
  <2>2. JobsSound(job, pc, boot, loaded, groups')
    BY JobSoundGrows DEF JobsSound
  <2> QED
    BY <1>1, <2>1, <2>2 DEF local
<1>2. ASSUME UNCHANGED waiting
      PROVE  /\ waiting' \in [Processes -> Job \cup {None}]
             /\ \A p \in Processes : waiting'[p] # None => Asked(waiting'[p])
  BY <1>2 DEF QueueTypes
<1>3. ASSUME UNCHANGED late
      PROVE  /\ late' \in [LateSlots -> PendingWrite \cup {None}]
             /\ \A l \in LateSlots : (late'[l] # None /\ late'[l].sub # None) =>
                  Sound(late'[l].document, late'[l].sub, groups')
  BY <1>3, SoundGrows DEF QueueTypes
<1> QED
  BY <1>1, <1>2, <1>3

\* A sound write leaves the store sound, whenever it is applied.
LEMMA WriteApplied ==
  ASSUME VaultInv, NEW STATE w, w \in PendingWrite, ApplyWrite(w),
         w.sub # None => Sound(w.document, w.sub, groups)
  PROVE  /\ StoreTypes' /\ groups \subseteq groups'
         /\ w.sub = None => w.group \in groups'
<1>1. StoreTypes
  BY VaultInvParts
<1>2. /\ groups \subseteq groups' /\ groups' \subseteq GroupNames
      /\ w.sub = None => w.group \in groups'
  BY <1>1 DEF ApplyWrite, StoreTypes, PendingWrite
<1>3. /\ documents' \in [Subs -> SUBSET UserGroupMembership]
      /\ \A sub \in Subs : Sound(documents'[sub], sub, groups')
  <2>1. \A sub \in Subs : Sound(documents[sub], sub, groups')
    BY <1>1, <1>2, SoundGrows DEF StoreTypes
  <2>2. CASE w.sub = None
    BY <1>1, <2>1, <2>2 DEF ApplyWrite, StoreTypes
  <2>3. CASE w.sub # None
    <3>1. w.sub \in Subs /\ w.document \subseteq UserGroupMembership
      BY <2>3 DEF PendingWrite
    <3>2. Sound(w.document, w.sub, groups')
      BY <1>2, <2>3, SoundGrows
    <3>3. documents' = [documents EXCEPT ![w.sub] = w.document]
      BY <2>3 DEF ApplyWrite
    <3> QED
      BY <1>1, <2>1, <3>1, <3>2, <3>3 DEF StoreTypes
  <2> QED
    BY <2>2, <2>3
<1> QED
  BY <1>2, <1>3 DEF StoreTypes

\* No write, no change to the store.
LEMMA NothingApplied ==
  ASSUME VaultInv, UNCHANGED store
  PROVE  StoreTypes' /\ groups \subseteq groups'
  BY VaultInvParts DEF store, StoreTypes

\* What a process turns to has to be sound; the others are as they were.
LEMMA Turned ==
  ASSUME VaultInv, groups \subseteq groups',
         NEW p \in Processes, NEW STATE next, next \in PCs,
         NEW STATE step, step \in 0..Len(BootJobs),
         NEW STATE j, j \in Job \cup {None}, TurnTo(p, next, step, j),
         j = None <=> next \in {"down", "idle"},
         j # None => JobSound(j, next, step, {}, groups')
  PROVE  LocalTypes' /\ JobsSound(job', pc', boot', loaded', groups')
<1>1. LocalTypes /\ JobsSound(job, pc, boot, loaded, groups')
  BY VaultInvParts, JobSoundGrows DEF JobsSound
<1>2. LocalTypes'
  BY <1>1 DEF TurnTo, LocalTypes
<1>3. JobsSound(job', pc', boot', loaded', groups')
  <2> SUFFICES ASSUME NEW q \in Processes, job'[q] # None
               PROVE  JobSound(job'[q], pc'[q], boot'[q], loaded'[q], groups')
    BY DEF JobsSound
  <2>1. CASE q = p
    <3>1. job'[q] = j /\ pc'[q] = next /\ boot'[q] = step /\ loaded'[q] = {}
      BY <1>1, <2>1 DEF TurnTo, LocalTypes
    <3> QED
      BY <3>1
  <2>2. CASE q # p
    <3>1. job'[q] = job[q] /\ pc'[q] = pc[q] /\ boot'[q] = boot[q] /\ loaded'[q] = loaded[q]
      BY <1>1, <2>2 DEF TurnTo, LocalTypes
    <3> QED
      BY <1>1, <3>1 DEF JobsSound
  <2> QED
    BY <2>1, <2>2
<1> QED
  BY <1>2, <1>3

LEMMA TurnedToNothing ==
  ASSUME VaultInv, groups \subseteq groups',
         NEW p \in Processes, NEW STATE next, next \in {"down", "idle"}, TurnTo(p, next, 0, None)
  PROVE  LocalTypes' /\ JobsSound(job', pc', boot', loaded', groups')
<1>1. next \in PCs /\ 0 \in 0..Len(BootJobs)
  BY BootJobsContents DEF PCs
<1> QED
  BY <1>1, Turned

LEMMA GaveUp ==
  ASSUME VaultInv, groups \subseteq groups',
         NEW p \in Processes, GiveUp(p)
  PROVE  LocalTypes' /\ JobsSound(job', pc', boot', loaded', groups')
<1> DEFINE next == IF boot[p] = 0 THEN "idle" ELSE "down"
<1>1. next \in {"down", "idle"} /\ TurnTo(p, next, 0, None)
  BY DEF GiveUp
<1> HIDE DEF next
<1> QED
  BY <1>1, TurnedToNothing

\* A startup goes on only when its group is defined.
LEMMA Proceeded ==
  ASSUME VaultInv, groups \subseteq groups',
         NEW p \in Processes, Proceed(p),
         boot[p] # 0 => RESERVED_ADMIN_GROUP \in groups'
  PROVE  LocalTypes' /\ JobsSound(job', pc', boot', loaded', groups')
<1>1. boot[p] \in 0..Len(BootJobs)
  BY VaultInvParts DEF LocalTypes
<1>2. CASE boot[p] = 0 \/ boot[p] = Len(BootJobs)
  <2>1. TurnTo(p, "idle", 0, None)
    BY <1>2 DEF Proceed
  <2> QED
    BY <2>1, TurnedToNothing
<1>3. CASE ~(boot[p] = 0 \/ boot[p] = Len(BootJobs))
  <2> DEFINE step == boot[p] + 1
             j == BootJobs[step]
  <2>1. step \in 1..Len(BootJobs) /\ TurnTo(p, "find", step, j)
    BY <1>1, <1>3, BootJobsContents DEF Proceed
  <2>2. step \in 0..Len(BootJobs) /\ step # 0 /\ "find" \in PCs
    BY <2>1, BootJobsContents DEF PCs
  <2>3. Booting(j, groups')
    BY <1>3, <2>1, BootJobsContents DEF Booting
  <2> HIDE DEF step, j
  <2>4. j \in Job /\ j # None
    BY <2>3, BootJobTyped
  <2>5. JobSound(j, "find", step, {}, groups')
    BY <2>2, <2>3 DEF JobSound
  <2> QED
    BY <2>1, <2>2, <2>4, <2>5, Turned
<1> QED
  BY <1>2, <1>3

\* What is known of the job of a process that makes a call.
LEMMA JobFacts ==
  ASSUME VaultInv, NEW p \in Processes, pc[p] \notin {"down", "idle"}
  PROVE  /\ job[p] \in Job /\ job[p] # None
         /\ JobSound(job[p], pc[p], boot[p], loaded[p], groups)
         /\ job[p].op = "create" <=> job[p].sub = None
         /\ job[p].op # "create" => job[p].sub \in Subs
         /\ boot[p] # 0 => /\ job[p].group = RESERVED_ADMIN_GROUP /\ job[p].op # "remove"
                           /\ job[p].op = "add" => RESERVED_ADMIN_GROUP \in groups
         /\ boot[p] \in 0..Len(BootJobs)
<1>1. job[p] \in Job /\ job[p] # None /\ boot[p] \in 0..Len(BootJobs)
  BY VaultInvParts, NoJobAssumption DEF LocalTypes
<1>2. JobSound(job[p], pc[p], boot[p], loaded[p], groups)
  BY <1>1 DEF VaultInv, JobsSound
<1>3. CASE boot[p] = 0
  BY <1>1, <1>2, <1>3 DEF JobSound, Asked, Job
<1>4. CASE boot[p] # 0
  BY <1>1, <1>2, <1>4, BootJobTyped DEF JobSound, Job
<1> QED
  BY <1>1, <1>2, <1>3, <1>4

\* The document a grant writes is sound: its new record is of a defined group
\* and replaces one of the same group.
LEMMA GrantIsSound ==
  ASSUME VaultInv, NEW p \in Processes, pc[p] = "load", job[p].op = "add",
         NEW document, Sound(document, job[p].sub, groups)
  PROVE  Sound(WithGrant(document, job[p]), job[p].sub, groups)
<1> DEFINE j == job[p]
           m == Grant(j)
<1>1. /\ j \in Job /\ j.sub \in Subs /\ j.group \in groups
      /\ JobSound(j, "load", boot[p], loaded[p], groups)
  BY JobFacts DEF JobSound
<1>2. m \in UserGroupMembership
  BY <1>1 DEF Job, Grant, UserGroupMembership
<1>3. m.keycloak_sub = j.sub /\ m.group_name = j.group
  BY DEF Grant
<1>4. WithGrant(document, j) = (document \ Holding(document, j.group)) \cup {m}
  BY DEF WithGrant
<1>5. \A n \in document \ Holding(document, j.group) : n \in document /\ n.group_name # m.group_name
  BY <1>3 DEF Holding
<1> QED
  BY <1>1, <1>2, <1>3, <1>4, <1>5 DEF Sound

LEMMA VaultStep == VaultInv /\ [Next]_vars => VaultInv'
<1> SUFFICES ASSUME VaultInv, [Next]_vars
             PROVE  VaultInv'
  OBVIOUS
<1> USE VaultInvParts, VaultInvKept
<1>1. ASSUME UNCHANGED store
      PROVE  StoreTypes' /\ groups \subseteq groups'
  BY <1>1, NothingApplied
<1>2. ASSUME NEW p \in Processes, Startup(p)
      PROVE  VaultInv'
  <2>1. TurnTo(p, "find", 1, BootCreate)
    BY <1>2, BootJobsContents DEF Startup
  <2>2. BootCreate \in Job /\ BootCreate # None /\ Booting(BootCreate, groups')
    BY BootJobTyped DEF Booting
  <2>3. JobSound(BootCreate, "find", 1, {}, groups')
    BY <2>2 DEF JobSound
  <2>4. 1 \in 0..Len(BootJobs) /\ "find" \in PCs
    BY BootJobsContents DEF PCs
  <2>5. LocalTypes' /\ JobsSound(job', pc', boot', loaded', groups')
    BY <1>1, <1>2, <2>1, <2>2, <2>3, <2>4, Turned DEF Startup
  <2> QED
    BY <1>1, <1>2, <2>5, RestGrows DEF Startup, QueueTypes
<1>3. ASSUME NEW p \in Processes, Crash(p)
      PROVE  VaultInv'
  <2>1. LocalTypes' /\ JobsSound(job', pc', boot', loaded', groups')
    BY <1>1, <1>3, TurnedToNothing DEF Crash
  <2>2. QueueTypes'
    BY <1>1, <1>3, RestGrows DEF Crash, QueueTypes
  <2> QED
    BY <1>1, <1>3, <2>1, <2>2 DEF Crash
<1>4. ASSUME NEW p \in Processes, NEW actor \in Subs, NEW req \in Requests, Admit(p, actor, req)
      PROVE  VaultInv'
  <2> DEFINE j == [actor |-> actor, op |-> req.op, sub |-> req.sub, group |-> req.group,
                   entitled |-> actor \in AdminSubs]
  <2>1. req \in Request
    BY RequestsAssumption
  <2>2. j \in Job /\ (j.op = "create" <=> j.sub = None)
    BY <2>1, SubsAssumption DEF Request, Job
  <2>3. actor \in AdminSubs
    BY <1>4 DEF Admit, is_admin
  <2>4. waiting' = [waiting EXCEPT ![p] = j]
    BY <1>4 DEF Admit
  <2> HIDE DEF j
  <2>5. Asked(j)
    BY <2>2, <2>3 DEF Asked, j
  <2>6. QueueTypes'
    BY <1>4, <2>2, <2>4, <2>5 DEF Admit, QueueTypes, store
  <2> QED
    BY <1>1, <1>4, <2>6, RestGrows DEF Admit
<1>5. ASSUME NEW p \in Processes, Handle(p)
      PROVE  VaultInv'
  <2>1. waiting[p] \in Job /\ waiting[p] # None /\ Asked(waiting[p])
    BY <1>5 DEF Handle, QueueTypes
  <2>2. JobSound(waiting[p], "find", 0, {}, groups')
    BY <1>5, <2>1 DEF Handle, JobSound
  <2>3. 0 \in 0..Len(BootJobs) /\ "find" \in PCs
    BY BootJobsContents DEF PCs
  <2>4. LocalTypes' /\ JobsSound(job', pc', boot', loaded', groups')
    BY <1>1, <1>5, <2>1, <2>2, <2>3, Turned DEF Handle
  <2>5. QueueTypes'
    BY <1>1, <1>5, RestGrows DEF Handle, QueueTypes
  <2> QED
    BY <1>1, <1>5, <2>4, <2>5 DEF Handle
<1>6. ASSUME NEW p \in Processes, FindNothingToDo(p)
      PROVE  VaultInv'
  <2>1. boot[p] # 0 => RESERVED_ADMIN_GROUP \in groups
    BY <1>6, JobFacts DEF FindNothingToDo, Found
  <2>2. LocalTypes' /\ JobsSound(job', pc', boot', loaded', groups')
    BY <1>1, <1>6, <2>1, Proceeded DEF FindNothingToDo
  <2>3. answered' \in [Subs -> [GroupNames -> {"held", "gone", None}]]
    BY <1>6, JobFacts DEF FindNothingToDo, QueueTypes, Job
  <2> QED
    BY <1>1, <1>6, <2>2, <2>3, RestGrows DEF FindNothingToDo, QueueTypes
<1>7. ASSUME NEW p \in Processes, FindNoGrounds(p) \/ ReadFails(p)
      PROVE  VaultInv'
  <2>1. LocalTypes' /\ JobsSound(job', pc', boot', loaded', groups')
    BY <1>1, <1>7, GaveUp DEF FindNoGrounds, ReadFails
  <2> QED
    BY <1>1, <1>7, <2>1, RestGrows DEF FindNoGrounds, ReadFails, QueueTypes
<1>8. ASSUME NEW p \in Processes, FindWork(p)
      PROVE  VaultInv'
  <2>1. /\ UNCHANGED <<store, boot, job, found, loaded, waiting, late, answered>>
        /\ pc[p] = "find" /\ GroupKnown(p)
        /\ pc' = [pc EXCEPT ![p] = pc'[p]] /\ todo' = [todo EXCEPT ![p] = todo'[p]]
        /\ todo'[p] \subseteq Subs /\ pc'[p] \in {"store", "count", "load"}
        /\ pc'[p] = "store" <=> job[p].op = "create"
        /\ pc'[p] = "count" => job[p].op = "remove"
    BY <1>8 DEF FindWork, LocalTypes
  <2>2. LocalTypes'
    BY <2>1 DEF LocalTypes, PCs
  <2>3. JobSound(job[p], pc'[p], boot[p], loaded[p], groups)
    BY <2>1, JobFacts DEF JobSound, GroupKnown
  <2>4. JobsSound(job', pc', boot', loaded', groups')
    BY <2>1, <2>3 DEF JobsSound, store, LocalTypes
  <2> QED
    BY <1>1, <2>1, <2>2, <2>4, RestGrows DEF QueueTypes
<1>9. ASSUME NEW p \in Processes, NEW sub \in Subs, Count(p, sub)
      PROVE  VaultInv'
  <2>1. /\ UNCHANGED <<store, waiting, late, answered>>
        /\ pc[p] = "count" /\ job[p].op # "create"
    BY <1>9, JobFacts DEF Count, JobSound
  <2>2. LocalTypes' /\ JobsSound(job', pc', boot', loaded', groups')
    <3>1. CASE GiveUp(p)
      BY <1>1, <2>1, <3>1, GaveUp
    <3>2. CASE TurnTo(p, "load", boot[p], job[p])
      <4>1. job[p].op = "remove"
        BY <2>1, JobFacts DEF JobSound
      <4>2. JobSound(job[p], "load", boot[p], {}, groups')
        BY <2>1, <4>1, JobFacts DEF JobSound, store
      <4>3. "load" \in PCs
        BY DEF PCs
      <4> QED
        BY <1>1, <2>1, <3>2, <4>2, <4>3, JobFacts, Turned
    <3>3. CASE /\ todo' = [todo EXCEPT ![p] = StillToRead(p, sub)]
               /\ found' = [found EXCEPT ![p] = found[p] \cup
                                Holding(documents[sub], RESERVED_ADMIN_GROUP)]
               /\ UNCHANGED <<pc, boot, job, loaded>>
      <4>1. LocalTypes'
        BY <3>3 DEF LocalTypes, StoreTypes, StillToRead, Holding
      <4> QED
        BY <2>1, <3>3, <4>1 DEF store, VaultInv
    <3> QED
      BY <1>9, <3>1, <3>2, <3>3 DEF Count
  <2> QED
    BY <1>1, <2>1, <2>2, RestGrows DEF QueueTypes
<1>10. ASSUME NEW p \in Processes, Load(p)
       PROVE  VaultInv'
  <2> DEFINE j == job[p]
             kept == documents[j.sub] \ Holding(documents[j.sub], j.group)
             document == IF j.op = "add" THEN WithGrant(documents[j.sub], j) ELSE kept
  <2>1. /\ UNCHANGED <<store, waiting, late, answered>>
        /\ pc[p] = "load" /\ j.op # "create"
    BY <1>10, JobFacts DEF Load, JobSound
  <2>2. LocalTypes' /\ JobsSound(job', pc', boot', loaded', groups')
    <3>1. CASE GiveUp(p)
      BY <1>1, <2>1, <3>1, GaveUp
    <3>2. CASE /\ pc' = [pc EXCEPT ![p] = "store"]
               /\ loaded' = [loaded EXCEPT ![p] = document]
               /\ UNCHANGED <<boot, job, todo, found>>
      <4>1. Sound(documents[j.sub], j.sub, groups)
        BY <2>1, JobFacts DEF StoreTypes
      <4>2. Sound(kept, j.sub, groups)
        BY <4>1 DEF Sound
      <4>3. j.op = "add" => Sound(WithGrant(documents[j.sub], j), j.sub, groups)
        BY <2>1, <4>1, GrantIsSound
      <4>4. Sound(document, j.sub, groups)
        BY <4>2, <4>3
      <4> HIDE DEF document
      <4>5. document \subseteq UserGroupMembership
        BY <4>4 DEF Sound
      <4>6. LocalTypes'
        BY <2>1, <3>2, <4>5 DEF LocalTypes, PCs
      <4>7. JobSound(j, "store", boot[p], document, groups)
        BY <2>1, <4>4, JobFacts DEF JobSound
      <4>8. JobsSound(job', pc', boot', loaded', groups')
        BY <2>1, <3>2, <4>7 DEF JobsSound, store, LocalTypes
      <4> QED
        BY <4>6, <4>8
    <3> QED
      BY <1>10, <3>1, <3>2 DEF Load
  <2> QED
    BY <1>1, <2>1, <2>2, RestGrows DEF QueueTypes
<1>11. ASSUME NEW p \in Processes, Store(p)
       PROVE  VaultInv'
  <2> DEFINE w == Write(p)
  <2>1. PICK e \in WriteEffect :
          /\ IF e.applied = "now" THEN ApplyWrite(w) ELSE UNCHANGED store
          /\ IF e.applied = "late"
               THEN \E l \in LateSlots : late[l] = None /\ late' = [late EXCEPT ![l] = w]
               ELSE UNCHANGED late
          /\ CASE e.outcome = "ok" -> Proceed(p)
               [] e.outcome = "error" -> GiveUp(p)
               [] e.outcome = "crash" -> TurnTo(p, "down", 0, None)
          /\ waiting' = IF e.outcome = "crash" THEN [waiting EXCEPT ![p] = None] ELSE waiting
          /\ answered' = Answered(job[p], e.outcome)
    BY <1>11 DEF Store
  <2>2. /\ pc[p] = "store"
        /\ e.outcome \in {"ok", "error", "crash"}
        /\ e.outcome = "ok" => e.applied = "now"
    BY <1>11 DEF Store, WriteEffect
  <2>3. /\ w \in PendingWrite /\ w.sub = job[p].sub /\ w.group = job[p].group
        /\ w.document = loaded[p]
        /\ w.sub # None => Sound(w.document, w.sub, groups)
    BY <2>2, JobFacts DEF Write, PendingWrite, Job, LocalTypes, JobSound
  <2> HIDE DEF w
  <2>4. /\ StoreTypes' /\ groups \subseteq groups'
        /\ (e.applied = "now" /\ w.sub = None) => w.group \in groups'
    BY <2>1, <2>2, <2>3, WriteApplied, NothingApplied
  <2>5. LocalTypes' /\ JobsSound(job', pc', boot', loaded', groups')
    <3>1. CASE e.outcome = "ok"
      <4>1. Proceed(p)
        BY <2>1, <3>1
      <4>2. boot[p] # 0 => RESERVED_ADMIN_GROUP \in groups'
        BY <2>2, <2>3, <2>4, <3>1, JobFacts DEF Job
      <4> QED
        BY <2>4, <4>1, <4>2, Proceeded
    <3>2. CASE e.outcome = "error"
      <4>1. GiveUp(p)
        BY <2>1, <3>2
      <4> QED
        BY <2>4, <4>1, GaveUp
    <3>3. CASE e.outcome = "crash"
      <4>1. TurnTo(p, "down", 0, None)
        BY <2>1, <3>3
      <4> QED
        BY <2>4, <4>1, TurnedToNothing
    <3> QED
      BY <2>2, <3>1, <3>2, <3>3
  <2>6. /\ waiting' \in [Processes -> Job \cup {None}]
        /\ \A q \in Processes : waiting'[q] # None => Asked(waiting'[q])
    BY <2>1, <2>4 DEF QueueTypes
  <2>7. /\ late' \in [LateSlots -> PendingWrite \cup {None}]
        /\ \A l \in LateSlots : (late'[l] # None /\ late'[l].sub # None) =>
             Sound(late'[l].document, late'[l].sub, groups')
    <3>1. CASE UNCHANGED late
      BY <2>4, <3>1, RestGrows
    <3>2. CASE \E l \in LateSlots : late' = [late EXCEPT ![l] = w]
      BY <2>3, <2>4, <3>2, SoundGrows DEF QueueTypes
    <3> QED
      BY <2>1, <3>1, <3>2
  <2>8. answered' \in [Subs -> [GroupNames -> {"held", "gone", None}]]
    <3>1. job[p] \in Job /\ (job[p].op # "create" => job[p].sub \in Subs)
      BY <2>2, JobFacts
    <3>2. \A v \in {"held", "gone", None} :
            job[p].op # "create" =>
              [answered EXCEPT ![job[p].sub][job[p].group] = v]
                \in [Subs -> [GroupNames -> {"held", "gone", None}]]
      BY <3>1 DEF QueueTypes, Job
    <3>3. (IF e.outcome # "ok" THEN None ELSE IF job[p].op = "add" THEN "held" ELSE "gone")
            \in {"held", "gone", None}
      OBVIOUS
    <3> QED
      BY <2>1, <3>2, <3>3 DEF Answered, QueueTypes
  <2> QED
    BY <2>4, <2>5, <2>6, <2>7, <2>8 DEF QueueTypes
<1>12. ASSUME NEW l \in LateSlots, ArriveLate(l)
       PROVE  VaultInv'
  <2>1. /\ late[l] \in PendingWrite
        /\ late[l].sub # None => Sound(late[l].document, late[l].sub, groups)
    BY <1>12 DEF ArriveLate, QueueTypes
  <2>2. StoreTypes' /\ groups \subseteq groups'
    BY <1>12, <2>1, WriteApplied, NothingApplied DEF ArriveLate
  <2>3. /\ late' \in [LateSlots -> PendingWrite \cup {None}]
        /\ \A k \in LateSlots : (late'[k] # None /\ late'[k].sub # None) =>
             Sound(late'[k].document, late'[k].sub, groups')
    BY <1>12, <2>2, SoundGrows DEF ArriveLate, QueueTypes
  <2> QED
    BY <1>12, <2>2, <2>3, RestGrows DEF ArriveLate, QueueTypes
<1>13. CASE UNCHANGED vars
  BY <1>1, <1>13, RestGrows DEF vars, QueueTypes
<1> QED
  BY <1>2, <1>3, <1>4, <1>5, <1>6, <1>7, <1>8, <1>9, <1>10, <1>11, <1>12, <1>13
  DEF Next, Call

LEMMA VaultInit == Init => VaultInv
<1> SUFFICES ASSUME Init PROVE VaultInv
  OBVIOUS
<1>1. StoreTypes
  BY GroupNamesAssumption DEF Init, StoreTypes, Sound, AdminSubs, Holding
<1>2. LocalTypes
  BY BootJobsContents DEF Init, LocalTypes, PCs
<1>3. QueueTypes /\ JobsSound(job, pc, boot, loaded, groups)
  BY DEF Init, QueueTypes, JobsSound
<1> QED
  BY <1>1, <1>2, <1>3, VaultInvParts

\* However many processes share the prefix and whichever writes are late,
\* documents, jobs and late writes are well formed, and every job has grounds.
THEOREM VaultInvariant == Spec => []VaultInv
  BY VaultInit, VaultStep, PTL DEF Spec

\* Every variable holds values of its kind, in every process.
THEOREM VaultTypeCorrect == Spec => []TypeOK
<1>1. VaultInv => TypeOK
  BY DEF VaultInv
<1> QED
  BY <1>1, VaultInvariant, PTL

\* Lost updates, retries and late writes leave one record per membership.
THEOREM OneRecordPerGrantAlways == Spec => []OneRecordPerGrant
<1>1. VaultInv => OneRecordPerGrant
  BY DEF VaultInv, Sound, OneRecordPerGrant
<1> QED
  BY <1>1, VaultInvariant, PTL

\* Where a record can be: in a stored document, one about to be written, or one
\* on its way.
LEMMA NoNewRecords ==
  ASSUME VaultInv,
         \A p \in Processes : loaded'[p] \subseteq loaded[p],
         \A sub \in Subs : documents'[sub] \subseteq Records,
         \A l \in LateSlots : late'[l] # None => late'[l].document \subseteq Records
  PROVE  Records' \subseteq Records
<1>1. \A p \in Processes : loaded[p] \subseteq Records
  BY DEF Records
<1> SUFFICES ASSUME NEW m \in Records' PROVE m \in Records
  OBVIOUS
<1>2. \/ \E sub \in Subs : m \in documents'[sub]
      \/ \E p \in Processes : m \in loaded'[p]
      \/ \E l \in LateSlots : late'[l] # None /\ m \in late'[l].document
  BY DEF Records
<1> QED
  BY <1>1, <1>2

\* A process that turns to a job, or to none, drops its document.
LEMMA TurnedDrops ==
  ASSUME LocalTypes, NEW p \in Processes, NEW next, NEW step, NEW j, TurnTo(p, next, step, j)
  PROVE  \A q \in Processes : loaded'[q] \subseteq loaded[q]
  BY DEF TurnTo, LocalTypes

LEMMA EndDrops ==
  ASSUME LocalTypes, NEW p \in Processes, Proceed(p) \/ GiveUp(p)
  PROVE  \A q \in Processes : loaded'[q] \subseteq loaded[q]
  BY TurnedDrops DEF Proceed, GiveUp

\* Every step but a load moves records that are there, or drops them.
LEMMA OthersMakeNoRecord ==
  ASSUME VaultInv, [Next]_vars, \A p \in Processes : ~Load(p)
  PROVE  Records' \subseteq Records
<1> USE VaultInvParts
<1>1. /\ \A sub \in Subs : documents[sub] \subseteq Records
      /\ \A p \in Processes : loaded[p] \subseteq Records
      /\ \A l \in LateSlots : late[l] # None => late[l].document \subseteq Records
  BY DEF Records
<1>2. ASSUME NEW w, w \in PendingWrite, w.document \subseteq Records, ApplyWrite(w)
      PROVE  \A sub \in Subs : documents'[sub] \subseteq Records
  BY <1>1, <1>2 DEF ApplyWrite, PendingWrite, StoreTypes
<1>3. ASSUME NEW p \in Processes, Store(p)
      PROVE  Records' \subseteq Records
  <2> DEFINE w == Write(p)
  <2>1. PICK e \in WriteEffect :
          /\ IF e.applied = "now" THEN ApplyWrite(w) ELSE UNCHANGED store
          /\ IF e.applied = "late"
               THEN \E l \in LateSlots : late[l] = None /\ late' = [late EXCEPT ![l] = w]
               ELSE UNCHANGED late
          /\ CASE e.outcome = "ok" -> Proceed(p)
               [] e.outcome = "error" -> GiveUp(p)
               [] e.outcome = "crash" -> TurnTo(p, "down", 0, None)
    BY <1>3 DEF Store
  <2>2. w \in PendingWrite /\ w.document = loaded[p] /\ e.outcome \in {"ok", "error", "crash"}
    BY <1>3, JobFacts DEF Store, Write, PendingWrite, Job, LocalTypes, WriteEffect
  <2> HIDE DEF w
  <2>3. \A q \in Processes : loaded'[q] \subseteq loaded[q]
    <3>1. \/ Proceed(p) \/ GiveUp(p) \/ TurnTo(p, "down", 0, None)
      BY <2>1, <2>2
    <3> QED
      BY <3>1, TurnedDrops, EndDrops
  <2>4. \A sub \in Subs : documents'[sub] \subseteq Records
    BY <1>1, <1>2, <2>1, <2>2 DEF store
  <2>5. \A l \in LateSlots : late'[l] # None => late'[l].document \subseteq Records
    BY <1>1, <2>1, <2>2 DEF QueueTypes
  <2> QED
    BY <2>3, <2>4, <2>5, NoNewRecords
<1>4. ASSUME NEW l \in LateSlots, ArriveLate(l)
      PROVE  Records' \subseteq Records
  <2>1. late[l] \in PendingWrite /\ late[l] # None
    BY <1>4 DEF ArriveLate, QueueTypes
  <2>2. \A sub \in Subs : documents'[sub] \subseteq Records
    BY <1>1, <1>2, <1>4, <2>1 DEF ArriveLate, store
  <2>3. \A k \in LateSlots : late'[k] # None => late'[k].document \subseteq Records
    BY <1>1, <1>4 DEF ArriveLate, QueueTypes
  <2>4. loaded' = loaded
    BY <1>4 DEF ArriveLate, local
  <2> QED
    BY <2>2, <2>3, <2>4, NoNewRecords
<1>5. ASSUME UNCHANGED <<store, late>>, \A p \in Processes : loaded'[p] \subseteq loaded[p]
      PROVE  Records' \subseteq Records
  BY <1>1, <1>5, NoNewRecords DEF store
<1>6. ASSUME NEW p \in Processes, Startup(p) \/ Crash(p) \/ Handle(p)
      PROVE  Records' \subseteq Records
  BY <1>5, <1>6, TurnedDrops DEF Startup, Crash, Handle
<1>7. ASSUME NEW p \in Processes, FindNothingToDo(p) \/ FindNoGrounds(p) \/ ReadFails(p)
      PROVE  Records' \subseteq Records
  BY <1>5, <1>7, EndDrops DEF FindNothingToDo, FindNoGrounds, ReadFails
<1>8. ASSUME NEW p \in Processes, FindWork(p)
      PROVE  Records' \subseteq Records
  BY <1>5, <1>8 DEF FindWork
<1>9. ASSUME NEW p \in Processes, NEW sub \in Subs, Count(p, sub)
      PROVE  Records' \subseteq Records
  <2>1. \A q \in Processes : loaded'[q] \subseteq loaded[q]
    BY <1>9, TurnedDrops, EndDrops DEF Count
  <2> QED
    BY <1>5, <1>9, <2>1 DEF Count
<1>10. ASSUME NEW p \in Processes, NEW actor \in Subs, NEW req \in Requests, Admit(p, actor, req)
       PROVE  Records' \subseteq Records
  BY <1>5, <1>10 DEF Admit, local
<1>11. CASE UNCHANGED vars
  BY <1>5, <1>11 DEF vars, local
<1> QED
  BY <1>3, <1>4, <1>6, <1>7, <1>8, <1>9, <1>10, <1>11 DEF Next, Call

\* A load adds the record of its job, which has grounds.
LEMMA LoadMakesGrant ==
  ASSUME VaultInv, NEW p \in Processes, Load(p), NEW m \in Records', m \notin Records
  PROVE  job[p] # None /\ job[p].op = "add" /\ m = Grant(job[p]) /\ HasGrounds(p)
<1> USE VaultInvParts
<1> DEFINE j == job[p]
<1>1. /\ j # None /\ j.sub \in Subs
      /\ JobSound(j, "load", boot[p], loaded[p], groups)
      /\ documents' = documents /\ late' = late
  BY JobFacts DEF Load, JobSound, store
<1>2. documents[j.sub] \subseteq Records
  BY <1>1 DEF Records
<1>3. m \in loaded'[p] /\ m \notin loaded[p]
  <2>1. \A q \in Processes : q # p => loaded'[q] = loaded[q]
    BY DEF Load, GiveUp, TurnTo, LocalTypes
  <2>2. \/ \E sub \in Subs : m \in documents'[sub]
        \/ \E q \in Processes : m \in loaded'[q]
        \/ \E l \in LateSlots : late'[l] # None /\ m \in late'[l].document
    BY DEF Records
  <2>3. /\ \A sub \in Subs : m \notin documents[sub]
        /\ \A q \in Processes : m \notin loaded[q]
        /\ \A l \in LateSlots : late[l] # None => m \notin late[l].document
    BY DEF Records
  <2> QED
    BY <1>1, <2>1, <2>2, <2>3
<1>4. loaded'[p] = IF j.op = "add" THEN WithGrant(documents[j.sub], j)
                                   ELSE documents[j.sub] \ Holding(documents[j.sub], j.group)
  <2>1. ~GiveUp(p)
    BY <1>3, EndDrops
  <2> QED
    BY <2>1 DEF Load, LocalTypes
<1>5. j.op = "add" /\ m = Grant(j)
  BY <1>2, <1>3, <1>4 DEF WithGrant
<1>6. HasGrounds(p)
  <2>1. CASE boot[p] = 0
    BY <1>1, <2>1 DEF HasGrounds, JobSound, Asked
  <2>2. CASE boot[p] # 0
    BY <1>1, <1>5, <2>2, BootJobTyped DEF HasGrounds, JobSound, IsTrusted
  <2> QED
    BY <2>1, <2>2
<1> QED
  BY <1>1, <1>5, <1>6

\* Whatever is lost or brought back, no record of a membership is made but by
\* the bootstrap for a trusted subject, or by the handler of a request whose
\* actor was an admin when the request was admitted.
THEOREM SharedAuthorityHasRoot == Spec => AuthorityHasRoot
<1>1. ASSUME VaultInv, [Next]_vars, NEW m \in Records' \ Records
      PROVE  \E p \in Processes : job[p] # None /\ job[p].op = "add"
                                 /\ m = Grant(job[p]) /\ HasGrounds(p)
  BY <1>1, OthersMakeNoRecord, LoadMakesGrant
<1>2. VaultInv /\ [Next]_vars =>
        [\A m \in Records' \ Records :
           \E p \in Processes : job[p] # None /\ job[p].op = "add"
                               /\ m = Grant(job[p]) /\ HasGrounds(p)]_vars
  BY <1>1
<1> QED
  BY <1>2, VaultInvariant, PTL DEF Spec, AuthorityHasRoot

\* Every stored membership is of a defined group.
THEOREM SharedGrantsRestOnRecords == Spec => []GrantsRestOnRecords
<1>1. VaultInv => GrantsRestOnRecords
  BY DEF VaultInv, Sound, GrantsRestOnRecords
<1> QED
  BY <1>1, VaultInvariant, PTL

-------------------------------------------------------------------------------
(***************************************************************************)
(* A single process whose writes are never late finds, when it writes a    *)
(* document, the one it has read: nobody else writes.                      *)
(***************************************************************************)
Alone(p) == Processes = {p} /\ LateSlots = {}

UnchangedSinceRead(p) ==
  LET j == job[p]
      document == documents[j.sub]
  IN /\ (pc[p] \in {"load", "store"} /\ j.op = "add") => Holding(document, j.group) = {}
     /\ (pc[p] = "store" /\ j.op = "add") => loaded[p] = WithGrant(document, j)
     /\ (pc[p] = "store" /\ j.op = "remove") => loaded[p] = document \ Holding(document, j.group)

AloneInv(p) == VaultInv /\ UnchangedSinceRead(p) /\ AnsweredChangesHold

\* The one write that a store makes.
LEMMA StoreAlone ==
  ASSUME NEW p, Alone(p), AloneInv(p), Store(p)
  PROVE  /\ pc'[p] \in {"down", "idle", "find"}
         /\ AnsweredChangesHold'
         /\ boot[p] # 0 => \A sub \in Subs : documents[sub] \subseteq documents'[sub]
<1> DEFINE j == job[p]
           made == [documents EXCEPT ![j.sub] = loaded[p]]
<1>1. PICK e \in WriteEffect :
        /\ IF e.applied = "now" THEN ApplyWrite(Write(p)) ELSE UNCHANGED store
        /\ CASE e.outcome = "ok" -> Proceed(p)
             [] e.outcome = "error" -> GiveUp(p)
             [] e.outcome = "crash" -> TurnTo(p, "down", 0, None)
        /\ answered' = Answered(j, e.outcome)
  BY DEF Store
<1>2. /\ pc[p] = "store" /\ p \in Processes /\ e.outcome \in {"ok", "error", "crash"}
      /\ e.outcome = "ok" => e.applied = "now"
  BY DEF Store, Alone, WriteEffect
<1>3. /\ j \in Job /\ (j.op = "create" <=> j.sub = None) /\ (j.op # "create" => j.sub \in Subs)
      /\ boot[p] # 0 => j.op # "remove"
      /\ documents \in [Subs -> SUBSET UserGroupMembership]
      /\ answered \in [Subs -> [GroupNames -> {"held", "gone", None}]]
      /\ pc \in [Processes -> PCs]
  BY <1>2, JobFacts DEF AloneInv, VaultInv, TypeOK
<1>4. pc'[p] \in {"down", "idle", "find"}
  <2>1. CASE e.outcome = "ok"
    <3>1. Proceed(p)
      BY <1>1, <2>1
    <3> QED
      BY <1>2, <1>3, <3>1 DEF Proceed, TurnTo
  <2>2. CASE e.outcome = "error"
    <3>1. GiveUp(p)
      BY <1>1, <2>2
    <3> QED
      BY <1>2, <1>3, <3>1 DEF GiveUp, TurnTo
  <2>3. CASE e.outcome = "crash"
    <3>1. TurnTo(p, "down", 0, None)
      BY <1>1, <2>3
    <3> QED
      BY <1>2, <1>3, <3>1 DEF TurnTo
  <2> QED
    BY <1>2, <2>1, <2>2, <2>3
<1>5. CASE j.op = "create"
  <2>1. documents' = documents /\ answered' = answered
    BY <1>1, <1>3, <1>5 DEF ApplyWrite, Write, store, Answered
  <2> QED
    BY <1>4, <2>1 DEF AloneInv, AnsweredChangesHold
<1>6. CASE j.op # "create"
  <2> DEFINE value == IF e.outcome # "ok" THEN None ELSE IF j.op = "add" THEN "held" ELSE "gone"
  <2>0. /\ j.op \in {"add", "remove"} /\ j.group \in GroupNames
        /\ documents' = IF e.applied = "now" THEN made ELSE documents
        /\ answered' = [answered EXCEPT ![j.sub][j.group] = value]
    <3>1. j.op \in {"add", "remove"} /\ j.group \in GroupNames /\ j.sub # None
      BY <1>3, <1>6 DEF Job
    <3>2. documents' = IF e.applied = "now" THEN made ELSE documents
      BY <1>1, <3>1 DEF ApplyWrite, Write, store
    <3>3. answered' = [answered EXCEPT ![j.sub][j.group] = value]
      BY <1>1, <1>6 DEF Answered
    <3> QED
      BY <3>1, <3>2, <3>3
  <2>1. /\ e.outcome # "ok" => value = None
        /\ (e.outcome = "ok" /\ j.op = "add") => value = "held"
        /\ (e.outcome = "ok" /\ j.op = "remove") => value = "gone"
    BY <2>0
  <2> HIDE DEF value
  <2>2. \A group \in GroupNames :
          /\ group # j.group => Holding(loaded[p], group) = Holding(documents[j.sub], group)
          /\ j.op = "add" => Holding(loaded[p], j.group) # {}
          /\ j.op = "remove" => Holding(loaded[p], j.group) = {}
    <3>1. CASE j.op = "add"
      <4>1. loaded[p] = WithGrant(documents[j.sub], j)
        BY <1>2, <3>1 DEF AloneInv, UnchangedSinceRead
      <4>2. /\ \A group \in GroupNames : group # j.group =>
                 Holding(WithGrant(documents[j.sub], j), group) = Holding(documents[j.sub], group)
            /\ Holding(WithGrant(documents[j.sub], j), j.group) # {}
        <5> DEFINE m == Grant(j)
        <5>1. m.group_name = j.group
          BY DEF Grant
        <5>2. WithGrant(documents[j.sub], j) =
                (documents[j.sub] \ Holding(documents[j.sub], j.group)) \cup {m}
          BY DEF WithGrant
        <5> HIDE DEF m
        <5>3. m \in Holding(WithGrant(documents[j.sub], j), j.group)
          BY <5>1, <5>2 DEF Holding
        <5> QED
          BY <5>1, <5>2, <5>3 DEF Holding
      <4> QED
        BY <2>0, <3>1, <4>1, <4>2
    <3>2. CASE j.op = "remove"
      <4>1. loaded[p] = documents[j.sub] \ Holding(documents[j.sub], j.group)
        BY <1>2, <3>2 DEF AloneInv, UnchangedSinceRead
      <4>2. \A group \in GroupNames :
              Holding(documents[j.sub] \ Holding(documents[j.sub], j.group), group) =
                IF group = j.group THEN {} ELSE Holding(documents[j.sub], group)
        BY DEF Holding
      <4> QED
        BY <2>0, <3>2, <4>1, <4>2
    <3> QED
      BY <2>0, <3>1, <3>2
  <2>3. ASSUME NEW sub \in Subs, NEW group \in GroupNames
        PROVE  /\ answered'[sub][group] = "held" => Holding(documents'[sub], group) # {}
               /\ answered'[sub][group] = "gone" => Holding(documents'[sub], group) = {}
    <3>1. CASE sub = j.sub /\ group = j.group
      <4>1. CASE e.outcome # "ok"
        BY <1>3, <1>6, <2>0, <2>1, <3>1, <4>1, NoAnswerAssumption
      <4>2. CASE e.outcome = "ok"
        <5>1. documents'[sub] = loaded[p]
          BY <1>2, <1>3, <1>6, <2>0, <3>1, <4>2
        <5>2. answered'[sub][group] = value
          BY <1>3, <1>6, <2>0, <3>1
        <5>3. CASE j.op = "add"
          BY <2>1, <2>2, <3>1, <4>2, <5>1, <5>2, <5>3
        <5>4. CASE j.op = "remove"
          BY <2>1, <2>2, <3>1, <4>2, <5>1, <5>2, <5>4
        <5> QED
          BY <2>0, <5>3, <5>4
      <4> QED
        BY <4>1, <4>2
    <3>2. CASE ~(sub = j.sub /\ group = j.group)
      <4>1. answered'[sub][group] = answered[sub][group]
        BY <1>3, <1>6, <2>0, <3>2
      <4>2. Holding(documents'[sub], group) = Holding(documents[sub], group)
        BY <1>3, <1>6, <2>0, <2>2, <3>2
      <4> QED
        BY <4>1, <4>2 DEF AloneInv, AnsweredChangesHold
    <3> QED
      BY <3>1, <3>2
  <2>4. boot[p] # 0 => \A sub \in Subs : documents[sub] \subseteq documents'[sub]
    <3>1. boot[p] # 0 => documents[j.sub] \subseteq loaded[p]
      BY <1>2, <1>3, <1>6 DEF AloneInv, UnchangedSinceRead, WithGrant, Job
    <3> QED
      BY <1>3, <1>6, <2>0, <3>1
  <2> QED
    BY <1>4, <2>3, <2>4 DEF AnsweredChangesHold
<1> QED
  BY <1>5, <1>6

\* Every other step leaves the store alone.
LEMMA StoreWritesAlone ==
  ASSUME NEW p, Alone(p), AloneInv(p), [Next]_vars, ~Store(p)
  PROVE  UNCHANGED <<documents, groups>>
<1>1. ASSUME NEW q \in Processes, Startup(q) \/ Crash(q) \/ Handle(q)
      PROVE  UNCHANGED <<documents, groups>>
  BY <1>1 DEF Startup, Crash, Handle, store
<1>2. ASSUME NEW q \in Processes, Call(q)
      PROVE  UNCHANGED <<documents, groups>>
  BY <1>2 DEF Alone, Call, FindNothingToDo, FindNoGrounds, FindWork, Count, Load, ReadFails, store
<1>3. ASSUME NEW q \in Processes, NEW actor \in Subs, NEW req \in Requests, Admit(q, actor, req)
      PROVE  UNCHANGED <<documents, groups>>
  BY <1>3 DEF Admit, store
<1>4. CASE UNCHANGED vars
  BY <1>4 DEF vars, store
<1> QED
  BY <1>1, <1>2, <1>3, <1>4 DEF Next, Alone

LEMMA AloneStep ==
  ASSUME NEW p, Alone(p), AloneInv(p), [Next]_vars
  PROVE  AloneInv(p)'
<1>1. VaultInv'
  BY VaultStep DEF AloneInv
<1>2. /\ p \in Processes /\ LocalTypes
      /\ answered \in [Subs -> [GroupNames -> {"held", "gone", None}]]
  BY VaultInvParts DEF Alone, AloneInv, QueueTypes
<1>3. CASE Store(p)
  <2>1. pc'[p] \notin {"load", "store"} /\ AnsweredChangesHold'
    BY <1>3, StoreAlone
  <2> QED
    BY <1>1, <2>1 DEF AloneInv, UnchangedSinceRead
<1>4. CASE ~Store(p)
  <2>1. UNCHANGED <<documents, groups>>
    BY <1>4, StoreWritesAlone
  <2>2. ASSUME UNCHANGED answered, pc'[p] \notin {"load", "store"} \/ UNCHANGED local
        PROVE  AloneInv(p)'
    BY <1>1, <2>1, <2>2
    DEF AloneInv, UnchangedSinceRead, AnsweredChangesHold, Holding, WithGrant, local
  <2>3. ASSUME NEW next \in {"down", "idle", "find"}, NEW step, NEW j, TurnTo(p, next, step, j)
        PROVE  pc'[p] \notin {"load", "store"}
    BY <1>2, <2>3 DEF TurnTo, LocalTypes
  <2>4. ASSUME Startup(p) \/ Crash(p) \/ Handle(p)
        PROVE  AloneInv(p)'
    BY <2>2, <2>3, <2>4 DEF Startup, Crash, Handle
  <2>5. ASSUME NEW actor \in Subs, NEW req \in Requests, Admit(p, actor, req)
        PROVE  AloneInv(p)'
    BY <2>2, <2>5 DEF Admit
  <2>6. CASE FindNoGrounds(p) \/ ReadFails(p)
    BY <2>2, <2>3, <2>6 DEF FindNoGrounds, ReadFails, GiveUp
  <2>7. CASE FindNothingToDo(p)
    <3>1. pc'[p] \notin {"load", "store"}
      BY <2>3, <2>7 DEF FindNothingToDo, Proceed
    <3>2. CASE job[p].op # "add"
      BY <2>2, <2>7, <3>1, <3>2 DEF FindNothingToDo
    <3>3. CASE job[p].op = "add"
      <4>1. /\ answered' = [answered EXCEPT ![job[p].sub][job[p].group] = "held"]
            /\ Holding(documents[job[p].sub], job[p].group) # {}
        BY <2>7, <3>3 DEF FindNothingToDo, Found
      <4>2. AnsweredChangesHold'
        BY <1>2, <2>1, <4>1 DEF AloneInv, AnsweredChangesHold, Holding
      <4> QED
        BY <1>1, <3>1, <4>2 DEF AloneInv, UnchangedSinceRead
    <3> QED
      BY <3>2, <3>3
  <2>8. CASE FindWork(p)
    <3>1. /\ UNCHANGED <<job, loaded, answered>> /\ pc[p] = "find"
          /\ Found(job[p]) <=> job[p].op = "remove"
          /\ pc'[p] = "store" => job[p].op = "create"
      BY <1>2, <2>8 DEF FindWork, LocalTypes
    <3>2. UnchangedSinceRead(p)'
      BY <2>1, <3>1 DEF UnchangedSinceRead, Found, Holding
    <3> QED
      BY <1>1, <2>1, <3>1, <3>2 DEF AloneInv, AnsweredChangesHold, Holding
  <2>9. ASSUME NEW sub \in Subs, Count(p, sub)
        PROVE  AloneInv(p)'
    <3>1. UNCHANGED answered /\ pc[p] = "count" /\ job[p].op = "remove"
      BY <1>2, <2>9, JobFacts DEF Count, AloneInv, JobSound
    <3>2. CASE UNCHANGED <<pc, boot, job, loaded>>
      BY <1>1, <2>1, <3>1, <3>2 DEF AloneInv, UnchangedSinceRead, AnsweredChangesHold, Holding
    <3>3. CASE TurnTo(p, "load", boot[p], job[p])
      <4>1. pc'[p] = "load" /\ job'[p] = job[p]
        BY <1>2, <3>3 DEF TurnTo, LocalTypes
      <4> QED
        BY <1>1, <2>1, <3>1, <4>1 DEF AloneInv, UnchangedSinceRead, AnsweredChangesHold, Holding
    <3>4. CASE GiveUp(p)
      BY <2>2, <2>3, <3>1, <3>4 DEF GiveUp
    <3> QED
      BY <2>9, <3>2, <3>3, <3>4 DEF Count
  <2>10. CASE Load(p)
    <3> DEFINE j == job[p]
               document == documents[j.sub]
    <3>1. UNCHANGED answered /\ pc[p] = "load"
      BY <2>10 DEF Load
    <3>2. CASE GiveUp(p)
      BY <2>2, <2>3, <3>1, <3>2 DEF GiveUp
    <3>3. CASE /\ pc' = [pc EXCEPT ![p] = "store"]
               /\ loaded' = [loaded EXCEPT ![p] = IF j.op = "add"
                                                    THEN WithGrant(document, j)
                                                    ELSE document \ Holding(document, j.group)]
               /\ UNCHANGED <<boot, job, todo, found>>
      <4>1. /\ pc'[p] = "store" /\ job'[p] = j /\ documents'[j.sub] = document
            /\ j.op = "add" => loaded'[p] = WithGrant(document, j)
            /\ j.op = "remove" => loaded'[p] = document \ Holding(document, j.group)
            /\ j.op = "add" => Holding(document, j.group) = {}
        BY <1>2, <2>1, <3>1, <3>3 DEF LocalTypes, AloneInv, UnchangedSinceRead
      <4>2. UnchangedSinceRead(p)'
        BY <4>1 DEF UnchangedSinceRead, Holding, WithGrant
      <4> QED
        BY <1>1, <2>1, <3>1, <4>2 DEF AloneInv, AnsweredChangesHold, Holding
    <3> QED
      BY <2>10, <3>2, <3>3 DEF Load
  <2>11. CASE UNCHANGED vars
    BY <2>2, <2>11 DEF vars
  <2> QED
    BY <1>4, <2>4, <2>5, <2>6, <2>7, <2>8, <2>9, <2>10, <2>11 DEF Next, Call, Alone
<1> QED
  BY <1>3, <1>4

LEMMA AloneInit ==
  ASSUME NEW p, Alone(p), Init
  PROVE  AloneInv(p)
<1>1. VaultInv /\ p \in Processes
  BY VaultInit DEF Alone
<1>2. pc[p] = "down"
  BY <1>1 DEF Init
<1>3. AnsweredChangesHold
  BY NoAnswerAssumption DEF Init, AnsweredChangesHold
<1> QED
  BY <1>1, <1>2, <1>3 DEF AloneInv, UnchangedSinceRead

\* A single process keeps what it has answered: whatever fails in between,
\* a change holds until the same membership is changed again.
THEOREM AnsweredChangesHoldAlone ==
  ASSUME NEW p, Processes = {p}, LateSlots = {}
  PROVE  Spec => []AnsweredChangesHold
<1>1. Alone(p)
  BY DEF Alone
<1>2. Init => AloneInv(p)
  BY <1>1, AloneInit
<1>3. AloneInv(p) /\ [Next]_vars => AloneInv(p)'
  BY <1>1, AloneStep
<1>4. AloneInv(p) => AnsweredChangesHold
  BY DEF AloneInv
<1> QED
  BY <1>2, <1>3, <1>4, PTL DEF Spec

\* A startup of a single process takes no membership away, whatever it finds.
THEOREM StartupKeepsGrantsAlone ==
  ASSUME NEW p, Processes = {p}, LateSlots = {}
  PROVE  Spec => StartupKeepsGrants
<1>1. Alone(p)
  BY DEF Alone
<1>2. Init => AloneInv(p)
  BY <1>1, AloneInit
<1>3. AloneInv(p) /\ [Next]_vars => AloneInv(p)'
  BY <1>1, AloneStep
<1>4. ASSUME AloneInv(p), [Next]_vars, StartupWrites
      PROVE  \A sub \in Subs : documents[sub] \subseteq documents'[sub]
  BY <1>1, <1>4, StoreAlone, StoreWritesAlone DEF StartupWrites, Alone
<1>5. AloneInv(p) /\ [Next]_vars =>
        [StartupWrites => \A sub \in Subs : documents[sub] \subseteq documents'[sub]]_vars
  BY <1>4
<1> QED
  BY <1>2, <1>3, <1>5, PTL DEF Spec, StartupKeepsGrants
===============================================================================
