---------------------------- MODULE Registration ----------------------------
(***************************************************************************)
(* Self-registration in detail: the fields of a profile over repeated      *)
(* registrations with different bearer tokens, writes that fail, are       *)
(* applied without an answer or arrive late, and restarts.  ControlPlane   *)
(* knows of a profile only that it exists.                                 *)
(*                                                                         *)
(* register_me never awaits, so one registration is one action.            *)
(***************************************************************************)
EXTENDS Integers

CONSTANTS
  Subs,             \* Keycloak subjects
  Texts,            \* display names and e-mail addresses with something in them
  Blank,            \* a string claim of blanks only
  None,             \* Python's None: a missing claim, field or profile
  VaultConfigured,  \* TRUE: Vault repositories; FALSE: in-memory ones
  LateSlots,        \* bound: writes on their way to Vault that nobody waits for
  MaxTime           \* bound: the last instant of the clock

ASSUME ConstantsAssumption ==
  /\ None \notin Texts /\ Blank \notin Texts /\ Blank # None
  /\ VaultConfigured \in BOOLEAN
  /\ MaxTime \in Nat

Field == Texts \cup {None}

UserProfile ==
  [registered_at : Nat, updated_at : Nat, display_name : Field, email : Field]

Write == [sub : Subs, profile : UserProfile]

\* A profile, a write or a time and its absence are different things
ASSUME NoneAssumption == None \notin UserProfile \cup Write \cup Nat

VARIABLES
  profiles,  \* the stored profile of each subject
  clock,     \* utc_now()
  answer,    \* what the last step answered, if anything
  late,      \* writes Vault may still apply
  welcomed   \* history: when each subject was answered "created", on this store

vars == <<profiles, clock, answer, late, welcomed>>

-------------------------------------------------------------------------------
\* Faulty variant: a claim of blanks is taken for a text
TakesBlankClaims(value) == value

\* A claim of blanks, or one that is no string, counts as missing
string_claim(value) == IF value \in Texts THEN value ELSE None

Claims == [name : Texts \cup {Blank, None}, email : Texts \cup {Blank, None}]

\* Python's `a or b`, of texts that are never blank
Or(a, b) == IF a # None THEN a ELSE b

\* Faulty variant: a registration starts the profile anew
StartsAnew(sub, claims) ==
  [registered_at |-> clock, updated_at |-> clock,
   display_name |-> string_claim(claims.name), email |-> string_claim(claims.email)]

\* Faulty variant: claims replace the stored fields, missing ones too
ForgetsFields(sub, claims) ==
  [StartsAnew(sub, claims) EXCEPT
     !.registered_at = IF profiles[sub] # None THEN profiles[sub].registered_at ELSE clock]

\* The profile a registration stores
NewProfile(sub, claims) ==
  LET existing == profiles[sub]
      name == string_claim(claims.name)
      email == string_claim(claims.email)
  IN IF existing = None
       THEN [registered_at |-> clock, updated_at |-> clock,
             display_name |-> name, email |-> email]
       ELSE [registered_at |-> existing.registered_at, updated_at |-> clock,
             display_name |-> Or(name, existing.display_name),
             email |-> Or(email, existing.email)]

\* Faulty variant: the status is told from the stored times
StatusFromTimes(sub, profile) ==
  IF profile.registered_at = profile.updated_at THEN "created" ELSE "refreshed"

registration_status(sub, profile) ==
  IF profiles[sub] = None THEN "created" ELSE "refreshed"

Outcomes == IF VaultConfigured THEN {"ok", "error", "crash"} ELSE {"ok"}

\* Faulty variant: a failed write is logged and ignored
IgnoresFailedWrite == [outcome : Outcomes, applied : {"now", "never", "late"}]

\* How the one write ends: it may be applied although the handler failed, at
\* once or after later handlers have run
WriteEffect ==
  {e \in [outcome : Outcomes, applied : {"now", "never", "late"}] :
     e.outcome = "ok" => e.applied = "now"}

Answer(sub, status, profile) == [sub |-> sub, status |-> status, profile |-> profile]

-------------------------------------------------------------------------------
Init ==
  /\ profiles = [sub \in Subs |-> None]
  /\ clock = 0
  /\ answer = None
  /\ late = [l \in LateSlots |-> None]
  /\ welcomed = [sub \in Subs |-> None]

\* An "error" is the read or the write failing: 500 either way.  A crash
\* answers nothing.
RegisterSelf(sub, claims) ==
  LET profile == NewProfile(sub, claims)
      status == registration_status(sub, profile)
  IN \E e \in WriteEffect :
       /\ profiles' = IF e.applied = "now" THEN [profiles EXCEPT ![sub] = profile]
                                           ELSE profiles
       /\ IF e.applied = "late"
            THEN \E l \in LateSlots :
                   /\ late[l] = None
                   /\ late' = [late EXCEPT ![l] = [sub |-> sub, profile |-> profile]]
            ELSE UNCHANGED late
       /\ answer' = CASE e.outcome = "ok" -> Answer(sub, status, profile)
                      [] e.outcome = "error" -> Answer(sub, "failed", None)
                      [] e.outcome = "crash" -> None
       /\ welcomed' = IF e.outcome = "ok" /\ status = "created"
                         THEN [welcomed EXCEPT ![sub] = clock]
                         ELSE welcomed
       /\ UNCHANGED clock

\* GET /v1/me, without the group names it adds to the profile; a read may fail
GetSelfProfile(sub) ==
  /\ \/ answer' = Answer(sub, IF profiles[sub] = None THEN "unregistered" ELSE "registered",
                         profiles[sub])
     \/ VaultConfigured /\ answer' = Answer(sub, "failed", None)
  /\ UNCHANGED <<profiles, clock, late, welcomed>>

\* Only Vault outlives the process
Restart ==
  /\ answer' = None
  /\ IF VaultConfigured
       THEN UNCHANGED <<profiles, welcomed>>
       ELSE /\ profiles' = [sub \in Subs |-> None]
            /\ welcomed' = [sub \in Subs |-> None]
  /\ UNCHANGED <<clock, late>>

\* A write that nobody waits for reaches Vault, or is lost on the way
ArriveLate(l) ==
  /\ late[l] # None
  /\ \/ profiles' = [profiles EXCEPT ![late[l].sub] = late[l].profile]
     \/ UNCHANGED profiles
  /\ late' = [late EXCEPT ![l] = None]
  /\ answer' = None
  /\ UNCHANGED <<clock, welcomed>>

Tick ==
  /\ clock < MaxTime
  /\ clock' = clock + 1
  /\ answer' = None
  /\ UNCHANGED <<profiles, late, welcomed>>

Next ==
  \/ \E sub \in Subs : GetSelfProfile(sub) \/ \E claims \in Claims : RegisterSelf(sub, claims)
  \/ \E l \in LateSlots : ArriveLate(l)
  \/ Restart
  \/ Tick

Spec == Init /\ [][Next]_vars

-------------------------------------------------------------------------------
InOrder(profile) ==
  profile.registered_at <= profile.updated_at /\ profile.updated_at <= clock

\* Every variable holds values of the kind its declaration describes, and a
\* profile was not updated before it was registered nor after the present.
TypeOK ==
  /\ profiles \in [Subs -> UserProfile \cup {None}]
  /\ \A sub \in Subs : profiles[sub] # None => InOrder(profiles[sub])
  /\ late \in [LateSlots -> Write \cup {None}]
  /\ \A l \in LateSlots : late[l] # None => InOrder(late[l].profile)
  /\ clock \in 0..MaxTime
  /\ welcomed \in [Subs -> (0..MaxTime) \cup {None}]

\* A late write may have been applied in this step
MayArrive == \E l \in LateSlots : late[l] # None /\ late'[l] = None

\* No registration moves the registration time of a stored profile, although the
\* write that set it may have been answered 500 and the subject registered again.
\* Only a late write does, of a registration that began before: never past the
\* instant at which the subject was answered that its profile was created.
RegistrationTimeFixed ==
  [][\A sub \in Subs :
       (profiles[sub] # None /\ profiles'[sub] # None) =>
         /\ profiles'[sub].registered_at # profiles[sub].registered_at => MayArrive
         /\ welcomed[sub] # None => profiles'[sub].registered_at <= welcomed[sub]]_vars

\* A name or an address that was known stays known: a later bearer token
\* without the claim, or with a blank one, does not take it away.  A late write
\* may, as it replaces the profile by an older one.
KnownFieldsKept ==
  [][\A sub \in Subs :
       (profiles[sub] # None /\ profiles'[sub] # None /\ ~MayArrive) =>
         /\ profiles[sub].display_name # None => profiles'[sub].display_name # None
         /\ profiles[sub].email # None => profiles'[sub].email # None]_vars

\* A subject is told at most once that its profile was created.
CreatedOnce ==
  [][\A sub \in Subs :
       (answer' # answer /\ answer' # None /\ answer'.sub = sub /\ answer'.status = "created")
         => welcomed[sub] = None]_vars

\* An answer that shows a profile shows the stored one: what is answered as
\* saved is saved.
AnswersShowTheStore ==
  (answer # None /\ answer.status # "failed") => answer.profile = profiles[answer.sub]
===============================================================================
