-------------------------- MODULE RegistrationProofs --------------------------
(***************************************************************************)
(* What holds of Registration for every set of subjects, names and         *)
(* addresses, wherever a write fails, and for both backends.               *)
(***************************************************************************)
EXTENDS Registration, TLAPS

\* A registration stores a profile that keeps what the stored one has.
LEMMA NewProfileContents ==
  ASSUME TypeOK, NEW sub \in Subs, NEW claims \in Claims
  PROVE  LET old == profiles[sub]
             new == NewProfile(sub, claims)
         IN /\ new \in UserProfile
            /\ new # None
            /\ InOrder(new)
            /\ old = None => new.registered_at = clock
            /\ old # None => /\ new.registered_at = old.registered_at
                             /\ old.display_name # None => new.display_name # None
                             /\ old.email # None => new.email # None
<1> DEFINE old == profiles[sub]
           new == NewProfile(sub, claims)
<1>1. clock \in Nat
  BY ConstantsAssumption DEF TypeOK
<1>2. string_claim(claims.name) \in Field /\ string_claim(claims.email) \in Field
  BY DEF string_claim, Field
<1>3. CASE old = None
  <2>1. new = [registered_at |-> clock, updated_at |-> clock,
               display_name |-> string_claim(claims.name),
               email |-> string_claim(claims.email)]
    BY <1>3 DEF NewProfile
  <2>2. new \in UserProfile
    BY <1>1, <1>2, <2>1 DEF UserProfile
  <2> QED
    BY <1>1, <1>3, <2>1, <2>2, NoneAssumption DEF InOrder
<1>4. CASE old # None
  <2>1. /\ old \in UserProfile
        /\ old.registered_at \in Nat /\ old.updated_at \in Nat
        /\ old.registered_at <= old.updated_at /\ old.updated_at <= clock
        /\ old.display_name \in Field /\ old.email \in Field
    BY <1>4 DEF TypeOK, UserProfile, InOrder
  <2>2. new = [registered_at |-> old.registered_at, updated_at |-> clock,
               display_name |-> Or(string_claim(claims.name), old.display_name),
               email |-> Or(string_claim(claims.email), old.email)]
    BY <1>4 DEF NewProfile
  <2>3. new \in UserProfile
    BY <1>1, <1>2, <2>1, <2>2 DEF UserProfile, Or
  <2>4. /\ old.display_name # None => new.display_name # None
        /\ old.email # None => new.email # None
    BY <2>2 DEF Or
  <2> QED
    BY <1>1, <1>4, <2>1, <2>2, <2>3, <2>4, NoneAssumption DEF InOrder
<1> QED
  BY <1>3, <1>4

\* The inductive invariant: types, what an answer shows, and that a subject
\* answered "created" has a profile registered by then, stored or on its way.
RegisteredBy(profile, time) == profile.registered_at <= time

Welcomed(sub, time, stored, writes) ==
  /\ stored[sub] # None /\ RegisteredBy(stored[sub], time)
  /\ \A l \in LateSlots : (writes[l] # None /\ writes[l].sub = sub) =>
       RegisteredBy(writes[l].profile, time)

WelcomesHold ==
  \A sub \in Subs : welcomed[sub] # None => Welcomed(sub, welcomed[sub], profiles, late)

RegistrationInv ==
  /\ TypeOK
  /\ AnswersShowTheStore
  /\ WelcomesHold

\* What a registration writes, stores and remembers.
Registers(sub, profile, e) ==
  /\ profiles' = IF e.applied = "now" THEN [profiles EXCEPT ![sub] = profile] ELSE profiles
  /\ \/ UNCHANGED late
     \/ \E l \in LateSlots : late' = [late EXCEPT ![l] = [sub |-> sub, profile |-> profile]]
  /\ welcomed' = IF e.outcome = "ok" /\ profiles[sub] = None
                   THEN [welcomed EXCEPT ![sub] = clock] ELSE welcomed
  /\ e.outcome = "ok" => e.applied = "now"
  /\ UNCHANGED clock

LEMMA RegistersProfile ==
  ASSUME NEW sub \in Subs, NEW claims \in Claims, RegisterSelf(sub, claims)
  PROVE  \E e \in WriteEffect :
           /\ Registers(sub, NewProfile(sub, claims), e)
           /\ answer' = CASE e.outcome = "ok" ->
                               Answer(sub, registration_status(sub, NewProfile(sub, claims)),
                                      NewProfile(sub, claims))
                          [] e.outcome = "error" -> Answer(sub, "failed", None)
                          [] e.outcome = "crash" -> None
<1> DEFINE profile == NewProfile(sub, claims)
           status == registration_status(sub, profile)
           answers(e) == CASE e.outcome = "ok" -> Answer(sub, status, profile)
                           [] e.outcome = "error" -> Answer(sub, "failed", None)
                           [] e.outcome = "crash" -> None
<1>1. PICK e \in WriteEffect :
        /\ profiles' = IF e.applied = "now" THEN [profiles EXCEPT ![sub] = profile] ELSE profiles
        /\ IF e.applied = "late"
             THEN \E l \in LateSlots :
                    late[l] = None /\ late' = [late EXCEPT ![l] = [sub |-> sub, profile |-> profile]]
             ELSE UNCHANGED late
        /\ answer' = answers(e)
        /\ welcomed' = IF e.outcome = "ok" /\ status = "created"
                         THEN [welcomed EXCEPT ![sub] = clock] ELSE welcomed
        /\ UNCHANGED clock
  BY DEF RegisterSelf
<1>2. e.outcome = "ok" => e.applied = "now"
  BY DEF WriteEffect
<1>3. status = "created" <=> profiles[sub] = None
  BY DEF registration_status
<1> HIDE DEF profile, status, answers
<1>4. Registers(sub, profile, e)
  BY <1>1, <1>2, <1>3 DEF Registers
<1> QED
  BY <1>1, <1>4 DEF profile, status, answers

\* It keeps the types, and what a subject was answered.
LEMMA RegistersWell ==
  ASSUME TypeOK, WelcomesHold, NEW sub \in Subs, NEW profile \in UserProfile,
         profile # None, InOrder(profile),
         profiles[sub] # None => profile.registered_at = profiles[sub].registered_at,
         profiles[sub] = None => profile.registered_at = clock,
         NEW e, Registers(sub, profile, e)
  PROVE  TypeOK' /\ WelcomesHold'
<1> DEFINE w == [sub |-> sub, profile |-> profile]
<1>1. w \in Write /\ w # None /\ w.sub = sub /\ w.profile = profile
  BY NoneAssumption DEF Write
<1> HIDE DEF w
<1>2. /\ clock' = clock /\ clock \in 0..MaxTime
      /\ \A other \in Subs : profiles'[other] # None =>
           \/ profiles'[other] = profiles[other]
           \/ other = sub /\ profiles'[other] = profile
      /\ \A l \in LateSlots : late'[l] # None => late'[l] = late[l] \/ late'[l] = w
      /\ profiles' \in [Subs -> UserProfile \cup {None}]
      /\ late' \in [LateSlots -> Write \cup {None}]
      /\ welcomed' \in [Subs -> (0..MaxTime) \cup {None}]
  BY <1>1 DEF Registers, TypeOK, w
<1>3. TypeOK'
  BY <1>1, <1>2 DEF TypeOK, InOrder
<1>4. ASSUME NEW other \in Subs, welcomed'[other] # None
      PROVE  Welcomed(other, welcomed'[other], profiles', late')
  <2>1. CASE other = sub /\ e.outcome = "ok" /\ profiles[sub] = None
    <3>1. welcomed'[other] = clock /\ profiles'[other] = profile /\ late' \in [LateSlots -> Write \cup {None}]
      BY <1>2, <2>1 DEF Registers, TypeOK
    <3>2. profile.registered_at = clock /\ clock \in Int
      BY <1>2, <2>1, ConstantsAssumption
    <3>3. ASSUME NEW l \in LateSlots, late'[l] # None
          PROVE  late'[l].profile.registered_at <= clock
      <4>1. late'[l] \in Write /\ InOrder(late'[l].profile)
        BY <1>2, <1>3, <3>3 DEF TypeOK, InOrder
      <4>2. late'[l].profile.registered_at \in Int /\ late'[l].profile.updated_at \in Int
        BY <4>1 DEF Write, UserProfile
      <4> QED
        BY <3>2, <4>1, <4>2 DEF InOrder
    <3> QED
      BY <3>1, <3>2, <3>3 DEF Welcomed, RegisteredBy
  <2>2. CASE ~(other = sub /\ e.outcome = "ok" /\ profiles[sub] = None)
    <3>1. welcomed'[other] = welcomed[other] /\ profiles[other] # None
      BY <1>4, <2>2 DEF Registers, TypeOK, WelcomesHold, Welcomed
    <3>2. Welcomed(other, welcomed[other], profiles, late)
      BY <1>4, <3>1 DEF WelcomesHold
    <3>3. profiles'[other] # None /\ RegisteredBy(profiles'[other], welcomed[other])
      <4>1. profiles'[other] # None
        BY <3>1 DEF Registers, TypeOK
      <4> QED
        BY <1>2, <3>1, <3>2, <4>1 DEF Welcomed, RegisteredBy
    <3>4. ASSUME NEW l \in LateSlots, late'[l] # None, late'[l].sub = other
          PROVE  RegisteredBy(late'[l].profile, welcomed[other])
      BY <1>1, <1>2, <3>1, <3>2, <3>4 DEF Welcomed, RegisteredBy
    <3> QED
      BY <3>1, <3>3, <3>4 DEF Welcomed
  <2> QED
    BY <2>1, <2>2
<1> QED
  BY <1>3, <1>4 DEF WelcomesHold

\* So does a write that arrives late.
LEMMA ArrivesWell ==
  ASSUME TypeOK, WelcomesHold, NEW l \in LateSlots, ArriveLate(l)
  PROVE  TypeOK' /\ WelcomesHold'
<1>1. /\ late[l] \in Write /\ late[l] # None /\ InOrder(late[l].profile)
      /\ late[l].sub \in Subs /\ late[l].profile \in UserProfile /\ late[l].profile # None
  BY NoneAssumption DEF ArriveLate, TypeOK, Write
<1>2. /\ UNCHANGED <<clock, welcomed>>
      /\ \A sub \in Subs : \/ profiles'[sub] = profiles[sub]
                           \/ sub = late[l].sub /\ profiles'[sub] = late[l].profile
      /\ \A k \in LateSlots : late'[k] # None => late'[k] = late[k]
      /\ profiles' \in [Subs -> UserProfile \cup {None}]
      /\ late' \in [LateSlots -> Write \cup {None}]
  BY <1>1 DEF ArriveLate, TypeOK
<1>3. TypeOK'
  BY <1>1, <1>2 DEF TypeOK, InOrder
<1>4. WelcomesHold'
  BY <1>1, <1>2 DEF WelcomesHold, Welcomed, RegisteredBy
<1> QED
  BY <1>3, <1>4

LEMMA RegistrationStep == RegistrationInv /\ [Next]_vars => RegistrationInv'
<1> SUFFICES ASSUME RegistrationInv, [Next]_vars
             PROVE  RegistrationInv'
  OBVIOUS
<1> USE DEF RegistrationInv
<1>1. ASSUME NEW sub \in Subs, NEW claims \in Claims, RegisterSelf(sub, claims)
      PROVE  RegistrationInv'
  <2> DEFINE profile == NewProfile(sub, claims)
             status == registration_status(sub, profile)
  <2>1. PICK e \in WriteEffect :
          /\ Registers(sub, profile, e)
          /\ answer' = CASE e.outcome = "ok" -> Answer(sub, status, profile)
                         [] e.outcome = "error" -> Answer(sub, "failed", None)
                         [] e.outcome = "crash" -> None
    BY <1>1, RegistersProfile
  <2>2. /\ e.outcome \in {"ok", "error", "crash"}
        /\ e.outcome = "ok" => e.applied = "now"
    BY DEF WriteEffect, Outcomes
  <2>3. TypeOK' /\ WelcomesHold'
    BY <2>1, NewProfileContents, RegistersWell
  <2>4. AnswersShowTheStore'
    <3>1. CASE e.outcome = "ok"
      <4>1. answer' = Answer(sub, status, profile)
        BY <2>1, <3>1
      <4>2. profiles'[sub] = profile
        BY <2>1, <2>2, <3>1 DEF TypeOK, Registers
      <4> QED
        BY <4>1, <4>2 DEF AnswersShowTheStore, Answer
    <3>2. CASE e.outcome = "error"
      <4>1. answer' = Answer(sub, "failed", None)
        BY <2>1, <3>2
      <4> QED
        BY <4>1 DEF AnswersShowTheStore, Answer
    <3>3. CASE e.outcome = "crash"
      <4>1. answer' = None
        BY <2>1, <3>3
      <4> QED
        BY <4>1 DEF AnswersShowTheStore
    <3> QED
      BY <2>2, <3>1, <3>2, <3>3
  <2> QED
    BY <2>3, <2>4
<1>2. ASSUME NEW sub \in Subs, GetSelfProfile(sub)
      PROVE  RegistrationInv'
  <2>1. UNCHANGED <<profiles, clock, late, welcomed>>
    BY <1>2 DEF GetSelfProfile
  <2>2. TypeOK' /\ WelcomesHold'
    BY <2>1 DEF TypeOK, InOrder, WelcomesHold, Welcomed
  <2>3. AnswersShowTheStore'
    BY <1>2 DEF GetSelfProfile, Answer, AnswersShowTheStore
  <2> QED
    BY <2>2, <2>3
<1>3. CASE Restart
  <2>1. answer' = None /\ UNCHANGED <<clock, late>>
    BY <1>3 DEF Restart
  <2>2. CASE UNCHANGED <<profiles, welcomed>>
    BY <2>1, <2>2 DEF TypeOK, InOrder, AnswersShowTheStore, WelcomesHold, Welcomed
  <2>3. CASE profiles' = [sub \in Subs |-> None] /\ welcomed' = [sub \in Subs |-> None]
    BY <2>1, <2>3 DEF TypeOK, InOrder, AnswersShowTheStore, WelcomesHold
  <2> QED
    BY <1>3, <2>2, <2>3 DEF Restart
<1>4. CASE Tick
  <2>1. /\ clock \in Nat /\ clock' = clock + 1 /\ clock' \in 0..MaxTime
        /\ answer' = None /\ UNCHANGED <<profiles, late, welcomed>>
    BY <1>4, ConstantsAssumption DEF Tick, TypeOK
  <2>2. ASSUME NEW profile \in UserProfile, InOrder(profile)
        PROVE  InOrder(profile)'
    BY <2>1, <2>2 DEF InOrder, UserProfile
  <2>3. /\ \A sub \in Subs : profiles[sub] # None => profiles[sub] \in UserProfile
        /\ \A l \in LateSlots : late[l] # None => late[l].profile \in UserProfile
    BY DEF TypeOK, Write
  <2>4. TypeOK'
    BY <2>1, <2>2, <2>3 DEF TypeOK
  <2> QED
    BY <2>1, <2>4 DEF AnswersShowTheStore, WelcomesHold, Welcomed
<1>5. ASSUME NEW l \in LateSlots, ArriveLate(l)
      PROVE  RegistrationInv'
  BY <1>5, ArrivesWell DEF ArriveLate, AnswersShowTheStore
<1>6. CASE UNCHANGED vars
  BY <1>6 DEF vars, TypeOK, InOrder, AnswersShowTheStore, WelcomesHold, Welcomed
<1> QED
  BY <1>1, <1>2, <1>3, <1>4, <1>5, <1>6 DEF Next

LEMMA RegistrationInit == Init => RegistrationInv
  BY ConstantsAssumption
  DEF Init, RegistrationInv, TypeOK, AnswersShowTheStore, WelcomesHold

THEOREM RegistrationInvariant == Spec => []RegistrationInv
  BY RegistrationInit, RegistrationStep, PTL DEF Spec

\* Profiles are well typed, and their times are in order.
THEOREM ProfilesTypeCorrect == Spec => []TypeOK
<1>1. RegistrationInv => TypeOK
  BY DEF RegistrationInv
<1> QED
  BY <1>1, RegistrationInvariant, PTL

\* What a request is answered as saved is what is stored.
THEOREM AnswersAlwaysShowTheStore == Spec => []AnswersShowTheStore
<1>1. RegistrationInv => AnswersShowTheStore
  BY DEF RegistrationInv
<1> QED
  BY <1>1, RegistrationInvariant, PTL

-------------------------------------------------------------------------------
(***************************************************************************)
(* What a step does to the stored profiles.                                *)
(***************************************************************************)

\* A profile that stays is the same, is registered again, or is overwritten by a
\* late write; the time of its welcome stays too.
LEMMA ProfileSteps ==
  ASSUME RegistrationInv, [Next]_vars, NEW sub \in Subs,
         profiles[sub] # None, profiles'[sub] # None
  PROVE  /\ \/ profiles'[sub] = profiles[sub]
            \/ \E claims \in Claims : profiles'[sub] = NewProfile(sub, claims)
            \/ MayArrive
         /\ welcomed'[sub] = welcomed[sub]
<1> USE DEF RegistrationInv, TypeOK
<1>1. ASSUME NEW other \in Subs, NEW claims \in Claims, RegisterSelf(other, claims)
      PROVE  /\ \/ profiles'[sub] = profiles[sub]
                \/ profiles'[sub] = NewProfile(sub, claims)
             /\ welcomed'[sub] = welcomed[sub]
  <2>1. PICK e \in WriteEffect : Registers(other, NewProfile(other, claims), e)
    BY <1>1, RegistersProfile
  <2> QED
    BY <2>1 DEF Registers
<1>2. ASSUME NEW other \in Subs, GetSelfProfile(other)
      PROVE  UNCHANGED <<profiles, welcomed>>
  BY <1>2 DEF GetSelfProfile
<1>3. CASE Restart
  BY <1>3 DEF Restart
<1>4. ASSUME NEW l \in LateSlots, ArriveLate(l)
      PROVE  MayArrive /\ UNCHANGED welcomed
  BY <1>4 DEF ArriveLate, MayArrive
<1>5. CASE Tick \/ UNCHANGED vars
  BY <1>5 DEF Tick, vars
<1> QED
  BY <1>1, <1>2, <1>3, <1>4, <1>5 DEF Next

\* No registration moves the registration time of a stored profile, and no late
\* write moves it past the time of the subject's welcome.
THEOREM RegistrationTimeStays == Spec => RegistrationTimeFixed
<1>1. ASSUME RegistrationInv, RegistrationInv', [Next]_vars, NEW sub \in Subs,
             profiles[sub] # None, profiles'[sub] # None
      PROVE  /\ profiles'[sub].registered_at # profiles[sub].registered_at => MayArrive
             /\ welcomed[sub] # None => profiles'[sub].registered_at <= welcomed[sub]
  <2>1. profiles'[sub].registered_at # profiles[sub].registered_at => MayArrive
    BY <1>1, ProfileSteps, NewProfileContents DEF RegistrationInv
  <2>2. welcomed'[sub] = welcomed[sub]
    BY <1>1, ProfileSteps
  <2> QED
    BY <1>1, <2>1, <2>2 DEF RegistrationInv, WelcomesHold, Welcomed, RegisteredBy
<1>2. RegistrationInv /\ RegistrationInv' /\ [Next]_vars =>
        [\A sub \in Subs :
           (profiles[sub] # None /\ profiles'[sub] # None) =>
             /\ profiles'[sub].registered_at # profiles[sub].registered_at => MayArrive
             /\ welcomed[sub] # None => profiles'[sub].registered_at <= welcomed[sub]]_vars
  BY <1>1
<1> QED
  BY <1>2, RegistrationInvariant, PTL DEF Spec, RegistrationTimeFixed

\* No registration takes a known name or address away.
THEOREM KnownFieldsStay == Spec => KnownFieldsKept
<1>1. RegistrationInv /\ [Next]_vars =>
        [\A sub \in Subs :
           (profiles[sub] # None /\ profiles'[sub] # None /\ ~MayArrive) =>
             /\ profiles[sub].display_name # None => profiles'[sub].display_name # None
             /\ profiles[sub].email # None => profiles'[sub].email # None]_vars
  BY ProfileSteps, NewProfileContents DEF RegistrationInv
<1> QED
  BY <1>1, RegistrationInvariant, PTL DEF Spec, KnownFieldsKept

\* A subject is welcomed at most once: by then its profile is stored, and it
\* stays stored.
THEOREM CreatedAtMostOnce == Spec => CreatedOnce
<1>1. ASSUME RegistrationInv, [Next]_vars, NEW sub \in Subs,
             answer' # answer, answer' # None, answer'.sub = sub, answer'.status = "created"
      PROVE  welcomed[sub] = None
  <2>1. CASE profiles[sub] = None
    BY <1>1, <2>1 DEF RegistrationInv, WelcomesHold, Welcomed
  <2>2. CASE profiles[sub] # None
    <3>1. ASSUME NEW other \in Subs, NEW claims \in Claims, RegisterSelf(other, claims)
          PROVE  FALSE
      <4>1. PICK e \in WriteEffect :
              answer' = CASE e.outcome = "ok" ->
                               Answer(other, registration_status(other, NewProfile(other, claims)),
                                      NewProfile(other, claims))
                          [] e.outcome = "error" -> Answer(other, "failed", None)
                          [] e.outcome = "crash" -> None
        BY <3>1, RegistersProfile
      <4>2. e.outcome \in {"ok", "error", "crash"}
        BY DEF WriteEffect, Outcomes
      <4>3. CASE e.outcome = "ok"
        <5>1. answer' = Answer(other, registration_status(other, NewProfile(other, claims)),
                               NewProfile(other, claims))
          BY <4>1, <4>3
        <5> QED
          BY <1>1, <2>2, <5>1 DEF Answer, registration_status
      <4>4. CASE e.outcome = "error"
        <5>1. answer' = Answer(other, "failed", None)
          BY <4>1, <4>4
        <5> QED
          BY <1>1, <5>1 DEF Answer
      <4>5. CASE e.outcome = "crash"
        <5>1. answer' = None
          BY <4>1, <4>5
        <5> QED
          BY <1>1, <5>1
      <4> QED
        BY <4>2, <4>3, <4>4, <4>5
    <3>2. ASSUME NEW other \in Subs, GetSelfProfile(other)
          PROVE  FALSE
      BY <1>1, <3>2 DEF GetSelfProfile, Answer
    <3>3. CASE Restart \/ Tick \/ UNCHANGED vars \/ \E l \in LateSlots : ArriveLate(l)
      BY <1>1, <3>3 DEF Restart, Tick, vars, ArriveLate
    <3> QED
      BY <1>1, <3>1, <3>2, <3>3 DEF Next
  <2> QED
    BY <2>1, <2>2
<1>2. RegistrationInv /\ [Next]_vars =>
        [\A sub \in Subs :
           (answer' # answer /\ answer' # None /\ answer'.sub = sub /\ answer'.status = "created")
             => welcomed[sub] = None]_vars
  BY <1>1
<1> QED
  BY <1>2, RegistrationInvariant, PTL DEF Spec, CreatedOnce
===============================================================================
