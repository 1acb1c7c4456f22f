---------------------------- MODULE SigningProofs ----------------------------
(***************************************************************************)
(* What holds of the JWT of every runtime token, whatever the length of a  *)
(* second, the lifetimes, the keys, the environments and the restarts.     *)
(***************************************************************************)
EXTENDS Signing, SequenceTheorems, WellFoundedInduction, TLAPS

\* What truncation to whole seconds loses is less than a second.
LEMMA WholeSecondBounds ==
  ASSUME NEW instant \in Nat
  PROVE  /\ WholeSecond(instant) \in Int
         /\ WholeSecond(instant) <= instant /\ instant - SECOND < WholeSecond(instant)
<1>1. instant % SECOND \in 0..(SECOND - 1)
  BY SecondAssumption
<1> QED
  BY <1>1, SecondAssumption DEF WholeSecond

LEMMA WholeSecondNatural ==
  ASSUME NEW instant \in Nat
  PROVE  WholeSecond(instant) \in Nat
<1>1. PICK q \in Nat, r \in 0..(SECOND - 1) :
        /\ instant = q * SECOND + r /\ q * SECOND \in Nat /\ instant % SECOND = r
  BY SecondAssumption
<1> QED
  BY <1>1 DEF WholeSecond

LEMMA LifetimesLastSeconds ==
  ASSUME NEW seconds \in Int, seconds > 0
  PROVE  seconds * SECOND \in Nat /\ SECOND <= seconds * SECOND
<1>1. PICK n \in Nat : seconds = n + 1
  <2>1. seconds - 1 \in Nat /\ seconds = (seconds - 1) + 1
    OBVIOUS
  <2> QED
    BY <2>1
<1>2. seconds * SECOND = n * SECOND + SECOND /\ n * SECOND \in Nat
  BY <1>1, SecondAssumption
<1> QED
  BY <1>2, SecondAssumption

-------------------------------------------------------------------------------
(***************************************************************************)
(* The inductive invariant: a token is what its secret signed, and its     *)
(* times are the record's, to the second.                                  *)
(***************************************************************************)
SettingsSound ==
  \A p \in Processes : settings[p] # None => settings[p].default_lifetime_seconds \in Int

Verifiable(token) ==
  /\ token.jwt.kid = Or(token.secret.kid, derive_kid(token.secret.private_key_pem))
  /\ token.jwt.key = token.secret.private_key_pem

OnTime(token) ==
  /\ token.jwt.nbf <= token.issued_at /\ token.issued_at < token.jwt.exp
  /\ token.jwt.exp <= token.expires_at /\ token.expires_at - SECOND < token.jwt.exp
  /\ token.jwt.nbf \in Int /\ token.issued_at \in Int

SigningInv ==
  /\ clock \in Nat /\ env \in Envs
  /\ DOMAIN settings = Processes /\ DOMAIN minted = TokenIds
  /\ SettingsSound
  /\ \A t \in TokenIds : minted[t] # None => Verifiable(minted[t]) /\ OnTime(minted[t])

LEMMA SigningInit == Init => SigningInv
  BY DEF Init, SigningInv, SettingsSound

LEMMA EnvironmentGivesLifetime ==
  ASSUME NEW e \in Envs, Readable(e)
  PROVE  from_env(e).default_lifetime_seconds \in Int
  BY EnvsAssumption DEF from_env, default_lifetime_seconds, Env, Readable

LEMMA MintStep ==
  ASSUME SigningInv, NEW p \in Processes, NEW t \in TokenIds, NEW lifetime \in Lifetimes,
         Mint(p, t, lifetime)
  PROVE  SigningInv'
<1> DEFINE s == settings[p]
           secret == secrets[s.signing_path]
           seconds == lifetime_seconds(p, lifetime)
           expires_at == clock + seconds * SECOND
           jwt == sign_token(s, load_signing_material(secret), clock, expires_at)
           new == [jwt |-> jwt, issued_at |-> clock, expires_at |-> expires_at, secret |-> secret]
<1>1. /\ s # None /\ seconds > 0
      /\ minted' = [minted EXCEPT ![t] = new]
      /\ UNCHANGED <<clock, settings, env>>
  BY DEF Mint, HasSigner
<1>2. seconds \in Int
  BY <1>1, EnvsAssumption DEF lifetime_seconds, SigningInv, SettingsSound
<1>3. /\ jwt.kid = Or(secret.kid, derive_kid(secret.private_key_pem))
      /\ jwt.key = secret.private_key_pem
      /\ jwt.nbf = WholeSecond(clock) /\ jwt.exp = WholeSecond(expires_at)
  BY DEF sign_token, load_signing_material, Header
<1>4. /\ new.jwt = jwt /\ new.issued_at = clock /\ new.expires_at = expires_at
      /\ new.secret = secret
  OBVIOUS
<1> HIDE DEF new, jwt, seconds
<1>5. clock \in Nat /\ expires_at \in Nat /\ clock + SECOND <= expires_at
  <2>1. seconds * SECOND \in Nat /\ SECOND <= seconds * SECOND
    BY <1>1, <1>2, LifetimesLastSeconds
  <2>2. clock \in Nat
    BY DEF SigningInv
  <2> HIDE DEF expires_at
  <2>3. expires_at = clock + seconds * SECOND
    BY DEF expires_at
  <2> QED
    BY <2>1, <2>2, <2>3, SecondAssumption
<1> HIDE DEF expires_at
<1>6. Verifiable(new)
  BY <1>3, <1>4 DEF Verifiable
<1>7. OnTime(new)
  <2>1. /\ jwt.nbf \in Int /\ jwt.nbf <= clock
        /\ jwt.exp \in Int /\ jwt.exp <= expires_at /\ expires_at - SECOND < jwt.exp
    BY <1>3, <1>5, WholeSecondBounds
  <2> QED
    BY <1>4, <1>5, <2>1, SecondAssumption DEF OnTime
<1>8. /\ minted'[t] = new /\ DOMAIN minted' = TokenIds
      /\ \A u \in TokenIds : u # t => minted'[u] = minted[u]
  BY <1>1 DEF SigningInv
<1>9. \A u \in TokenIds : minted'[u] # None => Verifiable(minted'[u]) /\ OnTime(minted'[u])
  BY <1>6, <1>7, <1>8 DEF SigningInv
<1> QED
  BY <1>1, <1>8, <1>9 DEF SigningInv, SettingsSound, Verifiable, OnTime

LEMMA SigningStep == SigningInv /\ [Next]_vars => SigningInv'
<1> SUFFICES ASSUME SigningInv, [Next]_vars
             PROVE  SigningInv'
  OBVIOUS
<1>1. CASE Tick
  BY <1>1 DEF Tick, SigningInv, SettingsSound, Verifiable, OnTime
<1>2. ASSUME NEW e \in Envs, Configure(e)
      PROVE  SigningInv'
  BY <1>2 DEF Configure, SigningInv, SettingsSound, Verifiable, OnTime
<1>3. ASSUME NEW path \in SigningPaths, NEW secret \in Secrets, Replace(path, secret)
      PROVE  SigningInv'
  BY <1>3 DEF Replace, SigningInv, SettingsSound, Verifiable, OnTime
<1>4. ASSUME NEW p \in Processes, Startup(p)
      PROVE  SigningInv'
  <2>1. /\ settings' = [settings EXCEPT ![p] = from_env(env)]
        /\ UNCHANGED <<clock, env, minted>>
        /\ Readable(env)
    BY <1>4 DEF Startup
  <2>2. from_env(env).default_lifetime_seconds \in Int
    BY <2>1, EnvironmentGivesLifetime DEF SigningInv
  <2>3. SettingsSound'
    BY <2>1, <2>2 DEF SigningInv, SettingsSound
  <2> QED
    BY <2>1, <2>3 DEF SigningInv, Verifiable, OnTime
<1>5. ASSUME NEW p \in Processes, Stop(p)
      PROVE  SigningInv'
  BY <1>5 DEF Stop, SigningInv, SettingsSound, Verifiable, OnTime
<1>6. ASSUME NEW p \in Processes, NEW t \in TokenIds, NEW lifetime \in Lifetimes,
             Mint(p, t, lifetime)
      PROVE  SigningInv'
  BY <1>6, MintStep
<1>7. CASE UNCHANGED vars
  BY <1>7 DEF vars, SigningInv, SettingsSound, Verifiable, OnTime
<1> QED
  BY <1>1, <1>2, <1>3, <1>4, <1>5, <1>6, <1>7 DEF Next

THEOREM SigningInvariant == Spec => []SigningInv
  BY SigningInit, SigningStep, PTL DEF Spec

\* A JWT never outlives its record, ends less than a second before it and is
\* valid when it is handed out, however many instants a second has.
THEOREM JwtNeverOutlivesRecord == Spec => []LocalExpiryFollowsRecord
<1>1. SigningInv => LocalExpiryFollowsRecord
  BY DEF SigningInv, OnTime, LocalExpiryFollowsRecord
<1> QED
  BY <1>1, SigningInvariant, PTL

-------------------------------------------------------------------------------
(***************************************************************************)
(* The trusted subjects.  A recursive function is not its own equation:    *)
(* that the loop of _normalize_subjects exists, and what it returns for    *)
(* every list, is shown by induction on the items it has seen.             *)
(***************************************************************************)

\* Less-than on the naturals, as a set of pairs
LessThan == {pair \in Nat \X Nat : pair[1] < pair[2]}

LEMMA LessThanWellFounded == IsWellFoundedOn(LessThan, Nat)
  BY NatLessThanWellFounded DEF OpToRel, LessThan

\* Induction up to a bound, with a set in the place of a formula: the least
\* number outside the set would be none.
LEMMA UpToBound ==
  ASSUME NEW n \in Nat, NEW T, 0 \in T, \A i \in 1..n : i - 1 \in T => i \in T
  PROVE  \A i \in 0..n : i \in T
<1> DEFINE rest == {i \in 0..n : i \notin T}
<1> SUFFICES ASSUME rest # {}
             PROVE  FALSE
  OBVIOUS
<1>1. rest \subseteq Nat
  OBVIOUS
<1>2. \E least \in rest : \A i \in rest : ~(<<i, least>> \in LessThan)
  <2> HIDE DEF rest
  <2> QED
    BY <1>1, LessThanWellFounded, WFMin
<1>3. PICK least \in rest : \A i \in rest : ~(<<i, least>> \in LessThan)
  BY <1>2
<1>4. least \in 1..n /\ least - 1 \in 0..n /\ least - 1 < least
  BY <1>3
<1>5. least - 1 \notin rest
  BY <1>1, <1>3, <1>4 DEF LessThan
<1> QED
  BY <1>3, <1>4, <1>5

\* The loop of _normalize_subjects after i items.
Loop(items, n) ==
  CHOOSE f : f = [i \in 0..n |-> IF i = 0 THEN <<>> ELSE AppendNew(f[i - 1], items[i])]

LEMMA LoopExists ==
  ASSUME NEW items, NEW n \in Nat
  PROVE  Loop(items, n) =
           [i \in 0..n |-> IF i = 0 THEN <<>> ELSE AppendNew(Loop(items, n)[i - 1], items[i])]
<1> DEFINE Unfolds(loop, k) ==
             loop = [i \in 0..k |-> IF i = 0 THEN <<>> ELSE AppendNew(loop[i - 1], items[i])]
           T == {k \in 0..n : \E loop : Unfolds(loop, k)}
<1>1. 0 \in T
  <2>1. Unfolds([i \in 0..0 |-> <<>>], 0)
    OBVIOUS
  <2>2. \E loop : Unfolds(loop, 0)
    BY <2>1
  <2> HIDE DEF Unfolds
  <2> QED
    BY <2>2
<1>2. ASSUME NEW m \in 1..n, m - 1 \in T
      PROVE  m \in T
  <2>1. PICK f : Unfolds(f, m - 1)
    BY <1>2
  <2> DEFINE last == AppendNew(f[m - 1], items[m])
             g == [i \in 0..m |-> IF i = m THEN last ELSE f[i]]
  <2>2. \A i \in 0..m : g[i] = IF i = 0 THEN <<>> ELSE AppendNew(g[i - 1], items[i])
    <3> HIDE DEF last
    <3> TAKE i \in 0..m
    <3>1. CASE i = m
      <4>1. g[i] = last /\ g[i - 1] = f[i - 1]
        BY <3>1
      <4> QED
        BY <3>1, <4>1 DEF last
    <3>2. CASE i # m
      <4>1. i \in 0..(m - 1)
        BY <3>2
      <4>2. g[i] = f[i] /\ (i # 0 => g[i - 1] = f[i - 1])
        BY <3>2
      <4>3. f[i] = IF i = 0 THEN <<>> ELSE AppendNew(f[i - 1], items[i])
        BY <2>1, <4>1
      <4> QED
        BY <4>2, <4>3
    <3> QED
      BY <3>1, <3>2
  <2>3. Unfolds(g, m)
    <3>1. g = [i \in 0..m |-> g[i]]
      OBVIOUS
    <3> HIDE DEF g
    <3> QED
      BY <2>2, <3>1
  <2>4. \E loop : Unfolds(loop, m)
    BY <2>3
  <2> HIDE DEF Unfolds
  <2> QED
    BY <2>4
<1>3. n \in T
  <2> HIDE DEF T
  <2> QED
    BY <1>1, <1>2, UpToBound
<1>4. \E loop : Unfolds(loop, n)
  BY <1>3
<1> QED
  BY <1>4 DEF Loop

LEMMA NormalizeIsLoop ==
  ASSUME NEW items
  PROVE  normalize_subjects(items) = Loop(items, Len(items))[Len(items)]
  BY DEF normalize_subjects, Loop

\* What the loop has kept of the first n items: each text that is not blank
\* once, in the order in which they first appear
Kept(items, n, s) ==
  /\ s \in Seq(Texts)
  /\ {s[k] : k \in 1..Len(s)} = {items[h].text : h \in 1..n} \ {Blank}
  /\ \A i, k \in 1..Len(s) :
       i < k => /\ s[i] # s[k]
                /\ \E h \in 1..n : /\ items[h].text = s[i]
                                   /\ \A j \in 1..h : items[j].text # s[k]

LEMMA KeepsOneMore ==
  ASSUME NEW items \in Seq(Item), NEW n \in 1..Len(items), NEW s, Kept(items, n - 1, s)
  PROVE  Kept(items, n, AppendNew(s, items[n]))
<1> DEFINE text == items[n].text
<1>0. n \in Nat /\ n - 1 \in Nat /\ n - 1 + 1 = n /\ 1..(n - 1) \subseteq 1..n
  OBVIOUS
<1>1. text \in Texts \cup {Blank} /\ s \in Seq(Texts) /\ Len(s) \in Nat
  <2>1. items[n] \in Item
    BY ElementOfSeq
  <2>2. s \in Seq(Texts)
    BY DEF Kept
  <2> QED
    BY <2>1, <2>2, LenProperties DEF Item
<1>2. {items[h].text : h \in 1..n} = {items[h].text : h \in 1..(n - 1)} \cup {text}
  <2>1. 1..n = 1..(n - 1) \cup {n}
    OBVIOUS
  <2> QED
    BY <2>1
<1>3. CASE text = Blank \/ text \in {s[k] : k \in 1..Len(s)}
  <2>1. AppendNew(s, items[n]) = s
    BY <1>3 DEF AppendNew, isSet, strip
  <2>2. {s[k] : k \in 1..Len(s)} = {items[h].text : h \in 1..n} \ {Blank}
    BY <1>2, <1>3 DEF Kept
  <2>3. ASSUME NEW i \in 1..Len(s), NEW k \in 1..Len(s), i < k
        PROVE  /\ s[i] # s[k]
               /\ \E h \in 1..n : /\ items[h].text = s[i]
                                  /\ \A j \in 1..h : items[j].text # s[k]
    BY <1>0, <2>3 DEF Kept
  <2>4. Kept(items, n, s)
    BY <1>1, <2>2, <2>3 DEF Kept
  <2> QED
    BY <2>1, <2>4
<1>4. CASE text # Blank /\ text \notin {s[k] : k \in 1..Len(s)}
  <2> DEFINE t == Append(s, text)
  <2>1. text \in Texts /\ AppendNew(s, items[n]) = t
    BY <1>1, <1>4, TextsAssumption DEF AppendNew, isSet, strip
  <2>2. /\ t \in Seq(Texts) /\ Len(t) = Len(s) + 1 /\ t[Len(s) + 1] = text
        /\ \A k \in 1..Len(s) : t[k] = s[k]
    BY <1>1, <2>1, AppendProperties
  <2> HIDE DEF t
  <2>3. {t[k] : k \in 1..Len(t)} = {s[k] : k \in 1..Len(s)} \cup {text}
    <3>1. 1..Len(t) = 1..Len(s) \cup {Len(s) + 1}
      BY <1>1, <2>2
    <3> QED
      BY <2>2, <3>1
  <2>4. {t[k] : k \in 1..Len(t)} = {items[h].text : h \in 1..n} \ {Blank}
    BY <1>2, <1>4, <2>3 DEF Kept
  <2>5. ASSUME NEW i \in 1..Len(t), NEW k \in 1..Len(t), i < k
        PROVE  /\ t[i] # t[k]
               /\ \E h \in 1..n : /\ items[h].text = t[i]
                                  /\ \A j \in 1..h : items[j].text # t[k]
    <3>1. i \in 1..Len(s) /\ t[i] = s[i]
      BY <1>1, <2>2, <2>5
    <3>2. CASE k \in 1..Len(s)
      <4>1. t[k] = s[k]
        BY <2>2, <3>2
      <4> QED
        BY <1>0, <2>5, <3>1, <3>2, <4>1 DEF Kept
    <3>3. CASE k = Len(s) + 1
      <4>1. t[k] = text /\ t[i] # text
        BY <1>4, <2>2, <3>1, <3>3
      <4>2. \A j \in 1..(n - 1) : items[j].text # text
        BY <1>4 DEF Kept
      <4>3. PICK h \in 1..(n - 1) : items[h].text = s[i]
        <5>1. s[i] \in {items[h].text : h \in 1..(n - 1)} \ {Blank}
          BY <3>1 DEF Kept
        <5> QED
          BY <5>1
      <4>4. h \in 1..n /\ \A j \in 1..h : j \in 1..(n - 1)
        BY <1>0
      <4> QED
        BY <3>1, <4>1, <4>2, <4>3, <4>4
    <3> QED
      BY <1>1, <2>2, <3>2, <3>3
  <2>6. Kept(items, n, t)
    BY <2>2, <2>4, <2>5 DEF Kept
  <2> QED
    BY <2>1, <2>6
<1> QED
  BY <1>3, <1>4

LEMMA NormalizedSubjects ==
  ASSUME NEW items \in Seq(Item)
  PROVE  Kept(items, Len(items), normalize_subjects(items))
<1> DEFINE n == Len(items)
           f == Loop(items, n)
           T == {i \in 0..n : Kept(items, i, f[i])}
<1>1. n \in Nat
  OBVIOUS
<1>2. \A i \in 0..n : f[i] = IF i = 0 THEN <<>> ELSE AppendNew(f[i - 1], items[i])
  <2>1. f = [i \in 0..n |-> IF i = 0 THEN <<>> ELSE AppendNew(f[i - 1], items[i])]
    BY <1>1, LoopExists
  <2> HIDE DEF f
  <2> QED
    BY <2>1
<1> HIDE DEF f
<1>3. 0 \in T
  <2>1. f[0] = <<>>
    BY <1>1, <1>2
  <2>2. Kept(items, 0, <<>>)
    BY DEF Kept
  <2> QED
    BY <1>1, <2>1, <2>2
<1>4. ASSUME NEW i \in 1..n, i - 1 \in T
      PROVE  i \in T
  <2>1. f[i] = AppendNew(f[i - 1], items[i]) /\ Kept(items, i - 1, f[i - 1])
    BY <1>2, <1>4
  <2> QED
    BY <2>1, KeepsOneMore
<1>5. n \in T
  <2> HIDE DEF T
  <2>1. \A i \in 0..n : i \in T
    BY <1>1, <1>3, <1>4, UpToBound
  <2>2. n \in 0..n
    BY <1>1
  <2> QED
    BY <2>1, <2>2
<1> QED
  BY <1>5, NormalizeIsLoop DEF f

\* build_plan normalizes a list that was normalized when it was read.
LEMMA PlannedSubjects ==
  ASSUME NEW items \in Seq(Item), NEW subjects, Kept(items, Len(items), subjects)
  PROVE  Kept(items, Len(items), build_plan(subjects))
<1> DEFINE again == [i \in 1..Len(subjects) |-> [text |-> subjects[i], padded |-> FALSE]]
           trusted == build_plan(subjects)
<1>1. subjects \in Seq(Texts) /\ Len(subjects) \in Nat
  BY DEF Kept
<1>2. again \in Seq(Item) /\ Len(again) = Len(subjects)
  <2>1. \A i \in 1..Len(subjects) : subjects[i] \in Texts
    BY <1>1, ElementOfSeq
  <2>2. again \in [1..Len(subjects) -> Item]
    BY <2>1 DEF Item
  <2> QED
    BY <1>1, <2>2, SeqDef, LenProperties
<1>3. \A i \in 1..Len(subjects) : again[i].text = subjects[i]
  OBVIOUS
<1>4. trusted = normalize_subjects(again)
  BY DEF build_plan
<1> HIDE DEF again, trusted
<1>5. Kept(again, Len(subjects), trusted)
  BY <1>2, <1>4, NormalizedSubjects
<1>6. {again[h].text : h \in 1..Len(subjects)} = {subjects[h] : h \in 1..Len(subjects)}
  BY <1>3
<1>7. {trusted[k] : k \in 1..Len(trusted)} = {items[h].text : h \in 1..Len(items)} \ {Blank}
  BY <1>5, <1>6 DEF Kept
<1>8. ASSUME NEW i \in 1..Len(trusted), NEW k \in 1..Len(trusted), i < k
      PROVE  /\ trusted[i] # trusted[k]
             /\ \E h \in 1..Len(items) : /\ items[h].text = trusted[i]
                                         /\ \A j \in 1..h : items[j].text # trusted[k]
  <2>1. trusted[i] # trusted[k]
    BY <1>5, <1>8 DEF Kept
  <2>2. PICK h \in 1..Len(subjects) : /\ again[h].text = trusted[i]
                                      /\ \A j \in 1..h : again[j].text # trusted[k]
    BY <1>5, <1>8 DEF Kept
  <2>3. PICK q \in 1..Len(subjects) : subjects[q] = trusted[k]
    <3>1. trusted[k] \in {subjects[q] : q \in 1..Len(subjects)}
      BY <1>5, <1>6 DEF Kept
    <3> QED
      BY <3>1
  <2>4. h < q
    BY <1>1, <1>3, <2>2, <2>3
  <2>5. \E g \in 1..Len(items) : /\ items[g].text = subjects[h]
                                 /\ \A j \in 1..g : items[j].text # subjects[q]
    BY <2>4 DEF Kept
  <2>6. subjects[h] = trusted[i]
    BY <1>3, <2>2
  <2> QED
    BY <2>1, <2>3, <2>5, <2>6
<1> QED
  BY <1>5, <1>7, <1>8 DEF Kept, trusted

\* The list of an environment, empty when the variable is not set
ConfiguredItems(e) == IF e.bootstrap_admin_subs = None THEN <<>> ELSE e.bootstrap_admin_subs

LEMMA ConfiguredSubjects ==
  ASSUME NEW e \in Envs
  PROVE  /\ ConfiguredItems(e) \in Seq(Item)
         /\ Kept(ConfiguredItems(e), Len(ConfiguredItems(e)), from_env(e).trusted_subs)
<1>1. e.bootstrap_admin_subs \in Seq(Item) \cup {None}
  BY EnvsAssumption DEF Env
<1>2. from_env(e).trusted_subs = split_csv(e.bootstrap_admin_subs)
  BY DEF from_env
<1>3. CASE e.bootstrap_admin_subs = None
  <2>1. ConfiguredItems(e) = <<>> /\ split_csv(e.bootstrap_admin_subs) = <<>>
    BY <1>3 DEF ConfiguredItems, split_csv
  <2>2. Kept(<<>>, 0, <<>>)
    BY DEF Kept
  <2> QED
    BY <1>2, <2>1, <2>2
<1>4. CASE e.bootstrap_admin_subs # None
  <2>1. /\ ConfiguredItems(e) = e.bootstrap_admin_subs /\ ConfiguredItems(e) \in Seq(Item)
        /\ split_csv(e.bootstrap_admin_subs) = normalize_subjects(ConfiguredItems(e))
    BY <1>1, <1>4 DEF ConfiguredItems, split_csv
  <2> QED
    BY <1>2, <2>1, NormalizedSubjects
<1> QED
  BY <1>3, <1>4

\* A running process has the settings of the environment it was started in.
SettingsAsRead ==
  /\ env \in Envs
  /\ DOMAIN settings = Processes /\ DOMAIN readFrom = Processes
  /\ \A p \in Processes : settings[p] # None =>
       readFrom[p] \in Envs /\ settings[p] = from_env(readFrom[p])

LEMMA SettingsAsReadStep ==
  ASSUME SettingsAsRead, [Next]_vars
  PROVE  SettingsAsRead'
<1>1. ASSUME UNCHANGED <<env, settings, readFrom>>
      PROVE  SettingsAsRead'
  BY <1>1 DEF SettingsAsRead
<1>2. CASE \/ Tick \/ UNCHANGED vars
           \/ \E path \in SigningPaths, secret \in Secrets : Replace(path, secret)
           \/ \E p \in Processes, t \in TokenIds, lifetime \in Lifetimes : Mint(p, t, lifetime)
  BY <1>1, <1>2 DEF Tick, vars, Replace, Mint
<1>3. ASSUME NEW e \in Envs, Configure(e)
      PROVE  SettingsAsRead'
  BY <1>3 DEF Configure, SettingsAsRead
<1>4. ASSUME NEW p \in Processes, Startup(p)
      PROVE  SettingsAsRead'
  BY <1>4 DEF Startup, SettingsAsRead
<1>5. ASSUME NEW p \in Processes, Stop(p)
      PROVE  SettingsAsRead'
  BY <1>5 DEF Stop, SettingsAsRead
<1> QED
  BY <1>2, <1>3, <1>4, <1>5 DEF Next

\* Whatever list a process is started with, however long and however its items
\* are padded or repeated, it binds each subject of it once, in their order.
THEOREM TrustedAlwaysAsConfigured == Spec => []TrustedAsConfigured
<1>1. Init => SettingsAsRead
  BY DEF Init, SettingsAsRead
<1>2. SettingsAsRead /\ [Next]_vars => SettingsAsRead'
  BY SettingsAsReadStep
<1>3. SettingsAsRead => TrustedAsConfigured
  <2> SUFFICES ASSUME SettingsAsRead, NEW p \in Processes, settings[p] # None
               PROVE  LET items == ConfiguredItems(readFrom[p])
                          trusted == build_plan(settings[p].trusted_subs)
                      IN Kept(items, Len(items), trusted)
    BY DEF TrustedAsConfigured, Kept, ConfiguredItems
  <2>1. readFrom[p] \in Envs /\ settings[p].trusted_subs = from_env(readFrom[p]).trusted_subs
    BY DEF SettingsAsRead
  <2> QED
    BY <2>1, ConfiguredSubjects, PlannedSubjects
<1> QED
  BY <1>1, <1>2, <1>3, PTL DEF Spec

-------------------------------------------------------------------------------
(***************************************************************************)
(* Type correctness.                                                       *)
(***************************************************************************)

\* Every environment that can be read gives settings: each variable has a default or a fallback.
LEMMA SettingsTyped ==
  ASSUME NEW e \in Envs, Readable(e)
  PROVE  from_env(e) \in ServiceSettings
<1>1. e \in Env
  BY EnvsAssumption
<1>2. env_with_global_fallback(e) \in VaultVariables
  BY <1>1 DEF Env, env_with_global_fallback, VaultVariables, Or
<1>3. Or(e.signing_vault_path, DEFAULT) \in Texts
  BY <1>1, TextsAssumption DEF Env, Or, isSet, Value
<1>4. from_env(e).trusted_subs \in Seq(Texts)
  BY ConfiguredSubjects DEF Kept
<1>5. default_lifetime_seconds(e) \in Int
  BY <1>1 DEF Env, default_lifetime_seconds, Readable
<1>6. signing_algorithm(e) \in Algorithm \cup {Blank}
  BY <1>1 DEF Env, signing_algorithm, upper, Algorithm, AlgorithmName
<1> QED
  BY <1>2, <1>3, <1>4, <1>5, <1>6 DEF from_env, ServiceSettings

LEMMA MintTyped ==
  ASSUME TypeOK, NEW p \in Processes, NEW t \in TokenIds, NEW lifetime \in Lifetimes,
         Mint(p, t, lifetime)
  PROVE  TypeOK'
<1> DEFINE s == settings[p]
           secret == secrets[s.signing_path]
           seconds == lifetime_seconds(p, lifetime)
           expires_at == clock + seconds * SECOND
           jwt == sign_token(s, load_signing_material(secret), clock, expires_at)
           new == [jwt |-> jwt, issued_at |-> clock, expires_at |-> expires_at, secret |-> secret]
<1>1. /\ s # None /\ seconds > 0 /\ secret # None /\ secret.private_key_pem \in Keys
      /\ minted' = [minted EXCEPT ![t] = new]
      /\ Encodes(s.algorithm, secret.private_key_pem)
      /\ UNCHANGED <<env, settings, readFrom, secrets, clock>>
  BY DEF Mint, HasSigner, Loadable
<1>2. s \in ServiceSettings
  BY <1>1 DEF TypeOK
<1>3. secret \in Secret
  <2>1. s.signing_path \in Texts
    BY <1>2 DEF ServiceSettings
  <2> HIDE DEF s
  <2> QED
    BY <1>1, <2>1 DEF TypeOK
<1>4. /\ s.algorithm \in Algorithm
      /\ s.default_lifetime_seconds \in Int
  BY <1>1, <1>2 DEF ServiceSettings, Encodes, Algorithm
<1>5. seconds \in Int
  BY <1>4, EnvsAssumption DEF lifetime_seconds
<1>6. Or(secret.kid, derive_kid(secret.private_key_pem)) \in Keys \cup Texts
  <2>1. secret.kid \in Value
    BY <1>3 DEF Secret
  <2> HIDE DEF secret
  <2> QED
    BY <1>1, <2>1 DEF Or, isSet, Value, derive_kid
<1>7. jwt = [kid |-> Or(secret.kid, derive_kid(secret.private_key_pem)),
             key |-> secret.private_key_pem, alg |-> s.algorithm,
             nbf |-> WholeSecond(clock), exp |-> WholeSecond(expires_at)]
  BY DEF sign_token, load_signing_material, Header
<1> HIDE DEF s, secret, seconds, jwt
<1>8. clock \in Nat /\ expires_at \in Nat
  <2>1. clock \in Nat /\ seconds * SECOND \in Nat
    BY <1>1, <1>5, LifetimesLastSeconds DEF TypeOK
  <2> QED
    BY <2>1
<1> HIDE DEF expires_at
<1>9. WholeSecond(clock) \in Nat /\ WholeSecond(expires_at) \in Nat
  BY <1>8, WholeSecondNatural
<1>10. new \in MintedToken
  <2>1. jwt \in Jwt
    BY <1>1, <1>4, <1>6, <1>7, <1>9 DEF Jwt
  <2> QED
    BY <1>3, <1>8, <2>1 DEF MintedToken
<1> HIDE DEF new
<1> QED
  BY <1>1, <1>10 DEF TypeOK

\* Whatever the environments, the keys and the lifetimes asked for: a token has
\* a record, a JWT of whole seconds and the secret it was signed with, and a
\* process has settings in which every variable has a value.
THEOREM SigningTypeCorrect == Spec => []TypeOK
<1>1. Init => TypeOK
  BY DEF Init, TypeOK
<1>2. TypeOK /\ [Next]_vars => TypeOK'
  <2> SUFFICES ASSUME TypeOK, [Next]_vars
               PROVE  TypeOK'
    OBVIOUS
  <2>1. CASE Tick
    BY <2>1 DEF Tick, TypeOK
  <2>2. ASSUME NEW e \in Envs, Configure(e)
        PROVE  TypeOK'
    BY <2>2 DEF Configure, TypeOK
  <2>3. ASSUME NEW path \in SigningPaths, NEW secret \in Secrets, Replace(path, secret)
        PROVE  TypeOK'
    BY <2>3, EnvsAssumption DEF Replace, TypeOK
  <2>4. ASSUME NEW p \in Processes, Startup(p)
        PROVE  TypeOK'
    <3>1. from_env(env) \in ServiceSettings
      BY <2>4, SettingsTyped DEF TypeOK, Startup
    <3> QED
      BY <2>4, <3>1 DEF Startup, TypeOK
  <2>5. ASSUME NEW p \in Processes, Stop(p)
        PROVE  TypeOK'
    BY <2>5 DEF Stop, TypeOK
  <2>6. ASSUME NEW p \in Processes, NEW t \in TokenIds, NEW lifetime \in Lifetimes,
               Mint(p, t, lifetime)
        PROVE  TypeOK'
    BY <2>6, MintTyped
  <2>7. CASE UNCHANGED vars
    BY <2>7 DEF vars, TypeOK
  <2> QED
    BY <2>1, <2>2, <2>3, <2>4, <2>5, <2>6, <2>7 DEF Next
<1> QED
  BY <1>1, <1>2, PTL DEF Spec

-------------------------------------------------------------------------------
(***************************************************************************)
(* The published key.                                                      *)
(***************************************************************************)

\* Two secrets with one kid have one key: a hash names its key, and what an
\* operator chooses is no key's hash.
LEMMA OneKidOneKey ==
  ASSUME NEW secret \in Secret, NEW other \in Secret,
         secret.private_key_pem \in Keys, other.private_key_pem \in Keys,
         NamedApart(secret, other),
         load_signing_material(secret).kid = load_signing_material(other).kid
  PROVE  secret.private_key_pem = other.private_key_pem
<1>1. \A material \in {secret, other} :
        /\ material.kid \in Texts \cup {Blank, None}
        /\ load_signing_material(material).kid =
             IF material.kid \in Texts THEN material.kid ELSE material.private_key_pem
  BY TextsAssumption DEF Secret, Value, load_signing_material, Or, isSet, derive_kid
<1>2. CASE secret.kid \in Texts /\ other.kid \in Texts
  BY <1>1, <1>2, TextsAssumption DEF NamedApart, isSet
<1>3. CASE secret.kid \in Texts <=> other.kid \notin Texts
  BY <1>1, <1>3, KeysAssumption
<1>4. CASE secret.kid \notin Texts /\ other.kid \notin Texts
  BY <1>1, <1>4
<1> QED
  BY <1>2, <1>3, <1>4

\* Whatever was rotated and restarted between: the kid of a document says which
\* tokens its key verifies, those of its algorithm to their last second.
THEOREM PublishedKeyAlwaysVerifies == Spec => []PublishedKeyVerifies
<1>1. SigningInv /\ TypeOK => PublishedKeyVerifies
  <2> SUFFICES ASSUME SigningInv, TypeOK, NEW t \in TokenIds, NEW p \in Processes,
                      minted[t] # None, Publishes(p)
               PROVE  LET jwt == minted[t].jwt
                          document == public_key_document(p)
                          secret == secrets[settings[p].signing_path]
                      IN /\ secret = minted[t].secret => document.kid = jwt.kid
                         /\ (document.kid = jwt.kid /\ NamedApart(secret, minted[t].secret)) =>
                              /\ document.key = jwt.key
                              /\ (/\ document.alg = jwt.alg
                                  /\ minted[t].issued_at <= clock /\ clock < jwt.exp)
                                 => VerifiesLocally(jwt, document, clock)
    BY DEF PublishedKeyVerifies
  <2> DEFINE jwt == minted[t].jwt
             signedWith == minted[t].secret
             document == public_key_document(p)
             secret == secrets[settings[p].signing_path]
  <2>1. Verifiable(minted[t]) /\ OnTime(minted[t])
    BY DEF SigningInv
  <2>2. /\ signedWith \in Secret /\ signedWith.private_key_pem \in Keys
        /\ jwt.kid = load_signing_material(signedWith).kid
        /\ jwt.key = signedWith.private_key_pem
    <3>1. minted[t] \in MintedToken
      BY DEF TypeOK
    <3> QED
      BY <2>1, <3>1 DEF MintedToken, Jwt, Verifiable, load_signing_material
  <2>3. secret \in Secret /\ secret.private_key_pem \in Keys
    <3>1. settings[p].signing_path \in Texts
      BY DEF TypeOK, ServiceSettings, Publishes, HasSigner
    <3>2. secret \in Secret \cup {None}
      BY <3>1 DEF TypeOK
    <3> QED
      BY <3>2 DEF Publishes, Loadable
  <2>4. /\ document.kid = load_signing_material(secret).kid
        /\ document.key = secret.private_key_pem
    BY DEF public_key_document, load_signing_material
  <2> HIDE DEF jwt, signedWith, document, secret
  <2>5. secret = signedWith => document.kid = jwt.kid
    BY <2>2, <2>4
  <2>6. ASSUME document.kid = jwt.kid, NamedApart(secret, signedWith)
        PROVE  document.key = jwt.key
    BY <2>2, <2>3, <2>4, <2>6, OneKidOneKey
  <2>7. ASSUME document.kid = jwt.kid, document.key = jwt.key, document.alg = jwt.alg,
               minted[t].issued_at <= clock, clock < jwt.exp
        PROVE  VerifiesLocally(jwt, document, clock)
    <3>1. jwt.nbf <= clock
      <4>1. clock \in Int
        BY DEF SigningInv
      <4> QED
        BY <2>1, <2>7, <4>1 DEF OnTime, jwt
    <3> QED
      BY <2>7, <3>1 DEF VerifiesLocally
  <2> QED
    BY <2>5, <2>6, <2>7 DEF jwt, signedWith, document, secret
<1> QED
  BY <1>1, SigningInvariant, SigningTypeCorrect, PTL
===============================================================================
