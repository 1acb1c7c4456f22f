------------------------------- MODULE Signing -------------------------------
(***************************************************************************)
(* The JWT of a runtime token: what a process signs with which key, what   *)
(* it publishes for local verification, and how both fare while the clock  *)
(* runs on, the key in Vault is replaced and processes restart with other  *)
(* settings.  Time is finer than the seconds a JWT knows.                  *)
(***************************************************************************)
EXTENDS Settings

CONSTANTS
  TokenIds,   \* the ids mint_token can draw
  Keys,       \* private keys
  RSAKeys,    \* those of them that are RSA keys
  SECOND,     \* instants of the clock in a second
  Processes,  \* the processes of the service
  Envs,       \* the environments they may be started in
  Secrets,    \* what an operator puts at the signing path
  Lifetimes,  \* the expires_in_seconds clients ask for
  MaxTime     \* bound: the last instant of the clock

\* A PEM text that is no key, and what a secret may hold
Garbage == "garbage"
Secret == [private_key_pem : Keys \cup {Garbage, Blank, None}, kid : Value]

\* A key is told from other texts: no kid an operator chooses is a key's hash
ASSUME KeysAssumption ==
  RSAKeys \subseteq Keys /\ ({Garbage, Blank, None} \cup Texts) \cap Keys = {}
ASSUME SecondAssumption == SECOND \in Nat \ {0}
ASSUME EnvsAssumption ==
  /\ Envs \subseteq Env
  /\ Secrets \subseteq Secret \cup {None}
  /\ Lifetimes \subseteq Int \cup {None} /\ None \notin Int
  /\ None \notin Secret

VARIABLES
  env,       \* the environment the next process starts in
  settings,  \* the settings each process has read, None when it is down
  readFrom,  \* history: the environment it has read them from
  secrets,   \* what Vault holds at each signing path
  clock,     \* utc_now(), in instants
  minted     \* the JWT and the record of each token

vars == <<env, settings, readFrom, secrets, clock, minted>>

Init ==
  /\ env \in Envs
  /\ settings = [p \in Processes |-> None]
  /\ readFrom = [p \in Processes |-> None]
  /\ secrets = [path \in Texts |-> None]
  /\ clock = 0
  /\ minted = [t \in TokenIds |-> None]

-------------------------------------------------------------------------------
(***************************************************************************)
(* Processes, and what operators do around them.                           *)
(***************************************************************************)

\* get_service_settings caches what it reads for the life of the process, and
\* a process whose environment it cannot read stays down
Startup(p) ==
  /\ settings[p] = None
  /\ Readable(env)
  /\ settings' = [settings EXCEPT ![p] = from_env(env)]
  /\ readFrom' = [readFrom EXCEPT ![p] = env]
  /\ UNCHANGED <<env, secrets, clock, minted>>

Stop(p) ==
  /\ settings[p] # None
  /\ settings' = [settings EXCEPT ![p] = None]
  /\ readFrom' = [readFrom EXCEPT ![p] = None]
  /\ UNCHANGED <<env, secrets, clock, minted>>

Configure(e) ==
  /\ e # env
  /\ env' = e
  /\ UNCHANGED <<settings, readFrom, secrets, clock, minted>>

SigningPaths == {from_env(e).signing_path : e \in Envs}

\* Nothing in the service writes the signing secret
Replace(path, secret) ==
  /\ secrets[path] # secret
  /\ secrets' = [secrets EXCEPT ![path] = secret]
  /\ UNCHANGED <<env, settings, readFrom, clock, minted>>

Tick ==
  /\ clock < MaxTime
  /\ clock' = clock + 1
  /\ UNCHANGED <<env, settings, readFrom, secrets, minted>>

-------------------------------------------------------------------------------
(***************************************************************************)
(* Signing and publishing.                                                 *)
(***************************************************************************)

\* build_token_signer: no Vault, no signer
HasSigner(p) == settings[p] # None /\ is_configured(settings[p].vault)

Loadable(secret) == secret # None /\ secret.private_key_pem \in Keys

\* Faulty variant: a secret without a kid gets the same one whatever its key
OneKidForAll(key) == DEFAULT

\* A key's hash stands for the key
derive_kid(key) == key

load_signing_material(secret) ==
  [key |-> secret.private_key_pem,
   kid |-> Or(secret.kid, derive_kid(secret.private_key_pem))]

\* jwt.encode refuses a key of the other family, and an algorithm it does not know
Encodes(algorithm, key) ==
  \/ algorithm = "RS256" /\ key \in RSAKeys
  \/ algorithm = "ES256" /\ key \notin RSAKeys

\* Faulty variant: a lifetime that is not a whole second is rounded up
RoundsUp(instant) == instant + SECOND - 1 - ((instant + SECOND - 1) % SECOND)

\* int(timestamp), as the instant that second begins
WholeSecond(instant) == instant - (instant % SECOND)

Header(material) == material.kid

sign_token(s, material, issued_at, expires_at) ==
  [kid |-> Header(material), key |-> material.key, alg |-> s.algorithm,
   nbf |-> WholeSecond(issued_at), exp |-> WholeSecond(expires_at)]

lifetime_seconds(p, lifetime) ==
  IF lifetime = None THEN settings[p].default_lifetime_seconds ELSE lifetime

Mint(p, t, lifetime) ==
  /\ HasSigner(p)
  /\ minted[t] = None
  /\ lifetime_seconds(p, lifetime) > 0
  /\ LET s == settings[p]
         secret == secrets[s.signing_path]
         expires_at == clock + lifetime_seconds(p, lifetime) * SECOND
     IN /\ Loadable(secret) /\ Encodes(s.algorithm, secret.private_key_pem)
        /\ minted' = [minted EXCEPT ![t] =
             [jwt |-> sign_token(s, load_signing_material(secret), clock, expires_at),
              issued_at |-> clock, expires_at |-> expires_at, secret |-> secret]]
  /\ UNCHANGED <<env, settings, readFrom, secrets, clock>>

\* public_key_document: the route answers an error for a key that is not RSA
Publishes(p) ==
  /\ HasSigner(p)
  /\ Loadable(secrets[settings[p].signing_path])
  /\ secrets[settings[p].signing_path].private_key_pem \in RSAKeys

public_key_document(p) ==
  LET material == load_signing_material(secrets[settings[p].signing_path])
  IN [kid |-> material.kid, key |-> material.key, alg |-> settings[p].algorithm]

\* What a service that has the document does before it asks for a decision
VerifiesLocally(jwt, document, now) ==
  /\ jwt.kid = document.kid /\ jwt.key = document.key /\ jwt.alg = document.alg
  /\ jwt.nbf <= now /\ now < jwt.exp

Next ==
  \/ Tick
  \/ \E e \in Envs : Configure(e)
  \/ \E path \in SigningPaths, secret \in Secrets : Replace(path, secret)
  \/ \E p \in Processes :
       \/ Startup(p) \/ Stop(p)
       \/ \E t \in TokenIds, lifetime \in Lifetimes : Mint(p, t, lifetime)

Spec == Init /\ [][Next]_vars

-------------------------------------------------------------------------------
Jwt == [kid : Keys \cup Texts, key : Keys, alg : Algorithm, nbf : Nat, exp : Nat]
MintedToken == [jwt : Jwt, issued_at : Nat, expires_at : Nat, secret : Secret]

\* Every variable holds values of the kind its declaration describes.
TypeOK ==
  /\ env \in Envs
  /\ settings \in [Processes -> ServiceSettings \cup {None}]
  /\ secrets \in [Texts -> Secret \cup {None}]
  /\ readFrom \in [Processes -> Envs \cup {None}]
  /\ clock \in Nat
  /\ minted \in [TokenIds -> MintedToken \cup {None}]

\* The JWT, which counts whole seconds, never outlives the record that decides,
\* ends less than a second before it, and is valid the instant it is handed out,
\* at every fraction of a second.
LocalExpiryFollowsRecord ==
  \A t \in TokenIds :
    minted[t] # None =>
      LET jwt == minted[t].jwt
      IN /\ jwt.nbf <= minted[t].issued_at /\ minted[t].issued_at < jwt.exp
         /\ jwt.exp <= minted[t].expires_at /\ minted[t].expires_at - SECOND < jwt.exp

\* The operator has not given one kid to two keys
NamedApart(secret, other) ==
  \/ secret.private_key_pem = other.private_key_pem
  \/ ~isSet(secret.kid)
  \/ secret.kid # other.kid

\* Whichever process signed a token, and whatever secret and settings a process
\* that publishes a document has by now: the document of the token's own secret
\* carries its kid, and a document that carries its kid has its key, never the
\* one it was rotated to, unless an operator gave both keys one kid.  The key
\* verifies the token to its last second where it is published under the
\* algorithm that signed it.  That is a condition: a process restarted with
\* another SIGNING_ALGORITHM publishes the same key under the other one, and
\* older tokens fail with it.
PublishedKeyVerifies ==
  \A t \in TokenIds, p \in Processes :
    (minted[t] # None /\ Publishes(p)) =>
      LET jwt == minted[t].jwt
          document == public_key_document(p)
          secret == secrets[settings[p].signing_path]
      IN /\ secret = minted[t].secret => document.kid = jwt.kid
         /\ (document.kid = jwt.kid /\ NamedApart(secret, minted[t].secret)) =>
              /\ document.key = jwt.key
              /\ (/\ document.alg = jwt.alg
                  /\ minted[t].issued_at <= clock /\ clock < jwt.exp)
                 => VerifiesLocally(jwt, document, clock)

\* A process binds each subject of the list it was started with once, in the
\* order in which they first appear, however they are padded or repeated.
TrustedAsConfigured ==
  \A p \in Processes :
    settings[p] # None =>
      LET items == IF readFrom[p].bootstrap_admin_subs = None
                     THEN <<>> ELSE readFrom[p].bootstrap_admin_subs
          trusted == build_plan(settings[p].trusted_subs)
      IN /\ {trusted[i] : i \in 1..Len(trusted)}
              = {items[i].text : i \in 1..Len(items)} \ {Blank}
         /\ \A i, k \in 1..Len(trusted) :
              i < k => /\ trusted[i] # trusted[k]
                       /\ \E h \in 1..Len(items) :
                            /\ items[h].text = trusted[i]
                            /\ \A j \in 1..h : items[j].text # trusted[k]
==============================================================================
