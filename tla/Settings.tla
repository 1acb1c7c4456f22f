------------------------------- MODULE Settings -------------------------------
(***************************************************************************)
(* What app/settings.py and the bootstrap plan make of the environment:    *)
(* the backend, the signer and the trusted subjects of a process.  A text  *)
(* is told from other texts and from the blank one; how it is spelled      *)
(* matters only for the blanks around an item of a list.                   *)
(***************************************************************************)
EXTENDS Integers, Sequences

CONSTANTS
  Texts,   \* texts that are not blank: paths, credentials, subjects
  Blank,   \* the empty text, what is empty once stripped, and where a number or
           \* the name of an algorithm is read, any other text
  None,    \* an environment variable that is not set
  DEFAULT  \* the text signing_key_path() gives

Value == Texts \cup {Blank, None}
Algorithm == {"RS256", "ES256"}
AlgorithmName == [name : Algorithm \cup {Blank}, lower : BOOLEAN]
Item == [text : Texts \cup {Blank}, padded : BOOLEAN]
VaultVariables == [url : Value, token : Value, role_id : Value, secret_id : Value]

\* `own` variables have the prefix GOFRSEC_, `shared` ones GOFR_
Env == [own : VaultVariables, shared : VaultVariables, signing_vault_path : Value,
        signing_algorithm : AlgorithmName \cup {None},
        token_default_lifetime : Int \cup {Blank, None},
        bootstrap_admin_subs : Seq(Item) \cup {None}]

ServiceSettings ==
  [vault : VaultVariables, signing_path : Texts, algorithm : Algorithm \cup {Blank},
   default_lifetime_seconds : Int, trusted_subs : Seq(Texts)]

ASSUME TextsAssumption == DEFAULT \in Texts /\ Blank \notin Texts /\ None \notin Texts

-------------------------------------------------------------------------------
isSet(value) == value \notin {Blank, None}

\* Python's `or`
Or(value, other) == IF isSet(value) THEN value ELSE other

strip(item) == item.text

\* Faulty variant: a repeated item moves to the end
KeepsLastOfEach(items) ==
  LET kept[i \in 0..Len(items)] ==
        LET Other(text) == text # strip(items[i])
        IN IF i = 0 THEN <<>>
           ELSE IF isSet(strip(items[i]))
             THEN Append(SelectSeq(kept[i - 1], Other), strip(items[i]))
             ELSE kept[i - 1]
  IN kept[Len(items)]

AppendNew(kept, item) ==
  IF isSet(strip(item)) /\ strip(item) \notin {kept[i] : i \in 1..Len(kept)}
    THEN Append(kept, strip(item))
    ELSE kept

\* The first of each text that is not blank, in order
normalize_subjects(items) ==
  LET kept[i \in 0..Len(items)] ==
        IF i = 0 THEN <<>> ELSE AppendNew(kept[i - 1], items[i])
  IN kept[Len(items)]

\* build_plan normalizes what split_csv has split
build_plan(subjects) ==
  normalize_subjects([i \in 1..Len(subjects) |-> [text |-> subjects[i], padded |-> FALSE]])

split_csv(value) == IF value = None THEN <<>> ELSE normalize_subjects(value)

\* Each Vault variable falls back to the shared one by itself
env_with_global_fallback(env) ==
  [v \in {"url", "token", "role_id", "secret_id"} |-> Or(env.own[v], env.shared[v])]

\* Half an AppRole is no credential
is_configured(vault) ==
  isSet(vault.url) /\ (isSet(vault.token) \/ (isSet(vault.role_id) /\ isSet(vault.secret_id)))

upper(text) == text.name

\* An algorithm nobody knows is refused when a token is signed, not here
signing_algorithm(env) ==
  IF env.signing_algorithm = None THEN "RS256" ELSE upper(env.signing_algorithm)

\* int() raises for a lifetime that is no number, and with it from_env
Readable(env) == env.token_default_lifetime # Blank

\* Faulty variant: no default for a lifetime that is not set
ReadsUnset(env) == env.token_default_lifetime

default_lifetime_seconds(env) ==
  IF env.token_default_lifetime = None THEN 3600 ELSE env.token_default_lifetime

from_env(env) ==
  [vault |-> env_with_global_fallback(env),
   signing_path |-> Or(env.signing_vault_path, DEFAULT),
   algorithm |-> signing_algorithm(env),
   default_lifetime_seconds |-> default_lifetime_seconds(env),
   trusted_subs |-> split_csv(env.bootstrap_admin_subs)]
===============================================================================
