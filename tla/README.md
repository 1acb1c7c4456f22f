# A verification development for gofr-sec

gofr-sec is the control plane of the GOFR services. It keeps user profiles, groups, group
memberships and runtime tokens; administers them over HTTP for the members of one reserved
group, `admin`; and answers runtime services that ask whether a token allows something. This
directory holds TLA+ modules that model it, TLC configurations that check small instances, and
TLAPS proofs of what holds for every instance.

Paths below are relative to the root of the repository.

## 1. The system

### Components

| Component | Code | State it keeps | Operations | What makes it correct |
|---|---|---|---|---|
| Domain rules | `app/domain` | none | fold a group name, recognise the reserved group, last-admin rule, runtime-group rule | rules apply to the folded name, never to a spelling |
| Group and membership administration | `services/admin_group_service.py` | groups, memberships (through repositories) | create group, add and remove membership | an admin always remains; grants trace back to the bootstrap; none dangles, none is rewritten |
| Token registry | `services/token_service.py`, `vault_tokens.py` | canonical record per token; an index entry for its owner and one for each of its groups | mint, inspect, revoke, list one's own | a revocation is final; what was answered is recorded and indexed; no index is ahead of its record; `admin` is in no token |
| Token signing | `services/token_service.py` | key pair in Vault | sign, publish the public key | the JWT never outlives its record; what is published verifies what was signed |
| Self-registration | `services/user_registration_service.py` | profiles | register, refresh | a profile stays once created |
| Runtime authorization | `services/runtime_service.py` | none | authorize, publish the key | a decision is allow only for an active, unexpired record of that owner that grants the target |
| Bootstrap | `services/bootstrap_service.py`, `bootstrap.py` | none of its own | bind the trusted subjects at every startup | can stop anywhere and run again |
| Repositories | `repositories/` | Vault documents, or dictionaries | reads and writes | an upsert is a fixed sequence of writes |
| Audit log | `repositories/audit.py` | list in memory, log lines | append | what it claims is in the store; what changed is in it |
| API | `api/`, `web_server/` | a process-wide bundle of repositories | routes and their dependencies | only admins get past the admin check |
| Settings | `settings.py` | two cached singletons | read the environment | read once, before serving; lists keep the order of their first occurrences |

`AdminGroupService`, `AdminTokenService`, `UserRegistrationService` and
`RuntimeAuthorizationService` share nothing but the repositories. A route resolves its
dependencies (`require_admin_identity`, then `get_token_signer` for a mint), builds the service
and calls one method. Repositories are in-memory dictionaries or, when `VAULT_URL` and
credentials are set, Vault documents: one per profile, per group, per user's memberships, per
token, and per index entry. Bearer tokens are verified by `gofr_common`, which is not part of
the repository: a caller is a verified subject here.

### What is hard about it

* **Interleaving.** Handlers are `async def` and never await, so one handler runs without
  another in between. Their dependencies are plain functions that run in a thread pool. Between
  the admin check of a request and its handler other handlers run, so the actor of an admitted
  request may not be an admin any more, and two removals of the last two admins may both be
  admitted.
* **Partial failure.** Every repository call is an HTTP request to Vault. It can fail before or
  after Vault applied it. A token's upsert is one canonical write and several index writes, with
  no transaction around them. The store changes before the audit event is appended.
* **Crash and restart.** Startup applies the bootstrap plan every time, and may stop at any of
  its writes.
* **Retries.** A client that got no answer sends a grant, a mint or a revocation again.
* **Several processes on one Vault prefix.** A user's memberships are one document, read and
  written back without check-and-set. A listing reads a token per call while others write.
* **Late writes.** A call that timed out after `VAULT_TIMEOUT` may still reach Vault, after later
  handlers have read and written.
* **Time.** Tokens expire by the wall clock, and `authorize` takes the time before its read; the JWT
  truncates what the record does not.
* **Replaced keys and settings.** The signing secret is read at every call, the settings once per
  process.

`PROJECT.json` lists each of these under `hazards`, at its line.

## 2. Modules

| Module | Models |
|---|---|
| `GofrDomain` | records and rules of `app/domain`; the spellings of a group name; the admin requests |
| `ControlPlane` | one process and its store: startup, crash, the admin check, the six admin handlers, registration, self listing, authorization, the clock; all properties |
| `AccessPromise` | the abstract specification: who administers, what is issued, what is revoked |
| `Registration` | the fields of a profile over repeated registrations |
| `VaultMemberships` | groups and memberships, Vault call by Vault call, for any number of processes |
| `VaultTokens` | mint, revoke, listing and decision, Vault call by Vault call, for any number of processes |
| `Settings` | what a process makes of its environment: backend, signer, trusted subjects |
| `Signing` | JWTs, keys and published documents while keys, settings and time change |
| `MCControlPlane`, `MCRegistration`, `MCVaultMemberships`, `MCVaultTokens`, `MCSigning` | the constants of the instances TLC checks |
| `ControlPlaneProofs` | type correctness and the theorems on memberships and admins |
| `ControlPlaneTokenProofs` | the theorems on tokens and on the audit log |
| `ControlPlaneRefinement` | ControlPlane implements AccessPromise |
| `RegistrationProofs` | the theorems on profiles |
| `VaultMembershipsProofs`, `VaultTokensProofs` | what holds whatever processes do to each other |
| `VaultMembershipsRefinement` | one process, call by call, keeps its last admin and implements AccessPromise |
| `SigningProofs` | the theorems on JWTs and on the trusted subjects, for lists of any length |

`ControlPlane` is one process with its handlers as single steps: it composes all components.
`VaultMemberships` and `VaultTokens` take the same handlers apart where they call Vault, for the half of the
store each is about, and put any number of processes beside each other. The two halves meet in the admin
check, which `ControlPlane` has, and in the checks of a mint, which no step can falsify (definitions
and profiles are never deleted).

### GofrDomain

`RawName` is a group name as a client writes it: the canonical name it folds to (or `None` if it
is not a name at all) and a spelling. The spelling is plain, padded with blanks, or in
upper-case letters. `normalize_group_name` folds all three. The runtime route only strips, so
`stripped_target` finds nothing for an upper-case name. A rule that raises in the code is a Boolean
operator. `ensure_can_delete_group` and `ensure_can_rename_group` are left out: no operation of
the service calls them. A group is its name: descriptions only travel to responses, and nothing
deletes or deactivates a group.

### ControlPlane

| Variable | In the code |
|---|---|
| `proc` | whether the process serves; `initialize_application_state` runs before it does |
| `registered`, `groups`, `memberships` | what the profile, group and membership repositories hold |
| `tokens` | the canonical token records |
| `userIndex`, `groupIndex` | the status written in a token's index entries |
| `inflight` | admin requests whose dependencies have passed and whose handler has not run; `entitled` in them is history: the actor was an admin when the request was admitted |
| `clock` | `utc_now()` |
| `audit`, `answer` | the last event of the process and the last HTTP answer |
| `bootstrapped`, `answeredMints`, `answeredRevokes` | history; no guard reads them |

One action is one handler: guards in the order of the code's exceptions where the order can be
told apart, its writes, its audit event, its answer. `Finish` is the end every admin handler
shares. `SingleWrite` and `UpsertProgress` say how far a handler's writes got when it returned,
failed or died: a write can have been applied although its call failed, and no write is applied
before the one ahead of it. When a handler returns, all its writes are applied. A write that failed is
applied by the end of its handler or never: writes that arrive after later handlers are in
`VaultMemberships`, `VaultTokens` and `Registration`, and what `ControlPlane` says of a store (that grants are
not rewritten, that `revoked_at` is fixed, that an admin remains) is said of one they do not reach. In-memory
repositories (`VaultConfigured = FALSE`) never fail. A crash of the process empties them.
`Startup` has the same shape: the reserved group, then the trusted subjects in their order.

`RegisterSelf`, `ListSelfTokens` and `Authorize` take no slot: none of their dependencies reads
stored state. `register_self` reads the existing profile outside its `try`, so that failure is
answered 500 with no event, which is the first disjunct of `RegisterSelf`.

Choices a reader should know:

* `TrustedSubs` has no duplicates and is the same at every start. That `_normalize_subjects` removes
  duplicates and blanks is checked in `Settings`.
* The order of a token's group index writes is left open (any subset may have been applied when
  the upsert stopped); the code writes them in the order of the record.
* A failure while signing is an error of `MintToken` with nothing written: signing precedes the
  upsert. Conversely an upsert that fails after the canonical write leaves an active record
  whose JWT nobody received. The audit log says failure, the owner's listing may or may not show it.
* `authorize` looks at the record only. A user removed from a group keeps the tokens that grant it;
  the tests agree (`test/runtime/test_authorize_api.py`).
* The clock is never set back. With a clock that is, `AuthorizationNeverRegained` would fail.
* A refused request (403) leaves no event, although `docs/gofr_sec_impl_plan.md:350` has failed admin access
  audited: `Refuse` appends none. No run is spent on it.
* A group name that is no name, an unknown owner and an unknown group are different HTTP codes in
  the code and one answer, `failed`, here.

### AccessPromise

Three facts about the outside of the service: `admins`, `issued` tokens, `revoked` ids. Each action is atomic
and cannot fail. `Appoint`, `Dismiss`, `Issue` and `Revoke` need an admin to exist (not that the actor
still be one: see the finding `stale_admin`), `Dismiss` must leave one, `Issue` never grants
`admin` and never reuses an id, `Bind` adds trusted subjects, and only a store that is not durable may
`Lose` everything. `ControlPlane!Access` maps `admins` to the members of the reserved group and
`issued` and `revoked` to the canonical records. Slots, indexes, waiting requests, audit and
the process map to nothing. So a handler that stopped half-way must look from outside as if it had happened
entirely or not at all.

### Registration

`ControlPlane` knows of a profile only that it exists, which is all its other handlers ask.
`Registration` keeps the fields: `profiles` is the profile repository with registration time, update time,
name and address, `clock` is `utc_now()`, `late` the writes Vault may still apply, `answer` what the last step
answered, if anything, and `welcomed` (history) when a subject was answered `created`. A registration is one
action, since `register_me` never awaits: it reads the stored profile, keeps its registration time and the
fields for which the bearer token has no usable claim, and writes. The write can be applied and its answer
lost, so a client may register again what is already registered; or applied late (`ArriveLate`), over a
profile that was registered since. Such a write puts back the older profile: the fields it lacks are lost, and
the registration time may move. What stands nevertheless is that a subject is told "created" once, and that
the stored time is never later than the moment it was. `Restart` empties an in-memory store. The group names of `GET /v1/me` are left to
`ControlPlane`; `_deserialize_profile`'s fallback for missing times has no case, since only `upsert` writes
profiles and it writes both.

### VaultMemberships

| Variable | In the code |
|---|---|
| `groups`, `documents` | the group definitions, and the membership document of each user |
| `pc`, `boot`, `job` | the next Vault call of each process; how far its startup is; the change it works on |
| `todo`, `found` | `count_members`: the users still to read, the records read so far |
| `loaded` | the document `add` or `remove` is about to write back |
| `waiting` | a request whose admin check has passed, beside the handler that is running; `entitled`, in it and in the job it becomes, is history: its actor was an admin when checked |
| `late` | writes whose caller gave up and that Vault may still apply |
| `answered` | history |

One action is one Vault call with what the handler computes up to the next one: `FindNothingToDo`, `FindNoGrounds`
and `FindWork` are the three ways the first read can turn out, `Count` reads one document of
`count_members`, `Load` and `Store` are the read and the write of the repository's `add` and `remove`.
`WriteEffect` says when a write is applied (now, never, late) and how its call ends (answer, error,
death of the process). A startup runs the same jobs (`BootJobs`). The look at the group definition
is part of the first read, because definitions are never deleted. There is no
index of a group's members: `count_members` reads every user's document.

The module also implements `AccessPromise`, with `Access` mapping `admins` to the users whose document has the
admin group and no tokens at all.

### VaultTokens

`tokens`, `userIndex`, `groupIndex`, `clock` and `late` are as above; an index entry has its owner and its
status. `pc`, `job`, `todo` and `listed` are a process's locals, `drawn` the ids `uuid4` has given, and `answer`
what the last step told the runtime or the owner, if anything. `job` keeps history too: what was recorded
(`held`) and answered (`minted`, `revoked`) when a request began, which is what its answer is judged by.

`Mint` draws the id and makes the record; `Revoke` and `Find` read the record, which a revoked one ends;
`Store` is one write of `upsert` (record, owner, each group in any order). `Ask` takes the time and
`Decide` reads the record and answers. `ListKeys` and `ReadListed` are the calls of `list_for_user`. `Abandon` is a call
that raised or a process that died: either way nobody is answered 200, and startup touches no
token. The checks a mint makes first (admin, owner, groups) are in `ControlPlane`; here a
`MintRequest` has passed them. The deletions in `upsert` have no case, since no record changes owner or
groups.

### Settings and Signing

`Settings` has no state: operators for `_split_csv`, `_normalize_subjects`, the fallback from `GOFRSEC_` to
`GOFR_` variables, `is_configured`, the upper-case name of the algorithm and the defaults. A text is a value
told from other texts and from the blank one; only the blanks around an item of a list are looked at, and
they are stripped. Any name that is no algorithm of the two families is `Blank`, which reads like them and is refused
when a token is signed. A default lifetime that is no number raises when it is read, so a process with one stays
down (`Readable`, a guard of `Startup`).

`Signing` starts and stops processes, which read the environment once, while an operator changes the environment
(`Configure`) and the secret at a signing path (`Replace`), and processes mint. The clock is finer than a
second (`SECOND` instants), as the record's times are and a JWT's are not. A key's hash is the key
(`derive_kid`): that the hashes of two keys differ is taken for granted, and so is that no operator chooses
one for a kid. `Publishes` and `public_key_document` are
the key document, and `VerifiesLocally` is what a service does with it (external). PyJWT's refusal of a key of the
other family is external (`Encodes`). `SIGNING_ALGORITHM=ES256` with an EC key mints tokens while the
key document is refused, and the model shows both; the documents speak of RSA only, so no property
promises a document there. With an RSA key left in place, the same setting makes a process publish that key under
`ES256` (`token_service.py:246` answers the configured algorithm, not the key's), and tokens signed before the restart
fail with the document. `PublishedKeyVerifies` excludes this case in so many words. `StaticTokenSigner`, which only tests construct, is left out.

## 3. What TLC checks

| Run | Instance | Shows |
|---|---|---|
| `membership` | 3 subjects, 1 trusted, `admin` and `team`, 1 slot, Vault | `TypeOK`, `AuthorityInv`, `GrantsRestOnRecords`, `GrantsNeverRewritten` |
| `tokens` | 2 subjects, `admin` and 2 groups, 1 token, clock to 2, Vault | `TokenInv`, the seven properties of tokens, `SuccessEventsHold`, `ChangesAreAudited` |
| `access` | 2 trusted subjects, `admin` and `team`, 1 token, 2 slots, clock to 1, Vault | `LastAdminRemains` against removals admitted together, `ImplementsAccessPromise`, `AuthorityHasRoot` for memberships and tokens |
| `registration` | 1 subject, 2 texts and blank and missing claims, 2 late writes, clock to 2, Vault | `TypeOK`, `AnswersShowTheStore`, `RegistrationTimeFixed`, `KnownFieldsKept`, `CreatedOnce` of `Registration` |
| `calls` | 1 process, 2 subjects, 1 trusted, `admin` and `team`, no late writes, fair | `TypeOK`, `AnsweredChangesHold`, `StartupKeepsGrants`, `ImplementsAccessPromise`, `HandlersEnd` of `VaultMemberships` |
| `shared_vault` | 2 processes, both subjects trusted, the removal of an admin among the requests, 1 late write | `OneRecordPerGrant`, `AuthorityHasRoot`, `GrantsRestOnRecords` of `VaultMemberships` |
| `shared_tokens` | 2 processes, 1 late write, 1 token of 2 groups, clock to 1 | `TypeOK`, `IndexesFollowRecords`, `AnsweredChangesStand`, `ListingsAreCurrent`, `DecisionsAreRight`, `RecordsOnlyGetRevoked` of `VaultTokens` |
| `signing` | 2 processes, 6 environments, 6 secrets or none, 3 instants in a second, clock to 5 | `TypeOK`, `LocalExpiryFollowsRecord`, `PublishedKeyVerifies`, `TrustedAsConfigured` of `Signing` |

Why the bounds are enough for what each run asks:

* Three subjects let an admin be granted by an admin who has since been removed; two slots are
  what it takes for two removals to pass their check together. More slots only add requests that
  were admitted earlier, which the handlers do not tell apart. The proofs have no bound.
* One token with two groups reaches every prefix of an upsert, twice (mint and revoke). Tokens
  share no state but the id they are drawn from, and reuse of an id takes one.
* A clock of two instants past zero covers a mint before, at and after expiry with lifetimes 1 and 2; in
  `shared_tokens` one instant lets a token of lifetime 1 expire during a call.
* Profiles of different subjects share nothing but the answer of one step, so the run has one; the theorems have
  any number. Two late writes are on their way while a third registration is answered, two texts tell a stored
  field from a claimed one, and three instants a write from the one it overtook and from the present.
* Two processes are what it takes to overwrite each other's documents, and one late write arrives after any
  number of later calls. The theorems of section 4 have neither bound.
* Three instants in a second are the fewest with an instant that is neither the first nor the last; six
  instants reach a JWT of one second minted at each fraction, and its end. One token is enough, as each JWT
  is judged by itself; the environments differ in backend, path, algorithm,
  default lifetime and list of subjects, one of them cannot be read, and the secrets rotate to another key
  with the same kid, with one of its own and with none.

`MaxTime`, `Slots`, `LateSlots`, `Processes`, `TokenIds`, the request sets and, for signing, `Envs`, `Secrets` and
`Lifetimes` are the only bounds. The in-memory backend (`VaultConfigured = FALSE`) is covered by the theorems
only.

`VIEW coreView` hides `audit` and `answer` (in `VaultMemberships`: `answered`) where no property reads them, or
where action properties read them primed only. It is sound because no action reads them, and TLC
evaluates an action property on every step it generates, also on those to states it has seen.
`SYMMETRY` permutes slots, processes or texts where it is used; every formula of those runs treats them
alike, and no liveness is checked under it.

**Fairness.** `FairSpec` of `VaultMemberships` has weak fairness of `Call(p)` and of `Handle(p)`. Every Vault call ends, with an
answer or an exception, by `VAULT_TIMEOUT`, and the event loop goes on with the handler it is in and then with
the next request: nothing else is assumed, neither that a call succeeds nor that a process
starts again. Under it `HandlersEnd` holds: no handler waits for another, and `count_members` comes to
an end. No other liveness is claimed: nothing in the code retries or schedules work, so whatever else
eventually happens depends on a client's next request.

Each property has a mutant: a plausible error in the code, written beside the definition it
replaces as a "Faulty variant", under which TLC finds the property violated.

### Where documents and code disagree

Four runs are expected to find a violation. Each checks one sentence of the documents.

| Run | Document | What the run shows |
|---|---|---|
| `repeated_startup` | `docs/gofr_sec_impl_plan.md:201`, repeated startup must not overwrite manual admin changes | a trusted subject removed from `admin` is an admin again after a restart |
| `stale_admin` | `docs/gofr_sec_proposal.md:37`, only admins can change groups, memberships and tokens | a request admitted before its actor was removed still takes effect |
| `revoke_retry` | `docs/gofr_sec_proposal.md:419`, revocation relies on status and group indexes | a revocation that failed after its first write is answered as done when retried, and leaves index entries that say active. Decisions are unaffected: they read the canonical record |
| `late_write` | `docs/gofr_sec_proposal.md:56`, at least one user must always remain associated with `admin` | one process: a removal that timed out is not counted yet by the next removal, and when both have arrived nobody is an admin |

That two processes on one prefix lose each other's updates, and the last admin with them, follows from
the code in the same way; the documents promise nothing about several processes, so the run
`shared_vault` states what survives instead.

## 4. What TLAPS proves

For every set of subjects, groups, token ids, requests, slots, processes and late writes, for both
backends and every place a startup or a handler can stop. The assumptions are the named `ASSUME`s of the
modules: finitely many subjects, `None` is none of the values it stands
apart from, `admin` is a group name, a second is at least one instant, and the parameters have their types.

### ControlPlane

The argument has three layers.

1. `TypeCorrect` is proved action by action.
2. *Shapes.* `MembershipSteps` and `TokenSteps` show that every step changes the memberships in one of five
   ways (`BindsTrusted`, `Grants`, `Withdraws`, `Forgets`, `LeavesMemberships`) and the tokens in
   one of five (`Mints`, `Revokes`, `Confirms`, `ForgetsTokens`, `LeavesTokens`); `InflightSteps`
   shows who can be waiting in a slot. Later proofs go by shape and name no action.
3. *Invariants.* `AuthorityInv` and `TokenInv` are inductive relative to `TypeOK`.

`LastAdminRemains` is not inductive. The last-admin rule counts membership *records*, so the
invariant needs that no subject has two for one group (`OneRecordPerGrant`) and that there are
finitely many; `AnotherAdminRemains` turns a count above one into another admin. The handler
reads the count itself, which is why concurrent admission does no harm.
`AuthorityHasRoot` judges every step that changes a grant or a token by the request whose handler made it: it
asked for just that change, and its actor was an admin when it was admitted (`entitled`). That the requests waiting
in slots are all entitled is part of `AuthorityInv`; that a step changes no more than one request asked for is read off the
shapes (`GrantsChange`, `TokensChange`). It does not say that the actor is still an admin when the handler runs: that
is false (run `stale_admin`).

`AnsweredRevocationHolds` needs that an answered revocation left the record revoked, and so the order of
an upsert's writes (`UpsertOrder`). `AnsweredMintsAreIndexed` needs that mints are only
admitted with Vault: a lost in-memory store would take answered mints with it. `AuthorizationNeverRegained` rests
on `StoredTokenStep` (a stored token changes only by its revocation, while active) and on the clock.

`ControlPlaneRefinement` composes the shapes: `StepKinds` shows that no step changes memberships and tokens at
once, except the loss of a store, `MembershipsRefine` and `TokensRefine` map the shapes to
abstract actions, and `ImplementsAccess` is the theorem. `RequestsNeedAdmins` is the step that
needs both invariants: a waiting request implies an admin, though maybe not its actor.

The audit log is a matter of single steps, so its two theorems need no further invariant. `AnsweringSteps` lists the
steps that append an event, `GroupEventHolds` and `TokenEventHolds` show that the stores hold what a success
event says in the state the handler leaves, and `ChangesAreAnswers` that a serving process
changes groups, memberships or tokens only in a handler, all of which end in `Finish`. `ChangesAreAudited` asks for
the event of the request that was answered, its operation and its actor, not for some event;
that an event is never `None` is the assumption `NoEventAssumption`.

### Registration

`RegistrationInv` adds to the types that an answer shows the store and `WelcomesHold`: a welcomed subject has a profile,
and it and every write of it that is still on its way were registered by the time of the welcome. That is why a late
write can neither undo a welcome nor postdate it. The rest follows from `NewProfileContents`, what a registration keeps
of the existing profile, and from `ProfileSteps`: a stored profile is left, registered again or overwritten late.

### VaultMemberships

`VaultInv` says of every place a document can be, stored, loaded by a process or on its way to Vault, that its
records are of one subject, at most one for each group, and each is of a defined group. That is what makes
`OneRecordPerGrant` and `GrantsRestOnRecords` immune to lost updates: an overwritten document is replaced by one that
was sound when it was read, and the definitions soundness rests on only grow (`SoundGrows`).

`AuthorityHasRoot` is about the records in all those places together. Storing a document, losing it or applying it
late only moves records that exist (`OthersMakeNoRecord`); a new one is made by the read of `add` alone
(`LoadMakesGrant`), and whoever is at work there is a startup or a request that was entitled (`JobSound`). A
removal that is undone by an old document is no exception: that record was made, with grounds, before.

For one process without late writes (`Processes = {p}`, `LateSlots = {}`, hypotheses of the theorems), `AloneInv`
adds that a loaded document is the stored one with the job's change applied; so a write changes one
membership and an answered change stands.

`VaultMembershipsRefinement` shows that such a process never loses its last admin. That a step leaves an admin is
not a matter of the step alone: between the count and the removal lie calls in which other documents could change.
`CountInv` adds what the handler knows meanwhile. While `count_members` is at work, `found` is the
set of admin records of the users already read, as they are stored now (`CountsAdmins`). From the end of a count
above one to the removal's write, somebody other than the job's target is an admin (`SparesLastAdmin`). And while a
request waits or is worked on, there is an admin (`WorkNeedsAdmin`), which the refinement needs. They hold
because one process runs one handler at a time; the run `late_write` shows what a single late
write does to them. The refinement follows: each write of an admin membership is one of `Appoint`, `Dismiss` and
`Bind`, every other call a stutter, with the process able to die between any two. With two processes or late writes the
theorems are false, and `VaultMembershipsProofs` has what is left.

### VaultTokens

`TokensInv` says for each token how far the writes under way can be from its record. Before the
record exists (`Unrecorded`) the write of its mint is the only one anywhere. Once it exists
(`Recorded`) every pending write of the record itself is a revocation of the same token, and every
pending or stored index entry says no more than the record (`Behind`, `Fits`). An id that was not drawn has nothing.
`JobSound` adds how far an upsert has come, which is why its last write makes the answer true.
`DueApplied` is the central lemma: a write that satisfies this is applied without breaking it, whenever. `Grows`
is its consequence for readers: no step unwrites a document or changes a record but by its revocation.

`ReadersInv` then follows a question or a listing between its calls. The record a question was about at the
start is still there, revoked at most since (`DecideSound`); each token a listing owes is read already or still to be
read (`ListSound`).

### Signing

`SigningInv`: a token's JWT carries the key and the kid of the secret it was signed with, and its times are the
record's, less than a second early (`WholeSecondBounds`, `LifetimesLastSeconds`). `PublishedKeyVerifies` compares the
token with the document of any secret that may be published by then. `OneKidOneKey` is its lemma: a kid is a
key's hash or an operator's choice, so two secrets with one kid have one key, unless the operator gave it to
both. `TypeOK` is inductive by
itself, given that each environment yields complete settings (`SettingsTyped`).

`TrustedAsConfigured` speaks of what the loop of `_normalize_subjects` computes for every list. The library's induction
theorems take a formula as a parameter, so the induction is done on sets: `UpToBound` says that a set that holds 0
and, with each number, the next holds all up to the bound, since the numbers outside have no least
element (`WFMin` for `LessThan`). It is used twice: that the recursive function of the loop exists
(`LoopExists`), and that after `n` items the loop has kept what `Kept` describes (`KeepsOneMore`,
`NormalizedSubjects`). `PlannedSubjects` carries that through the second normalization in `build_plan`, and
`SettingsAsRead` through restarts: a running process has the settings of the environment it was started in.

### Theorems

| Theorem | States |
|---|---|
| `TypeCorrect` | `TypeOK` of `ControlPlane` |
| `AuthorityInvariant`, `GrantsAlwaysRestOnRecords`, `GrantsStayAsMade` | the properties of run `membership` |
| `LastAdminAlwaysRemains`, `AuthorityAlwaysHasRoot` | `LastAdminRemains` and `AuthorityHasRoot` of run `access` |
| `TokenInvariant`, `AdminNeverGranted`, `TokensAlwaysRestOnRecords`, `AnsweredRevocationAlwaysHolds`, `AnsweredMintsAlwaysIndexed`, `IndexesAlwaysFollowRecords`, `RevocationAlwaysFinal`, `AuthorizationNeverComesBack` | the properties of run `tokens` on tokens |
| `SuccessEventsAlwaysHold`, `ChangesAreAlwaysAudited` | its properties on the audit log |
| `NoTokenEverWithoutVault` | `NoTokenWithoutVault`: the in-memory service holds no token |
| `ImplementsAccess` | `ImplementsAccessPromise` of `ControlPlane` |
| `ProfilesTypeCorrect`, `AnswersAlwaysShowTheStore`, `RegistrationTimeStays`, `KnownFieldsStay`, `CreatedAtMostOnce` | the properties of run `registration` |
| `VaultTypeCorrect`, `OneRecordPerGrantAlways`, `SharedAuthorityHasRoot`, `SharedGrantsRestOnRecords` | `TypeOK` of `VaultMemberships` and the properties of run `shared_vault` |
| `AnsweredChangesHoldAlone`, `StartupKeepsGrantsAlone` | `AnsweredChangesHold`, `StartupKeepsGrants`, for one process without late writes |
| `AnAdminRemainsAlone`, `ImplementsAccessAlone` | `AnAdminAlwaysRemains`, `ImplementsAccessPromise` of `VaultMemberships`, for one process without late writes |
| `TokensTypeCorrect`, `IndexesNeverLead`, `AnsweredTokensStand`, `RecordsChangeOnlyByRevocation`, `DecisionsAreAlwaysRight`, `ListingsAreAlwaysCurrent` | the properties of run `shared_tokens` |
| `SigningTypeCorrect`, `JwtNeverOutlivesRecord`, `PublishedKeyAlwaysVerifies`, `TrustedAlwaysAsConfigured` | the properties of run `signing` |

Only model-checked: `HandlersEnd`, since liveness under fairness and `ENABLED` are beyond the prover, and of course
the four violations.

## 5. Not modelled

* FastAPI and uvicorn wiring, health routes, Docker and scripts, log formatting, response fields, and the
  verification of bearer tokens (external): no state of their own or outside this repository.
* Serialization in `repositories/`: fields that only travel to responses are left out of the records, and
  the fallbacks of `_deserialize_profile` have no case, since only `upsert` writes profiles.
* Keycloak, cache and server settings, which are passed on unread, and `StaticTokenSigner`, which only tests
  construct.
* `ensure_can_delete_group` and `ensure_can_rename_group`, which nothing in the service calls.
* Caches of the published key in other services: they are outside this repository.

What could still be added: profiles written by several processes at once.
