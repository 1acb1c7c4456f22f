---------------------------- MODULE AccessPromise ----------------------------
(***************************************************************************)
(* What gofr-sec promises those who rely on it, whatever becomes of its    *)
(* process, its requests and its writes: admins come from the bootstrap    *)
(* configuration and then from admins, the last one stays, nothing is      *)
(* issued or revoked while nobody is an admin, and a token is issued once  *)
(* and then only ever loses its force.  ControlPlane implements it.        *)
(***************************************************************************)
EXTENDS Integers

CONSTANTS
  Subs,        \* subjects
  GroupNames,  \* group names
  AdminGroup,  \* the group that is in no token
  TokenIds,    \* token ids
  Trusted,     \* the subjects of the bootstrap configuration
  Durable      \* TRUE: the store outlives the process

VARIABLES
  admins,   \* the members of the admin group
  issued,   \* what was issued, by the ids of issued tokens
  revoked,  \* ids of revoked tokens
  clock     \* the time decisions are made at

vars == <<admins, issued, revoked, clock>>

IssuedToken ==
  [owner : Subs, groups : (SUBSET (GroupNames \ {AdminGroup})) \ {{}}, expires_at : Nat]

Nothing == [t \in {} |-> {}]

Init == admins = {} /\ issued = Nothing /\ revoked = {} /\ clock = 0

\* The bootstrap, at every startup
Bind ==
  /\ \E S \in SUBSET Trusted : admins' = admins \cup S
  /\ UNCHANGED <<issued, revoked, clock>>

Appoint(sub) ==
  /\ admins # {}
  /\ admins' = admins \cup {sub}
  /\ UNCHANGED <<issued, revoked, clock>>

Dismiss(sub) ==
  /\ admins \ {sub} # {}
  /\ admins' = admins \ {sub}
  /\ UNCHANGED <<issued, revoked, clock>>

Issue(t) ==
  /\ admins # {}
  /\ t \notin DOMAIN issued
  /\ issued'[t] \in IssuedToken
  /\ clock < issued'[t].expires_at
  /\ issued' = [u \in DOMAIN issued \cup {t} |-> IF u = t THEN issued'[t] ELSE issued[u]]
  /\ UNCHANGED <<admins, revoked, clock>>

Revoke(t) ==
  /\ admins # {}
  /\ t \in DOMAIN issued
  /\ revoked' = revoked \cup {t}
  /\ UNCHANGED <<admins, issued, clock>>

\* A store that is not durable is lost with its process
Lose ==
  /\ ~Durable
  /\ admins' = {}
  /\ issued' = Nothing /\ revoked' = {}
  /\ UNCHANGED clock

Pass == clock' = clock + 1 /\ UNCHANGED <<admins, issued, revoked>>

Next ==
  \/ Bind \/ Lose \/ Pass
  \/ \E sub \in Subs : Appoint(sub) \/ Dismiss(sub)
  \/ \E t \in TokenIds : Issue(t) \/ Revoke(t)

Spec == Init /\ [][Next]_vars
===============================================================================
