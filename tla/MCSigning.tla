------------------------------ MODULE MCSigning ------------------------------
(***************************************************************************)
(* A small instance of Signing for TLC: environments and secrets.          *)
(***************************************************************************)
EXTENDS Signing, TLC

CONSTANTS k1, k2, ec

NoVault == [url |-> None, token |-> None, role_id |-> None, secret_id |-> None]
Shared  == [NoVault EXCEPT !.url = "vault", !.token = "secret"]

\* An AppRole whose URL is shared, a blank signing path, a list with repetitions
ByRole ==
  [own |-> [NoVault EXCEPT !.role_id = "role", !.secret_id = "secret", !.token = Blank],
   shared |-> [NoVault EXCEPT !.url = "vault"], signing_vault_path |-> Blank,
   signing_algorithm |-> None, token_default_lifetime |-> 1,
   bootstrap_admin_subs |->
     <<[text |-> "alice", padded |-> FALSE], [text |-> Blank, padded |-> TRUE],
       [text |-> "bob", padded |-> TRUE], [text |-> "alice", padded |-> TRUE]>>]

\* The same service with another signing path and no usable default lifetime
ByToken ==
  [ByRole EXCEPT !.own = NoVault, !.shared = Shared, !.signing_vault_path = "path",
                 !.token_default_lifetime = 0, !.bootstrap_admin_subs = None]

\* Half an AppRole, which leaves the process in memory
Incomplete == [ByRole EXCEPT !.own = [NoVault EXCEPT !.role_id = "role"]]

\* The other family of keys, spelled in lower case, and the default lifetime of
\* the code
OtherFamily ==
  [ByRole EXCEPT !.signing_algorithm = [name |-> "ES256", lower |-> TRUE],
                 !.token_default_lifetime = None]

\* An algorithm nobody knows, and a lifetime that is no number
Unknown == [ByRole EXCEPT !.signing_algorithm = [name |-> Blank, lower |-> FALSE]]
Unreadable == [ByRole EXCEPT !.token_default_lifetime = Blank]

SomeEnvs == {ByRole, ByToken, Incomplete, OtherFamily, Unknown, Unreadable}

\* Rotations to another key with and without a kid of its own, or of the same kid
SomeSecrets ==
  {None} \cup [private_key_pem : {k1, k2, ec}, kid : {None}]
         \cup [private_key_pem : {k1, k2}, kid : {"kid"}]
         \cup [private_key_pem : {Garbage}, kid : {None}]

SomeLifetimes == {None, 0, 1}

ProcessSymmetry == Permutations(Processes)
==============================================================================
