SPECIFICATION Spec
CONSTANTS
  None = None
  Blank = Blank
  k1 = k1
  k2 = k2
  ec = ec
  DEFAULT = "default"
  Texts = {"default", "path", "kid", "vault", "role", "secret", "alice", "bob"}
  TokenIds = {t1}
  Keys = {k1, k2, ec}
  RSAKeys = {k1, k2}
  SECOND = 3
  Processes = {p1, p2}
  Envs <- SomeEnvs
  Secrets <- SomeSecrets
  Lifetimes <- SomeLifetimes
  MaxTime = 5
SYMMETRY ProcessSymmetry
INVARIANTS
  TypeOK
  LocalExpiryFollowsRecord
  PublishedKeyVerifies
  TrustedAsConfigured
