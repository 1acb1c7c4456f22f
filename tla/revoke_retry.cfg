SPECIFICATION Spec
CONSTANTS
  None = None
  Subs = {"alice", "bob"}
  GroupNames = {"admin", "team", "ops"}
  TokenIds = {t1}
  VaultConfigured = TRUE
  TrustedSubs <- OneTrusted
  AdminRequests <- TokenRequests
  AuthorizeTargets <- NoTargets
  Slots = {s1}
  MaxTime = 2
VIEW coreView
INVARIANTS
  AnsweredRevocationReachesIndexes
