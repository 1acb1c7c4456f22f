SPECIFICATION Spec
CONSTANTS
  None = None
  Subs = {"alice", "bob"}
  GroupNames = {"admin", "team", "ops"}
  TokenIds = {t1}
  VaultConfigured = TRUE
  TrustedSubs <- OneTrusted
  AdminRequests <- AuditRequests
  AuthorizeTargets <- AuditTargets
  Slots = {s1}
  MaxTime = 2
VIEW coreView
INVARIANTS
  TokenInv
  AdminNeverInRuntimeTokens
  TokensRestOnRecords
  AnsweredRevocationHolds
  AnsweredMintsAreIndexed
  IndexesFollowRecords
PROPERTIES
  RevocationIsFinal
  AuthorizationNeverRegained
  SuccessEventsHold
  ChangesAreAudited
