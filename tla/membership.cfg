SPECIFICATION Spec
CONSTANTS
  None = None
  Subs = {"alice", "bob", "carol"}
  GroupNames = {"admin", "team"}
  TokenIds = {}
  VaultConfigured = TRUE
  TrustedSubs <- OneTrusted
  AdminRequests <- MembershipRequests
  AuthorizeTargets <- NoTargets
  Slots = {s1}
  MaxTime = 0
VIEW coreView
INVARIANTS
  TypeOK
  AuthorityInv
  GrantsRestOnRecords
PROPERTIES
  GrantsNeverRewritten
