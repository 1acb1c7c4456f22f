SPECIFICATION Spec
CONSTANTS
  None = None
  Subs = {"alice", "bob"}
  GroupNames = {"admin", "team"}
  TokenIds = {t1}
  VaultConfigured = TRUE
  TrustedSubs <- TwoTrusted
  AdminRequests <- AccessRequests
  AuthorizeTargets <- NoTargets
  Slots = {s1, s2}
  MaxTime = 1
SYMMETRY SlotSymmetry
VIEW coreView
INVARIANTS
  LastAdminRemains
PROPERTIES
  ImplementsAccessPromise
  AuthorityHasRoot
