SPECIFICATION Spec
CONSTANTS
  None = None
  Subs = {"alice", "bob", "carol"}
  GroupNames = {"admin"}
  TokenIds = {}
  VaultConfigured = TRUE
  TrustedSubs <- TwoTrusted
  AdminRequests <- AdminshipRequests
  AuthorizeTargets <- NoTargets
  Slots = {s1, s2}
  MaxTime = 0
SYMMETRY SlotSymmetry
VIEW coreView
PROPERTIES
  RepeatedStartupChangesNothing
