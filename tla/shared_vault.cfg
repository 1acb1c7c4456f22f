SPECIFICATION Spec
CONSTANTS
  None = None
  Subs = {"alice", "bob"}
  GroupNames = {"admin", "team"}
  TokenIds <- NoTokens
  TrustedSubs <- TwoTrusted
  Requests <- SharedRequests
  Processes = {p1, p2}
  LateSlots = {l1}
VIEW coreView
SYMMETRY ProcessSymmetry
INVARIANTS
  OneRecordPerGrant
  GrantsRestOnRecords
PROPERTIES
  AuthorityHasRoot
