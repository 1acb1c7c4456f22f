SPECIFICATION Spec
CONSTANTS
  None = None
  Subs = {"alice", "bob"}
  GroupNames = {"admin", "team"}
  TokenIds <- NoTokens
  TrustedSubs <- OneTrusted
  Requests <- FewRequests
  Processes = {p1}
  LateSlots = {l1}
PROPERTIES
  AnAdminAlwaysRemains
