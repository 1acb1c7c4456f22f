SPECIFICATION FairSpec
CONSTANTS
  None = None
  Subs = {"alice", "bob"}
  GroupNames = {"admin", "team"}
  TokenIds <- NoTokens
  TrustedSubs <- OneTrusted
  Requests <- FewRequests
  Processes = {p1}
  LateSlots = {}
INVARIANTS
  TypeOK
  AnsweredChangesHold
PROPERTIES
  StartupKeepsGrants
  ImplementsAccessPromise
  HandlersEnd
