SPECIFICATION Spec
CONSTANTS
  None = None
  Subs = {"alice", "bob"}
  GroupNames = {"admin", "team", "ops"}
  TokenIds = {t1}
  MintRequests <- TeamAndOps
  Questions <- TeamQuestions
  Processes = {p1, p2}
  LateSlots = {l1}
  MaxTime = 1
SYMMETRY ProcessSymmetry
INVARIANTS
  TypeOK
  IndexesFollowRecords
  AnsweredChangesStand
  ListingsAreCurrent
  DecisionsAreRight
PROPERTIES
  RecordsOnlyGetRevoked
