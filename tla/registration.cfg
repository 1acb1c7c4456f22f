SPECIFICATION Spec
CONSTANTS
  None = None
  Blank = Blank
  Subs = {"alice"}
  Texts = {x, y}
  VaultConfigured = TRUE
  LateSlots = {l1, l2}
  MaxTime = 2
SYMMETRY Symmetry
INVARIANTS
  TypeOK
  AnswersShowTheStore
PROPERTIES
  RegistrationTimeFixed
  KnownFieldsKept
  CreatedOnce
