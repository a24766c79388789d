SPECIFICATION Spec
CONSTANTS
  Process = {p, q, r}
  NoOwner = NoOwner
  Edit = {"edit 1", "edit 2"}
  Trash = {"trash 1", "trash 2"}
  Setups <- SafetySetups
INVARIANTS HolderHasItsLock NothingIsLost RefusesOnlyWithCause
PROPERTIES AllOrNothing
SYMMETRY Symmetry
CHECK_DEADLOCK FALSE
