SPECIFICATION Spec
CONSTANTS
  Process = {p, q, r, s}
  NoOwner = NoOwner
  Edit = {"edit 1", "edit 2"}
  Trash = {"trash 1", "trash 2"}
  Setups <- LockSetups
INVARIANTS OneMutation
SYMMETRY Symmetry
CHECK_DEADLOCK FALSE
