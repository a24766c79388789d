SPECIFICATION Spec
CONSTANTS
  p = p
  q = q
  x = x
  y = y
  z = z
  Process = {p, q}
  Nobody = Nobody
  Envelope = {x, y, z}
  NoEnvelope = NoEnvelope
  MaxEntries = 2
  MaxReceipts = 1
  Setups <- SafetySetups
INVARIANTS AckedIsKept OneWriter WorkersOwnTheirEntries
PROPERTIES NoBlindRepeat
SYMMETRY Symmetry
CHECK_DEADLOCK FALSE
