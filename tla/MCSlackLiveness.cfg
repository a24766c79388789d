SPECIFICATION FairSpec
CONSTANTS
  p = p
  q = q
  x = x
  y = y
  z = z
  Process = {p}
  Nobody = Nobody
  Envelope = {x, y, z}
  NoEnvelope = NoEnvelope
  MaxEntries = 2
  MaxReceipts = 1
  Setups <- LivenessSetups
PROPERTIES EnvelopeSettles
CHECK_DEADLOCK FALSE
