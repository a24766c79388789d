SPECIFICATION FairSpec
\* Every run may be retired and everything swept.
CHECK_DEADLOCK FALSE
CONSTANTS
  r1 = r1
  r2 = r2
  t1 = t1
  t2 = t2
  p1 = p1
  p2 = p2
  x = x
  Artifact = {t1, t2, p1, p2, x}
  NoArtifact = NoArtifact
  Run = {r1, r2}
  NoRun = NoRun
  Transcript <- MCTranscript
  Response <- MCResponse
  EventPages = 1
  MaxArtifacts = 4
  MaxTroubles = 1
  TornWrites = FALSE
INVARIANTS
  AlwaysOpens
  NamedIsReadable
  BytesAreAccountedFor
PROPERTIES
  RetentionCompletes
