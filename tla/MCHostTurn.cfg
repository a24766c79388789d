SPECIFICATION FairSpec
CONSTANTS
  Request = {q1}
  Fingerprint = {f1, f2}
  NoFingerprint = NoFingerprint
  Worker = {w1, w2}
  NoRequest = NoRequest
  MaxRoute = 2
INVARIANTS
  EffectsAtMostOnce
  HonestAnswers
  FailedMeansNoEffects
  LiveTurnOwnsItsRun
  EvidenceBeforeEffects
PROPERTIES
  KeepsPromise
  EveryTurnEnds
