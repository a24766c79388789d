SPECIFICATION FairSpec
CONSTANTS
  Key = {k1}
  Content = {f1, f2}
  NoContent = NoContent
  Turn = {t1, t2}
  MaxAttempt = 2
  Call = {c1}
  NoKey = NoKey
INVARIANTS
  SentAtMostOnce
  HonestOutcomes
  DeliveredWithHistory
  ViewIsPrefix
PROPERTIES
  KeepsPromise
  HistoryOnlyGrows
  ViewOnlyGrows
  EveryDeliveryEnds
