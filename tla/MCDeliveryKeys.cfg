SPECIFICATION Spec
CONSTANTS
  Key = {k1, k2}
  Content = {f1}
  NoContent = NoContent
  Turn = {t1}
  MaxAttempt = 1
  Call = {c1, c2}
  NoKey = NoKey
INVARIANTS
  DeliveredWithHistory
  ViewIsPrefix
PROPERTIES
  HistoryOnlyGrows
  ViewOnlyGrows
