SPECIFICATION FairSpec
\* Every submission may be done and the host stopped.
CHECK_DEADLOCK FALSE
CONSTANTS
  Submission = {s1, s2, s3}
  Conversation = {a, b}
  NoConversation = NoConversation
  MaxConcurrent = 1
  MaxPending = 3
INVARIANTS
  OneTurnAtATime
  NothingLeaks
  QuietTeardown
PROPERTIES
  EverySubmissionEnds
  DrainCompletes
