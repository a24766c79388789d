--------------------------- MODULE MCSlackChannel ---------------------------
EXTENDS SlackChannel, TLC

CONSTANTS p, q, x, y, z

World(kind, d, f, c, r) ==
  [kind |-> kind, deliveries |-> d, faults |-> f, crashes |-> c, requeues |-> r]

\* Two messages: the second goes to either lane.
Messages == x :> "message" @@ y :> "message"

\* A backlog that mixes what only the primary lane takes, what only the control
\* lane takes, and a message, which may go either way.
Mixed == x :> "message" @@ y :> "other" @@ z :> "action"

\* A failed write, a crash and a requeue; a redelivery after the receipt was
\* dropped; and every lane at work over a full inbox.
SafetySetups ==
  {World(Messages, 2, 1, 1, 1), World(Messages, 3, 0, 1, 1), World(Mixed, 3, 0, 0, 0)}

LivenessSetups == {World(Mixed, 3, 0, 0, 0), World(Messages, 2, 1, 0, 0)}

Symmetry == Permutations(Process)
=============================================================================
