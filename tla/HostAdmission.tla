--------------------------- MODULE HostAdmission ---------------------------
(***************************************************************************)
(* The order in which the Core lets submissions run, and how it stops: the *)
(* pending-turn limit, the tail of a conversation (one turn at a time, in  *)
(* order), the turn semaphore, drain and stop.  What a submission does in  *)
(* its turn is HostTurn; here a turn runs and some time ends.              *)
(*                                                                         *)
(* A submission is one request that the host does not already hold; one    *)
(* the host refuses outright (not accepting, at capacity) never begins.    *)
(***************************************************************************)
EXTENDS Naturals, Sequences, FiniteSets, SequencesExt

CONSTANTS
  Submission,
  Conversation,
  NoConversation,
  MaxConcurrent,  \* maxConcurrentTurns
  MaxPending      \* maxPendingTurns

ASSUME LimitAssumption ==
  /\ MaxConcurrent \in Nat \ {0}
  /\ MaxPending \in Nat /\ MaxPending >= MaxConcurrent
  /\ NoConversation \notin Conversation
  /\ IsFiniteSet(Submission)

VARIABLES
  phase,      \* per submission: how far #submitRequest has come
  talk,       \* per submission: its conversation
  aborted,    \* per submission: its caller's signal
  chain,      \* per conversation: the gates of its tail, oldest first
  active,     \* slots of the semaphore in use
  waiters,    \* submissions queued for a slot
  pending,    \* submissions that count against MaxPending
  host,       \* the lifecycle state
  idle,       \* drain was told that nothing is pending
  hostAbort   \* the host's abort signal

limits == <<active, waiters, pending>>
lifecycle == <<host, idle, hostAbort>>
vars == <<phase, talk, aborted, chain, limits, lifecycle>>

\* queued: behind the tail; waiting: for a slot; running: holds a slot;
\* leaving: slot given back, gate still shut; returning: gate open, still pending.
\* What a submission held is forgotten when it is done.
Phase == {"new", "queued", "waiting", "running", "leaving", "returning", "done"}

Gate == [who : Submission, open : BOOLEAN]

TypeOK ==
  /\ phase \in [Submission -> Phase]
  /\ talk \in [Submission -> Conversation \cup {NoConversation}]
  /\ aborted \in [Submission -> BOOLEAN]
  /\ chain \in [Conversation -> Seq(Gate)]
  /\ active \in Nat
  /\ waiters \in Seq(Submission)
  /\ pending \in Nat
  /\ host \in {"running", "draining", "drained", "stopped"}
  /\ idle \in BOOLEAN
  /\ hostAbort \in BOOLEAN

Init ==
  /\ phase = [s \in Submission |-> "new"]
  /\ talk = [s \in Submission |-> NoConversation]
  /\ aborted = [s \in Submission |-> FALSE]
  /\ chain = [c \in Conversation |-> <<>>]
  /\ active = 0
  /\ waiters = <<>>
  /\ pending = 0
  /\ host = "running"
  /\ idle = FALSE
  /\ hostAbort = FALSE

-----------------------------------------------------------------------------
(* Helpers *)

In(s, p) == phase[s] = p
Goto(s, p) == phase' = [phase EXCEPT ![s] = p]
Aborted(s) == hostAbort \/ aborted[s]
InProgress == {s \in Submission : phase[s] \notin {"new", "done"}}
Running == {s \in Submission : In(s, "running")}

\* mutant: the tail of a submission waits for the gate before it only
PredecessorOpen(s) ==
  LET gates == chain[talk[s]] IN
  \A i \in 2..Len(gates) : gates[i].who = s => gates[i - 1].open

\* A tail resolves when every gate before it is open, those of aborted waiters and
\* those ahead of them alike.
Ready(s) ==
  LET gates == chain[talk[s]] IN
  \A i, j \in 1..Len(gates) : gates[i].who = s /\ j < i => gates[j].open

\* A gate that is open, and every gate before it, keeps nobody waiting.
Shut(gates) ==
  LET open(i) == \A j \in 1..i : gates[j].open
      n == Cardinality({i \in 1..Len(gates) : open(i)})
  IN SubSeq(gates, n + 1, Len(gates))

OpenGate(s) ==
  chain' = [chain EXCEPT ![talk[s]] =
    Shut([i \in 1..Len(@) |-> IF @[i].who = s THEN [@[i] EXCEPT !.open = TRUE] ELSE @[i]])]

\* mutants: a freed slot is not handed on; it is handed on and freed as well
FreeSlot(s) == active' = active - 1 /\ Goto(s, "leaving") /\ UNCHANGED waiters

\* A freed slot passes to the first waiter without becoming free.
ReleaseSlot(s) ==
  IF waiters = <<>>
  THEN /\ active' = active - 1
       /\ Goto(s, "leaving")
       /\ UNCHANGED waiters
  ELSE /\ waiters' = Tail(waiters)
       /\ phase' = [phase EXCEPT ![s] = "leaving", ![Head(waiters)] = "running"]
       /\ UNCHANGED active

-----------------------------------------------------------------------------

Submit(s, c) ==
  /\ In(s, "new")
  /\ host = "running"
  /\ pending < MaxPending
  /\ Goto(s, "queued")
  /\ talk' = [talk EXCEPT ![s] = c]
  /\ chain' = [chain EXCEPT ![c] = Append(@, [who |-> s, open |-> FALSE])]
  /\ pending' = pending + 1
  /\ UNCHANGED <<aborted, active, waiters, lifecycle>>

\* The tail lets it through: it takes a slot or queues for one.
Acquire(s) ==
  /\ In(s, "queued")
  /\ Ready(s)
  /\ ~Aborted(s)
  /\ IF active < MaxConcurrent
     THEN active' = active + 1 /\ Goto(s, "running") /\ UNCHANGED waiters
     ELSE waiters' = Append(waiters, s) /\ Goto(s, "waiting") /\ UNCHANGED active
  /\ UNCHANGED <<talk, aborted, chain, pending, lifecycle>>

\* Aborted behind the tail, or on its way to the semaphore.
GiveUp(s) ==
  /\ In(s, "queued")
  /\ Aborted(s)
  /\ Goto(s, "leaving")
  /\ UNCHANGED <<talk, aborted, chain, limits, lifecycle>>

\* The turn ends: answered, failed, aborted, or not admitted by the journal.
TurnEnds(s) ==
  /\ In(s, "running")
  /\ ReleaseSlot(s)
  /\ UNCHANGED <<talk, aborted, chain, pending, lifecycle>>

LeaveTail(s) ==
  /\ In(s, "leaving")
  /\ OpenGate(s)
  /\ Goto(s, "returning")
  /\ UNCHANGED <<talk, aborted, limits, lifecycle>>

\* mutant: drain hears of idleness only from the turns that were not aborted
ReturnQuietly(s) ==
  /\ In(s, "returning")
  /\ Goto(s, "done")
  /\ pending' = pending - 1
  /\ idle' = (idle \/ (host = "draining" /\ pending' = 0 /\ ~Aborted(s)))
  /\ talk' = [talk EXCEPT ![s] = NoConversation]
  /\ aborted' = [aborted EXCEPT ![s] = FALSE]
  /\ UNCHANGED <<chain, active, waiters, host, hostAbort>>

Return(s) ==
  /\ In(s, "returning")
  /\ Goto(s, "done")
  /\ pending' = pending - 1
  /\ idle' = (idle \/ (host = "draining" /\ pending' = 0))
  /\ talk' = [talk EXCEPT ![s] = NoConversation]
  /\ aborted' = [aborted EXCEPT ![s] = FALSE]
  /\ UNCHANGED <<chain, active, waiters, host, hostAbort>>

\* mutant: an aborted waiter keeps its place in the queue
WithdrawLate(s) ==
  /\ phase' = [phase EXCEPT ![s] = IF @ = "waiting" THEN "leaving" ELSE @]
  /\ UNCHANGED waiters

\* An aborted waiter leaves the semaphore's queue in the same instant.
Withdraw(s) ==
  IF In(s, "waiting")
  THEN /\ \E i \in 1..Len(waiters) : waiters[i] = s /\ waiters' = RemoveAt(waiters, i)
       /\ Goto(s, "leaving")
  ELSE UNCHANGED <<phase, waiters>>

\* So do all of them when the host aborts.
WithdrawAll ==
  /\ waiters' = <<>>
  /\ phase' = [s \in Submission |-> IF In(s, "waiting") THEN "leaving" ELSE phase[s]]

Abort(s) ==
  /\ s \in InProgress
  /\ ~Aborted(s)
  /\ aborted' = [aborted EXCEPT ![s] = TRUE]
  /\ Withdraw(s)
  /\ UNCHANGED <<talk, chain, active, pending, lifecycle>>

-----------------------------------------------------------------------------
(* Drain and stop *)

Drain ==
  /\ host = "running"
  /\ host' = "draining"
  /\ idle' = (pending = 0)
  /\ UNCHANGED <<phase, talk, aborted, chain, limits, hostAbort>>

DrainIdle ==
  /\ host = "draining"
  /\ idle
  /\ host' = "drained"
  /\ UNCHANGED <<phase, talk, aborted, chain, limits, idle, hostAbort>>

\* mutant: the deadline of drain leaves the turns alone
DrainIgnoresDeadline ==
  /\ host = "draining"
  /\ host' = "drained"
  /\ UNCHANGED <<phase, talk, aborted, chain, limits, idle, hostAbort>>

\* The deadline of drain: every turn is aborted.
DrainTimesOut ==
  /\ host = "draining"
  /\ host' = "drained"
  /\ hostAbort' = TRUE
  /\ WithdrawAll
  /\ UNCHANGED <<talk, aborted, chain, active, pending, idle>>

\* Modules are stopped and the caches cleared, whether or not turns still run.
Stop ==
  /\ host = "drained"
  /\ host' = "stopped"
  /\ hostAbort' = TRUE
  /\ WithdrawAll
  /\ UNCHANGED <<talk, aborted, chain, active, pending, idle>>

SubmissionStep(s) == Acquire(s) \/ GiveUp(s) \/ TurnEnds(s) \/ LeaveTail(s) \/ Return(s)

Next ==
  \/ \E s \in Submission :
       SubmissionStep(s) \/ Abort(s) \/ \E c \in Conversation : Submit(s, c)
  \/ Drain \/ DrainIdle \/ DrainTimesOut \/ Stop

Spec == Init /\ [][Next]_vars

\* Promises settle by themselves; a turn ends (HostTurn, EveryTurnEnds); and the
\* deadline of drain is never needed.
Fairness ==
  /\ \A s \in Submission : WF_vars(SubmissionStep(s))
  /\ WF_vars(DrainIdle) /\ WF_vars(Stop)

FairSpec == Spec /\ Fairness

-----------------------------------------------------------------------------
(* Properties *)

\* At most one turn of a conversation runs, and a submission gets past the tail only
\* after all that came before it left, however many in between were aborted.
OneTurnAtATime ==
  \A c \in Conversation : \A i, j \in 1..Len(chain[c]) :
    LET later == chain[c][j].who IN
    i < j /\ phase[later] \in {"waiting", "running"} => chain[c][i].open

\* No slot and no pending count is lost or given twice: a slot in use is held by a
\* turn that runs, and nobody waits while a slot is free.
NothingLeaks ==
  /\ active = Cardinality(Running)
  /\ active <= MaxConcurrent
  /\ waiters # <<>> => active = MaxConcurrent
  /\ pending = Cardinality(InProgress)

\* Modules are drained and stopped under a running turn only after the deadline
\* of drain aborted it: a drain that completed found every submission returned.
QuietTeardown ==
  host \in {"drained", "stopped"} => hostAbort \/ InProgress = {}

\* No submission waits for ever: not behind an aborted one, not for a slot.
EverySubmissionEnds ==
  \A s \in Submission : In(s, "queued") ~> In(s, "done")

\* Drain hears of the last submission that returns, and stop follows it.
DrainCompletes == host = "draining" ~> host = "stopped"
=============================================================================
