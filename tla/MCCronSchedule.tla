--------------------------- MODULE MCCronSchedule ---------------------------
(* Instances of CronSchedule: jobs and worlds small enough for TLC.        *)
EXTENDS CronSchedule, Functions, TLC

CONSTANTS a, b

SameSchedule == {[s \in Scheduler |-> 1]}
ChangedSchedule == {f \in [Scheduler -> Generation] : IsInjective(f)}

Try(schedules, overlap, overflow, commands, together, failures, steps) ==
  {[schedule |-> f, overlap |-> overlap, overflow |-> overflow, commands |-> commands,
    together |-> together, faults |-> failures, backSteps |-> steps] : f \in schedules}

\* Two schedulers of one schedule at once; a failure; a clock that goes back; a queue
\* with a failure; a schedule that changes, of a queue with a command or not.
SafetySetups ==
  Try(SameSchedule, "skip", "drop-newest", {}, 2, 0, 0)
  \cup Try(SameSchedule, "skip", "drop-newest", {}, 1, 1, 0)
  \cup Try(SameSchedule, "skip", "drop-newest", {}, 1, 0, 1)
  \cup Try(SameSchedule, "queue", "drop-newest", {}, 1, 1, 0)
  \cup Try(ChangedSchedule, "queue", "drop-newest", {2}, 1, 0, 0)
  \cup Try(ChangedSchedule, "replace", "drop-newest", {}, 1, 0, 0)

\* A command to a job that skips; and two troubles together: a failure and a clock
\* that goes back, a queue with a failure and a command.
PairSetups ==
  Try(SameSchedule, "skip", "drop-newest", {1}, 1, 0, 0)
  \cup Try(SameSchedule, "skip", "drop-newest", {}, 1, 1, 1)
  \cup Try(SameSchedule, "queue", "drop-newest", {2}, 1, 1, 0)

\* One scheduler.  A job that skips overlapping firings, with a failure or a clock
\* that goes back, and jobs that queue them, on a store that does not fail.
LivenessSetups ==
  Try(SameSchedule, "skip", "drop-newest", {}, 1, 1, 0)
  \cup Try(SameSchedule, "skip", "drop-newest", {}, 1, 0, 1)
  \cup Try(SameSchedule, "replace", "drop-newest", {}, 1, 0, 0)
  \cup Try(SameSchedule, "queue", "drop-oldest", {2}, 1, 0, 0)
  \cup Try(SameSchedule, "queue", "coalesce", {2}, 1, 0, 0)

\* A job that queues, and one failure.
QueueSetups == Try(SameSchedule, "queue", "drop-newest", {}, 1, 1, 0)

\* A job that skips, and one failure; one that takes no command and never fails.
FaultSetups == Try(SameSchedule, "skip", "drop-newest", {}, 1, 1, 0)
QuietSetups == Try(SameSchedule, "skip", "drop-newest", {}, 1, 0, 0)

Symmetry == Permutations(Scheduler)
=============================================================================
