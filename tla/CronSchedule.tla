---------------------------- MODULE CronSchedule ----------------------------
(***************************************************************************)
(* The cron trigger's schedulers of one job over one durable record: each  *)
(* process (or generation of the module) runs one, they share the record   *)
(* through read and compareAndSwap, and any of them may crash.             *)
(*                                                                         *)
(* mutateState lets a scheduler have one durable mutation at a time, and a *)
(* write only takes effect on the record it was computed from, so a        *)
(* mutation is one step here, taken where its write lands.  What the       *)
(* scheduler keeps in memory changes in other steps, before and after.     *)
(*                                                                         *)
(* Jobs share nothing but the process, so one job is modelled.             *)
(***************************************************************************)
EXTENDS CronRecord, Sequences

CONSTANTS
  CatchUp,       \* MAX_CRON_CATCH_UP
  QueueDepth,    \* maxQueueDepth
  Setups         \* the jobs and the worlds to try

\* A setup: the schedule each scheduler was created with, the job's overlap and
\* overflow modes, the instants its command may be given, and the bounds: how many
\* schedulers run at once, how many calls of the durable state fail, how often the
\* clock moves backwards.
Setup == [schedule : [Scheduler -> Generation],
          overlap : {"skip", "queue", "replace"},
          overflow : {"drop-newest", "drop-oldest", "coalesce"},
          commands : SUBSET (1..EndOfTime),
          together : Nat \ {0}, faults : Nat, backSteps : Nat]

ASSUME ScheduleAssumption ==
  /\ CatchUp \in Nat \ {0} /\ QueueDepth \in Nat \ {0}
  /\ Setups \subseteq Setup

VARIABLES
  setup,      \* one of Setups
  now,        \* the clock
  backSteps,  \* how often it moved backwards
  faults,     \* how often a call of the durable state failed
  store,      \* the durable record
  current,    \* the schedulers whose cached version is the stored one
  local,      \* per scheduler: its JobState and its reconciliation
  inv,        \* per scheduler and instant: where the invocation is
  flying,     \* <<s, k>>: host.emit was called and has not settled
  emits,      \* per instant: how often host.emit was called (history)
  open,       \* the firings reserved and without a definitive outcome (history)
  untold      \* the firings whose outcome could not be written (history)

world == <<setup, now, backSteps>>
disk == <<store, current, faults>>
host == <<flying, emits, open, untold>>
vars == <<world, disk, local, inv, host>>

\* A timer is off, set to retry soon, or armed for a firing (one past the end
\* of the modelled time stands for all later ones).
Off == 0
Retry == EndOfTime + 2
Timer == Off..Retry
\* The await a scheduler's start or reconciliation is at; adjust is a timer's.
Pc == {"idle", "start", "drop", "replace", "restart", "unknown",
       "mend", "refresh", "settled", "transition", "repair", "clock",
       "missed", "admit", "waiting", "adjust"}
\* at: the instant it took from the clock; due: the firings it still has to
\* admit; missed: the range it gives up; n: the firings it has admitted.
Idle == [pc |-> "idle", at |-> 0, due |-> {}, missed |-> NoRange, n |-> 0, again |-> FALSE]
Local == [life : {"new", "starting", "running", "stopping", "stopped", "crashed"},
          cache : Record,
          active : Instant, rel : BOOLEAN,  \* active.idempotencyKey, releasePending
          queue : Seq(Instant), foreign : BOOLEAN, transition : BOOLEAN,
          fenced : BOOLEAN, unsettled : BOOLEAN, failing : BOOLEAN,
          observed : Instant, back : Instant \X Instant, timer : Timer,
          rec : [pc : Pc, at : Instant, due : SUBSET (Instant \cup {EndOfTime + 1}),
                 missed : Instant \X Instant, n : Nat, again : BOOLEAN]]

Fresh(now0) ==
  [life |-> "new", cache |-> NoRecord, active |-> NoKey, rel |-> FALSE,
   queue |-> <<>>, foreign |-> FALSE, transition |-> FALSE, fenced |-> FALSE,
   unsettled |-> FALSE, failing |-> FALSE, observed |-> now0, back |-> NoRange,
   timer |-> Off, rec |-> Idle]

\* admit: checked, about to reserve; claim: runNow is claiming the job; emit:
\* host.emit is awaited; queued: in state.pending; unclaim: stopped after its
\* reservation; settle: its outcome is being written; land: so is that of an
\* emission; late: settled as unknown while host.emit
\* still runs; release: its durable claim is being cleared.
Nowhere == [at |-> "none", as |-> "none"]
Stage == {"none", "admit", "claim", "emit", "queued", "unclaim", "settle", "land",
          "late", "release"}

TypeOK ==
  /\ setup \in Setups
  /\ now \in Instant /\ backSteps \in 0..setup.backSteps /\ faults \in 0..setup.faults
  /\ store \in Record /\ current \subseteq Scheduler
  /\ local \in [Scheduler -> Local]
  /\ inv \in [Scheduler -> [Instant -> [at : Stage, as : Status]]]
  /\ flying \subseteq Scheduler \X Instant
  /\ emits \in [Instant -> Nat]
  /\ open \subseteq Instant /\ untold \subseteq Instant

Init ==
  /\ setup \in Setups
  /\ now = 0 /\ backSteps = 0 /\ faults = 0
  /\ store = NoRecord
  /\ current = {}
  /\ local = [s \in Scheduler |-> Fresh(0)]
  /\ inv = [s \in Scheduler |-> [k \in Instant |-> Nowhere]]
  /\ flying = {}
  /\ emits = [k \in Instant |-> 0]
  /\ open = {} /\ untold = {}

---------------------------------------------------------------------------
(* The durable mutation: updateRecord under mutateState.                   *)

HasPendingDurableRepair(l) ==
  l.rel \/ l.back # NoRange \/ l.transition \/ l.fenced

FenceScheduleGeneration(l) ==
  [l EXCEPT !.fenced = TRUE, !.foreign = FALSE, !.failing = TRUE]

\* What updateRecord may come to, for the transform T: nothing to write, a
\* write that lands, or a failure, before or after the write landed.  A cached
\* record that is not the stored one is read again, unless T wants no change
\* of it.
Outcome(how, stored, cached, cur, fault) ==
  [how |-> how, store |-> stored, cache |-> cached, current |-> cur, fault |-> fault]

UpdateRecord(s, T(_), allowMismatch) ==
  LET l == local[s]
      foreign(r) == ~allowMismatch /\ r.gen # setup.schedule[s]
      seen == IF s \in current \/ foreign(l.cache) \/ T(l.cache) = {}
                THEN l.cache ELSE store
      reads == IF seen = l.cache THEN current ELSE current \cup {s}
  IN IF foreign(seen) THEN {Outcome("fenced", store, seen, reads, 0)}
     ELSE IF T(seen) = {} THEN {Outcome("same", store, seen, reads, 0)}
     ELSE LET next == CHOOSE r \in T(seen) : TRUE
          IN {Outcome("applied", next, next, {s}, 0)}
             \cup IF faults < setup.faults
                    THEN {Outcome("failed", store, seen, reads, 1),
                          Outcome("failed", next, seen, {}, 1)}
                    ELSE {}

Did(o) == o.how \in {"applied", "same"}

\* The mutation's effect on the durable state ...
Commit(o) ==
  /\ store' = o.store
  /\ current' = o.current
  /\ faults' = faults + o.fault

\* ... and on the scheduler's cache; persistenceError where the caller sets it.
Cached(s, o) ==
  LET l == [local[s] EXCEPT !.cache = o.cache]
  IN IF o.how = "fenced" THEN FenceScheduleGeneration(l) ELSE l

Failing(l) == [l EXCEPT !.failing = TRUE]

Cleared(l) ==
  IF HasPendingDurableRepair(l) THEN l
  ELSE [l EXCEPT !.failing = FALSE, !.unsettled = FALSE]

\* mutant: a scheduler that cannot persist leaves no timer
ScheduleNothing(l) ==
  IF l.life # "running" THEN l
  ELSE [l EXCEPT !.timer =
    IF l.failing \/ (l.fenced /\ ~l.rel) THEN Off
    ELSE IF l.transition \/ l.foreign \/ l.rel \/ l.back # NoRange THEN Retry
    ELSE NextOccurrence(Later(now, l.cache.watermark))]

\* scheduleNext: the timer a scheduler leaves armed.
ScheduleNext(l) ==
  IF l.life # "running" THEN l
  ELSE [l EXCEPT !.timer =
    IF l.fenced /\ ~l.rel THEN Off
    ELSE IF l.transition \/ l.foreign \/ l.rel \/ l.back # NoRange THEN Retry
    ELSE NextOccurrence(Later(now, l.cache.watermark))]

Set(s, l) == local' = [local EXCEPT ![s] = l]
Goto(s, k, at, as) == inv' = [inv EXCEPT ![s][k] = [at |-> at, as |-> as]]
Leave(s, k) == inv' = [inv EXCEPT ![s][k] = Nowhere]
At(s, k, at) == local[s].life # "crashed" /\ inv[s][k].at = at

---------------------------------------------------------------------------
(* start: initializeJob, then the first timer and the recovery.            *)

Rec(l, pc) == [l EXCEPT !.rec.pc = pc]

Live(s) == local[s].life \in {"starting", "running", "stopping"}

Start(s) ==
  /\ local[s].life = "new"
  /\ Cardinality({t \in Scheduler : Live(t)}) < setup.together
  /\ Set(s, [local[s] EXCEPT !.life = "starting", !.observed = now,
                             !.rec = [Idle EXCEPT !.pc = "start", !.at = now]])
  /\ UNCHANGED <<world, disk, inv, host>>

\* The head of a pass, while (lifecycle === "running"); n and again are kept.
EndPass(l) == ScheduleNext([l EXCEPT !.rec = Idle])

Pass(l0) ==
  LET l == [l0 EXCEPT !.rec.at = now]
  IN IF l.life # "running" \/ (l.fenced /\ ~l.rel) THEN EndPass(l)
     ELSE Rec(l, IF l.fenced THEN "mend" ELSE "refresh")

\* Stopped while it was starting, it stays stopped.
Running(l) ==
  LET up == [l EXCEPT !.life = "running", !.rec = Idle]
  IN IF l.life = "starting" THEN Pass(ScheduleNext(up)) ELSE [l EXCEPT !.rec = Idle]

\* A failed start leaves the trigger as it was before: it may be started again.
StartFailed(l) ==
  [l EXCEPT !.life = IF @ = "starting" THEN "new" ELSE @, !.rec = Idle]

\* The step of initializeJob that comes after pc.
NextInit(s, l, pc) ==
  LET mismatch == l.cache.gen # setup.schedule[s]
      late == l.cache.watermark > l.rec.at
  IN Rec(l, IF pc = "start" /\ HasDefinitivelySettledActive(l.cache) THEN "drop"
            ELSE IF pc \in {"start", "drop"} /\ mismatch THEN "replace"
            ELSE IF pc \in {"start", "drop", "replace"} /\ ~l.transition /\ late THEN "restart"
            ELSE "unknown")

ReadAtStart(s) ==
  /\ local[s].rec.pc = "start"
  /\ IF store = NoRecord
       THEN LET first == InitialRecord(setup.schedule[s], local[s].rec.at)
            IN /\ store' = first /\ current' = {s}
               /\ Set(s, Running([local[s] EXCEPT !.cache = first]))
       ELSE /\ store' = store /\ current' = current \cup {s}
            /\ Set(s, NextInit(s, [local[s] EXCEPT !.cache = store], "start"))
  /\ UNCHANGED <<world, faults, inv, host>>

---------------------------------------------------------------------------
(* A pass of the reconciliation, from one await to the next: what it makes *)
(* of the scheduler's memory (l) and of its invocations (row).             *)

\* What a reconciliation leaves behind: the next timer, or the pass asked for.
Finish(l) ==
  IF l.rec.again THEN Pass([l EXCEPT !.rec = Idle]) ELSE EndPass(l)

Refused(l) == l.fenced \/ l.transition \/ l.back # NoRange \/ l.rel
AfterRefusal(l) == IF l.fenced \/ l.transition THEN l ELSE ScheduleNext(l)

Both(l, row) == [l |-> l, row |-> row]

\* The firings selected, one after another: the next only when the last one has
\* its result.  One that a command is already admitting is a duplicate.
AdmitNext(l, row) ==
  LET k == Min(l.rec.due)
      skipped == [AfterRefusal(l) EXCEPT !.rec.n = @ + Cardinality(l.rec.due), !.rec.due = {}]
  IN IF l.rec.due = {} THEN Both(Pass(l), row)
     ELSE IF l.life # "running" THEN Both(Finish(l), row)
     ELSE IF Refused(l) THEN Both(IF l.foreign THEN Finish(l) ELSE Pass(skipped), row)
     ELSE IF row[k] # Nowhere THEN Both(Rec(l, "admit"), row)
     ELSE Both(Rec(l, "waiting"), [row EXCEPT ![k] = [at |-> "admit", as |-> "none"]])

Admitted(l, row) ==
  IF l.foreign THEN Both(Finish(l), row)
  ELSE AdmitNext([l EXCEPT !.rec.n = @ + 1, !.rec.due = @ \ {Min(@)}], row)

\* What is due, once the clock is accounted for.
Decide(s, l0, row) ==
  LET l == [l0 EXCEPT !.foreign = FALSE, !.rec.at = 0,
              !.unsettled = @ /\ ~(l0.foreign /\ ~l0.cache.issue
                                     /\ l0.cache.last.status # "unknown")]
      from == l.cache.watermark
      limit == CatchUp - l.rec.n
      selected == SelectedDue(from, l0.rec.at, limit)
      missed == MissedDue(from, l0.rec.at, limit)
  IN IF ForeignClaim(s, l.active, l.cache)
       THEN Both(Finish([l0 EXCEPT !.foreign = TRUE, !.unsettled = TRUE]), row)
     ELSE IF missed # {}
       THEN Both([l EXCEPT !.rec.pc = "missed", !.rec.due = selected,
                           !.rec.missed = <<Min(missed), Max(missed)>>], row)
     ELSE IF selected = {} THEN Both(Finish(l), row)
     ELSE AdmitNext([l EXCEPT !.rec.due = selected], row)

\* accountClockRegression: the regression it notices blocks every admission
\* until it is on record.
Account(s, l, row) ==
  IF l.back # NoRange THEN Both(Rec(l, "clock"), row)
  ELSE IF l.rec.at < l.observed
    THEN Both([l EXCEPT !.back = <<l.observed, l.rec.at>>, !.unsettled = TRUE,
                        !.rec.pc = "clock"], row)
  ELSE Decide(s, [l EXCEPT !.observed = l.rec.at], row)

\* The step of a pass that comes after pc.
NextRec(s, l, row, pc) ==
  IF pc = "refresh" /\ HasDefinitivelySettledActive(l.cache) THEN Both(Rec(l, "settled"), row)
  ELSE IF pc \in {"refresh", "settled"} /\ l.transition THEN Both(Rec(l, "transition"), row)
  ELSE IF pc # "repair" /\ l.rel THEN Both(Rec(l, "repair"), row)
  ELSE Account(s, l, row)

Become(s, b) ==
  /\ local' = [local EXCEPT ![s] = b.l]
  /\ inv' = [inv EXCEPT ![s] = b.row]

---------------------------------------------------------------------------
(* start, and the steps it has in common with a pass.                      *)

\* recoverDefinitivelySettledActive, at start and in a reconciliation.
DropSettled(s) ==
  /\ local[s].rec.pc \in {"drop", "settled"}
  /\ \E o \in UpdateRecord(s, DropSettledClaim, TRUE) :
       LET l == Cached(s, o)
           stay(x) == Both(x, inv[s])
       IN /\ Commit(o)
          /\ Become(s, IF local[s].rec.pc = "drop"
                         THEN stay(IF Did(o) THEN NextInit(s, l, "drop") ELSE StartFailed(l))
                       ELSE IF Did(o) THEN NextRec(s, l, inv[s], "settled")
                       ELSE stay(Finish(Failing(l))))
  /\ UNCHANGED <<world, host>>

\* replaceChangedSchedule: a claim that is outstanding keeps the old schedule.
Replace(s) ==
  /\ local[s].rec.pc \in {"replace", "transition"}
  /\ LET T(r) == ReplaceSchedule(setup.schedule[s], local[s].rec.at, r) IN
     \E o \in UpdateRecord(s, T, TRUE) :
       LET starting == local[s].rec.pc = "replace"
           c == Cached(s, o)
           blocked == c.cache.gen # setup.schedule[s]
           l == [c EXCEPT !.transition = blocked, !.foreign = blocked,
                          !.unsettled = blocked \/ (@ /\ c.cache.issue)]
           stay(x) == Both(x, inv[s])
       IN /\ Commit(o)
          /\ Become(s, IF starting
                         THEN stay(IF Did(o) THEN NextInit(s, l, "replace") ELSE StartFailed(c))
                       ELSE IF ~Did(o) THEN stay(Finish(Failing(c)))
                       ELSE IF blocked THEN stay(Finish(l))
                       ELSE NextRec(s, l, inv[s], "transition"))
  /\ UNCHANGED <<world, host>>

\* recoverRestartClockRegression: the clock restarts before the watermark.
RestartRegression(s) ==
  /\ local[s].rec.pc = "restart"
  /\ LET T(r) == RecordRestartRegression(<<local[s].cache.watermark, local[s].rec.at>>, r)
     IN \E o \in UpdateRecord(s, T, FALSE) :
          /\ Commit(o)
          /\ Set(s, IF Did(o) THEN Rec(Cached(s, o), "unknown") ELSE StartFailed(Cached(s, o)))
  /\ UNCHANGED <<world, inv, host>>

\* recoverUnknownOutcome: what the previous process left open.
RecoverUnknown(s) ==
  /\ local[s].rec.pc = "unknown"
  /\ LET c == local[s].cache IN
       \/ /\ c.issue \/ (c.active = NoClaim /\ c.last.status # "unknown")
          /\ Set(s, Running(local[s])) /\ UNCHANGED disk
       \/ /\ ~c.issue /\ c.active # NoClaim
          /\ Set(s, Running([local[s] EXCEPT !.foreign = TRUE, !.unsettled = TRUE]))
          /\ UNCHANGED disk
       \/ /\ ~c.issue /\ c.active = NoClaim /\ c.last.status = "unknown"
          /\ \E o \in UpdateRecord(s, RecordUnknown, FALSE) :
               /\ Commit(o)
               /\ Set(s, IF Did(o) THEN Running(Cached(s, o)) ELSE StartFailed(Cached(s, o)))
  /\ UNCHANGED <<world, inv, host>>

---------------------------------------------------------------------------
(* The timer, and the other steps of a pass.                               *)

Requested(l) ==
  IF l.rec.pc = "idle" THEN Pass([l EXCEPT !.timer = Off])
  ELSE [l EXCEPT !.timer = Off, !.rec.again = TRUE]

\* A delay elapses by the monotonic clock: the wall clock may still be, or be
\* again, short of the target.  A timer past the end of time fires at the end.
TimerFires(s) ==
  LET l == local[s] IN
  /\ l.life = "running" /\ l.timer # Off
  /\ \/ /\ l.timer = Retry \/ l.timer <= now \/ (l.timer > EndOfTime /\ now = EndOfTime)
        /\ Set(s, Requested(l))
     \/ /\ l.timer # Retry /\ now < l.timer /\ now < l.observed /\ l.rec.pc = "idle"
        /\ Set(s, [l EXCEPT
             !.timer = Off, !.unsettled = TRUE,
             !.back = IF @ = NoRange THEN <<l.observed, now>> ELSE @,
             !.rec = [Idle EXCEPT !.pc = "adjust", !.at = now, !.due = {l.timer}]])
  /\ UNCHANGED <<world, disk, inv, host>>

Refresh(s) ==
  /\ local[s].rec.pc = "refresh"
  /\ LET l == [local[s] EXCEPT !.cache = store] IN
     \/ /\ current' = current \cup {s} /\ UNCHANGED <<store, faults>>
        /\ Become(s, IF ~l.transition /\ store.gen # setup.schedule[s]
                       THEN Both(Finish(FenceScheduleGeneration(l)), inv[s])
                       ELSE NextRec(s, l, inv[s], "refresh"))
     \/ /\ faults < setup.faults /\ faults' = faults + 1 /\ UNCHANGED <<store, current>>
        /\ Become(s, Both(Finish(Failing(local[s])), inv[s]))
  /\ UNCHANGED <<world, host>>

RecordClock(s) ==
  /\ local[s].rec.pc \in {"clock", "adjust"}
  /\ LET T(r) == RecordRegression(local[s].back, r) IN
     \E o \in UpdateRecord(s, T, FALSE) :
       LET c == Cached(s, o)
           l == [c EXCEPT !.observed = c.rec.at, !.back = NoRange]
           ok == IF HasPendingDurableRepair(l) THEN l ELSE [l EXCEPT !.failing = FALSE]
           target == CHOOSE t \in c.rec.due : TRUE
           stay(x) == Both(x, inv[s])
       IN /\ Commit(o)
          /\ Become(s, IF ~Did(o) THEN stay(Finish(Failing(c)))
                       ELSE IF c.rec.pc = "clock" THEN Decide(s, ok, inv[s])
                       ELSE stay(IF c.life # "running" \/ c.rec.again THEN Finish(ok)
                                 ELSE [ok EXCEPT !.rec = Idle, !.timer = target]))
  /\ UNCHANGED <<world, host>>

GiveUpMissed(s) ==
  /\ local[s].rec.pc = "missed"
  /\ LET range == local[s].rec.missed
         T(r) == RecordMissed(range[1], range[2], r)
     IN \E o \in UpdateRecord(s, T, FALSE) :
          LET l == [Cached(s, o) EXCEPT !.rec.missed = NoRange] IN
          /\ Commit(o)
          /\ Become(s, IF ~Did(o) THEN Both(Finish(Failing(l)), inv[s])
                       ELSE IF l.rec.due = {} THEN Both(Finish(l), inv[s])
                       ELSE AdmitNext(l, inv[s]))
  /\ UNCHANGED <<world, host>>

\* The admission the pass awaits has its result, or its firing was a duplicate.
AdmissionReturns(s) ==
  /\ \/ local[s].rec.pc = "admit"
     \/ /\ local[s].rec.pc = "waiting"
        /\ inv[s][Min(local[s].rec.due)].at \in {"none", "late"}
  /\ Become(s, Admitted(local[s], inv[s]))
  /\ UNCHANGED <<world, disk, host>>

---------------------------------------------------------------------------
(* admit: checks, the reservation, and what becomes of a reserved firing.  *)

\* The maintenance command: an instant that is not in the future.
Invoke(s, k) ==
  LET l == local[s] IN
  /\ l.life = "running" /\ k <= now /\ inv[s][k] = Nowhere
  /\ IF Refused(l) THEN Set(s, AfterRefusal(l)) /\ UNCHANGED inv
     ELSE Goto(s, k, "admit", "none") /\ UNCHANGED local
  /\ UNCHANGED <<world, disk, host>>

\* The emission that is running is told to stop: its result is unknown.
Aborted(row, k) ==
  IF row[k].at = "emit" THEN [row EXCEPT ![k] = [at |-> "land", as |-> "unknown"]] ELSE row

\* Queued firings get their outcome without having been emitted.
Displaced(row, keys, status) ==
  [k \in Instant |-> IF k \in keys THEN [at |-> "settle", as |-> status] ELSE row[k]]

Queue(l) == {l.queue[i] : i \in 1..Len(l.queue)}

\* A reserved firing while another one is active: skipped, or queued under the
\* job's overlap and overflow modes.
QueuedBehind(l, k, row) ==
  LET queued(r) == [r EXCEPT ![k] = [at |-> "queued", as |-> "none"]]
      requeue(queue, r) == Both([l EXCEPT !.queue = queue], r)
  IN CASE setup.overlap = "skip" -> Both(l, Displaced(row, {k}, "skipped"))
       [] setup.overlap = "replace" ->
            requeue(<<k>>, Aborted(queued(Displaced(row, Queue(l), "dropped")), l.active))
       [] setup.overlap = "queue" /\ Len(l.queue) < QueueDepth ->
            requeue(Append(l.queue, k), queued(row))
       [] OTHER ->
            CASE setup.overflow = "drop-oldest" ->
                   requeue(Append(Tail(l.queue), k),
                           queued(Displaced(row, {Head(l.queue)}, "dropped")))
              [] setup.overflow = "coalesce" ->
                   requeue(<<k>>, queued(Displaced(row, Queue(l), "dropped")))
              [] OTHER -> Both(l, Displaced(row, {k}, "dropped"))

\* Stopped meanwhile, the firing is cancelled; else it runs, unless one does.
Reserved(l, k, row) ==
  IF l.life # "running"
    THEN Both(l, [row EXCEPT ![k] = [at |-> "unclaim", as |-> "cancelled"]])
  ELSE IF l.active = NoKey
    THEN Both(l, [row EXCEPT ![k] = [at |-> "claim", as |-> "none"]])
  ELSE QueuedBehind(l, k, row)

\* Another owner's claim, or one of our own that nobody carries out any more,
\* holds the firing back; an older instant is a duplicate.
ReserveFiring(s, k) ==
  /\ At(s, k, "admit")
  /\ LET l0 == local[s]
         T(r) == Reserve(s, l0.active, l0.unsettled, k, r)
         gone == [inv[s] EXCEPT ![k] = Nowhere]
     IN \E o \in UpdateRecord(s, T, FALSE) :
          LET l == Cached(s, o)
              blocked == k > l.cache.watermark
          IN /\ Commit(o)
             /\ open' = IF store'.watermark = k /\ store.watermark < k THEN open \cup {k} ELSE open
             /\ \/ /\ o.how = "applied"
                   /\ Become(s, Reserved(Cleared([l EXCEPT !.foreign = FALSE]), k, inv[s]))
                \/ /\ o.how = "same"
                   /\ Become(s, Both([l EXCEPT !.foreign = @ \/ blocked,
                                               !.unsettled = @ \/ blocked], gone))
                \/ /\ ~Did(o)
                   /\ Become(s, Both(Failing(l), gone))
  /\ UNCHANGED <<world, flying, emits, untold>>

Unclaim(s, k) ==
  /\ At(s, k, "unclaim")
  /\ LET T(r) == ClearActive(s, k, r) IN
     \E o \in UpdateRecord(s, T, TRUE) :
       /\ Commit(o)
       /\ Set(s, IF Did(o) THEN Cached(s, o) ELSE Failing(Cached(s, o)))
       /\ Goto(s, k, "settle", "cancelled")
  /\ UNCHANGED <<world, host>>

---------------------------------------------------------------------------
(* runNow: the claim, the emission, its outcome, the release of the claim. *)

\* Claimed, the firing is handed to the host at once, whatever the lifecycle
\* has become; refused, it is skipped.
ClaimFiring(s, k) ==
  /\ At(s, k, "claim")
  /\ LET T(r) == ClaimActive(s, k, r) IN
     \E o \in UpdateRecord(s, T, FALSE) :
       LET l == Cached(s, o) IN
       /\ Commit(o)
       /\ \/ /\ Did(o) /\ l.cache.active = Claim(s, k)
             /\ Set(s, [l EXCEPT !.active = k, !.rel = FALSE])
             /\ flying' = flying \cup {<<s, k>>}
             /\ emits' = [emits EXCEPT ![k] = @ + 1]
             /\ Goto(s, k, "emit", "none")
             /\ UNCHANGED <<open, untold>>
          \/ /\ Did(o) /\ l.cache.active # Claim(s, k)
             /\ Set(s, [l EXCEPT !.unsettled = TRUE]) /\ Goto(s, k, "settle", "skipped")
             /\ UNCHANGED host
          \/ /\ ~Did(o)
             /\ Set(s, Failing(l)) /\ Leave(s, k)
             /\ UNCHANGED host
  /\ UNCHANGED world

Watchdog(s, k) ==
  /\ At(s, k, "emit")
  /\ Goto(s, k, "land", "unknown")
  /\ UNCHANGED <<world, disk, local, host>>

\* release(): the claim goes once host.emit itself has settled.
ToRelease(s, k, l) ==
  IF l.active = k
    THEN Set(s, [l EXCEPT !.rel = TRUE]) /\ Goto(s, k, "release", "none")
    ELSE Set(s, l) /\ Leave(s, k)

HostSettles(s, k, status) ==
  /\ <<s, k>> \in flying
  /\ flying' = flying \ {<<s, k>>}
  /\ \/ /\ inv[s][k].at = "emit"
        /\ Goto(s, k, "land", status) /\ UNCHANGED local
     \/ /\ inv[s][k].at = "late"
        /\ ToRelease(s, k, local[s])
     \/ /\ inv[s][k].at = "land"
        /\ UNCHANGED <<local, inv>>
  /\ UNCHANGED <<world, disk, emits, open, untold>>

\* mutant: the outcome that could not be written is not remembered
SettledQuietly(s, k, o) ==
  LET l == Cached(s, o) IN IF Did(o) THEN Cleared(l) ELSE Failing(l)

\* settleInvocation
Settled(s, k, o) ==
  LET l == Cached(s, o)
  IN IF Did(o) THEN Cleared(l) ELSE [Failing(l) EXCEPT !.unsettled = TRUE]

StillOpen(k, status, o) ==
  IF status # "unknown" /\ (Did(o) \/ o.store.last = [status |-> status, key |-> k])
    THEN open \ {k} ELSE open

\* Its catch: the outcome is only in the memory of the scheduler.
Untold(k, o) == IF Did(o) THEN untold ELSE untold \cup {k}

Settle(s, k) ==
  /\ At(s, k, "settle")
  /\ LET T(r) == SettleInvocation(k, inv[s][k].as, local[s].unsettled, r) IN
     \E o \in UpdateRecord(s, T, FALSE) :
       /\ Commit(o)
       /\ Set(s, Settled(s, k, o)) /\ Leave(s, k)
       /\ open' = StillOpen(k, inv[s][k].as, o) /\ untold' = Untold(k, o)
  /\ UNCHANGED <<world, flying, emits>>

Land(s, k) ==
  /\ At(s, k, "land")
  /\ LET T(r) == SettleInvocation(k, inv[s][k].as, local[s].unsettled, r) IN
     \E o \in UpdateRecord(s, T, FALSE) :
       /\ Commit(o)
       /\ open' = StillOpen(k, inv[s][k].as, o) /\ untold' = Untold(k, o)
       /\ IF <<s, k>> \in flying
            THEN Set(s, Settled(s, k, o)) /\ Goto(s, k, "late", "none")
            ELSE ToRelease(s, k, Settled(s, k, o))
  /\ UNCHANGED <<world, flying, emits>>

\* repairDurableRelease of the claim k, after its clearActive came to o.
Repaired(s, k, o, row) ==
  LET l == Cached(s, o)
      free == [l EXCEPT !.active = NoKey, !.rel = FALSE,
                 !.failing = @ /\ HasPendingDurableRepair([l EXCEPT !.rel = FALSE])]
  IN CASE ~Did(o) \/ l.cache.active # NoClaim -> Both(Failing(l), row)
       [] Did(o) /\ l.cache.active = NoClaim /\ l.active # k -> Both(l, row)
       [] OTHER ->
            IF l.queue # <<>> /\ l.life = "running" /\ ~l.fenced
              THEN Both([free EXCEPT !.queue = Tail(@)],
                        [row EXCEPT ![Head(l.queue)] = [at |-> "claim", as |-> "none"]])
              ELSE Both([free EXCEPT !.queue = <<>>], Displaced(row, Queue(l), "cancelled"))

IsRepaired(o) == Did(o) /\ o.cache.active = NoClaim

Release(s, k) ==
  /\ At(s, k, "release")
  /\ LET T(r) == ClearActive(s, k, r) IN
     \E o \in UpdateRecord(s, T, TRUE) :
       LET done == Repaired(s, k, o, [inv[s] EXCEPT ![k] = Nowhere]) IN
       /\ Commit(o)
       /\ Become(s, IF IsRepaired(o) THEN done ELSE [done EXCEPT !.l = ScheduleNext(@)])
  /\ UNCHANGED <<world, host>>

\* A reconciliation tries again; a fenced generation has nothing else to do.
RepairRelease(s) ==
  /\ local[s].rec.pc \in {"mend", "repair"}
  /\ LET k == local[s].active
         T(r) == ClearActive(s, k, r)
     IN \/ /\ local[s].rel
           /\ \E o \in UpdateRecord(s, T, TRUE) :
                LET done == Repaired(s, k, o, inv[s]) IN
                /\ Commit(o)
                /\ Become(s, IF IsRepaired(o) /\ local[s].rec.pc = "repair"
                               THEN NextRec(s, done.l, done.row, "repair")
                               ELSE [done EXCEPT !.l = Finish(@)])
        \/ /\ ~local[s].rel   \* the release itself came first
           /\ Become(s, IF local[s].rec.pc = "repair"
                          THEN NextRec(s, local[s], inv[s], "repair")
                          ELSE Both(Finish(local[s]), inv[s]))
           /\ UNCHANGED disk
  /\ UNCHANGED <<world, host>>

---------------------------------------------------------------------------
Stop(s) ==
  LET l == local[s]
  IN /\ l.life \in {"new", "starting", "running"}
     /\ Become(s, Both([l EXCEPT !.life = "stopping", !.timer = Off, !.queue = <<>>],
                       Aborted(Displaced(inv[s], Queue(l), "cancelled"), l.active)))
     /\ UNCHANGED <<world, disk, host>>

\* stop returns when the settlements and the reconciliation it waits for end.
StopReturns(s) ==
  /\ local[s].life = "stopping" /\ local[s].rec.pc = "idle"
  /\ \A k \in Instant : inv[s][k].at \notin {"settle", "land"}
  /\ Set(s, [local[s] EXCEPT !.life = "stopped"])
  /\ UNCHANGED <<world, disk, inv, host>>

Crash(s) ==
  /\ local[s].life \notin {"new", "crashed"}
  /\ Set(s, [Fresh(0) EXCEPT !.life = "crashed"])
  /\ inv' = [inv EXCEPT ![s] = [k \in Instant |-> Nowhere]]
  /\ flying' = {f \in flying : f[1] # s}
  /\ current' = current \ {s}
  /\ UNCHANGED <<world, store, faults, emits, open, untold>>

Tick ==
  /\ now < EndOfTime
  /\ now' = now + 1
  /\ UNCHANGED <<setup, backSteps, disk, local, inv, host>>

ClockBack ==
  /\ backSteps < setup.backSteps
  /\ backSteps' = backSteps + 1
  /\ \E t \in 0..EndOfTime : t < now /\ now' = t
  /\ UNCHANGED <<setup, disk, local, inv, host>>

\* The steps of one scheduler that something is waiting for.
Step(s) ==
  \/ ReadAtStart(s) \/ DropSettled(s) \/ Replace(s) \/ RestartRegression(s)
  \/ RecoverUnknown(s) \/ TimerFires(s) \/ Refresh(s) \/ RecordClock(s)
  \/ GiveUpMissed(s) \/ AdmissionReturns(s) \/ RepairRelease(s)

Invocation(s, k) ==
  \/ ReserveFiring(s, k) \/ Unclaim(s, k) \/ ClaimFiring(s, k) \/ Watchdog(s, k)
  \/ Settle(s, k) \/ Land(s, k) \/ Release(s, k)
  \/ \E status \in {"accepted", "rejected", "duplicate", "unknown"} : HostSettles(s, k, status)

Next ==
  \/ Tick \/ ClockBack
  \/ \E s \in Scheduler :
       \/ Start(s) \/ Step(s) \/ Stop(s) \/ StopReturns(s) \/ Crash(s)
       \/ \E k \in setup.commands : Invoke(s, k)
       \/ \E k \in Instant : Invocation(s, k)

Spec == Init /\ [][Next]_vars

\* Time passes, timers fire, awaited calls return, the watchdog bounds an emission.
Fairness ==
  /\ WF_vars(Tick)
  /\ \A s \in Scheduler : WF_vars(Step(s)) /\ \A k \in Instant : WF_vars(Invocation(s, k))

FairSpec == Spec /\ Fairness

---------------------------------------------------------------------------
(* Properties                                                              *)

\* A firing is emitted at most once, whichever scheduler admits it, whatever
\* crashed before, however the clock moved and whichever schedule is in force.
EmittedOnce == \A k \in Instant : emits[k] <= 1

\* The no-overlap slot is one for all schedulers: two emissions of the job are
\* never in flight together, and the one that is holds the durable claim.
OneEmissionInFlight ==
  /\ \A f, g \in flying : f = g
  /\ \A f \in flying : store.active = Claim(f[1], f[2])

\* A firing that was reserved and whose outcome nobody knows is never forgotten:
\* the durable record shows a health issue, an outstanding claim or an unknown last
\* outcome, whichever scheduler crashes.  The exception: the write that would have
\* told its outcome failed, and its scheduler released the claim all the same.
NoFiringForgotten ==
  \A k \in open \ untold :
    store.issue \/ store.active # NoClaim \/ store.last.status = "unknown"

\* What the health of the job reports: the issue on the record a scheduler last saw, or
\* the one it remembers (record.issue ?? unsettledIssue).
ShowsIssue(s) == local[s].cache.issue \/ local[s].unsettled

\* It sees that a claim it took for another one's is over, and how that ended.
ClaimIsOver(s) ==
  local[s].foreign /\ ~local'[s].foreign /\ local'[s].cache.last.status # "unknown"

\* An issue a scheduler shows stays until it crashes, across every later read, write and
\* failure, and so does a firing whose outcome could not be written: its scheduler shows
\* an issue from then on.  The exception is the end of a claim it took for another's: the
\* issue of that claim is dropped, with whatever else it remembers.
IssueIsKept ==
  [][\A s \in Scheduler :
       /\ ShowsIssue(s) /\ local'[s].life # "crashed" => ShowsIssue(s)' \/ ClaimIsOver(s)
       /\ \A k \in untold' \ untold : inv'[s] # inv[s] => ShowsIssue(s)']_vars

\* "Any older overdue interval is durably recorded as missed before the watermark
\* advances": no firing is stepped over that was not recorded as missed.
OverdueIsRecorded ==
  [][\A o \in Occurrences :
       store.gen = store'.gen /\ store.watermark < o /\ o < store'.watermark
         => store'.missed[1] <= o /\ o <= store'.missed[2]]_store

\* "Stop clears every timer, aborts active emission, and durably cancels queued
\* work that had not begun": a scheduler that is not running begins no emission.
NoEmissionAfterStop ==
  [][\A s \in Scheduler, k \in Instant :
       <<s, k>> \in flying' \ flying => local[s].life = "running"]_flying

\* A firing that is due while a scheduler runs is admitted or given up as missed,
\* unless another claim or schedule holds the job, the scheduler stops or the
\* clock goes back: failures of the durable state heal.
DueIsAdmitted ==
  \A s \in Scheduler, o \in Occurrences :
    (local[s].life = "running" /\ o <= now /\ store.watermark < o)
      ~> \/ store.watermark >= o
         \/ local[s].life # "running" \/ now < o
         \/ local[s].foreign \/ local[s].fenced \/ local[s].transition

\* "retries a failed durable active-fence clear without losing the next firing"
\* (a test of the repository): an owed release is made, unless the scheduler stops.
FailedReleaseIsRetried ==
  \A s \in Scheduler :
    (local[s].life = "running" /\ local[s].rel)
      ~> (local[s].life # "running" \/ ~local[s].rel)
=============================================================================
