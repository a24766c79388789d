----------------------------- MODULE CronRecord -----------------------------
(***************************************************************************)
(* The durable record the cron trigger keeps for a job, and what each of   *)
(* the scheduler's operations makes of it.                                 *)
(*                                                                         *)
(* An operation maps a record to a set: a singleton with the record it     *)
(* wants written, or the empty set where the code returns the record it    *)
(* was given, in which case nothing is written.                            *)
(*                                                                         *)
(* Instants are numbers.  A firing's idempotency key is determined by the  *)
(* job and the instant, so within one job the instant stands for the key.  *)
(***************************************************************************)
EXTENDS Integers, FiniteSets, FiniteSetsExt

CONSTANTS
  Scheduler,    \* scheduler instances; each has its own random owner id
  Nobody,
  Generation,   \* what scheduleFingerprint tells apart
  NoGeneration,
  Occurrences,  \* the instants the cron expression names
  EndOfTime

ASSUME RecordAssumption ==
  /\ Nobody \notin Scheduler
  /\ NoGeneration \notin Generation
  /\ EndOfTime \in Nat
  /\ Occurrences \subseteq 1..EndOfTime

Instant == 0..EndOfTime

NoKey == 0
NoClaim == [owner |-> Nobody, key |-> NoKey]
NoOutcome == [status |-> "none", key |-> NoKey]
NoRange == <<EndOfTime, 0>>

Status == {"none", "accepted", "rejected", "duplicate", "skipped", "dropped",
           "cancelled", "unknown", "missed"}

\* issue says whether a health issue is recorded; back is the last clock
\* regression <<from, to>>; missed the hull of the ranges recorded as missed.
Record == [gen : Generation \cup {NoGeneration}, watermark : Instant,
           active : [owner : Scheduler \cup {Nobody}, key : Instant],
           last : [status : Status, key : Instant], issue : BOOLEAN,
           missed : Instant \X Instant, back : Instant \X Instant]

InitialRecord(gen, now) ==
  [gen |-> gen, watermark |-> now, active |-> NoClaim, last |-> NoOutcome,
   issue |-> FALSE, missed |-> NoRange, back |-> NoRange]

NoRecord == InitialRecord(NoGeneration, 0)

Later(a, b) == IF a >= b THEN a ELSE b

MergeMissed(range, from, through) ==
  <<IF range[1] <= from THEN range[1] ELSE from, Later(range[2], through)>>

Claim(s, k) == [owner |-> s, key |-> k]

---------------------------------------------------------------------------
\* jobs.ts: the occurrences of the expression around an instant.

Due(from, through) == {o \in Occurrences : from < o /\ o <= through}

NextOccurrence(t) ==
  IF Due(t, EndOfTime) = {} THEN EndOfTime + 1 ELSE Min(Due(t, EndOfTime))

\* collectDue: the most recent overdue firings, at most limit of them ...
SelectedDue(from, through, limit) ==
  {o \in Due(from, through) : Cardinality(Due(o, through)) < limit}

\* ... and the older ones, which it gives up.
MissedDue(from, through, limit) ==
  Due(from, through) \ SelectedDue(from, through, limit)

---------------------------------------------------------------------------
HasDefinitivelySettledActive(r) ==
  /\ r.active # NoClaim
  /\ r.last.key = r.active.key
  /\ r.last.status # "unknown"

\* isForeignActive: a claim that is not the one s is carrying out.
ForeignClaim(s, carrying, r) ==
  r.active # NoClaim /\ ~(r.active.owner = s /\ r.active.key = carrying)

DropSettledClaim(r) ==
  IF HasDefinitivelySettledActive(r) THEN {[r EXCEPT !.active = NoClaim]} ELSE {}

\* mutant: the instant of the watermark is admitted again
ReserveAgain(s, carrying, unsettled, k, r) ==
  IF k < r.watermark \/ ForeignClaim(s, carrying, r) THEN {}
  ELSE {[r EXCEPT !.watermark = k,
                  !.active = IF @ = NoClaim THEN Claim(s, k) ELSE @,
                  !.last = [status |-> "unknown", key |-> k],
                  !.issue = @ \/ unsettled \/ r.last.status = "unknown"]}

\* mutant: the claim of another scheduler is taken over
ReserveAnyway(s, carrying, unsettled, k, r) ==
  IF k <= r.watermark THEN {}
  ELSE {[r EXCEPT !.watermark = k, !.active = Claim(s, k),
                  !.last = [status |-> "unknown", key |-> k],
                  !.issue = @ \/ unsettled]}

\* mutant: an unknown outcome that is overwritten leaves no issue
ReserveForgetful(s, carrying, unsettled, k, r) ==
  IF k <= r.watermark \/ ForeignClaim(s, carrying, r) THEN {}
  ELSE {[r EXCEPT !.watermark = k,
                  !.active = IF @ = NoClaim THEN Claim(s, k) ELSE @,
                  !.last = [status |-> "unknown", key |-> k],
                  !.issue = @ \/ unsettled]}

\* The reservation of a firing: the transform in admit.
Reserve(s, carrying, unsettled, k, r) ==
  IF k <= r.watermark \/ ForeignClaim(s, carrying, r) THEN {}
  ELSE LET lost == r.last.status = "unknown" /\ r.last.key # carrying
       IN {[r EXCEPT !.watermark = k,
                     !.active = IF @ = NoClaim THEN Claim(s, k) ELSE @,
                     !.last = [status |-> "unknown", key |-> k],
                     !.issue = @ \/ unsettled \/ lost]}

ClaimActive(s, k, r) ==
  IF r.active = NoClaim THEN {[r EXCEPT !.active = Claim(s, k)]} ELSE {}

ClearActive(s, k, r) ==
  IF r.active = Claim(s, k) THEN {[r EXCEPT !.active = NoClaim]} ELSE {}

SettleInvocation(k, status, unsettled, r) ==
  LET issue == \/ r.issue \/ unsettled
               \/ status \in {"rejected", "unknown", "missed"}
  IN IF r.last.key = k
       THEN {[r EXCEPT !.last.status = status, !.issue = issue]}
       ELSE IF issue = r.issue THEN {} ELSE {[r EXCEPT !.issue = TRUE]}

RecordMissed(from, through, r) ==
  IF r.watermark >= through THEN {}
  ELSE {[r EXCEPT !.watermark = through, !.issue = TRUE,
                  !.last = [status |-> "missed", key |-> through],
                  !.missed = MergeMissed(@, from, through)]}

\* replaceChangedSchedule: never while a claim is outstanding.
ReplaceSchedule(gen, now, r) ==
  IF r.gen = gen \/ r.active # NoClaim THEN {}
  ELSE LET w == Later(r.watermark, now)
       IN {[InitialRecord(gen, w) EXCEPT
              !.issue = TRUE, !.back = r.back,
              !.missed = MergeMissed(r.missed, r.watermark, w)]}

RecordRestartRegression(pair, r) == {[r EXCEPT !.issue = TRUE, !.back = pair]}

RecordRegression(pair, r) ==
  IF r.back = pair THEN {} ELSE {[r EXCEPT !.issue = TRUE, !.back = pair]}

RecordUnknown(r) ==
  IF r.issue \/ (r.active = NoClaim /\ r.last.status # "unknown") THEN {}
  ELSE {[r EXCEPT !.issue = TRUE]}
=============================================================================
