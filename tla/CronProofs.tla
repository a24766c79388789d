----------------------------- MODULE CronProofs -----------------------------
(***************************************************************************)
(* The cron trigger, for any number of schedulers, instants, crashes, lost *)
(* writes and steps of the clock: a firing is emitted at most once, the    *)
(* job has one emission in flight, no firing is forgotten, and an issue    *)
(* once shown is not lost.                                                 *)
(*                                                                         *)
(* The invariant says where a firing may be that the watermark has passed, *)
(* who may believe the claim to be theirs, and what the record may say of  *)
(* a firing that is not over.  Most steps belong to the starts and passes  *)
(* of a scheduler: they maintain the record and leave the firings alone    *)
(* (MaintenanceStep).  The steps of a firing short of a new emission only  *)
(* move it on (Moves) and keep the record true to it (Honours).  Reserving *)
(* and claiming are argued for by themselves.                              *)
(*                                                                         *)
(* That no firing is forgotten is the other half of the invariant (Told):  *)
(* as long as the record has no issue, every firing without an outcome is  *)
(* the last outcome, or is being carried out under the claim.  Each step   *)
(* accounts for the firings it leaves as they are (Accounts); settling and *)
(* reserving, which write over the last outcome, are argued for on their   *)
(* own (SettleTells, ReserveTold).                                         *)
(*                                                                         *)
(* The last part is about the health issue (IssuesAreKept).  A scheduler   *)
(* keeps what it read of the record while it waits, so that its next       *)
(* write, or its health, may be about a record that is no longer there.    *)
(* GenOK says what it knows at least: a record of another schedule than    *)
(* its own carries an issue, and who is about to replace one has read it.  *)
(* Each step of a scheduler leaves what it shows as it was (Calm, Minds)   *)
(* or takes the issue along to the record (Informs).                       *)
(***************************************************************************)
EXTENDS CronSchedule, TLAPS, FiniteSetTheorems, WellFoundedInduction

---------------------------------------------------------------------------
(* The least and the greatest of the instants selected.                    *)

\* The instants and the two numbers beyond the modelled time that timers use.
Time == 0..(EndOfTime + 2)

LEMMA LeastExists ==
  ASSUME NEW S, S \subseteq Nat, S # {}
  PROVE  Min(S) \in S /\ \A y \in S : Min(S) <= y
<1> DEFINE R == {p \in Nat \X Nat : p[1] < p[2]}
<1>1. IsWellFoundedOn(R, Nat)
  BY NatLessThanWellFounded, Zenon DEF OpToRel
<1>2. PICK x \in S : \A y \in S : ~(<<y, x>> \in R)
  BY <1>1, WFMin, Zenon
<1>3. ASSUME NEW y \in S PROVE x <= y
  <2>1. y \in Nat /\ x \in Nat /\ ~(y < x)
    <3>1. ~(<<y, x>> \in R)
      BY <1>2
    <3> QED BY <3>1
  <2> QED BY <2>1
<1> QED BY <1>3 DEF Min

LEMMA GreatestExists ==
  ASSUME NEW S, S \subseteq Instant, S # {}
  PROVE  Max(S) \in S
<1> DEFINE R == {EndOfTime - x : x \in S}
<1>1. R \subseteq Nat /\ R # {}
  BY RecordAssumption DEF Instant
<1>2. PICK y \in R : \A z \in R : y <= z
  <2>1. Min(R) \in R /\ \A z \in R : Min(R) <= z
    BY <1>1, LeastExists
  <2> QED BY <2>1
<1>3. PICK x \in S : y = EndOfTime - x
  BY <1>2
<1>4. ASSUME NEW z \in S PROVE x >= z
  <2>1. EndOfTime - x <= EndOfTime - z
    BY <1>2, <1>3
  <2>2. x \in Int /\ z \in Int /\ EndOfTime \in Int
    BY RecordAssumption DEF Instant
  <2> QED BY <2>1, <2>2
<1> QED BY <1>4 DEF Max

LEMMA DueTypes ==
  ASSUME NEW from, NEW through, NEW limit
  PROVE  /\ Due(from, through) \subseteq Instant \ {0}
         /\ SelectedDue(from, through, limit) \subseteq Instant \ {0}
         /\ MissedDue(from, through, limit) \subseteq Instant \ {0}
<1>1. Due(from, through) \subseteq Occurrences /\ Occurrences \subseteq Instant \ {0}
  <2>1. Due(from, through) \subseteq Occurrences
    BY DEF Due
  <2>2. Occurrences \subseteq Instant \ {0}
    BY RecordAssumption DEF RecordAssumption, Instant
  <2> QED BY <2>1, <2>2
<1>2. SelectedDue(from, through, limit) \subseteq Due(from, through)
  BY DEF SelectedDue
<1>3. MissedDue(from, through, limit) \subseteq Due(from, through)
  BY DEF MissedDue
<1> QED BY <1>1, <1>2, <1>3

LEMMA NextOccurrenceType ==
  ASSUME NEW t PROVE NextOccurrence(t) \in Timer
<1>1. CASE Due(t, EndOfTime) = {}
  BY <1>1, RecordAssumption DEF NextOccurrence, Timer, Off, Retry
<1>2. CASE Due(t, EndOfTime) # {}
  <2>1. Due(t, EndOfTime) \subseteq Nat
    BY DueTypes DEF Instant
  <2>2. Min(Due(t, EndOfTime)) \in Due(t, EndOfTime)
    BY <1>2, <2>1, LeastExists
  <2> QED BY <1>2, <2>2, DueTypes, RecordAssumption DEF NextOccurrence, Timer, Off, Retry, Instant
<1> QED BY <1>1, <1>2

---------------------------------------------------------------------------
(* What the steps of a pass leave alone                                    *)

Slot == [at : Stage, as : Status]
Row == [Instant -> Slot]

\* A pass moves only its own position, timers and flags ...
Same(l, m) ==
  /\ m \in Local
  /\ m.cache = l.cache /\ m.active = l.active /\ m.rel = l.rel /\ m.queue = l.queue

PassType ==
  [pc : Pc, at : Instant, due : SUBSET (Instant \cup {EndOfTime + 1}),
   missed : Instant \X Instant, n : Nat, again : BOOLEAN]

\* (a pass that adjusts a timer knows which)
Placed(m) == m.rec.pc = "adjust" => m.rec.due # {}
Kept(l, m) == Same(l, m) /\ Placed(m)

\* ... and puts firings that are nowhere forward for admission.
RowGrows(row, next) ==
  /\ next \in Row
  /\ \A k \in Instant : next[k] = row[k] \/ (row[k] = Nowhere /\ next[k].at = "admit")

Passes(l, row, b) == Kept(l, b.l) /\ RowGrows(row, b.row)

LEMMA KeptTransitive ==
  ASSUME NEW l, NEW m, NEW n, Same(l, m), Kept(m, n) PROVE Kept(l, n)
BY DEF Same, Kept

LEMMA RecKeeps ==
  ASSUME NEW l \in Local, NEW pc \in Pc \ {"adjust"} PROVE Kept(l, Rec(l, pc))
BY DEF Same, Kept, Placed, Rec, Local

LEMMA IdleType == Idle \in PassType /\ Idle.pc = "idle"
<1>1. NoRange \in Instant \X Instant /\ 0 \in Instant
  BY RecordAssumption DEF RecordAssumption, NoRange, Instant
<1> QED BY <1>1 DEF Idle, Pc, PassType

LEMMA IdleKeeps ==
  ASSUME NEW l \in Local PROVE Kept(l, [l EXCEPT !.rec = Idle])
BY IdleType DEF Same, Kept, Placed, Local, PassType

LEMMA TimerTypes ==
  ASSUME NEW t PROVE Off \in Timer /\ Retry \in Timer /\ NextOccurrence(t) \in Timer
BY NextOccurrenceType, RecordAssumption DEF RecordAssumption, Timer, Off, Retry

LEMMA ScheduleNextKeeps ==
  ASSUME NEW l \in Local, Placed(l) PROVE Kept(l, ScheduleNext(l))
BY TimerTypes DEF Same, Kept, Placed, ScheduleNext, Local

LEMMA EndPassKeeps ==
  ASSUME NEW l \in Local PROVE Kept(l, EndPass(l))
<1>1. Kept(l, [l EXCEPT !.rec = Idle])
  BY IdleKeeps
<1>2. Kept([l EXCEPT !.rec = Idle], EndPass(l))
  BY <1>1, ScheduleNextKeeps DEF Same, Kept, EndPass
<1> QED BY <1>1, <1>2, KeptTransitive DEF Kept

LEMMA PassKeeps ==
  ASSUME NEW l \in Local, now \in Instant PROVE Kept(l, Pass(l))
<1> DEFINE m == [l EXCEPT !.rec.at = now]
<1>1. Same(l, m)
  BY DEF Same, Local
<1>2. Kept(m, EndPass(m)) /\ Kept(m, Rec(m, "mend")) /\ Kept(m, Rec(m, "refresh"))
  BY <1>1, EndPassKeeps, RecKeeps DEF Same, Pc
<1>3. Kept(m, Pass(l))
  BY <1>2 DEF Pass
<1> QED BY <1>1, <1>3, KeptTransitive

LEMMA FinishKeeps ==
  ASSUME NEW l \in Local, now \in Instant PROVE Kept(l, Finish(l))
<1>1. Kept(l, [l EXCEPT !.rec = Idle])
  BY IdleKeeps
<1>2. Kept(l, Pass([l EXCEPT !.rec = Idle]))
  BY <1>1, PassKeeps, KeptTransitive DEF Same, Kept
<1> QED BY <1>2, EndPassKeeps DEF Finish

LEMMA FlagKeeps ==
  ASSUME NEW l \in Local
  PROVE  Same(l, Failing(l)) /\ Same(l, Cleared(l)) /\ Same(l, FenceScheduleGeneration(l))
<1>1. Same(l, Failing(l))
  BY DEF Same, Failing, Local
<1>2. Same(l, [l EXCEPT !.failing = FALSE, !.unsettled = FALSE])
  BY DEF Same, Local
<1>3. Same(l, Cleared(l))
  BY <1>2 DEF Cleared, Same
<1>4. Same(l, FenceScheduleGeneration(l))
  BY DEF Same, FenceScheduleGeneration, Local
<1> QED BY <1>1, <1>3, <1>4

LEMMA AfterRefusalKeeps ==
  ASSUME NEW l \in Local, Placed(l) PROVE Kept(l, AfterRefusal(l))
BY ScheduleNextKeeps DEF AfterRefusal, Same, Kept

\* The firings selected are finitely many.
LEMMA DueIsFinite ==
  ASSUME NEW S \in SUBSET (Instant \cup {EndOfTime + 1}) PROVE Cardinality(S) \in Nat
<1>1. IsFiniteSet(0..(EndOfTime + 1))
  BY FS_Interval, RecordAssumption DEF RecordAssumption
<1>2. S \subseteq 0..(EndOfTime + 1)
  BY RecordAssumption DEF RecordAssumption, Instant
<1> QED BY <1>1, <1>2, FS_Subset, FS_CardinalityType

LEMMA AdmitNextPasses ==
  ASSUME NEW l \in Local, NEW row \in Row, now \in Instant, l.rec.pc # "adjust"
  PROVE  Passes(l, row, AdmitNext(l, row))
<1> DEFINE k == Min(l.rec.due)
           skipped == [AfterRefusal(l) EXCEPT !.rec.n = @ + Cardinality(l.rec.due), !.rec.due = {}]
           forward == [row EXCEPT ![k] = [at |-> "admit", as |-> "none"]]
<1>1. RowGrows(row, row)
  BY DEF RowGrows
<1>2. Kept(l, Pass(l)) /\ Kept(l, Finish(l))
  BY PassKeeps, FinishKeeps
<1>3. Kept(l, Rec(l, "admit")) /\ Kept(l, Rec(l, "waiting"))
  BY RecKeeps DEF Pc
<1>4. Kept(l, Pass(skipped))
  <2>1. Kept(l, AfterRefusal(l))
    BY AfterRefusalKeeps DEF Placed
  <2>2. Cardinality(l.rec.due) \in Nat
    BY DueIsFinite DEF Local
  <2>3. Same(AfterRefusal(l), skipped)
    <3>1. ASSUME NEW m \in Local, NEW c \in Nat
          PROVE  Same(m, [m EXCEPT !.rec.n = @ + c, !.rec.due = {}])
      <4>1. m.rec.n + c \in Nat
        BY DEF Local
      <4> QED BY <4>1 DEF Same, Local
    <3>2. AfterRefusal(l) \in Local
      BY <2>1 DEF Kept, Same
    <3> QED BY <2>2, <3>1, <3>2
  <2> QED BY <2>1, <2>3, PassKeeps, KeptTransitive DEF Same, Kept
<1>5. row[k] = Nowhere => RowGrows(row, forward)
  BY DEF RowGrows, Row, Slot, Stage, Status
<1> QED BY <1>1, <1>2, <1>3, <1>4, <1>5 DEF AdmitNext, Passes, Both

LEMMA AdmittedPasses ==
  ASSUME NEW l \in Local, NEW row \in Row, now \in Instant, l.rec.pc # "adjust"
  PROVE  Passes(l, row, Admitted(l, row))
<1> DEFINE m == [l EXCEPT !.rec.n = @ + 1, !.rec.due = @ \ {Min(@)}]
<1>1. Kept(l, Finish(l)) /\ RowGrows(row, row)
  BY FinishKeeps DEF RowGrows
<1>2. Passes(l, row, AdmitNext(m, row))
  <2>1. l.rec.n + 1 \in Nat
    BY DEF Local
  <2>2. Same(l, m) /\ m.rec.pc = l.rec.pc
    BY <2>1 DEF Same, Local
  <2> QED BY <2>2, AdmitNextPasses, KeptTransitive DEF Passes, Same
<1> QED BY <1>1, <1>2 DEF Admitted, Passes, Both

LEMMA DecidePasses ==
  ASSUME NEW s, NEW l0 \in Local, NEW row \in Row, now \in Instant, l0.rec.pc # "adjust"
  PROVE  Passes(l0, row, Decide(s, l0, row))
<1> DEFINE keep == l0.unsettled /\ ~(l0.foreign /\ ~l0.cache.issue
                                       /\ l0.cache.last.status # "unknown")
           l == [l0 EXCEPT !.foreign = FALSE, !.rec.at = 0, !.unsettled = keep]
           selected == SelectedDue(l.cache.watermark, l0.rec.at, CatchUp - l.rec.n)
           missed == MissedDue(l.cache.watermark, l0.rec.at, CatchUp - l.rec.n)
           waits == [l0 EXCEPT !.foreign = TRUE, !.unsettled = TRUE]
           gives == [l EXCEPT !.rec.pc = "missed", !.rec.due = selected,
                              !.rec.missed = <<Min(missed), Max(missed)>>]
           admits == [l EXCEPT !.rec.due = selected]
<1>1. Same(l0, l) /\ l.rec.pc # "adjust"
  <2>1. keep \in BOOLEAN /\ 0 \in Instant
    BY RecordAssumption DEF RecordAssumption, Instant
  <2> HIDE DEF keep
  <2> QED BY <2>1 DEF Same, Local
<1>2. selected \in SUBSET (Instant \cup {EndOfTime + 1})
  BY DueTypes
<1> HIDE DEF l, selected
<1>3. Passes(l0, row, Both(Finish(waits), row))
  <2>1. Same(l0, waits)
    BY DEF Same, Local
  <2> QED BY <2>1, FinishKeeps, KeptTransitive DEF Passes, Both, RowGrows, Same
<1>4. Passes(l0, row, Both(Finish(l), row))
  BY <1>1, FinishKeeps, KeptTransitive DEF Passes, Both, RowGrows, Same
<1>5. ASSUME missed # {} PROVE Passes(l0, row, Both(gives, row))
  <2>1. missed \subseteq Instant /\ missed \subseteq Nat
    BY DueTypes, RecordAssumption DEF RecordAssumption, Instant
  <2>2. <<Min(missed), Max(missed)>> \in Instant \X Instant
    BY <1>5, <2>1, LeastExists, GreatestExists
  <2> HIDE DEF missed
  <2>3. Kept(l, gives)
    BY <1>1, <1>2, <2>2 DEF Same, Kept, Placed, Local, Pc
  <2> QED BY <1>1, <2>3, KeptTransitive DEF Passes, Both, RowGrows
<1>6. Passes(l0, row, AdmitNext(admits, row))
  <2>1. Same(l, admits) /\ admits.rec.pc # "adjust"
    BY <1>1, <1>2 DEF Same, Local
  <2>2. Same(l0, admits)
    BY <1>1, <2>1 DEF Same
  <2> QED BY <2>1, <2>2, AdmitNextPasses, KeptTransitive DEF Passes, Same
<1> QED BY <1>3, <1>4, <1>5, <1>6 DEF Decide, l, selected

LEMMA AccountPasses ==
  ASSUME NEW s, NEW l \in Local, NEW row \in Row, now \in Instant, l.rec.pc # "adjust"
  PROVE  Passes(l, row, Account(s, l, row))
<1> DEFINE noticed == [l EXCEPT !.back = <<l.observed, l.rec.at>>, !.unsettled = TRUE,
                                !.rec.pc = "clock"]
           seen == [l EXCEPT !.observed = l.rec.at]
<1>1. Passes(l, row, Both(Rec(l, "clock"), row))
  BY RecKeeps DEF Passes, Both, RowGrows, Pc
<1>2. Passes(l, row, Both(noticed, row))
  BY DEF Passes, Both, RowGrows, Kept, Same, Placed, Local, Pc
<1>3. Passes(l, row, Decide(s, seen, row))
  <2>1. Same(l, seen) /\ seen.rec.pc # "adjust"
    BY DEF Same, Local
  <2> QED BY <2>1, DecidePasses, KeptTransitive DEF Passes, Same
<1> QED BY <1>1, <1>2, <1>3 DEF Account

LEMMA NextRecPasses ==
  ASSUME NEW s, NEW l \in Local, NEW row \in Row, NEW pc, now \in Instant, l.rec.pc # "adjust"
  PROVE  Passes(l, row, NextRec(s, l, row, pc))
<1>1. \A step \in {"settled", "transition", "repair"} : Passes(l, row, Both(Rec(l, step), row))
  BY RecKeeps DEF Passes, Both, RowGrows, Pc
<1> QED BY <1>1, AccountPasses DEF NextRec

---------------------------------------------------------------------------
(* The start of a scheduler, and its timer                                 *)

LEMMA NextInitKeeps ==
  ASSUME NEW s, NEW l \in Local, NEW pc PROVE Kept(l, NextInit(s, l, pc))
<1>1. \A step \in {"drop", "replace", "restart", "unknown"} : Kept(l, Rec(l, step))
  BY RecKeeps DEF Pc
<1> QED BY <1>1 DEF NextInit

LEMMA RunningKeeps ==
  ASSUME NEW l \in Local, now \in Instant PROVE Kept(l, Running(l))
<1> DEFINE up == [l EXCEPT !.life = "running", !.rec = Idle]
<1>1. Kept(l, [l EXCEPT !.rec = Idle])
  BY IdleKeeps
<1>2. Kept(l, up)
  <2>1. up = [[l EXCEPT !.rec = Idle] EXCEPT !.life = "running"]
    BY DEF Local
  <2> QED BY <1>1, <2>1 DEF Kept, Same, Placed, Local
<1>3. Kept(l, ScheduleNext(up))
  BY <1>2, ScheduleNextKeeps, KeptTransitive DEF Kept, Same
<1>4. Kept(l, Pass(ScheduleNext(up)))
  BY <1>3, PassKeeps, KeptTransitive DEF Kept, Same
<1> QED BY <1>1, <1>4 DEF Running

LEMMA StartFailedKeeps ==
  ASSUME NEW l \in Local PROVE Kept(l, StartFailed(l))
<1> DEFINE m == [l EXCEPT !.life = IF @ = "starting" THEN "new" ELSE @]
<1>1. Same(l, m)
  BY DEF Same, Local
<1>2. StartFailed(l) = [m EXCEPT !.rec = Idle]
  BY DEF StartFailed, Local
<1> QED BY <1>1, <1>2, IdleKeeps, KeptTransitive DEF Same

LEMMA RequestedKeeps ==
  ASSUME NEW l \in Local, Placed(l), now \in Instant PROVE Kept(l, Requested(l))
<1>1. Same(l, [l EXCEPT !.timer = Off])
  BY TimerTypes DEF Same, Local
<1>2. Kept(l, [l EXCEPT !.timer = Off, !.rec.again = TRUE])
  BY TimerTypes DEF Kept, Same, Placed, Local
<1> QED BY <1>1, <1>2, PassKeeps, KeptTransitive DEF Requested, Same

---------------------------------------------------------------------------
(* A durable mutation                                                      *)

\* Whoever is named current has the stored record cached.
CurrentOK == \A s \in current : local[s].cache = store

\* updateRecord, given what the transform makes of the cached record and of the
\* stored one.
Outcomes(s, mine, theirs, allowMismatch) ==
  LET l == local[s]
      foreign(r) == ~allowMismatch /\ r.gen # setup.schedule[s]
      trusts == s \in current \/ foreign(l.cache) \/ mine = {}
      seen == IF trusts THEN l.cache ELSE store
      wants == IF trusts THEN mine ELSE theirs
      reads == IF seen = l.cache THEN current ELSE current \cup {s}
  IN IF foreign(seen) THEN {Outcome("fenced", store, seen, reads, 0)}
     ELSE IF wants = {} THEN {Outcome("same", store, seen, reads, 0)}
     ELSE LET next == CHOOSE r \in wants : TRUE
          IN {Outcome("applied", next, next, {s}, 0)}
             \cup IF faults < setup.faults
                    THEN {Outcome("failed", store, seen, reads, 1),
                          Outcome("failed", next, seen, {}, 1)}
                    ELSE {}

\* What lands is what the transform makes of the stored record.
Effect(s, o, writes) ==
  /\ o.how \in {"fenced", "same", "applied", "failed"}
  /\ o.store = store \/ o.store \in writes
  /\ o.how \in {"fenced", "same"} => o.store = store
  /\ o.how = "applied" => o.store \in writes /\ o.cache = o.store
  /\ o.cache \in {local[s].cache, store, o.store}
  /\ \A t \in o.current : IF t = s THEN o.cache = o.store ELSE t \in current /\ o.store = store
  /\ o.fault \in {0, 1} /\ (o.fault = 1 => faults < setup.faults)

LEMMA OutcomeEffect ==
  ASSUME NEW s \in Scheduler, NEW mine, NEW theirs, NEW allowMismatch,
         NEW o \in Outcomes(s, mine, theirs, allowMismatch),
         CurrentOK, s \in current => mine = theirs
  PROVE  Effect(s, o, theirs)
<1> DEFINE foreign(r) == ~allowMismatch /\ r.gen # setup.schedule[s]
           trusts == s \in current \/ foreign(local[s].cache) \/ mine = {}
           seen == IF trusts THEN local[s].cache ELSE store
           wants == IF trusts THEN mine ELSE theirs
           reads == IF seen = local[s].cache THEN current ELSE current \cup {s}
           next == CHOOSE r \in wants : TRUE
<1>1. /\ seen \in {local[s].cache, store}
      /\ \A t \in reads : IF t = s THEN seen = store ELSE t \in current
  BY DEF CurrentOK
<1>2. CASE foreign(seen)
  <2>1. o = Outcome("fenced", store, seen, reads, 0)
    BY <1>2 DEF Outcomes
  <2> HIDE DEF seen, reads
  <2> QED BY <1>1, <2>1 DEF Effect, Outcome
<1>3. CASE ~foreign(seen) /\ wants = {}
  <2>1. o = Outcome("same", store, seen, reads, 0)
    BY <1>3 DEF Outcomes
  <2> HIDE DEF seen, reads
  <2> QED BY <1>1, <2>1 DEF Effect, Outcome
<1>4. CASE ~foreign(seen) /\ wants # {}
  <2>1. wants = theirs
    BY <1>4
  <2>2. next \in theirs
    <3> HIDE DEF wants
    <3>1. \E r \in wants : TRUE
      BY <1>4
    <3> QED BY <2>1, <3>1
  <2>3. o \in {Outcome("applied", next, next, {s}, 0)}
             \cup IF faults < setup.faults
                    THEN {Outcome("failed", store, seen, reads, 1),
                          Outcome("failed", next, seen, {}, 1)}
                    ELSE {}
    BY <1>4, Zenon DEF Outcomes
  <2> HIDE DEF seen, reads, next
  <2>4. CASE o = Outcome("applied", next, next, {s}, 0)
    BY <2>2, <2>4 DEF Effect, Outcome
  <2>5. CASE faults < setup.faults /\ o = Outcome("failed", store, seen, reads, 1)
    BY <1>1, <2>5 DEF Effect, Outcome
  <2>6. CASE faults < setup.faults /\ o = Outcome("failed", next, seen, {}, 1)
    BY <1>1, <2>2, <2>6 DEF Effect, Outcome
  <2> QED BY <2>3, <2>4, <2>5, <2>6
<1> QED BY <1>2, <1>3, <1>4

---------------------------------------------------------------------------
(* What the operations that maintain the record make of it                 *)

\* The watermark never falls, a claim goes only when its firing is settled, and
\* the last outcome of a firing that was admitted is never replaced by another; no
\* issue is withdrawn, and there is one where an outcome is replaced.
Maintained(r, n) ==
  /\ n \in Record
  /\ r.watermark <= n.watermark
  /\ n.active = r.active \/ (n.active = NoClaim /\ HasDefinitivelySettledActive(r))
  /\ n.last = r.last \/ n.last.key > r.watermark \/ n.last.key = NoKey
  /\ r.issue => n.issue
  /\ n.last = r.last \/ n.issue

LEMMA InstantTypes ==
  /\ 0 \in Instant /\ EndOfTime \in Instant /\ NoRange \in Instant \X Instant
  /\ \A k \in Instant : k \in Nat
  /\ \A j, k \in Instant : Later(j, k) \in Instant /\ j <= Later(j, k) /\ k <= Later(j, k)
BY RecordAssumption DEF RecordAssumption, Instant, NoRange, Later

LEMMA NoClaimType ==
  NoClaim \in [owner : Scheduler \cup {Nobody}, key : Instant]
BY InstantTypes DEF NoClaim, NoKey

LEMMA NoOutcomeType ==
  NoOutcome \in [status : Status, key : Instant] /\ NoOutcome.key = NoKey
BY InstantTypes DEF NoOutcome, NoKey, Status

LEMMA MergeMissedType ==
  ASSUME NEW range \in Instant \X Instant, NEW from \in Instant, NEW through \in Instant
  PROVE  MergeMissed(range, from, through) \in Instant \X Instant
BY InstantTypes DEF MergeMissed

LEMMA InitialRecordType ==
  ASSUME NEW gen \in Generation \cup {NoGeneration}, NEW at \in Instant
  PROVE  InitialRecord(gen, at) \in Record
BY InstantTypes, NoClaimType, NoOutcomeType DEF InitialRecord, Record

LEMMA MaintainedReflexive ==
  ASSUME NEW r \in Record PROVE Maintained(r, r)
BY InstantTypes DEF Maintained, Record

LEMMA DropMaintains ==
  ASSUME NEW r \in Record, NEW n \in DropSettledClaim(r) PROVE Maintained(r, n)
BY InstantTypes, NoClaimType DEF DropSettledClaim, Maintained, Record

LEMMA MissedMaintains ==
  ASSUME NEW r \in Record, NEW from \in Instant, NEW through \in Instant,
         NEW n \in RecordMissed(from, through, r)
  PROVE  Maintained(r, n)
<1>1. MergeMissed(r.missed, from, through) \in Instant \X Instant
  BY MergeMissedType DEF Record
<1>2. through > r.watermark /\ r.watermark \in Instant
  BY InstantTypes DEF RecordMissed, Record
<1>3. n = [r EXCEPT !.watermark = through, !.issue = TRUE,
                    !.last = [status |-> "missed", key |-> through],
                    !.missed = MergeMissed(@, from, through)]
  BY DEF RecordMissed
<1>4. n \in Record
  BY <1>1, <1>3 DEF Record, Status
<1> QED BY <1>2, <1>3, <1>4, InstantTypes DEF Maintained, Record

LEMMA ReplaceScheduleMaintains ==
  ASSUME NEW r \in Record, NEW gen \in Generation, NEW at \in Instant,
         NEW n \in ReplaceSchedule(gen, at, r)
  PROVE  Maintained(r, n)
<1> DEFINE w == Later(r.watermark, at)
<1>1. w \in Instant /\ r.watermark <= w
  BY InstantTypes DEF Record
<1>2. MergeMissed(r.missed, r.watermark, w) \in Instant \X Instant
  BY <1>1, MergeMissedType DEF Record
<1>3. InitialRecord(gen, w) \in Record
  BY <1>1, InitialRecordType
<1>4. /\ r.active = NoClaim
      /\ n = [InitialRecord(gen, w) EXCEPT !.issue = TRUE, !.back = r.back,
                !.missed = MergeMissed(r.missed, r.watermark, w)]
  BY DEF ReplaceSchedule
<1> HIDE DEF w
<1> QED BY <1>1, <1>2, <1>3, <1>4, NoOutcomeType DEF Maintained, Record, InitialRecord

LEMMA RegressionMaintains ==
  ASSUME NEW r \in Record, NEW pair \in Instant \X Instant,
         NEW n \in RecordRestartRegression(pair, r) \cup RecordRegression(pair, r)
  PROVE  Maintained(r, n)
<1>1. n = [r EXCEPT !.issue = TRUE, !.back = pair]
  BY DEF RecordRestartRegression, RecordRegression
<1>2. n \in Record
  BY <1>1 DEF Record
<1>3. /\ n.watermark = r.watermark /\ n.active = r.active /\ n.last = r.last /\ n.issue
      /\ r.watermark \in Nat
  BY <1>1, InstantTypes DEF Record
<1> QED BY <1>2, <1>3 DEF Maintained

LEMMA UnknownMaintains ==
  ASSUME NEW r \in Record, NEW n \in RecordUnknown(r) PROVE Maintained(r, n)
<1>1. n = [r EXCEPT !.issue = TRUE]
  BY DEF RecordUnknown
<1>2. n \in Record
  BY <1>1 DEF Record
<1>3. /\ n.watermark = r.watermark /\ n.active = r.active /\ n.last = r.last /\ n.issue
      /\ r.watermark \in Nat
  BY <1>1, InstantTypes DEF Record
<1> QED BY <1>2, <1>3 DEF Maintained

LEMMA FirstRecordMaintains ==
  ASSUME NEW gen \in Generation, NEW at \in Instant
  PROVE  Maintained(NoRecord, InitialRecord(gen, at))
<1>1. InitialRecord(gen, at) \in Record
  BY InitialRecordType
<1> QED BY <1>1, InstantTypes, NoOutcomeType DEF Maintained, NoRecord, InitialRecord

---------------------------------------------------------------------------
(* The inductive invariant                                                 *)

PlacedOK == \A s \in Scheduler : Placed(local[s])

\* From admission on, a firing is one scheduler's, and the watermark has passed it.
Ahead == {"claim", "queued"}
Beyond == Stage \ {"none", "admit"}

ReservedOK ==
  \A s \in Scheduler, k \in Instant :
    inv[s][k].at \in Beyond =>
      /\ 0 < k /\ k <= store.watermark
      /\ \A t \in Scheduler : inv[t][k].at \in Beyond => t = s

EmitsOK ==
  \A k \in Instant :
    /\ emits[k] <= 1
    /\ emits[k] > 0 => k <= store.watermark
    /\ \A s \in Scheduler : inv[s][k].at \in Ahead => emits[k] = 0

\* A queue holds firings that wait there, each once.
QueueHolds(row, queue) ==
  \A i \in DOMAIN queue :
    /\ row[queue[i]].at = "queued"
    /\ \A j \in DOMAIN queue : queue[i] = queue[j] => i = j

QueueOK == \A s \in Scheduler : QueueHolds(inv[s], local[s].queue)

\* The firing a scheduler carries out was emitted.
ActiveOK == \A s \in Scheduler : local[s].active # NoKey => emits[local[s].active] > 0

\* A claim that a scheduler remembers is still the job's while it waits to emit.
ClaimOK ==
  \A s \in Scheduler, k \in Instant :
    inv[s][k].at = "claim" /\ local[s].cache.active = Claim(s, k) => store.active = Claim(s, k)

\* Nobody records an outcome of a firing that is not over.
OutcomeOK ==
  \A s \in Scheduler, k \in Instant :
    (inv[s][k].at \in Ahead \/ <<s, k>> \in flying) /\ store.last.key = k
      => store.last.status = "unknown"

\* An emission in flight holds the claim, and its scheduler has not let it go.
FlyingOK ==
  \A s \in Scheduler, k \in Instant :
    <<s, k>> \in flying =>
      /\ store.active = Claim(s, k)
      /\ inv[s][k].at \in {"emit", "land", "late"}
      /\ inv[s][k].at = "land" => inv[s][k].as = "unknown"
      /\ local[s].active = k /\ ~local[s].rel

\* The firings that are not over, but for those whose outcome could not be written.
Awaited == open \ untold
Unknown(k) == [status |-> "unknown", key |-> k]

\* Nobody believes in an issue that is not on record, and none is withdrawn.
IssueOK == \A s \in Scheduler : local[s].cache.issue => store.issue

OpenOK == \A k \in open : 0 < k /\ k <= store.watermark

\* Reserved, and not emitted.
Unemitted == {"claim", "queued", "unclaim", "settle"}
UnemittedOK == \A s \in Scheduler, k \in Instant : inv[s][k].at \in Unemitted => emits[k] = 0

\* While no issue is on record, the last outcome of a firing that is not over is
\* unknown; the firing has the record's last outcome or its claim ...
LastOK == ~store.issue /\ store.last.key \in open => store.last.status = "unknown"
HeldOK ==
  ~store.issue =>
    \A k \in Awaited : store.last = Unknown(k) \/ \E s \in Scheduler : store.active = Claim(s, k)

\* ... the claim if it is carried out, which is not to be released before it is
\* over, and the outcome if it was never emitted.
CarriedOK ==
  ~store.issue =>
    \A s \in Scheduler, k \in Awaited :
      local[s].active = k => store.active = Claim(s, k) /\ ~local[s].rel
EndedOK ==
  ~store.issue => \A s \in Scheduler, k \in Awaited : inv[s][k].at \notin {"late", "release"}
WaitingOK ==
  ~store.issue =>
    \A s \in Scheduler, k \in Awaited : inv[s][k].at \in Unemitted => store.last = Unknown(k)

Typed == TypeOK /\ PlacedOK /\ CurrentOK
Safe == ReservedOK /\ EmitsOK /\ QueueOK /\ ActiveOK /\ ClaimOK /\ OutcomeOK /\ FlyingOK
Told == /\ IssueOK /\ OpenOK /\ UnemittedOK
        /\ LastOK /\ HeldOK /\ CarriedOK /\ EndedOK /\ WaitingOK
Inv == Typed /\ Safe /\ Told

---------------------------------------------------------------------------
(* The steps that only maintain: the schedulers' starts and passes         *)

\* Such a step leaves what the scheduler carries out, has queued and is owed alone.
MaintenanceStep(s) ==
  /\ Maintained(store, store')
  /\ faults' \in 0..setup.faults
  /\ \A t \in current' : IF t = s THEN local'[s].cache = store'
                         ELSE t \in current /\ store' = store
  /\ local' = [local EXCEPT ![s] = local'[s]]
  /\ local'[s] \in Local /\ Placed(local'[s])
  /\ local'[s].cache \in {local[s].cache, store, store'}
  /\ local'[s].active = local[s].active /\ local'[s].rel = local[s].rel
  /\ local'[s].queue = local[s].queue
  /\ inv' = [inv EXCEPT ![s] = inv'[s]]
  /\ RowGrows(inv[s], inv'[s])
  /\ UNCHANGED <<world, host>>

LEMMA ScheduleType ==
  ASSUME TypeOK, NEW s \in Scheduler
  PROVE  /\ setup.schedule[s] \in Generation /\ setup.faults \in Nat
         /\ setup.commands \subseteq Instant
<1>1. setup \in Setup
  BY ScheduleAssumption DEF ScheduleAssumption, TypeOK
<1>2. 1..EndOfTime \subseteq Instant
  BY RecordAssumption DEF RecordAssumption, Instant
<1> QED BY <1>1, <1>2 DEF Setup

LEMMA LocalTypes ==
  ASSUME Typed, NEW s \in Scheduler
  PROVE  /\ local[s] \in Local /\ Placed(local[s]) /\ inv[s] \in Row
         /\ store \in Record /\ now \in Instant
         /\ local[s].cache \in Record
BY DEF Typed, TypeOK, PlacedOK, Row, Slot, Local

\* The mutation's effect on what the scheduler remembers.
LEMMA CachedKeeps ==
  ASSUME Typed, NEW s \in Scheduler, NEW o, o.cache \in Record
  PROVE  /\ Cached(s, o) \in Local /\ Placed(Cached(s, o))
         /\ Cached(s, o).cache = o.cache /\ Cached(s, o).rec = local[s].rec
         /\ Cached(s, o).active = local[s].active /\ Cached(s, o).rel = local[s].rel
         /\ Cached(s, o).queue = local[s].queue
<1> DEFINE l == [local[s] EXCEPT !.cache = o.cache]
<1>1. /\ l \in Local /\ l.rec = local[s].rec /\ l.cache = o.cache
      /\ l.active = local[s].active /\ l.rel = local[s].rel /\ l.queue = local[s].queue
  BY LocalTypes DEF Local
<1>2. Cached(s, o) = IF o.how = "fenced" THEN FenceScheduleGeneration(l) ELSE l
  BY DEF Cached
<1>3. Same(l, FenceScheduleGeneration(l)) /\ FenceScheduleGeneration(l).rec = l.rec
  BY <1>1, FlagKeeps DEF FenceScheduleGeneration, Local
<1> HIDE DEF l
<1>4. Placed(local[s])
  BY LocalTypes
<1> QED BY <1>1, <1>2, <1>3, <1>4 DEF Same, Placed

LEMMA CommitMaintains ==
  ASSUME Typed, NEW s \in Scheduler, NEW o, NEW writes, Effect(s, o, writes),
         \A n \in writes : Maintained(store, n), Commit(o)
  PROVE  /\ Maintained(store, store') /\ faults' \in 0..setup.faults
         /\ o.cache \in Record /\ o.cache \in {local[s].cache, store, store'}
         /\ \A t \in current' : IF t = s THEN o.cache = store'
                                ELSE t \in current /\ store' = store
<1>1. Maintained(store, store')
  BY LocalTypes, MaintainedReflexive DEF Effect, Commit
<1>2. faults' \in 0..setup.faults
  BY ScheduleType DEF Effect, Commit, Typed, TypeOK
<1> QED BY <1>1, <1>2, LocalTypes DEF Effect, Commit, Maintained

\* A step that writes and becomes what a pass makes of it.
LEMMA BecomeMaintains ==
  ASSUME Typed, NEW s \in Scheduler, NEW o, NEW writes, NEW b, Effect(s, o, writes),
         \A n \in writes : Maintained(store, n), Commit(o), Become(s, b),
         o.cache \in Record => Passes(Cached(s, o), inv[s], b), UNCHANGED <<world, host>>
  PROVE  MaintenanceStep(s)
<1>1. Passes(Cached(s, o), inv[s], b)
  BY CommitMaintains
<1>2. local'[s] = b.l /\ inv'[s] = b.row
  BY DEF Become, Typed, TypeOK
<1>3. /\ Maintained(store, store') /\ faults' \in 0..setup.faults
      /\ o.cache \in Record /\ o.cache \in {local[s].cache, store, store'}
      /\ \A t \in current' : IF t = s THEN o.cache = store'
                             ELSE t \in current /\ store' = store
  BY CommitMaintains
<1>4. /\ b.l.cache = o.cache /\ b.l.active = local[s].active /\ b.l.rel = local[s].rel
      /\ b.l.queue = local[s].queue /\ b.l \in Local /\ Placed(b.l) /\ RowGrows(inv[s], b.row)
  BY <1>1, <1>3, CachedKeeps DEF Passes, Kept, Same
<1> QED BY <1>2, <1>3, <1>4 DEF MaintenanceStep, Become

\* A step that writes nothing.
LEMMA QuietMaintains ==
  ASSUME Typed, NEW s \in Scheduler, NEW l, NEW row, Kept(local[s], l), RowGrows(inv[s], row),
         local' = [local EXCEPT ![s] = l], inv' = [inv EXCEPT ![s] = row],
         UNCHANGED <<world, disk, host>>
  PROVE  MaintenanceStep(s)
<1>1. local'[s] = l /\ inv'[s] = row
  BY DEF Typed, TypeOK
<1>2. Maintained(store, store) /\ faults \in 0..setup.faults
  BY LocalTypes, MaintainedReflexive DEF Typed, TypeOK
<1> QED BY <1>1, <1>2 DEF MaintenanceStep, Typed, CurrentOK, Kept, Same, disk

LEMMA StartMaintains ==
  ASSUME Typed, NEW s \in Scheduler, Start(s) PROVE MaintenanceStep(s)
<1> DEFINE l == [local[s] EXCEPT !.life = "starting", !.observed = now,
                                 !.rec = [Idle EXCEPT !.pc = "start", !.at = now]]
<1>1. Kept(local[s], l)
  <2> DEFINE at == [Idle EXCEPT !.pc = "start", !.at = now]
  <2>1. at \in PassType /\ at.pc = "start"
    BY IdleType, LocalTypes DEF PassType, Pc
  <2>2. l = [local[s] EXCEPT !.life = "starting", !.observed = now, !.rec = at]
    OBVIOUS
  <2> HIDE DEF at, l
  <2>3. local[s] \in Local
    BY LocalTypes
  <2>4. now \in Instant
    BY LocalTypes
  <2>5. l \in Local
    BY <2>1, <2>2, <2>3, <2>4 DEF Local, PassType
  <2> QED BY <2>1, <2>2, <2>3, <2>5 DEF Kept, Same, Placed, Local
<1>2. inv' = [inv EXCEPT ![s] = inv[s]] /\ RowGrows(inv[s], inv[s])
  BY LocalTypes DEF Start, RowGrows, Typed, TypeOK
<1> QED BY <1>1, <1>2, QuietMaintains DEF Start, Set

LEMMA StopReturnsMaintains ==
  ASSUME Typed, NEW s \in Scheduler, StopReturns(s) PROVE MaintenanceStep(s)
<1> DEFINE l == [local[s] EXCEPT !.life = "stopped"]
<1>1. Kept(local[s], l)
  BY LocalTypes DEF Kept, Same, Placed, Local
<1>2. inv' = [inv EXCEPT ![s] = inv[s]] /\ RowGrows(inv[s], inv[s])
  BY LocalTypes DEF StopReturns, RowGrows, Typed, TypeOK
<1> QED BY <1>1, <1>2, QuietMaintains DEF StopReturns, Set

LEMMA InvokeMaintains ==
  ASSUME Typed, NEW s \in Scheduler, NEW k \in Instant, Invoke(s, k) PROVE MaintenanceStep(s)
<1> DEFINE l == IF Refused(local[s]) THEN AfterRefusal(local[s]) ELSE local[s]
           row == IF Refused(local[s]) THEN inv[s]
                  ELSE [inv[s] EXCEPT ![k] = [at |-> "admit", as |-> "none"]]
<1>1. Kept(local[s], l)
  BY LocalTypes, AfterRefusalKeeps DEF Kept, Same
<1>2. RowGrows(inv[s], row)
  BY LocalTypes DEF Invoke, RowGrows, Row, Slot, Stage, Status
<1>3. local' = [local EXCEPT ![s] = l] /\ inv' = [inv EXCEPT ![s] = row]
  BY DEF Invoke, Set, Goto, Typed, TypeOK
<1> HIDE DEF l, row
<1> QED BY <1>1, <1>2, <1>3, QuietMaintains DEF Invoke

LEMMA TimerFiresMaintains ==
  ASSUME Typed, NEW s \in Scheduler, TimerFires(s) PROVE MaintenanceStep(s)
<1> DEFINE l == local[s]
           adjusting == [l EXCEPT
             !.timer = Off, !.unsettled = TRUE,
             !.back = IF @ = NoRange THEN <<l.observed, now>> ELSE @,
             !.rec = [Idle EXCEPT !.pc = "adjust", !.at = now, !.due = {l.timer}]]
<1>1. Kept(l, Requested(l))
  BY LocalTypes, RequestedKeeps
<1>2. ASSUME l.timer # Off, l.timer # Retry PROVE Kept(l, adjusting)
  <2>1. l.timer \in Instant \cup {EndOfTime + 1}
    <3>1. l.timer \in Timer
      BY LocalTypes DEF Local
    <3> QED BY <1>2, <3>1, RecordAssumption DEF RecordAssumption, Timer, Off, Retry, Instant
  <2> DEFINE at == [Idle EXCEPT !.pc = "adjust", !.at = now, !.due = {l.timer}]
  <2>2. at \in PassType /\ at.due # {}
    <3>1. {l.timer} \in SUBSET (Instant \cup {EndOfTime + 1})
      BY <2>1
    <3> QED BY <3>1, IdleType, LocalTypes DEF PassType, Pc
  <2>3. adjusting = [l EXCEPT
           !.timer = Off, !.unsettled = TRUE,
           !.back = IF @ = NoRange THEN <<l.observed, now>> ELSE @, !.rec = at]
    OBVIOUS
  <2>4. l \in Local /\ now \in Instant
    BY LocalTypes
  <2> HIDE DEF at, adjusting
  <2> DEFINE back == IF l.back = NoRange THEN <<l.observed, now>> ELSE l.back
  <2>5. back \in Instant \X Instant /\ Off \in Timer
    BY <2>4, TimerTypes DEF Local
  <2>6. adjusting = [l EXCEPT !.timer = Off, !.unsettled = TRUE, !.back = back, !.rec = at]
    BY <2>3
  <2> HIDE DEF back, l
  <2>7. adjusting \in Local /\ adjusting.rec = at
    BY <2>2, <2>4, <2>5, <2>6 DEF Local, PassType
  <2>8. Same(l, adjusting)
    BY <2>4, <2>7, <2>6 DEF Same, Local
  <2> QED BY <2>2, <2>7, <2>8 DEF Kept, Placed
<1>3. inv' = [inv EXCEPT ![s] = inv[s]] /\ RowGrows(inv[s], inv[s])
  BY LocalTypes DEF TimerFires, RowGrows, Typed, TypeOK
<1> QED BY <1>1, <1>2, <1>3, QuietMaintains DEF TimerFires, Set

LEMMA AdmissionReturnsMaintains ==
  ASSUME Typed, NEW s \in Scheduler, AdmissionReturns(s) PROVE MaintenanceStep(s)
<1>1. Passes(local[s], inv[s], Admitted(local[s], inv[s]))
  BY LocalTypes, AdmittedPasses DEF AdmissionReturns
<1> QED BY <1>1, QuietMaintains DEF AdmissionReturns, Become, Passes

LEMMA DropSettledMaintains ==
  ASSUME Typed, NEW s \in Scheduler, DropSettled(s) PROVE MaintenanceStep(s)
<1>1. PICK o \in Outcomes(s, DropSettledClaim(local[s].cache), DropSettledClaim(store), TRUE) :
        LET l == Cached(s, o)
            stay(x) == Both(x, inv[s])
        IN /\ Commit(o)
           /\ Become(s, IF local[s].rec.pc = "drop"
                          THEN stay(IF Did(o) THEN NextInit(s, l, "drop") ELSE StartFailed(l))
                        ELSE IF Did(o) THEN NextRec(s, l, inv[s], "settled")
                        ELSE stay(Finish(Failing(l))))
  BY DEF DropSettled, UpdateRecord, Outcomes
<1> DEFINE l == Cached(s, o)
           b == IF local[s].rec.pc = "drop"
                  THEN Both(IF Did(o) THEN NextInit(s, l, "drop") ELSE StartFailed(l), inv[s])
                ELSE IF Did(o) THEN NextRec(s, l, inv[s], "settled")
                ELSE Both(Finish(Failing(l)), inv[s])
<1>2. Effect(s, o, DropSettledClaim(store))
  BY OutcomeEffect DEF Typed, CurrentOK
<1>3. \A n \in DropSettledClaim(store) : Maintained(store, n)
  BY LocalTypes, DropMaintains
<1>4. ASSUME o.cache \in Record PROVE Passes(l, inv[s], b)
  <2>1. l \in Local /\ l.rec.pc # "adjust"
    BY <1>4, CachedKeeps DEF DropSettled
  <2>2. now \in Instant /\ inv[s] \in Row
    BY LocalTypes
  <2> HIDE DEF l
  <2>3. Passes(l, inv[s], NextRec(s, l, inv[s], "settled"))
    BY <2>1, <2>2, NextRecPasses
  <2>4. Kept(l, NextInit(s, l, "drop")) /\ Kept(l, StartFailed(l))
    BY <2>1, NextInitKeeps, StartFailedKeeps
  <2>5. Kept(l, Finish(Failing(l)))
    BY <2>1, <2>2, FlagKeeps, FinishKeeps, KeptTransitive DEF Same
  <2> QED BY <2>2, <2>3, <2>4, <2>5 DEF Passes, Both, RowGrows
<1>5. Commit(o) /\ Become(s, b) /\ UNCHANGED <<world, host>>
  BY <1>1 DEF DropSettled
<1> HIDE DEF b, l
<1> QED BY <1>2, <1>3, <1>4, <1>5, BecomeMaintains DEF l

LEMMA ReplaceMaintains ==
  ASSUME Typed, NEW s \in Scheduler, Replace(s) PROVE MaintenanceStep(s)
<1> DEFINE gen == setup.schedule[s]
           at == local[s].rec.at
           Wants(r) == ReplaceSchedule(gen, at, r)
           After(o, c) ==
             LET blocked == c.cache.gen # gen
                 l == [c EXCEPT !.transition = blocked, !.foreign = blocked,
                                !.unsettled = blocked \/ (@ /\ c.cache.issue)]
                 stay(x) == Both(x, inv[s])
             IN IF local[s].rec.pc = "replace"
                  THEN stay(IF Did(o) THEN NextInit(s, l, "replace") ELSE StartFailed(c))
                ELSE IF ~Did(o) THEN stay(Finish(Failing(c)))
                ELSE IF blocked THEN stay(Finish(l))
                ELSE NextRec(s, l, inv[s], "transition")
<1>1. PICK o \in Outcomes(s, Wants(local[s].cache), Wants(store), TRUE) :
        Commit(o) /\ Become(s, After(o, Cached(s, o)))
  <2>1. \A o \in UpdateRecord(s, Wants, TRUE) :
          o \in Outcomes(s, Wants(local[s].cache), Wants(store), TRUE)
    BY DEF UpdateRecord, Outcomes
  <2>2. \E o \in UpdateRecord(s, Wants, TRUE) : Commit(o) /\ Become(s, After(o, Cached(s, o)))
    BY Zenon DEF Replace, UpdateRecord
  <2> QED BY <2>1, <2>2, Zenon DEF UpdateRecord
<1> DEFINE c == Cached(s, o)
<1>2. Effect(s, o, Wants(store))
  BY OutcomeEffect DEF Typed, CurrentOK
<1>3. \A n \in Wants(store) : Maintained(store, n)
  <2>1. gen \in Generation /\ at \in Instant
    BY ScheduleType, LocalTypes DEF Typed, Local
  <2> QED BY <2>1, LocalTypes, ReplaceScheduleMaintains
<1>4. ASSUME o.cache \in Record PROVE Passes(c, inv[s], After(o, c))
  <2>1. c \in Local /\ c.rec.pc # "adjust"
    BY <1>4, CachedKeeps DEF Replace
  <2>2. now \in Instant /\ inv[s] \in Row
    BY LocalTypes
  <2> HIDE DEF c
  <2> DEFINE blocked == c.cache.gen # gen
             issue == blocked \/ (c.unsettled /\ c.cache.issue)
             l == [c EXCEPT !.transition = blocked, !.foreign = blocked, !.unsettled = issue]
  <2>3. Same(c, l) /\ l.rec.pc # "adjust"
    <3>1. blocked \in BOOLEAN /\ issue \in BOOLEAN
      OBVIOUS
    <3> HIDE DEF blocked, issue
    <3> QED BY <2>1, <3>1 DEF Same, Local
  <2> HIDE DEF l
  <2>4. Passes(c, inv[s], NextRec(s, l, inv[s], "transition"))
    BY <2>2, <2>3, NextRecPasses, KeptTransitive DEF Passes, Same
  <2>5. Kept(c, NextInit(s, l, "replace")) /\ Kept(c, StartFailed(c)) /\ Kept(c, Finish(l))
    BY <2>1, <2>2, <2>3, NextInitKeeps, StartFailedKeeps, FinishKeeps, KeptTransitive DEF Same
  <2>6. Kept(c, Finish(Failing(c)))
    BY <2>1, <2>2, FlagKeeps, FinishKeeps, KeptTransitive DEF Same
  <2> QED BY <2>2, <2>4, <2>5, <2>6 DEF Passes, Both, RowGrows, l
<1>5. Commit(o) /\ Become(s, After(o, c)) /\ UNCHANGED <<world, host>>
  BY <1>1 DEF Replace
<1> HIDE DEF c, After, Wants
<1> QED BY <1>2, <1>3, <1>4, <1>5, BecomeMaintains DEF c

\* A step of the start becomes what it sets, and moves no firing.
LEMMA SetMaintains ==
  ASSUME Typed, NEW s \in Scheduler, NEW o, NEW writes, NEW l, Effect(s, o, writes),
         \A n \in writes : Maintained(store, n), Commit(o), Set(s, l),
         o.cache \in Record => Kept(Cached(s, o), l), UNCHANGED <<world, inv, host>>
  PROVE  MaintenanceStep(s)
<1>1. Become(s, Both(l, inv[s]))
  BY DEF Become, Both, Set, Typed, TypeOK
<1>2. o.cache \in Record => Passes(Cached(s, o), inv[s], Both(l, inv[s]))
  BY LocalTypes DEF Passes, Both, RowGrows
<1> QED BY <1>1, <1>2, BecomeMaintains

LEMMA RestartRegressionMaintains ==
  ASSUME Typed, NEW s \in Scheduler, RestartRegression(s) PROVE MaintenanceStep(s)
<1> DEFINE pair == <<local[s].cache.watermark, local[s].rec.at>>
           Wants(r) == RecordRestartRegression(pair, r)
<1>1. PICK o \in Outcomes(s, Wants(local[s].cache), Wants(store), FALSE) :
        /\ Commit(o)
        /\ Set(s, IF Did(o) THEN Rec(Cached(s, o), "unknown") ELSE StartFailed(Cached(s, o)))
  BY DEF RestartRegression, UpdateRecord, Outcomes
<1>2. Effect(s, o, Wants(store))
  BY OutcomeEffect DEF Typed, CurrentOK
<1>3. \A n \in Wants(store) : Maintained(store, n)
  <2>1. pair \in Instant \X Instant
    BY LocalTypes DEF Local, Record
  <2> QED BY <2>1, LocalTypes, RegressionMaintains
<1>4. ASSUME o.cache \in Record, NEW c, c = Cached(s, o)
      PROVE  Kept(c, IF Did(o) THEN Rec(c, "unknown") ELSE StartFailed(c))
  BY <1>4, CachedKeeps, RecKeeps, StartFailedKeeps DEF Pc
<1> HIDE DEF Wants
<1> QED BY <1>1, <1>2, <1>3, <1>4, SetMaintains DEF RestartRegression

LEMMA RecoverUnknownMaintains ==
  ASSUME Typed, NEW s \in Scheduler, RecoverUnknown(s) PROVE MaintenanceStep(s)
<1> DEFINE waits == [local[s] EXCEPT !.foreign = TRUE, !.unsettled = TRUE]
<1>1. now \in Instant /\ local[s] \in Local
  BY LocalTypes
<1>2. inv' = [inv EXCEPT ![s] = inv[s]] /\ RowGrows(inv[s], inv[s])
  BY LocalTypes DEF RecoverUnknown, RowGrows, Typed, TypeOK
<1>3. CASE Set(s, Running(local[s])) /\ UNCHANGED disk
  BY <1>1, <1>2, <1>3, RunningKeeps, QuietMaintains DEF RecoverUnknown, Set
<1>4. CASE Set(s, Running(waits)) /\ UNCHANGED disk
  <2>1. Same(local[s], waits)
    BY <1>1 DEF Same, Local
  <2>2. Kept(local[s], Running(waits))
    BY <1>1, <2>1, RunningKeeps, KeptTransitive DEF Same
  <2> QED BY <1>2, <1>4, <2>2, QuietMaintains DEF RecoverUnknown, Set
<1>5. CASE \E o \in UpdateRecord(s, RecordUnknown, FALSE) :
             /\ Commit(o)
             /\ Set(s, IF Did(o) THEN Running(Cached(s, o)) ELSE StartFailed(Cached(s, o)))
  <2>1. PICK o \in Outcomes(s, RecordUnknown(local[s].cache), RecordUnknown(store), FALSE) :
          /\ Commit(o)
          /\ Set(s, IF Did(o) THEN Running(Cached(s, o)) ELSE StartFailed(Cached(s, o)))
    BY <1>5 DEF UpdateRecord, Outcomes
  <2>2. Effect(s, o, RecordUnknown(store))
    BY OutcomeEffect DEF Typed, CurrentOK
  <2>3. \A n \in RecordUnknown(store) : Maintained(store, n)
    BY LocalTypes, UnknownMaintains
  <2>4. ASSUME o.cache \in Record, NEW c, c = Cached(s, o)
        PROVE  Kept(c, IF Did(o) THEN Running(c) ELSE StartFailed(c))
    BY <1>1, <2>4, CachedKeeps, RunningKeeps, StartFailedKeeps
  <2> QED BY <2>1, <2>2, <2>3, <2>4, SetMaintains DEF RecoverUnknown
<1> QED BY <1>3, <1>4, <1>5 DEF RecoverUnknown

LEMMA ReadAtStartMaintains ==
  ASSUME Typed, NEW s \in Scheduler, ReadAtStart(s) PROVE MaintenanceStep(s)
<1>1. now \in Instant /\ local[s] \in Local /\ Placed(local[s]) /\ store \in Record
  BY LocalTypes
<1>2. ASSUME NEW r \in Record, NEW l,
             Set(s, l), Kept([local[s] EXCEPT !.cache = r], l), r = store', s \in current',
             Maintained(store, store'),
             \A t \in current' : t = s \/ (t \in current /\ store' = store)
      PROVE  MaintenanceStep(s)
  <2> DEFINE c == [local[s] EXCEPT !.cache = r]
  <2>1. /\ c.cache = r /\ c.active = local[s].active
        /\ c.rel = local[s].rel /\ c.queue = local[s].queue
    BY <1>1 DEF Local
  <2>2. /\ l \in Local /\ Placed(l) /\ l.cache = r /\ l.active = local[s].active
        /\ l.rel = local[s].rel /\ l.queue = local[s].queue
    BY <1>2, <2>1 DEF Kept, Same
  <2>3. local'[s] = l /\ local' = [local EXCEPT ![s] = l]
    BY <1>2 DEF Set, Typed, TypeOK
  <2>4. inv' = [inv EXCEPT ![s] = inv'[s]] /\ RowGrows(inv[s], inv'[s])
    BY LocalTypes DEF ReadAtStart, RowGrows, Typed, TypeOK
  <2>5. faults' \in 0..setup.faults /\ UNCHANGED <<world, host>>
    BY DEF ReadAtStart, Typed, TypeOK
  <2> QED BY <1>2, <2>2, <2>3, <2>4, <2>5 DEF MaintenanceStep
<1>3. CASE store = NoRecord
  <2> DEFINE first == InitialRecord(setup.schedule[s], local[s].rec.at)
             c == [local[s] EXCEPT !.cache = first]
  <2>1. setup.schedule[s] \in Generation /\ local[s].rec.at \in Instant
    BY <1>1, ScheduleType DEF Typed, Local
  <2>2. first \in Record /\ Maintained(store, first)
    BY <1>3, <2>1, InitialRecordType, FirstRecordMaintains
  <2>3. store' = first /\ current' = {s} /\ Set(s, Running(c))
    BY <1>3 DEF ReadAtStart
  <2> HIDE DEF first
  <2>4. c \in Local
    BY <1>1, <2>2 DEF Local
  <2> QED BY <1>1, <1>2, <2>2, <2>3, <2>4, RunningKeeps
<1>4. CASE store # NoRecord
  <2> DEFINE c == [local[s] EXCEPT !.cache = store]
  <2>1. store' = store /\ current' = current \cup {s} /\ Set(s, NextInit(s, c, "start"))
    BY <1>4 DEF ReadAtStart
  <2>2. c \in Local
    BY <1>1 DEF Local
  <2>3. Maintained(store, store')
    BY <1>1, <2>1, MaintainedReflexive
  <2> QED BY <1>1, <1>2, <2>1, <2>2, <2>3, NextInitKeeps
<1> QED BY <1>3, <1>4

LEMMA RefreshMaintains ==
  ASSUME Typed, NEW s \in Scheduler, Refresh(s) PROVE MaintenanceStep(s)
<1> DEFINE l == [local[s] EXCEPT !.cache = store]
           b == IF ~l.transition /\ store.gen # setup.schedule[s]
                  THEN Both(Finish(FenceScheduleGeneration(l)), inv[s])
                ELSE NextRec(s, l, inv[s], "refresh")
           down == Both(Finish(Failing(local[s])), inv[s])
<1>1. /\ now \in Instant /\ local[s] \in Local /\ store \in Record /\ inv[s] \in Row
      /\ local[s].rec.pc # "adjust"
  BY LocalTypes DEF Refresh
<1>2. /\ l \in Local /\ l.rec.pc # "adjust" /\ l.cache = store
      /\ l.active = local[s].active /\ l.rel = local[s].rel /\ l.queue = local[s].queue
  BY <1>1 DEF Local
<1> HIDE DEF l
<1>3. Passes(l, inv[s], b)
  <2>1. Kept(l, Finish(FenceScheduleGeneration(l)))
    BY <1>1, <1>2, FlagKeeps, FinishKeeps, KeptTransitive DEF Same
  <2>2. Passes(l, inv[s], NextRec(s, l, inv[s], "refresh"))
    BY <1>1, <1>2, NextRecPasses
  <2> QED BY <1>1, <2>1, <2>2 DEF Passes, Both, RowGrows
<1>4. Passes(local[s], inv[s], down)
  <2>1. Kept(local[s], Finish(Failing(local[s])))
    BY <1>1, FlagKeeps, FinishKeeps, KeptTransitive DEF Same
  <2> QED BY <1>1, <2>1 DEF Passes, Both, RowGrows
<1>5. Maintained(store, store)
  BY <1>1, MaintainedReflexive
<1>6. CASE current' = current \cup {s} /\ UNCHANGED <<store, faults>> /\ Become(s, b)
  <2>1. local'[s] = b.l /\ inv'[s] = b.row /\ faults' \in 0..setup.faults
    BY <1>6 DEF Become, Typed, TypeOK
  <2> HIDE DEF b
  <2> QED BY <1>2, <1>3, <1>5, <1>6, <2>1
          DEF MaintenanceStep, Become, Passes, Kept, Same, Refresh
<1>7. CASE /\ faults < setup.faults /\ faults' = faults + 1
           /\ UNCHANGED <<store, current>> /\ Become(s, down)
  <2>1. local'[s] = down.l /\ inv'[s] = down.row /\ faults' \in 0..setup.faults
    BY <1>7, ScheduleType DEF Become, Typed, TypeOK
  <2> HIDE DEF down
  <2> QED BY <1>4, <1>5, <1>7, <2>1
          DEF MaintenanceStep, Become, Passes, Kept, Same, Refresh, Typed, CurrentOK
<1> QED BY <1>6, <1>7 DEF Refresh, l

LEMMA RecordClockMaintains ==
  ASSUME Typed, NEW s \in Scheduler, RecordClock(s) PROVE MaintenanceStep(s)
<1> DEFINE Wants(r) == RecordRegression(local[s].back, r)
           Seen(c) == [c EXCEPT !.observed = c.rec.at, !.back = NoRange]
           Ok(c) == IF HasPendingDurableRepair(Seen(c)) THEN Seen(c)
                    ELSE [Seen(c) EXCEPT !.failing = FALSE]
           Target(c) == CHOOSE t \in c.rec.due : TRUE
           After(o, c) ==
             IF ~Did(o) THEN Both(Finish(Failing(c)), inv[s])
             ELSE IF c.rec.pc = "clock" THEN Decide(s, Ok(c), inv[s])
             ELSE Both(IF c.life # "running" \/ c.rec.again THEN Finish(Ok(c))
                       ELSE [Ok(c) EXCEPT !.rec = Idle, !.timer = Target(c)], inv[s])
<1>1. PICK o \in Outcomes(s, Wants(local[s].cache), Wants(store), FALSE) :
        Commit(o) /\ Become(s, After(o, Cached(s, o)))
  <2>1. \A o \in UpdateRecord(s, Wants, FALSE) :
          o \in Outcomes(s, Wants(local[s].cache), Wants(store), FALSE)
    BY DEF UpdateRecord, Outcomes
  <2>2. \E o \in UpdateRecord(s, Wants, FALSE) : Commit(o) /\ Become(s, After(o, Cached(s, o)))
    BY Zenon DEF RecordClock, UpdateRecord
  <2> QED BY <2>1, <2>2 DEF UpdateRecord
<1> DEFINE c == Cached(s, o)
<1>2. Effect(s, o, Wants(store))
  BY OutcomeEffect DEF Typed, CurrentOK
<1>3. \A n \in Wants(store) : Maintained(store, n)
  <2>1. local[s].back \in Instant \X Instant
    BY LocalTypes DEF Local
  <2> QED BY <2>1, LocalTypes, RegressionMaintains
<1>4. ASSUME o.cache \in Record PROVE Passes(c, inv[s], After(o, c))
  <2>1. c \in Local /\ Placed(c) /\ c.rec.pc \in {"clock", "adjust"}
    BY <1>4, CachedKeeps DEF RecordClock
  <2>2. now \in Instant /\ inv[s] \in Row
    BY LocalTypes
  <2> HIDE DEF c
  <2>3. Same(c, Ok(c)) /\ Ok(c).rec = c.rec
    <3>1. Same(c, Seen(c)) /\ Seen(c).rec = c.rec
      BY <2>1, InstantTypes DEF Same, Local
    <3>2. Same(Seen(c), [Seen(c) EXCEPT !.failing = FALSE])
      BY <3>1 DEF Same, Local
    <3>3. [Seen(c) EXCEPT !.failing = FALSE].rec = c.rec
      BY <3>1 DEF Same, Local
    <3> HIDE DEF Seen
    <3> QED BY <3>1, <3>2, <3>3 DEF Same
  <2> HIDE DEF Ok
  <2>4. c.rec.pc = "clock" => Passes(c, inv[s], Decide(s, Ok(c), inv[s]))
    BY <2>2, <2>3, DecidePasses, KeptTransitive DEF Passes, Same
  <2>5. Kept(c, Finish(Failing(c))) /\ Kept(c, Finish(Ok(c)))
    BY <2>1, <2>2, <2>3, FlagKeeps, FinishKeeps, KeptTransitive DEF Same
  <2>6. c.rec.pc = "adjust" => Kept(c, [Ok(c) EXCEPT !.rec = Idle, !.timer = Target(c)])
    <3>1. c.rec.pc = "adjust" => Target(c) \in c.rec.due
      BY <2>1 DEF Placed
    <3>2. c.rec.due \subseteq Timer
      BY <2>1, RecordAssumption DEF RecordAssumption, Local, Timer, Off, Retry, Instant
    <3> HIDE DEF Target
    <3>3. Kept(Ok(c), [Ok(c) EXCEPT !.rec = Idle])
      BY <2>3, IdleKeeps DEF Same
    <3>4. \A l \in Local, t \in Timer : Same(l, [l EXCEPT !.rec = Idle, !.timer = t])
                                        /\ [l EXCEPT !.rec = Idle, !.timer = t].rec = Idle
      BY IdleType DEF Same, Local, PassType
    <3> QED BY <2>3, <3>1, <3>2, <3>4, IdleType DEF Kept, Same, Placed
  <2> QED BY <2>1, <2>2, <2>4, <2>5, <2>6 DEF Passes, Both, RowGrows
<1>5. Commit(o) /\ Become(s, After(o, c)) /\ UNCHANGED <<world, host>>
  BY <1>1 DEF RecordClock
<1> HIDE DEF c, After, Wants
<1> QED BY <1>2, <1>3, <1>4, <1>5, BecomeMaintains DEF c

LEMMA GiveUpMissedMaintains ==
  ASSUME Typed, NEW s \in Scheduler, GiveUpMissed(s) PROVE MaintenanceStep(s)
<1> DEFINE range == local[s].rec.missed
           Wants(r) == RecordMissed(range[1], range[2], r)
           Clear(c) == [c EXCEPT !.rec.missed = NoRange]
           After(o, l) == IF ~Did(o) THEN Both(Finish(Failing(l)), inv[s])
                          ELSE IF l.rec.due = {} THEN Both(Finish(l), inv[s])
                          ELSE AdmitNext(l, inv[s])
<1>1. PICK o \in Outcomes(s, Wants(local[s].cache), Wants(store), FALSE) :
        Commit(o) /\ Become(s, After(o, Clear(Cached(s, o))))
  BY DEF GiveUpMissed, UpdateRecord, Outcomes
<1> DEFINE c == Cached(s, o)
<1>2. Effect(s, o, Wants(store))
  BY OutcomeEffect DEF Typed, CurrentOK
<1>3. \A n \in Wants(store) : Maintained(store, n)
  <2>1. range[1] \in Instant /\ range[2] \in Instant
    BY LocalTypes DEF Local
  <2> QED BY <2>1, LocalTypes, MissedMaintains
<1>4. ASSUME o.cache \in Record PROVE Passes(c, inv[s], After(o, Clear(c)))
  <2>1. c \in Local /\ c.rec.pc # "adjust"
    BY <1>4, CachedKeeps DEF GiveUpMissed
  <2>2. now \in Instant /\ inv[s] \in Row
    BY LocalTypes
  <2> HIDE DEF c
  <2> DEFINE l == Clear(c)
  <2>3. Same(c, l) /\ l.rec.pc # "adjust"
    BY <2>1, InstantTypes DEF Same, Local
  <2> HIDE DEF l
  <2>4. Kept(c, Finish(Failing(l))) /\ Kept(c, Finish(l))
    BY <2>2, <2>3, FlagKeeps, FinishKeeps, KeptTransitive DEF Same
  <2>5. Passes(c, inv[s], AdmitNext(l, inv[s]))
    BY <2>2, <2>3, AdmitNextPasses, KeptTransitive DEF Passes, Same
  <2> QED BY <2>2, <2>4, <2>5 DEF Passes, Both, RowGrows, l
<1>5. Commit(o) /\ Become(s, After(o, Clear(c))) /\ UNCHANGED <<world, host>>
  BY <1>1 DEF GiveUpMissed
<1> HIDE DEF c, After, Wants, Clear
<1> QED BY <1>2, <1>3, <1>4, <1>5, BecomeMaintains DEF c

---------------------------------------------------------------------------
(* What keeps a firing from being forgotten                                *)

\* What a scheduler's step may do, short of a reservation or a new emission, so that
\* every firing that is not over stays accounted for.
Accounts(s) ==
  /\ store.issue => store'.issue
  /\ store.watermark <= store'.watermark
  /\ open' \subseteq open /\ untold \subseteq untold' /\ emits' = emits
  /\ local'[s].cache.issue => local[s].cache.issue \/ store'.issue
  /\ \A k \in Instant : inv'[s][k].at \in Unemitted => inv[s][k].at \in Unemitted
  /\ ~store'.issue =>
       /\ \/ store'.last = store.last
          \/ store'.last.key \in open' => store'.last.status = "unknown"
       /\ \A k \in open' \ untold' :
            /\ store.last = Unknown(k) => store'.last = Unknown(k)
            /\ \A t \in Scheduler : store.active = Claim(t, k) =>
                 \/ store'.active = Claim(t, k)
                 \/ store'.last = Unknown(k) /\ local'[t].active # k
            /\ inv'[s][k].at \in {"late", "release"} => inv[s][k].at \in {"late", "release"}
            /\ local'[s].active = k => local[s].active = k /\ (local'[s].rel => local[s].rel)

LEMMA AccountsTold ==
  ASSUME Inv, NEW s \in Scheduler, Accounts(s), store' \in Record,
         local' = [local EXCEPT ![s] = local'[s]], inv' = [inv EXCEPT ![s] = inv'[s]]
  PROVE  Told'
<1>1. /\ \A t \in Scheduler : t # s => local'[t] = local[t] /\ inv'[t] = inv[t]
      /\ open \subseteq Instant /\ open' \subseteq open /\ untold \subseteq untold'
      /\ store.watermark \in Nat /\ store'.watermark \in Nat /\ emits' = emits
      /\ store.issue => store'.issue
  BY InstantTypes DEF Accounts, Inv, Typed, TypeOK, Record
<1>2. IssueOK'
  BY <1>1 DEF IssueOK, Accounts, Inv, Told
<1>3. OpenOK'
  <2> SUFFICES ASSUME NEW k \in open' PROVE 0 < k /\ k <= store'.watermark
    BY DEF OpenOK
  <2>1. 0 < k /\ k <= store.watermark /\ k \in Nat
    BY <1>1, InstantTypes DEF OpenOK, Inv, Told
  <2> QED BY <1>1, <2>1 DEF Accounts
<1>4. /\ \A t \in Scheduler, k \in Instant :
           inv'[t][k].at \in Unemitted => inv[t][k].at \in Unemitted
      /\ UnemittedOK'
  <2>1. \A t \in Scheduler, k \in Instant :
          inv'[t][k].at \in Unemitted => inv[t][k].at \in Unemitted
    BY <1>1 DEF Accounts
  <2> QED BY <1>1, <2>1 DEF UnemittedOK, Inv, Told
<1>5. ASSUME ~store'.issue
      PROVE  /\ store'.last.key \in open' => store'.last.status = "unknown"
             /\ \A k \in open' \ untold' :
                  /\ \/ store'.last = Unknown(k)
                     \/ \E t \in Scheduler : store'.active = Claim(t, k)
                  /\ \A t \in Scheduler :
                       /\ local'[t].active = k => store'.active = Claim(t, k) /\ ~local'[t].rel
                       /\ inv'[t][k].at \notin {"late", "release"}
                       /\ inv'[t][k].at \in Unemitted => store'.last = Unknown(k)
  <2>1. ~store.issue
    BY <1>1, <1>5
  <2>2. store'.last.key \in open' => store'.last.status = "unknown"
    BY <1>1, <1>5, <2>1 DEF Accounts, LastOK, Inv, Told
  <2>3. ASSUME NEW k \in open' \ untold'
        PROVE  /\ k \in Awaited /\ k \in Instant
               /\ store.last = Unknown(k) => store'.last = Unknown(k)
               /\ \A t \in Scheduler : store.active = Claim(t, k) =>
                    \/ store'.active = Claim(t, k)
                    \/ store'.last = Unknown(k) /\ local'[t].active # k
               /\ \A t \in Scheduler :
                    /\ inv'[t][k].at \in {"late", "release"} => inv[t][k].at \in {"late", "release"}
                    /\ local'[t].active = k =>
                         local[t].active = k /\ (local'[t].rel => local[t].rel)
    BY <1>1, <1>5 DEF Accounts, Awaited
  <2>4. ASSUME NEW k \in open' \ untold', NEW t \in Scheduler
        PROVE  /\ local'[t].active = k => store'.active = Claim(t, k) /\ ~local'[t].rel
               /\ inv'[t][k].at \notin {"late", "release"}
               /\ inv'[t][k].at \in Unemitted => store'.last = Unknown(k)
    <3>1. /\ local[t].active = k => store.active = Claim(t, k) /\ ~local[t].rel
          /\ inv[t][k].at \notin {"late", "release"}
          /\ inv[t][k].at \in Unemitted => store.last = Unknown(k)
      BY <2>1, <2>3 DEF CarriedOK, EndedOK, WaitingOK, Inv, Told
    <3> QED BY <1>4, <2>3, <3>1
  <2>5. ASSUME NEW k \in open' \ untold'
        PROVE  \/ store'.last = Unknown(k)
               \/ \E t \in Scheduler : store'.active = Claim(t, k)
    BY <2>1, <2>3 DEF HeldOK, Inv, Told
  <2> QED BY <2>2, <2>4, <2>5
<1>6. LastOK' /\ HeldOK' /\ CarriedOK' /\ EndedOK' /\ WaitingOK'
  BY <1>5 DEF LastOK, HeldOK, CarriedOK, EndedOK, WaitingOK, Awaited, Unknown
<1> QED BY <1>2, <1>3, <1>4, <1>6 DEF Told

LEMMA OpenInstants ==
  ASSUME Inv PROVE open \subseteq Instant /\ NoKey \notin open
BY DEF OpenOK, NoKey, Inv, Told, Typed, TypeOK

\* What was reserved and not emitted, nobody carries out.
LEMMA UnemittedFacts ==
  ASSUME Inv, NEW s \in Scheduler, NEW k \in Instant, inv[s][k].at \in Unemitted
  PROVE  emits[k] = 0 /\ \A t \in Scheduler : local[t].active # k
<1>1. emits[k] = 0
  BY DEF UnemittedOK, Inv, Told
<1>2. k # NoKey
  BY DEF ReservedOK, Inv, Safe, Unemitted, Beyond, Stage, NoKey
<1> QED BY <1>1, <1>2 DEF ActiveOK, Inv, Safe

\* A record that is kept: its issue, and the outcome and the claim of what is awaited.
LEMMA MaintainedAccounts ==
  ASSUME Inv, Maintained(store, store'), ~store'.issue
  PROVE  /\ store'.last = store.last
         /\ \A k \in Awaited, t \in Scheduler :
              store.active = Claim(t, k) => store'.active = Claim(t, k)
<1>1. store'.last = store.last /\ ~store.issue
  BY DEF Maintained
<1>2. ASSUME NEW k \in Awaited, NEW t \in Scheduler, store.active = Claim(t, k)
      PROVE  ~HasDefinitivelySettledActive(store)
  BY <1>1, <1>2 DEF HasDefinitivelySettledActive, Awaited, LastOK, Claim, Inv, Told
<1> QED BY <1>1, <1>2 DEF Maintained

---------------------------------------------------------------------------
(* A step that only maintains preserves the invariant                      *)

LEMMA MaintenanceTyped ==
  ASSUME Typed, NEW s \in Scheduler, MaintenanceStep(s) PROVE Typed'
<1>1. /\ local' \in [Scheduler -> Local] /\ \A t \in Scheduler : Placed(local'[t])
      /\ inv' \in [Scheduler -> Row]
  <2>1. local \in [Scheduler -> Local] /\ inv \in [Scheduler -> Row]
    BY DEF Typed, TypeOK, Row, Slot
  <2> QED BY <2>1 DEF MaintenanceStep, RowGrows, Typed, PlacedOK
<1>2. /\ setup' \in Setups /\ now' \in Instant /\ backSteps' \in 0..setup'.backSteps
      /\ faults' \in 0..setup'.faults /\ store' \in Record
      /\ flying' \subseteq Scheduler \X Instant /\ emits' \in [Instant -> Nat]
      /\ open' \subseteq Instant /\ untold' \subseteq Instant
  BY DEF MaintenanceStep, Maintained, Typed, TypeOK, world, host
<1>3. CurrentOK' /\ current' \subseteq Scheduler
  <2>1. \A t \in current' : t = s \/ (t \in current /\ store' = store)
    BY DEF MaintenanceStep
  <2>2. \A t \in current : t # s => local'[t] = local[t] /\ local[t].cache = store
    BY DEF MaintenanceStep, Typed, TypeOK, CurrentOK
  <2>3. current' \subseteq Scheduler
    BY <2>1 DEF Typed, TypeOK
  <2> QED BY <2>1, <2>2, <2>3 DEF MaintenanceStep, CurrentOK
<1> QED BY <1>1, <1>2, <1>3 DEF Typed, TypeOK, PlacedOK, Placed, Row, Slot

LEMMA MaintenanceSafe ==
  ASSUME Inv, NEW s \in Scheduler, MaintenanceStep(s) PROVE Safe'
<1>1. /\ store \in Record /\ store' \in Record /\ local \in [Scheduler -> Local]
      /\ inv \in [Scheduler -> Row] /\ emits \in [Instant -> Nat]
      /\ flying \subseteq Scheduler \X Instant
      /\ store.watermark \in Nat /\ store'.watermark \in Nat
  BY InstantTypes DEF Inv, Typed, TypeOK, Row, Slot, MaintenanceStep, Maintained, Record
<1>2. /\ store.watermark <= store'.watermark
      /\ store'.active = store.active
           \/ (store'.active = NoClaim /\ HasDefinitivelySettledActive(store))
      /\ store'.last = store.last \/ store'.last.key > store.watermark \/ store'.last.key = NoKey
  BY DEF MaintenanceStep, Maintained
<1>3. /\ \A t \in Scheduler :
           /\ local'[t].active = local[t].active /\ local'[t].rel = local[t].rel
           /\ local'[t].queue = local[t].queue
           /\ local'[t].cache \in {local[t].cache, store, store'}
      /\ emits' = emits /\ flying' = flying
  BY <1>1 DEF MaintenanceStep, host
<1>4. \A t \in Scheduler, k \in Instant :
        inv'[t][k] = inv[t][k] \/ (inv[t][k] = Nowhere /\ inv'[t][k].at = "admit")
  <2>1. RowGrows(inv[s], inv'[s]) /\ inv' = [inv EXCEPT ![s] = inv'[s]]
    BY DEF MaintenanceStep
  <2>2. \A t \in Scheduler : t # s => inv'[t] = inv[t]
    BY <1>1, <2>1
  <2> HIDE DEF MaintenanceStep
  <2> QED BY <2>1, <2>2 DEF RowGrows
<1>5. \A t \in Scheduler, k \in Instant :
        inv'[t][k].at \in Beyond => inv[t][k].at \in Beyond /\ inv'[t][k] = inv[t][k]
  BY <1>4 DEF Beyond
<1>6. Ahead \subseteq Beyond /\ "emit" \in Beyond /\ "land" \in Beyond /\ "late" \in Beyond
  BY DEF Ahead, Beyond, Stage
<1>7. ReservedOK'
  <2> SUFFICES ASSUME NEW t \in Scheduler, NEW k \in Instant, inv'[t][k].at \in Beyond
               PROVE  /\ 0 < k /\ k <= store'.watermark
                      /\ \A u \in Scheduler : inv'[u][k].at \in Beyond => u = t
    BY DEF ReservedOK
  <2>1. /\ 0 < k /\ k <= store.watermark
        /\ \A u \in Scheduler : inv[u][k].at \in Beyond => u = t
    BY <1>5 DEF Inv, Safe, ReservedOK
  <2>2. k \in Nat
    BY InstantTypes
  <2> QED BY <1>1, <1>2, <1>5, <2>1, <2>2
<1>8. EmitsOK'
  <2> SUFFICES ASSUME NEW k \in Instant
               PROVE  /\ emits[k] <= 1
                      /\ emits[k] > 0 => k <= store'.watermark
                      /\ \A t \in Scheduler : inv'[t][k].at \in Ahead => emits[k] = 0
    BY <1>3 DEF EmitsOK
  <2>1. /\ emits[k] <= 1
        /\ emits[k] > 0 => k <= store.watermark
        /\ \A t \in Scheduler : inv[t][k].at \in Ahead => emits[k] = 0
    BY DEF Inv, Safe, EmitsOK
  <2>2. k \in Nat
    BY InstantTypes
  <2> QED BY <1>1, <1>2, <1>5, <1>6, <2>1, <2>2
<1>9. QueueOK'
  <2> SUFFICES ASSUME NEW t \in Scheduler PROVE QueueHolds(inv'[t], local[t].queue)
    BY <1>3 DEF QueueOK
  <2>1. local[t].queue \in Seq(Instant) /\ QueueHolds(inv[t], local[t].queue)
    BY <1>1 DEF Inv, Safe, QueueOK, Local
  <2>2. \A i \in DOMAIN local[t].queue : local[t].queue[i] \in Instant
    BY <2>1
  <2>3. \A k \in Instant : inv[t][k].at = "queued" => inv'[t][k] = inv[t][k]
    BY <1>4 DEF Nowhere
  <2> QED BY <2>1, <2>2, <2>3 DEF QueueHolds
<1>10. ActiveOK'
  BY <1>3 DEF Inv, Safe, ActiveOK
<1>11. OutcomeOK'
  <2> SUFFICES ASSUME NEW t \in Scheduler, NEW k \in Instant,
                      inv'[t][k].at \in Ahead \/ <<t, k>> \in flying, store'.last.key = k
               PROVE  store'.last.status = "unknown"
    BY <1>3 DEF OutcomeOK
  <2>1. inv[t][k].at \in Beyond /\ (inv[t][k].at \in Ahead \/ <<t, k>> \in flying)
    BY <1>5, <1>6 DEF Inv, Safe, FlyingOK
  <2>2. 0 < k /\ k <= store.watermark /\ k \in Nat
    BY <2>1, InstantTypes DEF Inv, Safe, ReservedOK
  <2>3. store'.last = store.last
    BY <1>1, <1>2, <2>2 DEF NoKey
  <2> QED BY <2>1, <2>3 DEF Inv, Safe, OutcomeOK
<1>12. ASSUME NEW t \in Scheduler, NEW k \in Instant,
              inv[t][k].at \in Ahead \/ <<t, k>> \in flying, store.active = Claim(t, k)
       PROVE  store'.active = Claim(t, k)
  BY <1>2, <1>12 DEF HasDefinitivelySettledActive, Claim, Inv, Safe, OutcomeOK
<1>13. ClaimOK'
  <2> SUFFICES ASSUME NEW t \in Scheduler, NEW k \in Instant, inv'[t][k].at = "claim",
                      local'[t].cache.active = Claim(t, k)
               PROVE  store'.active = Claim(t, k)
    BY DEF ClaimOK
  <2>1. inv[t][k].at = "claim"
    BY <1>5 DEF Beyond, Stage
  <2>2. local[t].cache.active = Claim(t, k) => store.active = Claim(t, k)
    BY <2>1 DEF Inv, Safe, ClaimOK
  <2> QED BY <1>3, <1>12, <2>1, <2>2 DEF Ahead
<1>14. FlyingOK'
  <2> SUFFICES ASSUME NEW t \in Scheduler, NEW k \in Instant, <<t, k>> \in flying
               PROVE  /\ store'.active = Claim(t, k)
                      /\ inv'[t][k].at \in {"emit", "land", "late"}
                      /\ inv'[t][k].at = "land" => inv'[t][k].as = "unknown"
                      /\ local'[t].active = k /\ ~local'[t].rel
    BY <1>3 DEF FlyingOK
  <2>1. /\ store.active = Claim(t, k)
        /\ inv[t][k].at \in {"emit", "land", "late"}
        /\ inv[t][k].at = "land" => inv[t][k].as = "unknown"
        /\ local[t].active = k /\ ~local[t].rel
    BY DEF Inv, Safe, FlyingOK
  <2>2. inv'[t][k] = inv[t][k]
    BY <1>4, <2>1 DEF Nowhere
  <2> QED BY <1>3, <1>12, <2>1, <2>2
<1> QED BY <1>7, <1>8, <1>9, <1>10, <1>11, <1>13, <1>14 DEF Safe

LEMMA MaintenanceTold ==
  ASSUME Inv, NEW s \in Scheduler, MaintenanceStep(s) PROVE Told'
<1>1. /\ Maintained(store, store') /\ store' \in Record
      /\ store.issue => store'.issue
      /\ store.watermark <= store'.watermark
      /\ open' = open /\ untold' = untold /\ emits' = emits
      /\ local'[s].cache \in {local[s].cache, store, store'}
      /\ local'[s].active = local[s].active /\ local'[s].rel = local[s].rel
      /\ local' = [local EXCEPT ![s] = local'[s]] /\ inv' = [inv EXCEPT ![s] = inv'[s]]
  BY DEF MaintenanceStep, Maintained, host
<1>2. \A k \in Instant : inv'[s][k] = inv[s][k] \/ inv'[s][k].at = "admit"
  BY DEF MaintenanceStep, RowGrows
<1>3. \A k \in Instant : /\ inv'[s][k].at \in Unemitted => inv[s][k].at \in Unemitted
                         /\ inv'[s][k].at \in {"late", "release"} =>
                              inv[s][k].at \in {"late", "release"}
  BY <1>2 DEF Unemitted
<1>4. Accounts(s)
  <2>1. open \subseteq Instant
    BY DEF Inv, Typed, TypeOK
  <2> QED BY <1>1, <1>3, <2>1, MaintainedAccounts DEF Accounts, Awaited
<1> QED BY <1>1, <1>4, AccountsTold

---------------------------------------------------------------------------
(* The steps of a firing                                                   *)

\* Typing carries over when one scheduler's memory and row change.
LEMMA StepTyped ==
  ASSUME Typed, NEW s \in Scheduler, NEW l \in Local, NEW row \in Row, Placed(l),
         local' = [local EXCEPT ![s] = l], inv' = [inv EXCEPT ![s] = row],
         store' \in Record, faults' \in 0..setup.faults,
         \A t \in current' : IF t = s THEN l.cache = store' ELSE t \in current /\ store' = store,
         flying' \subseteq Scheduler \X Instant, emits' \in [Instant -> Nat],
         open' \subseteq Instant, untold' \subseteq Instant, UNCHANGED world
  PROVE  Typed'
<1>1. /\ local' \in [Scheduler -> Local] /\ \A t \in Scheduler : Placed(local'[t])
      /\ inv' \in [Scheduler -> Row]
  <2>1. local \in [Scheduler -> Local] /\ inv \in [Scheduler -> Row]
    BY DEF Typed, TypeOK, Row, Slot
  <2> QED BY <2>1 DEF Typed, PlacedOK
<1>2. /\ setup' \in Setups /\ now' \in Instant /\ backSteps' \in 0..setup'.backSteps
      /\ faults' \in 0..setup'.faults
  BY DEF Typed, TypeOK, world
<1>3. CurrentOK' /\ current' \subseteq Scheduler
  <2>1. \A t \in current' : t = s \/ (t \in current /\ store' = store)
    OBVIOUS
  <2>2. \A t \in current : t # s => local'[t] = local[t] /\ local[t].cache = store
    BY DEF Typed, TypeOK, CurrentOK
  <2>3. current' \subseteq Scheduler
    BY <2>1 DEF Typed, TypeOK
  <2>4. local'[s] = l
    BY DEF Typed, TypeOK
  <2> QED BY <2>1, <2>2, <2>3, <2>4 DEF CurrentOK
<1> QED BY <1>1, <1>2, <1>3 DEF Typed, TypeOK, PlacedOK, Placed, Row, Slot

\* What a step may do to the firings of a scheduler, once they are admitted and
\* short of a new emission, so that the invariant holds.
Moves(s) ==
  /\ store.watermark <= store'.watermark
  /\ \A k \in Instant : /\ inv'[s][k].at \in Beyond => inv[s][k].at \in Beyond
                        /\ inv'[s][k].at \in Ahead => inv[s][k].at \in Ahead
  /\ emits' = emits /\ flying' \subseteq flying
  /\ local'[s].active \in {local[s].active, NoKey}
  /\ QueueHolds(inv'[s], local'[s].queue)

\* The job's record stays true to the firings that wait to emit and to those in flight.
Honours(s) ==
  /\ \A t \in Scheduler, k \in Instant :
       (inv'[t][k].at \in Ahead \/ <<t, k>> \in flying') /\ store'.last.key = k
         => store'.last.status = "unknown" \/ store'.last = store.last
  /\ \A t \in Scheduler, k \in Instant :
       (inv'[t][k].at = "claim" \/ <<t, k>> \in flying') /\ store.active = Claim(t, k)
         => store'.active = Claim(t, k)
  /\ \A k \in Instant :
       inv'[s][k].at = "claim" /\ local'[s].cache.active = Claim(s, k)
         => store.active = Claim(s, k) \/ store'.active = Claim(s, k)
  /\ \A k \in Instant :
       <<s, k>> \in flying' =>
         /\ inv'[s][k].at \in {"emit", "land", "late"}
         /\ inv'[s][k].at = "land" => inv'[s][k].as = "unknown"
         /\ local'[s].active = k /\ ~local'[s].rel

LEMMA MovesSafe ==
  ASSUME Inv, NEW s \in Scheduler, NEW l, NEW row,
         local' = [local EXCEPT ![s] = l], inv' = [inv EXCEPT ![s] = row],
         store' \in Record, Moves(s), Honours(s)
  PROVE  Safe'
<1>1. /\ local \in [Scheduler -> Local] /\ inv \in [Scheduler -> Row]
      /\ emits \in [Instant -> Nat] /\ flying \subseteq Scheduler \X Instant
      /\ store.watermark \in Nat /\ store'.watermark \in Nat
  BY InstantTypes DEF Inv, Typed, TypeOK, Row, Slot, Record
<1>2. \A t \in Scheduler : t # s => local'[t] = local[t] /\ inv'[t] = inv[t]
  BY <1>1
<1>3. \A t \in Scheduler, k \in Instant :
        /\ inv'[t][k].at \in Beyond => inv[t][k].at \in Beyond
        /\ inv'[t][k].at \in Ahead => inv[t][k].at \in Ahead
  BY <1>2 DEF Moves
<1>4. Ahead \subseteq Beyond /\ "claim" \in Ahead
  BY DEF Ahead, Beyond, Stage
<1>5. ReservedOK'
  <2> SUFFICES ASSUME NEW t \in Scheduler, NEW k \in Instant, inv'[t][k].at \in Beyond
               PROVE  /\ 0 < k /\ k <= store'.watermark
                      /\ \A u \in Scheduler : inv'[u][k].at \in Beyond => u = t
    BY DEF ReservedOK
  <2>1. /\ 0 < k /\ k <= store.watermark
        /\ \A u \in Scheduler : inv[u][k].at \in Beyond => u = t
    BY <1>3 DEF Inv, Safe, ReservedOK
  <2>2. k \in Nat /\ store.watermark <= store'.watermark
    BY InstantTypes DEF Moves
  <2> QED BY <1>1, <1>3, <2>1, <2>2
<1>6. EmitsOK'
  <2> SUFFICES ASSUME NEW k \in Instant
               PROVE  /\ emits[k] <= 1
                      /\ emits[k] > 0 => k <= store'.watermark
                      /\ \A t \in Scheduler : inv'[t][k].at \in Ahead => emits[k] = 0
    BY DEF EmitsOK, Moves
  <2>1. /\ emits[k] <= 1
        /\ emits[k] > 0 => k <= store.watermark
        /\ \A t \in Scheduler : inv[t][k].at \in Ahead => emits[k] = 0
    BY DEF Inv, Safe, EmitsOK
  <2>2. k \in Nat /\ store.watermark <= store'.watermark
    BY InstantTypes DEF Moves
  <2> QED BY <1>1, <1>3, <2>1, <2>2
<1>7. QueueOK'
  BY <1>2 DEF QueueOK, Moves, Inv, Safe
<1>8. ActiveOK'
  BY <1>2 DEF ActiveOK, Moves, Inv, Safe
<1>9. ClaimOK'
  <2> SUFFICES ASSUME NEW t \in Scheduler, NEW k \in Instant, inv'[t][k].at = "claim",
                      local'[t].cache.active = Claim(t, k)
               PROVE  store'.active = Claim(t, k)
    BY DEF ClaimOK
  <2>1. store.active = Claim(t, k) \/ store'.active = Claim(t, k)
    BY <1>2 DEF Honours, Inv, Safe, ClaimOK
  <2>2. store.active = Claim(t, k) => store'.active = Claim(t, k)
    <3>1. (inv'[t][k].at = "claim" \/ <<t, k>> \in flying') /\ store.active = Claim(t, k)
            => store'.active = Claim(t, k)
      BY DEF Honours
    <3> QED BY <3>1
  <2> QED BY <2>1, <2>2
<1>10. OutcomeOK'
  <2> SUFFICES ASSUME NEW t \in Scheduler, NEW k \in Instant,
                      inv'[t][k].at \in Ahead \/ <<t, k>> \in flying', store'.last.key = k
               PROVE  store'.last.status = "unknown"
    BY DEF OutcomeOK
  <2>1. inv[t][k].at \in Ahead \/ <<t, k>> \in flying
    BY <1>3 DEF Moves
  <2> QED BY <2>1 DEF Honours, Inv, Safe, OutcomeOK
<1>11. FlyingOK'
  <2> SUFFICES ASSUME NEW t \in Scheduler, NEW k \in Instant, <<t, k>> \in flying'
               PROVE  /\ store'.active = Claim(t, k)
                      /\ inv'[t][k].at \in {"emit", "land", "late"}
                      /\ inv'[t][k].at = "land" => inv'[t][k].as = "unknown"
                      /\ local'[t].active = k /\ ~local'[t].rel
    BY DEF FlyingOK
  <2>1. /\ store.active = Claim(t, k)
        /\ inv[t][k].at \in {"emit", "land", "late"}
        /\ inv[t][k].at = "land" => inv[t][k].as = "unknown"
        /\ local[t].active = k /\ ~local[t].rel
    BY DEF Moves, Inv, Safe, FlyingOK
  <2>2. store'.active = Claim(t, k)
    BY <2>1 DEF Honours
  <2>3. CASE t = s
    BY <2>2, <2>3 DEF Honours
  <2>4. CASE t # s
    BY <1>2, <2>1, <2>2, <2>4
  <2> QED BY <2>3, <2>4
<1> QED BY <1>5, <1>6, <1>7, <1>8, <1>9, <1>10, <1>11 DEF Safe

---------------------------------------------------------------------------
(* What a firing makes of the record                                       *)

LEMMA ClaimInjective ==
  ASSUME NEW s \in Scheduler, NEW t \in Scheduler, NEW j, NEW k
  PROVE  Claim(s, j) # NoClaim /\ (Claim(s, j) = Claim(t, k) => s = t /\ j = k)
BY RecordAssumption DEF RecordAssumption, Claim, NoClaim

LEMMA ClearActiveWrites ==
  ASSUME NEW r \in Record, NEW s, NEW k, NEW n \in ClearActive(s, k, r)
  PROVE  /\ n \in Record /\ r.active = Claim(s, k) /\ n.active = NoClaim
         /\ n.watermark = r.watermark /\ n.last = r.last /\ n.issue = r.issue
BY NoClaimType DEF ClearActive, Record

LEMMA SettleWrites ==
  ASSUME NEW r \in Record, NEW k \in Instant, NEW status \in Status, NEW unsettled \in BOOLEAN,
         NEW n \in SettleInvocation(k, status, unsettled, r)
  PROVE  /\ n \in Record /\ n.active = r.active /\ n.watermark = r.watermark
         /\ n.last = r.last \/ (r.last.key = k /\ n.last = [status |-> status, key |-> k])
         /\ r.issue \/ status = "unknown" => n.issue
<1> DEFINE issue == r.issue \/ unsettled \/ status \in {"rejected", "unknown", "missed"}
<1>1. issue \in BOOLEAN /\ (r.issue \/ status = "unknown" => issue)
  OBVIOUS
<1>2. \/ r.last.key = k /\ n = [r EXCEPT !.last.status = status, !.issue = issue]
      \/ n = [r EXCEPT !.issue = TRUE]
  BY DEF SettleInvocation
<1> HIDE DEF issue
<1>3. CASE r.last.key = k /\ n = [r EXCEPT !.last.status = status, !.issue = issue]
  <2>1. n \in Record
    BY <1>1, <1>3 DEF Record
  <2>2. n.last = [r.last EXCEPT !.status = status] /\ n.issue = issue
        /\ n.active = r.active /\ n.watermark = r.watermark
    BY <1>3 DEF Record
  <2>3. [r.last EXCEPT !.status = status] = [status |-> status, key |-> k]
    BY <1>3 DEF Record
  <2> QED BY <1>1, <1>3, <2>1, <2>2, <2>3
<1>4. CASE n = [r EXCEPT !.issue = TRUE]
  <2>1. n \in Record
    BY <1>4 DEF Record
  <2> QED BY <1>4, <2>1 DEF Record
<1> QED BY <1>2, <1>3, <1>4

LEMMA ClaimActiveWrites ==
  ASSUME NEW r \in Record, NEW s \in Scheduler, NEW k \in Instant, NEW n \in ClaimActive(s, k, r)
  PROVE  /\ n \in Record /\ r.active = NoClaim /\ n.active = Claim(s, k)
         /\ n.watermark = r.watermark /\ n.last = r.last /\ n.issue = r.issue
BY DEF ClaimActive, Claim, Record

LEMMA ReserveWrites ==
  ASSUME NEW r \in Record, NEW s \in Scheduler, NEW carrying, NEW unsettled \in BOOLEAN,
         NEW k \in Instant, NEW n \in Reserve(s, carrying, unsettled, k, r)
  PROVE  /\ n \in Record /\ r.watermark < k /\ n.watermark = k
         /\ n.last = [status |-> "unknown", key |-> k]
         /\ \/ r.active = NoClaim /\ n.active = Claim(s, k)
            \/ r.active = Claim(s, carrying) /\ n.active = r.active
         /\ r.issue => n.issue
         /\ ~n.issue => r.last.status # "unknown" \/ r.last.key = carrying
<1> DEFINE lost == r.last.status = "unknown" /\ r.last.key # carrying
           issue == r.issue \/ unsettled \/ lost
<1>1. ~(k <= r.watermark) /\ ~ForeignClaim(s, carrying, r)
  BY DEF Reserve
<1>2. n = [r EXCEPT !.watermark = k, !.active = IF @ = NoClaim THEN Claim(s, k) ELSE @,
                    !.last = [status |-> "unknown", key |-> k], !.issue = issue]
  BY DEF Reserve
<1>3. /\ issue \in BOOLEAN /\ r.watermark \in Nat /\ k \in Nat
      /\ r.issue => issue
      /\ ~issue => r.last.status # "unknown" \/ r.last.key = carrying
  BY InstantTypes DEF Record
<1>4. Claim(s, k) \in [owner : Scheduler \cup {Nobody}, key : Instant]
  BY DEF Claim
<1>5. [status |-> "unknown", key |-> k] \in [status : Status, key : Instant]
  BY DEF Status
<1> HIDE DEF issue
<1>6. r.active = NoClaim \/ r.active = Claim(s, carrying)
  BY <1>1 DEF ForeignClaim, Claim, Record
<1>7. n \in Record
  BY <1>2, <1>3, <1>4, <1>5 DEF Record
<1>8. /\ n.watermark = k /\ n.last = [status |-> "unknown", key |-> k] /\ n.issue = issue
      /\ n.active = IF r.active = NoClaim THEN Claim(s, k) ELSE r.active
  BY <1>2 DEF Record
<1>9. r.watermark < k
  BY <1>1, <1>3
<1> QED BY <1>3, <1>6, <1>7, <1>8, <1>9

LEMMA CommitEffect ==
  ASSUME Typed, NEW s \in Scheduler, NEW o, NEW writes, Effect(s, o, writes),
         writes \subseteq Record, Commit(o)
  PROVE  /\ store' = o.store /\ store' \in Record /\ faults' \in 0..setup.faults
         /\ o.cache \in Record /\ o.cache \in {local[s].cache, store, store'}
         /\ \A t \in current' : IF t = s THEN o.cache = store'
                                ELSE t \in current /\ store' = store
<1>1. store' = o.store /\ store' \in Record
  BY LocalTypes DEF Effect, Commit
<1>2. faults' \in 0..setup.faults
  BY ScheduleType DEF Effect, Commit, Typed, TypeOK
<1> QED BY <1>1, <1>2, LocalTypes DEF Effect, Commit

\* What is left of a claim after clearActive, whatever it came to.
LEMMA ClearEffect ==
  ASSUME Typed, NEW s \in Scheduler, NEW k, NEW o, Effect(s, o, ClearActive(s, k, store)), Commit(o)
  PROVE  /\ store'.watermark = store.watermark /\ store'.last = store.last
         /\ store'.issue = store.issue
         /\ store'.active # store.active => store.active = Claim(s, k) /\ store'.active = NoClaim
BY LocalTypes, ClearActiveWrites DEF Effect, Commit

LEMMA SettleEffect ==
  ASSUME Typed, NEW s \in Scheduler, NEW k \in Instant, NEW o,
         Effect(s, o, SettleInvocation(k, inv[s][k].as, local[s].unsettled, store)), Commit(o)
  PROVE  /\ store'.watermark = store.watermark /\ store'.active = store.active
         /\ \/ store'.last = store.last
            \/ store.last.key = k /\ store'.last.key = k /\ store'.last.status = inv[s][k].as
<1>1. inv[s][k].as \in Status /\ local[s].unsettled \in BOOLEAN /\ store \in Record
  BY LocalTypes DEF Row, Slot, Local
<1> DEFINE status == inv[s][k].as
           unsettled == local[s].unsettled
<1> HIDE DEF status, unsettled
<1>2. \A n \in SettleInvocation(k, status, unsettled, store) :
        /\ n.watermark = store.watermark /\ n.active = store.active
        /\ \/ n.last = store.last
           \/ store.last.key = k /\ n.last = [status |-> status, key |-> k]
  BY <1>1, SettleWrites DEF status, unsettled
<1>3. store' = store \/ store' \in SettleInvocation(k, status, unsettled, store)
  BY DEF Effect, Commit, status, unsettled
<1> QED BY <1>2, <1>3 DEF status

\* Nothing was written: there was nothing to write to what was read.
LEMMA SameOutcome ==
  ASSUME NEW s \in Scheduler, NEW mine, NEW theirs, NEW allowMismatch,
         NEW o \in Outcomes(s, mine, theirs, allowMismatch), o.how = "same"
  PROVE  mine = {} \/ theirs = {}
<1> DEFINE foreign(r) == ~allowMismatch /\ r.gen # setup.schedule[s]
           trusts == s \in current \/ foreign(local[s].cache) \/ mine = {}
           seen == IF trusts THEN local[s].cache ELSE store
           wants == IF trusts THEN mine ELSE theirs
           reads == IF seen = local[s].cache THEN current ELSE current \cup {s}
           next == CHOOSE r \in wants : TRUE
<1>1. SUFFICES ASSUME wants # {} PROVE FALSE
  OBVIOUS
<1>2. o \in {Outcome("fenced", store, seen, reads, 0)}
             \cup {Outcome("applied", next, next, {s}, 0)}
             \cup {Outcome("failed", store, seen, reads, 1), Outcome("failed", next, seen, {}, 1)}
  BY <1>1, Zenon DEF Outcomes
<1> HIDE DEF seen, reads, next
<1> QED BY <1>2 DEF Outcome

\* An outcome was settled: its firing is over, there is an issue, or nobody was told.
LEMMA SettleTells ==
  ASSUME Inv, NEW s \in Scheduler, NEW k \in Instant,
         NEW o \in
           Outcomes(s, SettleInvocation(k, inv[s][k].as, local[s].unsettled, local[s].cache),
                    SettleInvocation(k, inv[s][k].as, local[s].unsettled, store), FALSE),
         Commit(o), open' = StillOpen(k, inv[s][k].as, o), untold' = Untold(k, o)
  PROVE  /\ store.issue => store'.issue
         /\ open' \subseteq open /\ untold \subseteq untold'
         /\ store'.last = store.last \/ store.last.key = k
         /\ \/ store'.last = store.last
            \/ store'.last.key \in open' => store'.last.status = "unknown"
         /\ ~store'.issue => k \notin open' \ untold'
<1> DEFINE status == inv[s][k].as
           Wants(r) == SettleInvocation(k, status, local[s].unsettled, r)
<1>1. /\ status \in Status /\ local[s].unsettled \in BOOLEAN
      /\ store \in Record /\ local[s].cache \in Record
  BY LocalTypes DEF Inv, Row, Slot, Local
<1>2. Effect(s, o, Wants(store)) /\ store' = o.store
  BY OutcomeEffect DEF Inv, Typed, CurrentOK, Commit
<1>3. \A n \in Wants(store) :
        /\ n.last = store.last \/ (store.last.key = k /\ n.last = [status |-> status, key |-> k])
        /\ store.issue \/ status = "unknown" => n.issue
  BY <1>1, SettleWrites
<1>4. /\ store.issue => store'.issue
      /\ \/ store'.last = store.last
         \/ store.last.key = k /\ store'.last = [status |-> status, key |-> k]
  BY <1>2, <1>3 DEF Effect
<1>5. ASSUME Did(o), status = "unknown" PROVE store'.issue
  <2>1. CASE o.how = "applied"
    BY <1>2, <1>3, <1>5, <2>1 DEF Effect
  <2>2. CASE o.how = "same"
    <3>1. Wants(local[s].cache) = {} \/ Wants(store) = {}
      BY <2>2, SameOutcome
    <3>2. \A r \in Record : Wants(r) = {} => r.issue
      BY <1>1, <1>5 DEF SettleInvocation, Record
    <3>3. local[s].cache.issue => store.issue
      BY DEF IssueOK, Inv, Told
    <3> QED BY <1>1, <1>4, <3>1, <3>2, <3>3
  <2> QED BY <1>5, <2>1, <2>2 DEF Did
<1>6. /\ open' \subseteq open /\ untold \subseteq untold'
      /\ Did(o) /\ status # "unknown" => k \notin open'
      /\ ~Did(o) => k \in untold'
      /\ store'.last = [status |-> status, key |-> k] /\ status # "unknown" => k \notin open'
  BY <1>2 DEF StillOpen, Untold
<1> HIDE DEF status, Wants
<1> QED BY <1>4, <1>5, <1>6

\* What the invariant says of the firings of one scheduler.
LEMMA FiringFacts ==
  ASSUME Inv, NEW s \in Scheduler
  PROVE  /\ \A k \in Instant : <<s, k>> \in flying =>
              /\ store.active = Claim(s, k) /\ inv[s][k].at \in {"emit", "land", "late"}
              /\ inv[s][k].at = "land" => inv[s][k].as = "unknown"
              /\ local[s].active = k /\ ~local[s].rel
         /\ \A k \in Instant : inv[s][k].at = "claim" /\ local[s].cache.active = Claim(s, k)
              => store.active = Claim(s, k)
         /\ QueueHolds(inv[s], local[s].queue)
         /\ \A i \in DOMAIN local[s].queue : local[s].queue[i] \in Instant
         /\ store.watermark \in Nat
<1>1. local[s].queue \in Seq(Instant) /\ store.watermark \in Nat
  BY LocalTypes, InstantTypes DEF Inv, Local, Record
<1> QED BY <1>1 DEF Inv, Safe, FlyingOK, ClaimOK, QueueOK

\* A firing that is taken from where it is leaves the queue alone, unless it waits there.
LEMMA QueueElsewhere ==
  ASSUME Inv, NEW s \in Scheduler, NEW k \in Instant, NEW to, inv[s][k].at # "queued"
  PROVE  QueueHolds([inv[s] EXCEPT ![k] = to], local[s].queue)
<1>1. inv[s] \in Row
  BY LocalTypes DEF Inv
<1> QED BY <1>1, FiringFacts DEF QueueHolds, Row

LEMMA UnclaimPreserves ==
  ASSUME Inv, NEW s \in Scheduler, NEW k \in Instant, Unclaim(s, k) PROVE Inv'
<1> DEFINE Wants(r) == ClearActive(s, k, r)
<1>1. PICK o \in Outcomes(s, Wants(local[s].cache), Wants(store), TRUE) :
        /\ Commit(o)
        /\ Set(s, IF Did(o) THEN Cached(s, o) ELSE Failing(Cached(s, o)))
        /\ Goto(s, k, "settle", "cancelled")
  BY DEF Unclaim, UpdateRecord, Outcomes
<1> DEFINE l == IF Did(o) THEN Cached(s, o) ELSE Failing(Cached(s, o))
           row == [inv[s] EXCEPT ![k] = [at |-> "settle", as |-> "cancelled"]]
<1>2. Effect(s, o, Wants(store))
  BY OutcomeEffect DEF Inv, Typed, CurrentOK
<1>3. Wants(store) \subseteq Record
  BY LocalTypes, ClearActiveWrites DEF Inv
<1>4. /\ store' \in Record /\ faults' \in 0..setup.faults
      /\ o.cache \in Record /\ o.cache \in {local[s].cache, store, store'}
      /\ \A t \in current' : IF t = s THEN o.cache = store'
                             ELSE t \in current /\ store' = store
  BY <1>1, <1>2, <1>3, CommitEffect DEF Inv
<1>5. /\ l \in Local /\ Placed(l) /\ l.cache = o.cache /\ l.active = local[s].active
      /\ l.rel = local[s].rel /\ l.queue = local[s].queue
  <2> DEFINE c == Cached(s, o)
  <2>1. /\ c \in Local /\ Placed(c) /\ c.cache = o.cache /\ c.active = local[s].active
        /\ c.rel = local[s].rel /\ c.queue = local[s].queue
    BY <1>4, CachedKeeps DEF Inv
  <2> HIDE DEF c
  <2>2. Same(c, Failing(c)) /\ Failing(c).rec = c.rec
    BY <2>1, FlagKeeps DEF Failing, Local
  <2> QED BY <2>1, <2>2 DEF Same, Placed, c
<1>6. inv[s][k].at = "unclaim" /\ inv[s] \in Row
  BY LocalTypes DEF Unclaim, At, Inv
<1>7. local' = [local EXCEPT ![s] = l] /\ inv' = [inv EXCEPT ![s] = row] /\ row \in Row
  BY <1>1, <1>6 DEF Set, Goto, Row, Slot, Stage, Status, Inv, Typed, TypeOK
<1>8. local'[s] = l /\ inv'[s] = row /\ UNCHANGED <<world, host>>
  BY <1>7 DEF Inv, Typed, TypeOK, Unclaim
<1> HIDE DEF l
<1>9. Typed'
  BY <1>4, <1>5, <1>7, <1>8, StepTyped DEF Inv, Typed, TypeOK, host
<1>10. /\ store'.watermark = store.watermark /\ store'.last = store.last
       /\ store'.issue = store.issue
       /\ store'.active # store.active => store.active = Claim(s, k)
  BY <1>1, <1>2, ClearEffect DEF Inv
<1>11. \A j \in Instant : IF j = k THEN row[j].at = "settle" ELSE row[j] = inv[s][j]
  BY <1>6 DEF Row
<1> HIDE DEF row
<1>12. Moves(s)
  <2>1. QueueHolds(row, l.queue)
    BY <1>5, <1>6, QueueElsewhere DEF row
  <2> QED BY <1>5, <1>6, <1>8, <1>10, <1>11, <2>1, FiringFacts DEF Moves, host, Beyond, Ahead, Stage
<1>13. Honours(s)
  <2>1. \A t \in Scheduler, j \in Instant :
          (inv'[t][j].at = "claim" \/ <<t, j>> \in flying) => ~(t = s /\ j = k)
    BY <1>6, <1>8, <1>11, FiringFacts
  <2> QED BY <1>4, <1>5, <1>8, <1>10, <1>11, <2>1, FiringFacts, ClaimInjective DEF Honours, host
<1>14. Safe'
  BY <1>4, <1>7, <1>12, <1>13, MovesSafe
\* The claim may go: the outcome on record is this firing's, and unknown.
<1>15. Accounts(s)
  <2>1. \A t \in Scheduler : local[t].active # k
    BY <1>6, UnemittedFacts DEF Unemitted
  <2>2. ~store.issue /\ k \in Awaited => store.last = Unknown(k)
    BY <1>6 DEF WaitingOK, Unemitted, Inv, Told
  <2>3. \A j \in Instant : /\ row[j].at \in Unemitted => inv[s][j].at \in Unemitted
                           /\ row[j].at \in {"late", "release"} => row[j] = inv[s][j]
    BY <1>6, <1>11 DEF Unemitted
  <2>4. \A t \in Scheduler, j \in Instant :
          store.active = Claim(t, j) => store'.active = Claim(t, j) \/ (t = s /\ j = k)
    BY <1>10, ClaimInjective
  <2> QED BY <1>4, <1>5, <1>8, <1>10, <2>1, <2>2, <2>3, <2>4, FiringFacts, OpenInstants
          DEF Accounts, Awaited, host
<1>16. Told'
  BY <1>4, <1>7, <1>8, <1>15, AccountsTold
<1> QED BY <1>9, <1>14, <1>16 DEF Inv

LEMMA WatchdogPreserves ==
  ASSUME Inv, NEW s \in Scheduler, NEW k \in Instant, Watchdog(s, k) PROVE Inv'
<1> DEFINE row == [inv[s] EXCEPT ![k] = [at |-> "land", as |-> "unknown"]]
<1>1. inv[s][k].at = "emit" /\ inv[s] \in Row /\ local[s] \in Local /\ Placed(local[s])
  BY LocalTypes DEF Watchdog, At, Inv
<1>2. local' = [local EXCEPT ![s] = local[s]] /\ inv' = [inv EXCEPT ![s] = row] /\ row \in Row
  BY <1>1 DEF Watchdog, Goto, Row, Slot, Stage, Status, Inv, Typed, TypeOK
<1>3. local'[s] = local[s] /\ inv'[s] = row /\ UNCHANGED <<world, disk, host>>
  BY <1>2 DEF Inv, Typed, TypeOK, Watchdog
<1>4. Typed'
  BY <1>1, <1>2, <1>3, StepTyped DEF Inv, Typed, TypeOK, CurrentOK, host, disk
<1>5. \A j \in Instant : IF j = k THEN row[j].at = "land" /\ row[j].as = "unknown"
                                  ELSE row[j] = inv[s][j]
  BY <1>1 DEF Row
<1>6. Moves(s)
  <2>1. QueueHolds(row, local[s].queue)
    BY <1>1, QueueElsewhere
  <2> HIDE DEF row
  <2> QED BY <1>1, <1>3, <1>5, <2>1, FiringFacts DEF Moves, host, disk, Beyond, Ahead, Stage
<1> HIDE DEF row
<1>7. Honours(s)
  BY <1>3, <1>5, FiringFacts DEF Honours, host, disk
<1>8. store' \in Record
  BY <1>3, LocalTypes DEF disk, Inv
<1>9. Safe'
  BY <1>2, <1>6, <1>7, <1>8, MovesSafe
<1>10. Accounts(s)
  <2>1. \A j \in Instant : /\ row[j].at \in Unemitted => inv[s][j].at \in Unemitted
                           /\ row[j].at \in {"late", "release"} => row[j] = inv[s][j]
    BY <1>5 DEF Unemitted
  <2> QED BY <1>3, <2>1, FiringFacts, OpenInstants DEF Accounts, host, disk
<1>11. Told'
  BY <1>2, <1>3, <1>8, <1>10, AccountsTold
<1> QED BY <1>4, <1>9, <1>11 DEF Inv

LEMMA SettledKeeps ==
  ASSUME Typed, NEW s \in Scheduler, NEW k, NEW o, o.cache \in Record
  PROVE  /\ Settled(s, k, o) \in Local /\ Placed(Settled(s, k, o))
         /\ Settled(s, k, o).cache = o.cache /\ Settled(s, k, o).active = local[s].active
         /\ Settled(s, k, o).rel = local[s].rel /\ Settled(s, k, o).queue = local[s].queue
<1> DEFINE c == Cached(s, o)
           unsure == [Failing(c) EXCEPT !.unsettled = TRUE]
<1>1. /\ c \in Local /\ Placed(c) /\ c.cache = o.cache /\ c.active = local[s].active
      /\ c.rel = local[s].rel /\ c.queue = local[s].queue
  BY CachedKeeps
<1> HIDE DEF c
<1>2. Same(c, Cleared(c)) /\ Cleared(c).rec = c.rec
  BY <1>1, FlagKeeps DEF Cleared, Local
<1>3. Same(c, unsure) /\ unsure.rec = c.rec
  BY <1>1 DEF Same, Failing, Local
<1> HIDE DEF unsure
<1>4. Settled(s, k, o) = IF Did(o) THEN Cleared(c) ELSE unsure
  BY DEF Settled, c, unsure
<1> QED BY <1>1, <1>2, <1>3, <1>4 DEF Same, Placed

LEMMA OpenTypes ==
  ASSUME Typed, NEW k \in Instant, NEW status, NEW o
  PROVE  StillOpen(k, status, o) \subseteq Instant /\ Untold(k, o) \subseteq Instant
BY DEF StillOpen, Untold, Typed, TypeOK

LEMMA SettlePreserves ==
  ASSUME Inv, NEW s \in Scheduler, NEW k \in Instant, Settle(s, k) PROVE Inv'
<1> DEFINE Wants(r) == SettleInvocation(k, inv[s][k].as, local[s].unsettled, r)
<1>1. PICK o \in Outcomes(s, Wants(local[s].cache), Wants(store), FALSE) :
        /\ Commit(o)
        /\ Set(s, Settled(s, k, o)) /\ Leave(s, k)
        /\ open' = StillOpen(k, inv[s][k].as, o) /\ untold' = Untold(k, o)
  BY DEF Settle, UpdateRecord, Outcomes
<1> DEFINE l == Settled(s, k, o)
           row == [inv[s] EXCEPT ![k] = Nowhere]
<1>2. Effect(s, o, Wants(store))
  BY OutcomeEffect DEF Inv, Typed, CurrentOK
<1>3. /\ inv[s][k].at = "settle" /\ inv[s] \in Row /\ store \in Record
      /\ inv[s][k].as \in Status /\ local[s].unsettled \in BOOLEAN
  BY LocalTypes DEF Settle, At, Inv, Row, Slot, Local
<1>4. /\ store' \in Record /\ faults' \in 0..setup.faults
      /\ o.cache \in Record /\ o.cache \in {local[s].cache, store, store'}
      /\ \A t \in current' : IF t = s THEN o.cache = store'
                             ELSE t \in current /\ store' = store
  <2>1. Wants(store) \subseteq Record
    BY <1>3, SettleWrites
  <2> QED BY <1>1, <1>2, <2>1, CommitEffect DEF Inv
<1>5. /\ l \in Local /\ Placed(l) /\ l.cache = o.cache /\ l.active = local[s].active
      /\ l.rel = local[s].rel /\ l.queue = local[s].queue
  BY <1>4, SettledKeeps DEF Inv
<1>6. local' = [local EXCEPT ![s] = l] /\ inv' = [inv EXCEPT ![s] = row] /\ row \in Row
  BY <1>1, <1>3 DEF Set, Leave, Row, Slot, Stage, Status, Nowhere, Inv, Typed, TypeOK
<1>7. local'[s] = l /\ inv'[s] = row /\ UNCHANGED <<world, flying, emits>>
  BY <1>6 DEF Inv, Typed, TypeOK, Settle
<1> HIDE DEF l
<1>8. Typed'
  BY <1>1, <1>4, <1>5, <1>6, <1>7, StepTyped, OpenTypes DEF Inv, Typed, TypeOK
<1>9. /\ store'.watermark = store.watermark /\ store'.active = store.active
      /\ store'.last = store.last \/ store'.last.key = k
  BY <1>1, <1>2, SettleEffect DEF Inv
<1>10. \A j \in Instant : IF j = k THEN row[j].at = "none" ELSE row[j] = inv[s][j]
  BY <1>3 DEF Row, Nowhere
<1> HIDE DEF row
<1>11. Moves(s)
  <2>1. QueueHolds(row, l.queue)
    BY <1>3, <1>5, QueueElsewhere DEF row
  <2> QED BY <1>5, <1>7, <1>9, <1>10, <2>1, FiringFacts DEF Moves, Beyond, Ahead, Stage
<1>12. Honours(s)
  <2>1. \A t \in Scheduler : inv'[t][k].at \notin Ahead /\ <<t, k>> \notin flying
    <3> TAKE t \in Scheduler
    <3>1. inv[t][k].at \in Beyond => t = s
      BY <1>3 DEF Inv, Safe, ReservedOK, Beyond, Stage
    <3>2. t # s => inv'[t] = inv[t]
      BY <1>6 DEF Inv, Typed, TypeOK
    <3> QED BY <1>3, <1>7, <1>10, <3>1, <3>2, FiringFacts DEF Ahead, Beyond, Stage
  <2> QED BY <1>4, <1>5, <1>7, <1>9, <1>10, <2>1, FiringFacts DEF Honours
<1>13. Safe'
  BY <1>4, <1>6, <1>11, <1>12, MovesSafe
<1>14. Accounts(s)
  <2>1. /\ store.issue => store'.issue
        /\ open' \subseteq open /\ untold \subseteq untold'
        /\ store'.last = store.last \/ store.last.key = k
        /\ store'.last = store.last \/ (store'.last.key \in open' => store'.last.status = "unknown")
        /\ ~store'.issue => k \notin open' \ untold'
    BY <1>1, SettleTells
  <2>2. \A j \in Instant : /\ row[j].at \in Unemitted => inv[s][j].at \in Unemitted
                           /\ row[j].at \in {"late", "release"} => row[j] = inv[s][j]
    BY <1>10 DEF Unemitted
  <2>3. \A j \in Instant : store.last = Unknown(j) => store'.last = Unknown(j) \/ j = k
    BY <2>1 DEF Unknown
  <2> QED BY <1>4, <1>5, <1>7, <1>9, <2>1, <2>2, <2>3, FiringFacts, OpenInstants DEF Accounts
<1>15. Told'
  BY <1>4, <1>6, <1>7, <1>14, AccountsTold
<1> QED BY <1>8, <1>13, <1>15 DEF Inv

\* release() with what the scheduler remembers: the firing it carries out owes the
\* clearing of its claim, any other is done.
LEMMA ToReleaseEffect ==
  ASSUME Inv, NEW s \in Scheduler, NEW k \in Instant, NEW l \in Local, Placed(l),
         ToRelease(s, k, l)
  PROVE  /\ local' = [local EXCEPT ![s] = local'[s]] /\ inv' = [inv EXCEPT ![s] = inv'[s]]
         /\ local'[s] \in Local /\ Placed(local'[s]) /\ inv'[s] \in Row
         /\ local'[s].cache = l.cache /\ local'[s].active = l.active /\ local'[s].queue = l.queue
         /\ l.active # k => local'[s].rel = l.rel
         /\ \A j \in Instant : IF j = k THEN inv'[s][j].at \in {"none", "release"}
                                        ELSE inv'[s][j] = inv[s][j]
<1>1. inv \in [Scheduler -> Row] /\ inv[s] \in Row /\ local \in [Scheduler -> Local]
  BY LocalTypes DEF Inv, Typed, TypeOK, Row, Slot
<1>2. CASE l.active = k
  <2> DEFINE owing == [l EXCEPT !.rel = TRUE]
             row == [inv[s] EXCEPT ![k] = [at |-> "release", as |-> "none"]]
  <2>1. /\ owing \in Local /\ Placed(owing) /\ owing.cache = l.cache /\ owing.active = l.active
        /\ owing.queue = l.queue
    BY DEF Local, Placed
  <2>2. /\ row \in Row
        /\ \A j \in Instant : IF j = k THEN row[j].at = "release" ELSE row[j] = inv[s][j]
    BY <1>1 DEF Row, Slot, Stage, Status
  <2>3. local' = [local EXCEPT ![s] = owing] /\ inv' = [inv EXCEPT ![s] = row]
    BY <1>1, <1>2 DEF ToRelease, Set, Goto
  <2> HIDE DEF owing, row
  <2>4. local'[s] = owing /\ inv'[s] = row
    BY <1>1, <2>3
  <2> QED BY <1>2, <2>1, <2>2, <2>3, <2>4
<1>3. CASE l.active # k
  <2> DEFINE row == [inv[s] EXCEPT ![k] = Nowhere]
  <2>1. row \in Row /\ \A j \in Instant : IF j = k THEN row[j].at = "none" ELSE row[j] = inv[s][j]
    BY <1>1 DEF Row, Slot, Stage, Status, Nowhere
  <2>2. local' = [local EXCEPT ![s] = l] /\ inv' = [inv EXCEPT ![s] = row]
    BY <1>1, <1>3 DEF ToRelease, Set, Leave
  <2> HIDE DEF row
  <2>3. local'[s] = l /\ inv'[s] = row
    BY <1>1, <2>2
  <2> QED BY <1>3, <2>1, <2>2, <2>3
<1> QED BY <1>2, <1>3

LEMMA LandPreserves ==
  ASSUME Inv, NEW s \in Scheduler, NEW k \in Instant, Land(s, k) PROVE Inv'
<1> DEFINE Wants(r) == SettleInvocation(k, inv[s][k].as, local[s].unsettled, r)
<1>1. PICK o \in Outcomes(s, Wants(local[s].cache), Wants(store), FALSE) :
        /\ Commit(o)
        /\ open' = StillOpen(k, inv[s][k].as, o) /\ untold' = Untold(k, o)
        /\ IF <<s, k>> \in flying
             THEN Set(s, Settled(s, k, o)) /\ Goto(s, k, "late", "none")
             ELSE ToRelease(s, k, Settled(s, k, o))
  BY DEF Land, UpdateRecord, Outcomes
<1>2. Effect(s, o, Wants(store))
  BY OutcomeEffect DEF Inv, Typed, CurrentOK
<1>3. /\ inv[s][k].at = "land" /\ inv[s] \in Row /\ store \in Record
      /\ inv[s][k].as \in Status /\ local[s].unsettled \in BOOLEAN
  BY LocalTypes DEF Land, At, Inv, Row, Slot, Local
<1>4. /\ store' \in Record /\ faults' \in 0..setup.faults
      /\ o.cache \in Record /\ o.cache \in {local[s].cache, store, store'}
      /\ \A t \in current' : IF t = s THEN o.cache = store'
                             ELSE t \in current /\ store' = store
  <2>1. Wants(store) \subseteq Record
    BY <1>3, SettleWrites
  <2> QED BY <1>1, <1>2, <2>1, CommitEffect DEF Inv
<1> DEFINE l == local'[s]
           row == inv'[s]
<1>5. /\ local' = [local EXCEPT ![s] = l] /\ inv' = [inv EXCEPT ![s] = row]
      /\ l \in Local /\ Placed(l) /\ row \in Row
      /\ l.cache = o.cache /\ l.active = local[s].active /\ l.queue = local[s].queue
      /\ <<s, k>> \in flying \/ local[s].active # k => l.rel = local[s].rel
      /\ \A j \in Instant : IF j = k THEN row[j].at \in {"none", "release", "late"}
                                     ELSE row[j] = inv[s][j]
      /\ <<s, k>> \in flying => row[k].at = "late"
  <2> DEFINE m == Settled(s, k, o)
             late == [inv[s] EXCEPT ![k] = [at |-> "late", as |-> "none"]]
  <2>1. /\ m \in Local /\ Placed(m) /\ m.cache = o.cache /\ m.active = local[s].active
        /\ m.rel = local[s].rel /\ m.queue = local[s].queue
    BY <1>4, SettledKeeps DEF Inv
  <2>2. CASE <<s, k>> \in flying
    <3>1. /\ late \in Row
          /\ \A j \in Instant : IF j = k THEN late[j].at = "late" ELSE late[j] = inv[s][j]
      BY <1>3 DEF Row, Slot, Stage, Status
    <3>2. local' = [local EXCEPT ![s] = m] /\ inv' = [inv EXCEPT ![s] = late]
      BY <1>1, <2>2 DEF Set, Goto, Inv, Typed, TypeOK
    <3> HIDE DEF m, late
    <3>3. local'[s] = m /\ inv'[s] = late
      BY <3>2 DEF Inv, Typed, TypeOK
    <3> QED BY <2>1, <3>1, <3>2, <3>3
  <2>3. CASE <<s, k>> \notin flying
    <3>1. ToRelease(s, k, m)
      BY <1>1, <2>3
    <3> HIDE DEF m
    <3> QED BY <2>1, <2>3, <3>1, ToReleaseEffect
  <2> QED BY <2>2, <2>3
<1>6. local'[s] = l /\ inv'[s] = row /\ UNCHANGED <<world, flying, emits>>
  BY DEF Land
<1> HIDE DEF l, row
<1>7. Typed'
  BY <1>1, <1>4, <1>5, <1>6, StepTyped, OpenTypes DEF Inv, Typed, TypeOK
<1>8. /\ store'.watermark = store.watermark /\ store'.active = store.active
      /\ \/ store'.last = store.last
         \/ store'.last.key = k /\ store'.last.status = inv[s][k].as
  BY <1>1, <1>2, SettleEffect DEF Inv
<1>9. Moves(s)
  <2>1. QueueHolds(row, l.queue)
    BY <1>3, <1>5, FiringFacts DEF QueueHolds
  <2> QED BY <1>3, <1>5, <1>6, <1>8, <2>1, FiringFacts DEF Moves, Beyond, Ahead, Stage
<1>10. Honours(s)
  <2>1. \A t \in Scheduler :
          /\ inv'[t][k].at \notin Ahead
          /\ <<t, k>> \in flying => t = s /\ inv[s][k].as = "unknown"
    <3> TAKE t \in Scheduler
    <3>1. inv[t][k].at \in Beyond => t = s
      BY <1>3 DEF Inv, Safe, ReservedOK, Beyond, Stage
    <3>2. t # s => inv'[t] = inv[t]
      BY <1>5 DEF Inv, Typed, TypeOK
    <3> QED BY <1>3, <1>5, <1>6, <3>1, <3>2, FiringFacts DEF Ahead, Beyond, Stage
  <2>2. \A j \in Instant : <<s, j>> \in flying => l.active = j /\ ~l.rel
    BY <1>5, FiringFacts
  <2>3. \A j \in Instant : <<s, j>> \in flying =>
          row[j].at \in {"emit", "land", "late"} /\ (row[j].at = "land" => row[j].as = "unknown")
    BY <1>5, FiringFacts
  <2> QED BY <1>4, <1>5, <1>6, <1>8, <2>1, <2>2, <2>3, FiringFacts DEF Honours
<1>11. Safe'
  BY <1>4, <1>5, <1>9, <1>10, MovesSafe
<1>12. Accounts(s)
  <2>1. /\ store.issue => store'.issue
        /\ open' \subseteq open /\ untold \subseteq untold'
        /\ store'.last = store.last \/ store.last.key = k
        /\ store'.last = store.last \/ (store'.last.key \in open' => store'.last.status = "unknown")
        /\ ~store'.issue => k \notin open' \ untold'
    BY <1>1, SettleTells
  <2>2. \A j \in Instant : /\ row[j].at \in Unemitted => inv[s][j].at \in Unemitted
                           /\ row[j].at \in {"late", "release"} => row[j] = inv[s][j] \/ j = k
    BY <1>5 DEF Unemitted
  <2>3. \A j \in Instant : store.last = Unknown(j) => store'.last = Unknown(j) \/ j = k
    BY <2>1 DEF Unknown
  <2>4. \A j \in Instant \ {k} : l.active = j => local[s].active = j /\ (l.rel => local[s].rel)
    BY <1>5
  <2> QED BY <1>4, <1>5, <1>6, <1>8, <2>1, <2>2, <2>3, <2>4, FiringFacts, OpenInstants DEF Accounts
<1>13. Told'
  BY <1>4, <1>5, <1>6, <1>12, AccountsTold
<1> QED BY <1>7, <1>11, <1>13 DEF Inv

LEMMA HostSettlesPreserves ==
  ASSUME Inv, NEW s \in Scheduler, NEW k \in Instant,
         NEW status \in {"accepted", "rejected", "duplicate", "unknown"},
         HostSettles(s, k, status)
  PROVE  Inv'
<1>1. /\ <<s, k>> \in flying /\ inv[s] \in Row /\ store \in Record
      /\ local[s] \in Local /\ Placed(local[s])
  BY LocalTypes DEF HostSettles, Inv
<1> DEFINE l == local'[s]
           row == inv'[s]
<1>2. /\ local' = [local EXCEPT ![s] = l] /\ inv' = [inv EXCEPT ![s] = row]
      /\ l \in Local /\ Placed(l) /\ row \in Row
      /\ l.cache = local[s].cache /\ l.active = local[s].active /\ l.queue = local[s].queue
      /\ local[s].active # k \/ inv[s][k].at # "late" => l.rel = local[s].rel
      /\ \A j \in Instant : IF j = k THEN row[j].at \in {"none", "release", "land"}
                                     ELSE row[j] = inv[s][j]
      /\ row[k].at = "release" => inv[s][k].at = "late"
  <2>1. CASE inv[s][k].at = "emit" /\ Goto(s, k, "land", status) /\ UNCHANGED local
    <3> DEFINE landed == [inv[s] EXCEPT ![k] = [at |-> "land", as |-> status]]
    <3>1. /\ landed \in Row
          /\ \A j \in Instant : IF j = k THEN landed[j].at = "land" ELSE landed[j] = inv[s][j]
      BY <1>1 DEF Row, Slot, Stage, Status
    <3>2. local' = [local EXCEPT ![s] = local[s]] /\ inv' = [inv EXCEPT ![s] = landed]
      BY <2>1 DEF Goto, Inv, Typed, TypeOK
    <3> HIDE DEF landed
    <3>3. local'[s] = local[s] /\ inv'[s] = landed
      BY <3>2 DEF Inv, Typed, TypeOK
    <3> QED BY <1>1, <3>1, <3>2, <3>3
  <2>2. CASE inv[s][k].at = "late" /\ ToRelease(s, k, local[s])
    BY <1>1, <2>2, ToReleaseEffect
  <2>3. CASE inv[s][k].at = "land" /\ UNCHANGED <<local, inv>>
    BY <1>1, <2>3 DEF Inv, Typed, TypeOK
  <2> QED BY <2>1, <2>2, <2>3 DEF HostSettles
<1>3. /\ local'[s] = l /\ inv'[s] = row /\ UNCHANGED <<world, disk, emits, open, untold>>
      /\ flying' = flying \ {<<s, k>>}
  BY DEF HostSettles
<1> HIDE DEF l, row
<1>4. Typed'
  BY <1>1, <1>2, <1>3, StepTyped DEF Inv, Typed, TypeOK, CurrentOK, disk
<1>5. inv[s][k].at \in {"emit", "land", "late"}
  BY <1>1, FiringFacts
<1>6. Moves(s)
  <2>1. QueueHolds(row, l.queue)
    BY <1>2, <1>5, FiringFacts DEF QueueHolds
  <2> QED BY <1>2, <1>3, <1>5, <2>1, FiringFacts DEF Moves, disk, Beyond, Ahead, Stage
\* Another emission of this scheduler would hold the same claim.
<1>7. \A j \in Instant : <<s, j>> \notin flying'
  BY <1>1, <1>3, FiringFacts
<1>8. Honours(s)
  BY <1>2, <1>3, <1>7, FiringFacts DEF Honours, disk
<1>9. Safe'
  BY <1>1, <1>2, <1>3, <1>6, <1>8, MovesSafe DEF disk
\* A claim is owed its release once its firing is over, or there is an issue.
<1>10. Accounts(s)
  <2>1. \A j \in Instant : /\ row[j].at \in Unemitted => inv[s][j].at \in Unemitted
                           /\ row[j].at \in {"late", "release"} =>
                                inv[s][j].at \in {"late", "release"}
    BY <1>2 DEF Unemitted
  <2>2. inv[s][k].at = "late" /\ ~store.issue => k \notin Awaited
    BY DEF EndedOK, Inv, Told
  <2>3. \A j \in Awaited : ~store.issue /\ l.active = j => l.rel = local[s].rel
    BY <1>2, <2>2
  <2> QED BY <1>2, <1>3, <2>1, <2>3, FiringFacts, OpenInstants DEF Accounts, Awaited, disk
<1>11. Told'
  BY <1>1, <1>2, <1>3, <1>10, AccountsTold DEF disk
<1> QED BY <1>4, <1>9, <1>11 DEF Inv

\* stop cancels what is queued and aborts the emission that is running: its result
\* is unknown, and the emission itself stays in flight.
LEMMA StopPreserves ==
  ASSUME Inv, NEW s \in Scheduler, Stop(s) PROVE Inv'
<1> DEFINE l == [local[s] EXCEPT !.life = "stopping", !.timer = Off, !.queue = <<>>]
           cancelled == Displaced(inv[s], Queue(local[s]), "cancelled")
           row == Aborted(cancelled, local[s].active)
<1>1. inv[s] \in Row /\ local[s] \in Local /\ Placed(local[s]) /\ local[s].active \in Instant
  BY LocalTypes DEF Inv, Local
<1>2. l \in Local /\ Placed(l) /\ l.cache = local[s].cache /\ l.active = local[s].active
      /\ l.rel = local[s].rel /\ l.queue = <<>>
  <2>1. Off \in Timer /\ <<>> \in Seq(Instant)
    BY TimerTypes
  <2>2. l \in Local
    BY <1>1, <2>1 DEF Local
  <2> QED BY <1>1, <2>2 DEF Local, Placed
<1>3. /\ cancelled \in Row
      /\ \A k \in Instant : \/ cancelled[k] = inv[s][k]
                            \/ inv[s][k].at = "queued" /\ cancelled[k].at = "settle"
  <2>1. \A k \in Queue(local[s]) : inv[s][k].at = "queued"
    BY FiringFacts DEF Queue, QueueHolds
  <2> QED BY <1>1, <2>1 DEF Displaced, Row, Slot, Stage, Status
<1> HIDE DEF cancelled
<1>4. /\ row \in Row
      /\ \A k \in Instant : \/ row[k] = inv[s][k]
                            \/ inv[s][k].at = "queued" /\ row[k].at = "settle"
                            \/ inv[s][k].at = "emit" /\ row[k].at = "land" /\ row[k].as = "unknown"
  BY <1>1, <1>3 DEF Aborted, Row, Slot, Stage, Status
<1>5. local' = [local EXCEPT ![s] = l] /\ inv' = [inv EXCEPT ![s] = row]
      /\ UNCHANGED <<world, disk, host>>
  BY Zenon DEF Stop, Become, Both, cancelled
<1>6. local'[s] = l /\ inv'[s] = row
  BY <1>5 DEF Inv, Typed, TypeOK
<1> HIDE DEF l, row
<1>7. Typed'
  BY <1>2, <1>4, <1>5, <1>6, StepTyped DEF Inv, Typed, TypeOK, CurrentOK, host, disk
<1>8. Moves(s)
  BY <1>2, <1>4, <1>5, <1>6, FiringFacts
     DEF Moves, QueueHolds, host, disk, Beyond, Ahead, Stage
<1>9. Honours(s)
  BY <1>2, <1>4, <1>5, <1>6, FiringFacts DEF Honours, host, disk
<1>10. store' \in Record
  BY <1>5, LocalTypes DEF disk, Inv
<1>11. Safe'
  BY <1>5, <1>8, <1>9, <1>10, MovesSafe
<1>12. Accounts(s)
  <2>1. \A j \in Instant : /\ row[j].at \in Unemitted => inv[s][j].at \in Unemitted
                           /\ row[j].at \in {"late", "release"} => row[j] = inv[s][j]
    BY <1>4 DEF Unemitted
  <2> QED BY <1>2, <1>5, <1>6, <2>1, FiringFacts, OpenInstants DEF Accounts, host, disk
<1>13. Told'
  BY <1>5, <1>6, <1>10, <1>12, AccountsTold
<1> QED BY <1>7, <1>11, <1>13 DEF Inv

---------------------------------------------------------------------------
(* Queues                                                                  *)

\* A queue that only one firing waits in, and one that another joins at its end.
LEMMA QueueOfOne ==
  ASSUME NEW k \in Instant, NEW row, row[k].at = "queued"
  PROVE  <<k>> \in Seq(Instant) /\ QueueHolds(row, <<k>>)
BY DEF QueueHolds

LEMMA QueueJoined ==
  ASSUME NEW queue \in Seq(Instant), NEW k \in Instant, NEW row, NEW next,
         QueueHolds(row, queue), row[k].at # "queued", next[k].at = "queued",
         \A i \in DOMAIN queue : next[queue[i]].at = "queued"
  PROVE  Append(queue, k) \in Seq(Instant) /\ QueueHolds(next, Append(queue, k))
<1> DEFINE all == Append(queue, k)
<1>1. /\ all \in Seq(Instant) /\ Len(queue) \in Nat
      /\ DOMAIN queue = 1..Len(queue) /\ DOMAIN all = 1..(Len(queue) + 1)
      /\ \A i \in 1..Len(queue) : all[i] = queue[i]
      /\ all[Len(queue) + 1] = k
  OBVIOUS
<1> HIDE DEF all
<1>2. \A i \in 1..Len(queue) : queue[i] # k /\ next[all[i]].at = "queued"
  BY <1>1 DEF QueueHolds
<1>3. \A i \in 1..Len(queue), j \in 1..Len(queue) : all[i] = all[j] => i = j
  BY <1>1 DEF QueueHolds
<1>4. \A i \in DOMAIN all : i \in 1..Len(queue) \/ i = Len(queue) + 1
  BY <1>1
<1>5. QueueHolds(next, all)
  BY <1>1, <1>2, <1>3, <1>4 DEF QueueHolds
<1> QED BY <1>1, <1>5 DEF all

\* Without its first, a queue is one still.
LEMMA QueueShortened ==
  ASSUME NEW queue \in Seq(Instant), NEW row, QueueHolds(row, queue), queue # <<>>
  PROVE  /\ Tail(queue) \in Seq(Instant) /\ QueueHolds(row, Tail(queue))
         /\ Head(queue) \in Instant /\ row[Head(queue)].at = "queued"
         /\ \A i \in DOMAIN Tail(queue) : Tail(queue)[i] # Head(queue)
<1> DEFINE rest == Tail(queue)
<1>1. /\ rest \in Seq(Instant) /\ Len(queue) \in Nat /\ Len(queue) > 0
      /\ DOMAIN queue = 1..Len(queue) /\ DOMAIN rest = 1..(Len(queue) - 1)
      /\ \A i \in 1..(Len(queue) - 1) : rest[i] = queue[i + 1]
      /\ Head(queue) = queue[1] /\ queue[1] \in Instant
  OBVIOUS
<1> HIDE DEF rest
<1>2. 1 \in DOMAIN queue /\ \A i \in DOMAIN rest : i \in Int /\ i + 1 \in DOMAIN queue /\ i + 1 # 1
  BY <1>1
<1>3. \A i \in DOMAIN rest : rest[i] # queue[1] /\ row[rest[i]].at = "queued"
  BY <1>1, <1>2 DEF QueueHolds
<1>4. \A i \in DOMAIN rest, j \in DOMAIN rest : rest[i] = rest[j] => i = j
  <2> TAKE i \in DOMAIN rest, j \in DOMAIN rest
  <2>1. queue[i + 1] = queue[j + 1] => i + 1 = j + 1
    BY <1>2 DEF QueueHolds
  <2> QED BY <1>1, <1>2, <2>1
<1>5. row[queue[1]].at = "queued"
  BY <1>2 DEF QueueHolds
<1> QED BY <1>1, <1>3, <1>4, <1>5 DEF QueueHolds, rest

---------------------------------------------------------------------------
(* The release of a claim                                                  *)

\* repairDurableRelease: the claim is let go only once nobody holds it, and the
\* first firing that waits takes its turn only then.
LEMMA RepairedDoes ==
  ASSUME Inv, NEW s \in Scheduler, NEW k \in Instant, NEW o, o.cache \in Record,
         NEW row \in Row, QueueHolds(row, local[s].queue), NEW b, b = Repaired(s, k, o, row)
  PROVE  /\ b.l \in Local /\ Placed(b.l) /\ b.l.rec = local[s].rec /\ b.l.cache = o.cache
         /\ b.row \in Row /\ QueueHolds(b.row, b.l.queue)
         /\ b.l.active \in {local[s].active, NoKey}
         /\ local[s].active # k => b.l.active = local[s].active /\ b.l.rel = local[s].rel
         /\ \A j \in Instant :
              \/ b.row[j] = row[j]
              \/ row[j].at = "queued" /\ b.row[j].at = "settle"
              \/ row[j].at = "queued" /\ b.row[j].at = "claim" /\ o.cache.active = NoClaim
<1> DEFINE l == Cached(s, o)
           fails == l.failing /\ HasPendingDurableRepair([l EXCEPT !.rel = FALSE])
           free == [l EXCEPT !.active = NoKey, !.rel = FALSE, !.failing = fails]
           first == [free EXCEPT !.queue = Tail(@)]
           turn == [row EXCEPT ![Head(l.queue)] = [at |-> "claim", as |-> "none"]]
           none == [free EXCEPT !.queue = <<>>]
           cancelled == Displaced(row, Queue(l), "cancelled")
<1>1. /\ l \in Local /\ Placed(l) /\ l.rec = local[s].rec /\ l.cache = o.cache
      /\ l.active = local[s].active /\ l.rel = local[s].rel /\ l.queue = local[s].queue
  BY CachedKeeps DEF Inv
<1> HIDE DEF l
<1>2. /\ Failing(l) \in Local /\ Failing(l).rec = l.rec /\ Failing(l).cache = l.cache
      /\ Failing(l).active = l.active /\ Failing(l).rel = l.rel /\ Failing(l).queue = l.queue
  BY <1>1 DEF Failing, Local
<1>3. /\ free \in Local /\ free.rec = l.rec /\ free.cache = l.cache
      /\ free.active = NoKey /\ free.rel = FALSE /\ free.queue = l.queue
  <2>1. fails \in BOOLEAN /\ NoKey \in Instant
    BY <1>1, InstantTypes DEF HasPendingDurableRepair, Local, NoKey
  <2> HIDE DEF fails
  <2> QED BY <1>1, <2>1 DEF Local
<1> HIDE DEF free
<1>4. l.queue \in Seq(Instant)
  BY <1>1 DEF Local
<1>5. /\ none \in Local /\ none.rec = l.rec /\ none.cache = l.cache
      /\ none.active = NoKey /\ none.rel = FALSE /\ none.queue = <<>>
  <2>1. <<>> \in Seq(Instant)
    OBVIOUS
  <2> QED BY <1>3, <2>1 DEF Local
<1>6. /\ cancelled \in Row
      /\ \A j \in Instant : \/ cancelled[j] = row[j]
                            \/ row[j].at = "queued" /\ cancelled[j].at = "settle"
      /\ QueueHolds(cancelled, <<>>)
  BY <1>1 DEF Displaced, Row, Slot, Stage, Status, Queue, QueueHolds
<1>7. ASSUME l.queue # <<>>
      PROVE  /\ first \in Local /\ first.rec = l.rec /\ first.cache = l.cache
             /\ first.active = NoKey /\ first.rel = FALSE /\ first.queue = Tail(l.queue)
  <2>1. Tail(l.queue) \in Seq(Instant)
    BY <1>4, <1>7
  <2> QED BY <1>3, <2>1 DEF Local
<1>8. ASSUME l.queue # <<>>
      PROVE  /\ turn \in Row /\ QueueHolds(turn, Tail(l.queue))
             /\ \A j \in Instant : \/ turn[j] = row[j]
                                   \/ row[j].at = "queued" /\ turn[j].at = "claim"
  <2> DEFINE rest == Tail(l.queue)
             head == Head(l.queue)
  <2>1. /\ rest \in Seq(Instant) /\ QueueHolds(row, rest)
        /\ head \in Instant /\ row[head].at = "queued"
        /\ \A i \in DOMAIN rest : rest[i] # head
    BY <1>1, <1>4, <1>8, QueueShortened
  <2> HIDE DEF rest, head
  <2>2. [row EXCEPT ![head] = [at |-> "claim", as |-> "none"]] = turn
    BY DEF head
  <2>3. turn \in Row /\ \A j \in Instant : IF j = head THEN turn[j].at = "claim"
                                                      ELSE turn[j] = row[j]
    BY <2>1, <2>2 DEF Row, Slot, Stage, Status
  <2> HIDE DEF turn
  <2>4. QueueHolds(turn, rest)
    <3>1. \A i \in DOMAIN rest : rest[i] \in Instant
      BY <2>1
    <3> QED BY <2>1, <2>3, <3>1 DEF QueueHolds
  <2> QED BY <2>1, <2>3, <2>4 DEF rest
<1> HIDE DEF first, none, turn, cancelled
<1>9. \/ b = Both(Failing(l), row)
      \/ b = Both(l, row)
      \/ local[s].active = k /\ o.cache.active = NoClaim /\ l.queue # <<>> /\ b = Both(first, turn)
      \/ local[s].active = k /\ b = Both(none, cancelled)
  BY <1>1 DEF Repaired, l, free, first, none, turn, cancelled
<1>10. CASE b = Both(Failing(l), row)
  <2>1. b.l = Failing(l) /\ b.row = row
    BY <1>10 DEF Both
  <2> QED BY <1>1, <1>2, <2>1 DEF Placed
<1>11. CASE b = Both(l, row)
  <2>1. b.l = l /\ b.row = row
    BY <1>11 DEF Both
  <2> QED BY <1>1, <2>1
<1>12. CASE /\ local[s].active = k /\ o.cache.active = NoClaim
            /\ l.queue # <<>> /\ b = Both(first, turn)
  <2>1. b.l = first /\ b.row = turn
    BY <1>12 DEF Both
  <2> QED BY <1>1, <1>7, <1>8, <1>12, <2>1 DEF Placed
<1>13. CASE local[s].active = k /\ b = Both(none, cancelled)
  BY <1>1, <1>5, <1>6, <1>13 DEF Both, Placed
<1> QED BY <1>9, <1>10, <1>11, <1>12, <1>13

LEMMA ReleasePreserves ==
  ASSUME Inv, NEW s \in Scheduler, NEW k \in Instant, Release(s, k) PROVE Inv'
<1> DEFINE Wants(r) == ClearActive(s, k, r)
           gone == [inv[s] EXCEPT ![k] = Nowhere]
           done(o) == Repaired(s, k, o, gone)
<1>1. PICK o \in Outcomes(s, Wants(local[s].cache), Wants(store), TRUE) :
        /\ Commit(o)
        /\ Become(s, IF IsRepaired(o) THEN done(o) ELSE [done(o) EXCEPT !.l = ScheduleNext(@)])
  BY DEF Release, UpdateRecord, Outcomes
<1>2. Effect(s, o, Wants(store))
  BY OutcomeEffect DEF Inv, Typed, CurrentOK
<1>3. inv[s][k].at = "release" /\ inv[s] \in Row /\ store \in Record
  BY LocalTypes DEF Release, At, Inv
<1>4. /\ store' \in Record /\ faults' \in 0..setup.faults
      /\ o.cache \in Record /\ o.cache \in {local[s].cache, store, store'}
      /\ \A t \in current' : IF t = s THEN o.cache = store'
                             ELSE t \in current /\ store' = store
  <2>1. Wants(store) \subseteq Record
    BY <1>3, ClearActiveWrites
  <2> QED BY <1>1, <1>2, <2>1, CommitEffect DEF Inv
<1>5. /\ store'.watermark = store.watermark /\ store'.last = store.last
      /\ store'.issue = store.issue
      /\ store'.active # store.active => store.active = Claim(s, k)
  BY <1>1, <1>2, ClearEffect DEF Inv
<1>6. /\ gone \in Row /\ QueueHolds(gone, local[s].queue)
      /\ \A j \in Instant : IF j = k THEN gone[j].at = "none" ELSE gone[j] = inv[s][j]
  <2>1. QueueHolds(gone, local[s].queue)
    BY <1>3, QueueElsewhere
  <2> QED BY <1>3, <2>1 DEF Row, Slot, Stage, Status, Nowhere
<1> HIDE DEF gone
<1> DEFINE b == done(o)
           l == local'[s]
           row == inv'[s]
<1>7. /\ b.l \in Local /\ Placed(b.l) /\ b.l.cache = o.cache
      /\ b.row \in Row /\ QueueHolds(b.row, b.l.queue)
      /\ b.l.active \in {local[s].active, NoKey}
      /\ local[s].active # k => b.l.active = local[s].active /\ b.l.rel = local[s].rel
      /\ \A j \in Instant :
           \/ b.row[j] = gone[j]
           \/ gone[j].at = "queued" /\ b.row[j].at = "settle"
           \/ gone[j].at = "queued" /\ b.row[j].at = "claim" /\ o.cache.active = NoClaim
  BY <1>4, <1>6, RepairedDoes
<1>8. Become(s, b) \/ Become(s, [b EXCEPT !.l = ScheduleNext(@)])
  BY <1>1, Zenon
<1>9. b = Both(b.l, b.row)
  BY DEF Repaired, Both
<1> HIDE DEF b
<1>10. Kept(b.l, ScheduleNext(b.l))
  BY <1>7, ScheduleNextKeeps
<1>11. /\ local' = [local EXCEPT ![s] = l] /\ inv' = [inv EXCEPT ![s] = row]
       /\ row = b.row /\ l \in {b.l, ScheduleNext(b.l)}
  BY <1>8, <1>9 DEF Become, Both, Inv, Typed, TypeOK
<1> HIDE DEF l, row
<1>12. /\ l \in Local /\ Placed(l) /\ l.cache = o.cache /\ row \in Row
       /\ QueueHolds(row, l.queue) /\ l.active \in {local[s].active, NoKey}
       /\ local[s].active # k => l.active = local[s].active /\ l.rel = local[s].rel
  BY <1>7, <1>10, <1>11 DEF Kept, Same
<1>13. local'[s] = l /\ inv'[s] = row /\ UNCHANGED <<world, host>>
  BY <1>11, <1>12 DEF Inv, Typed, TypeOK, Release
<1>14. Typed'
  BY <1>4, <1>11, <1>12, <1>13, StepTyped DEF Inv, Typed, TypeOK, host
<1>15. /\ row[k].at = "none"
       /\ \A j \in Instant :
            \/ row[j] = inv[s][j]
            \/ j = k
            \/ inv[s][j].at = "queued" /\ row[j].at = "settle"
            \/ inv[s][j].at = "queued" /\ row[j].at = "claim" /\ o.cache.active = NoClaim
  BY <1>6, <1>7, <1>11
<1>16. Moves(s)
  BY <1>5, <1>12, <1>13, <1>15, FiringFacts DEF Moves, host, Beyond, Ahead, Stage
<1>17. Honours(s)
  <2>1. \A t \in Scheduler, j \in Instant :
          (inv'[t][j].at = "claim" \/ <<t, j>> \in flying) => ~(t = s /\ j = k)
    BY <1>3, <1>13, <1>15, FiringFacts
  <2>2. \A j \in Instant :
          row[j].at = "claim" /\ o.cache.active = Claim(s, j)
            => store.active = Claim(s, j) \/ store'.active = Claim(s, j)
    BY <1>4, <1>15, FiringFacts, ClaimInjective
  <2>3. \A j \in Instant : <<s, j>> \in flying =>
          /\ row[j].at \in {"emit", "land", "late"}
          /\ row[j].at = "land" => row[j].as = "unknown"
          /\ l.active = j /\ ~l.rel
    BY <1>3, <1>12, <1>15, FiringFacts
  <2>4. \A t \in Scheduler, j \in Instant :
       (inv'[t][j].at = "claim" \/ <<t, j>> \in flying) /\ store.active = Claim(t, j)
         => store'.active = Claim(t, j)
    BY <1>5, <2>1, ClaimInjective
  <2> QED BY <1>5, <1>12, <1>13, <2>2, <2>3, <2>4 DEF Honours, host
<1>18. Safe'
  BY <1>4, <1>11, <1>16, <1>17, MovesSafe
\* What is let go is over, or there is an issue.
<1>19. Accounts(s)
  <2>1. ~store.issue => k \notin Awaited
    BY <1>3 DEF EndedOK, Inv, Told
  <2>2. \A j \in Instant : /\ row[j].at \in Unemitted => inv[s][j].at \in Unemitted
                           /\ row[j].at \in {"late", "release"} => row[j] = inv[s][j]
    BY <1>15 DEF Unemitted
  <2>3. \A t \in Scheduler, j \in Instant \ {k} :
          store.active = Claim(t, j) => store'.active = Claim(t, j)
    BY <1>5, ClaimInjective
  <2>4. \A j \in Instant \ {k, NoKey} :
          l.active = j => local[s].active = j /\ l.rel = local[s].rel
    BY <1>12
  <2> QED BY <1>4, <1>5, <1>12, <1>13, <2>1, <2>2, <2>3, <2>4, FiringFacts, OpenInstants
          DEF Accounts, Awaited, host
<1>20. Told'
  BY <1>4, <1>11, <1>13, <1>19, AccountsTold
<1> QED BY <1>14, <1>18, <1>20 DEF Inv

LEMMA RepairReleasePreserves ==
  ASSUME Inv, NEW s \in Scheduler, RepairRelease(s) PROVE Inv'
<1> DEFINE k == local[s].active
           Wants(r) == ClearActive(s, k, r)
           done(o) == Repaired(s, k, o, inv[s])
<1>1. /\ inv[s] \in Row /\ local[s] \in Local /\ now \in Instant /\ store \in Record
      /\ local[s].rec.pc \in {"mend", "repair"} /\ k \in Instant
  BY LocalTypes DEF RepairRelease, Inv, Local
<1>2. \A l \in Local : l.rec.pc = local[s].rec.pc =>
        Kept(l, Finish(l)) /\ \A row \in Row : Passes(l, row, NextRec(s, l, row, "repair"))
  BY <1>1, FinishKeeps, NextRecPasses
<1>3. CASE /\ ~local[s].rel
           /\ Become(s, IF local[s].rec.pc = "repair"
                          THEN NextRec(s, local[s], inv[s], "repair")
                          ELSE Both(Finish(local[s]), inv[s]))
           /\ UNCHANGED disk
  <2> DEFINE b == IF local[s].rec.pc = "repair" THEN NextRec(s, local[s], inv[s], "repair")
                  ELSE Both(Finish(local[s]), inv[s])
  <2>1. Kept(local[s], b.l) /\ RowGrows(inv[s], b.row)
    BY <1>1, <1>2 DEF Passes, Both, RowGrows
  <2>2. local' = [local EXCEPT ![s] = b.l] /\ inv' = [inv EXCEPT ![s] = b.row]
        /\ UNCHANGED <<world, disk, host>>
    BY <1>3, Zenon DEF Become, RepairRelease
  <2> HIDE DEF b
  <2>3. MaintenanceStep(s)
    BY <2>1, <2>2, QuietMaintains DEF Inv
  <2> QED BY <2>3, MaintenanceTyped, MaintenanceSafe, MaintenanceTold DEF Inv
<1>4. ASSUME local[s].rel,
             NEW o \in Outcomes(s, Wants(local[s].cache), Wants(store), TRUE),
             Commit(o),
             Become(s, IF IsRepaired(o) /\ local[s].rec.pc = "repair"
                         THEN NextRec(s, done(o).l, done(o).row, "repair")
                         ELSE [done(o) EXCEPT !.l = Finish(@)])
      PROVE  Inv'
  <2>1. Effect(s, o, Wants(store))
    BY OutcomeEffect DEF Inv, Typed, CurrentOK
  <2>2. /\ store' \in Record /\ faults' \in 0..setup.faults
        /\ o.cache \in Record /\ o.cache \in {local[s].cache, store, store'}
        /\ \A t \in current' : IF t = s THEN o.cache = store'
                               ELSE t \in current /\ store' = store
    <3>1. Wants(store) \subseteq Record
      BY <1>1, ClearActiveWrites
    <3> QED BY <1>4, <2>1, <3>1, CommitEffect DEF Inv
  <2>3. /\ store'.watermark = store.watermark /\ store'.last = store.last
        /\ store'.issue = store.issue
        /\ store'.active # store.active => store.active = Claim(s, k)
    BY <1>4, <2>1, ClearEffect DEF Inv
  <2> DEFINE b == done(o)
             l == local'[s]
             row == inv'[s]
  <2>4. /\ b.l \in Local /\ b.l.rec = local[s].rec /\ b.l.cache = o.cache
        /\ b.row \in Row /\ QueueHolds(b.row, b.l.queue)
        /\ b.l.active \in {k, NoKey}
        /\ \A j \in Instant :
             \/ b.row[j] = inv[s][j]
             \/ inv[s][j].at = "queued" /\ b.row[j].at = "settle"
             \/ inv[s][j].at = "queued" /\ b.row[j].at = "claim" /\ o.cache.active = NoClaim
    BY <1>1, <2>2, FiringFacts, RepairedDoes
  <2>5. \/ Become(s, NextRec(s, b.l, b.row, "repair"))
        \/ Become(s, [b EXCEPT !.l = Finish(@)])
    BY <1>4, Zenon
  <2>6. b = Both(b.l, b.row)
    BY DEF Repaired, Both
  <2> HIDE DEF b
  <2>7. /\ local' = [local EXCEPT ![s] = l] /\ inv' = [inv EXCEPT ![s] = row]
        /\ Kept(b.l, l) /\ RowGrows(b.row, row)
    <3>1. Kept(b.l, Finish(b.l)) /\ Passes(b.l, b.row, NextRec(s, b.l, b.row, "repair"))
      BY <1>2, <2>4
    <3>2. CASE Become(s, NextRec(s, b.l, b.row, "repair"))
      BY <3>1, <3>2 DEF Become, Passes, Inv, Typed, TypeOK
    <3>3. CASE Become(s, [b EXCEPT !.l = Finish(@)])
      BY <2>4, <2>6, <3>1, <3>3 DEF Become, RowGrows, Both, Inv, Typed, TypeOK
    <3> QED BY <2>5, <3>2, <3>3
  <2>8. local'[s] = l /\ inv'[s] = row /\ UNCHANGED <<world, host>>
    BY DEF RepairRelease
  <2> HIDE DEF l, row
  <2>9. /\ l \in Local /\ Placed(l) /\ l.cache = o.cache /\ row \in Row
        /\ l.active \in {k, NoKey} /\ l.queue = b.l.queue
    BY <2>4, <2>7 DEF Kept, Same, RowGrows
  <2>10. \A j \in Instant :
           \/ row[j] = inv[s][j]
           \/ row[j].at = "admit"
           \/ inv[s][j].at = "queued" /\ row[j].at = "settle"
           \/ inv[s][j].at = "queued" /\ row[j].at = "claim" /\ o.cache.active = NoClaim
    BY <2>4, <2>7 DEF RowGrows
  <2>11. QueueHolds(row, l.queue)
    <3>1. \A i \in DOMAIN l.queue : l.queue[i] \in Instant
      BY <2>9 DEF Local
    <3>2. \A j \in Instant : b.row[j].at = "queued" => row[j] = b.row[j]
      BY <2>7 DEF RowGrows, Nowhere
    <3> QED BY <2>4, <2>9, <3>1, <3>2 DEF QueueHolds
  <2>12. Typed'
    BY <2>2, <2>7, <2>8, <2>9, StepTyped DEF Inv, Typed, TypeOK, host
  \* Owing a release, the scheduler has nothing in flight.
  <2>13. \A j \in Instant : <<s, j>> \notin flying
    BY <1>4, FiringFacts
  <2>14. Moves(s)
    BY <2>3, <2>8, <2>9, <2>10, <2>11, FiringFacts DEF Moves, host, Beyond, Ahead, Stage
  <2>15. Honours(s)
    \* What it carries out was emitted, and so does not wait to be.
    <3>1. inv[s][k].at \notin Ahead
      BY <1>1 DEF Inv, Safe, ActiveOK, EmitsOK, ReservedOK, Ahead, Beyond, Stage, NoKey
    <3>2. \A t \in Scheduler, j \in Instant :
            (inv'[t][j].at = "claim" \/ <<t, j>> \in flying) => ~(t = s /\ j = k)
      BY <1>1, <2>8, <2>10, <2>13, <3>1 DEF Ahead
    <3>3. \A j \in Instant :
            row[j].at = "claim" /\ o.cache.active = Claim(s, j)
              => store.active = Claim(s, j) \/ store'.active = Claim(s, j)
      BY <2>2, <2>10, FiringFacts, ClaimInjective
    <3>4. \A t \in Scheduler, j \in Instant :
         (inv'[t][j].at = "claim" \/ <<t, j>> \in flying) /\ store.active = Claim(t, j)
           => store'.active = Claim(t, j)
      BY <2>3, <3>2, ClaimInjective
    <3> QED BY <2>3, <2>8, <2>9, <2>13, <3>3, <3>4 DEF Honours, host
  <2>16. Safe'
    BY <2>2, <2>7, <2>14, <2>15, MovesSafe
  <2>17. Accounts(s)
    <3>1. ~store.issue => k \notin Awaited
      BY <1>4 DEF CarriedOK, Inv, Told
    <3>2. \A j \in Instant : /\ row[j].at \in Unemitted => inv[s][j].at \in Unemitted
                             /\ row[j].at \in {"late", "release"} => row[j] = inv[s][j]
      BY <2>10 DEF Unemitted
    <3>3. \A t \in Scheduler, j \in Instant \ {k} :
            store.active = Claim(t, j) => store'.active = Claim(t, j)
      BY <2>3, ClaimInjective
    <3>4. \A j \in Instant \ {k, NoKey} : l.active # j
      BY <2>9
    <3> QED BY <2>2, <2>3, <2>8, <2>9, <3>1, <3>2, <3>3, <3>4, FiringFacts, OpenInstants
            DEF Accounts, Awaited, host
  <2>18. Told'
    BY <2>2, <2>7, <2>8, <2>17, AccountsTold
  <2> QED BY <2>12, <2>16, <2>18 DEF Inv
<1>5. ASSUME ~(/\ ~local[s].rel
               /\ Become(s, IF local[s].rec.pc = "repair"
                              THEN NextRec(s, local[s], inv[s], "repair")
                              ELSE Both(Finish(local[s]), inv[s]))
               /\ UNCHANGED disk)
      PROVE  /\ local[s].rel
             /\ \E o \in Outcomes(s, Wants(local[s].cache), Wants(store), TRUE) :
                  /\ Commit(o)
                  /\ Become(s, IF IsRepaired(o) /\ local[s].rec.pc = "repair"
                                 THEN NextRec(s, done(o).l, done(o).row, "repair")
                                 ELSE [done(o) EXCEPT !.l = Finish(@)])
  BY <1>5 DEF RepairRelease, UpdateRecord, Outcomes
<1> QED BY <1>3, <1>4, <1>5

---------------------------------------------------------------------------
(* The claim of a firing and its emission                                  *)

\* A claim is written over none; what is thought to be claimed is.
LEMMA ClaimEffect ==
  ASSUME Inv, NEW s \in Scheduler, NEW k \in Instant, NEW o, inv[s][k].at = "claim",
         Effect(s, o, ClaimActive(s, k, store)), Commit(o)
  PROVE  /\ store'.watermark = store.watermark /\ store'.last = store.last
         /\ store'.issue = store.issue
         /\ store'.active # store.active => store.active = NoClaim
         /\ Did(o) /\ o.cache.active = Claim(s, k)
              => store'.active = Claim(s, k) /\ store.active \in {NoClaim, Claim(s, k)}
<1>1. store \in Record
  BY LocalTypes DEF Inv
<1>2. \A n \in ClaimActive(s, k, store) :
        /\ store.active = NoClaim /\ n.active = Claim(s, k)
        /\ n.watermark = store.watermark /\ n.last = store.last /\ n.issue = store.issue
  BY <1>1, ClaimActiveWrites
<1>3. local[s].cache.active = Claim(s, k) => store.active = Claim(s, k)
  BY FiringFacts
<1> QED BY <1>2, <1>3 DEF Effect, Commit, Did

LEMMA ClaimFiringPreserves ==
  ASSUME Inv, NEW s \in Scheduler, NEW k \in Instant, ClaimFiring(s, k) PROVE Inv'
<1> DEFINE Wants(r) == ClaimActive(s, k, r)
           l(o) == Cached(s, o)
           Emits(o) ==
             /\ Did(o) /\ l(o).cache.active = Claim(s, k)
             /\ Set(s, [l(o) EXCEPT !.active = k, !.rel = FALSE])
             /\ flying' = flying \cup {<<s, k>>}
             /\ emits' = [emits EXCEPT ![k] = @ + 1]
             /\ Goto(s, k, "emit", "none")
             /\ UNCHANGED <<open, untold>>
           Skips(o) ==
             /\ Set(s, [l(o) EXCEPT !.unsettled = TRUE]) /\ Goto(s, k, "settle", "skipped")
             /\ UNCHANGED host
           Fails(o) == Set(s, Failing(l(o))) /\ Leave(s, k) /\ UNCHANGED host
<1>1. PICK o \in Outcomes(s, Wants(local[s].cache), Wants(store), FALSE) :
        Commit(o) /\ (Emits(o) \/ Skips(o) \/ Fails(o))
  BY DEF ClaimFiring, UpdateRecord, Outcomes
<1>2. Effect(s, o, Wants(store))
  BY OutcomeEffect DEF Inv, Typed, CurrentOK
<1>3. inv[s][k].at = "claim" /\ inv[s] \in Row /\ store \in Record
  BY LocalTypes DEF ClaimFiring, At, Inv
<1>4. /\ store' \in Record /\ faults' \in 0..setup.faults
      /\ o.cache \in Record /\ o.cache \in {local[s].cache, store, store'}
      /\ \A t \in current' : IF t = s THEN o.cache = store'
                             ELSE t \in current /\ store' = store
  <2>1. Wants(store) \subseteq Record
    BY <1>3, ClaimActiveWrites
  <2> QED BY <1>1, <1>2, <2>1, CommitEffect DEF Inv
<1>5. /\ store'.watermark = store.watermark /\ store'.last = store.last
      /\ store'.issue = store.issue
      /\ store'.active # store.active => store.active = NoClaim
      /\ Did(o) /\ o.cache.active = Claim(s, k)
           => store'.active = Claim(s, k) /\ store.active \in {NoClaim, Claim(s, k)}
  BY <1>1, <1>2, <1>3, ClaimEffect
<1> DEFINE c == l(o)
<1>6. /\ c \in Local /\ Placed(c) /\ c.cache = o.cache /\ c.rec = local[s].rec
      /\ c.active = local[s].active /\ c.rel = local[s].rel /\ c.queue = local[s].queue
  BY <1>4, CachedKeeps DEF Inv
<1> HIDE DEF c
<1>7. UNCHANGED world
  BY DEF ClaimFiring
<1>8. ASSUME NEW m \in Local, NEW to, NEW why, Placed(m), m.cache = o.cache,
             m.active = c.active, m.rel = c.rel, m.queue = c.queue,
             Set(s, m), inv' = [inv EXCEPT ![s][k] = [at |-> to, as |-> why]],
             to \in {"settle", "none"}, why \in Status, UNCHANGED host
      PROVE  Inv'
  <2> DEFINE row == [inv[s] EXCEPT ![k] = [at |-> to, as |-> why]]
  <2>1. /\ local' = [local EXCEPT ![s] = m] /\ inv' = [inv EXCEPT ![s] = row] /\ row \in Row
        /\ \A j \in Instant : IF j = k THEN row[j].at = to ELSE row[j] = inv[s][j]
    BY <1>3, <1>8 DEF Set, Row, Slot, Stage, Inv, Typed, TypeOK
  <2>2. QueueHolds(row, m.queue)
    BY <1>3, <1>6, <1>8, QueueElsewhere
  <2> HIDE DEF row
  <2>3. local'[s] = m /\ inv'[s] = row
    BY <2>1 DEF Inv, Typed, TypeOK
  <2>4. Typed'
    BY <1>4, <1>7, <1>8, <2>1, StepTyped DEF Inv, Typed, TypeOK, host
  <2>5. Moves(s)
    <3>1. store.watermark <= store'.watermark
      BY <1>5, FiringFacts
    <3>2. \A j \in Instant : /\ row[j].at \in Beyond => inv[s][j].at \in Beyond
                             /\ row[j].at \in Ahead => inv[s][j].at \in Ahead
      <4>1. inv[s][k].at \in Beyond /\ to \notin Ahead
        BY <1>3, <1>8 DEF Beyond, Ahead, Stage
      <4> QED BY <2>1, <4>1
    <3>3. emits' = emits /\ flying' \subseteq flying /\ m.active = local[s].active
      BY <1>6, <1>8 DEF host
    <3> QED BY <2>2, <2>3, <3>1, <3>2, <3>3 DEF Moves
  <2>6. Honours(s)
    <3>1. \A t \in Scheduler, j \in Instant :
            store.active = Claim(t, j) => store'.active = Claim(t, j)
      BY <1>5, ClaimInjective
    <3>2. \A j \in Instant : row[j].at = "claim" => j # k /\ inv[s][j].at = "claim"
      BY <1>8, <2>1
    <3>3. \A j \in Instant : row[j].at = "claim" /\ m.cache.active = Claim(s, j)
            => store.active = Claim(s, j) \/ store'.active = Claim(s, j)
      BY <1>4, <1>8, <3>2, FiringFacts
    <3>4. \A j \in Instant : <<s, j>> \in flying =>
            /\ row[j].at \in {"emit", "land", "late"}
            /\ row[j].at = "land" => row[j].as = "unknown"
            /\ m.active = j /\ ~m.rel
      BY <1>3, <1>6, <1>8, <2>1, FiringFacts
    <3> QED BY <1>5, <1>8, <2>3, <3>1, <3>3, <3>4 DEF Honours, host
  <2>7. Safe'
    BY <1>4, <2>1, <2>5, <2>6, MovesSafe
  <2>8. Accounts(s)
    <3>1. \A j \in Instant : /\ row[j].at \in Unemitted => inv[s][j].at \in Unemitted
                             /\ row[j].at \in {"late", "release"} => row[j] = inv[s][j]
      BY <1>3, <1>8, <2>1 DEF Unemitted
    <3>2. \A t \in Scheduler, j \in Instant :
            store.active = Claim(t, j) => store'.active = Claim(t, j)
      BY <1>5, ClaimInjective
    <3> QED BY <1>4, <1>5, <1>6, <1>8, <2>3, <3>1, <3>2, FiringFacts, OpenInstants
            DEF Accounts, host
  <2>9. Told'
    BY <1>4, <2>1, <2>3, <2>8, AccountsTold
  <2> QED BY <2>4, <2>7, <2>9 DEF Inv
<1>9. CASE Skips(o)
  <2> DEFINE m == [c EXCEPT !.unsettled = TRUE]
  <2>1. m \in Local /\ Placed(m) /\ m.cache = c.cache /\ m.active = c.active
        /\ m.rel = c.rel /\ m.queue = c.queue
    BY <1>6 DEF Local, Placed
  <2>2. Set(s, m) /\ inv' = [inv EXCEPT ![s][k] = [at |-> "settle", as |-> "skipped"]]
        /\ UNCHANGED host
    BY <1>9 DEF Goto, c
  <2> HIDE DEF m
  <2>3. "skipped" \in Status
    BY DEF Status
  <2> QED BY <1>6, <1>8, <2>1, <2>2, <2>3
<1>10. CASE Fails(o)
  <2>1. Same(c, Failing(c)) /\ Failing(c).rec = c.rec
    BY <1>6, FlagKeeps DEF Failing, Local
  <2>2. Set(s, Failing(c)) /\ inv' = [inv EXCEPT ![s][k] = [at |-> "none", as |-> "none"]]
        /\ UNCHANGED host
    BY <1>10 DEF Leave, Nowhere, c
  <2>3. "none" \in Status /\ Placed(Failing(c))
    BY <1>6, <2>1 DEF Status, Placed
  <2> QED BY <1>6, <1>8, <2>1, <2>2, <2>3 DEF Same
<1>11. CASE Emits(o)
  <2> DEFINE m == [c EXCEPT !.active = k, !.rel = FALSE]
             row == [inv[s] EXCEPT ![k] = [at |-> "emit", as |-> "none"]]
  <2>1. /\ m \in Local /\ Placed(m) /\ m.cache = o.cache /\ m.active = k /\ ~m.rel
        /\ m.queue = local[s].queue
    BY <1>6 DEF Local, Placed
  <2>2. /\ local' = [local EXCEPT ![s] = m] /\ inv' = [inv EXCEPT ![s] = row] /\ row \in Row
        /\ \A j \in Instant : IF j = k THEN row[j].at = "emit" ELSE row[j] = inv[s][j]
    BY <1>3, <1>11 DEF Set, Goto, Row, Slot, Stage, Status, Inv, Typed, TypeOK, c
  <2>3. QueueHolds(row, m.queue)
    BY <1>3, <2>1, QueueElsewhere
  <2> HIDE DEF m, row
  <2>4. /\ local'[s] = m /\ inv'[s] = row
        /\ \A t \in Scheduler \ {s} : inv'[t] = inv[t] /\ local'[t] = local[t]
    BY <2>2 DEF Inv, Typed, TypeOK
  <2>5. store'.active = Claim(s, k) /\ store.active \in {NoClaim, Claim(s, k)}
    BY <1>5, <1>6, <1>11 DEF c
  \* Nobody holds the claim, or it is this firing's, which has not been emitted.
  <2>6. \A t \in Scheduler, j \in Instant : <<t, j>> \notin flying
    <3> SUFFICES ASSUME NEW t \in Scheduler, NEW j \in Instant, <<t, j>> \in flying PROVE FALSE
      OBVIOUS
    <3>1. store.active = Claim(t, j) /\ inv[t][j].at \in {"emit", "land", "late"}
      BY DEF Inv, Safe, FlyingOK
    <3> QED BY <1>3, <2>5, <3>1, ClaimInjective
  <2>7. flying' = {<<s, k>>} /\ open' = open /\ untold' = untold
    <3>1. flying = {}
      BY <2>6 DEF Inv, Typed, TypeOK
    <3> QED BY <1>11, <3>1
  <2>8. /\ emits \in [Instant -> Nat] /\ emits[k] = 0 /\ 0 < k /\ k <= store.watermark
        /\ \A t \in Scheduler : inv[t][k].at \in Beyond => t = s
    BY <1>3 DEF Inv, Typed, TypeOK, Safe, EmitsOK, ReservedOK, Ahead, Beyond, Stage
  <2>9. emits' \in [Instant -> Nat] /\ \A j \in Instant : emits'[j] = IF j = k THEN 1 ELSE emits[j]
    BY <1>11, <2>8
  <2>10. Typed'
    <3>1. /\ flying' \subseteq Scheduler \X Instant
          /\ open' \subseteq Instant /\ untold' \subseteq Instant
      BY <2>7 DEF Inv, Typed, TypeOK
    <3> QED BY <1>4, <1>7, <2>1, <2>2, <2>9, <3>1, StepTyped DEF Inv
  <2>11. \A t \in Scheduler, j \in Instant :
           /\ inv'[t][j].at \in Beyond => inv[t][j].at \in Beyond
           /\ inv'[t][j].at \in Ahead => inv[t][j].at \in Ahead /\ ~(t = s /\ j = k)
    BY <1>3, <2>2, <2>4 DEF Ahead, Beyond, Stage
  <2>12. ReservedOK'
    BY <1>5, <2>11 DEF ReservedOK, Inv, Safe
  <2>13. EmitsOK'
    <3> SUFFICES ASSUME NEW j \in Instant
                 PROVE  /\ emits'[j] <= 1
                        /\ emits'[j] > 0 => j <= store'.watermark
                        /\ \A t \in Scheduler : inv'[t][j].at \in Ahead => emits'[j] = 0
      BY DEF EmitsOK
    <3>1. CASE j = k
      <4>1. \A t \in Scheduler : inv'[t][k].at \notin Ahead
        BY <2>8, <2>11 DEF Ahead, Beyond, Stage
      <4> QED BY <1>5, <2>8, <2>9, <3>1, <4>1
    <3>2. CASE j # k
      BY <1>5, <2>9, <2>11, <3>2 DEF EmitsOK, Inv, Safe
    <3> QED BY <3>1, <3>2
  <2>14. QueueOK'
    BY <2>3, <2>4 DEF QueueOK, Inv, Safe
  <2>15. ActiveOK'
    <3> SUFFICES ASSUME NEW t \in Scheduler, local'[t].active # NoKey
                 PROVE  emits'[local'[t].active] > 0
      BY DEF ActiveOK
    <3>1. CASE t = s
      BY <2>1, <2>4, <2>9, <3>1
    <3>2. CASE t # s
      <4>1. local[t].active \in Instant /\ emits[local[t].active] > 0 /\ local'[t] = local[t]
        BY <2>4, <3>2, LocalTypes DEF ActiveOK, Inv, Safe, Local
      <4> QED BY <2>9, <4>1
    <3> QED BY <3>1, <3>2
  <2>16. ClaimOK'
    <3> SUFFICES ASSUME NEW t \in Scheduler, NEW j \in Instant, inv'[t][j].at = "claim",
                        local'[t].cache.active = Claim(t, j)
                 PROVE  FALSE
      BY DEF ClaimOK
    <3>1. ~(t = s /\ j = k) /\ inv[t][j].at = "claim"
      BY <2>2, <2>4
    <3>2. CASE t = s
      BY <1>6, <1>11, <2>1, <2>4, <3>1, <3>2, ClaimInjective DEF c
    <3>3. CASE t # s
      BY <2>4, <2>5, <3>1, <3>3, ClaimInjective DEF ClaimOK, Inv, Safe
    <3> QED BY <3>2, <3>3
  <2>17. OutcomeOK'
    <3>1. inv[s][k].at \in Ahead
      BY <1>3 DEF Ahead
    <3> QED BY <1>5, <2>7, <2>11, <3>1 DEF OutcomeOK, Inv, Safe
  <2>18. FlyingOK'
    BY <2>1, <2>2, <2>4, <2>5, <2>7 DEF FlyingOK
  <2>19. IssueOK' /\ OpenOK'
    <3>1. m.cache.issue => store.issue
      BY <1>4, <1>5, <2>1 DEF IssueOK, Inv, Told
    <3> QED BY <1>5, <2>4, <2>7, <3>1 DEF IssueOK, OpenOK, Inv, Told
  <2>20. \A t \in Scheduler, j \in Instant :
           /\ inv'[t][j].at \in Unemitted => inv[t][j].at \in Unemitted /\ j # k
           /\ inv'[t][j].at \in {"late", "release"} => inv[t][j].at \in {"late", "release"}
    <3>1. \A t \in Scheduler : inv[t][k].at \in Unemitted => t = s
      BY <2>8 DEF Unemitted, Beyond, Stage
    <3> QED BY <2>2, <2>4, <3>1 DEF Unemitted
  <2>21. UnemittedOK'
    BY <2>9, <2>20 DEF UnemittedOK, Inv, Told
  \* Nobody held the claim: whatever is not over has the outcome on record.
  <2>22. ASSUME ~store.issue, NEW j \in Awaited
         PROVE  /\ store'.last = Unknown(j) \/ \E t \in Scheduler : store'.active = Claim(t, j)
                /\ \A t \in Scheduler :
                     /\ local'[t].active = j => store'.active = Claim(t, j) /\ ~local'[t].rel
                     /\ inv'[t][j].at \notin {"late", "release"}
                     /\ inv'[t][j].at \in Unemitted => store'.last = Unknown(j)
    <3>1. store'.last = Unknown(j) \/ \E t \in Scheduler : store'.active = Claim(t, j)
      BY <1>5, <2>5, <2>22, ClaimInjective DEF HeldOK, Inv, Told
    <3>2. ASSUME NEW t \in Scheduler
          PROVE  local'[t].active = j => store'.active = Claim(t, j) /\ ~local'[t].rel
      <4>1. CASE t = s
        BY <2>1, <2>4, <2>5, <4>1
      <4>2. CASE t # s
        <5>1. local[t].active = j => store.active = Claim(t, j)
          BY <2>22 DEF CarriedOK, Inv, Told
        <5> QED BY <2>4, <2>5, <4>2, <5>1, ClaimInjective
      <4> QED BY <4>1, <4>2
    <3>3. j \in Instant
      BY OpenInstants DEF Awaited
    <3>4. \A t \in Scheduler : /\ inv[t][j].at \notin {"late", "release"}
                               /\ inv[t][j].at \in Unemitted => store.last = Unknown(j)
      BY <2>22 DEF EndedOK, WaitingOK, Inv, Told
    <3> QED BY <1>5, <2>20, <3>1, <3>2, <3>3, <3>4
  <2>23. LastOK' /\ HeldOK' /\ CarriedOK' /\ EndedOK' /\ WaitingOK'
    <3>1. open' = open /\ untold' = untold /\ store'.issue = store.issue
          /\ store'.last = store.last
      BY <1>5, <2>7
    <3> QED BY <2>22, <3>1
            DEF LastOK, HeldOK, CarriedOK, EndedOK, WaitingOK, Awaited, Unknown, Inv, Told
  <2>24. Told'
    BY <2>19, <2>21, <2>23 DEF Told
  <2> QED BY <2>10, <2>12, <2>13, <2>14, <2>15, <2>16, <2>17, <2>18, <2>24 DEF Inv, Safe
<1> QED BY <1>1, <1>9, <1>10, <1>11

---------------------------------------------------------------------------
(* The reservation of a firing, and what becomes of it                     *)

\* What is displaced from the queue, is settled; the rest of the row stays.
LEMMA DisplacedDoes ==
  ASSUME NEW row \in Row, NEW keys, NEW status \in Status
  PROVE  /\ Displaced(row, keys, status) \in Row
         /\ \A j \in Instant : IF j \in keys THEN Displaced(row, keys, status)[j].at = "settle"
                                             ELSE Displaced(row, keys, status)[j] = row[j]
BY DEF Displaced, Row, Slot, Stage

LEMMA AbortedDoes ==
  ASSUME NEW row \in Row, NEW k \in Instant
  PROVE  /\ Aborted(row, k) \in Row
         /\ \A j \in Instant :
              \/ Aborted(row, k)[j] = row[j]
              \/ /\ j = k /\ row[j].at = "emit"
                 /\ Aborted(row, k)[j].at = "land" /\ Aborted(row, k)[j].as = "unknown"
BY DEF Aborted, Row, Slot, Stage, Status

\* What an admission makes of the firings of a scheduler.
Places(l, k, row, b) ==
  /\ b.l \in Local /\ b.l.rec = l.rec /\ b.l.cache = l.cache
  /\ b.l.active = l.active /\ b.l.rel = l.rel
  /\ b.row \in Row /\ QueueHolds(b.row, b.l.queue)
  /\ b.row[k].at \in {"unclaim", "claim", "queued", "settle"}
  /\ \A j \in Instant :
       \/ b.row[j] = row[j]
       \/ j = k
       \/ row[j].at = "queued" /\ b.row[j].at = "settle"
       \/ row[j].at = "emit" /\ b.row[j].at = "land" /\ b.row[j].as = "unknown"

LEMMA RequeuePlaces ==
  ASSUME NEW l \in Local, NEW k \in Instant, NEW row \in Row, NEW queue \in Seq(Instant),
         NEW next \in Row, QueueHolds(next, queue),
         next[k].at \in {"queued", "settle"},
         \A j \in Instant :
           \/ next[j] = row[j]
           \/ j = k
           \/ row[j].at = "queued" /\ next[j].at = "settle"
           \/ row[j].at = "emit" /\ next[j].at = "land" /\ next[j].as = "unknown"
  PROVE  Places(l, k, row, Both([l EXCEPT !.queue = queue], next))
<1> DEFINE m == [l EXCEPT !.queue = queue]
<1>1. /\ m \in Local /\ m.rec = l.rec /\ m.cache = l.cache /\ m.active = l.active
      /\ m.rel = l.rel /\ m.queue = queue
  BY DEF Local
<1> HIDE DEF m
<1>2. Both(m, next).l = m /\ Both(m, next).row = next
  BY DEF Both
<1>3. Places(l, k, row, Both(m, next))
  BY <1>1, <1>2 DEF Places
<1> QED BY <1>3 DEF m

LEMMA QueuedBehindPlaces ==
  ASSUME setup \in Setup, NEW l \in Local, NEW k \in Instant, NEW row \in Row,
         QueueHolds(row, l.queue), row[k].at = "admit"
  PROVE  Places(l, k, row, QueuedBehind(l, k, row))
<1> DEFINE queued(r) == [r EXCEPT ![k] = [at |-> "queued", as |-> "none"]]
           requeue(queue, r) == Both([l EXCEPT !.queue = queue], r)
           q == l.queue
<1>1. q \in Seq(Instant) /\ l.active \in Instant /\ "dropped" \in Status /\ "skipped" \in Status
  BY DEF Local, Status
<1>2. ASSUME NEW r \in Row
      PROVE  /\ queued(r) \in Row /\ queued(r)[k].at = "queued"
             /\ \A j \in Instant : j # k => queued(r)[j] = r[j]
  BY <1>2 DEF Row, Slot, Stage, Status
<1>3. \A i \in DOMAIN q : q[i] \in Instant /\ row[q[i]].at = "queued" /\ q[i] # k
  BY <1>1 DEF QueueHolds
<1>4. \A j \in Queue(l) : j \in Instant /\ row[j].at = "queued" /\ j # k
  BY <1>1, <1>3 DEF Queue
<1> HIDE DEF queued
<1>5. ASSUME NEW keys, keys \subseteq Instant, \A j \in keys : row[j].at = "queued"
      PROVE  LET r == Displaced(row, keys, "dropped") IN
             /\ queued(r) \in Row /\ queued(r)[k].at = "queued"
             /\ \A j \in Instant \ {k} :
                  IF j \in keys THEN row[j].at = "queued" /\ queued(r)[j].at = "settle"
                                ELSE queued(r)[j] = row[j]
  BY <1>1, <1>2, <1>5, DisplacedDoes
<1>6. ASSUME setup.overlap = "skip"
      PROVE  Places(l, k, row, Both(l, Displaced(row, {k}, "skipped")))
  <2>1. Displaced(row, {k}, "skipped") \in Row /\ Displaced(row, {k}, "skipped")[k].at = "settle"
        /\ \A j \in Instant \ {k} : Displaced(row, {k}, "skipped")[j] = row[j]
    BY <1>1, DisplacedDoes
  <2>2. QueueHolds(Displaced(row, {k}, "skipped"), q)
    BY <1>3, <2>1 DEF QueueHolds
  <2> QED BY <2>1, <2>2 DEF Places, Both
<1>7. Places(l, k, row, Both(l, Displaced(row, {k}, "dropped")))
  <2>1. Displaced(row, {k}, "dropped") \in Row /\ Displaced(row, {k}, "dropped")[k].at = "settle"
        /\ \A j \in Instant \ {k} : Displaced(row, {k}, "dropped")[j] = row[j]
    BY <1>1, DisplacedDoes
  <2>2. QueueHolds(Displaced(row, {k}, "dropped"), q)
    BY <1>3, <2>1 DEF QueueHolds
  <2> QED BY <2>1, <2>2 DEF Places, Both
\* The firing displaces all that wait: coalesced, or replacing the one that runs.
<1> DEFINE alone == queued(Displaced(row, Queue(l), "dropped"))
<1>8. /\ alone \in Row /\ alone[k].at = "queued"
      /\ \A j \in Instant \ {k} :
           IF j \in Queue(l) THEN row[j].at = "queued" /\ alone[j].at = "settle"
                             ELSE alone[j] = row[j]
  BY <1>4, <1>5
<1> HIDE DEF alone
<1>9. Places(l, k, row, requeue(<<k>>, alone))
  <2>1. <<k>> \in Seq(Instant) /\ QueueHolds(alone, <<k>>)
    BY <1>8, QueueOfOne
  <2> QED BY <1>8, <2>1, RequeuePlaces
<1>10. Places(l, k, row,
              requeue(<<k>>, Aborted(queued(Displaced(row, Queue(l), "dropped")), l.active)))
  <2> DEFINE next == Aborted(alone, l.active)
  <2>1. next \in Row
        /\ \A j \in Instant :
             \/ next[j] = alone[j]
             \/ alone[j].at = "emit" /\ next[j].at = "land" /\ next[j].as = "unknown"
    BY <1>1, <1>8, AbortedDoes
  <2> HIDE DEF next
  <2>2. <<k>> \in Seq(Instant) /\ QueueHolds(next, <<k>>) /\ next[k].at = "queued"
    BY <1>8, <2>1, QueueOfOne
  <2>3. \A j \in Instant :
          \/ next[j] = row[j]
          \/ j = k
          \/ row[j].at = "queued" /\ next[j].at = "settle"
          \/ row[j].at = "emit" /\ next[j].at = "land" /\ next[j].as = "unknown"
    BY <1>8, <2>1
  <2>4. Places(l, k, row, requeue(<<k>>, next))
    BY <2>1, <2>2, <2>3, RequeuePlaces
  <2> QED BY <2>4 DEF next, alone
<1>11. Places(l, k, row, requeue(Append(q, k), queued(row)))
  <2>1. /\ queued(row) \in Row /\ queued(row)[k].at = "queued"
        /\ \A j \in Instant : j # k => queued(row)[j] = row[j]
    BY <1>2
  <2>2. Append(q, k) \in Seq(Instant) /\ QueueHolds(queued(row), Append(q, k))
    BY <1>1, <1>3, <2>1, QueueJoined
  <2> QED BY <2>1, <2>2, RequeuePlaces
\* The oldest one gives way.
<1>12. ASSUME q # <<>>
       PROVE  Places(l, k, row, requeue(Append(Tail(q), k),
                                        queued(Displaced(row, {Head(q)}, "dropped"))))
  <2> DEFINE rest == Tail(q)
             next == queued(Displaced(row, {Head(q)}, "dropped"))
  <2>1. /\ rest \in Seq(Instant) /\ QueueHolds(row, rest)
        /\ Head(q) \in Instant /\ row[Head(q)].at = "queued"
        /\ \A i \in DOMAIN rest : rest[i] # Head(q)
    BY <1>1, <1>12, QueueShortened
  <2> HIDE DEF rest
  <2>2. /\ next \in Row /\ next[k].at = "queued"
        /\ \A j \in Instant \ {k} :
             IF j = Head(q) THEN row[j].at = "queued" /\ next[j].at = "settle"
                            ELSE next[j] = row[j]
    <3>1. {Head(q)} \subseteq Instant /\ \A j \in {Head(q)} : row[j].at = "queued"
      BY <2>1
    <3> QED BY <1>5, <3>1
  <2> HIDE DEF next
  <2>3. \A i \in DOMAIN rest : next[rest[i]].at = "queued"
    <3>1. \A i \in DOMAIN rest : rest[i] \in Instant
      BY <2>1
    <3> QED BY <2>1, <2>2, <3>1 DEF QueueHolds
  <2>4. Append(rest, k) \in Seq(Instant) /\ QueueHolds(next, Append(rest, k))
    BY <2>1, <2>2, <2>3, QueueJoined
  <2>5. Places(l, k, row, requeue(Append(rest, k), next))
    BY <2>2, <2>4, RequeuePlaces
  <2> QED BY <2>5 DEF rest, next
<1>13. setup.overlap \in {"skip", "queue", "replace"}
  BY DEF Setup
<1>14. setup.overlap = "queue" /\ ~(Len(q) < QueueDepth) => q # <<>>
  BY ScheduleAssumption DEF ScheduleAssumption
<1> QED
  <2>1. CASE setup.overlap = "skip"
    BY <1>6, <2>1 DEF QueuedBehind
  <2>2. CASE setup.overlap = "replace"
    BY <1>10, <2>2 DEF QueuedBehind, queued
  <2>3. CASE setup.overlap = "queue" /\ Len(q) < QueueDepth
    BY <1>11, <2>3 DEF QueuedBehind, queued
  <2>4. CASE setup.overlap = "queue" /\ ~(Len(q) < QueueDepth)
    <3>1. q # <<>>
      BY <1>14, <2>4
    <3> DEFINE oldest == requeue(Append(Tail(q), k), queued(Displaced(row, {Head(q)}, "dropped")))
               merged == requeue(<<k>>, alone)
               newest == Both(l, Displaced(row, {k}, "dropped"))
    <3>2. QueuedBehind(l, k, row) \in {oldest, merged, newest}
      BY <2>4 DEF QueuedBehind, queued, alone
    <3>3. Places(l, k, row, oldest) /\ Places(l, k, row, merged) /\ Places(l, k, row, newest)
      BY <1>7, <1>9, <1>12, <3>1
    <3> HIDE DEF oldest, merged, newest
    <3> QED BY <3>2, <3>3
  <2> QED BY <1>13, <2>1, <2>2, <2>3, <2>4

LEMMA ReservedPlaces ==
  ASSUME setup \in Setup, NEW l \in Local, NEW k \in Instant, NEW row \in Row,
         QueueHolds(row, l.queue), row[k].at = "admit"
  PROVE  Places(l, k, row, Reserved(l, k, row))
<1>1. \A i \in DOMAIN l.queue : l.queue[i] \in Instant /\ l.queue[i] # k
  BY DEF Local, QueueHolds
<1>2. ASSUME NEW to \in {"unclaim", "claim"}, NEW why \in Status
      PROVE  Places(l, k, row, Both(l, [row EXCEPT ![k] = [at |-> to, as |-> why]]))
  <2> DEFINE next == [row EXCEPT ![k] = [at |-> to, as |-> why]]
  <2>1. next \in Row /\ next[k].at = to /\ \A j \in Instant \ {k} : next[j] = row[j]
    BY DEF Row, Slot, Stage
  <2> HIDE DEF next
  <2>2. QueueHolds(next, l.queue)
    BY <1>1, <2>1 DEF QueueHolds
  <2>3. Both(l, next).l = l /\ Both(l, next).row = next
    BY DEF Both
  <2>4. Places(l, k, row, Both(l, next))
    BY <2>1, <2>2, <2>3 DEF Places
  <2> QED BY <2>4 DEF next
<1>3. "cancelled" \in Status /\ "none" \in Status
  BY DEF Status
<1> QED BY <1>2, <1>3, QueuedBehindPlaces DEF Reserved

\* What a reservation of k by s makes of the record: an unknown outcome that it writes
\* over leaves an issue, unless s carries its firing out.
Reserves(s, k) ==
  /\ store.watermark < k /\ store'.watermark = k
  /\ store'.last = Unknown(k)
  /\ store'.active # store.active => store.active = NoClaim
  /\ store.issue => store'.issue
  /\ ~store'.issue => store.last.status # "unknown" \/ store.last.key = local[s].active

LEMMA ReserveEffect ==
  ASSUME Inv, NEW s \in Scheduler, NEW k \in Instant, NEW o,
         Effect(s, o, Reserve(s, local[s].active, local[s].unsettled, k, store)), Commit(o)
  PROVE  /\ store' = store \/ Reserves(s, k)
         /\ \/ store' = store
            \/ /\ store.watermark < k /\ store'.watermark = k
               /\ store'.last = [status |-> "unknown", key |-> k]
               /\ store'.active # store.active => store.active = NoClaim
         /\ o.how = "applied" =>
              /\ store.watermark < k /\ store'.watermark = k
              /\ store'.last = [status |-> "unknown", key |-> k]
              /\ store'.active # store.active => store.active = NoClaim
              /\ o.cache = store'
<1>1. store \in Record /\ local[s].unsettled \in BOOLEAN
  BY LocalTypes DEF Inv, Local
<1>2. \A n \in Reserve(s, local[s].active, local[s].unsettled, k, store) :
        /\ store.watermark < k /\ n.watermark = k
        /\ n.last = [status |-> "unknown", key |-> k]
        /\ n.active # store.active => store.active = NoClaim
        /\ store.issue => n.issue
        /\ ~n.issue => store.last.status # "unknown" \/ store.last.key = local[s].active
  BY <1>1, ReserveWrites
<1> QED BY <1>2 DEF Effect, Commit, Reserves, Unknown

\* A pass leaves s with l and row after the reservation of k, or without it.
LeavesReserve(s, k, l, row) ==
  /\ local' = [local EXCEPT ![s] = l] /\ inv' = [inv EXCEPT ![s] = row]
  /\ store' \in Record /\ (store' = store \/ Reserves(s, k))
  /\ open' = IF store'.watermark = k /\ store.watermark < k THEN open \cup {k} ELSE open
  /\ untold' = untold /\ emits' = emits
  /\ l.cache \in {local[s].cache, store, store'}
  /\ l.active = local[s].active /\ l.rel = local[s].rel
  /\ \A j \in Instant \ {k} :
       /\ row[j].at \in Unemitted => inv[s][j].at \in Unemitted
       /\ row[j].at \in {"late", "release"} => row[j] = inv[s][j]
  /\ row[k].at \notin {"late", "release"}
  /\ row[k].at \in Unemitted => store.watermark < k /\ store'.watermark = k

\* After a reservation every firing that is not over is accounted for: the one reserved
\* by the outcome on record, the others by the claim or an issue.
LEMMA ReserveTold ==
  ASSUME Inv, NEW s \in Scheduler, NEW k \in Instant, NEW l, NEW row, LeavesReserve(s, k, l, row)
  PROVE  Told'
<1> USE DEF LeavesReserve
<1>1. /\ local'[s] = l /\ inv'[s] = row
      /\ \A t \in Scheduler : t # s => local'[t] = local[t] /\ inv'[t] = inv[t]
      /\ store.watermark \in Nat /\ store'.watermark \in Nat /\ k \in Nat
      /\ \A j \in open : j \in Nat /\ 0 < j /\ j <= store.watermark
  BY InstantTypes, OpenInstants DEF Inv, Typed, TypeOK, Record, OpenOK, Told
<1>2. CASE store' = store
  <2>1. row[k].at \notin Unemitted /\ open' = open
    BY <1>1, <1>2
  <2>2. Accounts(s)
    BY <1>1, <1>2, <2>1, OpenInstants DEF Accounts
  <2> QED BY <1>1, <2>2, AccountsTold
<1>3. CASE Reserves(s, k)
  <2>1. /\ store.watermark < k /\ store'.watermark = k /\ store'.last = Unknown(k)
        /\ store.issue => store'.issue
        /\ open' = open \cup {k}
    BY <1>3 DEF Reserves
  \* Nobody had it yet.
  <2>2. /\ emits[k] = 0
        /\ \A t \in Scheduler : inv[t][k].at \notin Beyond /\ local[t].active # k
    <3>1. \A t \in Scheduler : inv[t][k].at \notin Beyond
      BY <1>1, <2>1 DEF Inv, Safe, ReservedOK
    <3>2. emits[k] = 0
      BY <1>1, <2>1 DEF Inv, Safe, EmitsOK, Typed, TypeOK
    <3> QED BY <1>1, <2>1, <3>1, <3>2 DEF Inv, Safe, ActiveOK, NoKey
  <2>3. Unemitted \subseteq Beyond /\ "late" \in Beyond /\ "release" \in Beyond
    BY DEF Unemitted, Beyond, Stage
  <2>4. \A t \in Scheduler, j \in Instant :
          /\ j # k /\ inv'[t][j].at \in Unemitted => inv[t][j].at \in Unemitted
          /\ inv'[t][j].at \in {"late", "release"} => j # k /\ inv[t][j].at \in {"late", "release"}
    <3>1. \A j \in Instant :
            /\ j # k /\ row[j].at \in Unemitted => inv[s][j].at \in Unemitted
            /\ row[j].at \in {"late", "release"} => j # k /\ inv[s][j].at \in {"late", "release"}
      OBVIOUS
    <3> QED BY <1>1, <2>2, <2>3, <3>1
  <2>5. IssueOK'
    BY <1>1, <2>1 DEF IssueOK, Inv, Told
  <2>6. OpenOK'
    BY <1>1, <2>1 DEF OpenOK
  <2>7. UnemittedOK'
    BY <2>2, <2>4 DEF UnemittedOK, Inv, Told
  \* What the reservation writes over is being carried out, by s, or an issue now.
  <2>8. ASSUME ~store'.issue, NEW j \in Awaited
        PROVE  /\ \E t \in Scheduler : store'.active = Claim(t, j)
               /\ \A t \in Scheduler :
                    /\ local'[t].active = j => store'.active = Claim(t, j) /\ ~local'[t].rel
                    /\ inv'[t][j].at \notin {"late", "release"}
                    /\ inv'[t][j].at \notin Unemitted
    <3>1. ~store.issue /\ j \in Instant /\ j # k
      BY <1>1, <2>1, <2>8, OpenInstants DEF Awaited
    <3>2. \A t \in Scheduler : store.active = Claim(t, j) => store'.active = Claim(t, j)
      BY <1>3, ClaimInjective DEF Reserves
    <3>3. store.last = Unknown(j) => j = local[s].active
      BY <1>3, <2>8 DEF Reserves, Unknown
    <3>4. \A t \in Scheduler : local[t].active = j => store.active = Claim(t, j) /\ ~local[t].rel
      BY <2>8, <3>1 DEF CarriedOK, Inv, Told
    <3>5. \E t \in Scheduler : store.active = Claim(t, j)
      BY <2>8, <3>1, <3>3, <3>4 DEF HeldOK, Inv, Told
    <3>6. \A t \in Scheduler : inv[t][j].at \notin {"late", "release"}
      BY <2>8, <3>1 DEF EndedOK, Inv, Told
    <3>7. \A t \in Scheduler : inv[t][j].at \notin Unemitted
      <4>1. \A t \in Scheduler : inv[t][j].at \in Unemitted => store.last = Unknown(j)
        BY <2>8, <3>1 DEF WaitingOK, Inv, Told
      <4> QED BY <3>1, <3>3, <4>1, UnemittedFacts
    <3> QED BY <1>1, <2>4, <3>1, <3>2, <3>4, <3>5, <3>6, <3>7
  <2>9. LastOK' /\ HeldOK' /\ CarriedOK' /\ EndedOK' /\ WaitingOK'
    <3>1. \A j \in open' \ untold' : j \in Awaited \/ j = k
      BY <2>1 DEF Awaited
    <3>2. \A t \in Scheduler : local'[t].active # k /\ inv'[t][k].at \notin {"late", "release"}
      BY <1>1, <2>2, <2>4
    <3> QED BY <2>1, <2>8, <3>1, <3>2
            DEF LastOK, HeldOK, CarriedOK, EndedOK, WaitingOK, Awaited, Unknown
  <2> QED BY <2>5, <2>6, <2>7, <2>9 DEF Told
<1> QED BY <1>2, <1>3

LEMMA ReserveFiringPreserves ==
  ASSUME Inv, NEW s \in Scheduler, NEW k \in Instant, ReserveFiring(s, k) PROVE Inv'
<1> DEFINE Wants(r) == Reserve(s, local[s].active, local[s].unsettled, k, r)
           gone == [inv[s] EXCEPT ![k] = Nowhere]
           l(o) == Cached(s, o)
           Runs(o) ==
             /\ o.how = "applied"
             /\ Become(s, Reserved(Cleared([l(o) EXCEPT !.foreign = FALSE]), k, inv[s]))
           Refuses(o) ==
             Become(s, Both([l(o) EXCEPT !.foreign = @ \/ k > l(o).cache.watermark,
                                         !.unsettled = @ \/ k > l(o).cache.watermark], gone))
           Fails(o) == Become(s, Both(Failing(l(o)), gone))
<1>1. PICK o \in Outcomes(s, Wants(local[s].cache), Wants(store), FALSE) :
        /\ Commit(o)
        /\ open' = IF store'.watermark = k /\ store.watermark < k THEN open \cup {k} ELSE open
        /\ Runs(o) \/ Refuses(o) \/ Fails(o)
  BY DEF ReserveFiring, UpdateRecord, Outcomes
<1>2. Effect(s, o, Wants(store))
  BY OutcomeEffect DEF Inv, Typed, CurrentOK
<1>3. inv[s][k].at = "admit" /\ inv[s] \in Row /\ store \in Record /\ local[s].unsettled \in BOOLEAN
  BY LocalTypes DEF ReserveFiring, At, Inv, Local
<1>4. /\ store' \in Record /\ faults' \in 0..setup.faults
      /\ o.cache \in Record /\ o.cache \in {local[s].cache, store, store'}
      /\ \A t \in current' : IF t = s THEN o.cache = store'
                             ELSE t \in current /\ store' = store
  <2>1. Wants(store) \subseteq Record
    BY <1>3, ReserveWrites
  <2> QED BY <1>1, <1>2, <2>1, CommitEffect DEF Inv
<1>5. /\ store' = store \/ Reserves(s, k)
      /\ \/ store' = store
         \/ /\ store.watermark < k /\ store'.watermark = k
            /\ store'.last = [status |-> "unknown", key |-> k]
            /\ store'.active # store.active => store.active = NoClaim
      /\ o.how = "applied" =>
           /\ store.watermark < k /\ store'.watermark = k
           /\ store'.last = [status |-> "unknown", key |-> k]
           /\ store'.active # store.active => store.active = NoClaim
           /\ o.cache = store'
  BY <1>1, <1>2, ReserveEffect
<1> DEFINE c == l(o)
<1>6. /\ c \in Local /\ Placed(c) /\ c.cache = o.cache /\ c.rec = local[s].rec
      /\ c.active = local[s].active /\ c.rel = local[s].rel /\ c.queue = local[s].queue
  BY <1>4, CachedKeeps DEF Inv
<1> HIDE DEF c
<1>7. /\ UNCHANGED <<world, flying, emits, untold>>
      /\ open' \subseteq Instant /\ untold' \subseteq Instant
  BY <1>1 DEF ReserveFiring, Inv, Typed, TypeOK
<1>8. \A t \in Scheduler, j \in Instant : store.active = Claim(t, j) => store'.active = Claim(t, j)
  BY <1>5, ClaimInjective
<1>9. store.watermark \in Nat /\ store'.watermark \in Nat /\ k \in Nat
      /\ store.watermark <= store'.watermark
  BY <1>3, <1>4, <1>5, InstantTypes DEF Record
\* Held back or failed, the firing is admitted no more.
<1>10. ASSUME NEW m, Same(c, m), m.rec = c.rec, Become(s, Both(m, gone))
       PROVE  Inv'
  <2>1. /\ gone \in Row
        /\ \A j \in Instant : IF j = k THEN gone[j].at = "none" ELSE gone[j] = inv[s][j]
    BY <1>3 DEF Row, Slot, Stage, Status, Nowhere
  <2>2. QueueHolds(gone, m.queue)
    BY <1>3, <1>6, <1>10, QueueElsewhere DEF Same
  <2> HIDE DEF gone
  <2>3. local' = [local EXCEPT ![s] = m] /\ inv' = [inv EXCEPT ![s] = gone]
    BY <1>10 DEF Become, Both
  <2>4. local'[s] = m /\ inv'[s] = gone
    BY <2>3 DEF Inv, Typed, TypeOK
  <2>5. /\ m \in Local /\ Placed(m) /\ m.cache = o.cache
        /\ m.active = local[s].active /\ m.rel = local[s].rel
    BY <1>6, <1>10 DEF Same, Placed
  <2>6. Typed'
    BY <1>4, <1>7, <2>1, <2>3, <2>5, StepTyped DEF Inv, Typed, TypeOK
  <2>7. Moves(s)
    <3>1. \A j \in Instant : /\ gone[j].at \in Beyond => inv[s][j].at \in Beyond
                             /\ gone[j].at \in Ahead => inv[s][j].at \in Ahead
      BY <2>1 DEF Beyond, Ahead, Stage
    <3> QED BY <1>7, <1>9, <2>2, <2>4, <2>5, <3>1 DEF Moves
  <2>8. Honours(s)
    <3>1. \A j \in Instant : gone[j].at = "claim" /\ m.cache.active = Claim(s, j)
            => store.active = Claim(s, j) \/ store'.active = Claim(s, j)
      BY <1>4, <2>1, <2>5, FiringFacts
    <3>2. \A j \in Instant : <<s, j>> \in flying =>
            /\ gone[j].at \in {"emit", "land", "late"}
            /\ gone[j].at = "land" => gone[j].as = "unknown"
            /\ m.active = j /\ ~m.rel
      BY <1>3, <2>1, <2>5, FiringFacts
    <3>3. store'.last = store.last \/ store'.last.status = "unknown"
      BY <1>5
    <3> QED BY <1>7, <1>8, <2>4, <3>1, <3>2, <3>3 DEF Honours
  <2>9. Safe'
    BY <1>4, <2>3, <2>7, <2>8, MovesSafe
  <2>10. Told'
    <3>1. \A j \in Instant \ {k} :
            /\ gone[j].at \in Unemitted => inv[s][j].at \in Unemitted
            /\ gone[j].at \in {"late", "release"} => gone[j] = inv[s][j]
      BY <2>1
    <3>2. gone[k].at \notin {"late", "release"} /\ gone[k].at \notin Unemitted
      BY <2>1 DEF Unemitted
    <3>3. LeavesReserve(s, k, m, gone)
      BY <1>1, <1>4, <1>5, <1>7, <2>3, <2>5, <3>1, <3>2 DEF LeavesReserve
    <3> QED BY <3>3, ReserveTold
  <2> QED BY <2>6, <2>9, <2>10 DEF Inv
<1>11. CASE Refuses(o)
  <2> DEFINE blocked == k > c.cache.watermark
             m == [c EXCEPT !.foreign = @ \/ blocked, !.unsettled = @ \/ blocked]
  <2>1. Same(c, m) /\ m.rec = c.rec
    <3>1. blocked \in BOOLEAN
      OBVIOUS
    <3> HIDE DEF blocked
    <3>2. (c.foreign \/ blocked) \in BOOLEAN /\ (c.unsettled \/ blocked) \in BOOLEAN
      OBVIOUS
    <3> QED BY <1>6, <3>2 DEF Same, Local
  <2>2. Become(s, Both(m, gone))
    BY <1>11, Zenon DEF c
  <2> HIDE DEF m, gone
  <2> QED BY <1>10, <2>1, <2>2
<1>12. CASE Fails(o)
  <2>1. Same(c, Failing(c)) /\ Failing(c).rec = c.rec
    BY <1>6, FlagKeeps DEF Failing, Local
  <2>2. Become(s, Both(Failing(c), gone))
    BY <1>12 DEF c
  <2> QED BY <1>10, <2>1, <2>2
<1>13. CASE Runs(o)
  <2> DEFINE free == [c EXCEPT !.foreign = FALSE]
             b == Reserved(Cleared(free), k, inv[s])
  <2>1. Same(c, free) /\ free.rec = c.rec
    BY <1>6 DEF Same, Local
  <2>2. Same(c, Cleared(free)) /\ Cleared(free).rec = c.rec
    <3>1. Same(free, Cleared(free)) /\ Cleared(free).rec = free.rec
      <4>1. free \in Local
        BY <2>1 DEF Same
      <4> HIDE DEF free
      <4> QED BY <4>1, FlagKeeps DEF Cleared, Local
    <3> QED BY <2>1, <3>1 DEF Same
  <2>3. Become(s, b)
    BY <1>13 DEF c
  <2> HIDE DEF free
  <2>4. Places(Cleared(free), k, inv[s], b)
    <3>1. setup \in Setup
      BY ScheduleAssumption DEF ScheduleAssumption, Inv, Typed, TypeOK
    <3>2. QueueHolds(inv[s], Cleared(free).queue) /\ Cleared(free) \in Local
      BY <1>6, <2>2, FiringFacts DEF Same
    <3> QED BY <1>3, <3>1, <3>2, ReservedPlaces
  <2> HIDE DEF b
  <2> DEFINE m == b.l
             row == b.row
  <2>5. /\ m \in Local /\ Placed(m) /\ m.cache = o.cache
        /\ m.active = local[s].active /\ m.rel = local[s].rel
        /\ row \in Row /\ QueueHolds(row, m.queue)
        /\ row[k].at \in {"unclaim", "claim", "queued", "settle"}
        /\ \A j \in Instant :
             \/ row[j] = inv[s][j]
             \/ j = k
             \/ inv[s][j].at = "queued" /\ row[j].at = "settle"
             \/ inv[s][j].at = "emit" /\ row[j].at = "land" /\ row[j].as = "unknown"
    BY <1>6, <2>2, <2>4 DEF Places, Same, Placed
  <2>6. local' = [local EXCEPT ![s] = m] /\ inv' = [inv EXCEPT ![s] = row]
    BY <2>3 DEF Become
  <2> HIDE DEF m, row
  <2>7. /\ local'[s] = m /\ inv'[s] = row
        /\ \A t \in Scheduler \ {s} : inv'[t] = inv[t] /\ local'[t] = local[t]
    BY <2>6 DEF Inv, Typed, TypeOK
  <2>8. Typed'
    BY <1>4, <1>7, <2>5, <2>6, StepTyped DEF Inv, Typed, TypeOK
  <2>9. /\ store.watermark < k /\ store'.watermark = k
        /\ store'.last = [status |-> "unknown", key |-> k] /\ o.cache = store'
    BY <1>5, <1>13
  <2>10. \A t \in Scheduler, j \in Instant : j # k =>
           /\ inv'[t][j].at \in Beyond => inv[t][j].at \in Beyond
           /\ inv'[t][j].at \in Ahead => inv[t][j].at \in Ahead
           /\ inv'[t][j].at = "claim" => inv[t][j].at = "claim"
    <3>1. \A j \in Instant : j # k =>
           /\ row[j].at \in Beyond => inv[s][j].at \in Beyond
           /\ row[j].at \in Ahead => inv[s][j].at \in Ahead
           /\ row[j].at = "claim" => inv[s][j].at = "claim"
      BY <2>5 DEF Beyond, Ahead, Stage
    <3> QED BY <2>7, <3>1
  \* The watermark had not passed it: nobody has it, and it was not emitted.
  <2>11. /\ \A t \in Scheduler : inv[t][k].at \notin Beyond
         /\ emits[k] = 0
    BY <1>9, <2>9 DEF Inv, Safe, ReservedOK, EmitsOK, Typed, TypeOK
  <2>12. ReservedOK'
    <3> SUFFICES ASSUME NEW t \in Scheduler, NEW j \in Instant, inv'[t][j].at \in Beyond
                 PROVE  /\ 0 < j /\ j <= store'.watermark
                        /\ \A u \in Scheduler : inv'[u][j].at \in Beyond => u = t
      BY DEF ReservedOK
    <3>1. CASE j = k
      BY <1>9, <2>7, <2>9, <2>11, <3>1
    <3>2. CASE j # k
      <4>1. 0 < j /\ j <= store.watermark /\ \A u \in Scheduler : inv[u][j].at \in Beyond => u = t
        BY <2>10, <3>2 DEF Inv, Safe, ReservedOK
      <4>2. j \in Nat
        BY InstantTypes
      <4> QED BY <1>9, <2>10, <3>2, <4>1, <4>2
    <3> QED BY <3>1, <3>2
  <2>13. EmitsOK'
    <3> SUFFICES ASSUME NEW j \in Instant
                 PROVE  /\ emits[j] <= 1
                        /\ emits[j] > 0 => j <= store'.watermark
                        /\ \A t \in Scheduler : inv'[t][j].at \in Ahead => emits[j] = 0
      BY <1>7 DEF EmitsOK
    <3>1. /\ emits[j] <= 1
          /\ emits[j] > 0 => j <= store.watermark
          /\ \A t \in Scheduler : inv[t][j].at \in Ahead => emits[j] = 0
      BY DEF Inv, Safe, EmitsOK
    <3>2. j \in Nat
      BY InstantTypes
    <3> QED BY <1>9, <2>10, <2>11, <3>1, <3>2
  <2>14. QueueOK'
    BY <2>5, <2>7 DEF QueueOK, Inv, Safe
  <2>15. ActiveOK'
    BY <1>7, <2>5, <2>7 DEF ActiveOK, Inv, Safe
  <2>16. ClaimOK'
    <3> SUFFICES ASSUME NEW t \in Scheduler, NEW j \in Instant, inv'[t][j].at = "claim",
                        local'[t].cache.active = Claim(t, j)
                 PROVE  store'.active = Claim(t, j)
      BY DEF ClaimOK
    <3>1. CASE t = s
      BY <2>5, <2>7, <2>9, <3>1
    <3>2. CASE t # s
      BY <1>8, <2>7, <3>2 DEF ClaimOK, Inv, Safe
    <3> QED BY <3>1, <3>2
  <2>17. OutcomeOK'
    BY <2>9 DEF OutcomeOK
  <2>18. FlyingOK'
    <3> SUFFICES ASSUME NEW t \in Scheduler, NEW j \in Instant, <<t, j>> \in flying
                 PROVE  /\ store'.active = Claim(t, j)
                        /\ inv'[t][j].at \in {"emit", "land", "late"}
                        /\ inv'[t][j].at = "land" => inv'[t][j].as = "unknown"
                        /\ local'[t].active = j /\ ~local'[t].rel
      BY <1>7 DEF FlyingOK
    <3>1. /\ store.active = Claim(t, j)
          /\ inv[t][j].at \in {"emit", "land", "late"}
          /\ inv[t][j].at = "land" => inv[t][j].as = "unknown"
          /\ local[t].active = j /\ ~local[t].rel
      BY DEF FlyingOK, Inv, Safe
    <3>2. store'.active = Claim(t, j)
      BY <1>8, <3>1
    <3>3. CASE t = s
      BY <1>3, <2>5, <2>7, <3>1, <3>2, <3>3
    <3>4. CASE t # s
      BY <2>7, <3>1, <3>2, <3>4
    <3> QED BY <3>3, <3>4
  <2>19. Told'
    <3>1. \A j \in Instant \ {k} :
            /\ row[j].at \in Unemitted => inv[s][j].at \in Unemitted
            /\ row[j].at \in {"late", "release"} => row[j] = inv[s][j]
      BY <2>5 DEF Unemitted
    <3>2. LeavesReserve(s, k, m, row)
      BY <1>1, <1>4, <1>5, <1>7, <2>5, <2>6, <2>9, <3>1 DEF LeavesReserve
    <3> QED BY <3>2, ReserveTold
  <2> QED BY <2>8, <2>12, <2>13, <2>14, <2>15, <2>16, <2>17, <2>18, <2>19 DEF Inv, Safe
<1> QED BY <1>1, <1>11, <1>12, <1>13

---------------------------------------------------------------------------
(* Crashes, the clock, and the initial states                              *)

LEMMA FreshType ==
  /\ Fresh(0) \in Local /\ Fresh(0).rec = Idle /\ Fresh(0).active = NoKey /\ Fresh(0).queue = <<>>
  /\ ~Fresh(0).cache.issue /\ NoRecord \in Record
<1>1. NoRecord \in Record /\ 0 \in Instant /\ Off \in Timer /\ NoRange \in Instant \X Instant
  BY InitialRecordType, InstantTypes, TimerTypes, RecordAssumption
     DEF RecordAssumption, NoRecord, NoRange, Instant
<1>2. Idle \in PassType /\ <<>> \in Seq(Instant)
  BY IdleType
<1>3. ~NoRecord.issue
  BY DEF NoRecord, InitialRecord
<1> QED BY <1>1, <1>2, <1>3 DEF Fresh, Local, PassType, NoKey

LEMMA CrashPreserves ==
  ASSUME Inv, NEW s \in Scheduler, Crash(s) PROVE Inv'
<1> DEFINE l == [Fresh(0) EXCEPT !.life = "crashed"]
           row == [k \in Instant |-> Nowhere]
<1>1. /\ l \in Local /\ Placed(l) /\ l.active = NoKey /\ l.queue = <<>>
      /\ ~l.cache.issue
  <2>1. /\ l \in Local /\ l.rec = Idle /\ l.active = NoKey /\ l.queue = <<>>
        /\ ~l.cache.issue
    BY FreshType DEF Local
  <2> HIDE DEF l
  <2> QED BY <2>1, IdleType DEF Placed
<1>2. row \in Row /\ \A k \in Instant : row[k].at = "none"
  BY DEF Row, Slot, Stage, Status, Nowhere
<1> HIDE DEF l, row
<1>3. local' = [local EXCEPT ![s] = l] /\ inv' = [inv EXCEPT ![s] = row]
      /\ UNCHANGED <<world, store, faults, emits, open, untold>>
  BY DEF Crash, Set, l, row
<1>4. local'[s] = l /\ inv'[s] = row
  BY <1>3 DEF Inv, Typed, TypeOK
<1>5. /\ flying' \subseteq flying /\ \A k \in Instant : <<s, k>> \notin flying'
      /\ current' = current \ {s}
  BY DEF Crash
<1>6. Typed'
  BY <1>1, <1>2, <1>3, <1>5, StepTyped DEF Inv, Typed, TypeOK
<1>7. Moves(s)
  BY <1>1, <1>2, <1>3, <1>4, <1>5, FiringFacts DEF Moves, QueueHolds, Beyond, Ahead
<1>8. Honours(s)
  BY <1>2, <1>3, <1>4, <1>5 DEF Honours
<1>9. Safe'
  BY <1>3, <1>7, <1>8, MovesSafe, LocalTypes DEF Inv
<1>10. Accounts(s)
  <2>1. \A k \in Instant : row[k].at \notin Unemitted /\ row[k].at \notin {"late", "release"}
    BY <1>2 DEF Unemitted
  <2> QED BY <1>1, <1>3, <1>4, <2>1, FiringFacts, OpenInstants DEF Accounts
<1>11. Told'
  BY <1>3, <1>4, <1>10, AccountsTold, LocalTypes DEF Inv
<1> QED BY <1>6, <1>9, <1>11 DEF Inv

\* The clock is nobody's: the invariant does not look at it.
LEMMA ClockPreserves ==
  ASSUME Inv, Tick \/ ClockBack PROVE Inv'
<1>1. UNCHANGED <<setup, disk, local, inv, host>>
  BY DEF Tick, ClockBack
<1>2. now' \in Instant /\ backSteps' \in 0..setup.backSteps
  <2>1. setup.backSteps \in Nat
    BY ScheduleAssumption DEF ScheduleAssumption, Setup, Inv, Typed, TypeOK
  <2> QED BY <2>1, RecordAssumption
          DEF RecordAssumption, Tick, ClockBack, Instant, Inv, Typed, TypeOK
<1>3. Typed'
  BY <1>1, <1>2 DEF Inv, Typed, TypeOK, PlacedOK, Placed, CurrentOK, disk, host
<1>4. Safe'
  BY <1>1 DEF Inv, Safe, ReservedOK, EmitsOK, QueueOK, QueueHolds, ActiveOK, ClaimOK, OutcomeOK,
              FlyingOK, disk, host
<1>5. Told'
  BY <1>1 DEF Inv, Told, IssueOK, OpenOK, UnemittedOK, LastOK, HeldOK, CarriedOK, EndedOK,
              WaitingOK, Awaited, disk, host
<1> QED BY <1>3, <1>4, <1>5 DEF Inv

LEMMA InitEstablishes == Init => Inv
<1> SUFFICES ASSUME Init PROVE Inv
  OBVIOUS
<1>1. /\ setup.backSteps \in Nat /\ setup.faults \in Nat /\ 0 \in Instant
  BY ScheduleAssumption, InstantTypes, RecordAssumption
     DEF ScheduleAssumption, RecordAssumption, Setup, Init, Instant
<1>2. inv \in [Scheduler -> Row] /\ \A s \in Scheduler, k \in Instant : inv[s][k].at = "none"
  BY DEF Init, Row, Slot, Stage, Status, Nowhere
<1>3. /\ local \in [Scheduler -> Local]
      /\ \A s \in Scheduler : /\ Placed(local[s]) /\ local[s].active = NoKey
                              /\ local[s].queue = <<>> /\ ~local[s].cache.issue
  BY FreshType, IdleType DEF Init, Placed
<1>4. Typed
  <2>1. /\ setup \in Setups /\ now \in Instant /\ backSteps \in 0..setup.backSteps
        /\ faults \in 0..setup.faults
    BY <1>1 DEF Init
  <2>2. /\ store \in Record /\ current = {} /\ flying = {} /\ open = {}
        /\ untold = {} /\ emits \in [Instant -> Nat]
    BY FreshType DEF Init
  <2>3. inv \in [Scheduler -> [Instant -> [at : Stage, as : Status]]]
    BY <1>2 DEF Row, Slot
  <2>4. local \in [Scheduler -> Local]
    BY <1>3
  <2>5. TypeOK
    BY <2>1, <2>2, <2>3, <2>4 DEF TypeOK
  <2>6. PlacedOK /\ CurrentOK
    BY <1>3, <2>2 DEF PlacedOK, CurrentOK
  <2> QED BY <2>5, <2>6 DEF Typed
<1>5. Safe
  <2>1. /\ "none" \notin Beyond /\ "none" \notin Ahead /\ flying = {}
        /\ \A k \in Instant : emits[k] = 0
    BY DEF Init, Beyond, Ahead
  <2>2. ReservedOK /\ EmitsOK /\ ClaimOK
    BY <1>2, <2>1 DEF ReservedOK, EmitsOK, ClaimOK
  <2>3. QueueOK /\ ActiveOK
    BY <1>3 DEF QueueOK, QueueHolds, ActiveOK
  <2>4. OutcomeOK /\ FlyingOK
    BY <1>2, <2>1 DEF OutcomeOK, FlyingOK
  <2> QED BY <2>2, <2>3, <2>4 DEF Safe
<1>6. Told
  <2>1. open = {} /\ Awaited = {} /\ "none" \notin Unemitted
    BY DEF Init, Awaited, Unemitted
  <2>2. IssueOK /\ OpenOK /\ UnemittedOK
    BY <1>2, <1>3, <2>1 DEF IssueOK, OpenOK, UnemittedOK
  <2> QED BY <2>1, <2>2 DEF Told, LastOK, HeldOK, CarriedOK, EndedOK, WaitingOK
<1> QED BY <1>4, <1>5, <1>6 DEF Inv

---------------------------------------------------------------------------
(* The theorems                                                            *)

LEMMA MaintenancePreserves ==
  ASSUME Inv, NEW s \in Scheduler, MaintenanceStep(s) PROVE Inv'
BY MaintenanceTyped, MaintenanceSafe, MaintenanceTold DEF Inv

LEMMA StepPreserves ==
  ASSUME Inv, NEW s \in Scheduler, Step(s) PROVE Inv'
<1>1. CASE ReadAtStart(s)       BY <1>1, ReadAtStartMaintains, MaintenancePreserves DEF Inv
<1>2. CASE DropSettled(s)       BY <1>2, DropSettledMaintains, MaintenancePreserves DEF Inv
<1>3. CASE Replace(s)           BY <1>3, ReplaceMaintains, MaintenancePreserves DEF Inv
<1>4. CASE RestartRegression(s) BY <1>4, RestartRegressionMaintains, MaintenancePreserves DEF Inv
<1>5. CASE RecoverUnknown(s)    BY <1>5, RecoverUnknownMaintains, MaintenancePreserves DEF Inv
<1>6. CASE TimerFires(s)        BY <1>6, TimerFiresMaintains, MaintenancePreserves DEF Inv
<1>7. CASE Refresh(s)           BY <1>7, RefreshMaintains, MaintenancePreserves DEF Inv
<1>8. CASE RecordClock(s)       BY <1>8, RecordClockMaintains, MaintenancePreserves DEF Inv
<1>9. CASE GiveUpMissed(s)      BY <1>9, GiveUpMissedMaintains, MaintenancePreserves DEF Inv
<1>10. CASE AdmissionReturns(s) BY <1>10, AdmissionReturnsMaintains, MaintenancePreserves DEF Inv
<1>11. CASE RepairRelease(s)    BY <1>11, RepairReleasePreserves
<1> QED BY <1>1, <1>2, <1>3, <1>4, <1>5, <1>6, <1>7, <1>8, <1>9, <1>10, <1>11 DEF Step

LEMMA InvocationPreserves ==
  ASSUME Inv, NEW s \in Scheduler, NEW k \in Instant, Invocation(s, k) PROVE Inv'
<1>1. CASE ReserveFiring(s, k) BY <1>1, ReserveFiringPreserves
<1>2. CASE Unclaim(s, k)       BY <1>2, UnclaimPreserves
<1>3. CASE ClaimFiring(s, k)   BY <1>3, ClaimFiringPreserves
<1>4. CASE Watchdog(s, k)      BY <1>4, WatchdogPreserves
<1>5. CASE Settle(s, k)        BY <1>5, SettlePreserves
<1>6. CASE Land(s, k)          BY <1>6, LandPreserves
<1>7. CASE Release(s, k)       BY <1>7, ReleasePreserves
<1>8. CASE \E status \in {"accepted", "rejected", "duplicate", "unknown"} :
             HostSettles(s, k, status)
  BY <1>8, HostSettlesPreserves
<1> QED BY <1>1, <1>2, <1>3, <1>4, <1>5, <1>6, <1>7, <1>8 DEF Invocation

LEMMA NextPreserves == Inv /\ [Next]_vars => Inv'
<1> SUFFICES ASSUME Inv, [Next]_vars PROVE Inv'
  OBVIOUS
<1>1. CASE Tick \/ ClockBack
  BY <1>1, ClockPreserves
<1>2. ASSUME NEW s \in Scheduler, Start(s) PROVE Inv'
  BY <1>2, StartMaintains, MaintenancePreserves DEF Inv
<1>3. ASSUME NEW s \in Scheduler, Step(s) PROVE Inv'
  BY <1>3, StepPreserves
<1>4. ASSUME NEW s \in Scheduler, Stop(s) PROVE Inv'
  BY <1>4, StopPreserves
<1>5. ASSUME NEW s \in Scheduler, StopReturns(s) PROVE Inv'
  BY <1>5, StopReturnsMaintains, MaintenancePreserves DEF Inv
<1>6. ASSUME NEW s \in Scheduler, Crash(s) PROVE Inv'
  BY <1>6, CrashPreserves
<1>7. ASSUME NEW s \in Scheduler, NEW k \in setup.commands, Invoke(s, k) PROVE Inv'
  <2>1. k \in Instant
    BY ScheduleType DEF Inv, Typed
  <2> QED BY <1>7, <2>1, InvokeMaintains, MaintenancePreserves DEF Inv
<1>8. ASSUME NEW s \in Scheduler, NEW k \in Instant, Invocation(s, k) PROVE Inv'
  BY <1>8, InvocationPreserves
<1>9. CASE UNCHANGED vars
  <2>1. Typed'
    BY <1>9 DEF vars, world, disk, host, Inv, Typed, TypeOK, PlacedOK, Placed, CurrentOK
  <2>2. Safe'
    BY <1>9 DEF vars, disk, host, Inv, Safe, ReservedOK, EmitsOK, QueueOK, QueueHolds,
                ActiveOK, ClaimOK, OutcomeOK, FlyingOK
  <2>3. Told'
    BY <1>9 DEF vars, disk, host, Inv, Told, IssueOK, OpenOK, UnemittedOK, LastOK, HeldOK,
                CarriedOK, EndedOK, WaitingOK, Awaited
  <2> QED BY <2>1, <2>2, <2>3 DEF Inv
<1> QED BY <1>1, <1>2, <1>3, <1>4, <1>5, <1>6, <1>7, <1>8, <1>9 DEF Next

\* Whatever is started, crashes, fails to be written or is put back, what the
\* schedulers remember, what they have in hand and the durable record fit together.
THEOREM CronInvariance == Spec => []Inv
BY InitEstablishes, NextPreserves, PTL DEF Spec

\* The record, what the schedulers keep in memory and their invocations keep their types.
THEOREM CronTypeCorrect == Spec => []TypeOK
<1>1. Inv => TypeOK
  BY DEF Inv, Typed
<1> QED BY <1>1, CronInvariance, PTL

\* host.emit is called at most once for a firing: by no second scheduler, after no
\* restart, for no clock that was set back, by no command that asks for it again.
THEOREM FiringsAreEmittedOnce == Spec => []EmittedOnce
<1>1. Inv => EmittedOnce
  BY DEF Inv, Safe, EmitsOK, EmittedOnce
<1> QED BY <1>1, CronInvariance, PTL

\* Two calls of host.emit for the job are never open together, and the durable claim
\* is the open one's: it is released only once host.emit itself has settled.
THEOREM OneEmissionAtATime == Spec => []OneEmissionInFlight
<1>1. ASSUME Inv PROVE OneEmissionInFlight
  <2>1. \A f \in flying : f = <<f[1], f[2]>> /\ f[1] \in Scheduler /\ f[2] \in Instant
    BY <1>1 DEF Inv, Typed, TypeOK
  <2>2. \A f \in flying : store.active = Claim(f[1], f[2])
    BY <1>1, <2>1 DEF Inv, Safe, FlyingOK
  <2>3. \A f, g \in flying : f[1] = g[1] /\ f[2] = g[2]
    BY <2>1, <2>2, ClaimInjective
  <2> QED BY <2>1, <2>2, <2>3 DEF OneEmissionInFlight
<1> QED BY <1>1, CronInvariance, PTL

\* A firing that was reserved and has no outcome yet shows in the record that survives
\* every scheduler: as a health issue, as the outstanding claim, or as the last outcome,
\* unknown.  It is missing only if the write of its outcome failed.
THEOREM NoFiringIsForgotten == Spec => []NoFiringForgotten
<1>1. ASSUME Inv PROVE NoFiringForgotten
  <2> SUFFICES ASSUME NEW k \in open \ untold, ~store.issue
               PROVE  store.active # NoClaim \/ store.last.status = "unknown"
    BY DEF NoFiringForgotten
  <2>1. store.last = Unknown(k) \/ \E s \in Scheduler : store.active = Claim(s, k)
    BY <1>1 DEF HeldOK, Awaited, Inv, Told
  <2> QED BY <2>1, ClaimInjective DEF Unknown
<1> QED BY <1>1, CronInvariance, PTL

---------------------------------------------------------------------------
(* What a scheduler shows                                                  *)

\* It has found a record of another schedule, or is about to replace it.
Pinned(l) == l.transition \/ l.rec.pc \in {"replace", "transition"}

\* At least it has read a record of the job.
Knows(l) == Pinned(l) \/ l.rec.pc = "drop"

Shows(l) == l.cache.issue \/ l.unsettled

\* A claim taken for another's is over: the issue remembered goes with it.
LetsGo(l, m) == l.foreign /\ ~m.foreign /\ m.cache.last.status # "unknown"

\* What a scheduler remembers to be wrong stays as it is ...
Calm(l, m) ==
  /\ m.cache = l.cache /\ m.unsettled = l.unsettled /\ m.foreign = l.foreign
  /\ (Pinned(m) => Pinned(l)) /\ (Knows(m) => Knows(l))

\* ... or is let go of at the end of such a claim only.
Minds(l, m) ==
  /\ m.cache = l.cache /\ (Pinned(m) => Pinned(l)) /\ (Knows(m) => Knows(l))
  /\ l.unsettled => m.unsettled \/ LetsGo(l, m)

LEMMA CalmReflexive == ASSUME NEW l PROVE Calm(l, l) /\ Minds(l, l)
BY DEF Calm, Minds

LEMMA CalmTransitive ==
  ASSUME NEW l, NEW m, NEW n, Calm(l, m), Calm(m, n) PROVE Calm(l, n)
BY DEF Calm

LEMMA CalmMinds ==
  ASSUME NEW l, NEW m, Calm(l, m)
  PROVE  Minds(l, m) /\ (\A n : Minds(m, n) => Minds(l, n)) /\ (\A k : Minds(k, l) => Minds(k, m))
BY DEF Calm, Minds, LetsGo

LEMMA RecCalm ==
  ASSUME NEW l \in Local, NEW pc, pc \in {"drop", "replace", "transition"} => Pinned(l)
  PROVE  Calm(l, Rec(l, pc))
BY DEF Calm, Rec, Pinned, Knows, Local

LEMMA IdleCalm == ASSUME NEW l \in Local PROVE Calm(l, [l EXCEPT !.rec = Idle])
<1>1. Idle.pc = "idle"
  BY IdleType
<1> HIDE DEF Idle
<1> QED BY <1>1 DEF Calm, Pinned, Knows, Local

LEMMA ScheduleNextCalm == ASSUME NEW l \in Local PROVE Calm(l, ScheduleNext(l))
BY DEF Calm, Pinned, Knows, ScheduleNext, Local

LEMMA FlagCalm ==
  ASSUME NEW l \in Local PROVE Calm(l, Failing(l)) /\ Minds(l, FenceScheduleGeneration(l))
BY DEF Calm, Minds, Pinned, Knows, Failing, FenceScheduleGeneration, Local

LEMMA EndPassCalm == ASSUME NEW l \in Local PROVE Calm(l, EndPass(l))
<1>1. Calm(l, [l EXCEPT !.rec = Idle]) /\ [l EXCEPT !.rec = Idle] \in Local
  BY IdleCalm, IdleKeeps DEF Kept, Same
<1>2. Calm([l EXCEPT !.rec = Idle], EndPass(l))
  BY <1>1, ScheduleNextCalm DEF EndPass
<1> QED BY <1>1, <1>2, CalmTransitive

LEMMA PassCalm == ASSUME NEW l \in Local, now \in Instant PROVE Calm(l, Pass(l))
<1> DEFINE m == [l EXCEPT !.rec.at = now]
<1>1. Calm(l, m) /\ m \in Local
  BY DEF Calm, Pinned, Knows, Local
<1>2. Calm(m, EndPass(m)) /\ Calm(m, Rec(m, "mend")) /\ Calm(m, Rec(m, "refresh"))
  BY <1>1, EndPassCalm, RecCalm
<1>3. Calm(m, Pass(l))
  BY <1>2 DEF Pass
<1> HIDE DEF m
<1> QED BY <1>1, <1>3, CalmTransitive

LEMMA FinishCalm == ASSUME NEW l \in Local, now \in Instant PROVE Calm(l, Finish(l))
<1>1. Calm(l, [l EXCEPT !.rec = Idle]) /\ [l EXCEPT !.rec = Idle] \in Local
  BY IdleCalm, IdleKeeps DEF Kept, Same
<1>2. Calm([l EXCEPT !.rec = Idle], Pass([l EXCEPT !.rec = Idle]))
  BY <1>1, PassCalm
<1>3. Calm(l, EndPass(l))
  BY EndPassCalm
<1> QED BY <1>1, <1>2, <1>3, CalmTransitive DEF Finish

LEMMA AfterRefusalCalm == ASSUME NEW l \in Local PROVE Calm(l, AfterRefusal(l))
BY ScheduleNextCalm, CalmReflexive DEF AfterRefusal

LEMMA AdmitNextCalm ==
  ASSUME NEW l \in Local, NEW row, now \in Instant, Placed(l)
  PROVE  Calm(l, AdmitNext(l, row).l)
<1> DEFINE skipped == [AfterRefusal(l) EXCEPT !.rec.n = @ + Cardinality(l.rec.due), !.rec.due = {}]
<1>1. Calm(l, Pass(l)) /\ Calm(l, Finish(l)) /\ Calm(l, Rec(l, "admit")) /\ Calm(l, Rec(l, "waiting"))
  BY PassCalm, FinishCalm, RecCalm
<1>2. Calm(l, Pass(skipped))
  <2>1. Calm(l, AfterRefusal(l)) /\ AfterRefusal(l) \in Local
    BY AfterRefusalCalm, AfterRefusalKeeps DEF Kept, Same
  <2>2. Cardinality(l.rec.due) \in Nat
    BY DueIsFinite DEF Local
  <2>3. \A m \in Local, c \in Nat :
          LET n == [m EXCEPT !.rec.n = @ + c, !.rec.due = {}] IN n \in Local /\ Calm(m, n)
    <3> SUFFICES ASSUME NEW m \in Local, NEW c \in Nat
                 PROVE  LET n == [m EXCEPT !.rec.n = @ + c, !.rec.due = {}]
                        IN n \in Local /\ Calm(m, n)
      OBVIOUS
    <3>1. m.rec.n + c \in Nat
      BY DEF Local
    <3> QED BY <3>1 DEF Calm, Pinned, Knows, Local
  <2>4. skipped \in Local /\ Calm(AfterRefusal(l), skipped)
    BY <2>1, <2>2, <2>3
  <2> HIDE DEF skipped
  <2>5. Calm(skipped, Pass(skipped))
    BY <2>4, PassCalm
  <2> QED BY <2>1, <2>4, <2>5, CalmTransitive
<1> HIDE DEF skipped
<1>3. AdmitNext(l, row).l \in {Pass(l), Finish(l), Pass(skipped), Rec(l, "admit"), Rec(l, "waiting")}
  BY DEF AdmitNext, Both, skipped
<1> QED BY <1>1, <1>2, <1>3

LEMMA AdmittedCalm ==
  ASSUME NEW l \in Local, NEW row, now \in Instant, l.rec.pc # "adjust"
  PROVE  Calm(l, Admitted(l, row).l)
<1> DEFINE m == [l EXCEPT !.rec.n = @ + 1, !.rec.due = @ \ {Min(@)}]
<1>1. m \in Local /\ Calm(l, m) /\ Placed(m)
  <2>1. l.rec.n + 1 \in Nat
    BY DEF Local
  <2> QED BY <2>1 DEF Calm, Pinned, Knows, Local, Placed
<1>2. Calm(l, Finish(l))
  BY FinishCalm
<1> HIDE DEF m
<1>3. Calm(l, AdmitNext(m, row).l)
  BY <1>1, AdmitNextCalm, CalmTransitive
<1>4. Admitted(l, row).l \in {Finish(l), AdmitNext(m, row).l}
  BY DEF Admitted, Both, m
<1> QED BY <1>2, <1>3, <1>4

LEMMA DecideMinds ==
  ASSUME NEW s, NEW l0 \in Local, NEW row, now \in Instant, l0.rec.pc # "adjust"
  PROVE  Minds(l0, Decide(s, l0, row).l)
<1> DEFINE keep == l0.unsettled /\ ~(l0.foreign /\ ~l0.cache.issue
                                       /\ l0.cache.last.status # "unknown")
           l == [l0 EXCEPT !.foreign = FALSE, !.rec.at = 0, !.unsettled = keep]
           selected == SelectedDue(l.cache.watermark, l0.rec.at, CatchUp - l.rec.n)
           missed == MissedDue(l.cache.watermark, l0.rec.at, CatchUp - l.rec.n)
           range == <<Min(missed), Max(missed)>>
           waits == [l0 EXCEPT !.foreign = TRUE, !.unsettled = TRUE]
           gives == [l EXCEPT !.rec.pc = "missed", !.rec.due = selected, !.rec.missed = range]
           admits == [l EXCEPT !.rec.due = selected]
<1>1. Minds(l0, l) /\ l \in Local /\ l.rec.pc # "adjust"
  <2>1. keep \in BOOLEAN /\ 0 \in Instant
    BY InstantTypes
  <2>2. l0.unsettled => keep \/ (l0.foreign /\ l0.cache.last.status # "unknown")
    OBVIOUS
  <2> HIDE DEF keep
  <2> QED BY <2>1, <2>2 DEF Minds, LetsGo, Pinned, Knows, Local
<1>2. selected \in SUBSET (Instant \cup {EndOfTime + 1})
  BY DueTypes
<1>3. Decide(s, l0, row).l \in {Finish(waits), gives, Finish(l), AdmitNext(admits, row).l}
  BY DEF Decide, Both
<1> HIDE DEF l, selected, missed, range
<1>4. Minds(l0, Finish(waits))
  <2>1. waits \in Local /\ Minds(l0, waits)
    BY DEF Minds, Pinned, Knows, Local
  <2> HIDE DEF waits
  <2> QED BY <2>1, FinishCalm, CalmMinds
<1>5. Minds(l0, Finish(l))
  BY <1>1, FinishCalm, CalmMinds
<1>6. Minds(l0, gives)
  <2>1. Calm(l, gives)
    BY <1>1 DEF Calm, Pinned, Knows, Local
  <2> QED BY <1>1, <2>1, CalmMinds
<1>7. Minds(l0, AdmitNext(admits, row).l)
  <2>1. admits \in Local /\ Calm(l, admits) /\ Placed(admits)
    BY <1>1, <1>2 DEF Calm, Pinned, Knows, Local, Placed
  <2> HIDE DEF admits
  <2>2. Calm(admits, AdmitNext(admits, row).l)
    BY <2>1, AdmitNextCalm
  <2> QED BY <1>1, <2>1, <2>2, CalmMinds
<1> QED BY <1>3, <1>4, <1>5, <1>6, <1>7

LEMMA AccountMinds ==
  ASSUME NEW s, NEW l \in Local, NEW row, now \in Instant, l.rec.pc # "adjust"
  PROVE  Minds(l, Account(s, l, row).l)
<1> DEFINE noticed == [l EXCEPT !.back = <<l.observed, l.rec.at>>, !.unsettled = TRUE,
                                !.rec.pc = "clock"]
           seen == [l EXCEPT !.observed = l.rec.at]
<1>1. Minds(l, Rec(l, "clock"))
  BY RecCalm, CalmMinds
<1>2. Minds(l, noticed)
  BY DEF Minds, Pinned, Knows, Local
<1>3. Minds(l, Decide(s, seen, row).l)
  <2>1. Calm(l, seen) /\ seen \in Local /\ seen.rec.pc # "adjust"
    BY DEF Calm, Pinned, Knows, Local
  <2> HIDE DEF seen
  <2> QED BY <2>1, DecideMinds, CalmMinds
<1>4. Account(s, l, row).l \in {Rec(l, "clock"), noticed, Decide(s, seen, row).l}
  BY DEF Account, Both
<1> QED BY <1>1, <1>2, <1>3, <1>4

LEMMA NextRecMinds ==
  ASSUME NEW s, NEW l \in Local, NEW row, NEW pc, now \in Instant, l.rec.pc # "adjust"
  PROVE  Minds(l, NextRec(s, l, row, pc).l)
<1>1. Minds(l, Account(s, l, row).l)
  BY AccountMinds
<1>2. Minds(l, Rec(l, "settled")) /\ Minds(l, Rec(l, "repair"))
  BY RecCalm, CalmMinds
<1>3. l.transition => Minds(l, Rec(l, "transition"))
  BY RecCalm, CalmMinds DEF Pinned
<1>4. NextRec(s, l, row, pc).l \in {Rec(l, "settled"), Rec(l, "repair"), Account(s, l, row).l}
        \/ (l.transition /\ NextRec(s, l, row, pc).l = Rec(l, "transition"))
  BY DEF NextRec, Both
<1> QED BY <1>1, <1>2, <1>3, <1>4

\* The start turns to another schedule only where it found one on record.
LEMMA NextInitCalm ==
  ASSUME NEW s, NEW l \in Local, NEW pc
  PROVE  LET m == NextInit(s, l, pc) IN
         /\ m.cache = l.cache /\ m.unsettled = l.unsettled /\ m.foreign = l.foreign
         /\ Pinned(m) => Pinned(l) \/ l.cache.gen # setup.schedule[s]
<1>1. \A step \in {"restart", "unknown"} : Calm(l, Rec(l, step))
  BY RecCalm
<1>2. /\ \A step : LET m == Rec(l, step)
                   IN m.cache = l.cache /\ m.unsettled = l.unsettled /\ m.foreign = l.foreign
      /\ Pinned(Rec(l, "drop")) => Pinned(l)
  BY DEF Rec, Pinned, Local
<1>3. \/ NextInit(s, l, pc) \in {Rec(l, "drop"), Rec(l, "restart"), Rec(l, "unknown")}
      \/ NextInit(s, l, pc) = Rec(l, "replace") /\ l.cache.gen # setup.schedule[s]
  BY DEF NextInit
<1> QED BY <1>1, <1>2, <1>3 DEF Calm

LEMMA RunningCalm == ASSUME NEW l \in Local, now \in Instant PROVE Calm(l, Running(l))
<1> DEFINE up == [l EXCEPT !.life = "running", !.rec = Idle]
<1>1. Calm(l, [l EXCEPT !.rec = Idle])
  BY IdleCalm
<1>2. Calm(l, up) /\ up \in Local /\ Placed(up)
  <2>1. Idle \in PassType /\ Idle.pc = "idle"
    BY IdleType
  <2> HIDE DEF Idle
  <2> QED BY <2>1 DEF Calm, Pinned, Knows, Placed, Local, PassType
<1> HIDE DEF up
<1>3. Calm(up, ScheduleNext(up)) /\ ScheduleNext(up) \in Local
  BY <1>2, ScheduleNextCalm, ScheduleNextKeeps DEF Kept, Same
<1>4. Calm(ScheduleNext(up), Pass(ScheduleNext(up)))
  BY <1>3, PassCalm
<1>5. Calm(l, Pass(ScheduleNext(up)))
  BY <1>2, <1>3, <1>4, CalmTransitive
<1> QED BY <1>1, <1>5 DEF Running, up

LEMMA StartFailedCalm == ASSUME NEW l \in Local PROVE Calm(l, StartFailed(l))
<1>1. Idle.pc = "idle"
  BY IdleType
<1> HIDE DEF Idle
<1> QED BY <1>1 DEF Calm, Pinned, Knows, StartFailed, Local

LEMMA RequestedCalm == ASSUME NEW l \in Local, now \in Instant PROVE Calm(l, Requested(l))
<1> DEFINE m == [l EXCEPT !.timer = Off]
<1>1. Calm(l, m) /\ m \in Local
  BY TimerTypes DEF Calm, Pinned, Knows, Local
<1>2. Calm(l, [l EXCEPT !.timer = Off, !.rec.again = TRUE])
  BY DEF Calm, Pinned, Knows, Local
<1>3. Calm(m, Pass(m))
  BY <1>1, PassCalm
<1>4. Calm(l, Pass(m))
  BY <1>1, <1>3, CalmTransitive
<1> QED BY <1>2, <1>4 DEF Requested

---------------------------------------------------------------------------
(* The schedule on record, and what a step makes of it                     *)

\* A record of another schedule than the one cached has an issue, and so has one that
\* came to be of the schedule a scheduler was about to put there.
GenOK ==
  /\ store.gen = NoGeneration => store = NoRecord
  /\ \A s \in Scheduler :
       LET c == local[s].cache IN
       /\ c.gen \in {NoGeneration, store.gen} \/ store.issue
       /\ c.gen # NoGeneration => store.gen # NoGeneration
       /\ Knows(local[s]) => c.gen # NoGeneration
       /\ Pinned(local[s]) => (c.gen = setup.schedule[s] => c.issue)

\* No write withdraws an issue, and only a first record changes the schedule without one.
Grows(r, n) ==
  /\ r.issue => n.issue
  /\ n.gen = r.gen \/ n.issue \/ r.gen = NoGeneration
  /\ n.gen = NoGeneration => n = r

\* Most keep the schedule as it is.
Adds(r, n) == n.gen = r.gen /\ (r.issue => n.issue)

\* What a step of s may do to the record and to what s shows.
Informs(s) ==
  LET l == local[s]
      m == local'[s]
  IN /\ Grows(store, store') /\ setup' = setup
     /\ local' = [local EXCEPT ![s] = m] /\ inv' = [inv EXCEPT ![s] = inv'[s]]
     /\ m.cache \in {l.cache, store, store'}
     /\ Knows(m) => Knows(l) \/ m.cache.gen # NoGeneration
     /\ Pinned(m) => Pinned(l) \/ m.cache.gen # setup.schedule[s]
     /\ l.unsettled => Shows(m) \/ LetsGo(l, m)
     /\ untold' # untold => Shows(m)

IssuesKept ==
  \A s \in Scheduler :
    /\ ShowsIssue(s) /\ local'[s].life # "crashed" => ShowsIssue(s)' \/ ClaimIsOver(s)
    /\ \A k \in untold' \ untold : inv'[s] # inv[s] => ShowsIssue(s)'

LEMMA InformsKeeps ==
  ASSUME Inv, GenOK, NEW s \in Scheduler, Informs(s) PROVE GenOK' /\ IssuesKept
<1>1. /\ Grows(store, store') /\ setup' = setup
      /\ local' = [local EXCEPT ![s] = local'[s]] /\ inv' = [inv EXCEPT ![s] = inv'[s]]
      /\ local'[s].cache \in {local[s].cache, store, store'}
      /\ Knows(local'[s]) => Knows(local[s]) \/ local'[s].cache.gen # NoGeneration
      /\ Pinned(local'[s]) => Pinned(local[s]) \/ local'[s].cache.gen # setup.schedule[s]
      /\ local[s].unsettled => Shows(local'[s]) \/ LetsGo(local[s], local'[s])
      /\ untold' # untold => Shows(local'[s])
  BY DEF Informs
<1>2. \A t \in Scheduler : t # s => local'[t] = local[t] /\ inv'[t] = inv[t]
  BY <1>1 DEF Inv, Typed, TypeOK
<1>3. \A t \in Scheduler : local[t].cache.issue => store.issue
  BY DEF Inv, Told, IssueOK
<1>4. /\ store.gen = NoGeneration => store = NoRecord
      /\ \A t \in Scheduler :
           /\ local[t].cache.gen \in {NoGeneration, store.gen} \/ store.issue
           /\ local[t].cache.gen # NoGeneration => store.gen # NoGeneration
           /\ Knows(local[t]) => local[t].cache.gen # NoGeneration
           /\ Pinned(local[t]) =>
                (local[t].cache.gen = setup.schedule[t] => local[t].cache.issue)
  BY DEF GenOK
<1>5. /\ store.issue => store'.issue
      /\ store'.gen = store.gen \/ store'.issue \/ store.gen = NoGeneration
      /\ store'.gen = NoGeneration => store' = store
  BY <1>1 DEF Grows
<1>6. ASSUME NEW t \in Scheduler
      PROVE  LET c == local'[t].cache IN
             /\ c.gen \in {NoGeneration, store'.gen} \/ store'.issue
             /\ c.gen # NoGeneration => store'.gen # NoGeneration
             /\ Knows(local'[t]) => c.gen # NoGeneration
             /\ Pinned(local'[t]) => (c.gen = setup'.schedule[t] => c.issue)
  <2>1. CASE t # s
    BY <1>1, <1>2, <1>4, <1>5, <2>1
  <2>2. CASE t = s
    <3>1. /\ local[s].cache.gen \in {NoGeneration, store.gen} \/ store.issue
          /\ local[s].cache.gen # NoGeneration => store.gen # NoGeneration
          /\ Knows(local[s]) => local[s].cache.gen # NoGeneration
          /\ Pinned(local[s]) =>
               (local[s].cache.gen = setup.schedule[s] => local[s].cache.issue)
          /\ local[s].cache.issue => store.issue
      BY <1>3, <1>4
    <3>2. Pinned(local[s]) => Knows(local[s])
      BY DEF Knows
    <3> QED BY <1>1, <1>5, <2>2, <3>1, <3>2
  <2> QED BY <2>1, <2>2
<1>7. GenOK'
  BY <1>4, <1>5, <1>6 DEF GenOK, NoRecord, InitialRecord
<1>8. ASSUME NEW t \in Scheduler
      PROVE  /\ ShowsIssue(t) /\ local'[t].life # "crashed" => ShowsIssue(t)' \/ ClaimIsOver(t)
             /\ \A k \in untold' \ untold : inv'[t] # inv[t] => ShowsIssue(t)'
  <2>1. CASE t # s
    BY <1>2, <2>1 DEF ShowsIssue
  <2>2. CASE t = s
    <3>1. local[s].cache.issue => local'[s].cache.issue
      BY <1>1, <1>3, <1>5
    <3> QED BY <1>1, <2>2, <3>1 DEF ShowsIssue, ClaimIsOver, Shows, LetsGo
  <2> QED BY <2>1, <2>2
<1> QED BY <1>7, <1>8 DEF IssuesKept

---------------------------------------------------------------------------
(* What each operation writes                                              *)

LEMMA GrowsReflexive == ASSUME NEW r PROVE Grows(r, r)
BY DEF Grows

LEMMA WritesAdd ==
  ASSUME NEW r \in Record
  PROVE  /\ \A n \in DropSettledClaim(r) : Adds(r, n)
         /\ \A n \in RecordUnknown(r) : Adds(r, n)
         /\ \A pair : \A n \in RecordRestartRegression(pair, r) \cup RecordRegression(pair, r) :
              Adds(r, n)
         /\ \A from, through : \A n \in RecordMissed(from, through, r) : Adds(r, n)
         /\ \A s, k : \A n \in ClearActive(s, k, r) : Adds(r, n)
         /\ \A s, k : \A n \in ClaimActive(s, k, r) : Adds(r, n)
<1>1. \A n \in DropSettledClaim(r) \cup RecordUnknown(r) : Adds(r, n)
  BY DEF DropSettledClaim, RecordUnknown, Adds, Record
<1>2. ASSUME NEW pair, NEW n \in RecordRestartRegression(pair, r) \cup RecordRegression(pair, r)
      PROVE  Adds(r, n)
  <2>1. n = [r EXCEPT !.issue = TRUE, !.back = pair]
    BY <1>2 DEF RecordRestartRegression, RecordRegression
  <2> QED BY <2>1 DEF Adds, Record
<1>3. ASSUME NEW from, NEW through, NEW n \in RecordMissed(from, through, r) PROVE Adds(r, n)
  <2>1. n = [r EXCEPT !.watermark = through, !.issue = TRUE,
                      !.last = [status |-> "missed", key |-> through],
                      !.missed = MergeMissed(@, from, through)]
    BY <1>3 DEF RecordMissed
  <2> QED BY <2>1 DEF Adds, Record
<1>4. ASSUME NEW s, NEW k, NEW n \in ClearActive(s, k, r) \cup ClaimActive(s, k, r)
      PROVE  Adds(r, n)
  BY <1>4 DEF ClearActive, ClaimActive, Adds, Record
<1> QED BY <1>1, <1>2, <1>3, <1>4

\* There is no claim to give back before there is a first record.
LEMMA GivesBackGrows ==
  ASSUME GenOK, store \in Record
  PROVE  /\ \A n \in DropSettledClaim(store) : Grows(store, n)
         /\ \A s \in Scheduler : \A k : \A n \in ClearActive(s, k, store) : Grows(store, n)
<1>1. store.gen = NoGeneration => store.active = NoClaim
  BY DEF GenOK, NoRecord, InitialRecord
<1>2. store.gen = NoGeneration => DropSettledClaim(store) = {}
  BY <1>1 DEF DropSettledClaim, HasDefinitivelySettledActive
<1>3. ASSUME store.gen = NoGeneration, NEW s \in Scheduler, NEW k PROVE ClearActive(s, k, store) = {}
  BY <1>1, <1>3, ClaimInjective DEF ClearActive
<1>4. \A n : Adds(store, n) /\ store.gen # NoGeneration => Grows(store, n)
  BY DEF Adds, Grows
<1> QED BY <1>2, <1>3, <1>4, WritesAdd

\* A write that must find the scheduler's own schedule on record finds a record there.
LEMMA LoyalGrows ==
  ASSUME Inv, NEW s \in Scheduler, NEW mine, NEW theirs, NEW o \in Outcomes(s, mine, theirs, FALSE),
         s \in current => mine = theirs, \A n \in theirs : Adds(store, n)
  PROVE  Grows(store, o.store)
<1> DEFINE foreign(r) == r.gen # setup.schedule[s]
           trusts == s \in current \/ foreign(local[s].cache) \/ mine = {}
           seen == IF trusts THEN local[s].cache ELSE store
           wants == IF trusts THEN mine ELSE theirs
           reads == IF seen = local[s].cache THEN current ELSE current \cup {s}
           next == CHOOSE r \in wants : TRUE
<1>1. CASE foreign(seen) \/ wants = {}
  <2>1. o \in {Outcome("fenced", store, seen, reads, 0), Outcome("same", store, seen, reads, 0)}
    BY <1>1 DEF Outcomes
  <2> HIDE DEF seen, reads
  <2> QED BY <2>1, GrowsReflexive DEF Outcome
<1>2. CASE ~foreign(seen) /\ wants # {}
  <2>1. wants = theirs /\ seen = store
    BY <1>2 DEF Inv, Typed, CurrentOK
  <2>2. next \in theirs
    <3> HIDE DEF wants
    <3>1. \E r \in wants : TRUE
      BY <1>2
    <3> QED BY <2>1, <3>1
  <2>3. o \in {Outcome("applied", next, next, {s}, 0)}
             \cup IF faults < setup.faults
                    THEN {Outcome("failed", store, seen, reads, 1),
                          Outcome("failed", next, seen, {}, 1)}
                    ELSE {}
    BY <1>2, Zenon DEF Outcomes
  <2>4. store.gen # NoGeneration
    <3>1. store.gen = setup.schedule[s] /\ setup.schedule[s] \in Generation
      BY <1>2, <2>1, ScheduleType DEF Inv, Typed
    <3> QED BY <3>1, RecordAssumption DEF RecordAssumption
  <2> HIDE DEF seen, reads, next
  <2>5. o.store \in {store, next}
    BY <2>3 DEF Outcome
  <2>6. Adds(store, next)
    BY <2>2
  <2> QED BY <2>4, <2>5, <2>6, GrowsReflexive DEF Adds, Grows
<1> QED BY <1>1, <1>2

LEMMA ReplaceGrows ==
  ASSUME NEW r, NEW gen \in Generation, NEW at, NEW n \in ReplaceSchedule(gen, at, r)
  PROVE  n.issue /\ n.gen = gen /\ Grows(r, n)
<1> DEFINE w == Later(r.watermark, at)
<1>1. n = [InitialRecord(gen, w) EXCEPT !.issue = TRUE, !.back = r.back,
                !.missed = MergeMissed(r.missed, r.watermark, w)]
  BY DEF ReplaceSchedule
<1> HIDE DEF w
<1>2. n.issue /\ n.gen = gen
  BY <1>1 DEF InitialRecord
<1> QED BY <1>2, RecordAssumption DEF RecordAssumption, Grows

\* Settling and reserving leave what was remembered on record.
LEMMA SettleAdds ==
  ASSUME NEW r \in Record, NEW k, NEW status, NEW unsettled \in BOOLEAN
  PROVE  /\ \A n \in SettleInvocation(k, status, unsettled, r) :
              Adds(r, n) /\ (unsettled => n.issue)
         /\ SettleInvocation(k, status, unsettled, r) = {} => (unsettled => r.issue)
<1> DEFINE issue == r.issue \/ unsettled \/ status \in {"rejected", "unknown", "missed"}
<1>1. issue \in BOOLEAN /\ (r.issue => issue) /\ (unsettled => issue) /\ r.issue \in BOOLEAN
  BY DEF Record
<1>2. SettleInvocation(k, status, unsettled, r) =
        IF r.last.key = k THEN {[r EXCEPT !.last.status = status, !.issue = issue]}
        ELSE IF issue = r.issue THEN {} ELSE {[r EXCEPT !.issue = TRUE]}
  BY DEF SettleInvocation
<1> HIDE DEF issue
<1>3. ASSUME NEW n \in SettleInvocation(k, status, unsettled, r)
      PROVE  n.gen = r.gen /\ (issue => n.issue)
  <2>1. CASE n = [r EXCEPT !.last.status = status, !.issue = issue]
    BY <2>1 DEF Record
  <2>2. CASE n = [r EXCEPT !.issue = TRUE]
    BY <2>2 DEF Record
  <2> QED BY <1>2, <1>3, <2>1, <2>2
<1>4. SettleInvocation(k, status, unsettled, r) = {} => issue = r.issue
  BY <1>2
<1> QED BY <1>1, <1>3, <1>4 DEF Adds

LEMMA ReserveAdds ==
  ASSUME NEW r \in Record, NEW s, NEW carrying, NEW unsettled \in BOOLEAN, NEW k,
         NEW n \in Reserve(s, carrying, unsettled, k, r)
  PROVE  Adds(r, n) /\ (unsettled => n.issue)
<1> DEFINE lost == r.last.status = "unknown" /\ r.last.key # carrying
           issue == r.issue \/ unsettled \/ lost
<1>1. n = [r EXCEPT !.watermark = k, !.active = IF @ = NoClaim THEN Claim(s, k) ELSE @,
                    !.last = [status |-> "unknown", key |-> k], !.issue = issue]
  BY DEF Reserve
<1>2. (r.issue => issue) /\ (unsettled => issue)
  OBVIOUS
<1> HIDE DEF issue
<1>3. n.gen = r.gen /\ n.issue = issue
  BY <1>1 DEF Record
<1> QED BY <1>2, <1>3 DEF Adds

---------------------------------------------------------------------------
(* What a step shows, by what it makes of the scheduler's memory           *)

LEMMA CachedMinds ==
  ASSUME Typed, NEW s \in Scheduler, NEW o, o.cache \in Record
  PROVE  /\ Cached(s, o).unsettled = local[s].unsettled
         /\ Cached(s, o).foreign => local[s].foreign
         /\ Pinned(Cached(s, o)) => Pinned(local[s])
         /\ Knows(Cached(s, o)) => Knows(local[s])
<1> DEFINE l == [local[s] EXCEPT !.cache = o.cache]
<1>1. /\ l \in Local /\ l.unsettled = local[s].unsettled /\ l.foreign = local[s].foreign
      /\ Pinned(l) => Pinned(local[s])
      /\ Knows(l) => Knows(local[s])
  BY LocalTypes DEF Local, Pinned, Knows
<1>2. Cached(s, o) = IF o.how = "fenced" THEN FenceScheduleGeneration(l) ELSE l
  BY DEF Cached
<1> HIDE DEF l
<1>3. LET m == FenceScheduleGeneration(l)
      IN /\ m.unsettled = l.unsettled /\ ~m.foreign
         /\ (Pinned(m) => Pinned(l)) /\ (Knows(m) => Knows(l))
  BY <1>1 DEF FenceScheduleGeneration, Pinned, Knows, Local
<1> QED BY <1>1, <1>2, <1>3

\* A step that writes shows what its scheduler is left with.
LEMMA WriteInforms ==
  ASSUME Inv, Typed', NEW s \in Scheduler, NEW o, NEW writes, NEW l, NEW row,
         Effect(s, o, writes), Grows(store, o.store), Commit(o),
         local' = [local EXCEPT ![s] = l], inv' = [inv EXCEPT ![s] = row], setup' = setup,
         o.cache \in Record =>
           /\ l.cache = o.cache
           /\ Knows(l) => Knows(local[s]) \/ l.cache.gen # NoGeneration
           /\ Pinned(l) => Pinned(local[s]) \/ l.cache.gen # setup.schedule[s]
           /\ local[s].unsettled => Shows(l) \/ LetsGo(local[s], l)
           /\ untold' # untold => Shows(l)
  PROVE  Informs(s)
<1>1. local'[s] = l /\ inv'[s] = row
  BY DEF Inv, Typed, TypeOK
<1>2. store' = o.store /\ o.cache \in {local[s].cache, store, store'}
  BY DEF Effect, Commit
<1>3. local[s].cache \in Record /\ store \in Record /\ store' \in Record
  BY LocalTypes DEF Inv, Typed, TypeOK
<1> QED BY <1>1, <1>2, <1>3 DEF Informs

LEMMA BecomeInforms ==
  ASSUME Inv, Typed', NEW s \in Scheduler, NEW o, NEW writes, NEW b,
         Effect(s, o, writes), Grows(store, o.store), Commit(o), Become(s, b),
         o.cache \in Record => Minds(Cached(s, o), b.l), UNCHANGED <<setup, untold>>
  PROVE  Informs(s)
<1>1. ASSUME o.cache \in Record
      PROVE  /\ b.l.cache = o.cache
             /\ (Pinned(b.l) => Pinned(local[s])) /\ (Knows(b.l) => Knows(local[s]))
             /\ local[s].unsettled => Shows(b.l) \/ LetsGo(local[s], b.l)
  <2>1. Minds(Cached(s, o), b.l)
    BY <1>1
  <2>2. /\ Cached(s, o).cache = o.cache /\ Cached(s, o).unsettled = local[s].unsettled
        /\ Cached(s, o).foreign => local[s].foreign
        /\ Pinned(Cached(s, o)) => Pinned(local[s])
        /\ Knows(Cached(s, o)) => Knows(local[s])
    BY <1>1, CachedKeeps, CachedMinds DEF Inv
  <2> QED BY <2>1, <2>2 DEF Minds, Shows, LetsGo
<1> QED BY <1>1, WriteInforms DEF Become

\* A step that writes nothing.
LEMMA QuietInforms ==
  ASSUME Inv, NEW s \in Scheduler, NEW l, NEW row, Minds(local[s], l),
         local' = [local EXCEPT ![s] = l], inv' = [inv EXCEPT ![s] = row],
         UNCHANGED <<setup, store, untold>>
  PROVE  Informs(s)
<1>1. local'[s] = l /\ inv'[s] = row
  BY DEF Inv, Typed, TypeOK
<1> QED BY <1>1, GrowsReflexive DEF Informs, Minds, Shows

---------------------------------------------------------------------------
(* Starts and passes                                                       *)

LEMMA StartInforms ==
  ASSUME Inv, NEW s \in Scheduler, Start(s) PROVE Informs(s)
<1> DEFINE rec == [Idle EXCEPT !.pc = "start", !.at = now]
           l == [local[s] EXCEPT !.life = "starting", !.observed = now, !.rec = rec]
<1>1. rec.pc = "start"
  BY DEF Idle
<1> HIDE DEF rec
<1>2. Minds(local[s], l)
  BY <1>1, LocalTypes DEF Minds, Pinned, Knows, Local, Inv
<1>3. local' = [local EXCEPT ![s] = l] /\ inv' = [inv EXCEPT ![s] = inv[s]]
  BY DEF Start, Set, rec, Inv, Typed, TypeOK
<1> HIDE DEF l
<1> QED BY <1>2, <1>3, QuietInforms DEF Start, world, disk, host

LEMMA StopReturnsInforms ==
  ASSUME Inv, NEW s \in Scheduler, StopReturns(s) PROVE Informs(s)
<1> DEFINE l == [local[s] EXCEPT !.life = "stopped"]
<1>1. Minds(local[s], l)
  BY LocalTypes DEF Minds, Pinned, Knows, Local, Inv
<1>2. local' = [local EXCEPT ![s] = l] /\ inv' = [inv EXCEPT ![s] = inv[s]]
  BY DEF StopReturns, Set, Inv, Typed, TypeOK
<1> HIDE DEF l
<1> QED BY <1>1, <1>2, QuietInforms DEF StopReturns, world, disk, host

LEMMA InvokeInforms ==
  ASSUME Inv, NEW s \in Scheduler, NEW k \in Instant, Invoke(s, k) PROVE Informs(s)
<1> DEFINE l == IF Refused(local[s]) THEN AfterRefusal(local[s]) ELSE local[s]
           row == IF Refused(local[s]) THEN inv[s]
                  ELSE [inv[s] EXCEPT ![k] = [at |-> "admit", as |-> "none"]]
<1>1. local[s] \in Local
  BY LocalTypes DEF Inv
<1>2. Minds(local[s], l)
  BY <1>1, AfterRefusalCalm, CalmMinds, CalmReflexive
<1>3. local' = [local EXCEPT ![s] = l] /\ inv' = [inv EXCEPT ![s] = row]
  BY DEF Invoke, Set, Goto, Inv, Typed, TypeOK
<1> HIDE DEF l, row
<1> QED BY <1>2, <1>3, QuietInforms DEF Invoke, world, disk, host

LEMMA TimerFiresInforms ==
  ASSUME Inv, NEW s \in Scheduler, TimerFires(s) PROVE Informs(s)
<1> DEFINE l == local[s]
           back == IF l.back = NoRange THEN <<l.observed, now>> ELSE l.back
           rec == [Idle EXCEPT !.pc = "adjust", !.at = now, !.due = {l.timer}]
           adjusting == [l EXCEPT !.timer = Off, !.unsettled = TRUE, !.back = back, !.rec = rec]
<1>1. local[s] \in Local /\ now \in Instant
  BY LocalTypes DEF Inv
<1>2. Minds(l, Requested(l))
  BY <1>1, RequestedCalm, CalmMinds
<1>3. Minds(l, adjusting)
  <2>1. rec.pc = "adjust"
    BY DEF Idle
  <2> HIDE DEF rec, back
  <2> QED BY <1>1, <2>1 DEF Minds, Pinned, Knows, Local
<1>4. Set(s, Requested(l)) \/ Set(s, adjusting)
  BY DEF TimerFires
<1>5. inv' = [inv EXCEPT ![s] = inv[s]] /\ UNCHANGED <<setup, store, untold>>
  BY DEF TimerFires, world, disk, host, Inv, Typed, TypeOK
<1> HIDE DEF adjusting
<1> QED BY <1>2, <1>3, <1>4, <1>5, QuietInforms DEF Set

LEMMA AdmissionReturnsInforms ==
  ASSUME Inv, NEW s \in Scheduler, AdmissionReturns(s) PROVE Informs(s)
<1>1. local[s] \in Local /\ now \in Instant /\ local[s].rec.pc # "adjust"
  BY LocalTypes DEF AdmissionReturns, Inv
<1>2. Minds(local[s], Admitted(local[s], inv[s]).l)
  BY <1>1, AdmittedCalm, CalmMinds
<1> QED BY <1>2, QuietInforms DEF AdmissionReturns, Become, world, disk, host

LEMMA DropSettledInforms ==
  ASSUME Inv, Typed', GenOK, NEW s \in Scheduler, DropSettled(s) PROVE Informs(s)
<1>1. PICK o \in Outcomes(s, DropSettledClaim(local[s].cache), DropSettledClaim(store), TRUE) :
        LET l == Cached(s, o)
            stay(x) == Both(x, inv[s])
        IN /\ Commit(o)
           /\ Become(s, IF local[s].rec.pc = "drop"
                          THEN stay(IF Did(o) THEN NextInit(s, l, "drop") ELSE StartFailed(l))
                        ELSE IF Did(o) THEN NextRec(s, l, inv[s], "settled")
                        ELSE stay(Finish(Failing(l))))
  BY DEF DropSettled, UpdateRecord, Outcomes
<1> DEFINE c == Cached(s, o)
           b == IF local[s].rec.pc = "drop"
                  THEN Both(IF Did(o) THEN NextInit(s, c, "drop") ELSE StartFailed(c), inv[s])
                ELSE IF Did(o) THEN NextRec(s, c, inv[s], "settled")
                ELSE Both(Finish(Failing(c)), inv[s])
<1>2. Effect(s, o, DropSettledClaim(store))
  BY OutcomeEffect DEF Inv, Typed, CurrentOK
<1>3. Grows(store, o.store)
  <2>1. \A n \in DropSettledClaim(store) : Grows(store, n)
    BY LocalTypes, GivesBackGrows DEF Inv
  <2> QED BY <1>2, <2>1, GrowsReflexive DEF Effect
<1>4. ASSUME o.cache \in Record
      PROVE  /\ b.l.cache = o.cache
             /\ Knows(b.l) => Knows(local[s]) \/ b.l.cache.gen # NoGeneration
             /\ Pinned(b.l) => Pinned(local[s]) \/ b.l.cache.gen # setup.schedule[s]
             /\ local[s].unsettled => Shows(b.l) \/ LetsGo(local[s], b.l)
  <2>1. /\ c \in Local /\ c.rec = local[s].rec /\ c.cache = o.cache
        /\ c.unsettled = local[s].unsettled /\ (c.foreign => local[s].foreign)
        /\ (Pinned(c) => Pinned(local[s])) /\ (Knows(c) => Knows(local[s]))
    BY <1>4, CachedKeeps, CachedMinds DEF Inv
  <2>2. now \in Instant /\ c.rec.pc # "adjust"
    BY <2>1, LocalTypes DEF DropSettled, Inv
  <2> HIDE DEF c
  <2>3. CASE local[s].rec.pc = "drop" /\ Did(o)
    <3>1. b.l = NextInit(s, c, "drop") /\ Knows(local[s])
      BY <2>3 DEF Both, Knows
    <3>2. LET m == NextInit(s, c, "drop") IN
          /\ m.cache = c.cache /\ m.unsettled = c.unsettled
          /\ Pinned(m) => Pinned(c) \/ c.cache.gen # setup.schedule[s]
      BY <2>1, NextInitCalm
    <3> QED BY <2>1, <3>1, <3>2 DEF Shows
  <2>4. CASE ~(local[s].rec.pc = "drop" /\ Did(o))
    <3>1. Minds(c, NextRec(s, c, inv[s], "settled").l)
      BY <2>1, <2>2, NextRecMinds
    <3>2. Minds(c, StartFailed(c))
      BY <2>1, StartFailedCalm, CalmMinds
    <3>3. Minds(c, Finish(Failing(c)))
      <4>1. Failing(c) \in Local /\ Calm(c, Failing(c))
        BY <2>1, FlagKeeps, FlagCalm DEF Same
      <4> QED BY <2>2, <4>1, FinishCalm, CalmTransitive, CalmMinds
    <3>4. b.l \in {StartFailed(c), NextRec(s, c, inv[s], "settled").l, Finish(Failing(c))}
      BY <2>4 DEF Both
    <3>5. Minds(c, b.l)
      BY <3>1, <3>2, <3>3, <3>4
    <3> HIDE DEF b
    <3> QED BY <2>1, <3>5 DEF Minds, Shows, LetsGo
  <2> QED BY <2>3, <2>4
<1>5. Commit(o) /\ Become(s, b) /\ UNCHANGED <<setup, untold>>
  BY <1>1 DEF DropSettled, world, host
<1> HIDE DEF b
<1> QED BY <1>2, <1>3, <1>4, <1>5, WriteInforms DEF Become

\* A record of the schedule that was to be replaced has an issue once it is replaced.
LEMMA ReplacedShows ==
  ASSUME Inv, GenOK, NEW s \in Scheduler, Pinned(local[s]), NEW at, NEW o,
         Effect(s, o, ReplaceSchedule(setup.schedule[s], at, store)), Did(o),
         o.cache.gen = setup.schedule[s]
  PROVE  o.cache.issue
<1>1. /\ local[s].cache.gen \in {NoGeneration, store.gen} \/ store.issue
      /\ local[s].cache.gen # NoGeneration
      /\ local[s].cache.gen = setup.schedule[s] => local[s].cache.issue
      /\ local[s].cache.issue => store.issue
  BY DEF GenOK, Knows, Inv, Told, IssueOK
<1>2. CASE o.how = "applied"
  <2>1. setup.schedule[s] \in Generation
    BY ScheduleType DEF Inv, Typed
  <2> QED BY <1>2, <2>1, ReplaceGrows DEF Effect
<1>3. CASE o.how = "same"
  <2>1. o.cache \in {local[s].cache, store}
    BY <1>3 DEF Effect
  <2> QED BY <1>1, <2>1
<1> QED BY <1>2, <1>3 DEF Did

LEMMA ReplaceInforms ==
  ASSUME Inv, Typed', GenOK, NEW s \in Scheduler, Replace(s) PROVE Informs(s)
<1> DEFINE gen == setup.schedule[s]
           at == local[s].rec.at
           Wants(r) == ReplaceSchedule(gen, at, r)
           After(o, c) ==
             LET blocked == c.cache.gen # gen
                 l == [c EXCEPT !.transition = blocked, !.foreign = blocked,
                                !.unsettled = blocked \/ (@ /\ c.cache.issue)]
                 stay(x) == Both(x, inv[s])
             IN IF local[s].rec.pc = "replace"
                  THEN stay(IF Did(o) THEN NextInit(s, l, "replace") ELSE StartFailed(c))
                ELSE IF ~Did(o) THEN stay(Finish(Failing(c)))
                ELSE IF blocked THEN stay(Finish(l))
                ELSE NextRec(s, l, inv[s], "transition")
<1>1. PICK o \in Outcomes(s, Wants(local[s].cache), Wants(store), TRUE) :
        Commit(o) /\ Become(s, After(o, Cached(s, o)))
  <2>1. \A o \in UpdateRecord(s, Wants, TRUE) :
          o \in Outcomes(s, Wants(local[s].cache), Wants(store), TRUE)
    BY DEF UpdateRecord, Outcomes
  <2>2. \E o \in UpdateRecord(s, Wants, TRUE) : Commit(o) /\ Become(s, After(o, Cached(s, o)))
    BY Zenon DEF Replace, UpdateRecord
  <2> QED BY <2>1, <2>2, Zenon DEF UpdateRecord
<1> DEFINE c == Cached(s, o)
           b == After(o, c)
<1>2. Effect(s, o, Wants(store))
  BY OutcomeEffect DEF Inv, Typed, CurrentOK
<1>3. Grows(store, o.store)
  <2>1. \A n \in Wants(store) : Grows(store, n)
    BY ScheduleType, ReplaceGrows DEF Inv, Typed
  <2> HIDE DEF Wants
  <2> QED BY <1>2, <2>1, GrowsReflexive DEF Effect
<1>4. Pinned(local[s]) /\ Knows(local[s])
  BY DEF Replace, Pinned, Knows
<1>5. Did(o) /\ o.cache.gen = gen => o.cache.issue
  BY <1>2, <1>4, ReplacedShows
<1>6. ASSUME o.cache \in Record
      PROVE  /\ b.l.cache = o.cache
             /\ local[s].unsettled => Shows(b.l) \/ LetsGo(local[s], b.l)
  <2>1. /\ c \in Local /\ c.rec = local[s].rec /\ c.cache = o.cache
        /\ c.unsettled = local[s].unsettled
    BY <1>6, CachedKeeps, CachedMinds DEF Inv
  <2>2. now \in Instant /\ c.rec.pc # "adjust"
    BY <2>1, LocalTypes DEF Replace, Inv
  <2> HIDE DEF c
  <2> DEFINE blocked == c.cache.gen # gen
             issue == blocked \/ (c.unsettled /\ c.cache.issue)
             l == [c EXCEPT !.transition = blocked, !.foreign = blocked, !.unsettled = issue]
  <2>3. /\ l \in Local /\ l.rec = c.rec /\ l.cache = c.cache
        /\ l.foreign = blocked /\ l.unsettled = issue
    <3>1. blocked \in BOOLEAN /\ issue \in BOOLEAN
      OBVIOUS
    <3> HIDE DEF blocked, issue
    <3> QED BY <2>1, <3>1 DEF Local
  <2>4. b.l \in {StartFailed(c), Finish(Failing(c))}
        \/ /\ Did(o)
           /\ \/ b.l = NextInit(s, l, "replace")
              \/ b.l = Finish(l)
              \/ ~blocked /\ b.l = NextRec(s, l, inv[s], "transition").l
    BY DEF Both
  <2> HIDE DEF l, b, issue
  <2>5. CASE b.l \in {StartFailed(c), Finish(Failing(c))}
    <3>1. Failing(c) \in Local /\ Calm(c, Failing(c))
      BY <2>1, FlagKeeps, FlagCalm DEF Same
    <3>2. Calm(c, StartFailed(c)) /\ Calm(c, Finish(Failing(c)))
      BY <2>1, <2>2, <3>1, StartFailedCalm, FinishCalm, CalmTransitive
    <3>3. Calm(c, b.l)
      BY <2>5, <3>2
    <3> QED BY <2>1, <3>3 DEF Calm, Shows
  <2>6. ASSUME Did(o), b.l.cache = c.cache, l.unsettled /\ blocked => b.l.unsettled
        PROVE  b.l.cache = o.cache /\ Shows(b.l)
    <3>1. CASE blocked
      BY <2>1, <2>3, <2>6, <3>1 DEF Shows, issue
    <3>2. CASE ~blocked
      BY <1>5, <2>1, <2>6, <3>2 DEF Shows
    <3> QED BY <3>1, <3>2
  <2>7. CASE Did(o) /\ b.l = NextInit(s, l, "replace")
    <3>1. LET m == NextInit(s, l, "replace") IN m.cache = l.cache /\ m.unsettled = l.unsettled
      BY <2>3, NextInitCalm
    <3> QED BY <2>3, <2>6, <2>7, <3>1
  <2>8. CASE Did(o) /\ b.l = Finish(l)
    <3>1. Calm(l, Finish(l))
      BY <2>2, <2>3, FinishCalm
    <3> QED BY <2>3, <2>6, <2>8, <3>1 DEF Calm
  <2>9. CASE Did(o) /\ ~blocked /\ b.l = NextRec(s, l, inv[s], "transition").l
    <3>1. Minds(l, NextRec(s, l, inv[s], "transition").l)
      BY <2>2, <2>3, NextRecMinds
    <3> QED BY <2>3, <2>6, <2>9, <3>1 DEF Minds
  <2> QED BY <2>4, <2>5, <2>7, <2>8, <2>9
<1>7. Commit(o) /\ Become(s, b) /\ UNCHANGED <<setup, untold>>
  BY <1>1 DEF Replace, world, host
<1> HIDE DEF b, Wants
<1> QED BY <1>2, <1>3, <1>4, <1>6, <1>7, WriteInforms DEF Become

\* A step of the start that sets what it makes of the memory.
LEMMA SetInforms ==
  ASSUME Inv, Typed', NEW s \in Scheduler, NEW o, NEW writes, NEW l, Effect(s, o, writes),
         Grows(store, o.store), Commit(o), Set(s, l), o.cache \in Record => Minds(Cached(s, o), l),
         UNCHANGED <<world, inv, host>>
  PROVE  Informs(s)
<1>1. Become(s, Both(l, inv[s])) /\ Both(l, inv[s]).l = l
  BY DEF Become, Both, Set, Inv, Typed, TypeOK
<1> QED BY <1>1, BecomeInforms DEF world, host

LEMMA RestartRegressionInforms ==
  ASSUME Inv, Typed', NEW s \in Scheduler, RestartRegression(s) PROVE Informs(s)
<1> DEFINE Wants(r) == RecordRestartRegression(<<local[s].cache.watermark, local[s].rec.at>>, r)
<1>1. PICK o \in Outcomes(s, Wants(local[s].cache), Wants(store), FALSE) :
        /\ Commit(o)
        /\ Set(s, IF Did(o) THEN Rec(Cached(s, o), "unknown") ELSE StartFailed(Cached(s, o)))
  BY DEF RestartRegression, UpdateRecord, Outcomes
<1>2. Effect(s, o, Wants(store))
  BY OutcomeEffect DEF Inv, Typed, CurrentOK
<1>3. Grows(store, o.store)
  <2>1. \A n \in Wants(store) : Adds(store, n)
    BY LocalTypes, WritesAdd DEF Inv
  <2>2. s \in current => Wants(local[s].cache) = Wants(store)
    BY DEF Inv, Typed, CurrentOK
  <2> HIDE DEF Wants
  <2> QED BY <2>1, <2>2, LoyalGrows
<1>4. ASSUME o.cache \in Record, NEW c, c = Cached(s, o)
      PROVE  Minds(c, IF Did(o) THEN Rec(c, "unknown") ELSE StartFailed(c))
  <2>1. c \in Local
    BY <1>4, CachedKeeps DEF Inv
  <2>2. Calm(c, Rec(c, "unknown")) /\ Calm(c, StartFailed(c))
    BY <2>1, RecCalm, StartFailedCalm
  <2> QED BY <2>2, CalmMinds
<1> HIDE DEF Wants
<1> QED BY <1>1, <1>2, <1>3, <1>4, SetInforms DEF RestartRegression

LEMMA RecoverUnknownInforms ==
  ASSUME Inv, Typed', NEW s \in Scheduler, RecoverUnknown(s) PROVE Informs(s)
<1> DEFINE waits == [local[s] EXCEPT !.foreign = TRUE, !.unsettled = TRUE]
<1>1. now \in Instant /\ local[s] \in Local
  BY LocalTypes DEF Inv
<1>2. inv' = [inv EXCEPT ![s] = inv[s]] /\ UNCHANGED <<setup, untold>>
  BY DEF RecoverUnknown, world, host, Inv, Typed, TypeOK
<1>3. CASE Set(s, Running(local[s])) /\ UNCHANGED disk
  <2>1. Minds(local[s], Running(local[s]))
    BY <1>1, RunningCalm, CalmMinds
  <2> QED BY <1>2, <1>3, <2>1, QuietInforms DEF Set, disk
<1>4. CASE Set(s, Running(waits)) /\ UNCHANGED disk
  <2>1. waits \in Local /\ Minds(local[s], waits)
    BY <1>1 DEF Minds, Pinned, Knows, Local
  <2> HIDE DEF waits
  <2>2. Minds(local[s], Running(waits))
    BY <1>1, <2>1, RunningCalm, CalmMinds
  <2> QED BY <1>2, <1>4, <2>2, QuietInforms DEF Set, disk
<1>5. CASE \E o \in UpdateRecord(s, RecordUnknown, FALSE) :
             /\ Commit(o)
             /\ Set(s, IF Did(o) THEN Running(Cached(s, o)) ELSE StartFailed(Cached(s, o)))
  <2>1. PICK o \in Outcomes(s, RecordUnknown(local[s].cache), RecordUnknown(store), FALSE) :
          /\ Commit(o)
          /\ Set(s, IF Did(o) THEN Running(Cached(s, o)) ELSE StartFailed(Cached(s, o)))
    BY <1>5 DEF UpdateRecord, Outcomes
  <2>2. Effect(s, o, RecordUnknown(store))
    BY OutcomeEffect DEF Inv, Typed, CurrentOK
  <2>3. Grows(store, o.store)
    <3>1. \A n \in RecordUnknown(store) : Adds(store, n)
      BY LocalTypes, WritesAdd DEF Inv
    <3>2. s \in current => RecordUnknown(local[s].cache) = RecordUnknown(store)
      BY DEF Inv, Typed, CurrentOK
    <3> QED BY <2>1, <3>1, <3>2, LoyalGrows
  <2>4. ASSUME o.cache \in Record, NEW c, c = Cached(s, o)
        PROVE  Minds(c, IF Did(o) THEN Running(c) ELSE StartFailed(c))
    <3>1. c \in Local
      BY <2>4, CachedKeeps DEF Inv
    <3> QED BY <1>1, <3>1, RunningCalm, StartFailedCalm, CalmMinds
  <2> QED BY <2>1, <2>2, <2>3, <2>4, SetInforms DEF RecoverUnknown
<1> QED BY <1>3, <1>4, <1>5 DEF RecoverUnknown

LEMMA ReadAtStartInforms ==
  ASSUME Inv, GenOK, NEW s \in Scheduler, ReadAtStart(s) PROVE Informs(s)
<1>1. /\ now \in Instant /\ local[s] \in Local /\ store \in Record
      /\ setup.schedule[s] \in Generation
  BY LocalTypes, ScheduleType DEF Inv, Typed
<1>2. /\ inv' = [inv EXCEPT ![s] = inv'[s]] /\ UNCHANGED <<setup, untold>>
      /\ local \in [Scheduler -> Local]
  BY DEF ReadAtStart, world, host, Inv, Typed, TypeOK
<1>3. CASE store = NoRecord
  <2> DEFINE first == InitialRecord(setup.schedule[s], local[s].rec.at)
             c == [local[s] EXCEPT !.cache = first]
  <2>1. store' = first /\ local' = [local EXCEPT ![s] = Running(c)]
    BY <1>3 DEF ReadAtStart, Set
  <2>2. Grows(store, first)
    BY <1>1, <1>3, RecordAssumption DEF RecordAssumption, Grows, NoRecord, InitialRecord
  <2>3. /\ c \in Local /\ c.unsettled = local[s].unsettled /\ (Pinned(c) => Pinned(local[s]))
        /\ (Knows(c) => Knows(local[s])) /\ c.cache = first /\ c.foreign = local[s].foreign
    <3>1. first \in Record
      BY <1>1, InitialRecordType DEF Local
    <3> HIDE DEF first
    <3> QED BY <1>1, <3>1 DEF Local, Pinned, Knows
  <2> HIDE DEF first, c
  <2>4. Calm(c, Running(c))
    BY <1>1, <2>3, RunningCalm
  <2>5. local'[s] = Running(c)
    BY <1>2, <2>1
  <2> QED BY <1>2, <2>1, <2>2, <2>3, <2>4, <2>5 DEF Informs, Calm, Shows
<1>4. CASE store # NoRecord
  <2> DEFINE c == [local[s] EXCEPT !.cache = store]
  <2>1. store' = store /\ local' = [local EXCEPT ![s] = NextInit(s, c, "start")]
    BY <1>4 DEF ReadAtStart, Set
  <2>2. store.gen # NoGeneration
    BY <1>4 DEF GenOK
  <2>3. /\ c \in Local /\ c.unsettled = local[s].unsettled /\ (Pinned(c) => Pinned(local[s]))
        /\ c.cache = store
    BY <1>1 DEF Local, Pinned
  <2> HIDE DEF c
  <2>4. LET m == NextInit(s, c, "start")
        IN /\ m.cache = c.cache /\ m.unsettled = c.unsettled
           /\ Pinned(m) => Pinned(c) \/ c.cache.gen # setup.schedule[s]
    BY <2>3, NextInitCalm
  <2>5. local'[s] = NextInit(s, c, "start")
    BY <1>2, <2>1
  <2> QED BY <1>2, <2>1, <2>2, <2>3, <2>4, <2>5, GrowsReflexive DEF Informs, Shows
<1> QED BY <1>3, <1>4

LEMMA RefreshInforms ==
  ASSUME Inv, NEW s \in Scheduler, Refresh(s) PROVE Informs(s)
<1> DEFINE l == [local[s] EXCEPT !.cache = store]
           b == IF ~l.transition /\ store.gen # setup.schedule[s]
                  THEN Both(Finish(FenceScheduleGeneration(l)), inv[s])
                ELSE NextRec(s, l, inv[s], "refresh")
           down == Both(Finish(Failing(local[s])), inv[s])
<1>1. /\ now \in Instant /\ local[s] \in Local /\ store \in Record
      /\ local[s].rec.pc # "adjust"
  BY LocalTypes DEF Refresh, Inv
<1>2. UNCHANGED <<setup, store, untold>> /\ local \in [Scheduler -> Local]
  BY DEF Refresh, world, host, Inv, Typed, TypeOK
<1>3. /\ l \in Local /\ l.rec = local[s].rec /\ l.cache = store
      /\ l.unsettled = local[s].unsettled /\ l.foreign = local[s].foreign
      /\ (Pinned(l) => Pinned(local[s])) /\ (Knows(l) => Knows(local[s]))
  BY <1>1 DEF Local, Pinned, Knows
<1> HIDE DEF l
<1>4. CASE Become(s, b)
  <2>1. Minds(l, Finish(FenceScheduleGeneration(l)))
    <3>1. FenceScheduleGeneration(l) \in Local /\ Minds(l, FenceScheduleGeneration(l))
      BY <1>3, FlagKeeps, FlagCalm DEF Same
    <3> QED BY <1>1, <3>1, FinishCalm, CalmMinds
  <2>2. Minds(l, NextRec(s, l, inv[s], "refresh").l)
    BY <1>1, <1>3, NextRecMinds
  <2>3. b.l \in {Finish(FenceScheduleGeneration(l)), NextRec(s, l, inv[s], "refresh").l}
    BY DEF Both
  <2>4. Minds(l, b.l)
    BY <2>1, <2>2, <2>3
  <2> HIDE DEF b
  <2>5. local'[s] = b.l /\ local' = [local EXCEPT ![s] = b.l]
    BY <1>2, <1>4 DEF Become
  <2>6. inv' = [inv EXCEPT ![s] = inv'[s]]
    BY <1>4 DEF Become, Inv, Typed, TypeOK
  <2>7. /\ b.l.cache = store /\ (Pinned(b.l) => Pinned(local[s])) /\ (Knows(b.l) => Knows(local[s]))
        /\ local[s].unsettled => Shows(b.l) \/ LetsGo(local[s], b.l)
    BY <1>3, <2>4 DEF Minds, Shows, LetsGo
  <2> QED BY <1>2, <2>5, <2>6, <2>7, GrowsReflexive DEF Informs
<1>5. CASE Become(s, down)
  <2>1. Failing(local[s]) \in Local /\ Calm(local[s], Failing(local[s]))
    BY <1>1, FlagKeeps, FlagCalm DEF Same
  <2>2. Minds(local[s], down.l)
    BY <1>1, <2>1, FinishCalm, CalmTransitive, CalmMinds DEF Both
  <2> HIDE DEF down
  <2> QED BY <1>2, <1>5, <2>2, QuietInforms DEF Become
<1>6. Become(s, b) \/ Become(s, down)
  BY DEF Refresh, l
<1> QED BY <1>4, <1>5, <1>6

LEMMA RecordClockInforms ==
  ASSUME Inv, Typed', NEW s \in Scheduler, RecordClock(s) PROVE Informs(s)
<1> DEFINE Wants(r) == RecordRegression(local[s].back, r)
           Seen(c) == [c EXCEPT !.observed = c.rec.at, !.back = NoRange]
           Ok(c) == IF HasPendingDurableRepair(Seen(c)) THEN Seen(c)
                    ELSE [Seen(c) EXCEPT !.failing = FALSE]
           Target(c) == CHOOSE t \in c.rec.due : TRUE
           After(o, c) ==
             IF ~Did(o) THEN Both(Finish(Failing(c)), inv[s])
             ELSE IF c.rec.pc = "clock" THEN Decide(s, Ok(c), inv[s])
             ELSE Both(IF c.life # "running" \/ c.rec.again THEN Finish(Ok(c))
                       ELSE [Ok(c) EXCEPT !.rec = Idle, !.timer = Target(c)], inv[s])
<1>1. PICK o \in Outcomes(s, Wants(local[s].cache), Wants(store), FALSE) :
        Commit(o) /\ Become(s, After(o, Cached(s, o)))
  <2>1. \A o \in UpdateRecord(s, Wants, FALSE) :
          o \in Outcomes(s, Wants(local[s].cache), Wants(store), FALSE)
    BY DEF UpdateRecord, Outcomes
  <2>2. \E o \in UpdateRecord(s, Wants, FALSE) : Commit(o) /\ Become(s, After(o, Cached(s, o)))
    BY Zenon DEF RecordClock, UpdateRecord
  <2> QED BY <2>1, <2>2 DEF UpdateRecord
<1> DEFINE c == Cached(s, o)
           b == After(o, c)
<1>2. Effect(s, o, Wants(store))
  BY OutcomeEffect DEF Inv, Typed, CurrentOK
<1>3. Grows(store, o.store)
  <2>1. \A n \in Wants(store) : Adds(store, n)
    BY LocalTypes, WritesAdd DEF Inv
  <2>2. s \in current => Wants(local[s].cache) = Wants(store)
    BY DEF Inv, Typed, CurrentOK
  <2> HIDE DEF Wants
  <2> QED BY <2>1, <2>2, LoyalGrows
<1>4. ASSUME o.cache \in Record PROVE Minds(c, b.l)
  <2>1. c \in Local /\ now \in Instant
    BY <1>4, CachedKeeps, LocalTypes DEF Inv
  <2> HIDE DEF c
  <2>2. Ok(c) \in Local /\ Calm(c, Ok(c)) /\ Ok(c).rec = c.rec
    <3>1. Seen(c) \in Local /\ Calm(c, Seen(c)) /\ Seen(c).rec = c.rec
      BY <2>1, InstantTypes DEF Calm, Pinned, Knows, Local
    <3> HIDE DEF Seen
    <3>2. LET m == [Seen(c) EXCEPT !.failing = FALSE]
          IN m \in Local /\ Calm(Seen(c), m) /\ m.rec = Seen(c).rec
      BY <3>1 DEF Calm, Pinned, Knows, Local
    <3> QED BY <3>1, <3>2, CalmTransitive
  <2> HIDE DEF Ok
  <2>3. Minds(c, Finish(Failing(c)))
    <3>1. Failing(c) \in Local /\ Calm(c, Failing(c))
      BY <2>1, FlagKeeps, FlagCalm DEF Same
    <3> QED BY <2>1, <3>1, FinishCalm, CalmTransitive, CalmMinds
  <2>4. Minds(c, Finish(Ok(c)))
    BY <2>1, <2>2, FinishCalm, CalmTransitive, CalmMinds
  <2>5. c.rec.pc = "clock" => Minds(c, Decide(s, Ok(c), inv[s]).l)
    BY <2>1, <2>2, DecideMinds, CalmMinds
  <2>6. Minds(c, [Ok(c) EXCEPT !.rec = Idle, !.timer = Target(c)])
    <3>1. Idle.pc = "idle"
      BY IdleType
    <3> HIDE DEF Idle, Target
    <3>2. Calm(Ok(c), [Ok(c) EXCEPT !.rec = Idle, !.timer = Target(c)])
      BY <2>2, <3>1 DEF Calm, Pinned, Knows, Local
    <3> QED BY <2>2, <3>2, CalmTransitive, CalmMinds
  <2> QED BY <2>3, <2>4, <2>5, <2>6 DEF Both
<1>5. Commit(o) /\ Become(s, b) /\ UNCHANGED <<setup, untold>>
  BY <1>1 DEF RecordClock, world, host
<1> HIDE DEF c, b, Wants
<1> QED BY <1>2, <1>3, <1>4, <1>5, BecomeInforms DEF c

LEMMA GiveUpMissedInforms ==
  ASSUME Inv, Typed', NEW s \in Scheduler, GiveUpMissed(s) PROVE Informs(s)
<1> DEFINE range == local[s].rec.missed
           Wants(r) == RecordMissed(range[1], range[2], r)
           Clear(c) == [c EXCEPT !.rec.missed = NoRange]
           After(o, l) == IF ~Did(o) THEN Both(Finish(Failing(l)), inv[s])
                          ELSE IF l.rec.due = {} THEN Both(Finish(l), inv[s])
                          ELSE AdmitNext(l, inv[s])
<1>1. PICK o \in Outcomes(s, Wants(local[s].cache), Wants(store), FALSE) :
        Commit(o) /\ Become(s, After(o, Clear(Cached(s, o))))
  BY DEF GiveUpMissed, UpdateRecord, Outcomes
<1> DEFINE c == Cached(s, o)
           b == After(o, Clear(c))
<1>2. Effect(s, o, Wants(store))
  BY OutcomeEffect DEF Inv, Typed, CurrentOK
<1>3. Grows(store, o.store)
  <2>1. \A n \in Wants(store) : Adds(store, n)
    BY LocalTypes, WritesAdd DEF Inv
  <2>2. s \in current => Wants(local[s].cache) = Wants(store)
    BY DEF Inv, Typed, CurrentOK
  <2> HIDE DEF Wants
  <2> QED BY <2>1, <2>2, LoyalGrows
<1>4. ASSUME o.cache \in Record PROVE Minds(c, b.l)
  <2>1. c \in Local /\ now \in Instant /\ c.rec.pc = "missed"
    BY <1>4, CachedKeeps, LocalTypes DEF Inv, GiveUpMissed
  <2> HIDE DEF c
  <2> DEFINE l == Clear(c)
  <2>2. l \in Local /\ Calm(c, l) /\ Placed(l)
    BY <2>1, InstantTypes DEF Calm, Pinned, Knows, Local, Placed
  <2>3. b.l \in {Finish(Failing(l)), Finish(l), AdmitNext(l, inv[s]).l}
    BY DEF Both
  <2> HIDE DEF l, b
  <2>4. Failing(l) \in Local /\ Calm(l, Failing(l))
    BY <2>2, FlagKeeps, FlagCalm DEF Same
  <2>5. Calm(l, Finish(Failing(l))) /\ Calm(l, Finish(l)) /\ Calm(l, AdmitNext(l, inv[s]).l)
    BY <2>1, <2>2, <2>4, FinishCalm, CalmTransitive, AdmitNextCalm
  <2>6. Calm(l, b.l)
    BY <2>3, <2>5
  <2> QED BY <2>2, <2>6, CalmTransitive, CalmMinds
<1>5. Commit(o) /\ Become(s, b) /\ UNCHANGED <<setup, untold>>
  BY <1>1 DEF GiveUpMissed, world, host
<1> HIDE DEF c, b, Wants
<1> QED BY <1>2, <1>3, <1>4, <1>5, BecomeInforms DEF c

---------------------------------------------------------------------------
(* The firings                                                             *)

LEMMA RepairedCalm ==
  ASSUME Typed, NEW s \in Scheduler, NEW k, NEW o, o.cache \in Record, NEW row
  PROVE  LET l == Repaired(s, k, o, row).l
         IN l \in Local /\ l.rec = local[s].rec /\ Calm(Cached(s, o), l)
<1> DEFINE c == Cached(s, o)
           fails == c.failing /\ HasPendingDurableRepair([c EXCEPT !.rel = FALSE])
           free == [c EXCEPT !.active = NoKey, !.rel = FALSE, !.failing = fails]
           first == [free EXCEPT !.queue = Tail(@)]
           none == [free EXCEPT !.queue = <<>>]
<1>1. c \in Local /\ c.rec = local[s].rec
  BY CachedKeeps
<1>2. \/ Repaired(s, k, o, row).l \in {Failing(c), c, none}
      \/ c.queue # <<>> /\ Repaired(s, k, o, row).l = first
  BY DEF Repaired, Both
<1> HIDE DEF c
<1>3. Failing(c) \in Local /\ Failing(c).rec = c.rec /\ Calm(c, Failing(c)) /\ Calm(c, c)
  <2>1. Same(c, Failing(c)) /\ Calm(c, Failing(c)) /\ Calm(c, c)
    BY <1>1, FlagKeeps, FlagCalm, CalmReflexive
  <2>2. Failing(c).rec = c.rec
    BY <1>1 DEF Failing, Local
  <2> QED BY <2>1, <2>2 DEF Same
<1>4. free \in Local /\ free.rec = c.rec /\ free.queue = c.queue /\ Calm(c, free)
  <2>1. fails \in BOOLEAN /\ NoKey \in Instant
    BY <1>1, InstantTypes DEF HasPendingDurableRepair, Local, NoKey
  <2> HIDE DEF fails
  <2> QED BY <1>1, <2>1 DEF Calm, Pinned, Knows, Local
<1> HIDE DEF free
<1>5. none \in Local /\ none.rec = free.rec /\ Calm(free, none)
  <2>1. <<>> \in Seq(Instant) /\ free \in Local
    BY <1>4
  <2> QED BY <2>1 DEF Calm, Pinned, Knows, Local
<1>6. ASSUME c.queue # <<>> PROVE first \in Local /\ first.rec = free.rec /\ Calm(free, first)
  <2>1. Tail(free.queue) \in Seq(Instant)
    BY <1>1, <1>4, <1>6 DEF Local
  <2> QED BY <1>4, <2>1 DEF Calm, Pinned, Knows, Local
<1> HIDE DEF none, first
<1>7. Calm(c, none) /\ (c.queue # <<>> => Calm(c, first))
  BY <1>4, <1>5, <1>6, CalmTransitive
<1> QED BY <1>1, <1>2, <1>3, <1>4, <1>5, <1>6, <1>7 DEF c

LEMMA ReleaseInforms ==
  ASSUME Inv, Typed', GenOK, NEW s \in Scheduler, NEW k \in Instant, Release(s, k)
  PROVE  Informs(s)
<1> DEFINE Wants(r) == ClearActive(s, k, r)
           gone == [inv[s] EXCEPT ![k] = Nowhere]
           done(o) == Repaired(s, k, o, gone)
<1>1. PICK o \in Outcomes(s, Wants(local[s].cache), Wants(store), TRUE) :
        /\ Commit(o)
        /\ Become(s, IF IsRepaired(o) THEN done(o) ELSE [done(o) EXCEPT !.l = ScheduleNext(@)])
  BY DEF Release, UpdateRecord, Outcomes
<1> DEFINE b == IF IsRepaired(o) THEN done(o) ELSE [done(o) EXCEPT !.l = ScheduleNext(@)]
<1>2. Effect(s, o, Wants(store))
  BY OutcomeEffect DEF Inv, Typed, CurrentOK
<1>3. Grows(store, o.store)
  <2>1. \A n \in Wants(store) : Grows(store, n)
    BY LocalTypes, GivesBackGrows DEF Inv
  <2> QED BY <1>2, <2>1, GrowsReflexive DEF Effect
<1>4. ASSUME o.cache \in Record PROVE Minds(Cached(s, o), b.l)
  <2>1. done(o).l \in Local /\ Calm(Cached(s, o), done(o).l)
    BY <1>4, RepairedCalm DEF Inv
  <2>2. b.l \in {done(o).l, ScheduleNext(done(o).l)}
    <3>1. done(o) = [l |-> done(o).l, row |-> done(o).row]
      BY DEF Repaired, Both
    <3> QED BY <3>1
  <2> HIDE DEF done, b
  <2>3. Calm(Cached(s, o), ScheduleNext(done(o).l))
    BY <2>1, ScheduleNextCalm, CalmTransitive
  <2> QED BY <2>1, <2>2, <2>3, CalmMinds
<1>5. Commit(o) /\ Become(s, b) /\ UNCHANGED <<setup, untold>>
  BY <1>1 DEF Release, world, host
<1> HIDE DEF b, Wants
<1> QED BY <1>2, <1>3, <1>4, <1>5, BecomeInforms

LEMMA RepairReleaseInforms ==
  ASSUME Inv, Typed', GenOK, NEW s \in Scheduler, RepairRelease(s) PROVE Informs(s)
<1> DEFINE k == local[s].active
           Wants(r) == ClearActive(s, k, r)
           done(o) == Repaired(s, k, o, inv[s])
<1>1. /\ local[s] \in Local /\ now \in Instant /\ store \in Record
      /\ local[s].rec.pc # "adjust" /\ UNCHANGED <<setup, untold>>
  BY LocalTypes DEF RepairRelease, Inv, world, host
<1>2. \A l \in Local : l.rec = local[s].rec =>
        Minds(l, Finish(l)) /\ \A row : Minds(l, NextRec(s, l, row, "repair").l)
  BY <1>1, FinishCalm, CalmMinds, NextRecMinds
<1>3. CASE /\ Become(s, IF local[s].rec.pc = "repair"
                          THEN NextRec(s, local[s], inv[s], "repair")
                          ELSE Both(Finish(local[s]), inv[s]))
           /\ UNCHANGED disk
  <2> DEFINE b == IF local[s].rec.pc = "repair" THEN NextRec(s, local[s], inv[s], "repair")
                  ELSE Both(Finish(local[s]), inv[s])
  <2>1. Minds(local[s], b.l)
    BY <1>1, <1>2 DEF Both
  <2>2. Become(s, b) /\ store' = store
    BY <1>3 DEF disk
  <2> HIDE DEF b
  <2> QED BY <1>1, <2>1, <2>2, QuietInforms DEF Become
<1>4. ASSUME NEW o \in Outcomes(s, Wants(local[s].cache), Wants(store), TRUE),
             Commit(o),
             Become(s, IF IsRepaired(o) /\ local[s].rec.pc = "repair"
                         THEN NextRec(s, done(o).l, done(o).row, "repair")
                         ELSE [done(o) EXCEPT !.l = Finish(@)])
      PROVE  Informs(s)
  <2> DEFINE b == IF IsRepaired(o) /\ local[s].rec.pc = "repair"
                    THEN NextRec(s, done(o).l, done(o).row, "repair")
                    ELSE [done(o) EXCEPT !.l = Finish(@)]
  <2>1. Effect(s, o, Wants(store))
    BY OutcomeEffect DEF Inv, Typed, CurrentOK
  <2>2. Grows(store, o.store)
    <3>1. \A n \in Wants(store) : Grows(store, n)
      BY <1>1, GivesBackGrows
    <3> QED BY <2>1, <3>1, GrowsReflexive DEF Effect
  <2>3. ASSUME o.cache \in Record PROVE Minds(Cached(s, o), b.l)
    <3>1. done(o).l \in Local /\ done(o).l.rec = local[s].rec /\ Calm(Cached(s, o), done(o).l)
      BY <2>3, RepairedCalm DEF Inv
    <3>2. b.l \in {NextRec(s, done(o).l, done(o).row, "repair").l, Finish(done(o).l)}
      <4>1. done(o) = [l |-> done(o).l, row |-> done(o).row]
        BY DEF Repaired, Both
      <4> QED BY <4>1
    <3> HIDE DEF done, b
    <3>3. Minds(done(o).l, b.l)
      BY <1>2, <3>1, <3>2
    <3> QED BY <3>1, <3>3, CalmMinds
  <2>4. Become(s, b)
    BY <1>4
  <2> HIDE DEF b, Wants
  <2> QED BY <1>1, <1>4, <2>1, <2>2, <2>3, <2>4, BecomeInforms
<1>5. \/ /\ Become(s, IF local[s].rec.pc = "repair"
                          THEN NextRec(s, local[s], inv[s], "repair")
                          ELSE Both(Finish(local[s]), inv[s]))
         /\ UNCHANGED disk
      \/ \E o \in Outcomes(s, Wants(local[s].cache), Wants(store), TRUE) :
           /\ Commit(o)
           /\ Become(s, IF IsRepaired(o) /\ local[s].rec.pc = "repair"
                          THEN NextRec(s, done(o).l, done(o).row, "repair")
                          ELSE [done(o) EXCEPT !.l = Finish(@)])
  BY DEF RepairRelease, UpdateRecord, Outcomes
<1> QED BY <1>3, <1>4, <1>5

LEMMA UnclaimInforms ==
  ASSUME Inv, Typed', GenOK, NEW s \in Scheduler, NEW k \in Instant, Unclaim(s, k)
  PROVE  Informs(s)
<1> DEFINE Wants(r) == ClearActive(s, k, r)
<1>1. PICK o \in Outcomes(s, Wants(local[s].cache), Wants(store), TRUE) :
        /\ Commit(o)
        /\ Set(s, IF Did(o) THEN Cached(s, o) ELSE Failing(Cached(s, o)))
        /\ Goto(s, k, "settle", "cancelled")
  BY DEF Unclaim, UpdateRecord, Outcomes
<1> DEFINE l == IF Did(o) THEN Cached(s, o) ELSE Failing(Cached(s, o))
           b == Both(l, [inv[s] EXCEPT ![k] = [at |-> "settle", as |-> "cancelled"]])
<1>2. Effect(s, o, Wants(store))
  BY OutcomeEffect DEF Inv, Typed, CurrentOK
<1>3. Grows(store, o.store)
  <2>1. \A n \in Wants(store) : Grows(store, n)
    BY LocalTypes, GivesBackGrows DEF Inv
  <2> QED BY <1>2, <2>1, GrowsReflexive DEF Effect
<1>4. Become(s, b) /\ b.l = l
  BY <1>1 DEF Become, Both, Set, Goto, Inv, Typed, TypeOK
<1>5. ASSUME o.cache \in Record PROVE Minds(Cached(s, o), l)
  <2>1. Cached(s, o) \in Local
    BY <1>5, CachedKeeps DEF Inv
  <2>2. Calm(Cached(s, o), Failing(Cached(s, o)))
    BY <2>1, FlagCalm
  <2> QED BY <2>2, CalmMinds, CalmReflexive
<1>6. Commit(o) /\ UNCHANGED <<setup, untold>>
  BY <1>1 DEF Unclaim, world, host
<1> HIDE DEF b, l, Wants
<1> QED BY <1>2, <1>3, <1>4, <1>5, <1>6, BecomeInforms

LEMMA ClaimFiringInforms ==
  ASSUME Inv, Typed', NEW s \in Scheduler, NEW k \in Instant, ClaimFiring(s, k)
  PROVE  Informs(s)
<1> DEFINE Wants(r) == ClaimActive(s, k, r)
           Runs(c) == [c EXCEPT !.active = k, !.rel = FALSE]
           Skips(c) == [c EXCEPT !.unsettled = TRUE]
<1>1. PICK o \in Outcomes(s, Wants(local[s].cache), Wants(store), FALSE) :
        /\ Commit(o)
        /\ \/ Set(s, Runs(Cached(s, o))) /\ Goto(s, k, "emit", "none")
           \/ Set(s, Skips(Cached(s, o))) /\ Goto(s, k, "settle", "skipped")
           \/ Set(s, Failing(Cached(s, o))) /\ Leave(s, k)
  BY DEF ClaimFiring, UpdateRecord, Outcomes
<1>2. Effect(s, o, Wants(store))
  BY OutcomeEffect DEF Inv, Typed, CurrentOK
<1>3. Grows(store, o.store)
  <2>1. \A n \in Wants(store) : Adds(store, n)
    BY LocalTypes, WritesAdd DEF Inv
  <2>2. s \in current => Wants(local[s].cache) = Wants(store)
    BY DEF Inv, Typed, CurrentOK
  <2> HIDE DEF Wants
  <2> QED BY <2>1, <2>2, LoyalGrows
<1>4. UNCHANGED <<setup, untold>>
  BY DEF ClaimFiring, world, host
<1> DEFINE c == Cached(s, o)
<1>5. PICK l, row : Become(s, Both(l, row)) /\ l \in {Runs(c), Skips(c), Failing(c)}
  BY <1>1 DEF Become, Both, Set, Goto, Leave, Inv, Typed, TypeOK
<1>6. ASSUME o.cache \in Record PROVE Minds(c, l)
  <2>1. c \in Local
    BY <1>6, CachedKeeps DEF Inv
  <2> HIDE DEF c
  <2>2. Minds(c, Runs(c)) /\ Minds(c, Skips(c))
    BY <2>1 DEF Minds, Pinned, Knows, Local
  <2>3. Minds(c, Failing(c))
    BY <2>1, FlagCalm, CalmMinds
  <2> HIDE DEF Runs, Skips
  <2> QED BY <1>5, <2>2, <2>3
<1>7. Both(l, row).l = l
  BY DEF Both
<1> HIDE DEF Wants
<1> QED BY <1>1, <1>2, <1>3, <1>4, <1>5, <1>6, <1>7, BecomeInforms

\* Nothing was written: there was nothing to write to the record that was seen.
LEMMA SameSees ==
  ASSUME NEW s \in Scheduler, NEW mine, NEW theirs, NEW allowMismatch,
         NEW o \in Outcomes(s, mine, theirs, allowMismatch), o.how = "same"
  PROVE  (o.cache = local[s].cache /\ mine = {}) \/ (o.cache = store /\ theirs = {})
<1> DEFINE foreign(r) == ~allowMismatch /\ r.gen # setup.schedule[s]
           trusts == s \in current \/ foreign(local[s].cache) \/ mine = {}
           seen == IF trusts THEN local[s].cache ELSE store
           wants == IF trusts THEN mine ELSE theirs
           reads == IF seen = local[s].cache THEN current ELSE current \cup {s}
           next == CHOOSE r \in wants : TRUE
<1>1. CASE wants = {}
  <2>1. o \in {Outcome("fenced", store, seen, reads, 0), Outcome("same", store, seen, reads, 0)}
    BY <1>1 DEF Outcomes
  <2> HIDE DEF reads
  <2>2. o.cache = seen
    BY <2>1 DEF Outcome
  <2> QED BY <1>1, <2>2
<1>2. CASE wants # {}
  <2>1. o \in {Outcome("fenced", store, seen, reads, 0)}
               \cup {Outcome("applied", next, next, {s}, 0)}
               \cup {Outcome("failed", store, seen, reads, 1), Outcome("failed", next, seen, {}, 1)}
    BY <1>2, Zenon DEF Outcomes
  <2> HIDE DEF seen, reads, next
  <2> QED BY <2>1 DEF Outcome
<1> QED BY <1>1, <1>2

LEMMA SettledShows ==
  ASSUME Inv, NEW s \in Scheduler, NEW k, NEW status,
         NEW o \in Outcomes(s, SettleInvocation(k, status, local[s].unsettled, local[s].cache),
                               SettleInvocation(k, status, local[s].unsettled, store), FALSE),
         o.cache \in Record
  PROVE  LET l == Settled(s, k, o) IN
         /\ l \in Local /\ l.cache = o.cache
         /\ (Pinned(l) => Pinned(local[s])) /\ (Knows(l) => Knows(local[s]))
         /\ local[s].unsettled => Shows(l)
         /\ ~Did(o) => Shows(l)
<1> DEFINE Wants(r) == SettleInvocation(k, status, local[s].unsettled, r)
           c == Cached(s, o)
           quiet == [c EXCEPT !.failing = FALSE, !.unsettled = FALSE]
           unsure == [Failing(c) EXCEPT !.unsettled = TRUE]
<1>1. /\ local[s].unsettled \in BOOLEAN /\ local[s].cache \in Record /\ store \in Record
      /\ local[s].cache.issue => store.issue
  BY LocalTypes DEF Inv, Local, Told, IssueOK
<1>2. /\ c \in Local /\ c.cache = o.cache /\ c.unsettled = local[s].unsettled
      /\ Pinned(c) => Pinned(local[s])
      /\ Knows(c) => Knows(local[s])
  BY CachedKeeps, CachedMinds DEF Inv
<1>3. Settled(s, k, o) \in {c, quiet, unsure} /\ (Settled(s, k, o) = quiet => Did(o) \/ quiet = unsure)
      /\ (~Did(o) => Settled(s, k, o) = unsure)
  BY DEF Settled, Cleared
<1> HIDE DEF c
<1>4. /\ quiet \in Local /\ quiet.cache = c.cache
      /\ (Pinned(quiet) => Pinned(c)) /\ (Knows(quiet) => Knows(c))
  BY <1>2 DEF Pinned, Knows, Local
<1>5. /\ unsure \in Local /\ unsure.cache = c.cache /\ unsure.unsettled
      /\ (Pinned(unsure) => Pinned(c)) /\ (Knows(unsure) => Knows(c))
  BY <1>2 DEF Failing, Pinned, Knows, Local
<1> HIDE DEF quiet, unsure
<1>6. Did(o) /\ local[s].unsettled => o.cache.issue
  <2>1. CASE o.how = "applied"
    <3>1. Effect(s, o, Wants(store))
      BY OutcomeEffect DEF Inv, Typed, CurrentOK
    <3>2. \A n \in Wants(store) : local[s].unsettled => n.issue
      BY <1>1, SettleAdds
    <3> HIDE DEF Wants
    <3> QED BY <2>1, <3>1, <3>2 DEF Effect
  <2>2. CASE o.how = "same"
    <3>1. \/ o.cache = local[s].cache /\ Wants(local[s].cache) = {}
          \/ o.cache = store /\ Wants(store) = {}
      BY <2>2, SameSees
    <3>2. \A r \in Record : Wants(r) = {} => (local[s].unsettled => r.issue)
      BY <1>1, SettleAdds
    <3> HIDE DEF Wants
    <3> QED BY <1>1, <3>1, <3>2
  <2> QED BY <2>1, <2>2 DEF Did
<1> QED BY <1>2, <1>3, <1>4, <1>5, <1>6 DEF Shows

LEMMA ToReleaseCalm ==
  ASSUME Inv, NEW s \in Scheduler, NEW k \in Instant, NEW l \in Local, ToRelease(s, k, l)
  PROVE  \E m, row : Calm(l, m) /\ Become(s, Both(m, row))
<1>1. Calm(l, [l EXCEPT !.rel = TRUE]) /\ Calm(l, l)
  BY DEF Calm, Pinned, Knows, Local
<1>2. \E row : \/ Become(s, Both([l EXCEPT !.rel = TRUE], row))
               \/ Become(s, Both(l, row))
  BY DEF ToRelease, Set, Goto, Leave, Become, Both, Inv, Typed, TypeOK
<1> QED BY <1>1, <1>2

LEMMA SettleInforms ==
  ASSUME Inv, Typed', NEW s \in Scheduler, NEW k \in Instant, Settle(s, k) \/ Land(s, k)
  PROVE  Informs(s)
<1> DEFINE Wants(r) == SettleInvocation(k, inv[s][k].as, local[s].unsettled, r)
<1>1. PICK o \in Outcomes(s, Wants(local[s].cache), Wants(store), FALSE) :
        /\ Commit(o) /\ untold' = Untold(k, o)
        /\ \/ Set(s, Settled(s, k, o)) /\ (Leave(s, k) \/ Goto(s, k, "late", "none"))
           \/ ToRelease(s, k, Settled(s, k, o))
  BY DEF Settle, Land, UpdateRecord, Outcomes
<1>2. Effect(s, o, Wants(store))
  BY OutcomeEffect DEF Inv, Typed, CurrentOK
<1>3. Grows(store, o.store)
  <2>1. \A n \in Wants(store) : Adds(store, n)
    BY LocalTypes, SettleAdds DEF Inv, Local
  <2>2. s \in current => Wants(local[s].cache) = Wants(store)
    BY DEF Inv, Typed, CurrentOK
  <2> HIDE DEF Wants
  <2> QED BY <2>1, <2>2, LoyalGrows
<1>4. o.cache \in Record
  <2>1. store' = o.store /\ store' \in Record
    BY <1>1 DEF Commit, Typed, TypeOK
  <2> QED BY <1>2, <2>1, LocalTypes DEF Effect, Inv
<1> DEFINE l == Settled(s, k, o)
<1>5. /\ l \in Local /\ l.cache = o.cache
      /\ (Pinned(l) => Pinned(local[s])) /\ (Knows(l) => Knows(local[s]))
      /\ local[s].unsettled => Shows(l)
      /\ ~Did(o) => Shows(l)
  BY <1>4, SettledShows
<1>6. untold' # untold => ~Did(o)
  BY <1>1 DEF Untold
<1> HIDE DEF l, Wants
<1>7. \E m, row : Calm(l, m) /\ Become(s, Both(m, row))
  <2>1. CASE ToRelease(s, k, l)
    BY <1>5, <2>1, ToReleaseCalm
  <2>2. CASE Set(s, l) /\ (Leave(s, k) \/ Goto(s, k, "late", "none"))
    <3>1. \E row : Become(s, Both(l, row))
      BY <2>2 DEF Set, Goto, Leave, Become, Both, Inv, Typed, TypeOK
    <3> QED BY <3>1, CalmReflexive
  <2> QED BY <1>1, <2>1, <2>2 DEF l
<1>8. PICK m, row : Calm(l, m) /\ Become(s, Both(m, row))
  BY <1>7
<1>9. /\ m.cache = o.cache /\ (Pinned(m) => Pinned(local[s])) /\ (Knows(m) => Knows(local[s]))
      /\ local[s].unsettled => Shows(m)
      /\ untold' # untold => Shows(m)
  BY <1>5, <1>6, <1>8 DEF Calm, Shows
<1>10. setup' = setup /\ local' = [local EXCEPT ![s] = m] /\ inv' = [inv EXCEPT ![s] = row]
  BY <1>8 DEF Become, Both, Settle, Land, world
<1> QED BY <1>1, <1>2, <1>3, <1>9, <1>10, WriteInforms

LEMMA ReservedCalm ==
  ASSUME NEW l \in Local, NEW k, NEW row PROVE Calm(l, Reserved(l, k, row).l)
<1>1. \A queue : Calm(l, [l EXCEPT !.queue = queue])
  BY DEF Calm, Pinned, Knows, Local
<1>2. Reserved(l, k, row).l = l \/ \E queue : Reserved(l, k, row).l = [l EXCEPT !.queue = queue]
  BY DEF Reserved, QueuedBehind, Both
<1> QED BY <1>1, <1>2, CalmReflexive

LEMMA ReserveFiringInforms ==
  ASSUME Inv, Typed', NEW s \in Scheduler, NEW k \in Instant, ReserveFiring(s, k)
  PROVE  Informs(s)
<1> DEFINE Wants(r) == Reserve(s, local[s].active, local[s].unsettled, k, r)
           gone == [inv[s] EXCEPT ![k] = Nowhere]
           Free(c) == Cleared([c EXCEPT !.foreign = FALSE])
           Held(c) == [c EXCEPT !.foreign = @ \/ k > c.cache.watermark,
                                !.unsettled = @ \/ k > c.cache.watermark]
<1>1. PICK o \in Outcomes(s, Wants(local[s].cache), Wants(store), FALSE) :
        /\ Commit(o)
        /\ \/ o.how = "applied" /\ Become(s, Reserved(Free(Cached(s, o)), k, inv[s]))
           \/ Become(s, Both(Held(Cached(s, o)), gone))
           \/ Become(s, Both(Failing(Cached(s, o)), gone))
  BY DEF ReserveFiring, UpdateRecord, Outcomes
<1>2. Effect(s, o, Wants(store))
  BY OutcomeEffect DEF Inv, Typed, CurrentOK
<1>3. \A n \in Wants(store) : Adds(store, n) /\ (local[s].unsettled => n.issue)
  <2>1. local[s].unsettled \in BOOLEAN /\ store \in Record
    BY LocalTypes DEF Inv, Local
  <2> QED BY <2>1, ReserveAdds
<1>4. Grows(store, o.store)
  <2>1. s \in current => Wants(local[s].cache) = Wants(store)
    BY DEF Inv, Typed, CurrentOK
  <2> HIDE DEF Wants
  <2> QED BY <1>3, <2>1, LoyalGrows
<1>5. o.cache \in Record
  <2>1. store' = o.store /\ store' \in Record
    BY <1>1 DEF Commit, Typed, TypeOK
  <2> QED BY <1>2, <2>1, LocalTypes DEF Effect, Inv
<1>6. UNCHANGED <<setup, untold>>
  BY DEF ReserveFiring, world
<1> DEFINE c == Cached(s, o)
<1>7. /\ c \in Local /\ c.cache = o.cache /\ c.unsettled = local[s].unsettled
      /\ Pinned(c) => Pinned(local[s])
      /\ Knows(c) => Knows(local[s])
  BY <1>5, CachedKeeps, CachedMinds DEF Inv
<1> HIDE DEF c
<1>8. CASE o.how = "applied" /\ Become(s, Reserved(Free(c), k, inv[s]))
  <2> DEFINE l == [c EXCEPT !.foreign = FALSE]
             b == Reserved(Free(c), k, inv[s])
  <2>1. l \in Local /\ l.cache = c.cache /\ (Pinned(l) => Pinned(c)) /\ (Knows(l) => Knows(c))
    BY <1>7 DEF Pinned, Knows, Local
  <2> HIDE DEF l
  <2>2. LET m == [l EXCEPT !.failing = FALSE, !.unsettled = FALSE]
        IN m \in Local /\ m.cache = l.cache /\ (Pinned(m) => Pinned(l)) /\ (Knows(m) => Knows(l))
    BY <2>1 DEF Pinned, Knows, Local
  <2>3. /\ Free(c) \in Local /\ Free(c).cache = c.cache
        /\ (Pinned(Free(c)) => Pinned(c)) /\ (Knows(Free(c)) => Knows(c))
    BY <2>1, <2>2 DEF Cleared, l
  <2> HIDE DEF Free, Wants
  <2>4. Calm(Free(c), b.l)
    BY <2>3, ReservedCalm
  <2>5. local[s].unsettled => o.cache.issue
    BY <1>2, <1>3, <1>8 DEF Effect
  <2>6. /\ b.l.cache = o.cache /\ (Pinned(b.l) => Pinned(local[s]))
        /\ (Knows(b.l) => Knows(local[s])) /\ (local[s].unsettled => Shows(b.l))
    BY <1>7, <2>3, <2>4, <2>5 DEF Calm, Shows
  <2>7. local' = [local EXCEPT ![s] = b.l] /\ inv' = [inv EXCEPT ![s] = b.row]
    BY <1>8 DEF Become
  <2> HIDE DEF b
  <2> QED BY <1>1, <1>2, <1>4, <1>6, <2>6, <2>7, WriteInforms
<1>9. CASE Become(s, Both(Held(c), gone)) \/ Become(s, Both(Failing(c), gone))
  <2>1. Minds(c, Held(c)) /\ Minds(c, Failing(c))
    <3>1. Minds(c, Failing(c))
      BY <1>7, FlagCalm, CalmMinds
    <3>2. \A x : LET m == [c EXCEPT !.foreign = @ \/ x, !.unsettled = @ \/ x] IN Minds(c, m)
      BY <1>7 DEF Minds, Pinned, Knows, Local
    <3> QED BY <3>1, <3>2
  <2>2. PICK l \in {Held(c), Failing(c)} : Become(s, Both(l, gone))
    BY <1>9
  <2>3. Both(l, gone).l = l /\ Minds(c, l)
    BY <2>1, <2>2 DEF Both
  <2> HIDE DEF Held, gone, Wants
  <2> QED BY <1>1, <1>2, <1>4, <1>6, <2>2, <2>3, BecomeInforms DEF c
<1> QED BY <1>1, <1>8, <1>9 DEF c

LEMMA WatchdogInforms ==
  ASSUME Inv, NEW s \in Scheduler, NEW k \in Instant, Watchdog(s, k) PROVE Informs(s)
<1> DEFINE row == [inv[s] EXCEPT ![k] = [at |-> "land", as |-> "unknown"]]
<1>1. local' = [local EXCEPT ![s] = local[s]] /\ inv' = [inv EXCEPT ![s] = row]
  BY DEF Watchdog, Goto, Inv, Typed, TypeOK
<1>2. UNCHANGED <<setup, store, untold>>
  BY DEF Watchdog, world, disk, host
<1> HIDE DEF row
<1> QED BY <1>1, <1>2, CalmReflexive, QuietInforms

LEMMA HostSettlesInforms ==
  ASSUME Inv, NEW s \in Scheduler, NEW k \in Instant, NEW status, HostSettles(s, k, status)
  PROVE  Informs(s)
<1>1. UNCHANGED <<setup, store, untold>>
  BY DEF HostSettles, world, disk
<1>2. local[s] \in Local /\ local \in [Scheduler -> Local] /\ inv \in [Scheduler -> Row]
  BY LocalTypes DEF Inv, Typed, TypeOK, Row, Slot
<1>3. \E m, row : Calm(local[s], m) /\ Become(s, Both(m, row))
  <2>1. CASE ToRelease(s, k, local[s])
    BY <1>2, <2>1, ToReleaseCalm
  <2>2. CASE UNCHANGED local /\ (Goto(s, k, "land", status) \/ UNCHANGED inv)
    <3>1. \E row : Become(s, Both(local[s], row))
      BY <1>2, <2>2 DEF Become, Both, Goto
    <3> QED BY <3>1, CalmReflexive
  <2> QED BY <2>1, <2>2 DEF HostSettles
<1>4. PICK m, row : Calm(local[s], m) /\ Become(s, Both(m, row))
  BY <1>3
<1>5. local' = [local EXCEPT ![s] = m] /\ inv' = [inv EXCEPT ![s] = row]
  BY <1>4 DEF Become, Both
<1> QED BY <1>1, <1>4, <1>5, CalmMinds, QuietInforms

LEMMA StopInforms == ASSUME Inv, NEW s \in Scheduler, Stop(s) PROVE Informs(s)
<1> DEFINE l == [local[s] EXCEPT !.life = "stopping", !.timer = Off, !.queue = <<>>]
           row == Aborted(Displaced(inv[s], Queue(local[s]), "cancelled"), local[s].active)
<1>1. Minds(local[s], l)
  BY LocalTypes DEF Minds, Pinned, Knows, Local, Inv
<1>2. local' = [local EXCEPT ![s] = l] /\ inv' = [inv EXCEPT ![s] = row]
  BY DEF Stop, Become, Both
<1>3. UNCHANGED <<setup, store, untold>>
  BY DEF Stop, world, disk, host
<1> HIDE DEF l, row
<1> QED BY <1>1, <1>2, <1>3, QuietInforms

---------------------------------------------------------------------------
(* Every step                                                              *)

LEMMA CrashKeepsIssues ==
  ASSUME Inv, GenOK, NEW s \in Scheduler, Crash(s) PROVE GenOK' /\ IssuesKept
<1> DEFINE l == [Fresh(0) EXCEPT !.life = "crashed"]
<1>1. l.life = "crashed" /\ l.cache = NoRecord /\ ~Knows(l) /\ ~Pinned(l)
  BY DEF Fresh, Idle, Knows, Pinned
<1> HIDE DEF l
<1>2. /\ local' = [local EXCEPT ![s] = l] /\ UNCHANGED <<setup, store, untold>>
      /\ local \in [Scheduler -> Local] /\ inv \in [Scheduler -> Row]
      /\ \A t \in Scheduler : t # s => inv'[t] = inv[t]
  BY DEF Crash, Set, world, l, Inv, Typed, TypeOK, Row, Slot
<1>3. \A t \in Scheduler : local'[t] = IF t = s THEN l ELSE local[t]
  BY <1>2
<1>4. GenOK'
  <2>1. NoRecord.gen = NoGeneration
    BY DEF NoRecord, InitialRecord
  <2> QED BY <1>1, <1>2, <1>3, <2>1 DEF GenOK
<1>5. IssuesKept
  BY <1>1, <1>2, <1>3 DEF IssuesKept, ShowsIssue
<1> QED BY <1>4, <1>5

LEMMA NextKeepsIssues ==
  ASSUME Inv, Inv', GenOK, Next PROVE GenOK' /\ IssuesKept
<1>1. Typed'
  BY DEF Inv
<1>2. CASE Tick \/ ClockBack
  <2>1. UNCHANGED <<setup, store, local, inv, untold>>
    BY <1>2 DEF Tick, ClockBack, disk, host
  <2>2. GenOK'
    BY <2>1 DEF GenOK
  <2> QED BY <2>1, <2>2 DEF IssuesKept, ShowsIssue
<1>3. ASSUME NEW s \in Scheduler, Start(s) \/ Step(s) \/ Stop(s) \/ StopReturns(s) PROVE Informs(s)
  <2>1. CASE Start(s)             BY <2>1, StartInforms
  <2>2. CASE ReadAtStart(s)       BY <2>2, ReadAtStartInforms
  <2>3. CASE DropSettled(s)       BY <1>1, <2>3, DropSettledInforms
  <2>4. CASE Replace(s)           BY <1>1, <2>4, ReplaceInforms
  <2>5. CASE RestartRegression(s) BY <1>1, <2>5, RestartRegressionInforms
  <2>6. CASE RecoverUnknown(s)    BY <1>1, <2>6, RecoverUnknownInforms
  <2>7. CASE TimerFires(s)        BY <2>7, TimerFiresInforms
  <2>8. CASE Refresh(s)           BY <2>8, RefreshInforms
  <2>9. CASE RecordClock(s)       BY <1>1, <2>9, RecordClockInforms
  <2>10. CASE GiveUpMissed(s)     BY <1>1, <2>10, GiveUpMissedInforms
  <2>11. CASE AdmissionReturns(s) BY <2>11, AdmissionReturnsInforms
  <2>12. CASE RepairRelease(s)    BY <1>1, <2>12, RepairReleaseInforms
  <2>13. CASE Stop(s)             BY <2>13, StopInforms
  <2>14. CASE StopReturns(s)      BY <2>14, StopReturnsInforms
  <2> QED BY <1>3, <2>1, <2>2, <2>3, <2>4, <2>5, <2>6, <2>7, <2>8, <2>9, <2>10, <2>11, <2>12,
             <2>13, <2>14 DEF Step
<1>4. ASSUME NEW s \in Scheduler, NEW k \in Instant, Invocation(s, k) PROVE Informs(s)
  <2>1. CASE ReserveFiring(s, k)           BY <1>1, <2>1, ReserveFiringInforms
  <2>2. CASE Unclaim(s, k)                 BY <1>1, <2>2, UnclaimInforms
  <2>3. CASE ClaimFiring(s, k)             BY <1>1, <2>3, ClaimFiringInforms
  <2>4. CASE Watchdog(s, k)                BY <2>4, WatchdogInforms
  <2>5. CASE Settle(s, k) \/ Land(s, k)    BY <1>1, <2>5, SettleInforms
  <2>6. CASE Release(s, k)                 BY <1>1, <2>6, ReleaseInforms
  <2>7. CASE \E status \in {"accepted", "rejected", "duplicate", "unknown"} :
               HostSettles(s, k, status)
    BY <2>7, HostSettlesInforms
  <2> QED BY <1>4, <2>1, <2>2, <2>3, <2>4, <2>5, <2>6, <2>7 DEF Invocation
<1>5. ASSUME NEW s \in Scheduler, NEW k \in setup.commands, Invoke(s, k) PROVE Informs(s)
  <2>1. k \in Instant
    BY ScheduleType DEF Inv, Typed
  <2> QED BY <1>5, <2>1, InvokeInforms
<1>6. CASE \E s \in Scheduler : Informs(s)
  BY <1>6, InformsKeeps
<1>7. CASE \E s \in Scheduler : Crash(s)
  BY <1>7, CrashKeepsIssues
<1> QED BY <1>2, <1>3, <1>4, <1>5, <1>6, <1>7 DEF Next

\* An issue that a scheduler's health shows stays until it crashes, whatever it reads,
\* writes or fails to write, but for the end of a claim it took for another's; and the
\* outcome that it could not write shows from then on.
THEOREM IssuesAreKept == Spec => IssueIsKept
<1>1. Init => GenOK
  BY DEF Init, GenOK, Fresh, Idle, Knows, Pinned, NoRecord, InitialRecord
<1>2. Inv /\ Inv' /\ GenOK /\ [Next]_vars => GenOK'
  <2>1. ASSUME GenOK, UNCHANGED vars PROVE GenOK'
    BY <2>1 DEF GenOK, vars, world, disk
  <2> QED BY <2>1, NextKeepsIssues
<1>3. Inv /\ Inv' /\ GenOK /\ [Next]_vars =>
        [\A s \in Scheduler :
           /\ ShowsIssue(s) /\ local'[s].life # "crashed" => ShowsIssue(s)' \/ ClaimIsOver(s)
           /\ \A k \in untold' \ untold : inv'[s] # inv[s] => ShowsIssue(s)']_vars
  BY NextKeepsIssues DEF IssuesKept
<1> QED BY <1>1, <1>2, <1>3, CronInvariance, PTL DEF Spec, IssueIsKept
=============================================================================
