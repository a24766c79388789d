------------------------------ MODULE HostTurn ------------------------------
(***************************************************************************)
(* One submitted request inside the Core (core/src/host.ts): admission,    *)
(* the loop over routes and attempts, settlement, and the classification   *)
(* of every error on the way, over the run journal of state-local.  The    *)
(* process may crash or be stopped between any two steps, every journal    *)
(* write may be refused or torn, and a runtime may act, throw or return.   *)
(*                                                                         *)
(* A worker is one call of #submitRequest.  The per-conversation tail and  *)
(* the turn semaphore, which only delay a worker, are in HostAdmission.    *)
(***************************************************************************)
EXTENDS RunJournal

CONSTANTS
  Worker,     \* concurrent submissions
  MaxRoute,   \* routes a request may try: the primary and its fallbacks
  NoRequest

ASSUME WorkerAssumption == MaxRoute \in Nat \ {0} /\ NoRequest \notin Request

VARIABLES
  turn,       \* per worker: the locals of #submitRequest and #runTurn
  hostAbort,  \* the host's abort signal, raised by stop()
  effects,    \* per request: attempts that acted on the world (observer)
  told        \* per request: <<input, outcome>> claimed to a client (observer)

host == <<turn, hostAbort, effects, told>>
vars == <<journal, host>>

\* What a runtime's error says: sideEffects "none", retryability "retryable",
\* the session-unavailable code, and whether it is an AbortError.
Error == [none : BOOLEAN, retryable : BOOLEAN, gone : BOOLEAN, abort : BOOLEAN]
Untyped == [none |-> FALSE, retryable |-> FALSE, gone |-> FALSE, abort |-> FALSE]

Executing ==
  {"routing", "preparing", "running", "failing", "evicting", "returned", "recorded"}
Phase ==
  {"idle", "queued", "settled", "withdrawn", "classified", "cancelling", "replying"}
    \cup Executing

Claim == Terminal \ {"uncertain"}
Answer == Terminal \cup {"rejected", "conflict", "in-progress"}

TurnRecord ==
  [phase : Phase, request : Request \cup {NoRequest},
   fingerprint : Fingerprint \cup {NoFingerprint},
   callers : SUBSET Fingerprint,             \* the inputs that share the promise
   route : Nat, attempt : Nat,
   recovered : SUBSET Nat,                   \* sessionRecoveryRoutes
   acted : {"no", "unseen", "seen"},         \* "seen" is observedEffect
   unsure : BOOLEAN,                         \* hasUncertainEffects
   error : Error,
   abort : {"none", "cancel", "requeue"},    \* why the turn's signal is aborted
   verdict : Answer]

\* A turn outside its attempts: whom it answers, and how.
Parked(phase, q, f, callers, v) ==
  [phase |-> phase, request |-> q, fingerprint |-> f, callers |-> callers,
   route |-> 1, attempt |-> 1, recovered |-> {}, acted |-> "no", unsure |-> FALSE,
   error |-> Untyped, abort |-> "none", verdict |-> v]

IdleTurn == Parked("idle", NoRequest, NoFingerprint, {}, "rejected")

TypeOK ==
  /\ JournalTypeOK
  /\ turn \in [Worker -> TurnRecord]
  /\ hostAbort \in BOOLEAN
  /\ effects \in [Request -> Nat]
  /\ told \in [Request -> SUBSET (Fingerprint \X Claim)]

Init ==
  /\ JournalInit
  /\ turn = [w \in Worker |-> IdleTurn]
  /\ hostAbort = FALSE
  /\ effects = [q \in Request |-> 0]
  /\ told = [q \in Request |-> {}]

-----------------------------------------------------------------------------
(* Helpers *)

At(w, phase) == turn[w].phase = phase
QueuedOnly(q) == \E w \in Worker : turn[w].phase = "queued" /\ turn[w].request = q  \* mutant
Inflight(q) == \E w \in Worker : turn[w].phase # "idle" /\ turn[w].request = q

\* The turn's own signal; settlements use one that only the host can abort.
Aborted(w) == hostAbort \/ turn[w].abort # "none"

Goto(w, t) == turn' = [turn EXCEPT ![w] = t]
Observed == <<hostAbort, effects, told>>

Ending(t, phase, v) == Parked(phase, t.request, t.fingerprint, t.callers, v)
Answering(t, a) == Ending(t, "replying", a)
Classified(t, v) == Ending(t, "classified", v)

RetryableIsSafe(e) == e.retryable  \* mutant

\* isSafeRuntimeFallback: the only errors after which another route may run.
SafeFallback(e) == e.none /\ e.retryable

\* A journal write of worker w, made under a signal that is aborted iff barred:
\* the turn becomes done when it is acknowledged and lost when it is not.
Write(w, write, barred, done, lost) ==
  /\ \/ ~barred /\ Applied(write) /\ Goto(w, done)
     \/ Failed(write) /\ Goto(w, lost)
  /\ UNCHANGED Observed

\* The catch of #submitRequest: kind is the status of a RunExecutionError,
\* "abort" for an AbortError, "plain" for anything else.
Caught(t, kind) ==
  CASE hostAbort -> Answering(t, "rejected")
    [] ~hostAbort /\ t.abort = "requeue" -> Classified(t, "uncertain")
    [] ~hostAbort /\ t.abort # "requeue" /\ kind \in {"failed", "uncertain"} ->
         Classified(t, kind)
    [] ~hostAbort /\ t.abort # "requeue" /\ kind \in {"abort", "plain"} ->
         IF kind = "abort" \/ t.abort = "cancel"
         THEN Ending(t, "cancelling", "cancelled")
         ELSE Classified(t, "failed")

\* The catch around one attempt in #runTurn, before the runtime has returned.
Threw(t, e, dispatched) ==
  CASE hostAbort -> Caught(t, "abort")
    [] ~hostAbort /\ (t.abort # "none" \/ e.abort) ->
         Caught(t, IF dispatched /\ ~e.none THEN "uncertain" ELSE "abort")
    [] ~hostAbort /\ t.abort = "none" /\ ~e.abort ->
         [t EXCEPT !.phase = "failing", !.error = e,
                   !.unsure = @ \/ t.acted = "seen" \/ ~e.none]

\* The next turn of the route loop.
NextAttempt(t, route) ==
  [t EXCEPT !.phase = "routing", !.route = route, !.attempt = @ + 1, !.acted = "no",
            !.error = Untyped]

-----------------------------------------------------------------------------
(* Submission *)

Submit(w, q, f) ==
  /\ ~hostAbort
  /\ At(w, "idle")
  /\ ~Inflight(q)
  /\ Goto(w, Parked("queued", q, f, {f}, "rejected"))
  /\ UNCHANGED <<journal, Observed>>

\* The same requestId is in flight: the same input shares its promise.  Another
\* input is rejected as a conflict, which changes nothing.
Join(w, f) ==
  /\ ~At(w, "idle")
  /\ f = turn[w].fingerprint
  /\ Goto(w, [turn[w] EXCEPT !.callers = @ \cup {f}])
  /\ UNCHANGED <<journal, Observed>>

\* Abort of the caller's signal, or host.cancel.
Cancel(w) ==
  /\ turn[w].phase \in Executing \cup {"queued"}
  /\ turn[w].abort = "none"
  /\ Goto(w, [turn[w] EXCEPT !.abort = "cancel"])
  /\ UNCHANGED <<journal, Observed>>

\* A live input was handed to the runtime and never acknowledged.
Requeue(w) ==
  /\ turn[w].phase \in Executing
  /\ turn[w].abort = "none"
  /\ turn[w].acted = "seen"
  /\ Goto(w, [turn[w] EXCEPT !.abort = "requeue"])
  /\ UNCHANGED <<journal, Observed>>

\* The admission is new: its run starts.  An admission that cannot be written or
\* read rejects the request.
AdmitNew(w) ==
  LET t == turn[w] IN
  /\ At(w, "queued")
  /\ Write(w, AdmitWrite(t.request, t.fingerprint), Aborted(w),
           [t EXCEPT !.phase = "routing"], Answering(t, "rejected"))

\* The admission exists and answers the request by itself.
AdmitExisting(w) ==
  LET t == turn[w]
      a == admission[t.request]
      Known(answer) == Goto(w, Answering(t, answer))
  IN
  /\ At(w, "queued")
  /\ ~Aborted(w)
  /\ ~poisoned
  /\ a.state # "absent"
  /\ \/ a.fingerprint # t.fingerprint /\ Known("conflict")
     \/ a.fingerprint = t.fingerprint /\ a.state = "uncertain" /\ Known("uncertain")
     \/ a.fingerprint = t.fingerprint /\ a.state = "settled" /\ Known(run[t.request].status)
     \/ a.fingerprint = t.fingerprint /\ a.state = "running" /\ a.lease = "live"
        /\ Known("in-progress")
  /\ UNCHANGED <<journal, Observed>>

AdmitStale(w) ==
  LET t == turn[w] IN
  /\ At(w, "queued")
  /\ admission[t.request].fingerprint = t.fingerprint
  /\ Write(w, StaleWrite(t.request), Aborted(w),
           Answering(t, "uncertain"), Answering(t, "rejected"))

-----------------------------------------------------------------------------
(* The route loop *)

\* The conversation, recall, a preflight or an abort check throws between attempts.
RoutingThrows(w) ==
  /\ At(w, "routing")
  /\ Goto(w, Caught(turn[w], IF Aborted(w) THEN "abort" ELSE "plain"))
  /\ UNCHANGED <<journal, Observed>>

RejectRoute(w) ==
  LET t == turn[w] IN
  /\ At(w, "routing")
  /\ t.route <= MaxRoute
  /\ Write(w, AttemptWrite(t.request, t.attempt, "ineligible"), Aborted(w),
           NextAttempt(t, t.route + 1), Caught(t, "plain"))

\* mutant: the attempt goes on when its evidence is not acknowledged
StartUnproven(w) ==
  LET t == turn[w] IN
  /\ At(w, "routing")
  /\ t.route <= MaxRoute
  /\ Write(w, AttemptWrite(t.request, t.attempt, "started"), Aborted(w),
           [t EXCEPT !.phase = "preparing"], [t EXCEPT !.phase = "preparing"])

StartAttempt(w) ==
  LET t == turn[w] IN
  /\ At(w, "routing")
  /\ t.route <= MaxRoute
  /\ Write(w, AttemptWrite(t.request, t.attempt, "started"), Aborted(w),
           [t EXCEPT !.phase = "preparing"], Threw(t, Untyped, FALSE))

PrepareThrows(w) ==
  /\ At(w, "preparing")
  /\ Goto(w, Threw(turn[w], Untyped, FALSE))
  /\ UNCHANGED <<journal, Observed>>

Dispatch(w) ==
  /\ At(w, "preparing")
  /\ ~Aborted(w)
  /\ Goto(w, [turn[w] EXCEPT !.phase = "running"])
  /\ UNCHANGED <<journal, Observed>>

\* The runtime acts on the world, through a callback the Core observes or not.
Act(w, how) ==
  LET t == turn[w] IN
  /\ At(w, "running")
  /\ t.acted # how /\ t.acted # "seen"
  /\ Goto(w, [t EXCEPT !.acted = how])
  /\ effects' = [effects EXCEPT ![t.request] = IF t.acted = "no" THEN @ + 1 ELSE @]
  /\ UNCHANGED <<journal, hostAbort, told>>

\* A runtime is honest about what the Core cannot see, and has no session to
\* report unavailable when it was given none.
RuntimeThrows(w, e) ==
  LET t == turn[w] IN
  /\ At(w, "running")
  /\ t.acted = "unseen" => ~e.none
  /\ e.gone => t.route \notin t.recovered
  /\ Goto(w, Threw(t, e, TRUE))
  /\ UNCHANGED <<journal, Observed>>

RuntimeReturns(w) ==
  /\ At(w, "running")
  /\ Goto(w, [turn[w] EXCEPT !.phase = "returned"])
  /\ UNCHANGED <<journal, Observed>>

AlwaysFailed(t) == Caught(t, "failed")  \* mutant

RoutesExhausted(t) == Caught(t, IF t.unsure THEN "uncertain" ELSE "failed")

\* After terminal evidence of a failed attempt: retry without the session, fall
\* back to the next route, or give up.
AfterFailure(t) ==
  CASE t.error.gone /\ t.error.none /\ t.acted # "seen" /\ t.route \notin t.recovered ->
         [t EXCEPT !.phase = "evicting"]
    [] OTHER -> IF t.acted # "seen" /\ SafeFallback(t.error)
                THEN NextAttempt(t, t.route + 1)
                ELSE RoutesExhausted(t)

RecordFailed(w) ==
  LET t == turn[w] IN
  /\ At(w, "failing")
  /\ Write(w, AttemptWrite(t.request, t.attempt, "failed"), Aborted(w),
           AfterFailure(t), Caught(t, IF t.unsure THEN "uncertain" ELSE "plain"))

\* The provider session is evicted and the same route is tried once without it.
RecoverSession(w) ==
  LET t == turn[w] IN
  /\ At(w, "evicting")
  /\ \/ /\ ~Aborted(w) /\ ~poisoned
        /\ Goto(w, NextAttempt([t EXCEPT !.recovered = @ \cup {t.route}], t.route))
     \/ Goto(w, Caught(t, "plain"))
  /\ UNCHANGED <<journal, Observed>>

LoopEnds(w) ==
  /\ At(w, "routing")
  /\ turn[w].route > MaxRoute
  /\ Goto(w, RoutesExhausted(turn[w]))
  /\ UNCHANGED <<journal, Observed>>

-----------------------------------------------------------------------------
(* Settlement *)

\* After the runtime returned, nothing but a durable settlement proves the result.
ResultRejected(w) ==
  /\ At(w, "returned")
  /\ Goto(w, Caught(turn[w], "uncertain"))
  /\ UNCHANGED <<journal, Observed>>

RecordCompleted(w) ==
  LET t == turn[w] IN
  /\ At(w, "returned")
  /\ Write(w, AttemptWrite(t.request, t.attempt, "completed"), hostAbort,
           [t EXCEPT !.phase = "recorded"], Caught(t, "uncertain"))

SettleResult(w, s) ==
  LET t == turn[w] IN
  /\ At(w, "recorded")
  /\ Write(w, SettleWrite(t.request, s), hostAbort,
           Ending(t, "settled", s), Caught(t, "uncertain"))

\* An aborted turn settles as cancelled; if it cannot, it is uncertain.
SettleCancelled(w) ==
  LET t == turn[w] IN
  /\ At(w, "cancelling")
  /\ Write(w, SettleWrite(t.request, "cancelled"), hostAbort,
           Ending(t, "withdrawn", "cancelled"), Classified(t, "uncertain"))

\* The in-memory view, memory capture or export after a durable settlement.
Conclude(w) ==
  LET t == turn[w] IN
  /\ \/ /\ turn[w].phase \in {"settled", "withdrawn"}
        /\ Goto(w, Answering(t, t.verdict))
     \/ At(w, "settled") /\ Goto(w, Caught(t, "uncertain"))
     \/ At(w, "withdrawn") /\ Goto(w, Classified(t, "uncertain"))
  /\ UNCHANGED <<journal, Observed>>

\* mutants: the settlement's failure is ignored, or retried until it succeeds
PersistOptimistically(w) ==
  LET t == turn[w] IN
  /\ At(w, "classified")
  /\ Write(w, SettleWrite(t.request, t.verdict), hostAbort,
           Answering(t, t.verdict), Answering(t, t.verdict))

PersistOrRetry(w) ==
  LET t == turn[w] IN
  /\ At(w, "classified")
  /\ Write(w, SettleWrite(t.request, t.verdict), hostAbort, Answering(t, t.verdict), t)

\* A classified error is answered as classified only when that was persisted.
PersistVerdict(w) ==
  LET t == turn[w] IN
  /\ At(w, "classified")
  /\ Write(w, SettleWrite(t.request, t.verdict), hostAbort,
           Answering(t, t.verdict), Answering(t, "uncertain"))

Reply(w) ==
  LET t == turn[w] IN
  /\ At(w, "replying")
  /\ told' = [told EXCEPT ![t.request] =
       IF t.verdict \in Claim THEN @ \cup (t.callers \X {t.verdict}) ELSE @]
  /\ Goto(w, IdleTurn)
  /\ UNCHANGED <<journal, hostAbort, effects>>

-----------------------------------------------------------------------------
(* The process *)

StopHost ==
  /\ ~hostAbort
  /\ hostAbort' = TRUE
  /\ UNCHANGED <<journal, turn, effects, told>>

\* The process ends, at any point, and a new host opens the store again.
Restart ==
  /\ turn' = [w \in Worker |-> IdleTurn]
  /\ hostAbort' = FALSE
  /\ Reopen
  /\ UNCHANGED <<effects, told>>

Clock(q) == LeaseExpires(q) /\ UNCHANGED host

AdmissionStep(w) ==
  \/ \E q \in Request, f \in Fingerprint : Submit(w, q, f)
  \/ \E f \in Fingerprint : Join(w, f)
  \/ AdmitNew(w) \/ AdmitExisting(w) \/ AdmitStale(w)

AttemptStep(w) ==
  \/ RoutingThrows(w) \/ RejectRoute(w) \/ StartAttempt(w)
  \/ PrepareThrows(w) \/ Dispatch(w)
  \/ \E how \in {"unseen", "seen"} : Act(w, how)
  \/ \E e \in Error : RuntimeThrows(w, e)
  \/ RuntimeReturns(w) \/ RecordFailed(w) \/ RecoverSession(w) \/ LoopEnds(w)

SettlementStep(w) ==
  \/ ResultRejected(w) \/ RecordCompleted(w)
  \/ \E s \in UserVisible : SettleResult(w, s)
  \/ SettleCancelled(w) \/ Conclude(w) \/ PersistVerdict(w) \/ Reply(w)

TurnStep(w) ==
  \/ AdmissionStep(w) \/ Cancel(w) \/ Requeue(w)
  \/ AttemptStep(w) \/ SettlementStep(w)

Next ==
  \/ \E w \in Worker : TurnStep(w)
  \/ \E q \in Request : Clock(q)
  \/ StopHost
  \/ Restart

Spec == Init /\ [][Next]_vars

\* Every pending promise of a turn settles: store and lifecycle calls do so by
\* themselves, and a runtime that is dispatched is taken to return or throw.
Fairness ==
  \A w \in Worker :
    /\ WF_vars(AdmitNew(w) \/ AdmitExisting(w) \/ AdmitStale(w))
    /\ WF_vars(AttemptStep(w))
    /\ WF_vars(SettlementStep(w))

FairSpec == Spec /\ Fairness

-----------------------------------------------------------------------------
(* Properties *)

\* Whatever fails, falls back, crashes or is submitted again, at most one attempt
\* of a request acts on the world.
EffectsAtMostOnce == \A q \in Request : effects[q] <= 1

\* An answer that claims an outcome is the outcome of the durable run, given only
\* to the input the request was admitted with (a torn write or a failure after
\* settlement must degrade the answer to "uncertain").
HonestAnswers ==
  \A q \in Request : \A answer \in told[q] :
    /\ admission[q].fingerprint = answer[1]
    /\ run[q].status = answer[2]

\* "failed" is a safe-to-retry claim: nothing the request started has acted.
FailedMeansNoEffects ==
  \A q \in Request : run[q].status = "failed" => effects[q] = 0

\* Nobody decides a run while its turn still executes: neither the expiry of the
\* admission lease, which the host never renews, nor another submission.
LiveTurnOwnsItsRun ==
  \A w \in Worker :
    turn[w].phase \in Executing =>
      /\ run[turn[w].request].status = "running"
      /\ admission[turn[w].request].fingerprint = turn[w].fingerprint

\* A run has durable evidence of the attempt that acts before it acts, and is
\* recorded as completed or out of turns only over a completed last attempt.
EvidenceBeforeEffects ==
  /\ \A w \in Worker : At(w, "running") =>
       Len(run[turn[w].request].attempts) = turn[w].attempt
  /\ \A q \in Request :
       LET attempts == run[q].attempts IN
       /\ effects[q] > 0 => attempts # <<>>
       /\ run[q].status \in {"completed", "max-turns"} =>
            attempts # <<>> /\ attempts[Len(attempts)] = "completed"

\* Every submission is answered, or dies with its process: no failure of the store,
\* cancellation or stop leaves a worker (and the conversation behind it) waiting.
EveryTurnEnds == \A w \in Worker : ~At(w, "idle") ~> At(w, "idle")

\* The state of the promise that the durable records stand for.
Owners == [q \in Request |-> admission[q].fingerprint]
Verdicts == [q \in Request |->
  IF run[q].status \in Terminal THEN run[q].status ELSE "open"]

Promise == INSTANCE RequestOnce WITH owner <- Owners, verdict <- Verdicts

\* The promise of RequestOnce to every client, kept by every step of the host, its
\* store and its process: one owner, one effect, one verdict, no false claim.
KeepsPromise == Promise!Spec
=============================================================================
