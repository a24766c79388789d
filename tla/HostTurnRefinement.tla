-------------------------- MODULE HostTurnRefinement --------------------------
(***************************************************************************)
(* HostTurn implements RequestOnce for every set of requests, inputs and   *)
(* workers: a transaction of the journal that decides something is a step  *)
(* of the promise, every other step leaves the promise where it was.       *)
(***************************************************************************)
EXTENDS HostTurnProofs

\* A step that moves neither owners, verdicts, effects nor claims.
LEMMA StutterMaps ==
  ASSUME \A q \in Request : /\ admission'[q].fingerprint = admission[q].fingerprint
                            /\ run'[q].status = run[q].status,
         UNCHANGED <<effects, told>>
  PROVE  UNCHANGED Promise!vars
<1>1. Owners' = Owners /\ Verdicts' = Verdicts
  BY DEF Owners, Verdicts
<1> QED BY <1>1 DEF Promise!vars

\* An admission gives the request to its input.
LEMMA AdmitMaps ==
  ASSUME Inv, NEW q \in Request, NEW f \in Fingerprint, AdmitWrite(q, f),
         UNCHANGED <<effects, told>>
  PROVE  Promise!Next
<1>1. RequestOK(admission[q], run[q], effects[q], told[q])
  BY DEF Inv, RequestsOK
<1>2. admission[q].fingerprint = NoFingerprint /\ run[q].status = "absent"
  BY <1>1 DEF AdmitWrite, RequestOK
<1>3. /\ admission' = [admission EXCEPT ![q] =
           [state |-> "running", fingerprint |-> f, lease |-> "live"]]
      /\ run' = [run EXCEPT ![q] = [status |-> "running", attempts |-> <<>>]]
  BY DEF AdmitWrite
<1>4. Owners' = [Owners EXCEPT ![q] = f]
  BY <1>3 DEF Owners, Inv, TypeOK, JournalTypeOK
<1>5. Verdicts' = Verdicts
  BY <1>2, <1>3 DEF Verdicts, Inv, TypeOK, JournalTypeOK, Terminal, UserVisible
<1>6. Owners[q] = NoFingerprint
  BY <1>2 DEF Owners
<1>7. Promise!Accept(q, f)
  BY <1>4, <1>5, <1>6 DEF Promise!Accept
<1> QED BY <1>7 DEF Promise!Next

\* A run that leaves "running" for a terminal status is decided.
LEMMA DecideMaps ==
  ASSUME Inv, NEW q \in Request, NEW s \in Terminal,
         run[q].status = "running", s = "failed" => effects[q] = 0,
         run' = [run EXCEPT ![q].status = s],
         \A p \in Request : admission'[p].fingerprint = admission[p].fingerprint,
         UNCHANGED <<effects, told>>
  PROVE  Promise!Next
<1>1. RequestOK(admission[q], run[q], effects[q], told[q]) /\ run \in [Request -> RunRecord]
  BY DEF Inv, RequestsOK, TypeOK, JournalTypeOK
<1>2. Owners[q] # NoFingerprint
  BY <1>1 DEF Owners, RequestOK
<1>3. Owners' = Owners
  BY DEF Owners
<1>4. Verdicts[q] = "open"
  BY DEF Verdicts, Terminal, UserVisible
<1>5. \A p \in Request : run'[p].status = IF p = q THEN s ELSE run[p].status
  BY <1>1 DEF RunRecord
<1>6. Verdicts' = [Verdicts EXCEPT ![q] = s]
  BY <1>5 DEF Verdicts
<1>7. s \in Promise!Verdict
  BY DEF Promise!Verdict, Terminal, UserVisible
<1>8. Promise!Decide(q, s)
  BY <1>2, <1>3, <1>4, <1>6 DEF Promise!Decide
<1> QED BY <1>7, <1>8 DEF Promise!Next

\* The two transactions that decide a run.
LEMMA SettleMaps ==
  ASSUME Inv, NEW q \in Request, NEW s \in Terminal, SettleWrite(q, s),
         s = "failed" => effects[q] = 0, UNCHANGED <<effects, told>>
  PROVE  Promise!Next
<1>1. \A p \in Request : admission'[p].fingerprint = admission[p].fingerprint
  BY DEF SettleWrite, Inv, TypeOK, JournalTypeOK, AdmissionRecord
<1> QED BY <1>1, DecideMaps DEF SettleWrite

LEMMA StaleMaps ==
  ASSUME Inv, NEW q \in Request, StaleWrite(q), UNCHANGED <<effects, told>>
  PROVE  Promise!Next
<1>1. \A p \in Request : admission'[p].fingerprint = admission[p].fingerprint
  BY DEF StaleWrite, Inv, TypeOK, JournalTypeOK, AdmissionRecord
<1>2. PICK s \in Terminal : s = "uncertain"
  BY DEF Terminal
<1> QED BY <1>1, <1>2, DecideMaps DEF StaleWrite

\* Attempt evidence is invisible to clients.
LEMMA EvidenceMaps ==
  ASSUME Inv, NEW q \in Request, NEW n, NEW s \in AttemptStatus, AttemptWrite(q, n, s),
         UNCHANGED <<effects, told>>
  PROVE  UNCHANGED Promise!vars
<1>1. /\ admission' = admission
      /\ \A p \in Request : run'[p].status = run[p].status
  BY DEF AttemptWrite, Inv, TypeOK, JournalTypeOK, RunRecord
<1> QED BY <1>1, StutterMaps

\* A journal write maps as its transaction does, whether acknowledged or torn.
LEMMA WriteMaps ==
  ASSUME NEW w \in Worker, NEW ACTION W, NEW STATE barred,
         NEW STATE done, NEW STATE lost,
         Write(w, W, barred, done, lost), poisoned \in BOOLEAN,
         W /\ UNCHANGED <<effects, told>> => [Promise!Next]_(Promise!vars)
  PROVE  [Promise!Next]_(Promise!vars)
<1>1. UNCHANGED <<effects, told>> /\ (W \/ UNCHANGED <<admission, run>>)
  BY WriteOutcomes
<1>2. CASE UNCHANGED <<admission, run>>
  BY <1>1, <1>2, StutterMaps
<1> QED BY <1>1, <1>2

-----------------------------------------------------------------------------
(* The steps of a host *)

\* Steps that touch only turns, the host's signal, the store's poison or a lease.
LEMMA QuietStepsMap ==
  ASSUME Inv,
         \/ UNCHANGED <<journal, effects, told>>
         \/ Restart
         \/ \E q \in Request : Clock(q)
  PROVE  UNCHANGED Promise!vars
<1>1. CASE UNCHANGED <<journal, effects, told>> \/ Restart
  BY <1>1, StutterMaps DEF journal, Restart, Reopen
<1>2. ASSUME NEW q \in Request, Clock(q) PROVE UNCHANGED Promise!vars
  <2>1. \A p \in Request : admission'[p].fingerprint = admission[p].fingerprint
    BY <1>2 DEF Clock, LeaseExpires, Inv, TypeOK, JournalTypeOK, AdmissionRecord
  <2> QED BY <1>2, <2>1, StutterMaps DEF Clock, LeaseExpires, host
<1> QED BY <1>1, <1>2

LEMMA AdmissionMaps ==
  ASSUME Inv, NEW w \in Worker, AdmitNew(w) \/ AdmitStale(w)
  PROVE  [Promise!Next]_(Promise!vars)
<1> DEFINE t == turn[w]
           q == t.request
<1>1. /\ q \in Request /\ t.fingerprint \in Fingerprint /\ poisoned \in BOOLEAN
  BY Context DEF AdmitNew, AdmitStale, At, TurnOK, Inv, TypeOK, JournalTypeOK
<1>2. CASE AdmitNew(w)
  <2>1. PICK done, lost : Write(w, AdmitWrite(q, t.fingerprint), Aborted(w), done, lost)
    BY <1>2 DEF AdmitNew
  <2>2. AdmitWrite(q, t.fingerprint) /\ UNCHANGED <<effects, told>>
          => [Promise!Next]_(Promise!vars)
    BY <1>1, AdmitMaps
  <2> QED BY <1>1, <2>1, <2>2, WriteMaps
<1>3. CASE AdmitStale(w)
  <2>1. PICK done, lost : Write(w, StaleWrite(q), Aborted(w), done, lost)
    BY <1>3 DEF AdmitStale
  <2>2. StaleWrite(q) /\ UNCHANGED <<effects, told>> => [Promise!Next]_(Promise!vars)
    BY <1>1, StaleMaps
  <2> QED BY <1>1, <2>1, <2>2, WriteMaps
<1> QED BY <1>2, <1>3

\* Every write of attempt evidence.
LEMMA EvidenceStepsMap ==
  ASSUME Inv, NEW w \in Worker,
         RejectRoute(w) \/ StartAttempt(w) \/ RecordFailed(w) \/ RecordCompleted(w)
  PROVE  [Promise!Next]_(Promise!vars)
<1> DEFINE t == turn[w]
           q == t.request
<1>1. q \in Request /\ poisoned \in BOOLEAN
  BY Context DEF RejectRoute, StartAttempt, RecordFailed, RecordCompleted, At,
                 Inv, TypeOK, JournalTypeOK
<1>2. PICK s \in AttemptStatus : \E barred, done, lost :
        Write(w, AttemptWrite(q, t.attempt, s), barred, done, lost)
  BY DEF RejectRoute, StartAttempt, RecordFailed, RecordCompleted, AttemptStatus
<1>3. AttemptWrite(q, t.attempt, s) /\ UNCHANGED <<effects, told>>
        => [Promise!Next]_(Promise!vars)
  BY <1>1, EvidenceMaps
<1> QED BY <1>1, <1>2, <1>3, WriteMaps

\* Every settlement; only a classified turn settles as failed, and it had no effect.
LEMMA SettlementStepsMap ==
  ASSUME Inv, NEW w \in Worker,
         \/ \E s \in UserVisible : SettleResult(w, s)
         \/ SettleCancelled(w)
         \/ PersistVerdict(w)
  PROVE  [Promise!Next]_(Promise!vars)
<1> DEFINE t == turn[w]
           q == t.request
<1>1. q \in Request /\ poisoned \in BOOLEAN
      /\ TurnOK(t, admission[q], run[q], effects[q])
  BY Context DEF SettleResult, SettleCancelled, PersistVerdict, At,
                 Inv, TypeOK, JournalTypeOK
<1>2. PICK s \in Terminal :
        /\ \E barred, done, lost : Write(w, SettleWrite(q, s), barred, done, lost)
        /\ s = "failed" => effects[q] = 0
  <2>1. CASE \E s \in UserVisible : SettleResult(w, s)
    BY <2>1 DEF SettleResult, Terminal, UserVisible
  <2>2. CASE SettleCancelled(w)
    BY <2>2 DEF SettleCancelled, Terminal, UserVisible
  <2>3. CASE PersistVerdict(w)
    BY <1>1, <2>3 DEF PersistVerdict, TurnOK, At, Terminal
  <2> QED BY <2>1, <2>2, <2>3
<1>3. SettleWrite(q, s) /\ UNCHANGED <<effects, told>> => [Promise!Next]_(Promise!vars)
  BY <1>1, <1>2, SettleMaps
<1> QED BY <1>1, <1>2, <1>3, WriteMaps

\* The first act of an attempt takes effect; a later one adds nothing.
LEMMA ActMaps ==
  ASSUME Inv, NEW w \in Worker, NEW how \in {"unseen", "seen"}, Act(w, how)
  PROVE  [Promise!Next]_(Promise!vars)
<1> DEFINE t == turn[w]
           q == t.request
<1>1. t.phase \in Executing
  BY DEF Act, At, Executing
<1>2. /\ q \in Request /\ run[q].status = "running"
      /\ admission[q].fingerprint # NoFingerprint
      /\ effects[q] = IF t.acted = "no" THEN 0 ELSE 1
      /\ effects \in [Request -> Nat]
  BY <1>1, AttemptContext, NoFingerprintAssumption
     DEF InAttempt, Admitted, Inv, TypeOK
<1>3. UNCHANGED <<admission, run, told>>
      /\ effects' = [effects EXCEPT ![q] = IF t.acted = "no" THEN @ + 1 ELSE @]
  BY DEF Act, journal
<1>4. CASE t.acted = "no"
  <2>1. effects' = [effects EXCEPT ![q] = 1]
    BY <1>2, <1>3, <1>4
  <2>2. Owners' = Owners /\ Verdicts' = Verdicts
    BY <1>3 DEF Owners, Verdicts
  <2>3. Owners[q] # NoFingerprint /\ Verdicts[q] = "open"
    BY <1>2 DEF Owners, Verdicts, Terminal, UserVisible
  <2>4. Promise!TakeEffect(q)
    BY <1>2, <1>3, <1>4, <2>1, <2>2, <2>3 DEF Promise!TakeEffect
  <2> QED BY <1>2, <2>4 DEF Promise!Next
<1>5. CASE t.acted # "no"
  <2>1. effects' = effects
    BY <1>2, <1>3, <1>5
  <2> QED BY <1>3, <2>1, StutterMaps
<1> QED BY <1>4, <1>5

\* An answer tells the verdict to the owner, or claims nothing.
LEMMA ReplyMaps ==
  ASSUME Inv, NEW w \in Worker, Reply(w)
  PROVE  [Promise!Next]_(Promise!vars)
<1> DEFINE t == turn[w]
           q == t.request
<1>1. /\ q \in Request /\ t.callers = {t.fingerprint} /\ t.fingerprint \in Fingerprint
      /\ t.verdict \in Claim =>
           admission[q].fingerprint = t.fingerprint /\ run[q].status = t.verdict
      /\ told \in [Request -> SUBSET (Fingerprint \X Claim)]
  BY Context DEF Reply, At, TurnOK, Inv, TypeOK
<1>2. UNCHANGED <<admission, run, effects>>
      /\ told' = [told EXCEPT ![q] =
           IF t.verdict \in Claim THEN @ \cup (t.callers \X {t.verdict}) ELSE @]
  BY DEF Reply, journal
<1>3. CASE t.verdict \in Claim
  <2>1. Owners[q] = t.fingerprint /\ Verdicts[q] = t.verdict
    BY <1>1, <1>3 DEF Owners, Verdicts, Claim
  <2>2. told' = [told EXCEPT ![q] = @ \cup {<<Owners[q], Verdicts[q]>>}]
    <3>1. t.callers \X {t.verdict} = {<<t.fingerprint, t.verdict>>}
      BY <1>1
    <3> QED BY <1>2, <1>3, <2>1, <3>1
  <2>3. Owners[q] # NoFingerprint /\ Verdicts[q] \in Promise!Claim
    BY <1>1, <1>3, <2>1, NoFingerprintAssumption
       DEF Promise!Claim, Promise!Verdict, Claim, Terminal, UserVisible
  <2>4. Owners' = Owners /\ Verdicts' = Verdicts
    BY <1>2 DEF Owners, Verdicts
  <2>5. Promise!Tell(q)
    BY <1>2, <2>2, <2>3, <2>4 DEF Promise!Tell
  <2> QED BY <1>1, <2>5 DEF Promise!Next
<1>4. CASE t.verdict \notin Claim
  <2>1. told' = told
    BY <1>1, <1>2, <1>4
  <2> QED BY <1>2, <2>1, StutterMaps
<1> QED BY <1>3, <1>4

LEMMA StepsMap == Inv /\ [Next]_vars => [Promise!Next]_(Promise!vars)
<1> SUFFICES ASSUME Inv, [Next]_vars PROVE [Promise!Next]_(Promise!vars)
  OBVIOUS
<1>1. ASSUME NEW w \in Worker, AdmissionStep(w) PROVE [Promise!Next]_(Promise!vars)
  <2>1. CASE \/ \E q \in Request, f \in Fingerprint : Submit(w, q, f)
             \/ \E f \in Fingerprint : Join(w, f)
             \/ AdmitExisting(w)
    <3>1. UNCHANGED <<journal, effects, told>>
      BY <2>1 DEF Submit, Join, AdmitExisting, Observed
    <3> QED BY <3>1, QuietStepsMap
  <2>2. CASE AdmitNew(w) \/ AdmitStale(w)
    BY <2>2, AdmissionMaps
  <2> QED BY <1>1, <2>1, <2>2 DEF AdmissionStep
<1>2. ASSUME NEW w \in Worker, Cancel(w) \/ Requeue(w)
      PROVE  [Promise!Next]_(Promise!vars)
  BY <1>2, QuietStepsMap DEF Cancel, Requeue, Observed
<1>3. ASSUME NEW w \in Worker, AttemptStep(w) PROVE [Promise!Next]_(Promise!vars)
  <2>1. CASE \/ RoutingThrows(w) \/ LoopEnds(w) \/ PrepareThrows(w) \/ Dispatch(w)
             \/ RuntimeReturns(w) \/ RecoverSession(w)
             \/ \E e \in Error : RuntimeThrows(w, e)
    <3>1. UNCHANGED <<journal, effects, told>>
      BY <2>1 DEF RoutingThrows, LoopEnds, PrepareThrows, Dispatch, RuntimeReturns,
                  RecoverSession, RuntimeThrows, Observed
    <3> QED BY <3>1, QuietStepsMap
  <2>2. CASE RejectRoute(w) \/ StartAttempt(w) \/ RecordFailed(w)
    BY <2>2, EvidenceStepsMap
  <2>3. CASE \E how \in {"unseen", "seen"} : Act(w, how)
    BY <2>3, ActMaps
  <2> QED BY <1>3, <2>1, <2>2, <2>3 DEF AttemptStep
<1>4. ASSUME NEW w \in Worker, SettlementStep(w) PROVE [Promise!Next]_(Promise!vars)
  <2>1. CASE ResultRejected(w) \/ Conclude(w)
    BY <2>1, QuietStepsMap DEF ResultRejected, Conclude, Observed
  <2>2. CASE RecordCompleted(w)
    BY <2>2, EvidenceStepsMap
  <2>3. CASE \/ \E s \in UserVisible : SettleResult(w, s)
             \/ SettleCancelled(w) \/ PersistVerdict(w)
    BY <2>3, SettlementStepsMap
  <2>4. CASE Reply(w)
    BY <2>4, ReplyMaps
  <2> QED BY <1>4, <2>1, <2>2, <2>3, <2>4 DEF SettlementStep
<1>5. CASE \/ \E q \in Request : Clock(q)
           \/ StopHost \/ Restart \/ UNCHANGED vars
  BY <1>5, QuietStepsMap DEF StopHost, vars, host
<1> QED BY <1>1, <1>2, <1>3, <1>4, <1>5 DEF Next, TurnStep

LEMMA InitMaps == Init => Promise!Init
<1> SUFFICES ASSUME Init PROVE Promise!Init
  OBVIOUS
<1>1. /\ \A q \in Request : /\ admission[q].fingerprint = NoFingerprint
                            /\ run[q].status = "absent"
      /\ effects = [q \in Request |-> 0]
      /\ told = [q \in Request |-> {}]
  BY DEF Init, JournalInit
<1>2. Owners = [q \in Request |-> NoFingerprint]
  BY <1>1 DEF Owners
<1>3. Verdicts = [q \in Request |-> "open"]
  BY <1>1 DEF Verdicts, Terminal, UserVisible
<1> QED BY <1>1, <1>2, <1>3 DEF Promise!Init

\* The host, its store and its crashes keep the promise made for each requestId.
THEOREM Refinement == Spec => KeepsPromise
  BY InitMaps, StepsMap, Invariance, PTL DEF Spec, KeepsPromise, Promise!Spec
=============================================================================
