--------------------------- MODULE HostTurnProofs ---------------------------
(***************************************************************************)
(* For every set of requests, inputs and workers and any number of routes: *)
(* the type and safety invariants of HostTurn, and that it keeps the       *)
(* promise of RequestOnce.                                                 *)
(*                                                                         *)
(* The inductive invariant Inv is local: what holds of a turn mentions     *)
(* only its own request's records (TurnOK), what holds of a request        *)
(* mentions only its own records (RequestOK), and two turns never share a  *)
(* request (OneTurnPerRequest).  A step of worker w therefore preserves    *)
(* Inv when it preserves TurnOK for w and RequestOK for its request.       *)
(***************************************************************************)
EXTENDS HostTurn, TLAPS

\* Attempt evidence is exactly as long as the attempts the turn has begun.
EvidenceOK(t, s) ==
  /\ t.attempt \in Nat \ {0}
  /\ t.phase = "routing" => Len(s) = t.attempt - 1
  /\ t.phase \in {"preparing", "running", "returned"} =>
       Len(s) = t.attempt /\ s[t.attempt] = "started"
  /\ t.phase = "failing" =>
       Len(s) = t.attempt - 1 \/ (Len(s) = t.attempt /\ s[t.attempt] = "started")
  /\ t.phase = "evicting" => Len(s) = t.attempt
  /\ t.phase = "recorded" => Len(s) = t.attempt /\ s[t.attempt] = "completed"

\* A live turn t against its admission a, its run r and the n effects it had.
TurnOK(t, a, r, n) ==
  /\ t.request \in Request
  /\ t.fingerprint \in Fingerprint
  /\ t.callers = {t.fingerprint}
  /\ t.phase \in Executing \cup {"settled", "withdrawn", "classified", "cancelling"} =>
       a.fingerprint = t.fingerprint
  /\ t.phase \in Executing =>
       /\ r.status = "running"
       /\ n = IF t.acted = "no" THEN 0 ELSE 1
       /\ EvidenceOK(t, r.attempts)
  /\ t.phase \in {"queued", "routing", "preparing", "evicting"} => t.acted = "no"
  /\ t.phase = "queued" => t.attempt = 1
  /\ t.phase = "failing" /\ t.acted # "no" =>
       t.unsure /\ (t.acted = "unseen" => ~t.error.none)
  /\ t.phase = "classified" =>
       t.verdict \in {"failed", "uncertain"} /\ (t.verdict = "failed" => n = 0)
  /\ t.phase \in {"settled", "withdrawn"} =>
       t.verdict \in UserVisible /\ r.status = t.verdict
  /\ t.phase = "replying" /\ t.verdict \in Claim =>
       a.fingerprint = t.fingerprint /\ r.status = t.verdict

\* A request's admission a, run r, number of effects n and claimed outcomes c.
RequestOK(a, r, n, c) ==
  /\ a.state = "absent" <=> r.status = "absent"
  /\ a.state = "running" <=> r.status = "running"
  /\ a.state = "uncertain" <=> r.status = "uncertain"
  /\ a.state = "absent" <=> a.fingerprint = NoFingerprint
  /\ a.state = "absent" => n = 0 /\ r.attempts = <<>>
  /\ n <= 1
  /\ n > 0 => r.attempts # <<>>
  /\ r.status = "failed" => n = 0
  /\ r.status \in {"completed", "max-turns"} =>
       r.attempts # <<>> /\ r.attempts[Len(r.attempts)] = "completed"
  /\ \A answer \in c : a.fingerprint = answer[1] /\ r.status = answer[2]

OneTurnPerRequest ==
  \A v, w \in Worker :
    /\ ~At(v, "idle")
    /\ ~At(w, "idle")
    /\ turn[v].request = turn[w].request
    => v = w

TurnsOK ==
  \A w \in Worker :
    LET q == turn[w].request IN
    ~At(w, "idle") => TurnOK(turn[w], admission[q], run[q], effects[q])

RequestsOK ==
  \A q \in Request : RequestOK(admission[q], run[q], effects[q], told[q])

Inv == TypeOK /\ OneTurnPerRequest /\ TurnsOK /\ RequestsOK

-----------------------------------------------------------------------------
(* The classification of errors *)

\* What a turn that may still be classified is known to satisfy: its request is
\* admitted for its own input.
Admitted(t, a) ==
  /\ t \in TurnRecord
  /\ t.request \in Request
  /\ t.fingerprint \in Fingerprint
  /\ t.callers = {t.fingerprint}
  /\ a.fingerprint = t.fingerprint

\* Ending a turn keeps its identity and forgets its attempts.
LEMMA EndingShape ==
  ASSUME NEW t \in TurnRecord, NEW phase \in Phase, NEW v \in Answer
  PROVE  /\ Ending(t, phase, v) \in TurnRecord
         /\ Ending(t, phase, v).phase = phase
         /\ Ending(t, phase, v).verdict = v
         /\ Ending(t, phase, v).request = t.request
         /\ Ending(t, phase, v).fingerprint = t.fingerprint
         /\ Ending(t, phase, v).callers = t.callers
<1>2. Untyped \in Error
  BY DEF Untyped, Error
<1>3. /\ t.request \in Request \cup {NoRequest}
      /\ t.fingerprint \in Fingerprint \cup {NoFingerprint}
      /\ t.callers \in SUBSET Fingerprint
  BY DEF TurnRecord
<1>4. Ending(t, phase, v) \in TurnRecord
  BY <1>2, <1>3 DEF Ending, Parked, TurnRecord
<1> QED BY <1>4 DEF Ending, Parked

\* The outer catch never claims "failed" for a turn that has acted: it is given
\* "failed" or "plain" only where no attempt had an effect.
LEMMA CaughtOK ==
  ASSUME NEW t, NEW a, NEW r, NEW n \in Nat, Admitted(t, a), hostAbort \in BOOLEAN,
         NEW kind \in {"failed", "uncertain", "abort", "plain"},
         kind \in {"failed", "plain"} => n = 0
  PROVE  /\ Caught(t, kind) \in TurnRecord
         /\ Caught(t, kind).phase # "idle"
         /\ Caught(t, kind).request = t.request
         /\ TurnOK(Caught(t, kind), a, r, n)
<1> USE DEF Admitted
<1>1. CASE hostAbort
  <2>1. Caught(t, kind) = Ending(t, "replying", "rejected")
    BY <1>1 DEF Caught, Answering
  <2> QED BY <2>1, EndingShape DEF TurnOK, Phase, Executing, Answer, Claim, Terminal, UserVisible
<1>2. CASE ~hostAbort /\ t.abort = "requeue"
  <2>1. Caught(t, kind) = Ending(t, "classified", "uncertain")
    BY <1>2 DEF Caught, Classified
  <2> QED BY <2>1, EndingShape DEF TurnOK, Phase, Executing, Answer, Claim, Terminal, UserVisible
<1>3. CASE ~hostAbort /\ t.abort # "requeue" /\ kind \in {"failed", "uncertain"}
  <2>1. Caught(t, kind) = Ending(t, "classified", kind)
    BY <1>3 DEF Caught, Classified
  <2> QED BY <1>3, <2>1, EndingShape DEF TurnOK, Phase, Executing, Answer, Claim, Terminal, UserVisible
<1>4. CASE ~hostAbort /\ t.abort # "requeue" /\ kind \in {"abort", "plain"}
  <2>1. CASE kind = "abort" \/ t.abort = "cancel"
    <3>1. Caught(t, kind) = Ending(t, "cancelling", "cancelled")
      BY <1>4, <2>1 DEF Caught
    <3> QED BY <3>1, EndingShape DEF TurnOK, Phase, Executing, Answer, Claim, Terminal, UserVisible
  <2>2. CASE ~(kind = "abort" \/ t.abort = "cancel")
    <3>1. Caught(t, kind) = Ending(t, "classified", "failed") /\ kind = "plain"
      BY <1>4, <2>2 DEF Caught, Classified
    <3> QED BY <3>1, EndingShape DEF TurnOK, Phase, Executing, Answer, Claim, Terminal, UserVisible
  <2> QED BY <2>1, <2>2
<1> QED BY <1>1, <1>2, <1>3, <1>4

-----------------------------------------------------------------------------
(* Steps change one turn and one request *)

\* Only the records of q may have changed, and they are well formed.
Touches(q) ==
  /\ admission' \in [Request -> AdmissionRecord]
  /\ run' \in [Request -> RunRecord]
  /\ poisoned' \in BOOLEAN
  /\ effects' \in [Request -> Nat]
  /\ told' \in [Request -> SUBSET (Fingerprint \X Claim)]
  /\ \A p \in Request \ {q} :
       /\ admission'[p] = admission[p]
       /\ run'[p] = run[p]
       /\ effects'[p] = effects[p]
       /\ told'[p] = told[p]

\* A step of worker w on request q preserves Inv when it preserves the local
\* invariants of w and q and no other turn is on q.
LEMMA Frame ==
  ASSUME Inv, NEW w \in Worker, NEW q \in Request, NEW t \in TurnRecord,
         turn' = [turn EXCEPT ![w] = t],
         hostAbort' \in BOOLEAN,
         Touches(q),
         \A v \in Worker \ {w} : ~At(v, "idle") => turn[v].request # q,
         t.phase # "idle" =>
           t.request = q /\ TurnOK(t, admission'[q], run'[q], effects'[q]),
         RequestOK(admission'[q], run'[q], effects'[q], told'[q])
  PROVE  Inv'
<1>1. TypeOK'
  BY DEF Inv, TypeOK, JournalTypeOK, Touches
<1>2. turn'[w] = t /\ \A v \in Worker \ {w} : turn'[v] = turn[v]
  BY DEF Inv, TypeOK
<1>3. OneTurnPerRequest'
  BY <1>2 DEF Inv, OneTurnPerRequest, At
<1>4. TurnsOK'
  <2> SUFFICES ASSUME NEW v \in Worker, turn'[v].phase # "idle"
               PROVE  TurnOK(turn'[v], admission'[turn'[v].request],
                             run'[turn'[v].request], effects'[turn'[v].request])
    BY DEF TurnsOK, At
  <2>1. CASE v = w
    BY <1>2, <2>1
  <2>2. CASE v # w
    <3>1. turn'[v] = turn[v] /\ turn[v].phase # "idle" /\ turn[v].request # q
      BY <1>2, <2>2 DEF At
    <3>2. TurnOK(turn[v], admission[turn[v].request], run[turn[v].request],
                 effects[turn[v].request])
      BY <3>1 DEF Inv, TurnsOK, At
    <3>3. turn[v].request \in Request
      BY <3>2 DEF TurnOK
    <3> QED BY <3>1, <3>2, <3>3 DEF Touches
  <2> QED BY <2>1, <2>2
<1>5. RequestsOK'
  BY DEF Inv, RequestsOK, Touches
<1> QED BY <1>1, <1>3, <1>4, <1>5 DEF Inv

\* What is known of a turn that is under way.
LEMMA Context ==
  ASSUME Inv, NEW w \in Worker, ~At(w, "idle")
  PROVE  LET t == turn[w]
             q == t.request
         IN /\ t \in TurnRecord
            /\ q \in Request
            /\ TurnOK(t, admission[q], run[q], effects[q])
            /\ RequestOK(admission[q], run[q], effects[q], told[q])
            /\ admission[q] \in AdmissionRecord
            /\ run[q] \in RunRecord
            /\ effects[q] \in Nat
            /\ \A v \in Worker \ {w} : ~At(v, "idle") => turn[v].request # q
<1>1. turn[w] \in TurnRecord
  BY DEF Inv, TypeOK
<1>2. TurnOK(turn[w], admission[turn[w].request], run[turn[w].request],
             effects[turn[w].request])
  BY DEF Inv, TurnsOK
<1>3. turn[w].request \in Request
  BY <1>2 DEF TurnOK
<1>4. \A v \in Worker \ {w} : ~At(v, "idle") => turn[v].request # turn[w].request
  BY DEF Inv, OneTurnPerRequest
<1> QED BY <1>1, <1>2, <1>3, <1>4 DEF Inv, TypeOK, JournalTypeOK, RequestsOK

\* A step that moves a turn under way and the records of its request.
LEMMA TurnAndRequestMove ==
  ASSUME Inv, NEW w \in Worker, ~At(w, "idle"), NEW t \in TurnRecord,
         NEW q \in Request, q = turn[w].request,
         turn' = [turn EXCEPT ![w] = t],
         hostAbort' \in BOOLEAN,
         Touches(q),
         RequestOK(admission'[q], run'[q], effects'[q], told'[q]),
         t.phase # "idle",
         t.request = q,
         TurnOK(t, admission'[q], run'[q], effects'[q])
  PROVE  Inv'
<1>1. \A v \in Worker \ {w} : ~At(v, "idle") => turn[v].request # q
  BY Context
<1> QED BY <1>1, Frame

\* A step that moves only a turn under way.
LEMMA TurnMoves ==
  ASSUME Inv, NEW w \in Worker, ~At(w, "idle"), NEW t \in TurnRecord,
         turn' = [turn EXCEPT ![w] = t],
         UNCHANGED <<admission, run, effects, told>>,
         poisoned' \in BOOLEAN, hostAbort' \in BOOLEAN,
         t.phase # "idle",
         t.request = turn[w].request,
         TurnOK(t, admission[t.request], run[t.request], effects[t.request])
  PROVE  Inv'
<1> DEFINE q == turn[w].request
<1>1. Touches(q)
  BY DEF Inv, TypeOK, JournalTypeOK, Touches
<1> QED BY <1>1, Context, Frame

-----------------------------------------------------------------------------
(* Journal writes preserve the invariant of their request *)

\* A new admission starts a run that has no evidence and no effect.
LEMMA AdmitWriteOK ==
  ASSUME Inv, NEW q \in Request, NEW f \in Fingerprint, AdmitWrite(q, f),
         poisoned' \in BOOLEAN, UNCHANGED <<effects, told>>
  PROVE  /\ Touches(q)
         /\ RequestOK(admission'[q], run'[q], effects'[q], told'[q])
         /\ admission'[q].fingerprint = f
         /\ run'[q] = [status |-> "running", attempts |-> <<>>]
         /\ effects[q] = 0
<1>1. /\ admission'[q] = [state |-> "running", fingerprint |-> f, lease |-> "live"]
      /\ run'[q] = [status |-> "running", attempts |-> <<>>]
      /\ admission'[q] \in AdmissionRecord
      /\ run'[q] \in RunRecord
  BY DEF AdmitWrite, Inv, TypeOK, JournalTypeOK, AdmissionRecord, RunRecord
<1>2. RequestOK(admission[q], run[q], effects[q], told[q])
  BY DEF Inv, RequestsOK
<1>3. effects[q] = 0
  BY <1>2 DEF AdmitWrite, RequestOK
<1>4. told[q] = {}
  <2> SUFFICES ASSUME NEW answer \in told[q] PROVE FALSE
    OBVIOUS
  <2>1. admission[q].fingerprint = answer[1] /\ answer[1] \in Fingerprint
    BY <1>2 DEF RequestOK, Inv, TypeOK
  <2> QED BY <1>2, <2>1, NoFingerprintAssumption DEF RequestOK, AdmitWrite
<1>5. RequestOK(admission'[q], run'[q], effects'[q], told'[q])
  BY <1>1, <1>3, <1>4, NoFingerprintAssumption DEF RequestOK, Inv, TypeOK
<1>6. Touches(q)
  BY <1>1 DEF AdmitWrite, Inv, TypeOK, JournalTypeOK, Touches
<1> QED BY <1>1, <1>3, <1>5, <1>6

\* The expiry of a lease turns admission and run uncertain together.
LEMMA StaleWriteOK ==
  ASSUME Inv, NEW q \in Request, StaleWrite(q),
         poisoned' \in BOOLEAN, UNCHANGED <<effects, told>>
  PROVE  /\ Touches(q)
         /\ RequestOK(admission'[q], run'[q], effects'[q], told'[q])
<1>1. /\ admission'[q] = [admission[q] EXCEPT !.state = "uncertain"]
      /\ run'[q] = [run[q] EXCEPT !.status = "uncertain"]
      /\ admission[q] \in AdmissionRecord /\ run[q] \in RunRecord
  BY DEF StaleWrite, Inv, TypeOK, JournalTypeOK
<1>2. admission'[q] \in AdmissionRecord /\ run'[q] \in RunRecord
  BY <1>1 DEF AdmissionRecord, RunRecord, Terminal
<1>3. RequestOK(admission[q], run[q], effects[q], told[q])
  BY DEF Inv, RequestsOK
<1>4. \A answer \in told[q] : answer[2] \in Claim
  BY DEF Inv, TypeOK
<1>5. RequestOK(admission'[q], run'[q], effects'[q], told'[q])
  BY <1>1, <1>3, <1>4
     DEF RequestOK, StaleWrite, AdmissionRecord, RunRecord, Claim, Terminal, UserVisible
<1>6. Touches(q)
  BY <1>2 DEF StaleWrite, Inv, TypeOK, JournalTypeOK, Touches
<1> QED BY <1>5, <1>6

\* Attempt evidence is appended, or replaces the last "started" evidence.
LEMMA AttemptWriteOK ==
  ASSUME Inv, NEW q \in Request, NEW n \in Nat \ {0}, NEW s \in AttemptStatus,
         AttemptWrite(q, n, s), Len(run[q].attempts) \in {n - 1, n},
         poisoned' \in BOOLEAN, UNCHANGED <<effects, told>>
  PROVE  /\ Touches(q)
         /\ RequestOK(admission'[q], run'[q], effects'[q], told'[q])
         /\ admission'[q] = admission[q]
         /\ run'[q].status = "running"
         /\ Len(run'[q].attempts) = n
         /\ run'[q].attempts[n] = s
<1> DEFINE old == run[q].attempts
           new == IF n <= Len(old) THEN [old EXCEPT ![n] = s] ELSE Append(old, s)
<1>1. /\ run[q] \in RunRecord /\ run[q].status = "running"
      /\ run'[q] = [run[q] EXCEPT !.attempts = new]
      /\ admission' = admission
  BY DEF AttemptWrite, Inv, TypeOK, JournalTypeOK
<1>2. old \in Seq(AttemptStatus)
  BY <1>1 DEF RunRecord
<1>3. new \in Seq(AttemptStatus) /\ Len(new) = n /\ new[n] = s
  BY <1>2
<1>4. run'[q].attempts = new /\ run'[q].status = "running" /\ run'[q] \in RunRecord
  BY <1>1, <1>3 DEF RunRecord
<1>5. RequestOK(admission[q], run[q], effects[q], told[q])
  BY DEF Inv, RequestsOK
<1>6. RequestOK(admission'[q], run'[q], effects'[q], told'[q])
  BY <1>1, <1>3, <1>4, <1>5 DEF RequestOK
<1>7. Touches(q)
  BY <1>4 DEF AttemptWrite, Inv, TypeOK, JournalTypeOK, Touches
<1> QED BY <1>1, <1>3, <1>4, <1>6, <1>7

\* A settlement decides the run once; the caller vouches for what it claims.
LEMMA SettleWriteOK ==
  ASSUME Inv, NEW q \in Request, NEW s \in Terminal, SettleWrite(q, s),
         s = "failed" => effects[q] = 0,
         s \in {"completed", "max-turns"} =>
           /\ run[q].attempts # <<>>
           /\ run[q].attempts[Len(run[q].attempts)] = "completed",
         poisoned' \in BOOLEAN, UNCHANGED <<effects, told>>
  PROVE  /\ Touches(q)
         /\ RequestOK(admission'[q], run'[q], effects'[q], told'[q])
         /\ run'[q].status = s
         /\ admission'[q].fingerprint = admission[q].fingerprint
<1> DEFINE state == IF s = "uncertain" THEN "uncertain" ELSE "settled"
<1>1. /\ admission'[q] = [admission[q] EXCEPT !.state = state, !.lease = "expired"]
      /\ run'[q] = [run[q] EXCEPT !.status = s]
      /\ admission[q] \in AdmissionRecord /\ run[q] \in RunRecord
      /\ admission[q].state = "running" /\ run[q].status = "running"
  BY DEF SettleWrite, Inv, TypeOK, JournalTypeOK
<1>2. /\ admission'[q] \in AdmissionRecord /\ run'[q] \in RunRecord
      /\ admission'[q].state = state
      /\ admission'[q].fingerprint = admission[q].fingerprint
      /\ run'[q].status = s /\ run'[q].attempts = run[q].attempts
  BY <1>1 DEF AdmissionRecord, RunRecord, Terminal, UserVisible
<1>3. RequestOK(admission[q], run[q], effects[q], told[q])
  BY DEF Inv, RequestsOK
<1>4. \A answer \in told[q] : answer[2] \in Claim
  BY DEF Inv, TypeOK
<1>5. RequestOK(admission'[q], run'[q], effects'[q], told'[q])
  BY <1>1, <1>2, <1>3, <1>4 DEF RequestOK, Claim, Terminal, UserVisible
<1>6. Touches(q)
  BY <1>2 DEF SettleWrite, Inv, TypeOK, JournalTypeOK, Touches
<1> QED BY <1>2, <1>5, <1>6

-----------------------------------------------------------------------------
(* The catch around an attempt, and what follows its terminal evidence *)

\* An attempt in progress: its run is running and its effects are accounted for.
InAttempt(t, a, r, n) ==
  /\ Admitted(t, a)
  /\ r.status = "running"
  /\ n = IF t.acted = "no" THEN 0 ELSE 1
  /\ t.attempt \in Nat \ {0}

\* An error of an attempt is recorded as failed, or ends the turn without a claim.
LEMMA ThrewOK ==
  ASSUME NEW t, NEW a, NEW r, NEW n \in Nat, InAttempt(t, a, r, n),
         hostAbort \in BOOLEAN, NEW e \in Error, NEW dispatched \in BOOLEAN,
         t.acted = "unseen" => ~e.none,
         \/ Len(r.attempts) = t.attempt - 1
         \/ Len(r.attempts) = t.attempt /\ r.attempts[t.attempt] = "started"
  PROVE  /\ Threw(t, e, dispatched) \in TurnRecord
         /\ Threw(t, e, dispatched).phase # "idle"
         /\ Threw(t, e, dispatched).request = t.request
         /\ TurnOK(Threw(t, e, dispatched), a, r, n)
<1>1. CASE hostAbort
  BY <1>1, CaughtOK DEF Threw, InAttempt
<1>2. CASE ~hostAbort /\ (t.abort # "none" \/ e.abort)
  <2> DEFINE kind == IF dispatched /\ ~e.none THEN "uncertain" ELSE "abort"
  <2>1. Threw(t, e, dispatched) = Caught(t, kind)
    BY <1>2 DEF Threw
  <2>2. Admitted(t, a)
    BY DEF InAttempt
  <2>3. PICK k \in {"failed", "uncertain", "abort", "plain"} :
          k = kind /\ ~(k \in {"failed", "plain"})
    OBVIOUS
  <2> HIDE DEF kind
  <2> DEFINE u == Caught(t, k)
  <2>4. u \in TurnRecord /\ u.phase # "idle" /\ u.request = t.request /\ TurnOK(u, a, r, n)
    BY <2>2, <2>3, CaughtOK
  <2>5. Threw(t, e, dispatched) = u
    BY <2>1, <2>3
  <2> HIDE DEF u
  <2> QED BY <2>4, <2>5
<1>3. CASE ~hostAbort /\ t.abort = "none" /\ ~e.abort
  <2> DEFINE b == t.unsure \/ t.acted = "seen" \/ ~e.none
             u == [t EXCEPT !.phase = "failing", !.error = e, !.unsure = b]
  <2>1. Threw(t, e, dispatched) = u
    BY <1>3 DEF Threw
  <2>2. t \in TurnRecord
    BY DEF InAttempt, Admitted
  <2>a. b \in BOOLEAN
    OBVIOUS
  <2> HIDE DEF b
  <2>3. u \in TurnRecord
    BY <2>2, <2>a DEF TurnRecord, Phase, Executing
  <2>4. /\ u.phase = "failing" /\ u.error = e /\ u.unsure = b
        /\ u.request = t.request /\ u.fingerprint = t.fingerprint
        /\ u.callers = t.callers /\ u.acted = t.acted /\ u.attempt = t.attempt
    BY <2>2 DEF TurnRecord
  <2>5. t.acted \in {"no", "unseen", "seen"}
    BY <2>2 DEF TurnRecord
  <2>6. TurnOK(u, a, r, n)
    BY <2>4, <2>5 DEF b, TurnOK, InAttempt, Admitted, EvidenceOK, Executing
  <2> QED BY <2>1, <2>3, <2>4, <2>6
<1> QED BY <1>1, <1>2, <1>3 DEF InAttempt

\* The next attempt begins only after one that had no effect.
LEMMA NextAttemptOK ==
  ASSUME NEW t, NEW a, NEW r, InAttempt(t, a, r, 0), NEW route \in Nat,
         Len(r.attempts) = t.attempt
  PROVE  /\ NextAttempt(t, route) \in TurnRecord
         /\ NextAttempt(t, route).phase # "idle"
         /\ NextAttempt(t, route).request = t.request
         /\ TurnOK(NextAttempt(t, route), a, r, 0)
<1> DEFINE u == NextAttempt(t, route)
           next == t.attempt + 1
<1>1. t \in TurnRecord /\ t.attempt \in Nat \ {0} /\ next \in Nat
  BY DEF InAttempt, Admitted
<1>2. Untyped \in Error
  BY DEF Untyped, Error
<1>3. u \in TurnRecord
  <2>1. u = [t EXCEPT !.phase = "routing", !.route = route, !.attempt = next,
                      !.acted = "no", !.error = Untyped]
    BY DEF NextAttempt
  <2> HIDE DEF u, next
  <2> QED BY <1>1, <1>2, <2>1 DEF TurnRecord, Phase, Executing
<1>4. /\ u.phase = "routing" /\ u.attempt = t.attempt + 1 /\ u.acted = "no"
      /\ u.request = t.request /\ u.fingerprint = t.fingerprint
      /\ u.callers = t.callers
  BY <1>1 DEF NextAttempt, TurnRecord
<1>5. TurnOK(u, a, r, 0)
  BY <1>1, <1>4 DEF TurnOK, InAttempt, Admitted, EvidenceOK, Executing
<1> QED BY <1>3, <1>4, <1>5

\* A failed attempt leads to a retry, a fallback or a classified end of the turn.
LEMMA AfterFailureOK ==
  ASSUME NEW t, NEW a, NEW r, NEW n \in Nat, InAttempt(t, a, r, n),
         hostAbort \in BOOLEAN,
         Len(r.attempts) = t.attempt,
         t.acted # "no" => t.unsure /\ (t.acted = "unseen" => ~t.error.none)
  PROVE  /\ AfterFailure(t) \in TurnRecord
         /\ AfterFailure(t).phase # "idle"
         /\ AfterFailure(t).request = t.request
         /\ TurnOK(AfterFailure(t), a, r, n)
<1> DEFINE recover == /\ t.error.gone /\ t.error.none
                      /\ t.acted # "seen" /\ t.route \notin t.recovered
<1>1. /\ t \in TurnRecord /\ t.acted \in {"no", "unseen", "seen"}
      /\ t.route \in Nat /\ t.unsure \in BOOLEAN
  BY DEF InAttempt, Admitted, TurnRecord
<1>2. CASE recover
  <2> DEFINE u == [t EXCEPT !.phase = "evicting"]
  <2>1. AfterFailure(t) = u
    BY <1>2 DEF AfterFailure
  <2>2. /\ u \in TurnRecord /\ u.phase = "evicting" /\ u.request = t.request
        /\ u.fingerprint = t.fingerprint /\ u.callers = t.callers
        /\ u.acted = t.acted /\ u.attempt = t.attempt
    BY <1>1 DEF TurnRecord, Phase, Executing
  <2>3. t.acted = "no"
    BY <1>1, <1>2
  <2>4. TurnOK(u, a, r, n)
    BY <2>2, <2>3 DEF TurnOK, InAttempt, Admitted, EvidenceOK, Executing
  <2> QED BY <2>1, <2>2, <2>4
<1>3. CASE ~recover /\ t.acted # "seen" /\ SafeFallback(t.error)
  <2>1. AfterFailure(t) = NextAttempt(t, t.route + 1)
    BY <1>3 DEF AfterFailure
  <2>2. n = 0
    BY <1>1, <1>3 DEF SafeFallback, InAttempt
  <2> QED BY <1>1, <2>1, <2>2, NextAttemptOK
<1>4. CASE ~recover /\ ~(t.acted # "seen" /\ SafeFallback(t.error))
  <2> DEFINE kind == IF t.unsure THEN "uncertain" ELSE "failed"
  <2>1. AfterFailure(t) = Caught(t, kind)
    BY <1>4 DEF AfterFailure, RoutesExhausted
  <2>2. kind = "failed" => n = 0
    BY <1>1 DEF InAttempt
  <2> QED BY <2>1, <2>2, CaughtOK DEF InAttempt
<1> QED BY <1>2, <1>3, <1>4

-----------------------------------------------------------------------------
(* Admission *)

\* Submitting takes an idle worker to a request that no other turn is on.
LEMMA SubmitPreserves ==
  ASSUME Inv, NEW w \in Worker, NEW q \in Request, NEW f \in Fingerprint,
         Submit(w, q, f)
  PROVE  Inv'
<1> DEFINE t == Parked("queued", q, f, {f}, "rejected")
<1>1. Untyped \in Error
  BY DEF Untyped, Error
<1>2. t \in TurnRecord
  BY <1>1 DEF Parked, TurnRecord, Phase, Answer
<1>3. TurnOK(t, admission[q], run[q], effects[q]) /\ t.request = q
  BY DEF TurnOK, Parked, Executing
<1>4. Touches(q) /\ RequestOK(admission'[q], run'[q], effects'[q], told'[q])
  BY DEF Submit, journal, Observed, Inv, TypeOK, JournalTypeOK, RequestsOK, Touches
<1>5. /\ turn' = [turn EXCEPT ![w] = t] /\ hostAbort' \in BOOLEAN
      /\ UNCHANGED <<admission, run, effects>>
  BY DEF Submit, Goto, Observed, journal, Inv, TypeOK
<1>6. \A v \in Worker \ {w} : ~At(v, "idle") => turn[v].request # q
  BY DEF Submit, Inflight, At
<1> HIDE DEF t
<1> QED BY <1>2, <1>3, <1>4, <1>5, <1>6, Frame

\* Sharing the promise of a request adds the input it already has.
LEMMA JoinPreserves ==
  ASSUME Inv, NEW w \in Worker, NEW f \in Fingerprint, Join(w, f)
  PROVE  Inv'
<1>1. turn[w] \in TurnRecord /\ turn[w].callers = {f} /\ ~At(w, "idle")
  BY Context DEF Join, TurnOK
<1>2. turn' = [turn EXCEPT ![w] = turn[w]]
  BY <1>1 DEF Join, Goto, TurnRecord
<1>3. UNCHANGED <<admission, run, effects, told>> /\ poisoned' \in BOOLEAN
      /\ hostAbort' \in BOOLEAN
  BY DEF Join, journal, Observed, Inv, TypeOK, JournalTypeOK
<1> QED BY <1>1, <1>2, <1>3, Context, TurnMoves DEF At

\* An abort of the turn's signal is only noted.
LEMMA AbortPreserves ==
  ASSUME Inv, NEW w \in Worker, Cancel(w) \/ Requeue(w)
  PROVE  Inv'
<1> PICK why \in {"cancel", "requeue"} :
       turn' = [turn EXCEPT ![w] = [turn[w] EXCEPT !.abort = why]]
  BY DEF Cancel, Requeue, Goto
<1> DEFINE t == [turn[w] EXCEPT !.abort = why]
<1>1. ~At(w, "idle")
  BY DEF Cancel, Requeue, At, Executing
<1>2. turn[w] \in TurnRecord
  BY <1>1, Context
<1>3. /\ t \in TurnRecord
      /\ t.phase = turn[w].phase /\ t.request = turn[w].request
      /\ t.fingerprint = turn[w].fingerprint /\ t.callers = turn[w].callers
      /\ t.attempt = turn[w].attempt /\ t.acted = turn[w].acted
      /\ t.unsure = turn[w].unsure /\ t.error = turn[w].error
      /\ t.verdict = turn[w].verdict
  BY <1>2 DEF TurnRecord
<1> HIDE DEF t
<1>4. TurnOK(t, admission[t.request], run[t.request], effects[t.request])
  <2> DEFINE q == turn[w].request
  <2>1. TurnOK(turn[w], admission[q], run[q], effects[q])
    BY <1>1, Context
  <2>2. EvidenceOK(turn[w], run[q].attempts) => EvidenceOK(t, run[q].attempts)
    BY <1>3 DEF EvidenceOK
  <2> QED BY <1>3, <2>1, <2>2 DEF TurnOK
<1>5. UNCHANGED <<admission, run, effects, told>> /\ poisoned' \in BOOLEAN
      /\ hostAbort' \in BOOLEAN
  BY DEF Cancel, Requeue, journal, Observed, Inv, TypeOK, JournalTypeOK
<1> QED BY <1>1, <1>3, <1>4, <1>5, TurnMoves DEF At, t

\* The ways out of a journal write.
LEMMA WriteOutcomes ==
  ASSUME NEW w \in Worker, NEW ACTION W, NEW STATE barred,
         NEW STATE done, NEW STATE lost,
         Write(w, W, barred, done, lost), poisoned \in BOOLEAN
  PROVE  /\ UNCHANGED <<hostAbort, effects, told>> /\ poisoned' \in BOOLEAN
         /\ \/ W /\ ~barred /\ turn' = [turn EXCEPT ![w] = done]
            \/ /\ W \/ UNCHANGED <<admission, run>>
               /\ turn' = [turn EXCEPT ![w] = lost]
  BY DEF Write, Applied, Failed, Refused, Torn, Goto, Observed, journal

\* A turn that answers without claiming an outcome.
LEMMA NoClaimOK ==
  ASSUME Inv, NEW w \in Worker, ~At(w, "idle"), NEW v \in Answer \ Claim
  PROVE  LET t == Answering(turn[w], v) IN
         /\ t \in TurnRecord /\ t.phase # "idle" /\ t.request = turn[w].request
         /\ \A a, r, n : TurnOK(t, a, r, n)
<1> DEFINE t == Ending(turn[w], "replying", v)
<1>1. /\ turn[w] \in TurnRecord /\ turn[w].request \in Request
      /\ turn[w].fingerprint \in Fingerprint
      /\ turn[w].callers = {turn[w].fingerprint}
  BY Context DEF TurnOK
<1>2. /\ t \in TurnRecord /\ t.phase = "replying" /\ t.verdict = v
      /\ t.request = turn[w].request /\ t.fingerprint = turn[w].fingerprint
      /\ t.callers = turn[w].callers
  BY <1>1, EndingShape DEF Phase
<1> HIDE DEF t
<1>3. \A a, r, n : TurnOK(t, a, r, n)
  BY <1>1, <1>2 DEF TurnOK, Executing
<1> QED BY <1>2, <1>3 DEF Answering, t

\* A new admission starts the turn, an unproven one rejects it.
LEMMA AdmitNewPreserves ==
  ASSUME Inv, NEW w \in Worker, AdmitNew(w)
  PROVE  Inv'
<1> DEFINE t == turn[w]
           q == t.request
           done == [t EXCEPT !.phase = "routing"]
           lost == Answering(t, "rejected")
<1>0. ~At(w, "idle") /\ t.phase = "queued"
  BY DEF AdmitNew, At
<1>1. /\ t \in TurnRecord /\ q \in Request /\ t.fingerprint \in Fingerprint
      /\ t.callers = {t.fingerprint}
  BY <1>0, Context DEF TurnOK
<1>2. "rejected" \in Answer \ Claim
  BY DEF Answer, Claim, Terminal, UserVisible
<1>3. poisoned \in BOOLEAN /\ hostAbort \in BOOLEAN
  BY DEF Inv, TypeOK, JournalTypeOK
<1>4. Write(w, AdmitWrite(q, t.fingerprint), Aborted(w), done, lost)
  BY DEF AdmitNew
<1>5. /\ UNCHANGED <<hostAbort, effects, told>> /\ poisoned' \in BOOLEAN
      /\ \/ AdmitWrite(q, t.fingerprint) /\ turn' = [turn EXCEPT ![w] = done]
         \/ /\ AdmitWrite(q, t.fingerprint) \/ UNCHANGED <<admission, run>>
            /\ turn' = [turn EXCEPT ![w] = lost]
  BY <1>3, <1>4, WriteOutcomes
<1>6. CASE AdmitWrite(q, t.fingerprint)
  <2>1. /\ Touches(q)
        /\ RequestOK(admission'[q], run'[q], effects'[q], told'[q])
        /\ admission'[q].fingerprint = t.fingerprint
        /\ run'[q] = [status |-> "running", attempts |-> <<>>]
        /\ effects[q] = 0
    BY <1>1, <1>5, <1>6, AdmitWriteOK
  <2>2. CASE turn' = [turn EXCEPT ![w] = done]
    <3>1. t.acted = "no" /\ t.attempt = 1
      BY <1>0, Context DEF TurnOK
    <3>2. /\ done \in TurnRecord /\ done.phase = "routing" /\ done.request = q
          /\ done.fingerprint = t.fingerprint /\ done.callers = t.callers
          /\ done.acted = "no" /\ done.attempt = 1
      BY <1>1, <3>1 DEF TurnRecord, Phase, Executing
    <3>3. effects'[q] = 0 /\ Len(run'[q].attempts) = 0 /\ run'[q].status = "running"
      BY <1>5, <2>1
    <3> HIDE DEF done
    <3>4. TurnOK(done, admission'[q], run'[q], effects'[q])
      BY <1>1, <2>1, <3>2, <3>3 DEF TurnOK, EvidenceOK, Executing
    <3> QED BY <1>0, <1>1, <1>3, <1>5, <2>1, <2>2, <3>2, <3>4, TurnAndRequestMove
  <2>3. CASE turn' = [turn EXCEPT ![w] = lost]
    <3>1. /\ lost \in TurnRecord /\ lost.phase # "idle" /\ lost.request = q
          /\ TurnOK(lost, admission'[q], run'[q], effects'[q])
      BY <1>0, <1>2, NoClaimOK
    <3> HIDE DEF lost
    <3> QED BY <1>0, <1>1, <1>3, <1>5, <2>1, <2>3, <3>1, TurnAndRequestMove
  <2> QED BY <1>5, <2>2, <2>3
<1>7. CASE UNCHANGED <<admission, run>> /\ turn' = [turn EXCEPT ![w] = lost]
  <2>1. /\ lost \in TurnRecord /\ lost.phase # "idle" /\ lost.request = q
        /\ TurnOK(lost, admission[q], run[q], effects[q])
    BY <1>0, <1>2, NoClaimOK
  <2> HIDE DEF lost
  <2> QED BY <1>0, <1>1, <1>3, <1>5, <1>7, <2>1, TurnMoves
<1> QED BY <1>5, <1>6, <1>7

\* An admission that exists answers for itself; only a settled one claims.
LEMMA AdmitExistingPreserves ==
  ASSUME Inv, NEW w \in Worker, AdmitExisting(w)
  PROVE  Inv'
<1> DEFINE q == turn[w].request
<1>0. ~At(w, "idle")
  BY DEF AdmitExisting, At
<1>1. PICK v \in Answer :
        /\ turn' = [turn EXCEPT ![w] = Answering(turn[w], v)]
        /\ v \in Claim =>
             admission[q].fingerprint = turn[w].fingerprint /\ run[q].status = v
  <2>1. run[q].status \in {"absent", "running"} \cup Terminal
    BY <1>0, Context DEF RunRecord
  <2>2. admission[q].state = "settled" => run[q].status \in Answer
    BY <1>0, <2>1, Context DEF RequestOK, Answer
  <2> QED BY <2>2 DEF AdmitExisting, Goto, Answer, Claim, Terminal, UserVisible
<1> DEFINE t == Answering(turn[w], v)
<1>2. /\ turn[w] \in TurnRecord /\ turn[w].request \in Request
      /\ turn[w].fingerprint \in Fingerprint
      /\ turn[w].callers = {turn[w].fingerprint}
  BY <1>0, Context DEF TurnOK
<1>3. /\ t \in TurnRecord /\ t.phase = "replying" /\ t.verdict = v /\ t.request = q
      /\ t.fingerprint = turn[w].fingerprint /\ t.callers = turn[w].callers
  BY <1>2, EndingShape DEF Answering, Phase
<1>4. /\ UNCHANGED <<admission, run, effects, told>>
      /\ poisoned' \in BOOLEAN /\ hostAbort' \in BOOLEAN
  BY DEF AdmitExisting, journal, Observed, Inv, TypeOK, JournalTypeOK
<1> HIDE DEF t
<1>5. TurnOK(t, admission[t.request], run[t.request], effects[t.request])
  BY <1>1, <1>2, <1>3 DEF TurnOK, Executing
<1> QED BY <1>0, <1>1, <1>3, <1>4, <1>5, TurnMoves DEF t

\* The expiry of an admission answers "uncertain".
LEMMA AdmitStalePreserves ==
  ASSUME Inv, NEW w \in Worker, AdmitStale(w)
  PROVE  Inv'
<1> DEFINE q == turn[w].request
           done == Answering(turn[w], "uncertain")
           lost == Answering(turn[w], "rejected")
<1>0. ~At(w, "idle") /\ Write(w, StaleWrite(q), Aborted(w), done, lost)
  BY DEF AdmitStale, At
<1>1. q \in Request /\ poisoned \in BOOLEAN /\ hostAbort \in BOOLEAN
  BY <1>0, Context DEF Inv, TypeOK, JournalTypeOK
<1>2. {"uncertain", "rejected"} \subseteq Answer \ Claim
  BY DEF Answer, Claim, Terminal, UserVisible
<1>3. \A t \in {done, lost} :
        /\ t \in TurnRecord /\ t.phase # "idle" /\ t.request = q
        /\ \A a, r, n : TurnOK(t, a, r, n)
  BY <1>0, <1>2, NoClaimOK
<1> HIDE DEF done, lost
<1>4. PICK t \in {done, lost} :
        /\ UNCHANGED <<hostAbort, effects, told>> /\ poisoned' \in BOOLEAN
        /\ StaleWrite(q) \/ UNCHANGED <<admission, run>>
        /\ turn' = [turn EXCEPT ![w] = t]
  BY <1>0, <1>1, WriteOutcomes
<1>5. CASE StaleWrite(q)
  <2>1. Touches(q) /\ RequestOK(admission'[q], run'[q], effects'[q], told'[q])
    BY <1>1, <1>4, <1>5, StaleWriteOK
  <2> QED BY <1>0, <1>1, <1>3, <1>4, <2>1, TurnAndRequestMove
<1>6. CASE UNCHANGED <<admission, run>>
  BY <1>0, <1>1, <1>3, <1>4, <1>6, TurnMoves
<1> QED BY <1>4, <1>5, <1>6

-----------------------------------------------------------------------------
(* The two journal writes of a turn under way *)

\* A turn may become u over a run whose attempt n has just been recorded as s.
AfterEvidence(u, q, n, s) ==
  /\ u \in TurnRecord
  /\ u.phase # "idle"
  /\ u.request = q
  /\ \A r : r.status = "running" /\ Len(r.attempts) = n /\ r.attempts[n] = s
          => TurnOK(u, admission[q], r, effects[q])

\* A step that records evidence of the current attempt.
LEMMA EvidenceStep ==
  ASSUME Inv, NEW w \in Worker, ~At(w, "idle"), NEW s \in AttemptStatus,
         NEW q \in Request, q = turn[w].request,
         NEW n \in Nat \ {0}, Len(run[q].attempts) \in {n - 1, n},
         NEW STATE barred, NEW STATE done, NEW STATE lost,
         Write(w, AttemptWrite(q, n, s), barred, done, lost),
         AfterEvidence(done, q, n, s),
         AfterEvidence(lost, q, n, s),
         TurnOK(lost, admission[q], run[q], effects[q])
  PROVE  Inv'
<1>1. poisoned \in BOOLEAN /\ hostAbort \in BOOLEAN
  BY DEF Inv, TypeOK, JournalTypeOK
<1>2. /\ UNCHANGED <<hostAbort, effects, told>> /\ poisoned' \in BOOLEAN
      /\ \/ AttemptWrite(q, n, s) /\ turn' = [turn EXCEPT ![w] = done]
         \/ /\ AttemptWrite(q, n, s) \/ UNCHANGED <<admission, run>>
            /\ turn' = [turn EXCEPT ![w] = lost]
  BY <1>1, WriteOutcomes
<1>3. CASE AttemptWrite(q, n, s)
  <2>1. /\ Touches(q)
        /\ RequestOK(admission'[q], run'[q], effects'[q], told'[q])
        /\ admission'[q] = admission[q]
        /\ run'[q].status = "running"
        /\ Len(run'[q].attempts) = n
        /\ run'[q].attempts[n] = s
    BY <1>2, <1>3, AttemptWriteOK
  <2>2. PICK t \in {done, lost} : turn' = [turn EXCEPT ![w] = t]
    BY <1>2
  <2>3. /\ t \in TurnRecord /\ t.phase # "idle" /\ t.request = q
        /\ TurnOK(t, admission'[q], run'[q], effects'[q])
    BY <1>2, <2>1, <2>2 DEF AfterEvidence
  <2> QED BY <1>1, <1>2, <2>1, <2>2, <2>3, TurnAndRequestMove
<1>4. CASE UNCHANGED <<admission, run>> /\ turn' = [turn EXCEPT ![w] = lost]
  BY <1>1, <1>2, <1>4, TurnMoves DEF AfterEvidence
<1> QED BY <1>2, <1>3, <1>4

\* A turn may become u over a run that has just been settled as s.
AfterSettlement(u, q, s) ==
  /\ u \in TurnRecord
  /\ u.phase # "idle"
  /\ u.request = q
  /\ \A a, r : a.fingerprint = admission[q].fingerprint /\ r.status = s
             => TurnOK(u, a, r, effects[q])

\* What a settlement as s asserts about the attempts of q.
MaySettle(q, s) ==
  /\ s = "failed" => effects[q] = 0
  /\ s \in {"completed", "max-turns"} =>
       /\ run[q].attempts # <<>>
       /\ run[q].attempts[Len(run[q].attempts)] = "completed"

\* A step that settles the run of the turn.
LEMMA SettlementWriteStep ==
  ASSUME Inv, NEW w \in Worker, ~At(w, "idle"), NEW s \in Terminal,
         NEW q \in Request, q = turn[w].request,
         MaySettle(q, s),
         NEW STATE barred, NEW STATE done, NEW STATE lost,
         Write(w, SettleWrite(q, s), barred, done, lost),
         AfterSettlement(done, q, s),
         AfterSettlement(lost, q, s),
         TurnOK(lost, admission[q], run[q], effects[q])
  PROVE  Inv'
<1>1. poisoned \in BOOLEAN /\ hostAbort \in BOOLEAN
  BY DEF Inv, TypeOK, JournalTypeOK
<1>2. /\ UNCHANGED <<hostAbort, effects, told>> /\ poisoned' \in BOOLEAN
      /\ \/ SettleWrite(q, s) /\ turn' = [turn EXCEPT ![w] = done]
         \/ /\ SettleWrite(q, s) \/ UNCHANGED <<admission, run>>
            /\ turn' = [turn EXCEPT ![w] = lost]
  BY <1>1, WriteOutcomes
<1>3. CASE SettleWrite(q, s)
  <2>1. /\ Touches(q)
        /\ RequestOK(admission'[q], run'[q], effects'[q], told'[q])
        /\ run'[q].status = s
        /\ admission'[q].fingerprint = admission[q].fingerprint
    BY <1>2, <1>3, SettleWriteOK DEF MaySettle
  <2>2. PICK t \in {done, lost} : turn' = [turn EXCEPT ![w] = t]
    BY <1>2
  <2>3. /\ t \in TurnRecord /\ t.phase # "idle" /\ t.request = q
        /\ TurnOK(t, admission'[q], run'[q], effects'[q])
    BY <1>2, <2>1, <2>2 DEF AfterSettlement
  <2> QED BY <1>1, <1>2, <2>1, <2>2, <2>3, TurnAndRequestMove
<1>4. CASE UNCHANGED <<admission, run>> /\ turn' = [turn EXCEPT ![w] = lost]
  BY <1>1, <1>2, <1>4, TurnMoves DEF AfterSettlement
<1> QED BY <1>2, <1>3, <1>4

-----------------------------------------------------------------------------
(* Attempts *)

\* A turn in the route loop owns a running run whose effects are accounted for.
LEMMA AttemptContext ==
  ASSUME Inv, NEW w \in Worker, turn[w].phase \in Executing
  PROVE  LET t == turn[w]
             q == t.request
         IN /\ ~At(w, "idle")
            /\ t \in TurnRecord /\ q \in Request
            /\ InAttempt(t, admission[q], run[q], effects[q])
            /\ TurnOK(t, admission[q], run[q], effects[q])
            /\ EvidenceOK(t, run[q].attempts)
            /\ effects[q] \in Nat
            /\ hostAbort \in BOOLEAN
            /\ t.route \in Nat /\ t.unsure \in BOOLEAN
            /\ t.acted \in {"no", "unseen", "seen"}
<1>1. ~At(w, "idle")
  BY DEF At, Executing
<1>2. turn[w] \in TurnRecord
  BY <1>1, Context
<1>3. /\ turn[w].route \in Nat /\ turn[w].unsure \in BOOLEAN
      /\ turn[w].acted \in {"no", "unseen", "seen"}
  BY <1>2 DEF TurnRecord
<1>4. InAttempt(turn[w], admission[turn[w].request], run[turn[w].request],
                effects[turn[w].request])
  BY <1>1, Context DEF TurnOK, InAttempt, Admitted, EvidenceOK
<1>5. EvidenceOK(turn[w], run[turn[w].request].attempts)
  BY <1>1, Context DEF TurnOK
<1> QED BY <1>1, <1>2, <1>3, <1>4, <1>5, Context DEF Inv, TypeOK

\* Anything that throws between attempts ends the turn before it acted.
LEMMA RoutingThrowsPreserves ==
  ASSUME Inv, NEW w \in Worker, RoutingThrows(w) \/ LoopEnds(w)
  PROVE  Inv'
<1> DEFINE t == turn[w]
           q == t.request
<1>0. t.phase = "routing" /\ t.phase \in Executing
  BY DEF RoutingThrows, LoopEnds, At, Executing
<1>1. t.acted = "no" /\ effects[q] = 0
  BY <1>0, AttemptContext DEF TurnOK
<1>2. PICK kind \in {"failed", "uncertain", "abort", "plain"} :
        turn' = [turn EXCEPT ![w] = Caught(t, kind)]
  BY DEF RoutingThrows, LoopEnds, RoutesExhausted, Goto
<1>3. /\ UNCHANGED <<admission, run, effects, told>>
      /\ poisoned' \in BOOLEAN /\ hostAbort' \in BOOLEAN
  BY DEF RoutingThrows, LoopEnds, journal, Observed, Inv, TypeOK, JournalTypeOK
<1>4. /\ Caught(t, kind) \in TurnRecord
      /\ Caught(t, kind).phase # "idle"
      /\ Caught(t, kind).request = q
      /\ TurnOK(Caught(t, kind), admission[q], run[q], effects[q])
  BY <1>0, <1>1, AttemptContext, CaughtOK DEF InAttempt
<1> QED BY <1>0, <1>2, <1>3, <1>4, AttemptContext, TurnMoves

\* An ineligible route is recorded and skipped.
LEMMA RejectRoutePreserves ==
  ASSUME Inv, NEW w \in Worker, RejectRoute(w)
  PROVE  Inv'
<1> DEFINE t == turn[w]
           q == t.request
           done == NextAttempt(t, t.route + 1)
           lost == Caught(t, "plain")
<1>0. t.phase = "routing" /\ t.phase \in Executing
  BY DEF RejectRoute, At, Executing
<1>1. /\ t.acted = "no" /\ effects[q] = 0
      /\ t.attempt \in Nat \ {0} /\ Len(run[q].attempts) = t.attempt - 1
      /\ t \in TurnRecord /\ q \in Request /\ t.route + 1 \in Nat
      /\ hostAbort \in BOOLEAN /\ ~At(w, "idle")
  BY <1>0, AttemptContext DEF TurnOK, EvidenceOK
<1>2. \A r : r.status = "running" => InAttempt(t, admission[q], r, 0)
  BY <1>0, <1>1, AttemptContext DEF InAttempt
<1>3. \A r : /\ lost \in TurnRecord /\ lost.phase # "idle" /\ lost.request = q
             /\ TurnOK(lost, admission[q], r, 0)
  BY <1>0, <1>1, AttemptContext, CaughtOK DEF InAttempt
<1>4. \A r : r.status = "running" /\ Len(r.attempts) = t.attempt =>
        /\ done \in TurnRecord /\ done.phase # "idle" /\ done.request = q
        /\ TurnOK(done, admission[q], r, 0)
  BY <1>1, <1>2, NextAttemptOK
<1>5. done \in TurnRecord /\ done.phase # "idle" /\ done.request = q
  <2>1. LET r == [status |-> "running", attempts |-> [i \in 1..t.attempt |-> "started"]]
        IN r.status = "running" /\ Len(r.attempts) = t.attempt
    BY <1>1
  <2> QED BY <2>1, <1>4
<1>6. Write(w, AttemptWrite(q, t.attempt, "ineligible"), Aborted(w), done, lost)
  BY DEF RejectRoute
<1> HIDE DEF done, lost
<1>7. AfterEvidence(done, q, t.attempt, "ineligible")
  BY <1>1, <1>4, <1>5 DEF AfterEvidence
<1>8. AfterEvidence(lost, q, t.attempt, "ineligible")
  BY <1>1, <1>3 DEF AfterEvidence
<1>9. TurnOK(lost, admission[q], run[q], effects[q])
  BY <1>1, <1>3
<1>10. Len(run[q].attempts) \in {t.attempt - 1, t.attempt}
  BY <1>1
<1> QED BY <1>1, <1>6, <1>7, <1>8, <1>9, <1>10, EvidenceStep DEF AttemptStatus

\* The "started" evidence precedes the dispatch; without it the attempt fails.
LEMMA StartAttemptPreserves ==
  ASSUME Inv, NEW w \in Worker, StartAttempt(w)
  PROVE  Inv'
<1> DEFINE t == turn[w]
           q == t.request
           done == [t EXCEPT !.phase = "preparing"]
           lost == Threw(t, Untyped, FALSE)
<1>0. t.phase = "routing" /\ t.phase \in Executing
  BY DEF StartAttempt, At, Executing
<1>1. /\ t.acted = "no" /\ effects[q] = 0
      /\ t.attempt \in Nat \ {0} /\ Len(run[q].attempts) = t.attempt - 1
      /\ t \in TurnRecord /\ q \in Request
      /\ hostAbort \in BOOLEAN /\ ~At(w, "idle") /\ run[q].status = "running"
      /\ Admitted(t, admission[q])
  BY <1>0, AttemptContext DEF TurnOK, EvidenceOK, InAttempt
<1>2. Untyped \in Error /\ FALSE \in BOOLEAN
  BY DEF Untyped, Error
<1>3. ASSUME NEW r, r.status = "running",
             \/ Len(r.attempts) = t.attempt - 1
             \/ Len(r.attempts) = t.attempt /\ r.attempts[t.attempt] = "started"
      PROVE  /\ lost \in TurnRecord /\ lost.phase # "idle" /\ lost.request = q
             /\ TurnOK(lost, admission[q], r, effects[q])
  <2>1. InAttempt(t, admission[q], r, effects[q]) /\ effects[q] \in Nat
    BY <1>1, <1>3 DEF InAttempt
  <2>2. t.acted = "unseen" => ~Untyped.none
    BY <1>1
  <2> HIDE DEF t, q
  <2>3. PICK e \in Error, d \in BOOLEAN : e = Untyped /\ d = FALSE
    BY <1>2
  <2>4. /\ Threw(t, e, d) \in TurnRecord /\ Threw(t, e, d).phase # "idle"
        /\ Threw(t, e, d).request = t.request
        /\ TurnOK(Threw(t, e, d), admission[q], r, effects[q])
    BY <1>1, <1>3, <2>1, <2>2, <2>3, ThrewOK
  <2> QED BY <2>3, <2>4 DEF q
<1>4. AfterEvidence(done, q, t.attempt, "started")
  <2>1. /\ done \in TurnRecord /\ done.phase = "preparing" /\ done.request = q
        /\ done.fingerprint = t.fingerprint /\ done.callers = t.callers
        /\ done.acted = t.acted /\ done.attempt = t.attempt
    BY <1>1 DEF TurnRecord, Phase, Executing
  <2> HIDE DEF done
  <2>2. ASSUME NEW r, r.status = "running", Len(r.attempts) = t.attempt,
               r.attempts[t.attempt] = "started"
        PROVE  TurnOK(done, admission[q], r, effects[q])
    <3>1. EvidenceOK(done, r.attempts)
      BY <1>1, <2>1, <2>2 DEF EvidenceOK
    <3> QED BY <1>1, <2>1, <2>2, <3>1 DEF TurnOK, Admitted, Executing
  <2> QED BY <2>1, <2>2 DEF AfterEvidence
<1>5. TurnOK(lost, admission[q], run[q], effects[q])
      /\ lost \in TurnRecord /\ lost.phase # "idle" /\ lost.request = q
  BY <1>1, <1>3
<1>6. AfterEvidence(lost, q, t.attempt, "started")
  BY <1>3, <1>5 DEF AfterEvidence
<1>7. Write(w, AttemptWrite(q, t.attempt, "started"), Aborted(w), done, lost)
  BY DEF StartAttempt
<1>8. Len(run[q].attempts) \in {t.attempt - 1, t.attempt}
  BY <1>1
<1> HIDE DEF done, lost
<1> QED BY <1>1, <1>4, <1>5, <1>6, <1>7, <1>8, EvidenceStep DEF AttemptStatus

\* A step of the attempt that leaves the journal and the effects alone.
LEMMA QuietStep ==
  ASSUME Inv, NEW w \in Worker, ~At(w, "idle"), NEW t \in TurnRecord,
         turn' = [turn EXCEPT ![w] = t], UNCHANGED <<journal, Observed>>,
         t.phase # "idle", t.request = turn[w].request,
         TurnOK(t, admission[t.request], run[t.request], effects[t.request])
  PROVE  Inv'
  BY TurnMoves DEF journal, Observed, Inv, TypeOK, JournalTypeOK

\* An error before or during the dispatch goes through the attempt's catch.
LEMMA ThrowsPreserves ==
  ASSUME Inv, NEW w \in Worker,
         PrepareThrows(w) \/ \E e \in Error : RuntimeThrows(w, e)
  PROVE  Inv'
<1> DEFINE t == turn[w]
           q == t.request
<1>0. t.phase \in {"preparing", "running"} /\ t.phase \in Executing
  BY DEF PrepareThrows, RuntimeThrows, At, Executing
<1>1. Untyped \in Error /\ ~Untyped.none
  BY DEF Untyped, Error
<1>2. PICK e \in Error, dispatched \in BOOLEAN :
        /\ turn' = [turn EXCEPT ![w] = Threw(t, e, dispatched)]
        /\ t.acted = "unseen" => ~e.none
  BY <1>1 DEF PrepareThrows, RuntimeThrows, Goto
<1>3. UNCHANGED <<journal, Observed>>
  BY DEF PrepareThrows, RuntimeThrows
<1>4. Len(run[q].attempts) = t.attempt /\ run[q].attempts[t.attempt] = "started"
  BY <1>0, AttemptContext DEF EvidenceOK
<1>5. /\ Threw(t, e, dispatched) \in TurnRecord
      /\ Threw(t, e, dispatched).phase # "idle"
      /\ Threw(t, e, dispatched).request = q
      /\ TurnOK(Threw(t, e, dispatched), admission[q], run[q], effects[q])
  BY <1>0, <1>2, <1>4, AttemptContext, ThrewOK
<1> QED BY <1>0, <1>2, <1>3, <1>5, AttemptContext, QuietStep

\* Dispatching a prepared attempt and receiving its result change only the phase.
LEMMA DispatchAndReturnPreserve ==
  ASSUME Inv, NEW w \in Worker, Dispatch(w) \/ RuntimeReturns(w)
  PROVE  Inv'
<1> DEFINE t == turn[w]
           q == t.request
<1>0. t.phase \in {"preparing", "running"} /\ t.phase \in Executing
  BY DEF Dispatch, RuntimeReturns, At, Executing
<1>1. PICK phase \in {"running", "returned"} :
        turn' = [turn EXCEPT ![w] = [t EXCEPT !.phase = phase]]
  BY DEF Dispatch, RuntimeReturns, Goto
<1> DEFINE u == [t EXCEPT !.phase = phase]
<1>2. t \in TurnRecord
  BY <1>0, AttemptContext
<1>3. /\ u \in TurnRecord /\ u.phase = phase /\ u.request = q
      /\ u.fingerprint = t.fingerprint /\ u.callers = t.callers
      /\ u.acted = t.acted /\ u.attempt = t.attempt
  BY <1>2 DEF TurnRecord, Phase, Executing
<1>4. UNCHANGED <<journal, Observed>>
  BY DEF Dispatch, RuntimeReturns
<1> HIDE DEF u
<1>5. TurnOK(u, admission[q], run[q], effects[q])
  BY <1>0, <1>3, AttemptContext DEF TurnOK, EvidenceOK, Executing
<1> QED BY <1>0, <1>1, <1>3, <1>4, <1>5, AttemptContext, QuietStep DEF u

\* Only a running attempt acts, and only its first act counts.
LEMMA ActPreserves ==
  ASSUME Inv, NEW w \in Worker, NEW how \in {"unseen", "seen"}, Act(w, how)
  PROVE  Inv'
<1> DEFINE t == turn[w]
           q == t.request
           u == [t EXCEPT !.acted = how]
<1>0. t.phase = "running" /\ t.phase \in Executing
  BY DEF Act, At, Executing
<1>1. /\ t \in TurnRecord /\ q \in Request /\ ~At(w, "idle")
      /\ run[q].status = "running" /\ effects[q] \in Nat
      /\ effects[q] = IF t.acted = "no" THEN 0 ELSE 1
      /\ EvidenceOK(t, run[q].attempts) /\ Admitted(t, admission[q])
      /\ hostAbort \in BOOLEAN
  BY <1>0, AttemptContext DEF InAttempt
<1>2. /\ u \in TurnRecord /\ u.phase = "running" /\ u.request = q
      /\ u.fingerprint = t.fingerprint /\ u.callers = t.callers
      /\ u.acted = how /\ u.attempt = t.attempt
  BY <1>0, <1>1 DEF TurnRecord
<1>3. /\ UNCHANGED <<admission, run, poisoned, hostAbort, told>>
      /\ turn' = [turn EXCEPT ![w] = u]
      /\ effects' = [effects EXCEPT ![q] = IF t.acted = "no" THEN @ + 1 ELSE @]
  BY DEF Act, Goto, journal
<1>4. effects'[q] = 1 /\ effects' \in [Request -> Nat]
      /\ \A p \in Request \ {q} : effects'[p] = effects[p]
  BY <1>1, <1>3 DEF Inv, TypeOK
<1>5. Touches(q)
  BY <1>3, <1>4 DEF Inv, TypeOK, JournalTypeOK, Touches
<1>6. RequestOK(admission[q], run[q], effects[q], told[q])
  BY <1>1 DEF Inv, RequestsOK
<1>7. run[q].attempts # <<>>
  BY <1>0, <1>1 DEF EvidenceOK
<1>8. RequestOK(admission'[q], run'[q], effects'[q], told'[q])
  <2> DEFINE a == admission[q]
             r == run[q]
             c == told[q]
  <2>1. admission'[q] = a /\ run'[q] = r /\ told'[q] = c
    BY <1>3
  <2>2. RequestOK(a, r, effects[q], c) /\ r.status = "running" /\ r.attempts # <<>>
    BY <1>1, <1>6, <1>7
  <2> HIDE DEF a, r, c
  <2>3. RequestOK(a, r, 1, c)
    BY <2>2 DEF RequestOK
  <2> QED BY <1>4, <2>1, <2>3
<1> HIDE DEF u
<1>9. TurnOK(u, admission'[q], run'[q], effects'[q])
  <2>1. EvidenceOK(u, run'[q].attempts)
    BY <1>0, <1>1, <1>2, <1>3 DEF EvidenceOK
  <2> QED BY <1>1, <1>2, <1>3, <1>4, <2>1 DEF TurnOK, Executing, Admitted
<1> QED BY <1>1, <1>2, <1>3, <1>5, <1>8, <1>9, TurnAndRequestMove

\* Terminal evidence of a failed attempt decides what comes next.
LEMMA RecordFailedPreserves ==
  ASSUME Inv, NEW w \in Worker, RecordFailed(w)
  PROVE  Inv'
<1> DEFINE t == turn[w]
           q == t.request
           kind == IF t.unsure THEN "uncertain" ELSE "plain"
           done == AfterFailure(t)
           lost == Caught(t, kind)
<1>0. t.phase = "failing" /\ t.phase \in Executing
  BY DEF RecordFailed, At, Executing
<1>1. /\ t \in TurnRecord /\ q \in Request /\ ~At(w, "idle")
      /\ hostAbort \in BOOLEAN /\ effects[q] \in Nat
      /\ InAttempt(t, admission[q], run[q], effects[q])
      /\ t.attempt \in Nat \ {0}
      /\ t.acted # "no" => t.unsure /\ (t.acted = "unseen" => ~t.error.none)
      /\ Len(run[q].attempts) \in {t.attempt - 1, t.attempt}
  BY <1>0, AttemptContext DEF TurnOK, EvidenceOK
<1>2. kind \in {"uncertain", "plain"} /\ (kind = "plain" => effects[q] = 0)
  BY <1>1 DEF InAttempt
<1>3. \A r : /\ lost \in TurnRecord /\ lost.phase # "idle" /\ lost.request = q
             /\ TurnOK(lost, admission[q], r, effects[q])
  BY <1>1, <1>2, CaughtOK DEF InAttempt
<1>4. ASSUME NEW r, r.status = "running", Len(r.attempts) = t.attempt
      PROVE  /\ done \in TurnRecord /\ done.phase # "idle" /\ done.request = q
             /\ TurnOK(done, admission[q], r, effects[q])
  <2>1. InAttempt(t, admission[q], r, effects[q])
    BY <1>1, <1>4 DEF InAttempt
  <2> QED BY <1>1, <1>4, <2>1, AfterFailureOK
<1>5. done \in TurnRecord /\ done.phase # "idle" /\ done.request = q
  <2>1. LET r == [status |-> "running", attempts |-> [i \in 1..t.attempt |-> "failed"]]
        IN r.status = "running" /\ Len(r.attempts) = t.attempt
    BY <1>1
  <2> QED BY <2>1, <1>4
<1>6. Write(w, AttemptWrite(q, t.attempt, "failed"), Aborted(w), done, lost)
  BY DEF RecordFailed
<1> HIDE DEF done, lost
<1>7. AfterEvidence(done, q, t.attempt, "failed")
  BY <1>4, <1>5 DEF AfterEvidence
<1>8. AfterEvidence(lost, q, t.attempt, "failed")
  BY <1>3 DEF AfterEvidence
<1>9. TurnOK(lost, admission[q], run[q], effects[q])
  BY <1>3
<1> QED BY <1>1, <1>6, <1>7, <1>8, <1>9, EvidenceStep DEF AttemptStatus

\* The retry without a session starts like any other attempt.
LEMMA RecoverSessionPreserves ==
  ASSUME Inv, NEW w \in Worker, RecoverSession(w)
  PROVE  Inv'
<1> DEFINE t == turn[w]
           q == t.request
           u == [t EXCEPT !.recovered = @ \cup {t.route}]
<1>0. t.phase = "evicting" /\ t.phase \in Executing
  BY DEF RecoverSession, At, Executing
<1>1. /\ t \in TurnRecord /\ q \in Request /\ ~At(w, "idle") /\ t.route \in Nat
      /\ hostAbort \in BOOLEAN /\ effects[q] = 0
      /\ InAttempt(t, admission[q], run[q], effects[q])
      /\ t.acted = "no"
      /\ Len(run[q].attempts) = t.attempt
  BY <1>0, AttemptContext DEF TurnOK, EvidenceOK, InAttempt
<1>2. UNCHANGED <<journal, Observed>>
  BY DEF RecoverSession
<1>3. CASE turn' = [turn EXCEPT ![w] = Caught(t, "plain")]
  <2>1. /\ Caught(t, "plain") \in TurnRecord
        /\ Caught(t, "plain").phase # "idle"
        /\ Caught(t, "plain").request = q
        /\ TurnOK(Caught(t, "plain"), admission[q], run[q], effects[q])
    BY <1>1, CaughtOK DEF InAttempt
  <2> QED BY <1>1, <1>2, <1>3, <2>1, QuietStep
<1>4. CASE turn' = [turn EXCEPT ![w] = NextAttempt(u, t.route)]
  <2>1. /\ u \in TurnRecord /\ u.request = q /\ u.attempt = t.attempt
        /\ u.fingerprint = t.fingerprint /\ u.callers = t.callers /\ u.acted = "no"
    BY <1>1 DEF TurnRecord
  <2> HIDE DEF u
  <2>2. InAttempt(u, admission[q], run[q], 0) /\ Len(run[q].attempts) = u.attempt
    BY <1>1, <2>1 DEF InAttempt, Admitted
  <2>3. /\ NextAttempt(u, t.route) \in TurnRecord
        /\ NextAttempt(u, t.route).phase # "idle"
        /\ NextAttempt(u, t.route).request = q
        /\ TurnOK(NextAttempt(u, t.route), admission[q], run[q], effects[q])
    BY <1>1, <2>1, <2>2, NextAttemptOK
  <2> QED BY <1>1, <1>2, <1>4, <2>3, QuietStep
<1> QED BY <1>3, <1>4 DEF RecoverSession, Goto

-----------------------------------------------------------------------------
(* Settlement *)

\* A result that cannot be accepted leaves the turn uncertain.
LEMMA ResultRejectedPreserves ==
  ASSUME Inv, NEW w \in Worker, ResultRejected(w)
  PROVE  Inv'
<1> DEFINE t == turn[w]
           lost == Caught(t, "uncertain")
<1>0. t.phase = "returned" /\ t.phase \in Executing
  BY DEF ResultRejected, At, Executing
<1>1. /\ lost \in TurnRecord /\ lost.phase # "idle" /\ lost.request = t.request
      /\ TurnOK(lost, admission[t.request], run[t.request], effects[t.request])
  BY <1>0, AttemptContext, CaughtOK DEF InAttempt
<1>2. UNCHANGED <<journal, Observed>> /\ turn' = [turn EXCEPT ![w] = lost]
  BY DEF ResultRejected, Goto
<1> HIDE DEF lost
<1> QED BY <1>0, <1>1, <1>2, AttemptContext, QuietStep

\* "completed" replaces the "started" evidence of the attempt that returned.
LEMMA RecordCompletedPreserves ==
  ASSUME Inv, NEW w \in Worker, RecordCompleted(w)
  PROVE  Inv'
<1> DEFINE t == turn[w]
           q == t.request
           done == [t EXCEPT !.phase = "recorded"]
           lost == Caught(t, "uncertain")
<1>0. t.phase = "returned" /\ t.phase \in Executing
  BY DEF RecordCompleted, At, Executing
<1>1. /\ t \in TurnRecord /\ q \in Request /\ ~At(w, "idle")
      /\ hostAbort \in BOOLEAN /\ effects[q] \in Nat
      /\ InAttempt(t, admission[q], run[q], effects[q])
      /\ t.attempt \in Nat \ {0}
      /\ Len(run[q].attempts) \in {t.attempt - 1, t.attempt}
  BY <1>0, AttemptContext DEF EvidenceOK
<1>2. \A r : /\ lost \in TurnRecord /\ lost.phase # "idle" /\ lost.request = q
             /\ TurnOK(lost, admission[q], r, effects[q])
  BY <1>1, CaughtOK DEF InAttempt
<1>3. /\ done \in TurnRecord /\ done.phase = "recorded" /\ done.request = q
      /\ done.fingerprint = t.fingerprint /\ done.callers = t.callers
      /\ done.acted = t.acted /\ done.attempt = t.attempt
  BY <1>1 DEF TurnRecord, Phase, Executing
<1>4. Write(w, AttemptWrite(q, t.attempt, "completed"), hostAbort, done, lost)
  BY DEF RecordCompleted
<1> HIDE DEF done, lost
<1>5. ASSUME NEW r, r.status = "running", Len(r.attempts) = t.attempt,
             r.attempts[t.attempt] = "completed"
      PROVE  TurnOK(done, admission[q], r, effects[q])
  <2>1. EvidenceOK(done, r.attempts)
    BY <1>1, <1>3, <1>5 DEF EvidenceOK
  <2> QED BY <1>1, <1>3, <1>5, <2>1 DEF TurnOK, InAttempt, Admitted, Executing
<1>6. AfterEvidence(done, q, t.attempt, "completed")
  BY <1>3, <1>5 DEF AfterEvidence
<1>7. AfterEvidence(lost, q, t.attempt, "completed")
  BY <1>2 DEF AfterEvidence
<1>8. TurnOK(lost, admission[q], run[q], effects[q])
  BY <1>2
<1> QED BY <1>1, <1>4, <1>6, <1>7, <1>8, EvidenceStep DEF AttemptStatus

\* A result is settled over the completed evidence of its attempt.
LEMMA SettleResultPreserves ==
  ASSUME Inv, NEW w \in Worker, NEW s \in UserVisible, SettleResult(w, s)
  PROVE  Inv'
<1> DEFINE t == turn[w]
           q == t.request
           done == Ending(t, "settled", s)
           lost == Caught(t, "uncertain")
<1>0. t.phase = "recorded" /\ t.phase \in Executing
  BY DEF SettleResult, At, Executing
<1>1. /\ t \in TurnRecord /\ q \in Request /\ ~At(w, "idle")
      /\ hostAbort \in BOOLEAN /\ effects[q] \in Nat
      /\ InAttempt(t, admission[q], run[q], effects[q])
      /\ t.attempt \in Nat \ {0}
      /\ Len(run[q].attempts) = t.attempt
      /\ run[q].attempts[t.attempt] = "completed"
  BY <1>0, AttemptContext DEF EvidenceOK
<1>2. ASSUME NEW a, NEW r, a.fingerprint = admission[q].fingerprint
      PROVE  /\ lost \in TurnRecord /\ lost.phase # "idle" /\ lost.request = q
             /\ TurnOK(lost, a, r, effects[q])
  <2>1. Admitted(t, a)
    BY <1>1, <1>2 DEF InAttempt, Admitted
  <2> QED BY <1>1, <2>1, CaughtOK
<1>3. /\ done \in TurnRecord /\ done.phase = "settled" /\ done.verdict = s
      /\ done.request = q /\ done.fingerprint = t.fingerprint
      /\ done.callers = t.callers
  BY <1>1, EndingShape DEF Phase, Answer, Terminal
<1>4. Write(w, SettleWrite(q, s), hostAbort, done, lost)
  BY DEF SettleResult
<1>5. MaySettle(q, s) /\ s \in Terminal
  <2>1. run[q].attempts # <<>>
    BY <1>1
  <2> QED BY <1>1, <2>1 DEF MaySettle, Terminal, UserVisible
<1> HIDE DEF done, lost
<1>6. AfterSettlement(done, q, s)
  BY <1>1, <1>3 DEF AfterSettlement, TurnOK, InAttempt, Admitted, Executing
<1>7. AfterSettlement(lost, q, s)
  BY <1>2 DEF AfterSettlement
<1>8. TurnOK(lost, admission[q], run[q], effects[q])
  BY <1>2
<1> QED BY <1>1, <1>4, <1>5, <1>6, <1>7, <1>8, SettlementWriteStep

\* A turn that claims nothing yet, ended by a settlement that may have failed.
LEMMA UnclaimedOK ==
  ASSUME NEW t \in TurnRecord, t.request \in Request, t.fingerprint \in Fingerprint,
         t.callers = {t.fingerprint}, NEW phase \in {"classified", "replying"}
  PROVE  LET u == Ending(t, phase, "uncertain") IN
         /\ u \in TurnRecord /\ u.phase # "idle" /\ u.request = t.request
         /\ \A a, r, n : a.fingerprint = t.fingerprint => TurnOK(u, a, r, n)
<1> DEFINE u == Ending(t, phase, "uncertain")
<1>1. /\ u \in TurnRecord /\ u.phase = phase /\ u.verdict = "uncertain"
      /\ u.request = t.request /\ u.fingerprint = t.fingerprint
      /\ u.callers = t.callers
  BY EndingShape DEF Phase, Answer, Terminal
<1> HIDE DEF u
<1>2. \A a, r, n : a.fingerprint = t.fingerprint => TurnOK(u, a, r, n)
  BY <1>1 DEF TurnOK, Executing, Claim
<1> QED BY <1>1, <1>2 DEF u

\* What is known of a turn that is being withdrawn or classified.
LEMMA EndingContext ==
  ASSUME Inv, NEW w \in Worker,
         turn[w].phase \in {"settled", "withdrawn", "classified", "cancelling"}
  PROVE  LET t == turn[w]
             q == t.request
         IN /\ ~At(w, "idle")
            /\ t \in TurnRecord /\ q \in Request
            /\ Admitted(t, admission[q])
            /\ TurnOK(t, admission[q], run[q], effects[q])
            /\ hostAbort \in BOOLEAN /\ effects[q] \in Nat
<1>1. ~At(w, "idle")
  BY DEF At
<1> QED BY <1>1, Context DEF TurnOK, Admitted, Inv, TypeOK

\* A cancellation is settled as cancelled, or classified uncertain.
LEMMA SettleCancelledPreserves ==
  ASSUME Inv, NEW w \in Worker, SettleCancelled(w)
  PROVE  Inv'
<1> DEFINE t == turn[w]
           q == t.request
           done == Ending(t, "withdrawn", "cancelled")
           lost == Ending(t, "classified", "uncertain")
<1>0. t.phase = "cancelling"
  BY DEF SettleCancelled, At
<1>1. /\ t \in TurnRecord /\ q \in Request /\ ~At(w, "idle")
      /\ Admitted(t, admission[q])
  BY <1>0, EndingContext
<1>2. /\ done \in TurnRecord /\ done.phase = "withdrawn"
      /\ done.verdict = "cancelled"
      /\ done.request = q /\ done.fingerprint = t.fingerprint
      /\ done.callers = t.callers
  <2>1. "withdrawn" \in Phase /\ "cancelled" \in Answer
    BY DEF Phase, Answer, Terminal, UserVisible
  <2> QED BY <1>1, <2>1, EndingShape
<1>3. Write(w, SettleWrite(q, "cancelled"), hostAbort, done, lost)
  BY DEF SettleCancelled, Classified
<1>4. MaySettle(q, "cancelled") /\ "cancelled" \in Terminal
  BY DEF MaySettle, Terminal, UserVisible
<1>5. /\ lost \in TurnRecord /\ lost.phase # "idle" /\ lost.request = q
      /\ \A a, r, n : a.fingerprint = t.fingerprint => TurnOK(lost, a, r, n)
  BY <1>1, UnclaimedOK DEF Admitted
<1> HIDE DEF done, lost
<1>6. AfterSettlement(done, q, "cancelled")
  BY <1>1, <1>2 DEF AfterSettlement, TurnOK, Admitted, Executing, UserVisible
<1>7. AfterSettlement(lost, q, "cancelled")
  BY <1>1, <1>5 DEF AfterSettlement, Admitted
<1>8. TurnOK(lost, admission[q], run[q], effects[q])
  BY <1>1, <1>5 DEF Admitted
<1> QED BY <1>1, <1>3, <1>4, <1>6, <1>7, <1>8, SettlementWriteStep

\* A classified error is answered as such only when its settlement is acknowledged.
LEMMA PersistVerdictPreserves ==
  ASSUME Inv, NEW w \in Worker, PersistVerdict(w)
  PROVE  Inv'
<1> DEFINE t == turn[w]
           q == t.request
           s == t.verdict
           done == Ending(t, "replying", s)
           lost == Ending(t, "replying", "uncertain")
<1>0. t.phase = "classified"
  BY DEF PersistVerdict, At
<1>1. /\ t \in TurnRecord /\ q \in Request /\ ~At(w, "idle")
      /\ Admitted(t, admission[q])
      /\ s \in {"failed", "uncertain"} /\ (s = "failed" => effects[q] = 0)
  BY <1>0, EndingContext DEF TurnOK
<1>2. /\ done \in TurnRecord /\ done.phase = "replying"
      /\ done.verdict = s
      /\ done.request = q /\ done.fingerprint = t.fingerprint
      /\ done.callers = t.callers
  BY <1>1, EndingShape DEF Phase, Answer, Terminal
<1>3. Write(w, SettleWrite(q, s), hostAbort, done, lost)
  BY DEF PersistVerdict, Answering
<1>4. MaySettle(q, s) /\ s \in Terminal
  BY <1>1 DEF MaySettle, Terminal, UserVisible
<1>5. /\ lost \in TurnRecord /\ lost.phase # "idle" /\ lost.request = q
      /\ \A a, r, n : a.fingerprint = t.fingerprint => TurnOK(lost, a, r, n)
  BY <1>1, UnclaimedOK DEF Admitted
<1> HIDE DEF done, lost, s
<1>6. AfterSettlement(done, q, s)
  BY <1>1, <1>2 DEF AfterSettlement, TurnOK, Admitted, Executing
<1>7. AfterSettlement(lost, q, s)
  BY <1>1, <1>5 DEF AfterSettlement, Admitted
<1>8. TurnOK(lost, admission[q], run[q], effects[q])
  BY <1>1, <1>5 DEF Admitted
<1> QED BY <1>1, <1>3, <1>4, <1>6, <1>7, <1>8, SettlementWriteStep

\* What follows a durable settlement answers it, or answers "uncertain".
LEMMA ConcludePreserves ==
  ASSUME Inv, NEW w \in Worker, Conclude(w)
  PROVE  Inv'
<1> DEFINE t == turn[w]
           q == t.request
<1>0. t.phase \in {"settled", "withdrawn"}
  BY DEF Conclude, At
<1>1. /\ t \in TurnRecord /\ q \in Request /\ ~At(w, "idle")
      /\ Admitted(t, admission[q]) /\ hostAbort \in BOOLEAN /\ effects[q] \in Nat
      /\ t.verdict \in UserVisible /\ run[q].status = t.verdict
  BY <1>0, EndingContext DEF TurnOK
<1>2. UNCHANGED <<journal, Observed>>
  BY DEF Conclude
<1>3. PICK u \in {Ending(t, "replying", t.verdict), Caught(t, "uncertain"),
                  Ending(t, "classified", "uncertain")} :
        turn' = [turn EXCEPT ![w] = u]
  BY DEF Conclude, Goto, Answering, Classified
<1>4. /\ u \in TurnRecord /\ u.phase # "idle" /\ u.request = q
      /\ TurnOK(u, admission[q], run[q], effects[q])
  <2>1. CASE u = Ending(t, "replying", t.verdict)
    <3>1. /\ u \in TurnRecord /\ u.phase = "replying" /\ u.verdict = t.verdict
          /\ u.request = q /\ u.fingerprint = t.fingerprint
          /\ u.callers = t.callers
      <4>1. "replying" \in Phase /\ t.verdict \in Answer
        BY <1>1 DEF Phase, Answer, Terminal
      <4> QED BY <1>1, <2>1, <4>1, EndingShape
    <3> QED BY <1>1, <3>1 DEF TurnOK, Admitted, Executing
  <2>2. CASE u = Caught(t, "uncertain")
    BY <1>1, <2>2, CaughtOK
  <2>3. CASE u = Ending(t, "classified", "uncertain")
    BY <1>1, <2>3, UnclaimedOK DEF Admitted
  <2> QED BY <1>3, <2>1, <2>2, <2>3
<1> QED BY <1>1, <1>2, <1>3, <1>4, QuietStep

\* An answer claims what the run of its request records, to its own input.
LEMMA ReplyPreserves ==
  ASSUME Inv, NEW w \in Worker, Reply(w)
  PROVE  Inv'
<1> DEFINE t == turn[w]
           q == t.request
           c == IF t.verdict \in Claim THEN told[q] \cup (t.callers \X {t.verdict})
                                       ELSE told[q]
<1>0. t.phase = "replying" /\ ~At(w, "idle")
  BY DEF Reply, At
<1>1. /\ t \in TurnRecord /\ q \in Request
      /\ t.callers = {t.fingerprint} /\ t.fingerprint \in Fingerprint
      /\ t.verdict \in Claim =>
           admission[q].fingerprint = t.fingerprint /\ run[q].status = t.verdict
      /\ RequestOK(admission[q], run[q], effects[q], told[q])
      /\ \A v \in Worker \ {w} : ~At(v, "idle") => turn[v].request # q
  BY <1>0, Context DEF TurnOK
<1>2. told \in [Request -> SUBSET (Fingerprint \X Claim)]
  BY DEF Inv, TypeOK
<1>3. /\ UNCHANGED <<admission, run, poisoned, hostAbort, effects>>
      /\ told' = [told EXCEPT ![q] = c]
      /\ turn' = [turn EXCEPT ![w] = IdleTurn]
  BY DEF Reply, Goto, journal
<1>4. c \in SUBSET (Fingerprint \X Claim)
  BY <1>1, <1>2
<1>5. \A answer \in c : admission[q].fingerprint = answer[1] /\ run[q].status = answer[2]
  BY <1>1 DEF RequestOK
<1> HIDE DEF c
<1>6. told'[q] = c /\ Touches(q)
  BY <1>1, <1>2, <1>3, <1>4 DEF Inv, TypeOK, JournalTypeOK, Touches
<1>7. RequestOK(admission'[q], run'[q], effects'[q], told'[q])
  BY <1>1, <1>3, <1>5, <1>6 DEF RequestOK
<1>8. IdleTurn \in TurnRecord /\ IdleTurn.phase = "idle"
  BY DEF IdleTurn, Parked, TurnRecord, Phase, Answer, Untyped, Error
<1>9. hostAbort' \in BOOLEAN
  BY <1>3 DEF Inv, TypeOK
<1> QED BY <1>1, <1>3, <1>6, <1>7, <1>8, <1>9, Frame

-----------------------------------------------------------------------------
(* The process and the clock *)

\* A stop only raises the signal.
LEMMA StopHostPreserves == ASSUME Inv, StopHost PROVE Inv'
<1>1. UNCHANGED <<admission, run, poisoned, turn, effects, told>> /\ hostAbort' = TRUE
  BY DEF StopHost, journal
<1> QED BY <1>1 DEF Inv, TypeOK, JournalTypeOK, OneTurnPerRequest, TurnsOK, RequestsOK, At

\* A new process has no turns, and the same records.
LEMMA RestartPreserves == ASSUME Inv, Restart PROVE Inv'
<1>1. /\ UNCHANGED <<admission, run, effects, told>>
      /\ poisoned' = FALSE /\ hostAbort' = FALSE
      /\ turn' = [w \in Worker |-> IdleTurn]
  BY DEF Restart, Reopen
<1>2. IdleTurn \in TurnRecord /\ IdleTurn.phase = "idle"
  BY DEF IdleTurn, Parked, TurnRecord, Phase, Answer, Untyped, Error
<1> QED BY <1>1, <1>2
        DEF Inv, TypeOK, JournalTypeOK, OneTurnPerRequest, TurnsOK, RequestsOK, At

\* The expiry of a lease decides nothing by itself.
LEMMA ClockPreserves == ASSUME Inv, NEW q \in Request, Clock(q) PROVE Inv'
<1>1. /\ admission' = [admission EXCEPT ![q].lease = "expired"]
      /\ UNCHANGED <<run, poisoned, turn, hostAbort, effects, told>>
  BY DEF Clock, LeaseExpires, host
<1>2. /\ admission' \in [Request -> AdmissionRecord]
      /\ \A p \in Request : /\ admission'[p].state = admission[p].state
                            /\ admission'[p].fingerprint = admission[p].fingerprint
  BY <1>1 DEF Inv, TypeOK, JournalTypeOK, AdmissionRecord
<1>3. TypeOK' /\ OneTurnPerRequest'
  BY <1>1, <1>2 DEF Inv, TypeOK, JournalTypeOK, OneTurnPerRequest, At
<1>4. TurnsOK'
  BY <1>1, <1>2, Context DEF TurnsOK, TurnOK, At
<1>5. RequestsOK'
  BY <1>1, <1>2 DEF Inv, RequestsOK, RequestOK
<1> QED BY <1>3, <1>4, <1>5 DEF Inv

-----------------------------------------------------------------------------
(* The theorems *)

LEMMA InitInv == Init => Inv
<1> SUFFICES ASSUME Init PROVE Inv
  OBVIOUS
<1>1. /\ admission = [q \in Request |-> [state |-> "absent",
                        fingerprint |-> NoFingerprint, lease |-> "expired"]]
      /\ run = [q \in Request |-> [status |-> "absent", attempts |-> <<>>]]
      /\ poisoned = FALSE /\ hostAbort = FALSE
      /\ turn = [w \in Worker |-> IdleTurn]
      /\ effects = [q \in Request |-> 0]
      /\ told = [q \in Request |-> {}]
  BY DEF Init, JournalInit
<1>2. IdleTurn \in TurnRecord /\ IdleTurn.phase = "idle"
  BY DEF IdleTurn, Parked, TurnRecord, Phase, Answer, Untyped, Error
<1>3. TypeOK
  <2>1. [state |-> "absent", fingerprint |-> NoFingerprint, lease |-> "expired"]
          \in AdmissionRecord
    BY DEF AdmissionRecord
  <2>2. [status |-> "absent", attempts |-> <<>>] \in RunRecord
    BY DEF RunRecord
  <2>3. JournalTypeOK
    BY <1>1, <2>1, <2>2 DEF JournalTypeOK
  <2>4. /\ turn \in [Worker -> TurnRecord] /\ hostAbort \in BOOLEAN
        /\ effects \in [Request -> Nat]
        /\ told \in [Request -> SUBSET (Fingerprint \X Claim)]
    BY <1>1, <1>2
  <2> QED BY <2>3, <2>4 DEF TypeOK
<1>4. OneTurnPerRequest /\ TurnsOK
  BY <1>1, <1>2 DEF OneTurnPerRequest, TurnsOK, At
<1>5. RequestsOK
  <2> SUFFICES ASSUME NEW q \in Request
               PROVE  RequestOK(admission[q], run[q], effects[q], told[q])
    BY DEF RequestsOK
  <2>1. /\ admission[q].state = "absent" /\ admission[q].fingerprint = NoFingerprint
        /\ run[q].status = "absent" /\ run[q].attempts = <<>>
        /\ effects[q] = 0 /\ told[q] = {}
    BY <1>1
  <2> QED BY <2>1 DEF RequestOK
<1> QED BY <1>3, <1>4, <1>5 DEF Inv

LEMMA NextInv == Inv /\ [Next]_vars => Inv'
<1> SUFFICES ASSUME Inv, [Next]_vars PROVE Inv'
  OBVIOUS
<1>1. ASSUME NEW w \in Worker, AdmissionStep(w) PROVE Inv'
  BY <1>1, SubmitPreserves, JoinPreserves, AdmitNewPreserves, AdmitExistingPreserves,
     AdmitStalePreserves DEF AdmissionStep
<1>2. ASSUME NEW w \in Worker, Cancel(w) \/ Requeue(w) PROVE Inv'
  BY <1>2, AbortPreserves
<1>3. ASSUME NEW w \in Worker, AttemptStep(w) PROVE Inv'
  <2>1. CASE RoutingThrows(w) \/ LoopEnds(w)
    BY <2>1, RoutingThrowsPreserves
  <2>2. CASE PrepareThrows(w) \/ \E e \in Error : RuntimeThrows(w, e)
    BY <2>2, ThrowsPreserves
  <2>3. CASE Dispatch(w) \/ RuntimeReturns(w)
    BY <2>3, DispatchAndReturnPreserve
  <2>4. CASE RejectRoute(w) \/ StartAttempt(w)
    BY <2>4, RejectRoutePreserves, StartAttemptPreserves
  <2>5. CASE \E how \in {"unseen", "seen"} : Act(w, how)
    BY <2>5, ActPreserves
  <2>6. CASE RecordFailed(w) \/ RecoverSession(w)
    BY <2>6, RecordFailedPreserves, RecoverSessionPreserves
  <2> QED BY <1>3, <2>1, <2>2, <2>3, <2>4, <2>5, <2>6 DEF AttemptStep
<1>4. ASSUME NEW w \in Worker, SettlementStep(w) PROVE Inv'
  BY <1>4, ResultRejectedPreserves, RecordCompletedPreserves, SettleResultPreserves,
     SettleCancelledPreserves, ConcludePreserves, PersistVerdictPreserves, ReplyPreserves
     DEF SettlementStep
<1>5. CASE \E q \in Request : Clock(q)
  BY <1>5, ClockPreserves
<1>6. CASE StopHost \/ Restart
  BY <1>6, StopHostPreserves, RestartPreserves
<1>7. CASE UNCHANGED vars
  BY <1>7 DEF vars, journal, host, Inv, TypeOK, JournalTypeOK, OneTurnPerRequest,
              TurnsOK, RequestsOK, At
<1> QED BY <1>1, <1>2, <1>3, <1>4, <1>5, <1>6, <1>7 DEF Next, TurnStep

\* The inductive invariant holds in every reachable state.
THEOREM Invariance == Spec => []Inv
  BY InitInv, NextInv, PTL DEF Spec

\* Every journal record, turn and observed answer stays in its type, whatever the
\* store, the runtimes and the process do.
THEOREM TypeCorrect == Spec => []TypeOK
<1>1. Inv => TypeOK
  BY DEF Inv
<1> QED BY <1>1, Invariance, PTL

\* No fallback, retry, expiry, crash or resubmission lets a second attempt of a
\* request act: only a proved lack of effects leads to another attempt.
THEOREM AtMostOnce == Spec => []EffectsAtMostOnce
<1>1. Inv => EffectsAtMostOnce
  BY DEF Inv, RequestsOK, RequestOK, EffectsAtMostOnce
<1> QED BY <1>1, Invariance, PTL

\* A claimed outcome is the durable outcome, told to the admitted input only.
THEOREM Honest == Spec => []HonestAnswers
<1>1. Inv => HonestAnswers
  BY DEF Inv, RequestsOK, RequestOK, HonestAnswers
<1> QED BY <1>1, Invariance, PTL

\* "failed" is settled only for requests whose attempts never acted.
THEOREM FailedIsSafe == Spec => []FailedMeansNoEffects
<1>1. Inv => FailedMeansNoEffects
  BY DEF Inv, RequestsOK, RequestOK, FailedMeansNoEffects
<1> QED BY <1>1, Invariance, PTL

\* An executing turn is the only one to decide its run, even past its lease.
THEOREM Ownership == Spec => []LiveTurnOwnsItsRun
<1>1. Inv => LiveTurnOwnsItsRun
  BY DEF Inv, TurnsOK, TurnOK, LiveTurnOwnsItsRun, At, Executing
<1> QED BY <1>1, Invariance, PTL

\* Evidence is durable before the attempt it describes can act.
THEOREM EvidenceFirst == Spec => []EvidenceBeforeEffects
<1>1. Inv => EvidenceBeforeEffects
  <2> SUFFICES ASSUME Inv PROVE EvidenceBeforeEffects
    OBVIOUS
  <2>1. ASSUME NEW w \in Worker, At(w, "running")
        PROVE  Len(run[turn[w].request].attempts) = turn[w].attempt
    BY <2>1, AttemptContext DEF EvidenceOK, At, Executing
  <2>2. ASSUME NEW q \in Request
        PROVE  RequestOK(admission[q], run[q], effects[q], told[q])
               /\ effects[q] \in Nat
    BY DEF Inv, RequestsOK, TypeOK
  <2> QED BY <2>1, <2>2 DEF EvidenceBeforeEffects, RequestOK
<1> QED BY <1>1, Invariance, PTL
=============================================================================
