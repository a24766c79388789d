---------------------------- MODULE RunJournal -----------------------------
(***************************************************************************)
(* The durable record of runs that state-local keeps for the Core: one     *)
(* admission per requestId and the run it admitted.  A runId is created    *)
(* with its admission, in one transaction, and never used by another       *)
(* request, so a run is indexed here by its request.                       *)
(*                                                                         *)
(* The operators ending in Write are single transactions of the store.     *)
(* How a transaction may end is the business of Applied, Torn and Refused. *)
(***************************************************************************)
EXTENDS Naturals, Sequences

CONSTANTS Request, Fingerprint, NoFingerprint

ASSUME NoFingerprintAssumption == NoFingerprint \notin Fingerprint

UserVisible == {"completed", "cancelled", "max-turns"}
Terminal == UserVisible \cup {"failed", "uncertain"}
AttemptStatus == {"started", "ineligible", "failed", "completed"}

VARIABLES
  admission,   \* per request: its state, the input it admitted, its lease
  run,         \* per request: the status and attempt evidence of its run
  poisoned     \* a commit ended in doubt: the store serves nothing until reopened

journal == <<admission, run, poisoned>>

AdmissionRecord ==
  [state : {"absent", "running", "settled", "uncertain"},
   fingerprint : Fingerprint \cup {NoFingerprint},
   lease : {"live", "expired"}]

RunRecord ==
  [status : {"absent", "running"} \cup Terminal,
   attempts : Seq(AttemptStatus)]

JournalTypeOK ==
  /\ admission \in [Request -> AdmissionRecord]
  /\ run \in [Request -> RunRecord]
  /\ poisoned \in BOOLEAN

JournalInit ==
  /\ admission = [q \in Request |->
       [state |-> "absent", fingerprint |-> NoFingerprint, lease |-> "expired"]]
  /\ run = [q \in Request |-> [status |-> "absent", attempts |-> <<>>]]
  /\ poisoned = FALSE

-----------------------------------------------------------------------------
(* How one transaction ends for its caller. *)

\* The caller is told it committed.
Applied(write) == ~poisoned /\ write /\ UNCHANGED poisoned

\* The commit failed inside the durable append: the index holds the old or the
\* new snapshot, and the store refuses every later operation.
Torn(write) ==
  /\ ~poisoned
  /\ poisoned' = TRUE
  /\ write \/ UNCHANGED <<admission, run>>

\* Aborted signal, capacity, a lost compare-and-swap, a poisoned or closed store.
Refused == UNCHANGED journal

Failed(write) == Refused \/ Torn(write)

-----------------------------------------------------------------------------

AdmitWrite(q, f) ==
  /\ admission[q].state = "absent"
  /\ admission' = [admission EXCEPT ![q] =
       [state |-> "running", fingerprint |-> f, lease |-> "live"]]
  /\ run' = [run EXCEPT ![q] = [status |-> "running", attempts |-> <<>>]]

\* mutant: an expired admission may be admitted again
StaleReplayed(q) ==
  /\ admission[q].state = "running"
  /\ admission[q].lease = "expired"
  /\ admission' = [admission EXCEPT ![q].state = "absent", ![q].fingerprint = NoFingerprint]
  /\ run' = [run EXCEPT ![q].status = "absent"]

\* An expired running admission becomes uncertain together with its run.
StaleWrite(q) ==
  /\ admission[q].state = "running"
  /\ admission[q].lease = "expired"
  /\ run[q].status = "running"
  /\ admission' = [admission EXCEPT ![q].state = "uncertain"]
  /\ run' = [run EXCEPT ![q].status = "uncertain"]

\* Attempt n is the next one or rewrites "started" evidence by terminal evidence.
AttemptWrite(q, n, s) ==
  LET attempts == run[q].attempts IN
  /\ run[q].status = "running"
  /\ n <= Len(attempts) + 1
  /\ n <= Len(attempts) => attempts[n] = "started" /\ s # "started"
  /\ run' = [run EXCEPT ![q].attempts =
       IF n <= Len(attempts) THEN [attempts EXCEPT ![n] = s]
                             ELSE Append(attempts, s)]
  /\ UNCHANGED admission

SettleWrite(q, s) ==
  /\ run[q].status = "running"
  /\ admission[q].state = "running"
  /\ run' = [run EXCEPT ![q].status = s]
  /\ admission' = [admission EXCEPT ![q] =
       [@ EXCEPT !.state = IF s = "uncertain" THEN "uncertain" ELSE "settled",
                 !.lease = "expired"]]

\* The wall clock passes leaseExpiresAt.  The host never renews an admission.
LeaseExpires(q) ==
  /\ admission[q].state = "running"
  /\ admission[q].lease = "live"
  /\ admission' = [admission EXCEPT ![q].lease = "expired"]
  /\ UNCHANGED <<run, poisoned>>

\* The store is opened again over what the index holds.
Reopen == poisoned' = FALSE /\ UNCHANGED <<admission, run>>
=============================================================================
