----------------------------- MODULE SlackInbox -----------------------------
(***************************************************************************)
(* The durable inbox of the Slack channel: the state one file holds, and   *)
(* what each operation of the inbox makes of it.                           *)
(*                                                                         *)
(* An operation maps a state to a set: a singleton with the state to be    *)
(* written, or the empty set where the code writes nothing.  Where the     *)
(* code throws instead, a predicate named for the reason says so.          *)
(***************************************************************************)
EXTENDS Integers, Sequences, FiniteSets, SequencesExt

CONSTANTS
  Envelope,     \* envelope ids; the id determines the event
  NoEnvelope,
  MaxEntries,   \* MAX_SLACK_INBOX_ENTRIES
  MaxReceipts   \* MAX_SLACK_INBOX_RECEIPTS

ASSUME InboxAssumption ==
  /\ NoEnvelope \notin Envelope
  /\ MaxEntries \in Nat \ {0} /\ MaxReceipts \in Nat \ {0}

Lane == {"primary", "control"}

Entry == {x \in [env : Envelope, status : {"pending", "processing", "failed"},
                 lane : Lane \cup {"none"}] :
            x.status = "processing" <=> x.lane # "none"}

EmptyInbox == [entries |-> <<>>, receipts |-> <<>>]

Entered(s) == {s.entries[i].env : i \in DOMAIN s.entries}
WithStatus(status, s) ==
  {s.entries[i].env : i \in {j \in DOMAIN s.entries : s.entries[j].status = status}}
Processing(s) == WithStatus("processing", s)
Pending(s) == WithStatus("pending", s)
Received(s) == ToSet(s.receipts)
LanesBusy(s) == {s.entries[i].lane : i \in DOMAIN s.entries} \ {"none"}

\* validateState: what may be written and what may be read back.
ValidState(s) ==
  /\ s.entries \in Seq(Entry) /\ Len(s.entries) <= MaxEntries
  /\ s.receipts \in Seq(Envelope) /\ Len(s.receipts) <= MaxReceipts
  /\ Cardinality(Entered(s)) = Len(s.entries)
  /\ Cardinality(Received(s)) = Len(s.receipts)
  /\ Entered(s) \cap Received(s) = {}
  /\ Cardinality(Processing(s)) = Cardinality(LanesBusy(s))

\* failedReason, and blockedReason, which start refuses to serve over.
Failed(s) == WithStatus("failed", s) # {}
Blocked(s) == Failed(s) \/ Processing(s) # {}

MarkAll(envs, status, lane, s) ==
  [s EXCEPT !.entries =
     [i \in DOMAIN @ |-> IF @[i].env \in envs
                           THEN [@[i] EXCEPT !.status = status, !.lane = lane]
                           ELSE @[i]]]

---------------------------------------------------------------------------
Duplicate(e, s) == e \in Entered(s) \cup Received(s)

EnqueueRefused(e, s) ==
  ~Duplicate(e, s) /\ (Failed(s) \/ Len(s.entries) >= MaxEntries)

Enqueue(e, s) ==
  IF Duplicate(e, s) THEN {}
  ELSE {[s EXCEPT !.entries =
           Append(@, [env |-> e, status |-> "pending", lane |-> "none"])]}

\* The entry claimNext takes for a lane.  While nothing is processing only the
\* first pending entry may be taken; beside the primary lane's entry the
\* control lane may take any eligible one.
Claimed(lane, eligible, s) ==
  LET pending == {i \in DOMAIN s.entries : s.entries[i].status = "pending"}
      ready == {i \in pending : /\ s.entries[i].env \in eligible
                                /\ Processing(s) = {} => \A j \in pending : i <= j}
      busy == IF lane = "primary" THEN Processing(s) # {}
              ELSE LanesBusy(s) \ {"primary"} # {}
  IN IF Failed(s) \/ busy \/ ready = {} THEN {}
     ELSE {s.entries[CHOOSE i \in ready : \A j \in ready : i <= j].env}

Claim(e, lane, s) == MarkAll({e}, "processing", lane, s)

\* release, complete and fail only match an entry that is processing.
Mismatch(e, s) == e \notin Processing(s)

Release(e, s) == {MarkAll({e}, "pending", "none", s)}

RequeueProcessing(envs, s) ==
  LET selected == envs \cap Processing(s)
  IN IF selected = {} THEN {} ELSE {MarkAll(selected, "pending", "none", s)}

Trim(receipts, max) ==
  SubSeq(receipts, IF Len(receipts) > max THEN Len(receipts) - max + 1 ELSE 1,
         Len(receipts))

\* A filter drops what stands at the given places.  An envelope is in the inbox
\* at most once (validateState), so that there is one such place, or none.
Without(seq, places) ==
  IF places = {} THEN seq ELSE RemoveAt(seq, CHOOSE i \in places : TRUE)

WithoutEntry(e, s) == Without(s.entries, {i \in DOMAIN s.entries : s.entries[i].env = e})

\* The receipts with the one of e as the newest.
Receipted(e, s) ==
  Append(Without(s.receipts, {i \in DOMAIN s.receipts : s.receipts[i] = e}), e)

\* mutant: one receipt too many is kept
CompleteTrimmingLate(e, s) ==
  {[entries |-> WithoutEntry(e, s), receipts |-> Trim(Receipted(e, s), MaxReceipts + 1)]}

\* mutant: the newest receipts are dropped instead of the oldest
CompleteTrimmingNewest(e, s) ==
  {[entries |-> WithoutEntry(e, s),
    receipts |-> IF Len(s.receipts) < MaxReceipts THEN Append(s.receipts, e)
                 ELSE s.receipts]}

Complete(e, s) ==
  {[entries |-> WithoutEntry(e, s), receipts |-> Trim(Receipted(e, s), MaxReceipts)]}

\* A receipt or an entry that has failed already settles complete and fail.
AlreadyComplete(e, s) == e \notin Entered(s) /\ e \in Received(s)
AlreadyFailed(e, s) == e \in WithStatus("failed", s) \/ AlreadyComplete(e, s)

Fail(e, s) == {MarkAll({e}, "failed", "none", s)}
=============================================================================
