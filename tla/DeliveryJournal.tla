-------------------------- MODULE DeliveryJournal --------------------------
(***************************************************************************)
(* What state-local keeps durably for channel deliveries: a receipt per    *)
(* idempotency key, and the history of the conversation the deliveries     *)
(* are recorded in, to which turns append as well.  Receipt and history    *)
(* entry of a delivery are written by one transaction.                     *)
(*                                                                         *)
(* An entry is named by the key or the turn that appended it, and the      *)
(* attempt number of an intent stands for its attempt token too.  The      *)
(* destinations of deliveries are independent: one is enough.              *)
(***************************************************************************)
EXTENDS Naturals, Sequences

CONSTANTS
  Key,          \* idempotency keys
  Content,      \* delivery fingerprints: channel and message
  NoContent,
  Turn,         \* turns of the destination conversation
  MaxAttempt    \* the largest attempt number a receipt is read back with

ASSUME DeliveryAssumption ==
  /\ MaxAttempt \in Nat \ {0}
  /\ NoContent \notin Content
  /\ Key \cap Turn = {}

VARIABLES
  receipt,    \* per key
  history,    \* the canonical transcript; its length is its revision
  poisoned    \* a commit ended in doubt: the store serves nothing until reopened

store == <<receipt, history, poisoned>>

Status == {"absent", "intent", "delivered", "unknown", "failed"}

Receipt ==
  [status : Status, content : Content \cup {NoContent}, attempt : Nat,
   lease : {"live", "expired"}]

StoreTypeOK ==
  /\ receipt \in [Key -> Receipt]
  /\ history \in Seq(Key \cup Turn)
  /\ poisoned \in BOOLEAN

StoreInit ==
  /\ receipt = [k \in Key |->
       [status |-> "absent", content |-> NoContent, attempt |-> 0, lease |-> "expired"]]
  /\ history = <<>>
  /\ poisoned = FALSE

-----------------------------------------------------------------------------
(* How one transaction ends for its caller: acknowledged; refused, having  *)
(* changed nothing; or torn inside the commit, which poisons the store.    *)

Applied(write) == ~poisoned /\ write /\ UNCHANGED poisoned

Torn(write) ==
  /\ ~poisoned
  /\ poisoned' = TRUE
  /\ write \/ UNCHANGED <<receipt, history>>

Failed(write) == UNCHANGED store \/ Torn(write)

-----------------------------------------------------------------------------

\* A receipt is written with any attempt number and read with a bounded one.
Readable(k) == receipt[k].attempt <= MaxAttempt

Intent(f, n) == [status |-> "intent", content |-> f, attempt |-> n, lease |-> "live"]

\* A key is claimed by its first content; only a failed attempt is tried again.
IntentWrite(k, f) ==
  /\ \/ receipt[k].status = "absent"
     \/ receipt[k].status = "failed" /\ receipt[k].content = f /\ Readable(k)
  /\ receipt' = [receipt EXCEPT ![k] = Intent(f, receipt[k].attempt + 1)]
  /\ UNCHANGED history

\* mutant: an intent nobody settled in time may be tried again
StaleIntentFails(k, f) ==
  /\ receipt[k].status = "intent" /\ receipt[k].lease = "expired"
  /\ receipt' = [receipt EXCEPT ![k].status = "failed"]
  /\ UNCHANGED history

\* An intent whose lease has expired has an unknown outcome.
StaleIntentWrite(k, f) ==
  /\ receipt[k].status = "intent" /\ receipt[k].lease = "expired"
  /\ receipt[k].content = f /\ Readable(k)
  /\ receipt' = [receipt EXCEPT ![k].status = "unknown", ![k].lease = "expired"]
  /\ UNCHANGED history

\* The intent that attempt n of this content still holds.
Holds(k, f, n) ==
  /\ receipt[k].status = "intent"
  /\ receipt[k].content = f /\ receipt[k].attempt = n /\ Readable(k)

SettleWrite(k, f, n, s) ==
  /\ Holds(k, f, n)
  /\ receipt' = [receipt EXCEPT ![k].status = s, ![k].lease = "expired"]
  /\ UNCHANGED history

\* mutant: the receipt is settled in a transaction of its own
ReceiptOnly(k, f, n) ==
  /\ Holds(k, f, n)
  /\ receipt' = [receipt EXCEPT ![k].status = "delivered", ![k].lease = "expired"]
  /\ UNCHANGED history

\* The receipt becomes delivered together with its entry in the history.
DeliveredWrite(k, f, n) ==
  /\ Holds(k, f, n)
  /\ \A i \in 1..Len(history) : history[i] # k
  /\ receipt' = [receipt EXCEPT ![k].status = "delivered", ![k].lease = "expired"]
  /\ history' = Append(history, k)

\* mutant: the transcript of a turn replaces the one that is stored
TurnOverwrites(t, base) ==
  /\ history' = Append(base, t)
  /\ UNCHANGED receipt

\* A turn's transcript extends the revision it was based on, or is refused.
TurnWrite(t, base) ==
  /\ Len(base) = Len(history)
  /\ history' = Append(base, t)
  /\ UNCHANGED receipt

LeaseExpires(k) ==
  /\ receipt[k].status = "intent" /\ receipt[k].lease = "live"
  /\ receipt' = [receipt EXCEPT ![k].lease = "expired"]
  /\ UNCHANGED <<history, poisoned>>

Reopen == poisoned' = FALSE /\ UNCHANGED <<receipt, history>>
=============================================================================
