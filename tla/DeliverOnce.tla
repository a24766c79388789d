---------------------------- MODULE DeliverOnce ----------------------------
(***************************************************************************)
(* What proactive delivery promises for one idempotency key: the key       *)
(* belongs to the content that claimed it first, a message goes out at     *)
(* most once and only while its outcome is open, an outcome is final, and  *)
(* a caller is told "delivered" only of a message that went out and whose  *)
(* receipt is durable.  Stated by core/README.md (delivery is fail-closed  *)
(* and an ambiguous outcome is never resent).                              *)
(***************************************************************************)
EXTENDS Naturals

CONSTANTS Key, Content, NoContent

VARIABLES
  owner,    \* the content a key was claimed with
  outcome,  \* "open" until the delivery is decided
  copies,   \* messages that went out under the key
  told      \* the contents whose delivery was confirmed to a caller

vars == <<owner, outcome, copies, told>>

Init ==
  /\ owner = [k \in Key |-> NoContent]
  /\ outcome = [k \in Key |-> "open"]
  /\ copies = [k \in Key |-> 0]
  /\ told = [k \in Key |-> {}]

Claim(k, f) ==
  /\ owner[k] = NoContent
  /\ owner' = [owner EXCEPT ![k] = f]
  /\ UNCHANGED <<outcome, copies, told>>

GoOut(k) ==
  /\ owner[k] # NoContent /\ outcome[k] = "open" /\ copies[k] = 0
  /\ copies' = [copies EXCEPT ![k] = 1]
  /\ UNCHANGED <<owner, outcome, told>>

Decide(k, o) ==
  /\ owner[k] # NoContent /\ outcome[k] = "open"
  /\ o = "delivered" => copies[k] = 1
  /\ outcome' = [outcome EXCEPT ![k] = o]
  /\ UNCHANGED <<owner, copies, told>>

Confirm(k) ==
  /\ outcome[k] = "delivered"
  /\ told' = [told EXCEPT ![k] = @ \cup {owner[k]}]
  /\ UNCHANGED <<owner, outcome, copies>>

Next ==
  \E k \in Key :
    \/ \E f \in Content : Claim(k, f)
    \/ GoOut(k)
    \/ \E o \in {"delivered", "unknown"} : Decide(k, o)
    \/ Confirm(k)

Spec == Init /\ [][Next]_vars
=============================================================================
