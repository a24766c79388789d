---------------------------- MODULE RequestOnce ----------------------------
(***************************************************************************)
(* What a host promises a client about one requestId, whatever happens to  *)
(* the runtimes, the store or the process: the request belongs to the      *)
(* input that claimed it first, it takes effect at most once and only      *)
(* before its verdict, the verdict is given once, "failed" is a claim that *)
(* nothing happened, and an answer that asserts a verdict asserts the one  *)
(* that was given.  Stated by core/README.md (requestId idempotency,       *)
(* fallback, settlement).                                                  *)
(***************************************************************************)
EXTENDS Naturals

CONSTANTS Request, Fingerprint, NoFingerprint

Verdict == {"completed", "cancelled", "max-turns", "failed", "uncertain"}

\* The answers that assert an outcome.  "uncertain", a rejection, a conflict or
\* "in progress" assert none and are always allowed.
Claim == Verdict \ {"uncertain"}

VARIABLES
  owner,     \* the fingerprint the request was admitted with
  verdict,   \* "open" until the run is decided
  effects,   \* attempts of the request that acted on the world
  told       \* the outcomes claimed, each with the fingerprint it answers

vars == <<owner, verdict, effects, told>>

Init ==
  /\ owner = [q \in Request |-> NoFingerprint]
  /\ verdict = [q \in Request |-> "open"]
  /\ effects = [q \in Request |-> 0]
  /\ told = [q \in Request |-> {}]

Accept(q, f) ==
  /\ owner[q] = NoFingerprint
  /\ owner' = [owner EXCEPT ![q] = f]
  /\ UNCHANGED <<verdict, effects, told>>

TakeEffect(q) ==
  /\ owner[q] # NoFingerprint
  /\ verdict[q] = "open"
  /\ effects[q] = 0
  /\ effects' = [effects EXCEPT ![q] = 1]
  /\ UNCHANGED <<owner, verdict, told>>

Decide(q, v) ==
  /\ owner[q] # NoFingerprint
  /\ verdict[q] = "open"
  /\ v = "failed" => effects[q] = 0
  /\ verdict' = [verdict EXCEPT ![q] = v]
  /\ UNCHANGED <<owner, effects, told>>

\* Only the owner's input is told an outcome, and only the verdict.
Tell(q) ==
  /\ owner[q] # NoFingerprint
  /\ verdict[q] \in Claim
  /\ told' = [told EXCEPT ![q] = @ \cup {<<owner[q], verdict[q]>>}]
  /\ UNCHANGED <<owner, verdict, effects>>

Next ==
  \E q \in Request :
    \/ TakeEffect(q)
    \/ \E v \in Verdict : Decide(q, v)
    \/ \E f \in Fingerprint : Accept(q, f)
    \/ Tell(q)

Spec == Init /\ [][Next]_vars
=============================================================================
