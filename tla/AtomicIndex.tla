---------------------------- MODULE AtomicIndex ----------------------------
(***************************************************************************)
(* What the index of a state directory promises its one writer: a map that *)
(* changes by whole writes.  A write that is answered has happened or has  *)
(* not, one whose answer is lost did either, and nothing else changes what *)
(* is stored: not a crash, not a reopening, not a compaction.              *)
(***************************************************************************)
CONSTANTS Key, Value, NoValue

VARIABLES
  stored,   \* what reopening the directory would give
  asked,    \* the last write, with what was stored when it was asked for
  told      \* its answer: none yet, applied, refused, or doubt; idle at first

vars == <<stored, asked, told>>

NoWrite == [key |-> "none"]
After(a) == [a.before EXCEPT ![a.key] = a.value]

Init ==
  /\ stored = [k \in Key |-> NoValue]
  /\ asked = NoWrite
  /\ told = "idle"

Ask(k, v) ==
  /\ told # "none"
  /\ asked' = [key |-> k, value |-> v, before |-> stored]
  /\ told' \in {"none", "refused"}
  /\ UNCHANGED stored

Commit ==
  /\ told = "none"
  /\ stored = asked.before
  /\ stored' = After(asked)
  /\ told' \in {"none", "applied", "doubt"}
  /\ UNCHANGED asked

Answer ==
  /\ told = "none"
  /\ \/ told' = "applied" /\ stored = After(asked)
     \/ told' = "doubt"
  /\ UNCHANGED <<stored, asked>>

Next == (\E k \in Key, v \in Value : Ask(k, v)) \/ Commit \/ Answer

Spec == Init /\ [][Next]_vars
=============================================================================
