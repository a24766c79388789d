----------------------------- MODULE MCHostTurn -----------------------------
(***************************************************************************)
(* One request, submitted by two workers with two inputs, over a primary   *)
(* route and one fallback, each of which may recover its session once.     *)
(* Requests share nothing but the store's poison and the host's abort      *)
(* signal, which one request already meets at every step; HostTurnProofs   *)
(* proves the invariants for any number of them.                           *)
(***************************************************************************)
EXTENDS HostTurn
=============================================================================
