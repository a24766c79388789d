--------------------------- MODULE MCRunRetention ---------------------------
(***************************************************************************)
(* Two runs of one conversation and an attachment both may stage.          *)
(***************************************************************************)
EXTENDS RunRetention

CONSTANTS r1, r2, t1, t2, p1, p2, x

MCTranscript == (r1 :> t1) @@ (r2 :> t2)
MCResponse == (r1 :> p1) @@ (r2 :> p2)
=============================================================================
