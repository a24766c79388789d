----------------------------- MODULE MCIndexLog -----------------------------
(***************************************************************************)
(* Two keys and values of two lengths over a log that holds three short    *)
(* frames, or a short and a long one: replacing a short value by a long    *)
(* one makes an image longer than the log.                                 *)
(***************************************************************************)
EXTENDS IndexLog

CONSTANTS short, long

MCSize == (short :> 3) @@ (long :> 6)
=============================================================================
