----------------------------- MODULE MCDelivery -----------------------------
(***************************************************************************)
(* MCDelivery: one call after another under one key that two contents      *)
(* claim, with two turns beside it.  The last attempt number read back is  *)
(* 2, so that a third attempt meets the limit the code has at 10 000.      *)
(* MCDeliveryKeys: two calls at a time over two keys, and a turn that      *)
(* settles between them, may read and show the conversation in any order.  *)
(***************************************************************************)
EXTENDS Delivery
=============================================================================
