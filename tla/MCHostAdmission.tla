-------------------------- MODULE MCHostAdmission --------------------------
(***************************************************************************)
(* Three submissions to two conversations, and one slot: a conversation is *)
(* three deep with a waiter aborted in its middle, or a turn of one holds  *)
(* the slot that the other waits for.                                      *)
(***************************************************************************)
EXTENDS HostAdmission
=============================================================================
