-------------------------- MODULE MCIntrusiveList --------------------------
(* A small instance of IntrusiveList for TLC. *)
EXTENDS IntrusiveList
=============================================================================
