------------------------------- MODULE MCCounters -------------------------------
(* Small instances of Counters: a counter of two bits. *)
EXTENDS Counters
===============================================================================
