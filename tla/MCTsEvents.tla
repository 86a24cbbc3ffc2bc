------------------------------- MODULE MCTsEvents -------------------------------
(* Small instances of TsEvents: a ring of three slots, an event. *)
EXTENDS TsEvents
===============================================================================
