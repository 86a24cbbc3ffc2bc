-------------------------------- MODULE MCPdelay --------------------------------
(* Small instances of Pdelay: a responder nearby and a loop. *)
EXTENDS Pdelay

CONSTANTS r1, self

MCDelay == [r \in Responder |-> "short"]
===============================================================================
