--------------------------- MODULE MCPktioCallbacks ---------------------------
(* Small instances of PktioCallbacks. *)
EXTENDS PktioCallbacks, TLC

\* One filter each, or two at once.
MCFlags == {{"UDP"}, {"UDP", "IP"}}

Pkt(trap, llc, kind) == [trap |-> trap, llc |-> llc, kind |-> kind]
MCPackets  == {Pkt(FALSE, FALSE, "udp"), Pkt(TRUE, FALSE, "other"), Pkt(FALSE, TRUE, "lldp")}

Symmetry == Permutations(Client) \cup Permutations(Node)
===============================================================================
