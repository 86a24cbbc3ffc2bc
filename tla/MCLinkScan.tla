------------------------------ MODULE MCLinkScan ------------------------------
(* Small instances of LinkScan: the last port is in the group. *)
EXTENDS LinkScan

LastPort == {NPorts}
===============================================================================
