-------------------------- MODULE MCLinkScanControl --------------------------
(* Small instances of LinkScanControl: callers and threads that overlap. *)
EXTENDS LinkScanControl
==============================================================================
