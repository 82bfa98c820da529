----------------------------- MODULE MCLifecycle -----------------------------
(* A small instance of Spawn and the Lifecycle behind it: two ways to end, so *)
(* that a report can differ from the truth.                                   *)
EXTENDS Spawn

MCExitStatuses == {"exited", "signaled"}
=============================================================================
