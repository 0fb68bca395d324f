------------------------- MODULE MCNativeSupervisor -------------------------
(* Two clients, so that a close is skipped after another; three signals, one *)
(* more than the supervisor distinguishes.                                   *)
EXTENDS NativeSupervisor
=============================================================================
