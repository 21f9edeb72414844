--------------------------- MODULE MCSidecarQueue ---------------------------
(* Model values and bounds of the TLC runs of SidecarQueue.                *)
EXTENDS SidecarQueue

CONSTANTS w1
OneWaiter == {w1}
=============================================================================
