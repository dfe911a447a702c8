------------------------ MODULE MC_MonitorScheduler ------------------------
(* Small instances of MonitorScheduler for TLC. *)
EXTENDS MonitorScheduler

CONSTANTS m1, m2
=============================================================================
