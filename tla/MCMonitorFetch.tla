--------------------------- MODULE MCMonitorFetch ---------------------------
(* Instances of MonitorFetch for TLC. *)
EXTENDS MonitorFetch
=============================================================================
