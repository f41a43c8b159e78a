------------------------ MODULE MCSubprocessMonitor ------------------------
(* Small instances of SubprocessMonitor for TLC.                           *)
EXTENDS SubprocessMonitor
============================================================================
