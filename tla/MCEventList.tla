---------------------------- MODULE MCEventList -----------------------------
(* A small instance of EventList for TLC.                                  *)
EXTENDS EventList
============================================================================
