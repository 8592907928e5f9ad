-------------------------- MODULE MCStationSession --------------------------
(***************************************************************************)
(* StationSession with three requests: enough for a session to be started, *)
(* a stop of it to fail and to be repeated, or another to be started.      *)
(***************************************************************************)
EXTENDS StationSession
=============================================================================
