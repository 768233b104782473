---------------------------- MODULE MCRecorder -----------------------------
(* A growing backoff shorter and longer than the stable period.            *)
EXTENDS Recorder

MCSchedule == <<1, 3>>
=============================================================================
