---------------------------- MODULE MCEventFlow ----------------------------
(* Two detections and a buffer of three fragments, pruned several times; a *)
(* clip of two fragments or more is too large to upload.                   *)
EXTENDS EventFlow

MCEvents == 1..2
=============================================================================
