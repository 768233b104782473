--------------------------- MODULE MCSegmentStore ---------------------------
(* Two cameras, or one where the state space would be too large.           *)
EXTENDS SegmentStore

OneCamera == {0}
TwoCameras == {0, 1}
=============================================================================
