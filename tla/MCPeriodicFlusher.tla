------------------------ MODULE MCPeriodicFlusher --------------------------
(* Two cameras, so that a failure on the first one concerns the second;    *)
(* two intervals, so that the watcher can shorten or lengthen the wait; a  *)
(* step of the clock is longer than the short interval, so that a flush    *)
(* becomes due at once or is put off for more than an interval.            *)
EXTENDS PeriodicFlusher

MCCameras == {1, 2}
MCIntervals == {1, 3}
MCSteps == {-2, 2}
=============================================================================
