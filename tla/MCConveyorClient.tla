-------------------------- MODULE MCConveyorClient --------------------------
(* Two callers.  At most three token names are referred to at a time: the  *)
(* current one, the cached one and the one in flight.                      *)
EXTENDS ConveyorClient

CONSTANTS uploadThread, statusThread, t1, t2, t3

MCCallers == {uploadThread, statusThread}
MCTokens == {t1, t2, t3}
MCGrants == 1..2
=============================================================================
