-------------------------- MODULE MCConfigReload ---------------------------
(* Two PATCH calls, and two edits by hand, so that one can mend what the   *)
(* other broke.                                                            *)
EXTENDS ConfigReload

CONSTANTS r1, r2, e1, e2

MCRequests == {r1, r2}
MCEdits == {e1, e2}
NoEdits == {}
AllBodies == SUBSET Fields
SomeField == AllBodies \ {{}}
=============================================================================
