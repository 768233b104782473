--------------------------- MODULE EventDelivery ---------------------------
(***************************************************************************)
(* What the edge device promises about one detected or periodic event,     *)
(* whoever keeps the promise: an event row that becomes visible is either  *)
(* acknowledged, and then the Conveyor really holds its clip, or given up, *)
(* and then no copy of it ever left the device.  Both outcomes are final.  *)
(* UploadWorker implements this with a polling worker, a SQLite table and  *)
(* an unreliable network.                                                  *)
(***************************************************************************)
CONSTANT Events

VARIABLES
    status,     \* status[e]: the meaning of row e of table "events"
    received    \* the events of which the Conveyor holds at least one copy

vars == <<status, received>>

Init ==
    /\ status = [e \in Events |-> "absent"]
    /\ received = {}

Record(e) ==
    /\ status[e] = "absent"
    /\ status' = [status EXCEPT ![e] = "pending"]
    /\ UNCHANGED received

Deliver(e) ==
    /\ status[e] = "pending"
    /\ received' = received \cup {e}
    /\ UNCHANGED status

Acknowledge(e) ==
    /\ status[e] = "pending"
    /\ e \in received
    /\ status' = [status EXCEPT ![e] = "uploaded"]
    /\ UNCHANGED received

GiveUp(e) ==
    /\ status[e] = "pending"
    /\ e \notin received
    /\ status' = [status EXCEPT ![e] = "failed"]
    /\ UNCHANGED received

Next == \E e \in Events : Record(e) \/ Deliver(e) \/ Acknowledge(e) \/ GiveUp(e)

Spec == Init /\ [][Next]_vars
=============================================================================
