---------------------------- MODULE UploadWorker ----------------------------
(***************************************************************************)
(* services/uploader and shared/orwell_shared/upload_worker.py: the        *)
(* process that polls the "events" table and sends each pending clip to    *)
(* the Conveyor.  One pass takes a snapshot of the pending rows and works  *)
(* through it in t_evento order; the steps of one event (look at the file, *)
(* remove an oversized clip, send, record the outcome) are separate        *)
(* actions, because the process may die, the network may fail or SQLite    *)
(* may refuse a write between any two of them.                             *)
(*                                                                         *)
(* An event is a natural number, its rank in t_evento order.  The recorder *)
(* inserts rows at any time and in any order (action Record).              *)
(***************************************************************************)
EXTENDS Naturals, Integers

CONSTANTS
    Events,     \* ranks of the events that may be recorded
    Poison,     \* events whose package cannot be built (a camera id such as
                \* "camX": int() raises in ConveyorUploader.upload)
    MaxFaults   \* bound on process deaths, lost answers and refused
                \* mark_uploaded writes, taken together

ASSUME EventsAssumption == Events \subseteq Nat /\ Poison \subseteq Events
ASSUME FaultsAssumption == MaxFaults \in Nat

VARIABLES
    row,        \* row[e]: "absent", or uploaded_at NULL / > 0 / -1
    file,       \* file[e]: the clip the row points to, as found on disk
    copies,     \* copies[e]: packages of e the Conveyor accepted
    pc,         \* where the upload thread is; "down" = no process
    todo,       \* the rest of the snapshot of the current pass
    cur,        \* the event being worked on
    stopping,   \* _stop_event
    faults      \* faults that happened so far (see MaxFaults)

vars == <<row, file, copies, pc, todo, cur, stopping, faults>>

NoEvent == -1

Status == {"absent", "pending", "uploaded", "failed"}
Clip   == {"none", "clip", "oversized"}
Busy   == {"purge", "fail", "send", "mark"}

TypeOK ==
    /\ row \in [Events -> Status]
    /\ file \in [Events -> Clip]
    /\ copies \in [Events -> Nat]
    /\ pc \in {"down", "idle", "next"} \cup Busy
    /\ todo \subseteq Events
    /\ cur \in Events \cup {NoEvent}
    /\ stopping \in BOOLEAN
    /\ faults \in 0..MaxFaults

Pending == {e \in Events : row[e] = "pending"}

Init ==
    /\ row = [e \in Events |-> "absent"]
    /\ file = [e \in Events |-> "none"]
    /\ copies = [e \in Events |-> 0]
    /\ pc = "down"
    /\ todo = {}
    /\ cur = NoEvent
    /\ stopping = FALSE
    /\ faults = 0

-----------------------------------------------------------------------------
(* The recorder publishes the clip, then inserts the row; a detection      *)
(* without a usable buffer inserts a row whose clip_path is NULL.          *)
Record(e) ==
    /\ row[e] = "absent"
    /\ \E f \in Clip : file' = [file EXCEPT ![e] = f]
    /\ row' = [row EXCEPT ![e] = "pending"]
    /\ UNCHANGED <<copies, pc, todo, cur, stopping, faults>>

(* main(): the client authenticates in its constructor; until that         *)
(* succeeds main() sleeps 30 s and tries again, so a failed attempt leaves *)
(* the process down.  Then the worker thread starts.                       *)
Start ==
    /\ pc = "down"
    /\ pc' = "idle"
    /\ UNCHANGED <<row, file, copies, todo, cur, stopping, faults>>

(* pending_uploads(): SELECT ... WHERE uploaded_at IS NULL                 *)
BeginPass ==
    /\ pc = "idle"
    /\ ~stopping
    /\ pc' = "next"
    /\ todo' = Pending
    /\ UNCHANGED <<row, file, copies, cur, stopping, faults>>

(* The for loop ends, or breaks on _stop_event.                            *)
EndPass ==
    /\ pc = "next"
    /\ stopping \/ todo = {}
    /\ pc' = "idle"
    /\ todo' = {}
    /\ UNCHANGED <<row, file, copies, cur, stopping, faults>>

Triage(e) ==
    CASE file[e] = "none"      -> "fail"
      [] file[e] = "oversized" -> "purge"
      [] file[e] = "clip"      -> "send"

Take(e) ==
    /\ pc = "next"
    /\ ~stopping
    /\ e \in todo
    /\ \A f \in todo : e <= f
    /\ cur' = e
    /\ todo' = todo \ {e}
    /\ pc' = Triage(e)
    /\ UNCHANGED <<row, file, copies, stopping, faults>>

(* shutil.rmtree(..., ignore_errors=True) may leave the clip behind.       *)
RemoveOversized ==
    /\ pc = "purge"
    /\ \E f \in {"none", "oversized"} : file' = [file EXCEPT ![cur] = f]
    /\ pc' = "fail"
    /\ UNCHANGED <<row, copies, todo, cur, stopping, faults>>

(* Mutant: uploaded_at = 0, neither pending nor given up.                  *)
MarkFailedWithZero ==
    /\ pc = "fail"
    /\ row' = [row EXCEPT ![cur] = "zero"]
    /\ pc' = "next" /\ cur' = NoEvent
    /\ UNCHANGED <<file, copies, todo, stopping, faults>>

MarkFailed ==
    /\ pc = "fail"
    /\ row' = [row EXCEPT ![cur] = "failed"]
    /\ pc' = "next"
    /\ cur' = NoEvent
    /\ UNCHANGED <<file, copies, todo, stopping, faults>>

(* mark_upload_failed is outside the try of the loop: an exception (a      *)
(* locked database) abandons the whole pass.                               *)
MarkFailedRaises ==
    /\ pc = "fail"
    /\ pc' = "idle"
    /\ todo' = {}
    /\ cur' = NoEvent
    /\ UNCHANGED <<row, file, copies, stopping, faults>>

(* The Conveyor answered OK.                                               *)
SendOk ==
    /\ pc = "send"
    /\ cur \notin Poison
    /\ copies' = [copies EXCEPT ![cur] = @ + 1]
    /\ pc' = "mark"
    /\ UNCHANGED <<row, file, todo, cur, stopping, faults>>

(* The Conveyor accepted the package but the answer never arrived.         *)
SendLosesAnswer ==
    /\ pc = "send"
    /\ cur \notin Poison
    /\ faults < MaxFaults
    /\ faults' = faults + 1
    /\ copies' = [copies EXCEPT ![cur] = @ + 1]
    /\ pc' = "next"
    /\ cur' = NoEvent
    /\ UNCHANGED <<row, file, todo, stopping>>

(* Mutants: the event is given up after one attempt; the exception leaves  *)
(* the for loop.                                                           *)
SendFailsForGood ==
    /\ pc = "send"
    /\ pc' = "fail"
    /\ UNCHANGED <<row, file, copies, todo, cur, stopping, faults>>

SendFailsThePass ==
    /\ pc = "send"
    /\ pc' = "idle" /\ todo' = {} /\ cur' = NoEvent
    /\ UNCHANGED <<row, file, copies, stopping, faults>>

(* Nothing was accepted: no connection, a rejected secret, or a package    *)
(* that cannot be built.  The row stays pending for the next pass.         *)
SendFails ==
    /\ pc = "send"
    /\ pc' = "next"
    /\ cur' = NoEvent
    /\ UNCHANGED <<row, file, copies, todo, stopping, faults>>

(* Mutant: no commit after the UPDATE.                                     *)
MarkUploadedUncommitted ==
    /\ pc = "mark"
    /\ pc' = "next" /\ cur' = NoEvent
    /\ UNCHANGED <<row, file, copies, todo, stopping, faults>>

(* Mutant: the clip is deleted once it is uploaded.                        *)
MarkUploadedAndRemove ==
    /\ pc = "mark"
    /\ row' = [row EXCEPT ![cur] = "uploaded"]
    /\ file' = [file EXCEPT ![cur] = "none"]
    /\ pc' = "next" /\ cur' = NoEvent
    /\ UNCHANGED <<copies, todo, stopping, faults>>

MarkUploaded ==
    /\ pc = "mark"
    /\ row' = [row EXCEPT ![cur] = "uploaded"]
    /\ pc' = "next"
    /\ cur' = NoEvent
    /\ UNCHANGED <<file, copies, todo, stopping, faults>>

MarkUploadedRaises ==
    /\ pc = "mark"
    /\ faults < MaxFaults
    /\ faults' = faults + 1
    /\ pc' = "next"
    /\ cur' = NoEvent
    /\ UNCHANGED <<row, file, copies, todo, stopping>>

-----------------------------------------------------------------------------
Die ==
    /\ pc' = "down"
    /\ todo' = {}
    /\ cur' = NoEvent
    /\ stopping' = FALSE
    /\ UNCHANGED <<row, file, copies>>

(* The process is killed; docker restarts it (restart: unless-stopped).    *)
Crash ==
    /\ pc # "down"
    /\ faults < MaxFaults
    /\ faults' = faults + 1
    /\ Die

(* KeyboardInterrupt: worker.stop(), then main() returns while the daemon  *)
(* thread is wherever it is.                                               *)
Stop ==
    /\ pc # "down"
    /\ ~stopping
    /\ faults < MaxFaults
    /\ faults' = faults + 1
    /\ stopping' = TRUE
    /\ UNCHANGED <<row, file, copies, pc, todo, cur>>

Exit ==
    /\ stopping
    /\ Die
    /\ UNCHANGED faults

Worker ==
    \/ BeginPass \/ EndPass \/ (\E e \in Events : Take(e))
    \/ RemoveOversized \/ MarkFailed \/ MarkFailedRaises
    \/ SendOk \/ SendLosesAnswer \/ SendFails
    \/ MarkUploaded \/ MarkUploadedRaises

Next ==
    \/ \E e \in Events : Record(e)
    \/ Worker
    \/ Start \/ Crash \/ Stop \/ Exit

Spec == Init /\ [][Next]_vars

-----------------------------------------------------------------------------
(* A row is marked uploaded only when the Conveyor holds the clip, however *)
(* answers, writes and process deaths interleave (upload_worker.py:85-102).*)
UploadedWasDelivered ==
    \A e \in Events : row[e] = "uploaded" => copies[e] > 0

(* The worker never gives up on a clip it could have sent, nor on one the  *)
(* Conveyor already has: -1 is written only for a missing or an oversized  *)
(* file, never because a send raised (upload_worker.py:71-84, 101).        *)
FailedWasUndeliverable ==
    \A e \in Events : row[e] = "failed" => copies[e] = 0 /\ file[e] # "clip"

(* What the table says of an event is true of the Conveyor and of the      *)
(* disk, at every moment (upload_worker.py:65-102).                        *)
OutcomesAreTrue == UploadedWasDelivered /\ FailedWasUndeliverable

(* Retries are at-least-once delivery, and not more than that: every copy  *)
(* beyond the first is paid for by a death of the process, a lost answer   *)
(* or a refused write.  The Conveyor sees them under one data_id.          *)
DuplicatesNeedFaults ==
    \A e \in Events : copies[e] <= 1 + faults

(* Every recorded event is settled in the end, in spite of a poison event  *)
(* ahead of it in the snapshot that is retried on every pass.              *)
EventuallySettled ==
    \A e \in Events \ Poison :
        row[e] = "pending" ~> row[e] \in {"uploaded", "failed"}

(* The worker keeps the promise of EventDelivery: outcomes are final, and  *)
(* consistent with what the Conveyor holds.                                *)
Delivery == INSTANCE EventDelivery WITH
    status <- row,
    received <- {e \in Events : copies[e] > 0}

Implements == Delivery!Spec
=============================================================================
