----------------------------- MODULE EventFlow -----------------------------
(***************************************************************************)
(* The life of an event across three processes that share /events and the  *)
(* "events" table: the recorder publishes the clip and commits the row     *)
(* (EventClip), the uploader sends, gives up or deletes (UploadWorker), the*)
(* clip API looks the row up and serves the file (clip_api/main.py).  They *)
(* exchange no message; the row is the only sign that a clip is ready.     *)
(***************************************************************************)
EXTENDS EventClip

CONSTANTS
    MaxClip,            \* max_clip_bytes, in fragments
    MaxWorkerFaults     \* MaxFaults of the uploader

(* An event is named by its rank, as in UploadWorker.                      *)
ASSUME FlowAssumption ==
    Events \subseteq Nat /\ MaxClip \in Nat /\ MaxWorkerFaults \in Nat

VARIABLES
    outcome,    \* uploaded_at of each row
    found,      \* /events/<e>/clip.mp4 as another process finds it
    copies, wpc, wtodo, wcur, stopping, wfaults,    \* see UploadWorker
    apc,        \* the request for a clip that the API is answering
    asked,      \* its event, as a set of at most one
    answer      \* answer[e]: what the last request for the clip of e got

worker == <<outcome, found, copies, wpc, wtodo, wcur, stopping, wfaults>>
api == <<apc, asked, answer>>

Worker == INSTANCE UploadWorker WITH
    row <- outcome, file <- found, pc <- wpc, todo <- wtodo, cur <- wcur,
    faults <- wfaults, MaxFaults <- MaxWorkerFaults, Poison <- {}

FInit ==
    /\ Init
    /\ Worker!Init
    /\ apc = "idle" /\ asked = {} /\ answer = [e \in Events |-> "none"]

Oversized(e) == Cardinality(clip[e]) > MaxClip

OnDisk(e) ==
    CASE clip[e] = {}  -> "none"
      [] Oversized(e)  -> "oversized"
      [] OTHER         -> "clip"

-----------------------------------------------------------------------------
(* A row the recorder (or another thread on its connection) commits is the *)
(* row the uploader finds.                                                 *)
RecorderStep ==
    /\ Next
    /\ IF row' = row
       THEN UNCHANGED worker
       ELSE \E e \in Events :
               /\ row'[e] # row[e]
               /\ Worker!Record(e)
               /\ found'[e] = OnDisk(e)
    /\ UNCHANGED api

UploaderStep ==
    /\ Worker!Worker \/ Worker!Start \/ Worker!Crash \/ Worker!Stop \/ Worker!Exit
    /\ UNCHANGED <<vars, api>>

(* GET /events/{id}/clip and /orwell/clip/...: the row is looked up; one   *)
(* that is absent or has no clip_path is answered 404 at once.             *)
GetEvent(e) ==
    /\ apc = "idle"
    /\ row[e] = "clip"
    /\ apc' = "look" /\ asked' = {e}
    /\ UNCHANGED <<answer, vars, worker>>

Answer(how) ==
    /\ answer' = [e \in Events |-> IF e \in asked THEN how ELSE answer[e]]
    /\ apc' = "idle" /\ asked' = {}
    /\ UNCHANGED <<vars, worker>>

Present == \A e \in asked : found[e] # "none"

(* is_file() *)
IsFile ==
    /\ apc = "look"
    /\ Present
    /\ apc' = "send"
    /\ UNCHANGED <<asked, answer, vars, worker>>

(* extract_event_clip looks for legacy fragments, and finds none: 404.     *)
IsNoFile == apc = "look" /\ ~Present /\ Answer("missing")

(* FileResponse looks at the path again, after the handler returned.       *)
SendFile == apc = "send" /\ Present /\ Answer("served")
SendRaises == apc = "send" /\ ~Present /\ Answer("error")

FNext ==
    \/ RecorderStep \/ UploaderStep
    \/ (\E e \in Events : GetEvent(e)) \/ IsFile \/ IsNoFile \/ SendFile \/ SendRaises

FSpec == FInit /\ [][FNext]_<<vars, worker, api>>

-----------------------------------------------------------------------------
(* The uploader writes -1 only for an event without a clip or with one     *)
(* that is too large, never for a clip that was about to appear: giving up *)
(* is for ever, so the row must not be visible before the file             *)
(* (clips.py:104 before event_handler.py:37, upload_worker.py:71-84).      *)
NothingGivenUpTooEarly ==
    \A e \in Events : outcome[e] = "failed" => row[e] = "null" \/ Oversized(e)

(* A request for a clip whose row has a clip_path is answered with the     *)
(* clip, before, while and after it is uploaded, unless the uploader has   *)
(* removed it for its size (clip_api/main.py:104-117, 137-150).            *)
ServedAsAdvertised ==
    \A e \in Events : answer[e] \in {"missing", "error"} => Oversized(e)
=============================================================================
