------------------------------ MODULE ClipApi ------------------------------
(***************************************************************************)
(* GET /clips of services/clip-api with extract_clip of                    *)
(* shared/orwell_shared/clips.py, for one camera: a request looks up the   *)
(* segments of its window, ffmpeg joins them into a temporary file named   *)
(* after the window in whole seconds, and the file is sent.  The handlers  *)
(* run in a thread pool; the recorder, another process, indexes new        *)
(* segments and evicts old ones, file first and row second.                *)
(*                                                                         *)
(* Segments are numbered in time order, so what is on disk and what is in  *)
(* the index are intervals.  ffmpeg is external: it opens the first input, *)
(* then truncates the output, then opens each next input when it needs it. *)
(***************************************************************************)
EXTENDS Integers

CONSTANTS
    Requests,
    Windows,    \* windows asked for: <<first segment, last segment>>
    Second,     \* segment boundaries that fall into the same second
    MaxSegment  \* bound: number of the last segment recorded

ASSUME WindowsAssumption == Windows \subseteq Nat \X Nat
ASSUME NumbersAssumption == Second \in Nat \ {0} /\ MaxSegment \in Nat

VARIABLES
    newest,     \* the newest indexed segment
    removed,    \* files 1..removed were evicted
    dropped,    \* rows 1..dropped were deleted
    pc,         \* per request
    window,     \* per request: what it asked for
    plan,       \* per request: segments ffmpeg still has to copy
    writers,    \* writers[o]: whose ffmpeg wrote to o since it was truncated
    answer

store == <<newest, removed, dropped>>
vars == <<store, pc, window, plan, writers, answer>>

Rows  == (dropped + 1)..newest
Files == (removed + 1)..newest

(* clip-{camera}-{int(s)}-{int(e)}.mp4                                     *)
Outputs == {<<w[1] \div Second, w[2] \div Second>> : w \in Windows}

(* Mutant: the name does not contain the window.                           *)
OutOfCamera(r) == CHOOSE o \in Outputs : TRUE

Out(r) == <<window[r][1] \div Second, window[r][2] \div Second>>

TypeOK ==
    /\ newest \in 0..MaxSegment
    /\ removed \in 0..newest
    /\ dropped \in 0..removed
    /\ pc \in [Requests -> {"idle", "start", "copy", "send", "done"}]
    /\ window \in [Requests -> Windows]
    /\ plan \in [Requests -> SUBSET (1..MaxSegment)]
    /\ writers \in [Outputs -> SUBSET Requests]
    /\ answer \in [Requests -> {"none", "404", "500", "clip", "torn"}]

Init ==
    /\ newest = 0 /\ removed = 0 /\ dropped = 0
    /\ pc = [r \in Requests |-> "idle"]
    /\ window \in [Requests -> Windows]
    /\ plan = [r \in Requests |-> {}]
    /\ writers = [o \in Outputs |-> {}]
    /\ answer = [r \in Requests |-> "none"]

-----------------------------------------------------------------------------
(* The recorder: index.add_segment, os.remove, index.delete.               *)
AddRow ==
    /\ newest < MaxSegment
    /\ newest' = newest + 1
    /\ UNCHANGED <<removed, dropped, pc, window, plan, writers, answer>>

(* Mutant: a file is removed again instead of its row.                     *)
RemoveAhead ==
    /\ removed <= newest
    /\ removed' = removed + 1
    /\ UNCHANGED <<newest, dropped, pc, window, plan, writers, answer>>

RemoveFile ==
    /\ removed = dropped
    /\ removed < newest
    /\ removed' = removed + 1
    /\ UNCHANGED <<newest, dropped, pc, window, plan, writers, answer>>

DropRow ==
    /\ dropped < removed
    /\ dropped' = dropped + 1
    /\ UNCHANGED <<newest, removed, pc, window, plan, writers, answer>>

-----------------------------------------------------------------------------
End(r, status) ==
    /\ answer' = [answer EXCEPT ![r] = status]
    /\ pc' = [pc EXCEPT ![r] = "done"]

(* Mutant: the window has no beginning.                                    *)
SelectedFromTheStart(r) == {s \in Rows : s <= window[r][2]}

Selected(r) == {s \in Rows : window[r][1] <= s /\ s <= window[r][2]}

(* The input ffmpeg needs next.                                            *)
IsNext(r, s) == s \in plan[r] /\ \A t \in plan[r] : s <= t
NextIsThere(r) == \E s \in Files : IsNext(r, s)

(* select_segments; NoSegments becomes a 404.                              *)
Query(r) ==
    /\ pc[r] = "idle"
    /\ Selected(r) # {}
    /\ plan' = [plan EXCEPT ![r] = Selected(r)]
    /\ pc' = [pc EXCEPT ![r] = "start"]
    /\ UNCHANGED <<store, window, writers, answer>>

NotFound(r) ==
    /\ pc[r] = "idle"
    /\ Selected(r) = {}
    /\ End(r, "404")
    /\ UNCHANGED <<store, window, plan, writers>>

(* ffmpeg -y: the first input is there, the output is truncated.           *)
StartFfmpeg(r) ==
    /\ pc[r] = "start"
    /\ \E s \in Files : IsNext(r, s) /\ plan' = [plan EXCEPT ![r] = @ \ {s}]
    /\ writers' = [writers EXCEPT ![Out(r)] = {r}]
    /\ pc' = [pc EXCEPT ![r] = "copy"]
    /\ UNCHANGED <<store, window, answer>>

(* It was evicted after the query, or its row was about to be deleted.     *)
(* ffmpeg fails and nobody catches the RuntimeError.                       *)
FfmpegFails(r) ==
    /\ pc[r] \in {"start", "copy"}
    /\ plan[r] # {} /\ ~NextIsThere(r)
    /\ End(r, "500")
    /\ UNCHANGED <<store, window, plan, writers>>

CopySegment(r) ==
    /\ pc[r] = "copy"
    /\ \E s \in Files : IsNext(r, s) /\ plan' = [plan EXCEPT ![r] = @ \ {s}]
    /\ writers' = [writers EXCEPT ![Out(r)] = @ \cup {r}]
    /\ UNCHANGED <<store, pc, window, answer>>

(* The index of the MP4 is moved to the front (+faststart).  An input that *)
(* is missing may also just end the clip early.                            *)
FinishFfmpeg(r) ==
    /\ pc[r] = "copy"
    /\ ~NextIsThere(r)
    /\ writers' = [writers EXCEPT ![Out(r)] = @ \cup {r}]
    /\ pc' = [pc EXCEPT ![r] = "send"]
    /\ UNCHANGED <<store, window, plan, answer>>

(* FileResponse has read the file by its path.                             *)
Send(r) ==
    /\ pc[r] = "send"
    /\ End(r, IF writers[Out(r)] = {r} THEN "clip" ELSE "torn")
    /\ UNCHANGED <<store, window, plan, writers>>

Next ==
    \/ AddRow \/ RemoveFile \/ DropRow
    \/ \E r \in Requests :
          \/ Query(r) \/ NotFound(r) \/ StartFfmpeg(r) \/ FfmpegFails(r)
          \/ CopySegment(r) \/ FinishFfmpeg(r) \/ Send(r)

Spec == Init /\ [][Next]_vars

-----------------------------------------------------------------------------
(* What is sent is what the request's own ffmpeg wrote and finished, with  *)
(* nothing of another request in it, if the windows of the requests differ *)
(* when counted in whole seconds (clip_api/main.py:77-82).                 *)
WindowsDiffer ==
    \A r, q \in Requests : r # q =>
        \E side \in 1..2 :
            window[r][side] \div Second # window[q][side] \div Second

OwnClipIfWindowsDiffer ==
    WindowsDiffer => \A r \in Requests : answer[r] # "torn"

(* "MP4 faststart standalone (fácil de tocar/baixar)" (docs/               *)
(* architecture.md:83): every clip that is sent is one, also when two      *)
(* clients ask for the same window.                                        *)
EveryClipIsStandalone == \A r \in Requests : answer[r] # "torn"

(* Whoever asks for a recorded window and gets a 500, instead of the 404   *)
(* of docs/architecture.md:99, or a clip that silently ends early (ffmpeg  *)
(* exits with 0), has lost a race with retention: the segments are missing *)
(* because retention did reach into the window after the query, not        *)
(* because of what another request or the recorder was doing.              *)
ShortfallNeedsEviction ==
    \A r \in Requests :
        pc[r] = "done" /\ plan[r] # {} => window[r][1] <= removed
=============================================================================
