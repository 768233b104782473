------------------------------ MODULE Recorder ------------------------------
(***************************************************************************)
(* The main thread of the recorder (services/recorder/recorder/main.py,    *)
(* from the start of the pipelines to the end of the process) around one   *)
(* preview supervisor (PreviewPipeline).                                   *)
(*                                                                         *)
(* Callbacks run only inside loop.run(): those of the preview, the bus     *)
(* watch of the recording pipelines, and the idle source that SIGTERM and  *)
(* a recording error add to leave the loop.  GLib dispatches an idle       *)
(* source only when no timeout and no bus message is ready.  A signal or   *)
(* an error may come long before the loop runs: the preview starts in      *)
(* between.                                                                *)
(***************************************************************************)
EXTENDS PreviewPipeline

VARIABLES
    main,       \* the step of main()
    recording,  \* the recording pipelines: "off", "playing", "failed"
    reported,   \* an ERROR of theirs is on their bus
    told,       \* SIGTERM or SIGINT was received
    quit        \* an idle source that calls loop.quit exists

process == <<main, recording, reported, told, quit>>

RInit ==
    /\ Init
    /\ main = "boot" /\ recording = "off"
    /\ reported = FALSE /\ told = FALSE /\ quit = FALSE

Step(from, to) == main = from /\ main' = to

-----------------------------------------------------------------------------
StartRecording ==
    /\ Step("boot", "threads")
    /\ recording' = "playing"
    /\ UNCHANGED <<vars, reported, told, quit>>

(* Flusher, watcher and indexer start; then the signal handlers are set.   *)
SetHandlers ==
    /\ Step("threads", "preview")
    /\ UNCHANGED <<vars, recording, reported, told, quit>>

(* The buses are watched, what they hold already included.                 *)
StartPreview ==
    /\ Step("preview", "ready")
    /\ Start
    /\ UNCHANGED <<recording, reported, told, quit>>

RunLoop ==
    /\ Step("ready", "loop")
    /\ UNCHANGED <<vars, recording, reported, told, quit>>

(* Outside main(): a recording pipeline fails.                             *)
RecordingFails ==
    /\ recording = "playing"
    /\ recording' = "failed"
    /\ reported' = TRUE
    /\ UNCHANGED <<vars, main, told, quit>>

Handled == main \notin {"boot", "threads", "gone"}

(* Mutant: the handler calls loop.quit itself.                             *)
SignalQuits ==
    /\ Handled
    /\ told' = TRUE
    /\ main' = IF main = "loop" THEN "threads stop" ELSE main
    /\ UNCHANGED <<vars, recording, reported, quit>>

(* _stop_main_loop: GLib.idle_add(loop.quit)                               *)
Signal ==
    /\ Handled
    /\ told' = TRUE
    /\ quit' = TRUE
    /\ UNCHANGED <<vars, main, recording, reported>>

-----------------------------------------------------------------------------
(* _on_bus_message                                                         *)
NoticeError ==
    /\ reported
    /\ reported' = FALSE
    /\ quit' = TRUE
    /\ UNCHANGED <<vars, main, recording, told>>

Ready ==
    \/ reported
    \/ posted # {}
    \/ \E t \in restarts \cup stables : t.left = 0

Quit ==
    /\ quit
    /\ ~Ready
    /\ quit' = FALSE
    /\ main' = "threads stop"
    /\ UNCHANGED <<vars, recording, reported, told>>

Dispatch ==
    /\ main = "loop"
    /\ (Callback /\ UNCHANGED process) \/ NoticeError \/ Quit

(* finally: the flusher is given 30 s, watcher and indexer are only told.  *)
StopThreads ==
    /\ Step("threads stop", "preview stop")
    /\ UNCHANGED <<vars, recording, reported, told, quit>>

StopPreview ==
    /\ Step("preview stop", "recording stop")
    /\ Stop
    /\ UNCHANGED <<recording, reported, told, quit>>

StopRecording ==
    /\ Step("recording stop", "gone")
    /\ recording' = "off"
    /\ UNCHANGED <<vars, reported, told, quit>>

Main ==
    \/ StartRecording \/ SetHandlers \/ StartPreview \/ RunLoop
    \/ StopThreads \/ StopPreview \/ StopRecording

RNext ==
    \/ Main \/ Dispatch \/ RecordingFails \/ Signal
    \/ (Tick \/ \E p \in playing : Fail(p)) /\ UNCHANGED process

RSpec == RInit /\ [][RNext]_<<vars, process>>

(* The main thread runs, its loop dispatches what is ready, time passes.   *)
RFairSpec ==
    /\ RSpec
    /\ WF_<<vars, process>>(Main)
    /\ WF_<<vars, process>>(Dispatch)
    /\ WF_vars(Tick)

-----------------------------------------------------------------------------
(* A signal or a recording error always ends the process in order, also    *)
(* one that comes before the loop runs, between two restarts of the        *)
(* preview or with its messages still queued (main.py:303-341): nothing    *)
(* records or plays any more, so docker can start it anew.                 *)
ShutsDown ==
    (told \/ recording = "failed")
        ~> (main = "gone" /\ recording = "off" /\ playing = {})
=============================================================================
