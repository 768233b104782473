-------------------------- MODULE PeriodicFlusher --------------------------
(***************************************************************************)
(* services/recorder/recorder/periodic_flusher.py with extract_clip of     *)
(* shared/orwell_shared/clips.py: the thread of the recorder that cuts, at *)
(* a configurable interval, a clip of the last seconds of every camera out *)
(* of the recorded segments and inserts an event row for it.  ffmpeg       *)
(* writes straight into /events/<event_id>/clip.mp4.                       *)
(*                                                                         *)
(* The config watcher calls update_config from its own thread.  Time is    *)
(* counted in ticks of the wall clock, which may be set back or forward,   *)
(* relative to the last flush.  Only the events of the current round are   *)
(* followed one by one; what earlier rounds left behind is counted.        *)
(***************************************************************************)
EXTENDS Integers, FiniteSets

CONSTANTS
    Cameras,    \* numbers, in the order of the list the flusher was given
    Intervals,  \* values of periodic_upload_interval_s, in ticks
    Steps,      \* ticks by which the wall clock may be set forward or back
    MaxSteps,   \* bound on such steps
    MaxChanges, \* bound on configuration changes
    MaxFaults   \* bound on deaths, failures of ffmpeg and refused inserts

ASSUME CamerasAssumption == Cameras \subseteq Nat /\ IsFiniteSet(Cameras)
(* There is a longest one: PATCH /config accepts up to a day.              *)
ASSUME IntervalsAssumption ==
    /\ Intervals \subseteq Nat \ {0}
    /\ \E n \in Intervals : \A i \in Intervals : i <= n
ASSUME StepsAssumption == Steps \subseteq Int
ASSUME BoundsAssumption ==
    MaxSteps \in Nat /\ MaxChanges \in Nat /\ MaxFaults \in Nat

VARIABLES
    enabled, interval,  \* _enabled, _interval_s
    since,              \* now - last_flush, at most Horizon
    round,              \* now - the time the last flush was found due
    steps,              \* steps of the clock so far
    pc,                 \* the thread; "down" = no recorder process
    stopping,           \* _stop
    todo,               \* cameras still to be served in this round
    dir,                \* dir[c]: /events/<id> of the event of this round
    row,                \* cameras whose event of this round was inserted
    skipped,            \* cameras for which there was nothing to cut
    left,               \* directories without a row left by earlier rounds
    changes, faults

config == <<enabled, interval, changes>>
timers == <<since, round>>
clock == <<timers, steps>>
output == <<dir, row, skipped, left>>
vars == <<config, clock, pc, stopping, todo, output, faults>>

Horizon == CHOOSE n \in Intervals : \A i \in Intervals : i <= n

TypeOK ==
    /\ enabled \in BOOLEAN
    /\ interval \in Intervals
    /\ since \in Int /\ since <= Horizon
    /\ round \in Int /\ round <= Horizon
    /\ steps \in 0..MaxSteps
    /\ pc \in {"down", "wait", "look", "enter", "open", "cut", "insert", "ended"}
    /\ stopping \in BOOLEAN
    /\ todo \subseteq Cameras
    /\ dir \in [Cameras -> {"absent", "empty", "partial", "clip"}]
    /\ row \subseteq Cameras
    /\ skipped \subseteq Cameras
    /\ left \in Nat
    /\ changes \in 0..MaxChanges
    /\ faults \in 0..MaxFaults

NewRound ==
    /\ dir' = [c \in Cameras |-> "absent"]
    /\ row' = {}
    /\ skipped' = {}
    /\ left' = left + Cardinality({c \in Cameras : dir[c] # "absent" /\ c \notin row})

Init ==
    /\ enabled \in BOOLEAN
    /\ interval \in Intervals
    /\ since = 0 /\ round = 0 /\ steps = 0
    /\ pc = "down" /\ stopping = FALSE
    /\ todo = {}
    /\ dir = [c \in Cameras |-> "absent"] /\ row = {} /\ skipped = {} /\ left = 0
    /\ changes = 0 /\ faults = 0

-----------------------------------------------------------------------------
Capped(t) == IF t < Horizon THEN t ELSE Horizon

MoveClock(d) ==
    /\ pc # "down"
    /\ since' = Capped(since + d)
    /\ round' = Capped(round + d)
    /\ UNCHANGED <<config, pc, todo, output, faults, stopping>>

Tick == MoveClock(1) /\ UNCHANGED steps

StepClock ==
    /\ steps < MaxSteps
    /\ steps' = steps + 1
    /\ \E d \in Steps : MoveClock(d)

(* ConfigWatcher -> _on_config_change -> update_config                     *)
UpdateConfig ==
    /\ pc # "down"
    /\ changes < MaxChanges
    /\ changes' = changes + 1
    /\ enabled' \in BOOLEAN
    /\ interval' \in Intervals
    /\ UNCHANGED <<clock, pc, todo, output, faults, stopping>>

(* start(): last_flush = time.time().  The new process reads its own       *)
(* configuration.                                                          *)
Start ==
    /\ pc = "down"
    /\ since' = 0 /\ round' = 0
    /\ pc' = "wait"
    /\ NewRound
    /\ UNCHANGED <<config, steps, todo, faults, stopping>>

(* _stop.wait(0.05) returns: the next turn of the loop, or its end.        *)
Wake ==
    /\ pc = "wait"
    /\ pc' = IF stopping THEN "ended" ELSE "look"
    /\ UNCHANGED <<config, clock, todo, output, faults, stopping>>

(* The time and, under the lock, both fields.                              *)
IsDue == enabled /\ since >= interval

NotDue ==
    /\ pc = "look"
    /\ ~IsDue
    /\ pc' = "wait"
    /\ UNCHANGED <<config, clock, todo, output, faults, stopping>>

Due ==
    /\ pc = "look"
    /\ IsDue
    /\ round' = 0
    /\ pc' = "enter"
    /\ UNCHANGED <<config, since, steps, todo, output, faults, stopping>>

(* Mutant: last_flush += interval, to catch up.                            *)
EndRoundCatchesUp ==
    /\ pc' = "wait"
    /\ todo' = {}
    /\ since' = since - interval

(* last_flush = now, the time at which the flush was found due; also when  *)
(* the flush raised.                                                       *)
EndRound ==
    /\ pc' = "wait"
    /\ todo' = {}
    /\ since' = round

(* _flush_all reads _enabled again, without the lock.                      *)
Refuse ==
    /\ pc = "enter"
    /\ ~enabled
    /\ EndRound
    /\ UNCHANGED <<config, round, steps, output, faults, stopping>>

BeginRound ==
    /\ pc = "enter"
    /\ enabled
    /\ NewRound
    /\ todo' = Cameras
    /\ pc' = "open"
    /\ UNCHANGED <<config, clock, faults, stopping>>

InHand(c) == c \in todo /\ \A d \in todo : c <= d

Finish ==
    /\ pc = "open"
    /\ todo = {}
    /\ EndRound
    /\ UNCHANGED <<config, round, steps, output, faults, stopping>>

(* _make_clip: mkdir of the final directory.                               *)
OpenDir(c) ==
    /\ pc = "open"
    /\ InHand(c)
    /\ dir' = [dir EXCEPT ![c] = "empty"]
    /\ pc' = "cut"
    /\ UNCHANGED <<config, clock, todo, row, skipped, left, faults, stopping>>

(* Mutant: return instead of continue.                                     *)
NoSegmentsReturns(c) ==
    /\ pc = "cut"
    /\ InHand(c)
    /\ dir[c] = "empty"
    /\ dir' = [dir EXCEPT ![c] = "absent"]
    /\ skipped' = skipped \cup {c}
    /\ todo' = {}
    /\ pc' = "open"
    /\ UNCHANGED <<config, clock, row, left, faults, stopping>>

(* No row of the index overlaps the window: NoSegments, rmdir, a warning.  *)
NoSegments(c) ==
    /\ pc = "cut"
    /\ InHand(c)
    /\ dir[c] = "empty"
    /\ dir' = [dir EXCEPT ![c] = "absent"]
    /\ skipped' = skipped \cup {c}
    /\ todo' = todo \ {c}
    /\ pc' = "open"
    /\ UNCHANGED <<config, clock, row, left, faults, stopping>>

FfmpegWrites(c) ==
    /\ pc = "cut"
    /\ InHand(c)
    /\ dir[c] = "empty"
    /\ dir' = [dir EXCEPT ![c] = "partial"]
    /\ UNCHANGED <<config, clock, pc, todo, row, skipped, left, faults, stopping>>

FfmpegEnds(c) ==
    /\ pc = "cut"
    /\ InHand(c)
    /\ dir[c] = "partial"
    /\ dir' = [dir EXCEPT ![c] = "clip"]
    /\ pc' = "insert"
    /\ UNCHANGED <<config, clock, todo, row, skipped, left, faults, stopping>>

Insert(c) ==
    /\ pc = "insert"
    /\ InHand(c)
    /\ row' = row \cup {c}
    /\ todo' = todo \ {c}
    /\ pc' = "open"
    /\ UNCHANGED <<config, clock, dir, skipped, left, faults, stopping>>

(* Mutant: the exception ends the thread.                                  *)
RaisesForGood ==
    /\ pc \in {"cut", "insert"}
    /\ faults < MaxFaults
    /\ faults' = faults + 1
    /\ pc' = "dead" /\ todo' = {}
    /\ UNCHANGED <<config, clock, output, stopping>>

(* ffmpeg fails (a segment was evicted after the query, a full disk) or    *)
(* the insert is refused: _loop catches it, the other cameras are skipped. *)
Raises ==
    /\ pc \in {"cut", "insert"}
    /\ faults < MaxFaults
    /\ faults' = faults + 1
    /\ EndRound
    /\ UNCHANGED <<config, round, steps, output, stopping>>

(* SIGTERM or a recording error ended the main loop: flusher.stop().       *)
Stop ==
    /\ pc # "down"
    /\ ~stopping
    /\ stopping' = TRUE
    /\ UNCHANGED <<config, clock, pc, todo, output, faults>>

(* Mutant: the process does not wait for the thread.                       *)
ExitAtOnce ==
    /\ stopping
    /\ pc' = "down"
    /\ stopping' = FALSE
    /\ todo' = {}
    /\ UNCHANGED <<config, clock, output, faults>>

(* The join of the thread returns and the process ends.                    *)
Exit ==
    /\ pc = "ended"
    /\ pc' = "down"
    /\ stopping' = FALSE
    /\ UNCHANGED <<config, clock, todo, output, faults>>

(* Killed, or the join gave up after 30 s: the thread is cut off wherever  *)
(* it is.                                                                  *)
Die ==
    /\ pc # "down"
    /\ faults < MaxFaults
    /\ faults' = faults + 1
    /\ pc' = "down"
    /\ stopping' = FALSE
    /\ todo' = {}
    /\ UNCHANGED <<config, clock, output>>

Thread ==
    \/ Wake \/ NotDue \/ Due \/ Refuse \/ BeginRound \/ Finish \/ Raises
    \/ \E c \in todo : OpenDir(c) \/ NoSegments(c) \/ FfmpegWrites(c)
                       \/ FfmpegEnds(c) \/ Insert(c)

Next == Tick \/ StepClock \/ UpdateConfig \/ Start \/ Thread \/ Stop \/ Exit \/ Die

Spec == Init /\ [][Next]_vars

(* Time passes, the thread is scheduled, docker restarts the recorder.     *)
FairSpec == Spec /\ WF_vars(Tick) /\ WF_vars(Thread) /\ WF_vars(Start)

-----------------------------------------------------------------------------
(* The table and /events agree about every camera of the round: no event,  *)
(* or a row with a finished clip.  Although the clip is written in place   *)
(* (periodic_flusher.py:82-112), a directory without a row, or a row       *)
(* without a finished clip, costs a fault; an empty buffer leaves nothing, *)
(* and a stop in order waits for the round (periodic_flusher.py:47-50).    *)
Agree(c) ==
    \/ dir[c] = "absent" /\ c \notin row
    \/ dir[c] = "clip" /\ c \in row

Disagreeing == {c \in Cameras : ~Agree(c)}

LeftoversNeedFaults ==
    left + Cardinality(Disagreeing)
        <= faults + (IF pc \in {"cut", "insert"} THEN 1 ELSE 0)

(* A failing flush is not repeated at once: last_flush moves on also when  *)
(* the flush raised, so whatever the rounds do and the watcher changes,    *)
(* two flushes of one process start at least the current interval apart by *)
(* the wall clock; a late flush does not make the next one early.          *)
RoundsAreSpaced ==
    [][pc = "look" /\ pc' = "enter" => round >= interval]_vars

(* While the upload stays enabled and the recorder is not told to stop,    *)
(* there is always another round that gets as far as each camera ("para    *)
(* cada câmera configurada", docs/superpowers/                             *)
(* specs/2026-06-08-periodic-upload-config-remote.md:64), whatever failed  *)
(* before and however the clock was set.  A round empties row and skipped. *)
FlushesKeepComing ==
    <>[](enabled /\ ~stopping) =>
        \A c \in Cameras : []<>(c \in todo) /\ []<>(c \in row \cup skipped)
=============================================================================
