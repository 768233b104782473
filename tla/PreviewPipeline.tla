-------------------------- MODULE PreviewPipeline --------------------------
(***************************************************************************)
(* services/recorder/recorder/preview_pipeline.py: the supervisor of the   *)
(* preview pipeline of one camera.  On ERROR or EOS it tears the pipeline  *)
(* down and builds it again after a delay that grows with each attempt and *)
(* returns to the first value once a pipeline played long enough.          *)
(*                                                                         *)
(* Everything is a callback of one GLib main loop.  What GLib and          *)
(* GStreamer hold (pipelines that play, timeouts, messages) is kept apart  *)
(* from the references the object has to it, so that a lost reference      *)
(* shows.  parse_launch of the description that worked at start() works.   *)
(***************************************************************************)
EXTENDS Integers, Sequences

CONSTANTS
    Schedule,       \* the backoff tuple, in ticks
    StableAfter,    \* STABLE_AFTER_S, in ticks
    MaxFailures     \* bound: pipelines that fail

ASSUME ScheduleAssumption == Schedule \in Seq(Nat)
ASSUME StableAssumption == StableAfter \in Nat \ {0}
ASSUME BoundAssumption == MaxFailures \in Nat

VARIABLES
    playing,    \* pipelines in PLAYING, by number
    failed,     \* those that reported an error or the end
    posted,     \* messages on their buses
    restarts,   \* live timeouts that call _do_restart
    stables,    \* live timeouts that call _mark_stable
    pipeline, restart, stable,  \* the references of the object, 0 for None
    attempt, stopped,
    built,      \* pipelines built so far
    sources,    \* timeouts created so far
    age         \* ticks since the last build, up to StableAfter

world == <<playing, failed, posted, restarts, stables>>
object == <<pipeline, restart, stable, attempt, stopped>>
counters == <<built, sources>>
vars == <<world, object, counters, age>>

Timeouts == [id : Nat \ {0}, left : Nat]
Messages == [from : Nat \ {0}, nr : 1..2]

TypeOK ==
    /\ playing \subseteq Nat \ {0}
    /\ failed \subseteq Nat \ {0}
    /\ posted \subseteq Messages
    /\ restarts \subseteq Timeouts
    /\ stables \subseteq Timeouts
    /\ pipeline \in Nat
    /\ restart \in Nat
    /\ stable \in Nat
    /\ attempt \in Nat
    /\ stopped \in BOOLEAN
    /\ built \in Nat
    /\ sources \in Nat
    /\ age \in 0..StableAfter

Init ==
    /\ playing = {} /\ failed = {} /\ posted = {}
    /\ restarts = {} /\ stables = {}
    /\ pipeline = 0 /\ restart = 0 /\ stable = 0
    /\ attempt = 0 /\ stopped = FALSE
    /\ built = 0 /\ sources = 0 /\ age = 0

-----------------------------------------------------------------------------
(* next_backoff                                                            *)
Backoff(n) ==
    IF Schedule = <<>> THEN 0
    ELSE Schedule[IF n < Len(Schedule) THEN n + 1 ELSE Len(Schedule)]

Timeout(left) == [id |-> sources + 1, left |-> left]
Remove(timeouts, ref) == {t \in timeouts : t.id # ref}

(* _build_and_play, with _stopped false                                    *)
Build ==
    /\ built' = built + 1
    /\ pipeline' = built + 1
    /\ playing' = playing \cup {built + 1}
    /\ stable' = sources + 1
    /\ stables' = stables \cup {Timeout(StableAfter)}
    /\ sources' = sources + 1
    /\ age' = 0

(* Mutant: the stable timeout is forgotten, not removed.                   *)
TeardownPipeline ==
    /\ stable' = 0
    /\ playing' = playing \ {pipeline}
    /\ pipeline' = 0
    /\ UNCHANGED stables

(* _teardown.  GstPipeline flushes its bus on the way down, except from a  *)
(* pipeline that never left NULL.                                          *)
Teardown ==
    /\ stables' = Remove(stables, stable)
    /\ stable' = 0
    /\ playing' = playing \ {pipeline}
    /\ pipeline' = 0

Flushed(messages) == {m \in messages : m.from # pipeline}

Start ==
    /\ built = 0
    /\ ~stopped
    /\ Build
    /\ UNCHANGED <<failed, posted, restarts, restart, attempt, stopped>>

(* One cause often posts more than one message.                            *)
Fail(p) ==
    /\ p \in playing \ failed
    /\ \E n \in 1..2 :
          posted' = posted \cup {[from |-> p, nr |-> k] : k \in 1..n}
    /\ failed' = failed \cup {p}
    /\ built <= MaxFailures
    /\ UNCHANGED <<playing, restarts, stables, object, counters, age>>

(* _on_bus_message -> _schedule_restart: nothing to do                     *)
IgnoreMessage(m) ==
    /\ m \in posted
    /\ stopped \/ restart # 0
    /\ posted' = posted \ {m}
    /\ UNCHANGED <<playing, failed, restarts, stables, object, counters, age>>

(* Mutant: a second message schedules a second restart.                    *)
ScheduleRestartAgain(m) ==
    /\ m \in posted
    /\ ~stopped
    /\ Teardown
    /\ posted' = posted \ {m}
    /\ restart' = sources + 1
    /\ restarts' = restarts \cup {Timeout(Backoff(attempt))}
    /\ sources' = sources + 1
    /\ attempt' = attempt + 1
    /\ UNCHANGED <<failed, stopped, built, age>>

(* _on_bus_message -> _schedule_restart                                    *)
ScheduleRestart(m) ==
    /\ m \in posted
    /\ ~stopped /\ restart = 0
    /\ Teardown
    /\ posted' \in {posted \ {m}, Flushed(posted) \ {m}}
    /\ restart' = sources + 1
    /\ restarts' = restarts \cup {Timeout(Backoff(attempt))}
    /\ sources' = sources + 1
    /\ attempt' = attempt + 1
    /\ UNCHANGED <<failed, stopped, built, age>>

(* Mutant: _restart_source is not cleared.                                 *)
DoRestartUncleared(t) ==
    /\ t \in restarts
    /\ t.left = 0
    /\ restarts' = restarts \ {t}
    /\ IF stopped
       THEN UNCHANGED <<playing, stables, pipeline, stable, counters, age>>
       ELSE Build
    /\ UNCHANGED <<failed, posted, restart, attempt, stopped>>

(* _do_restart                                                             *)
DoRestart(t) ==
    /\ t \in restarts
    /\ t.left = 0
    /\ restarts' = restarts \ {t}
    /\ restart' = 0
    /\ IF stopped
       THEN UNCHANGED <<playing, stables, pipeline, stable, counters, age>>
       ELSE Build
    /\ UNCHANGED <<failed, posted, attempt, stopped>>

(* Mutants: the backoff decays without a floor; it never starts over.      *)
MarkStableTo(t, n) ==
    /\ t \in stables
    /\ t.left = 0
    /\ stables' = stables \ {t}
    /\ stable' = 0
    /\ attempt' = n
    /\ UNCHANGED <<playing, failed, posted, restarts, pipeline, restart,
                   stopped, counters, age>>

MarkStableDecays(t) == MarkStableTo(t, attempt - 2)
MarkStableForgets(t) == MarkStableTo(t, attempt)

(* _mark_stable                                                            *)
MarkStable(t) ==
    /\ t \in stables
    /\ t.left = 0
    /\ stables' = stables \ {t}
    /\ stable' = 0
    /\ attempt' = 0
    /\ UNCHANGED <<playing, failed, posted, restarts, pipeline, restart,
                   stopped, counters, age>>

(* Mutant: the pending restart stays with GLib.                            *)
StopLeavesRestart ==
    /\ ~stopped
    /\ stopped' = TRUE
    /\ restart' = 0
    /\ Teardown
    /\ UNCHANGED <<posted, restarts, failed, attempt, counters, age>>

(* stop() of the object; a callback already due may still come.            *)
Stop ==
    /\ ~stopped
    /\ stopped' = TRUE
    /\ restarts' = Remove(restarts, restart)
    /\ restart' = 0
    /\ Teardown
    /\ posted' \in {posted, Flushed(posted)}
    /\ UNCHANGED <<failed, attempt, counters, age>>

Sooner(timeouts) ==
    {[t EXCEPT !.left = IF t.left = 0 THEN 0 ELSE t.left - 1] : t \in timeouts}

Tick ==
    /\ restarts' = Sooner(restarts)
    /\ stables' = Sooner(stables)
    /\ age' = IF age < StableAfter THEN age + 1 ELSE age
    /\ UNCHANGED <<playing, failed, posted, object, counters>>

Callback ==
    \/ \E m \in posted : IgnoreMessage(m) \/ ScheduleRestart(m)
    \/ \E t \in restarts : DoRestart(t)
    \/ \E t \in stables : MarkStable(t)

Next == Start \/ Stop \/ Tick \/ Callback \/ \E p \in playing : Fail(p)

Spec == Init /\ [][Next]_vars

-----------------------------------------------------------------------------
(* From start() to stop() the preview either plays or is due to be built   *)
(* again, never both and never neither: a second message about the same    *)
(* failure must not schedule a second restart.                             *)
AlwaysSupervised ==
    built > 0 /\ ~stopped => ((pipeline = 0) <=> (restart # 0))

(* GStreamer and GLib hold nothing the object lost its reference to: no    *)
(* second pipeline plays, no forgotten timeout fires into a new pipeline.  *)
NothingIsOrphaned ==
    /\ playing = {pipeline} \ {0}
    /\ {t.id : t \in restarts} = {restart} \ {0}
    /\ {t.id : t \in stables} = {stable} \ {0}

(* Whatever was pending when stop() ran, nothing plays or is due after it. *)
StopIsFinal == stopped => playing = {} /\ restarts = {} /\ stables = {}

(* The backoff starts over only when the pipeline that plays now has       *)
(* played for the stable period (STABLE_AFTER_S), not an earlier one.      *)
BackoffIsEarned ==
    [][attempt' < attempt => pipeline # 0 /\ age = StableAfter]_vars

(* When the failures end the preview plays and its backoff starts over.    *)
PreviewRecovers == <>[](stopped \/ (pipeline # 0 /\ attempt = 0))
=============================================================================
