----------------------- MODULE PreviewPipeline_proofs ----------------------
(***************************************************************************)
(* Proofs about PreviewPipeline for every backoff schedule, every stable   *)
(* period and any number of failures, and about Recorder, whose main loop  *)
(* runs its callbacks.                                                     *)
(*                                                                         *)
(* The inductive invariant says that the references and what GLib and      *)
(* GStreamer hold agree (Agree), that the stable timeout belongs to the    *)
(* pipeline that plays and counts down as the pipeline ages (Counts), and  *)
(* that exactly one of pipeline and restart is there in between start()    *)
(* and stop() (Supervised).                                                *)
(***************************************************************************)
EXTENDS Recorder, TLAPS

(* A set of timeouts holds at most the one that is referenced.             *)
Holds(timeouts, ref) ==
    /\ \A t \in timeouts : t.id = ref
    /\ \A t, u \in timeouts : t = u
    /\ ref # 0 => timeouts # {}

Agree ==
    /\ playing = {pipeline} \ {0}
    /\ Holds(restarts, restart)
    /\ Holds(stables, stable)

Counts ==
    /\ stable # 0 => pipeline # 0
    /\ \A t \in stables : t.left + age = StableAfter

Supervised ==
    /\ built > 0 /\ ~stopped => ((pipeline = 0) <=> (restart # 0))
    /\ built = 0 \/ stopped => pipeline = 0 /\ restart = 0 /\ stable = 0
    /\ built = 0 => posted = {}

IInv == TypeOK /\ Agree /\ Counts /\ Supervised

LEMMA NoneHeld ==
    ASSUME NEW timeouts, timeouts \subseteq Timeouts, Holds(timeouts, 0)
    PROVE  timeouts = {}
BY DEF Holds, Timeouts

LEMMA NewTimeout ==
    ASSUME NEW n \in Nat, NEW left \in Nat
    PROVE  /\ [id |-> n + 1, left |-> left] \in Timeouts
           /\ Holds({[id |-> n + 1, left |-> left]}, n + 1)
BY DEF Holds, Timeouts

LEMMA Removed ==
    ASSUME NEW ref \in Nat, NEW timeouts, Holds(timeouts, ref)
    PROVE  Remove(timeouts, ref) = {}
BY DEF Holds, Remove

LEMMA BackoffType ==
    ASSUME NEW n \in Nat
    PROVE  Backoff(n) \in Nat
<1>1. CASE Schedule = <<>>
  BY <1>1 DEF Backoff
<1>2. CASE Schedule # <<>>
  <2>1. Len(Schedule) \in Nat /\ Len(Schedule) # 0
    BY <1>2, ScheduleAssumption
  <2>2. \A i \in 1..Len(Schedule) : Schedule[i] \in Nat
    BY ScheduleAssumption
  <2>3. (IF n < Len(Schedule) THEN n + 1 ELSE Len(Schedule)) \in 1..Len(Schedule)
    BY <2>1
  <2> QED
    BY <1>2, <2>2, <2>3 DEF Backoff
<1> QED
  BY <1>1, <1>2

LEMMA SoonerKeeps ==
    ASSUME NEW timeouts, timeouts \subseteq Timeouts, NEW ref \in Nat,
           Holds(timeouts, ref)
    PROVE  Sooner(timeouts) \subseteq Timeouts /\ Holds(Sooner(timeouts), ref)
<1> DEFINE Next1(t) == [t EXCEPT !.left = IF t.left = 0 THEN 0 ELSE t.left - 1]
<1>1. \A t \in timeouts : Next1(t) \in Timeouts /\ Next1(t).id = t.id
  BY DEF Timeouts
<1>2. Sooner(timeouts) = {Next1(t) : t \in timeouts}
  BY DEF Sooner
<1> HIDE DEF Next1
<1> QED
  BY <1>1, <1>2 DEF Holds

-----------------------------------------------------------------------------
LEMMA InitHolds == Init => IInv
<1> SUFFICES ASSUME Init PROVE IInv
  OBVIOUS
<1>1. TypeOK
  <2>1. stopped \in BOOLEAN
    BY Zenon DEF Init
  <2>2. age \in 0..StableAfter
    BY StableAssumption DEF Init
  <2> QED
    BY <2>1, <2>2 DEF Init, TypeOK
<1>2. Agree
  BY DEF Init, Agree, Holds
<1>3. Counts /\ Supervised
  BY DEF Init, Counts, Supervised
<1> QED
  BY <1>1, <1>2, <1>3 DEF IInv

(* _build_and_play when nothing plays and no stable timeout is live.       *)
LEMMA BuildStep ==
    ASSUME TypeOK, playing = {}, stables = {}, Build
    PROVE  /\ playing' = {pipeline'} \ {0} /\ playing' \subseteq Nat \ {0}
           /\ pipeline' \in Nat \ {0} /\ built' \in Nat \ {0}
           /\ stable' \in Nat \ {0} /\ sources' \in Nat /\ age' = 0
           /\ stables' \subseteq Timeouts
           /\ Holds(stables', stable')
           /\ \A t \in stables' : t.left = StableAfter
<1>1. built \in Nat /\ sources \in Nat
  BY DEF TypeOK
<1>2. stables' = {[id |-> sources + 1, left |-> StableAfter]}
  BY DEF Build, Timeout
<1>3. stables' \subseteq Timeouts /\ Holds(stables', stable')
  BY <1>1, <1>2, NewTimeout, StableAssumption DEF Build
<1>4. playing' = {built + 1} /\ pipeline' = built + 1 /\ built' = built + 1
      /\ stable' = sources + 1 /\ sources' = sources + 1 /\ age' = 0
  BY DEF Build
<1>5. \A t \in stables' : t.left = StableAfter
  BY <1>2
<1> QED
  BY <1>1, <1>3, <1>4, <1>5

LEMMA NextStep == IInv /\ [Next]_vars => IInv'
<1> SUFFICES ASSUME IInv, [Next]_vars PROVE IInv'
  OBVIOUS
<1> USE DEF IInv
<1>1. CASE Start
  <2>1. playing = {} /\ stables = {} /\ restart = 0 /\ restarts = {} /\ posted = {}
    BY <1>1, NoneHeld DEF Start, Supervised, Agree, TypeOK
  <2>2. Build
    BY <1>1 DEF Start
  <2> QED
    BY <1>1, <2>1, <2>2, BuildStep, StableAssumption
       DEF Start, TypeOK, Agree, Counts, Supervised
<1>2. ASSUME NEW p \in playing, Fail(p) PROVE IInv'
  <2>1. built > 0
    BY <1>2 DEF Agree, Supervised, TypeOK
  <2>2. p \in Nat \ {0}
    BY DEF TypeOK
  <2>3. posted' \subseteq Messages
    <3>1. PICK n \in 1..2 :
             posted' = posted \cup {[from |-> p, nr |-> k] : k \in 1..n}
      BY <1>2 DEF Fail
    <3>2. \A k \in 1..n : [from |-> p, nr |-> k] \in Messages
      BY <2>2 DEF Messages
    <3> QED
      BY <3>1, <3>2 DEF TypeOK
  <2>4. failed' \subseteq Nat \ {0}
    BY <1>2, <2>2 DEF Fail, TypeOK
  <2> QED
    BY <1>2, <2>1, <2>3, <2>4
       DEF Fail, object, counters, TypeOK, Agree, Counts, Supervised
<1>3. ASSUME NEW m \in posted, IgnoreMessage(m) PROVE IInv'
  BY <1>3 DEF IgnoreMessage, object, counters, TypeOK, Agree, Counts, Supervised
<1>4. ASSUME NEW m \in posted, ScheduleRestart(m) PROVE IInv'
  <2>1. restarts = {}
    BY <1>4, NoneHeld DEF ScheduleRestart, Agree, TypeOK
  <2>2. stables' = {} /\ stable' = 0 /\ playing' = {} /\ pipeline' = 0
    BY <1>4, Removed DEF ScheduleRestart, Teardown, Agree, TypeOK
  <2>3. restarts' = {[id |-> sources + 1, left |-> Backoff(attempt)]}
    BY <1>4, <2>1 DEF ScheduleRestart, Timeout
  <2>4. sources \in Nat /\ attempt \in Nat /\ Backoff(attempt) \in Nat
    BY BackoffType DEF TypeOK
  <2>5. restart' = sources + 1 /\ restart' \in Nat \ {0}
    BY <1>4, <2>4 DEF ScheduleRestart
  <2>6. restarts' \subseteq Timeouts /\ Holds(restarts', restart')
    BY <2>3, <2>4, <2>5, NewTimeout
  <2>7. built > 0
    BY DEF Supervised, TypeOK
  <2>8. posted' \subseteq Messages
    BY <1>4 DEF ScheduleRestart, Flushed, TypeOK
  <2>9. Holds(stables', stable')
    BY <2>2 DEF Holds
  <2>10. TypeOK'
    BY <1>4, <2>2, <2>4, <2>5, <2>6, <2>8 DEF ScheduleRestart, TypeOK
  <2> QED
    BY <1>4, <2>2, <2>5, <2>6, <2>7, <2>9, <2>10
       DEF ScheduleRestart, Agree, Counts, Supervised
<1>5. ASSUME NEW t \in restarts, DoRestart(t) PROVE IInv'
  <2>1. restart # 0
    BY DEF Agree, Holds, TypeOK, Timeouts
  <2>2. ~stopped /\ built > 0
    BY <2>1 DEF Supervised, TypeOK
  <2>3. pipeline = 0 /\ playing = {} /\ stable = 0
    BY <2>1, <2>2 DEF Supervised, Agree, Counts
  <2>4. stables = {}
    BY <2>3, NoneHeld DEF Agree, TypeOK
  <2>5. restarts' = {} /\ restart' = 0
    BY <1>5 DEF DoRestart, Agree, Holds
  <2>6. Holds(restarts', restart')
    BY <2>5 DEF Holds
  <2>7. Build
    BY <1>5, <2>2 DEF DoRestart
  <2> QED
    BY <1>5, <2>2, <2>3, <2>4, <2>5, <2>6, <2>7, BuildStep, StableAssumption
       DEF DoRestart, TypeOK, Agree, Counts, Supervised
<1>6. ASSUME NEW t \in stables, MarkStable(t) PROVE IInv'
  <2>1. stables' = {} /\ stable' = 0
    BY <1>6 DEF MarkStable, Agree, Holds
  <2>2. Holds(stables', stable')
    BY <2>1 DEF Holds
  <2> QED
    BY <1>6, <2>1, <2>2
       DEF MarkStable, counters, TypeOK, Agree, Counts, Supervised
<1>7. CASE Stop
  <2>1. stables' = {} /\ stable' = 0 /\ playing' = {} /\ pipeline' = 0
    BY <1>7, Removed DEF Stop, Teardown, Agree, TypeOK
  <2>2. restarts' = {} /\ restart' = 0
    BY <1>7, Removed DEF Stop, Agree, TypeOK
  <2>3. posted' \subseteq posted
    BY <1>7 DEF Stop, Flushed
  <2>4. Holds(stables', stable') /\ Holds(restarts', restart')
    BY <2>1, <2>2 DEF Holds
  <2>5. TypeOK'
    BY <1>7, <2>1, <2>2, <2>3 DEF Stop, counters, TypeOK
  <2> QED
    BY <1>7, <2>1, <2>2, <2>3, <2>4, <2>5
       DEF Stop, counters, Agree, Counts, Supervised
<1>8. CASE Tick
  <2>1. /\ restarts' \subseteq Timeouts /\ Holds(restarts', restart')
        /\ stables' \subseteq Timeouts /\ Holds(stables', stable')
    BY <1>8, SoonerKeeps DEF Tick, object, Agree, TypeOK
  <2>2. age \in 0..StableAfter /\ age' \in 0..StableAfter
    BY <1>8, StableAssumption DEF Tick, TypeOK
  <2>3. \A t \in stables' : t.left + age' = StableAfter
    <3> SUFFICES ASSUME NEW t \in stables' PROVE t.left + age' = StableAfter
      OBVIOUS
    <3>1. PICK u \in stables :
             t = [u EXCEPT !.left = IF u.left = 0 THEN 0 ELSE u.left - 1]
      BY <1>8 DEF Tick, Sooner
    <3>2. u.left \in Nat /\ u.left + age = StableAfter
      BY DEF TypeOK, Timeouts, Counts
    <3>3. t.left = IF u.left = 0 THEN 0 ELSE u.left - 1
      BY <3>1 DEF TypeOK, Timeouts
    <3> QED
      BY <1>8, <2>2, <3>2, <3>3, StableAssumption DEF Tick
  <2> QED
    BY <1>8, <2>1, <2>2, <2>3
       DEF Tick, object, counters, TypeOK, Agree, Counts, Supervised
<1>9. CASE UNCHANGED vars
  BY <1>9 DEF vars, world, object, counters, TypeOK, Agree, Counts, Supervised
<1> QED
  BY <1>1, <1>2, <1>3, <1>4, <1>5, <1>6, <1>7, <1>8, <1>9 DEF Next, Callback

LEMMA Invariant == Spec => []IInv
<1>1. Init => IInv
  BY InitHolds
<1>2. IInv /\ [Next]_vars => IInv'
  BY NextStep
<1> QED
  BY <1>1, <1>2, PTL DEF Spec

-----------------------------------------------------------------------------
(* The supervisor of preview_pipeline.py keeps well-formed state.          *)
THEOREM TypeCorrect == Spec => []TypeOK
<1>1. IInv => TypeOK
  BY DEF IInv
<1> QED
  BY <1>1, Invariant, PTL

(* Between start() and stop() the preview plays or is due to be rebuilt.   *)
THEOREM Supervision == Spec => []AlwaysSupervised
<1>1. IInv => AlwaysSupervised
  BY DEF IInv, Supervised, AlwaysSupervised
<1> QED
  BY <1>1, Invariant, PTL

(* No second pipeline and no forgotten timeout, after any failures.        *)
THEOREM NoOrphans == Spec => []NothingIsOrphaned
<1>1. ASSUME NEW timeouts, timeouts \subseteq Timeouts, NEW ref, Holds(timeouts, ref)
      PROVE  {t.id : t \in timeouts} = {ref} \ {0}
  BY <1>1 DEF Holds, Timeouts
<1>2. IInv => NothingIsOrphaned
  BY <1>1 DEF IInv, Agree, TypeOK, NothingIsOrphaned
<1> QED
  BY <1>2, Invariant, PTL

(* After stop() nothing plays and no timeout is live.                      *)
THEOREM StoppedForGood == Spec => []StopIsFinal
<1>1. IInv => StopIsFinal
  BY NoneHeld DEF IInv, Agree, Supervised, TypeOK, StopIsFinal
<1> QED
  BY <1>1, Invariant, PTL

(* The backoff is reset only by a full stable period of the pipeline that  *)
(* plays: its timeout was removed with any earlier pipeline.               *)
THEOREM EarnedReset == Spec => BackoffIsEarned
<1>1. IInv /\ [Next]_vars =>
         [attempt' < attempt => pipeline # 0 /\ age = StableAfter]_vars
  <2> SUFFICES ASSUME IInv, Next, attempt' < attempt
               PROVE  pipeline # 0 /\ age = StableAfter
    OBVIOUS
  <2>1. attempt \in Nat
    BY DEF IInv, TypeOK
  <2>2. PICK t \in stables : MarkStable(t)
    BY <2>1 DEF Next, Callback, Start, Stop, Tick, Fail, IgnoreMessage,
                ScheduleRestart, DoRestart, object
  <2>3. t.left = 0 /\ t.id # 0 /\ t.id = stable /\ t.left + age = StableAfter
    BY <2>2 DEF MarkStable, IInv, TypeOK, Timeouts, Agree, Holds, Counts
  <2>4. age \in Nat
    BY StableAssumption DEF IInv, TypeOK
  <2> QED
    BY <2>3, <2>4 DEF IInv, Counts
<1> QED
  BY <1>1, Invariant, PTL DEF Spec, BackoffIsEarned

(* Inside the main thread of the recorder the supervisor does what         *)
(* PreviewPipeline allows, so all of the above holds there too             *)
(* (main.py:323-341).                                                      *)
THEOREM Composition == RSpec => Spec
<1>1. RInit => Init
  BY DEF RInit
<1>2. [RNext]_<<vars, process>> => [Next]_vars
  <2> SUFFICES ASSUME [RNext]_<<vars, process>> PROVE Next \/ UNCHANGED vars
    OBVIOUS
  <2>1. CASE Main
    BY <2>1 DEF Main, StartRecording, SetHandlers, StartPreview, RunLoop,
                StopThreads, StopPreview, StopRecording, Next
  <2>2. CASE Dispatch
    BY <2>2 DEF Dispatch, NoticeError, Quit, Next
  <2>3. CASE RecordingFails \/ Signal
    BY <2>3 DEF RecordingFails, Signal
  <2>4. CASE Tick \/ \E p \in playing : Fail(p)
    BY <2>4 DEF Next
  <2> QED BY <2>1, <2>2, <2>3, <2>4 DEF RNext
<1> QED BY <1>1, <1>2, PTL DEF RSpec, Spec

(* In particular the recorder never loses its preview, nor doubles it.     *)
COROLLARY RecorderSupervises == RSpec => []AlwaysSupervised
  BY Composition, Supervision
=============================================================================
