----------------------- MODULE PeriodicFlusher_proofs -----------------------
(***************************************************************************)
(* Proofs about PeriodicFlusher for any cameras and intervals, any steps   *)
(* of the clock, and any number of changes and faults.                     *)
(***************************************************************************)
EXTENDS PeriodicFlusher, FiniteSetTheorems, TLAPS

LEMMA HorizonIsLongest ==
  Horizon \in Nat /\ Horizon \in Intervals /\ \A i \in Intervals : i <= Horizon
  BY IntervalsAssumption DEF Horizon

LEMMA CappedIsTyped ==
  ASSUME NEW t \in Int PROVE Capped(t) \in Int /\ Capped(t) <= Horizon
  BY HorizonIsLongest DEF Capped

LEMMA FewerElements ==
  ASSUME NEW S, IsFiniteSet(S), NEW T, T \subseteq S
  PROVE  IsFiniteSet(T) /\ Cardinality(T) \in Nat /\ Cardinality(T) <= Cardinality(S)
<1>1. IsFiniteSet(T) /\ Cardinality(T) <= Cardinality(S)
  BY FS_Subset
<1> QED BY <1>1, FS_CardinalityType

LEMMA OneMoreElement ==
  ASSUME NEW S, IsFiniteSet(S), NEW T, NEW x, T \subseteq S \cup {x}
  PROVE  Cardinality(T) <= Cardinality(S) + 1
<1>1. Cardinality(S) \in Nat
  BY FS_CardinalityType
<1>2. /\ IsFiniteSet(S \cup {x})
      /\ Cardinality(S \cup {x}) = IF x \in S THEN Cardinality(S) ELSE Cardinality(S) + 1
  BY FS_AddElement
<1>3. Cardinality(T) \in Nat /\ Cardinality(T) <= Cardinality(S \cup {x})
  BY <1>2, FewerElements
<1> QED BY <1>1, <1>2, <1>3

LEMMA OneLessElement ==
  ASSUME NEW S, IsFiniteSet(S), NEW x \in S
  PROVE  Cardinality(S \ {x}) = Cardinality(S) - 1
  BY FS_RemoveElement

LEMMA InHandIsUnique ==
  ASSUME NEW T \in SUBSET Cameras, NEW c \in T, NEW d \in T,
         \A e \in T : c <= e, \A e \in T : d <= e
  PROVE  c = d
<1>1. c \in Nat /\ d \in Nat /\ c <= d /\ d <= c
  BY CamerasAssumption
<1> QED BY <1>1

-----------------------------------------------------------------------------
(* Between two rounds the last flush was the last time one was found due.  *)
LastFlush == pc \in {"wait", "look", "ended"} => since = round

(* Cameras not yet served have no row; the one in hand is where the thread *)
(* is, and a row stands for a finished clip.                               *)
RoundInHand ==
    /\ pc \notin {"open", "cut", "insert"} => todo = {}
    /\ todo \cap row = {}
    /\ \A c \in row : dir[c] = "clip"
    /\ \A c \in todo : InHand(c) =>
          /\ pc = "cut" => dir[c] \in {"empty", "partial"}
          /\ pc = "insert" => dir[c] = "clip"

FInv == TypeOK /\ LastFlush /\ RoundInHand /\ LeftoversNeedFaults

LEMMA DisagreeingIsFinite ==
  IsFiniteSet(Disagreeing) /\ Cardinality(Disagreeing) \in Nat
  BY CamerasAssumption, FewerElements DEF Disagreeing

LEMMA InitFInv == Init => FInv
<1> SUFFICES ASSUME Init PROVE FInv
  OBVIOUS
<1> USE BoundsAssumption, HorizonIsLongest DEF Init
<1>1. TypeOK
  <2>1. stopping \in BOOLEAN
    BY Zenon
  <2> QED BY <2>1 DEF TypeOK
<1>2. LastFlush /\ RoundInHand
  BY DEF LastFlush, RoundInHand
<1>3. Disagreeing = {}
  BY DEF Disagreeing, Agree
<1>4. LeftoversNeedFaults
  BY <1>3, FS_EmptySet DEF LeftoversNeedFaults
<1> QED BY <1>1, <1>2, <1>4 DEF FInv

(* What a new round no longer follows is counted.                          *)
LEMMA NewRoundCounts ==
  ASSUME TypeOK, RoundInHand, NewRound
  PROVE  left' = left + Cardinality(Disagreeing) /\ left' \in Nat /\ Disagreeing' = {}
<1>1. {c \in Cameras : dir[c] # "absent" /\ c \notin row} = Disagreeing
  BY DEF TypeOK, RoundInHand, Disagreeing, Agree
<1>2. left' = left + Cardinality(Disagreeing)
  BY <1>1 DEF NewRound
<1>3. Disagreeing' = {}
  BY DEF NewRound, Disagreeing, Agree
<1> QED BY <1>2, <1>3, DisagreeingIsFinite DEF TypeOK

LEMMA TypeStep == TypeOK /\ RoundInHand /\ [Next]_vars => TypeOK'
<1> SUFFICES ASSUME TypeOK, RoundInHand, [Next]_vars PROVE TypeOK'
  OBVIOUS
<1> USE BoundsAssumption, HorizonIsLongest
    DEF TypeOK, config, timers, clock, output, EndRound
<1>1. ASSUME NEW d \in Int, MoveClock(d), steps' \in 0..MaxSteps PROVE TypeOK'
  <2>1. since + d \in Int /\ round + d \in Int
    OBVIOUS
  <2>2. /\ since' \in Int /\ since' <= Horizon
        /\ round' \in Int /\ round' <= Horizon
    BY <1>1, <2>1, CappedIsTyped DEF MoveClock
  <2> QED BY <1>1, <2>2 DEF MoveClock
<1>2. CASE Tick
  BY <1>1, <1>2 DEF Tick
<1>3. CASE StepClock
  BY <1>1, <1>3, StepsAssumption DEF StepClock
<1>4. CASE UpdateConfig
  BY <1>4 DEF UpdateConfig
<1>5. CASE Start
  <2>1. NewRound
    BY <1>5 DEF Start
  <2> QED BY <1>5, <2>1, NewRoundCounts DEF Start, NewRound
<1>6. CASE Wake \/ NotDue \/ Due \/ Refuse \/ Finish
  BY <1>6 DEF Wake, NotDue, Due, Refuse, Finish
<1>7. CASE BeginRound
  <2>1. NewRound
    BY <1>7 DEF BeginRound
  <2> QED BY <1>7, <2>1, NewRoundCounts DEF BeginRound, NewRound
<1>8. CASE Raises
  BY <1>8 DEF Raises
<1>9. ASSUME NEW c \in todo, OpenDir(c) \/ NoSegments(c) \/ FfmpegWrites(c)
      PROVE  TypeOK'
  BY <1>9 DEF OpenDir, NoSegments, FfmpegWrites
<1>10. ASSUME NEW c \in todo, FfmpegEnds(c) \/ Insert(c) PROVE TypeOK'
  BY <1>10 DEF FfmpegEnds, Insert
<1>11. CASE Stop
  BY <1>11 DEF Stop
<1>12. CASE Exit \/ Die
  <2>1. stopping' \in BOOLEAN
    BY <1>12, Zenon DEF Exit, Die
  <2> QED BY <1>12, <2>1 DEF Exit, Die
<1>13. CASE UNCHANGED vars
  BY <1>13 DEF vars
<1> QED
  BY <1>2, <1>3, <1>4, <1>5, <1>6, <1>7, <1>8, <1>9, <1>10, <1>11, <1>12, <1>13
  DEF Next, Thread

LEMMA LastFlushStep == TypeOK /\ LastFlush /\ [Next]_vars => LastFlush'
<1> SUFFICES ASSUME TypeOK, LastFlush, [Next]_vars PROVE LastFlush'
  OBVIOUS
<1> USE DEF LastFlush, config, timers, clock, output, EndRound
<1>1. CASE Tick \/ StepClock
  BY <1>1 DEF Tick, StepClock, MoveClock
<1>2. CASE UpdateConfig \/ Start \/ Stop \/ Exit \/ Die
  BY <1>2 DEF UpdateConfig, Start, Stop, Exit, Die
<1>3. CASE Wake \/ NotDue \/ Due \/ Refuse \/ BeginRound \/ Finish \/ Raises
  BY <1>3 DEF Wake, NotDue, Due, Refuse, BeginRound, Finish, Raises
<1>4. ASSUME NEW c \in todo, \/ OpenDir(c) \/ NoSegments(c) \/ FfmpegWrites(c)
                             \/ FfmpegEnds(c) \/ Insert(c)
      PROVE  LastFlush'
  BY <1>4 DEF OpenDir, NoSegments, FfmpegWrites, FfmpegEnds, Insert
<1>5. CASE UNCHANGED vars
  BY <1>5 DEF vars
<1> QED BY <1>1, <1>2, <1>3, <1>4, <1>5 DEF Next, Thread

LEMMA RoundStep == TypeOK /\ RoundInHand /\ [Next]_vars => RoundInHand'
<1> SUFFICES ASSUME TypeOK, RoundInHand, [Next]_vars PROVE RoundInHand'
  OBVIOUS
<1> USE DEF TypeOK, RoundInHand, InHand, config, timers, clock, output, EndRound
<1>1. CASE Tick \/ StepClock \/ UpdateConfig \/ Stop
  BY <1>1 DEF Tick, StepClock, MoveClock, UpdateConfig, Stop
<1>2. CASE Start \/ Exit \/ Die
  BY <1>2 DEF Start, Exit, Die, NewRound
<1>3. CASE Wake \/ NotDue \/ Due \/ Refuse \/ BeginRound \/ Finish \/ Raises
  BY <1>3 DEF Wake, NotDue, Due, Refuse, BeginRound, Finish, Raises, NewRound
<1>4. ASSUME NEW c \in todo, OpenDir(c) PROVE RoundInHand'
  BY <1>4, InHandIsUnique DEF OpenDir
<1>5. ASSUME NEW c \in todo, NoSegments(c) PROVE RoundInHand'
  BY <1>5 DEF NoSegments
<1>6. ASSUME NEW c \in todo, FfmpegWrites(c) \/ FfmpegEnds(c) PROVE RoundInHand'
  BY <1>6, InHandIsUnique DEF FfmpegWrites, FfmpegEnds
<1>7. ASSUME NEW c \in todo, Insert(c) PROVE RoundInHand'
  BY <1>7 DEF Insert
<1>8. CASE UNCHANGED vars
  BY <1>8 DEF vars
<1> QED BY <1>1, <1>2, <1>3, <1>4, <1>5, <1>6, <1>7, <1>8 DEF Next, Thread

(* A camera that is opened may disagree until its row is inserted or its   *)
(* directory is removed again; whoever leaves it so pays with a fault.     *)
LEMMA LeftoversStep == FInv /\ [Next]_vars => LeftoversNeedFaults'
<1> SUFFICES ASSUME FInv, [Next]_vars PROVE LeftoversNeedFaults'
  OBVIOUS
<1> DEFINE Cost == Cardinality(Disagreeing)
           Credit == IF pc \in {"cut", "insert"} THEN 1 ELSE 0
<1>s. /\ TypeOK /\ RoundInHand
      /\ left \in Nat /\ faults \in Nat
      /\ left + Cost <= faults + Credit
      /\ IsFiniteSet(Disagreeing) /\ Cost \in Nat
  BY DisagreeingIsFinite, BoundsAssumption DEF FInv, TypeOK, LeftoversNeedFaults
<1>t. Disagreeing' \subseteq Cameras /\ IsFiniteSet(Disagreeing') /\ Cost' \in Nat
  BY CamerasAssumption, FewerElements DEF Disagreeing
<1> SUFFICES left' + Cost' <= faults' + Credit'
  BY DEF LeftoversNeedFaults
<1> USE DEF config, timers, clock, output, EndRound
<1>n. ASSUME UNCHANGED <<dir, row, left, faults>>, Credit' = Credit
      PROVE  left' + Cost' <= faults' + Credit'
  BY <1>n, <1>s DEF Disagreeing, Agree
<1>1. CASE Tick \/ StepClock \/ UpdateConfig \/ Stop \/ Exit \/ UNCHANGED vars
  BY <1>1, <1>n
  DEF Tick, StepClock, MoveClock, UpdateConfig, Stop, Exit, vars
<1>2. CASE Wake \/ NotDue \/ Due \/ Refuse \/ Finish
  BY <1>2, <1>n DEF Wake, NotDue, Due, Refuse, Finish
<1>3. CASE Start \/ BeginRound
  <2>1. NewRound /\ UNCHANGED faults /\ Credit = 0 /\ Credit' = 0
    BY <1>3 DEF Start, BeginRound
  <2>2. left' = left + Cost /\ Cost' = 0
    BY <2>1, <1>s, NewRoundCounts, FS_EmptySet
  <2> QED BY <2>1, <2>2, <1>s
<1>4. CASE Raises \/ Die
  <2>1. UNCHANGED <<dir, row, left>> /\ faults' = faults + 1 /\ Credit' = 0
    BY <1>4 DEF Raises, Die
  <2>2. Cost' = Cost /\ Credit \in {0, 1}
    BY <2>1 DEF Disagreeing, Agree
  <2> QED BY <2>1, <2>2, <1>s
<1>5. ASSUME NEW c \in todo, OpenDir(c) PROVE left' + Cost' <= faults' + Credit'
  <2>1. /\ dir' = [dir EXCEPT ![c] = "empty"]
        /\ UNCHANGED <<row, left, faults>>
        /\ Credit = 0 /\ Credit' = 1
    BY <1>5 DEF OpenDir
  <2>2. Disagreeing' \subseteq Disagreeing \cup {c}
    BY <2>1, <1>s DEF Disagreeing, Agree, TypeOK
  <2>3. Cost' <= Cost + 1
    BY <2>2, <1>s, OneMoreElement
  <2> QED BY <2>1, <2>3, <1>s, <1>t
<1>6. ASSUME NEW c \in todo, NoSegments(c) \/ Insert(c)
      PROVE  left' + Cost' <= faults' + Credit'
  <2>1. c \in Cameras /\ c \notin row /\ dir \in [Cameras -> {"absent", "empty", "partial", "clip"}]
    BY <1>s DEF TypeOK, RoundInHand
  <2>2. c \in Disagreeing /\ Disagreeing' = Disagreeing \ {c}
    BY <1>6, <1>s, <2>1 DEF NoSegments, Insert, RoundInHand, Disagreeing, Agree
  <2>3. Cost' = Cost - 1
    BY <2>2, <1>s, OneLessElement
  <2>4. UNCHANGED <<left, faults>> /\ Credit = 1 /\ Credit' = 0
    BY <1>6 DEF NoSegments, Insert
  <2> QED BY <2>3, <2>4, <1>s
<1>7. ASSUME NEW c \in todo, FfmpegWrites(c) \/ FfmpegEnds(c)
      PROVE  left' + Cost' <= faults' + Credit'
  <2>1. c \in Cameras /\ c \notin row /\ dir \in [Cameras -> {"absent", "empty", "partial", "clip"}]
    BY <1>s DEF TypeOK, RoundInHand
  <2>2. Disagreeing' = Disagreeing
    BY <1>7, <2>1 DEF FfmpegWrites, FfmpegEnds, Disagreeing, Agree
  <2>3. UNCHANGED <<left, faults>> /\ Credit' = Credit
    BY <1>7 DEF FfmpegWrites, FfmpegEnds
  <2> QED BY <2>2, <2>3, <1>s
<1> HIDE DEF Cost, Credit
<1> QED BY <1>1, <1>2, <1>3, <1>4, <1>5, <1>6, <1>7 DEF Next, Thread

LEMMA FInvStep == FInv /\ [Next]_vars => FInv'
  BY TypeStep, LastFlushStep, RoundStep, LeftoversStep DEF FInv

LEMMA Invariance == Spec => []FInv
  BY InitFInv, FInvStep, PTL DEF Spec

(* The type invariant; in particular the timers never exceed the longest   *)
(* interval they are compared with.                                        *)
THEOREM TypeCorrect == Spec => []TypeOK
<1>1. FInv => TypeOK
  BY DEF FInv
<1> QED BY <1>1, Invariance, PTL

(* However many rounds there were, directories without a row and rows      *)
(* without a finished clip are as many as there were faults, plus the clip *)
(* in the making.                                                          *)
THEOREM LeftoversArePaidFor == Spec => []LeftoversNeedFaults
<1>1. FInv => LeftoversNeedFaults
  BY DEF FInv
<1> QED BY <1>1, Invariance, PTL

(* Flushes keep their distance whatever the watcher, the clock and the     *)
(* faults do.                                                              *)
THEOREM SpacedRounds == Spec => RoundsAreSpaced
<1> DEFINE A == pc = "look" /\ pc' = "enter" => round >= interval
<1>1. FInv /\ [Next]_vars => [A]_vars
  <2> SUFFICES ASSUME FInv, Next, pc = "look", pc' = "enter" PROVE round >= interval
    BY DEF vars
  <2>1. Due
    BY DEF Next, Tick, StepClock, MoveClock, UpdateConfig, Start, Thread, Wake, NotDue,
           Refuse, BeginRound, Finish, Raises, EndRound, OpenDir, NoSegments,
           FfmpegWrites, FfmpegEnds, Insert, Stop, Exit, Die
  <2>2. since >= interval /\ since = round
    BY <2>1 DEF Due, IsDue, FInv, LastFlush
  <2> QED BY <2>2
<1> QED BY <1>1, Invariance, PTL DEF Spec, RoundsAreSpaced
=============================================================================
