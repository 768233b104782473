-------------------------- MODULE EventFlow_proofs --------------------------
(***************************************************************************)
(* Proofs about EventClip and EventFlow: for any number of detections, any *)
(* length of the buffer, any bound on faults.  The three processes are     *)
(* proved about one at a time: a step of EventFlow is a step of EventClip, *)
(* of UploadWorker, or of the clip API.                                    *)
(***************************************************************************)
EXTENDS EventFlow, FiniteSetTheorems, TLAPS

-----------------------------------------------------------------------------
(* The recorder has no fragment open while it is down.                     *)
TInv == TypeOK /\ (pc = "down" => writing = {})

(* What is copied is finished, and so is what is published.                *)
CopiesAreWhole == snaps \subseteq sealed

(* The detection in progress: its staging directory, its clip and its row  *)
(* at each step.  Only a row still to be committed is in the transaction.  *)
DetectionInHand ==
    /\ \A d, e \in cur : d = e
    /\ pc \in {"down", "idle"} => cur = {}
    /\ pc \in {"copy", "remux", "publish"} => \A e \in cur : clip[e] = {}
    /\ pc \in {"copy", "remux", "publish", "insert"} \/ open =>
          \A e \in cur : row[e] = "absent"
    /\ pc \in {"publish", "remux"} => snaps # {}
    /\ pc \in {"insert", "commit"} =>
          staging \cap cur = {} /\ \A e \in cur : clip[e] = snaps
    /\ open => pc = "commit"

(* What would be left over if the process died now, less what the death    *)
(* itself would cost.  After a rollback by another thread the row is lost  *)
(* already, whatever commit() then reports.                                *)
Owed == IF pc = "commit" /\ ~open THEN Leftovers ELSE Leftovers \ cur

OwedIsPaid == IsFiniteSet(Owed) /\ Cardinality(Owed) <= faults

(* The buffer ends with the fragment being written and has no hole.        *)
BufferIsContiguous ==
    /\ \A f \in frags : f <= last /\ f > last - MaxFiles /\ f..last \subseteq frags
    /\ \A f \in frags : f # last => f \in sealed
    /\ pc # "down" /\ last \in frags => last \in writing

(* Of what was listed, the copied and the missing come before the rest,    *)
(* which ends with the fragment that was being written at the listing.     *)
CopyInOrder ==
    pc = "copy" =>
        /\ \A f \in todo : f <= last - rotations /\ f..(last - rotations) \subseteq todo
        /\ \A s \in snaps, f \in todo : s < f /\ f \in frags
        /\ \A s \in snaps, f \in snaps \cup todo : s..f \subseteq snaps \cup todo
        /\ rotations = 0 => todo \cup snaps \subseteq frags

NoHoles == \A f, g \in snaps : f..g \subseteq snaps

LInv == TInv /\ DetectionInHand /\ RowsFollowClips /\ OwedIsPaid
WInv == TInv /\ CopiesAreWhole /\ ClipsAreWhole
HInv == TInv /\ BufferIsContiguous /\ CopyInOrder /\ NoHoles /\ ClipsAreContiguous

LEMMA InitTInv == Init => TInv
<1> SUFFICES ASSUME Init PROVE TInv
  OBVIOUS
<1> USE DEF Init, Fragments
<1>1. open \in BOOLEAN
  BY Zenon
<1>2. /\ rotations \in 0..MaxRotations /\ faults \in 0..MaxFaults
      /\ last \in 0..MaxFragment
  BY BoundsAssumption
<1>3. /\ clip \in [Events -> SUBSET Fragments]
      /\ row \in [Events -> {"absent", "clip", "null"}]
  OBVIOUS
<1> QED BY <1>1, <1>2, <1>3 DEF TInv, TypeOK

LEMMA TypeStep == TInv /\ [Next]_vars => TInv'
<1> SUFFICES ASSUME TInv, [Next]_vars PROVE TInv'
  OBVIOUS
<1> USE FilesAssumption, BoundsAssumption
    DEF TInv, TypeOK, Fragments, sink, work, table
<1>o. CASE open' \notin BOOLEAN
  <2>1. open' = open \/ open' = TRUE \/ open' = FALSE
    BY DEF Next, Rotate, Detect, Copy, CopyDone, Remux, PublishRaises, Publish,
           Insert, Commit, InsertRaises, OtherCommits, OtherRollsBack, Boot, Crash,
           Finish, vars
  <2> QED BY <1>o, <2>1
<1> SUFFICES ASSUME open' \in BOOLEAN PROVE TInv'
  BY <1>o
<1>f. ASSUME faults < MaxFaults, faults' = faults + 1
      PROVE  faults' \in 0..MaxFaults
  BY <1>f
<1>1. CASE Rotate
  <2>1. last + 1 \in 1..MaxFragment
    BY <1>1 DEF Rotate
  <2>2. frags' \subseteq 1..MaxFragment /\ sealed' \subseteq 1..MaxFragment
    BY <1>1, <2>1 DEF Rotate
  <2>3. last + 1 \in frags'
    BY <1>1, <2>1 DEF Rotate
  <2>4. rotations' \in 0..MaxRotations
    BY <1>1 DEF Rotate
  <2> QED BY <1>1, <2>1, <2>2, <2>3, <2>4 DEF Rotate
<1>2. ASSUME NEW e \in Events, Detect(e) PROVE TInv'
  BY <1>2 DEF Detect
<1>3. ASSUME NEW f \in todo, Copy(f) PROVE TInv'
  BY <1>3 DEF Copy
<1>4. CASE CopyDone \/ Remux \/ PublishRaises
  BY <1>4 DEF CopyDone, Remux, PublishRaises
<1>5. CASE Publish
  <2>1. clip' \in [Events -> SUBSET (1..MaxFragment)]
    BY <1>5 DEF Publish
  <2> QED BY <1>5, <2>1 DEF Publish
<1>6. CASE Insert
  BY <1>6 DEF Insert
<1>7. CASE InsertRaises
  <2>1. faults' \in 0..MaxFaults
    BY <1>7, <1>f DEF InsertRaises
  <2> QED BY <1>7, <2>1 DEF InsertRaises, Finish
<1>8. CASE OtherRollsBack
  <2>1. faults' \in 0..MaxFaults
    BY <1>8, <1>f DEF OtherRollsBack
  <2> QED BY <1>8, <2>1 DEF OtherRollsBack
<1>9. CASE Commit \/ OtherCommits
  <2>1. Committed \in [Events -> {"absent", "clip", "null"}]
    BY DEF Committed, NewRow
  <2> QED BY <1>9, <2>1 DEF Commit, OtherCommits, Finish
<1>10. CASE Boot
  BY <1>10 DEF Boot
<1>11. CASE Crash
  <2>1. faults' \in 0..MaxFaults
    BY <1>11, <1>f DEF Crash
  <2> QED BY <1>11, <2>1 DEF Crash
<1>12. CASE UNCHANGED vars
  BY <1>12 DEF vars
<1> QED
  BY <1>1, <1>2, <1>3, <1>4, <1>5, <1>6, <1>7, <1>8, <1>9,
     <1>10, <1>11, <1>12
  DEF Next

(* The type invariant of the recorder's side of an event.                  *)
THEOREM TypeCorrect == Spec => []TypeOK
<1>1. TInv => TypeOK
  BY DEF TInv
<1> QED BY <1>1, InitTInv, TypeStep, PTL DEF Spec

-----------------------------------------------------------------------------
LEMMA InitWInv == Init => CopiesAreWhole /\ ClipsAreWhole
  BY DEF Init, CopiesAreWhole, ClipsAreWhole

LEMMA WholeStep ==
  WInv /\ [Next]_vars => CopiesAreWhole' /\ ClipsAreWhole'
<1> SUFFICES ASSUME WInv, [Next]_vars PROVE CopiesAreWhole' /\ ClipsAreWhole'
  OBVIOUS
<1> USE DEF WInv, CopiesAreWhole, ClipsAreWhole, sink, work, table
<1>1. CASE Rotate
  BY <1>1 DEF Rotate
<1>2. ASSUME NEW e \in Events, Detect(e) PROVE CopiesAreWhole' /\ ClipsAreWhole'
  BY <1>2 DEF Detect
<1>3. ASSUME NEW f \in todo, Copy(f) PROVE CopiesAreWhole' /\ ClipsAreWhole'
  BY <1>3 DEF Copy
<1>4. CASE CopyDone \/ Remux \/ PublishRaises \/ Boot \/ Crash
  BY <1>4 DEF CopyDone, Remux, PublishRaises, Boot, Crash
<1>5. CASE Publish
  BY <1>5 DEF Publish
<1>6. CASE Insert \/ InsertRaises \/ OtherRollsBack \/ Commit \/ OtherCommits
  BY <1>6 DEF Insert, InsertRaises, OtherRollsBack, Commit, OtherCommits, Finish
<1>7. CASE UNCHANGED vars
  BY <1>7 DEF vars
<1> QED BY <1>1, <1>2, <1>3, <1>4, <1>5, <1>6, <1>7 DEF Next

(* A clip is made of finished fragments only, however often the sink       *)
(* rotates while it is copied (clips.py:81-90).                            *)
THEOREM WholeClips == Spec => []ClipsAreWhole
<1>1. WInv /\ [Next]_vars => WInv'
  BY TypeStep, WholeStep DEF WInv
<1>2. Init => WInv
  BY InitTInv, InitWInv DEF WInv
<1>3. WInv => ClipsAreWhole
  BY DEF WInv
<1> QED BY <1>1, <1>2, <1>3, PTL DEF Spec

-----------------------------------------------------------------------------
LEMMA InitDetection == Init => DetectionInHand /\ RowsFollowClips
  BY DEF Init, DetectionInHand, RowsFollowClips

LEMMA DetectionStep ==
  ASSUME TInv, DetectionInHand, RowsFollowClips, [Next]_vars
  PROVE  DetectionInHand' /\ RowsFollowClips'
<1> DEFINE Goal == DetectionInHand' /\ RowsFollowClips'
<1> USE DEF TInv, TypeOK, DetectionInHand, RowsFollowClips, sink, work, table
<1>1. CASE Rotate
  BY <1>1 DEF Rotate
<1>2. ASSUME NEW e \in Events, Detect(e) PROVE Goal
  BY <1>2 DEF Detect
<1>3. ASSUME NEW f \in todo, Copy(f) PROVE Goal
  BY <1>3 DEF Copy
<1>4. CASE CopyDone
  <2>1. RowsFollowClips' /\ UNCHANGED <<cur, clip, row, open, snaps>> /\ pc = "copy"
    BY <1>4 DEF CopyDone
  <2>2. CASE snaps = {}
    BY <1>4, <2>1, <2>2 DEF CopyDone
  <2>3. CASE snaps # {}
    BY <1>4, <2>1, <2>3 DEF CopyDone
  <2> QED BY <2>2, <2>3
<1>5. CASE Remux \/ PublishRaises
  BY <1>5 DEF Remux, PublishRaises
<1>6. CASE Publish
  <2>1. /\ \A e \in cur : clip'[e] = snaps
        /\ \A e \in Events \ cur : clip'[e] = clip[e]
        /\ cur \subseteq Events /\ UNCHANGED <<cur, snaps, row, open>>
        /\ pc = "publish" /\ pc' = "insert" /\ staging' = staging \ cur
    BY <1>6 DEF Publish
  <2>2. DetectionInHand'
    BY <2>1
  <2>3. RowsFollowClips'
    BY <2>1
  <2> QED BY <2>2, <2>3
<1>7. CASE Insert
  BY <1>7 DEF Insert
<1>8. CASE InsertRaises \/ OtherRollsBack \/ Boot \/ Crash
  BY <1>8 DEF InsertRaises, OtherRollsBack, Boot, Crash, Finish
<1>9. CASE Commit \/ OtherCommits
  <2>1. RowsFollowClips'
    <3> SUFFICES ASSUME NEW e \in Events, row'[e] = "clip"
                 PROVE  clip'[e] # {}
      OBVIOUS
    <3>1. UNCHANGED clip /\ row'[e] = IF e \in cur /\ open THEN NewRow ELSE row[e]
      BY <1>9 DEF Commit, OtherCommits, Committed
    <3>2. CASE e \in cur /\ open
      BY <3>1, <3>2 DEF NewRow
    <3> QED BY <3>1, <3>2
  <2>2. DetectionInHand'
    BY <1>9 DEF Commit, OtherCommits, Finish
  <2> QED BY <2>1, <2>2
<1>10. CASE UNCHANGED vars
  BY <1>10 DEF vars
<1> QED
  BY <1>1, <1>2, <1>3, <1>4, <1>5, <1>6, <1>7, <1>8, <1>9, <1>10 DEF Next

-----------------------------------------------------------------------------
LEMMA FewerElements ==
  ASSUME NEW S, IsFiniteSet(S), NEW T, T \subseteq S
  PROVE  IsFiniteSet(T) /\ Cardinality(T) <= Cardinality(S)
  BY FS_Subset

LEMMA OneMoreElement ==
  ASSUME NEW S, IsFiniteSet(S), NEW T, NEW U, T \subseteq S \cup U,
         \A d, e \in U : d = e
  PROVE  IsFiniteSet(T) /\ Cardinality(T) <= Cardinality(S) + 1
<1>1. Cardinality(S) \in Nat
  BY FS_CardinalityType
<1>2. CASE U = {}
  BY <1>1, <1>2, FewerElements, FS_CardinalityType
<1>3. CASE U # {}
  <2>1. PICK x \in U : U = {x}
    BY <1>3
  <2>2. /\ IsFiniteSet(S \cup {x})
        /\ Cardinality(S \cup {x}) = IF x \in S THEN Cardinality(S) ELSE Cardinality(S) + 1
    BY FS_AddElement
  <2>3. IsFiniteSet(T) /\ Cardinality(T) <= Cardinality(S \cup {x})
    BY <2>1, <2>2, FewerElements
  <2>4. Cardinality(T) \in Nat /\ Cardinality(S \cup {x}) \in Nat
    BY <2>2, <2>3, FS_CardinalityType
  <2> QED BY <1>1, <2>2, <2>3, <2>4
<1> QED BY <1>2, <1>3

(* A step that costs nothing may only settle what is owed, and one that    *)
(* costs a fault may leave the detection in progress behind.               *)
LEMMA NothingNewOwed ==
  ASSUME TypeOK, OwedIsPaid, faults' = faults, Owed' \subseteq Owed
  PROVE  OwedIsPaid'
<1>1. IsFiniteSet(Owed') /\ Cardinality(Owed') <= Cardinality(Owed)
  BY FewerElements DEF OwedIsPaid
<1>2. Cardinality(Owed') \in Nat /\ Cardinality(Owed) \in Nat
  BY <1>1, FS_CardinalityType DEF OwedIsPaid
<1> QED BY <1>1, <1>2 DEF OwedIsPaid, TypeOK

LEMMA FaultPaysForOne ==
  ASSUME TypeOK, DetectionInHand, OwedIsPaid,
         faults' = faults + 1, Owed' \subseteq Owed \cup cur
  PROVE  OwedIsPaid'
<1>1. IsFiniteSet(Owed') /\ Cardinality(Owed') <= Cardinality(Owed) + 1
  BY OneMoreElement DEF OwedIsPaid, DetectionInHand
<1>2. Cardinality(Owed') \in Nat /\ Cardinality(Owed) \in Nat
  BY <1>1, FS_CardinalityType DEF OwedIsPaid
<1> QED BY <1>1, <1>2 DEF OwedIsPaid, TypeOK

LEMMA InitOwed == Init => OwedIsPaid
<1> SUFFICES ASSUME Init PROVE OwedIsPaid
  OBVIOUS
<1>1. Owed = {}
  BY DEF Init, Owed, Leftovers
<1> QED BY <1>1, FS_EmptySet DEF Init, OwedIsPaid

LEMMA OwedStep ==
  ASSUME TInv, DetectionInHand, OwedIsPaid, [Next]_vars
  PROVE  OwedIsPaid'
<1>t. TypeOK
  BY DEF TInv
<1> USE DEF TypeOK, DetectionInHand, Leftovers, sink, work, table
<1>1. CASE Rotate
  <2>1. Owed' \subseteq Owed /\ faults' = faults
    BY <1>1 DEF Rotate, Owed
  <2> QED BY <2>1, <1>t, NothingNewOwed
<1>2. ASSUME NEW e \in Events, Detect(e) PROVE OwedIsPaid'
  <2>1. Owed' \subseteq Owed /\ faults' = faults
    BY <1>2, <1>t DEF Detect, Owed
  <2> QED BY <2>1, <1>t, NothingNewOwed
<1>3. ASSUME NEW f \in todo, Copy(f) PROVE OwedIsPaid'
  <2>1. Owed' \subseteq Owed /\ faults' = faults
    BY <1>3 DEF Copy, Owed
  <2> QED BY <2>1, <1>t, NothingNewOwed
<1>4. CASE CopyDone \/ Remux \/ PublishRaises
  <2>1. Owed' \subseteq Owed /\ faults' = faults
    BY <1>4, <1>t DEF CopyDone, Remux, PublishRaises, Owed
  <2> QED BY <2>1, <1>t, NothingNewOwed
<1>5. CASE Publish
  <2>1. Owed' \subseteq Owed /\ faults' = faults
    BY <1>5, <1>t DEF Publish, Owed
  <2> QED BY <2>1, <1>t, NothingNewOwed
<1>6. CASE Insert
  <2>1. Owed' \subseteq Owed /\ faults' = faults
    BY <1>6, <1>t DEF Insert, Owed
  <2> QED BY <2>1, <1>t, NothingNewOwed
<1>7. CASE Commit \/ OtherCommits
  <2>1. faults' = faults /\ UNCHANGED <<clip, staging>>
    BY <1>7 DEF Commit, OtherCommits
  <2>2. \A e \in Events : row'[e] = IF e \in cur /\ open THEN NewRow ELSE row[e]
    BY <1>7 DEF Commit, OtherCommits, Committed
  <2>3. Leftovers' \subseteq Leftovers
    BY <2>1, <2>2, <1>t DEF NewRow
  <2>4. open => Leftovers' \cap cur = {}
    BY <2>1, <2>2, <1>t DEF NewRow
  <2>5. pc = "commit"
    BY <1>7 DEF Commit, OtherCommits
  <2>6. Owed' \subseteq Leftovers'
    BY DEF Owed
  <2>7. Owed' \subseteq Owed
    BY <2>3, <2>4, <2>5, <2>6 DEF Owed
  <2> QED BY <2>1, <2>7, <1>t, NothingNewOwed
<1>8. CASE InsertRaises \/ OtherRollsBack \/ Crash
  <2>1. faults' = faults + 1 /\ Leftovers' = Leftovers
    BY <1>8 DEF InsertRaises, OtherRollsBack, Crash
  <2>2. Owed' \subseteq Owed \cup cur
    BY <2>1 DEF Owed
  <2> QED BY <2>1, <2>2, <1>t, FaultPaysForOne
<1>9. CASE Boot
  <2>1. Owed' \subseteq Owed /\ faults' = faults
    BY <1>9 DEF Boot, Owed
  <2> QED BY <2>1, <1>t, NothingNewOwed
<1>10. CASE UNCHANGED vars
  <2>1. Owed' \subseteq Owed /\ faults' = faults
    BY <1>10 DEF vars, Owed
  <2> QED BY <2>1, <1>t, NothingNewOwed
<1> QED
  BY <1>1, <1>2, <1>3, <1>4, <1>5, <1>6, <1>7, <1>8, <1>9, <1>10 DEF Next

LEMMA OwedCoversLeftovers == LInv => LeftoversNeedFaults
<1> SUFFICES ASSUME LInv PROVE LeftoversNeedFaults
  OBVIOUS
<1>1. IsFiniteSet(Owed) /\ Cardinality(Owed) \in Nat /\ Cardinality(Owed) <= faults
  BY FS_CardinalityType DEF LInv, OwedIsPaid
<1>2. faults \in Nat /\ (\A d, e \in cur : d = e)
  BY BoundsAssumption DEF LInv, TInv, TypeOK, DetectionInHand
<1>3. CASE pc \in {"down", "idle"}
  <2>1. Leftovers = Owed
    BY <1>3 DEF LInv, DetectionInHand, Owed
  <2> QED BY <1>1, <1>2, <1>3, <2>1 DEF LeftoversNeedFaults
<1>4. CASE pc \notin {"down", "idle"}
  <2>1. Leftovers \subseteq Owed \cup cur
    BY DEF Owed
  <2>2. IsFiniteSet(Leftovers) /\ Cardinality(Leftovers) <= Cardinality(Owed) + 1
    BY <1>1, <1>2, <2>1, OneMoreElement
  <2>3. Cardinality(Leftovers) \in Nat
    BY <2>2, FS_CardinalityType
  <2> QED BY <1>1, <1>2, <1>4, <2>2, <2>3 DEF LeftoversNeedFaults
<1> QED BY <1>3, <1>4

LEMMA LInvariance == Spec => []LInv
<1>1. LInv /\ [Next]_vars => LInv'
  BY TypeStep, DetectionStep, OwedStep DEF LInv
<1>2. Init => LInv
  BY InitTInv, InitDetection, InitOwed DEF LInv
<1> QED BY <1>1, <1>2, PTL DEF Spec

(* A row that names a clip names a published one, whatever fails or dies   *)
(* in between (docs/architecture.md:66).                                   *)
THEOREM RowsAfterClips == Spec => []RowsFollowClips
<1>1. LInv => RowsFollowClips
  BY DEF LInv
<1> QED BY <1>1, LInvariance, PTL

(* Every directory in /events that no row points to was paid for by a      *)
(* death, a refused insert or a rollback; one more may be in the making.   *)
THEOREM LeftoversArePaidFor == Spec => []LeftoversNeedFaults
  BY OwedCoversLeftovers, LInvariance, PTL

-----------------------------------------------------------------------------
LEMMA InitHInv == Init => HInv
<1> SUFFICES ASSUME Init PROVE HInv
  OBVIOUS
<1>1. TInv
  BY InitTInv
<1>2. BufferIsContiguous /\ CopyInOrder /\ NoHoles /\ ClipsAreContiguous
  BY DEF Init, BufferIsContiguous, CopyInOrder, NoHoles, ClipsAreContiguous
<1> QED BY <1>1, <1>2 DEF HInv

LEMMA NumbersOfFragments ==
  ASSUME TypeOK
  PROVE  /\ MaxFiles \in Nat /\ MaxFiles > 1 /\ last \in Nat /\ rotations \in Nat
         /\ \A f \in frags \cup todo \cup snaps : f \in Nat
  BY FilesAssumption, BoundsAssumption DEF TypeOK, Fragments

LEMMA BufferStep ==
  ASSUME TypeOK, BufferIsContiguous, [Next]_vars
  PROVE  BufferIsContiguous'
<1>n. /\ MaxFiles \in Nat /\ MaxFiles > 1 /\ last \in Nat
      /\ \A f \in frags : f \in Nat
  BY NumbersOfFragments
<1>s. /\ \A f \in frags : f <= last /\ f > last - MaxFiles
      /\ \A f \in frags : \A g \in f..last : g \in frags
      /\ \A f \in frags : f # last => f \in sealed
      /\ pc # "down" /\ last \in frags => last \in writing
  BY DEF BufferIsContiguous
<1> USE DEF sink, work, table
<1>1. CASE Rotate
  <2>1. /\ pc # "down" /\ last' = last + 1 /\ sealed' = sealed \cup writing
        /\ writing' = {last + 1}
        /\ \A f : f \in frags' <=>
                     (f \in frags \/ f = last + 1) /\ f > last + 1 - MaxFiles
    BY <1>1 DEF Rotate
  <2>2. ASSUME NEW f \in frags'
        PROVE  f <= last' /\ f > last' - MaxFiles /\ f..last' \subseteq frags'
    <3>1. f \in Nat /\ f <= last + 1 /\ f > last + 1 - MaxFiles
      BY <2>1, <1>n, <1>s
    <3>2. ASSUME NEW g \in f..(last + 1) PROVE g \in frags'
      <4>1. CASE g = last + 1
        BY <2>1, <1>n, <4>1
      <4>2. CASE g # last + 1
        <5>1. g \in Nat /\ f <= g /\ g <= last
          BY <3>1, <4>2, <1>n
        <5>2. f \in frags
          BY <2>1, <3>1, <5>1, <1>n
        <5>3. g \in frags /\ g > last + 1 - MaxFiles
          BY <5>1, <5>2, <3>1, <1>s, <1>n
        <5> QED BY <2>1, <5>3
      <4> QED BY <4>1, <4>2
    <3>3. last' = last + 1
      BY <2>1
    <3> QED BY <3>1, <3>2, <3>3, <1>n
  <2>3. ASSUME NEW f \in frags', f # last' PROVE f \in sealed'
    <3>1. f \in frags
      BY <2>1, <2>3
    <3>2. f \in sealed \/ f \in writing
      BY <2>1, <3>1, <1>s
    <3> QED BY <2>1, <3>2
  <2>4. last' \in writing'
    BY <2>1
  <2> QED BY <2>2, <2>3, <2>4 DEF BufferIsContiguous
<1>2. CASE Boot
  BY <1>2 DEF Boot, BufferIsContiguous
<1>3. CASE Crash
  BY <1>3, <1>s DEF Crash, BufferIsContiguous
<1>4. CASE UNCHANGED sink /\ (pc' # "down" => pc # "down")
  BY <1>4 DEF BufferIsContiguous
<1>5. CASE \/ \E e \in Events : Detect(e)
           \/ \E f \in todo : Copy(f)
           \/ CopyDone \/ Remux \/ PublishRaises \/ Publish
           \/ Insert \/ Commit \/ InsertRaises
  <2>1. UNCHANGED sink /\ pc # "down"
    BY <1>5 DEF Detect, Copy, CopyDone, Remux, PublishRaises, Publish,
                Insert, Commit, InsertRaises
  <2> QED BY <2>1, <1>4
<1>6. CASE OtherCommits \/ OtherRollsBack \/ UNCHANGED vars
  <2>1. UNCHANGED sink /\ UNCHANGED pc
    BY <1>6 DEF OtherCommits, OtherRollsBack, vars
  <2> QED BY <2>1, <1>4
<1> QED BY <1>1, <1>2, <1>3, <1>5, <1>6 DEF Next

(* One rotation can remove only the oldest fragment that was listed.       *)
LEMMA CopyStep ==
  ASSUME MaxRotations <= 1, TypeOK, BufferIsContiguous, CopyInOrder, [Next]_vars
  PROVE  CopyInOrder'
<1>n. /\ MaxFiles \in Nat /\ MaxFiles > 1 /\ last \in Nat
      /\ rotations \in Nat /\ rotations <= 1
      /\ \A f \in frags \cup todo \cup snaps : f \in Nat
  BY NumbersOfFragments, BoundsAssumption DEF TypeOK
<1>b. /\ \A f \in frags : f <= last /\ f > last - MaxFiles
      /\ \A f \in frags : \A g \in f..last : g \in frags
      /\ \A f \in frags : f # last => f \in sealed
  BY DEF BufferIsContiguous
<1>c. pc = "copy" =>
        /\ \A f \in todo : f <= last - rotations
        /\ \A f \in todo : \A g \in f..(last - rotations) : g \in todo
        /\ \A s \in snaps, f \in todo : s < f /\ f \in frags
        /\ \A s \in snaps, f \in snaps \cup todo :
              \A g \in s..f : g \in snaps \cup todo
        /\ rotations = 0 => todo \cup snaps \subseteq frags
  BY DEF CopyInOrder
<1> USE DEF sink, work, table
<1>1. CASE Rotate
  <2> SUFFICES ASSUME pc' = "copy" PROVE CopyInOrder'
    BY DEF CopyInOrder
  <2>1. /\ pc = "copy" /\ last' = last + 1 /\ UNCHANGED <<todo, snaps>>
        /\ rotations < MaxRotations /\ rotations' = rotations + 1
        /\ \A f : f \in frags' <=>
                     (f \in frags \/ f = last + 1) /\ f > last + 1 - MaxFiles
    BY <1>1 DEF Rotate
  <2>2. rotations = 0 /\ rotations' = 1 /\ last' - rotations' = last - rotations
    BY <2>1, <1>n, BoundsAssumption
  <2>3. ASSUME NEW s \in snaps, NEW f \in todo PROVE f \in frags'
    <3>1. s \in frags /\ f \in frags /\ s < f /\ s > last - MaxFiles
      BY <2>1, <2>2, <1>b, <1>c
    <3>2. f > last + 1 - MaxFiles
      BY <3>1, <1>n
    <3> QED BY <2>1, <3>1, <3>2
  <2> QED BY <2>1, <2>2, <2>3, <1>c DEF CopyInOrder
<1>2. ASSUME NEW e \in Events, Detect(e) PROVE CopyInOrder'
  <2>1. todo' = frags /\ snaps' = {} /\ rotations' = 0 /\ UNCHANGED <<frags, last>>
    BY <1>2 DEF Detect
  <2>2. last' - rotations' = last
    BY <2>1, <1>n
  <2> QED BY <2>1, <2>2, <1>b DEF CopyInOrder
<1>3. ASSUME NEW f \in todo, Copy(f) PROVE CopyInOrder'
  <2>1. /\ pc = "copy" /\ todo' = todo \ {f} /\ (\A g \in todo : f <= g)
        /\ UNCHANGED <<frags, last, rotations>>
        /\ \A s : s \in snaps' <=> s \in snaps \/ (s = f /\ f \in frags \cap sealed)
    BY <1>3 DEF Copy
  <2>2. ASSUME NEW g \in todo'
        PROVE  g \in Nat /\ f < g /\ g <= last - rotations /\ g \in todo
    BY <2>1, <1>n, <1>c
  <2>3. ASSUME NEW g \in todo', NEW h \in g..(last - rotations) PROVE h \in todo'
    BY <2>1, <2>2, <1>n, <1>c
  <2>4. ASSUME NEW s \in snaps', NEW g \in todo' PROVE s < g /\ g \in frags
    <3>1. CASE s \in snaps
      BY <2>2, <3>1, <2>1, <1>c
    <3>2. CASE s = f /\ f \in frags
      <4>1. g \in f..last
        BY <2>2, <1>n
      <4> QED BY <2>2, <3>2, <4>1, <1>b
    <3> QED BY <2>1, <3>1, <3>2
  <2>5. CASE f \in snaps'
    <3>1. snaps' \cup todo' = snaps \cup todo
      BY <2>1, <2>5
    <3>2. ASSUME NEW s \in snaps', NEW g \in snaps' \cup todo', NEW h \in s..g
          PROVE  h \in snaps' \cup todo'
      <4>1. CASE s \in snaps
        BY <2>1, <3>1, <4>1, <1>c
      <4>2. CASE s = f /\ f \in todo
        <5>1. g \in Nat /\ h \in Nat
          BY <3>1, <4>2, <1>n
        <5>2. g <= last - rotations
          BY <2>1, <3>1, <5>1, <1>n, <1>c
        <5>3. h \in f..(last - rotations)
          BY <4>2, <5>1, <5>2, <1>n
        <5> QED BY <2>1, <3>1, <5>3, <1>c
      <4> QED BY <2>1, <4>1, <4>2
    <3> QED BY <2>1, <2>2, <2>3, <2>4, <3>2, <1>c DEF CopyInOrder
  <2>6. CASE f \notin snaps'
    <3>1. snaps' = snaps
      BY <2>1, <2>6
    <3>2. CASE f \notin frags
      <4>1. snaps = {}
        BY <2>1, <3>2, <1>c
      <4> QED BY <2>1, <2>2, <2>3, <3>1, <4>1, <1>c DEF CopyInOrder
    <3>3. CASE f \in frags \ sealed
      <4>1. f = last
        BY <3>3, <1>b
      <4>2. todo' = {}
        BY <2>2, <4>1, <1>n
      <4>3. ASSUME NEW s \in snaps, NEW g \in snaps, NEW h \in s..g PROVE h \in snaps
        <5>1. h \in snaps \cup todo /\ g < f
          BY <2>1, <1>c
        <5>2. h # f /\ todo \subseteq {f}
          BY <5>1, <4>2, <2>1, <1>n
        <5> QED BY <5>1, <5>2
      <4> QED BY <2>1, <3>1, <4>2, <4>3, <1>c DEF CopyInOrder
    <3> QED BY <2>1, <2>6, <3>2, <3>3
  <2> QED BY <2>5, <2>6
<1>4. CASE \/ CopyDone \/ Remux \/ PublishRaises \/ Publish
           \/ Insert \/ Commit \/ InsertRaises \/ Boot \/ Crash
  BY <1>4 DEF CopyInOrder, CopyDone, Remux, PublishRaises, Publish, Insert,
              Commit, InsertRaises, Boot, Crash, Finish
<1>5. CASE OtherCommits \/ OtherRollsBack \/ UNCHANGED vars
  <2>1. UNCHANGED <<pc, frags, last, todo, snaps, rotations>>
    BY <1>5 DEF OtherCommits, OtherRollsBack, vars
  <2> QED BY <2>1 DEF CopyInOrder
<1> QED BY <1>1, <1>2, <1>3, <1>4, <1>5 DEF Next

LEMMA HolesStep ==
  ASSUME HInv, [Next]_vars, CopyInOrder'
  PROVE  NoHoles' /\ ClipsAreContiguous'
<1>h. /\ \A f, g \in snaps : f..g \subseteq snaps
      /\ \A e \in Events : \A f, g \in clip[e] : f..g \subseteq clip[e]
      /\ TypeOK
  BY DEF HInv, NoHoles, ClipsAreContiguous, TInv
<1> USE DEF NoHoles, ClipsAreContiguous, sink, work, table
<1>1. ASSUME NEW f \in todo, Copy(f) PROVE NoHoles' /\ ClipsAreContiguous'
  <2>1. /\ UNCHANGED clip /\ (\A g \in todo : f <= g)
        /\ todo' = todo \ {f} /\ snaps' \subseteq snaps \cup {f} /\ pc' = "copy"
    BY <1>1 DEF Copy
  <2>2. ASSUME NEW s \in snaps', NEW g \in snaps', NEW h \in s..g PROVE h \in snaps'
    <3>1. h \in snaps' \cup todo'
      BY <2>1 DEF CopyInOrder
    <3>2. h \notin todo'
      <4>1. \A k \in todo' : g < k
        BY <2>1 DEF CopyInOrder
      <4>2. g \in Nat
        BY <2>1, <1>h, NumbersOfFragments
      <4> QED BY <4>1, <4>2
    <3> QED BY <3>1, <3>2
  <2> QED BY <2>1, <2>2, <1>h
<1>2. CASE Publish
  <2>1. \A e \in Events : clip'[e] = IF e \in cur THEN snaps ELSE clip[e]
    BY <1>2 DEF Publish
  <2>2. snaps' = snaps
    BY <1>2 DEF Publish
  <2> QED BY <2>1, <2>2, <1>h
<1>3. ASSUME UNCHANGED clip, snaps' \in {snaps, {}}
      PROVE  NoHoles' /\ ClipsAreContiguous'
  BY <1>3, <1>h
<1>4. CASE \/ Rotate \/ (\E e \in Events : Detect(e))
           \/ CopyDone \/ Remux \/ PublishRaises
           \/ Insert \/ Commit \/ InsertRaises \/ OtherCommits \/ OtherRollsBack
           \/ Boot \/ Crash \/ UNCHANGED vars
  <2>1. UNCHANGED clip /\ snaps' \in {snaps, {}}
    BY <1>4 DEF Rotate, Detect, CopyDone, Remux, PublishRaises, Insert, Commit,
                InsertRaises, OtherCommits, OtherRollsBack, Boot, Crash, Finish, vars
  <2> QED BY <2>1, <1>3
<1> QED BY <1>1, <1>2, <1>4 DEF Next

(* A clip has no hole in time, if at most one fragment is finished while   *)
(* the buffer is copied; with two the statement is false.                  *)
THEOREM ContiguousClips ==
  ASSUME MaxRotations <= 1 PROVE Spec => []ClipsAreContiguous
<1>1. HInv /\ [Next]_vars => HInv'
  BY TypeStep, BufferStep, CopyStep, HolesStep DEF HInv, TInv
<1>2. HInv => ClipsAreContiguous
  BY DEF HInv
<1> QED BY <1>1, <1>2, InitHInv, PTL DEF Spec

-----------------------------------------------------------------------------
(* EventFlow: the recorder's part of it is EventClip, the uploader's part  *)
(* UploadWorker, so what is proved of each of them holds here.             *)
THEOREM RecorderPart == FSpec => Spec
<1>1. FInit => Init
  BY DEF FInit
<1>2. [FNext]_<<vars, worker, api>> => [Next]_vars
  BY DEF FNext, RecorderStep, UploaderStep, GetEvent, IsFile, IsNoFile,
         SendFile, SendRaises, Answer
<1> QED BY <1>1, <1>2, PTL DEF FSpec, Spec

(* A step of the recorder is for the uploader an event that is recorded or *)
(* nothing at all, and the clip API never disturbs it.                     *)
THEOREM UploaderPart == FSpec => Worker!Spec
<1>1. FInit => Worker!Init
  BY DEF FInit
<1>2. [FNext]_<<vars, worker, api>> => [Worker!Next]_(Worker!vars)
  <2> SUFFICES ASSUME [FNext]_<<vars, worker, api>>
               PROVE  Worker!Next \/ UNCHANGED worker
    BY DEF Worker!vars, worker
  <2>1. CASE RecorderStep
    BY <2>1 DEF RecorderStep, Worker!Next
  <2>2. CASE UploaderStep
    BY <2>2 DEF UploaderStep, Worker!Next
  <2>3. CASE \/ (\E e \in Events : GetEvent(e))
             \/ IsFile \/ IsNoFile \/ SendFile \/ SendRaises
    BY <2>3 DEF GetEvent, IsFile, IsNoFile, SendFile, SendRaises, Answer
  <2> QED BY <2>1, <2>2, <2>3 DEF FNext
<1> QED BY <1>1, <1>2, PTL DEF FSpec, Worker!Spec

-----------------------------------------------------------------------------
(* What the uploader finds of an event agrees with what the recorder wrote *)
(* of it, but for what the uploader itself removed.                        *)
ProcessesAgree == \A e \in Events :
    /\ outcome[e] = "absent" <=> row[e] = "absent"
    /\ row[e] = "clip" /\ ~Oversized(e) => found[e] = "clip"

(* The uploader works on recorded events only, and gives up on none whose  *)
(* clip it found.                                                          *)
GivingUp ==
    /\ wtodo \subseteq Events /\ \A e \in wtodo : outcome[e] # "absent"
    /\ wpc \in Worker!Busy => wcur \in Events /\ outcome[wcur] # "absent"
    /\ wpc \in {"purge", "fail"} => found[wcur] # "clip"
    /\ \A e \in Events : outcome[e] = "failed" => found[e] # "clip"

(* A request that is being answered found a row with a clip.               *)
Answers ==
    /\ asked \subseteq Events /\ (\A d, e \in asked : d = e)
    /\ \A e \in asked : row[e] = "clip"
    /\ \A e \in Events : answer[e] \in {"missing", "error"} =>
          row[e] = "clip" /\ Oversized(e)

FlowTypes ==
    /\ outcome \in [Events -> Worker!Status]
    /\ found \in [Events -> Worker!Clip]
    /\ answer \in [Events -> {"none", "missing", "served", "error"}]

FInv == FlowTypes /\ ProcessesAgree /\ GivingUp /\ Answers

LEMMA InitFInv == FInit => FInv
<1> SUFFICES ASSUME FInit PROVE FInv
  OBVIOUS
<1> USE DEF FInit, Init, Worker!Init, Worker!Status, Worker!Clip, Worker!Busy
<1>1. FlowTypes
  BY DEF FlowTypes
<1>2. ProcessesAgree /\ GivingUp /\ Answers
  BY DEF ProcessesAgree, GivingUp, Answers
<1> QED BY <1>1, <1>2 DEF FInv

(* A row that is committed is final, and so is its clip: the recorder only *)
(* changes those of the detection in progress, whose row is not there yet. *)
LEMMA RecordedIsFinal ==
  ASSUME LInv, Next
  PROVE  /\ \A e \in Events : row[e] # "absent" =>
               clip'[e] = clip[e] /\ row'[e] = row[e]
         /\ \A d, e \in Events :
               row'[d] # row[d] /\ row'[e] # row[e] => d = e
         /\ row' # row => clip' = clip
<1> USE DEF LInv, TInv, TypeOK, DetectionInHand, sink, work, table
<1>1. CASE Publish
  BY <1>1 DEF Publish
<1>2. CASE Commit \/ OtherCommits
  <2>1. /\ \A e \in Events : row'[e] = IF e \in cur /\ open THEN NewRow ELSE row[e]
        /\ clip' = clip
    BY <1>2 DEF Commit, OtherCommits, Committed
  <2> QED BY <2>1
<1>3. ASSUME UNCHANGED <<clip, row>>
      PROVE  /\ \A e \in Events : row[e] # "absent" =>
                   clip'[e] = clip[e] /\ row'[e] = row[e]
             /\ \A d, e \in Events :
                   row'[d] # row[d] /\ row'[e] # row[e] => d = e
             /\ row' # row => clip' = clip
  BY <1>3
<1>4. CASE \/ Rotate \/ (\E e \in Events : Detect(e))
           \/ (\E f \in todo : Copy(f)) \/ CopyDone \/ Remux \/ PublishRaises
           \/ Insert \/ InsertRaises \/ OtherRollsBack \/ Boot \/ Crash
  <2>1. UNCHANGED <<clip, row>>
    BY <1>4 DEF Rotate, Detect, Copy, CopyDone, Remux, PublishRaises, Insert,
                InsertRaises, OtherRollsBack, Boot, Crash
  <2> QED BY <2>1, <1>3
<1> QED BY <1>1, <1>2, <1>4 DEF Next

LEMMA RecorderKeeps ==
  ASSUME LInv, LInv', FInv, RecorderStep
  PROVE  FInv'
<1>n. Next /\ UNCHANGED api
  BY DEF RecorderStep
<1>f. /\ \A e \in Events : row[e] # "absent" =>
            clip'[e] = clip[e] /\ row'[e] = row[e]
      /\ \A d, e \in Events :
            row'[d] # row[d] /\ row'[e] # row[e] => d = e
      /\ row' # row => clip' = clip
  BY <1>n, RecordedIsFinal
<1>o. \A e \in Events : row[e] # "absent" => (Oversized(e)' <=> Oversized(e))
  BY <1>f DEF Oversized
<1>t. /\ row \in [Events -> {"absent", "clip", "null"}]
      /\ row' \in [Events -> {"absent", "clip", "null"}]
      /\ \A e \in Events : row'[e] = "clip" => clip'[e] # {}
  BY DEF LInv, TInv, TypeOK, RowsFollowClips
<1>a. Answers'
  BY <1>n, <1>f, <1>o DEF FInv, Answers, api
<1>1. CASE row' = row
  <2>1. UNCHANGED worker
    BY <1>1 DEF RecorderStep
  <2>2. ProcessesAgree'
    BY <1>1, <1>o, <2>1 DEF FInv, ProcessesAgree, worker
  <2>3. GivingUp' /\ FlowTypes'
    BY <1>n, <2>1 DEF FInv, GivingUp, FlowTypes, worker, api
  <2> QED BY <1>a, <2>2, <2>3 DEF FInv
<1>2. CASE row' # row
  <2>1. PICK e \in Events :
           row'[e] # row[e] /\ Worker!Record(e) /\ found'[e] = OnDisk(e)
    BY <1>2 DEF RecorderStep
  <2>2. /\ outcome[e] = "absent" /\ outcome' = [outcome EXCEPT ![e] = "pending"]
        /\ \E f \in Worker!Clip : found' = [found EXCEPT ![e] = f]
        /\ UNCHANGED <<wpc, wtodo, wcur>>
    BY <2>1 DEF Worker!Record
  <2>3. FlowTypes'
    BY <2>2, <1>n DEF FInv, FlowTypes, Worker!Status, api
  <2>4. row'[e] # "absent" /\ \A d \in Events \ {e} : row'[d] = row[d]
    BY <2>1, <1>f, <1>t
  <2>5. /\ outcome'[e] = "pending"
        /\ \A d \in Events \ {e} : outcome'[d] = outcome[d] /\ found'[d] = found[d]
    BY <2>2 DEF FInv, FlowTypes
  <2>6. row'[e] = "clip" /\ ~Oversized(e)' => found'[e] = "clip"
    BY <2>1, <1>2, <1>f, <1>t DEF OnDisk, Oversized
  <2>7. ProcessesAgree'
    <3> SUFFICES ASSUME NEW d \in Events
                 PROVE  /\ outcome'[d] = "absent" <=> row'[d] = "absent"
                        /\ row'[d] = "clip" /\ ~Oversized(d)' => found'[d] = "clip"
      BY DEF ProcessesAgree
    <3>1. CASE d = e
      BY <3>1, <2>4, <2>5, <2>6
    <3>2. CASE d # e
      BY <3>2, <2>4, <2>5, <1>o DEF FInv, ProcessesAgree
    <3> QED BY <3>1, <3>2
  <2>8. GivingUp'
    BY <2>2, <2>5 DEF FInv, GivingUp, Worker!Busy
  <2> QED BY <1>a, <2>3, <2>7, <2>8 DEF FInv
<1> QED BY <1>1, <1>2

LEMMA UploaderKeeps ==
  ASSUME LInv, FInv, UploaderStep
  PROVE  FInv'
<1>n. UNCHANGED <<row, clip, apc, asked, answer>>
  BY DEF UploaderStep, vars, api, table
<1>o. \A e \in Events : Oversized(e)' <=> Oversized(e)
  BY <1>n DEF Oversized
<1>a. Answers'
  BY <1>n, <1>o DEF FInv, Answers
<1> SUFFICES FlowTypes' /\ ProcessesAgree' /\ GivingUp'
  BY <1>a DEF FInv
<1> DEFINE Goal == FlowTypes' /\ ProcessesAgree' /\ GivingUp'
<1> USE <1>n, <1>o
    DEF FInv, FlowTypes, ProcessesAgree, GivingUp, Worker!Status, Worker!Clip,
        Worker!Busy
<1>1. CASE Worker!BeginPass
  BY <1>1 DEF Worker!BeginPass, Worker!Pending
<1>2. CASE Worker!EndPass \/ Worker!Start
  BY <1>2 DEF Worker!EndPass, Worker!Start
<1>3. ASSUME NEW e \in Events, Worker!Take(e) PROVE Goal
  BY <1>3 DEF Worker!Take, Worker!Triage
<1>4. CASE Worker!RemoveOversized
  BY <1>4 DEF Worker!RemoveOversized
<1>5. CASE Worker!MarkFailed
  BY <1>5 DEF Worker!MarkFailed
<1>6. CASE Worker!MarkFailedRaises
  BY <1>6 DEF Worker!MarkFailedRaises
<1>7. CASE Worker!SendOk \/ Worker!SendLosesAnswer \/ Worker!SendFails
  BY <1>7 DEF Worker!SendOk, Worker!SendLosesAnswer, Worker!SendFails
<1>8. CASE Worker!MarkUploaded
  BY <1>8 DEF Worker!MarkUploaded
<1>9. CASE Worker!MarkUploadedRaises
  BY <1>9 DEF Worker!MarkUploadedRaises
<1>10. CASE Worker!Crash \/ Worker!Exit
  BY <1>10 DEF Worker!Crash, Worker!Exit, Worker!Die
<1>11. CASE Worker!Stop
  BY <1>11 DEF Worker!Stop
<1> HIDE DEF Goal
<1> QED
  BY <1>1, <1>2, <1>3, <1>4, <1>5, <1>6, <1>7, <1>8, <1>9, <1>10, <1>11
  DEF UploaderStep, Worker!Worker, Goal

LEMMA ApiKeeps ==
  ASSUME LInv, FInv,
         \/ (\E e \in Events : GetEvent(e))
         \/ IsFile \/ IsNoFile \/ SendFile \/ SendRaises
  PROVE  FInv'
<1>n. UNCHANGED <<vars, worker>>
  BY DEF GetEvent, IsFile, IsNoFile, SendFile, SendRaises, Answer
<1>u. UNCHANGED <<row, clip, outcome, found, wpc, wtodo, wcur>>
  BY <1>n DEF vars, worker, table
<1>o. \A e \in Events : Oversized(e)' <=> Oversized(e)
  BY <1>u DEF Oversized
<1>1. ProcessesAgree' /\ GivingUp'
  BY <1>u, <1>o DEF FInv, ProcessesAgree, GivingUp
<1>2. answer' \in [Events -> {"none", "missing", "served", "error"}]
  BY DEF FInv, FlowTypes, GetEvent, IsFile, IsNoFile, SendFile, SendRaises, Answer
<1>3. FlowTypes'
  BY <1>u, <1>2 DEF FInv, FlowTypes
<1>4. \A e \in asked : found[e] = "none" => Oversized(e)
  BY DEF FInv, Answers, ProcessesAgree
<1>5. /\ asked \subseteq Events /\ (\A d, e \in asked : d = e)
      /\ \A e \in asked : row[e] = "clip"
      /\ \A e \in Events : answer[e] \in {"missing", "error"} => row[e] = "clip"
      /\ \A e \in Events : answer[e] \in {"missing", "error"} => Oversized(e)
  BY DEF FInv, Answers
<1>6. ASSUME \/ asked' = {} \/ asked' = asked
             \/ \E e \in Events : row[e] = "clip" /\ asked' = {e},
             \A e \in Events : answer'[e] \in {"missing", "error"} =>
                answer[e] = answer'[e] \/ (e \in asked /\ found[e] = "none")
      PROVE  Answers'
  <2>1. asked' \subseteq Events /\ (\A d, e \in asked' : d = e)
    BY <1>5, <1>6
  <2>2. \A e \in asked' : row'[e] = "clip"
    BY <1>5, <1>6, <1>u
  <2>3. \A e \in Events : answer'[e] \in {"missing", "error"} =>
           row'[e] = "clip" /\ Oversized(e)'
    <3> SUFFICES ASSUME NEW e \in Events, answer'[e] \in {"missing", "error"}
                 PROVE  row'[e] = "clip" /\ Oversized(e)'
      OBVIOUS
    <3>1. row[e] = "clip"
      BY <1>5, <1>6
    <3>2. Oversized(e)
      BY <1>4, <1>5, <1>6
    <3> QED BY <3>1, <3>2, <1>u, <1>o
  <2> QED BY <2>1, <2>2, <2>3 DEF Answers
<1>7. ASSUME NEW how, Answer(how), how \in {"missing", "error"} => ~Present
      PROVE  Answers'
  <2>1. asked' = {} /\ \A e \in Events :
                          answer'[e] = IF e \in asked THEN how ELSE answer[e]
    BY <1>7 DEF Answer
  <2>2. how \in {"missing", "error"} => \A e \in asked : found[e] = "none"
    BY <1>5, <1>7 DEF Present
  <2> QED BY <2>1, <2>2, <1>6
<1>8. ASSUME NEW e \in Events, GetEvent(e) PROVE Answers'
  BY <1>6, <1>8 DEF GetEvent
<1>9. ASSUME IsFile PROVE Answers'
  BY <1>6, <1>9 DEF IsFile
<1>10. ASSUME IsNoFile \/ SendFile \/ SendRaises PROVE Answers'
  BY <1>7, <1>10 DEF IsNoFile, SendFile, SendRaises
<1> QED BY <1>1, <1>3, <1>8, <1>9, <1>10 DEF FInv

LEMMA FInvariance == FSpec => [](LInv /\ FInv)
<1>1. FSpec => []LInv
  BY RecorderPart, LInvariance, PTL
<1>2. LInv /\ LInv' /\ FInv /\ [FNext]_<<vars, worker, api>> => FInv'
  <2> SUFFICES ASSUME LInv, LInv', FInv, [FNext]_<<vars, worker, api>> PROVE FInv'
    OBVIOUS
  <2>1. CASE UNCHANGED <<vars, worker, api>>
    BY <2>1
    DEF FInv, FlowTypes, ProcessesAgree, GivingUp, Answers, Oversized,
        vars, table, worker, api
  <2> QED BY <2>1, RecorderKeeps, UploaderKeeps, ApiKeeps DEF FNext
<1> QED BY <1>1, <1>2, InitFInv, PTL DEF FSpec

(* The uploader gives up for ever only on what it could not have sent: it  *)
(* never sees a row before its clip.                                       *)
THEOREM PatientUploader == FSpec => []NothingGivenUpTooEarly
<1>1. LInv /\ FInv => NothingGivenUpTooEarly
  <2> SUFFICES ASSUME LInv, FInv, NEW e \in Events, outcome[e] = "failed",
                      row[e] # "null", ~Oversized(e)
               PROVE  FALSE
    BY DEF NothingGivenUpTooEarly
  <2>1. row[e] \in {"absent", "clip", "null"}
    BY DEF LInv, TInv, TypeOK
  <2> QED BY <2>1 DEF FInv, ProcessesAgree, GivingUp
<1> QED BY <1>1, FInvariance, PTL

(* Whoever asks for a clip that its row advertises gets it, whatever the   *)
(* uploader does in between, unless the clip was too large to keep.        *)
THEOREM AdvertisedIsServed == FSpec => []ServedAsAdvertised
<1>1. LInv /\ FInv => ServedAsAdvertised
  BY DEF FInv, Answers, ServedAsAdvertised
<1> QED BY <1>1, FInvariance, PTL

-----------------------------------------------------------------------------
(* What UploadWorker_proofs shows of the worker.  That module also has the *)
(* session with the Conveyor, which is no part of EventFlow: there is none.*)
WorkerProofs == INSTANCE UploadWorker_proofs WITH
    row <- outcome, file <- found, pc <- wpc, todo <- wtodo, cur <- wcur,
    faults <- wfaults, MaxFaults <- MaxWorkerFaults, Poison <- {},
    Tokens <- {}, Grants <- {}, NoToken <- "none", Nobody <- "none", MaxRestarts <- 0,
    calls <- 0, lock <- 0, token <- 0, left <- 0, secret <- 0, using <- 0,
    known <- 0, credit <- 0, restarts <- 0

LEMMA SameWorker == Worker!Spec => WorkerProofs!Spec
<1>1. Worker!Init => WorkerProofs!Init
  BY DEF Worker!Init, WorkerProofs!Init, Worker!NoEvent, WorkerProofs!NoEvent
<1>2. Worker!Next => WorkerProofs!Next
  BY DEF Worker!Next, Worker!Worker, Worker!Record, Worker!Start,
         Worker!BeginPass, Worker!EndPass, Worker!Take, Worker!Triage,
         Worker!RemoveOversized, Worker!MarkFailed, Worker!MarkFailedRaises,
         Worker!SendOk, Worker!SendLosesAnswer, Worker!SendFails,
         Worker!MarkUploaded, Worker!MarkUploadedRaises, Worker!Crash,
         Worker!Stop, Worker!Exit, Worker!Die, Worker!Pending,
         Worker!NoEvent, Worker!Clip,
         WorkerProofs!Next, WorkerProofs!Worker, WorkerProofs!Record,
         WorkerProofs!Start, WorkerProofs!BeginPass, WorkerProofs!EndPass,
         WorkerProofs!Take, WorkerProofs!Triage,
         WorkerProofs!RemoveOversized, WorkerProofs!MarkFailed,
         WorkerProofs!MarkFailedRaises, WorkerProofs!SendOk,
         WorkerProofs!SendLosesAnswer, WorkerProofs!SendFails,
         WorkerProofs!MarkUploaded, WorkerProofs!MarkUploadedRaises,
         WorkerProofs!Crash, WorkerProofs!Stop, WorkerProofs!Exit,
         WorkerProofs!Die, WorkerProofs!Pending, WorkerProofs!NoEvent,
         WorkerProofs!Clip
<1>3. UNCHANGED Worker!vars => UNCHANGED WorkerProofs!vars
  BY DEF Worker!vars, WorkerProofs!vars
<1> QED BY <1>1, <1>2, <1>3, PTL DEF Worker!Spec, WorkerProofs!Spec

LEMMA WorkerConstants ==
  /\ Events \subseteq Nat /\ {} \subseteq Events /\ MaxWorkerFaults \in Nat
  /\ "none" \notin {} /\ "none" \notin {"upload", "status"}
  /\ {} \subseteq Nat \ {0} /\ 0 \in Nat
  BY FlowAssumption

(* Also beside a recorder that publishes and dies at any moment, what the  *)
(* table says of an upload is true of the Conveyor and of the disk.        *)
THEOREM OutcomesAreRight == FSpec => []Worker!OutcomesAreTrue
<1>1. WorkerProofs!Spec => []WorkerProofs!OutcomesAreTrue
  BY WorkerConstants, WorkerProofs!OutcomesAreRight
<1>2. WorkerProofs!OutcomesAreTrue => Worker!OutcomesAreTrue
  BY DEF WorkerProofs!OutcomesAreTrue, WorkerProofs!UploadedWasDelivered,
         WorkerProofs!FailedWasUndeliverable, Worker!OutcomesAreTrue,
         Worker!UploadedWasDelivered, Worker!FailedWasUndeliverable
<1> QED BY <1>1, <1>2, SameWorker, UploaderPart, PTL

(* The three processes together keep the promise of EventDelivery.         *)
THEOREM PromiseIsKept == FSpec => Worker!Implements
<1>1. WorkerProofs!Spec => WorkerProofs!Implements
  BY WorkerConstants, WorkerProofs!Refinement
<1>2. WorkerProofs!Implements => Worker!Implements
  <2>1. WorkerProofs!Delivery!Init => Worker!Delivery!Init
    BY DEF WorkerProofs!Delivery!Init, Worker!Delivery!Init
  <2>2. [WorkerProofs!Delivery!Next]_(WorkerProofs!Delivery!vars)
           => [Worker!Delivery!Next]_(Worker!Delivery!vars)
    BY DEF WorkerProofs!Delivery!Next, WorkerProofs!Delivery!vars,
           WorkerProofs!Delivery!Record, WorkerProofs!Delivery!Deliver,
           WorkerProofs!Delivery!GiveUp, WorkerProofs!Delivery!Acknowledge,
           Worker!Delivery!Next, Worker!Delivery!vars,
           Worker!Delivery!Record, Worker!Delivery!Deliver,
           Worker!Delivery!GiveUp, Worker!Delivery!Acknowledge
  <2> QED
    BY <2>1, <2>2, PTL
    DEF WorkerProofs!Implements, Worker!Implements, WorkerProofs!Delivery!Spec,
        Worker!Delivery!Spec
<1> QED BY <1>1, <1>2, SameWorker, UploaderPart, PTL
=============================================================================
