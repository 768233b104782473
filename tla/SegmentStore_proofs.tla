------------------------ MODULE SegmentStore_proofs ------------------------
(***************************************************************************)
(* Proofs about SegmentStore for any cameras, any sizes and any bounds.    *)
(* What retention deletes needs no assumption about the clock; that the    *)
(* index never offers a file in use needs a clock that is not stepped      *)
(* back (MaxSteps = 0).                                                    *)
(***************************************************************************)
EXTENDS SegmentStore, FiniteSetTheorems, TLAPS

LEMMA OlderIsTotalOrder ==
  /\ \A p, q, r \in Path : Older(p, q) /\ Older(q, r) => Older(p, r)
  /\ \A p, q \in Path : p = q \/ Older(p, q) \/ Older(q, p)
  /\ \A p, q \in Path : ~(Older(p, q) /\ Older(q, p))
<1>1. \A p \in Path : p.start \in Nat /\ p.cam \in Nat
  <2> SUFFICES ASSUME NEW p \in Path PROVE p.start \in Nat /\ p.cam \in Nat
    OBVIOUS
  <2>1. p.cam \in Cameras /\ p.start \in 0..MaxStart
    BY DEF Path
  <2>2. p.cam \in Nat
    BY <2>1, CamerasAssumption
  <2>3. p.start \in Nat
    BY <2>1, BoundsAssumption
  <2> QED BY <2>2, <2>3
<1>2. \A p, q \in Path : p.start = q.start /\ p.cam = q.cam => p = q
  BY DEF Path
<1>3. \A p, q, r \in Path : Older(p, q) /\ Older(q, r) => Older(p, r)
  BY <1>1 DEF Older
<1>4. \A p, q \in Path : p = q \/ Older(p, q) \/ Older(q, p)
  BY <1>1, <1>2 DEF Older
<1>5. \A p, q \in Path : ~(Older(p, q) /\ Older(q, p))
  BY <1>1 DEF Older
<1> QED BY <1>3, <1>4, <1>5

LEMMA OldestIsUnique ==
  ASSUME NEW S \in SUBSET Path, NEW p \in Oldest(S), NEW q \in Oldest(S)
  PROVE  p = q
  BY OlderIsTotalOrder DEF Oldest

-----------------------------------------------------------------------------
(* Only the evicting part of a pass has a plan, and the plan is an old end *)
(* of the index: no row outside it is older than a row in it.              *)
PlanIsOldEnd ==
    /\ pc \notin {"evict", "drop"} => victims = {}
    /\ victims \subseteq rows
    /\ \A v \in victims, q \in rows \ victims : Older(v, q)

Finite == IsFiniteSet(disk) /\ IsFiniteSet(rows)

SInv == TypeOK /\ Finite /\ PlanIsOldEnd

LEMMA InitSInv == Init => SInv
<1> SUFFICES ASSUME Init PROVE SInv
  OBVIOUS
<1> USE SpaceAssumption, BoundsAssumption DEF Init
<1>1. TypeOK
  <2>1. eased \in BOOLEAN
    BY Zenon
  <2> QED BY <2>1 DEF TypeOK
<1>2. Finite
  BY FS_EmptySet DEF Finite
<1>3. PlanIsOldEnd
  BY DEF PlanIsOldEnd
<1> QED BY <1>1, <1>2, <1>3 DEF SInv

LEMMA PlaylistIsTyped ==
  ASSUME SInv, NEW c \in Cameras
  PROVE  /\ Recent(c) \subseteq Path
         /\ Cardinality(Files(c)) - Cardinality(Recent(c)) \in Nat
<1>1. Files(c) \subseteq disk /\ Recent(c) \subseteq Files(c) /\ disk \subseteq Path
  BY DEF Files, Recent, SInv, TypeOK
<1>2. IsFiniteSet(Files(c)) /\ IsFiniteSet(Recent(c))
  BY <1>1, FS_Subset DEF SInv, Finite
<1>3. Cardinality(Recent(c)) <= Cardinality(Files(c))
  BY <1>1, <1>2, FS_Subset
<1>4. Cardinality(Files(c)) \in Nat /\ Cardinality(Recent(c)) \in Nat
  BY <1>2, FS_CardinalityType
<1> QED BY <1>1, <1>3, <1>4

(* The planned set is an old end of the index: an older row has fewer rows *)
(* before it, so more is left to free when its turn comes.                 *)
LEMMA PlannedIsOldEnd ==
  ASSUME SInv
  PROVE  \A v \in Planned, q \in rows \ Planned : Older(v, q)
<1> DEFINE Before(p) == {r \in rows : Older(r, p)}
<1> SUFFICES ASSUME NEW v \in Planned, NEW q \in rows \ Planned, Older(q, v)
             PROVE  FALSE
  BY OlderIsTotalOrder DEF Planned, SInv, TypeOK
<1>1. v \in Path /\ q \in Path /\ rows \subseteq Path
  BY DEF Planned, SInv, TypeOK
<1>2. Before(q) \subseteq Before(v)
  BY <1>1, OlderIsTotalOrder
<1>3. IsFiniteSet(Before(v)) /\ IsFiniteSet(Before(q))
  BY FS_Subset DEF SInv, Finite
<1>4. /\ Cardinality(Before(q)) <= Cardinality(Before(v))
      /\ Cardinality(Before(q)) \in Nat
      /\ Cardinality(Before(v)) \in Nat
  BY <1>2, <1>3, FS_Subset, FS_CardinalityType
<1>5. Used \in Nat
  BY SpaceAssumption, FS_CardinalityType DEF Used, SInv, Finite, TypeOK
<1>6. Used - Cardinality(Before(v)) > Watermark
  BY DEF Planned
<1>7. ~(Used - Cardinality(Before(q)) > Watermark)
  BY DEF Planned
<1>8. Watermark \in Nat
  BY SpaceAssumption
<1> HIDE DEF Before
<1> QED BY <1>4, <1>5, <1>6, <1>7, <1>8

LEMMA EasedIsBoolean == ASSUME TypeOK, [Next]_vars PROVE eased' \in BOOLEAN
<1>1. CASE OtherChanges
  <2>1. eased' = (pc \in {"evict", "drop"} /\ (eased \/ other' < other))
    BY <1>1 DEF OtherChanges
  <2> QED BY <2>1, Zenon
<1>2. CASE eased' = eased \/ eased' = FALSE
  BY <1>2, Zenon DEF TypeOK
<1>3. OtherChanges \/ eased' = eased \/ eased' = FALSE
  BY DEF Next, vars, indexer, Rotate, ClockStepsBack, Indexer, BeginPass,
         Reflect, AddSegment, WritePlaylist, WriteRaises, PlanEviction,
         RemoveFile, DropRow, DropRaises, Forget, Boot, Exit, Abandon
<1> QED BY <1>1, <1>2, <1>3

LEMMA SInvStep == SInv /\ [Next]_vars => SInv'
<1> SUFFICES ASSUME SInv, [Next]_vars PROVE SInv'
  OBVIOUS
<1>e. eased' \in BOOLEAN
  BY EasedIsBoolean DEF SInv
<1> USE <1>e, SpaceAssumption, BoundsAssumption
    DEF SInv, TypeOK, Finite, PlanIsOldEnd, files, indexer, env
<1>1. ASSUME NEW c \in Cameras, Rotate(c) PROVE SInv'
  <2>1. IsFiniteSet(disk')
    BY <1>1, FS_AddElement DEF Rotate
  <2>2. now \in 0..MaxStart /\ now' = now + 1
    BY <1>1 DEF Rotate
  <2>3. [cam |-> c, start |-> now] \in Path
    BY <2>2 DEF Path
  <2> QED BY <1>1, <2>1, <2>2, <2>3 DEF Rotate
<1>2. CASE ClockStepsBack
  BY <1>2 DEF ClockStepsBack
<1>3. CASE OtherChanges
  BY <1>3 DEF OtherChanges
<1>4. CASE BeginPass
  BY <1>4 DEF BeginPass
<1>5. ASSUME NEW c \in Cameras, Reflect(c) PROVE SInv'
  BY <1>5 DEF Reflect, Closed, Files
<1>6. ASSUME NEW c \in Cameras, NEW p \in cand, AddSegment(c, p) PROVE SInv'
  <2>1. IsFiniteSet(rows')
    BY <1>6, FS_AddElement DEF AddSegment
  <2> QED BY <1>6, <2>1 DEF AddSegment
<1>7. ASSUME NEW c \in Cameras, WritePlaylist(c) PROVE SInv'
  BY <1>7, PlaylistIsTyped DEF WritePlaylist
<1>8. CASE WriteRaises
  BY <1>8 DEF WriteRaises, Abandon
<1>9. CASE PlanEviction
  <2>1. Planned \subseteq rows
    BY DEF Planned
  <2> QED BY <1>9, <2>1, PlannedIsOldEnd DEF PlanEviction
<1>10. ASSUME NEW p \in victims, RemoveFile(p) PROVE SInv'
  <2>1. IsFiniteSet(disk')
    BY <1>10, FS_RemoveElement DEF RemoveFile
  <2> QED BY <1>10, <2>1 DEF RemoveFile
<1>11. ASSUME NEW p \in victims, DropRow(p) PROVE SInv'
  <2>1. IsFiniteSet(rows')
    BY <1>11, FS_RemoveElement DEF DropRow
  <2> QED BY <1>11, <2>1 DEF DropRow
<1>12. CASE DropRaises
  BY <1>12 DEF DropRaises, Abandon
<1>13. CASE Forget
  BY <1>13 DEF Forget, Abandon
<1>14. CASE Boot
  BY <1>14 DEF Boot
<1>15. CASE Exit
  BY <1>15 DEF Exit
<1>16. CASE UNCHANGED vars
  BY <1>16 DEF vars
<1> QED
  BY <1>1, <1>2, <1>3, <1>4, <1>5, <1>6, <1>7, <1>8, <1>9, <1>10, <1>11,
     <1>12, <1>13, <1>14, <1>15, <1>16
  DEF Next, Indexer

LEMMA Invariance == Spec => []SInv
  BY InitSInv, SInvStep, PTL DEF Spec

(* The type invariant; in particular media sequence numbers are natural.   *)
THEOREM TypeCorrect == Spec => []TypeOK
<1>1. SInv => TypeOK
  BY DEF SInv
<1> QED BY <1>1, Invariance, PTL

(* Retention never makes a hole in the recording, whatever the clock does, *)
(* wherever the process dies and whatever deletion fails.                  *)
THEOREM OldestFirst == Spec => EvictsOldestFirst
<1> DEFINE A == \A p \in disk \ disk' : \A q \in rows \cap disk' : Older(p, q)
<1>1. SInv /\ [Next]_vars => [A]_vars
  <2> SUFFICES ASSUME SInv, Next, NEW p \in disk \ disk', NEW q \in rows \cap disk'
               PROVE  Older(p, q)
    BY DEF vars
  <2>1. RemoveFile(p)
    BY DEF Next, Rotate, ClockStepsBack, OtherChanges, Indexer, BeginPass,
           Reflect, WritePlaylist, AddSegment, WriteRaises, PlanEviction,
           RemoveFile, DropRow, DropRaises, Forget, Boot, Exit, files
  <2>2. p \in Oldest(victims) /\ q # p
    BY <2>1 DEF RemoveFile
  <2>3. CASE q \in victims
    BY <2>2, <2>3 DEF Oldest
  <2>4. CASE q \notin victims
    BY <2>2, <2>4 DEF SInv, PlanIsOldEnd, Oldest
  <2> QED BY <2>3, <2>4
<1> QED BY <1>1, Invariance, PTL DEF Spec, EvictsOldestFirst

-----------------------------------------------------------------------------
(* With a clock that only moves on, every name given so far is smaller     *)
(* than the next one, so the file being written is the latest of its       *)
(* camera and is neither indexed nor about to be.                          *)
NamesArePast ==
    /\ \A p \in disk \cup rows : p.start < now
    /\ \A c \in Cameras : \A p \in known[c] : p.start < now

OpenIsLatest == \A p \in open, q \in disk : q.cam = p.cam => q.start <= p.start

CandidatesAreClosed ==
    /\ pc # "add" => cand = {}
    /\ cand \subseteq disk
    /\ cand \cap open = {}

FileGoesFirst == pc = "drop" => \A p \in Oldest(victims) : p \notin disk

CInv ==
    /\ SInv
    /\ steps = 0
    /\ NamesArePast
    /\ OpenIsLatest
    /\ CandidatesAreClosed
    /\ FileGoesFirst
    /\ OpenNeverIndexed
    /\ KnownFilesAreIndexed

LEMMA InitCInv == Init => CInv
<1> SUFFICES ASSUME Init PROVE CInv
  OBVIOUS
<1>1. SInv
  BY InitSInv
<1>2. steps = 0 /\ NamesArePast /\ OpenIsLatest /\ CandidatesAreClosed
  BY DEF Init, NamesArePast, OpenIsLatest, CandidatesAreClosed
<1>3. FileGoesFirst /\ OpenNeverIndexed /\ KnownFilesAreIndexed
  BY DEF Init, FileGoesFirst, OpenNeverIndexed, KnownFilesAreIndexed
<1> QED BY <1>1, <1>2, <1>3 DEF CInv

LEMMA ClosedIsNotOpen ==
  ASSUME CInv, NEW c \in Cameras
  PROVE  Closed(c) \subseteq disk /\ Closed(c) \cap open = {}
<1>1. Closed(c) \subseteq disk
  BY DEF Closed, Files
<1>2. ASSUME NEW p \in Closed(c), p \in open PROVE FALSE
  <2>1. PICK q \in disk : q.cam = p.cam /\ p.start < q.start
    BY DEF Closed, Files
  <2>2. q.start <= p.start
    BY <1>2, <2>1 DEF CInv, OpenIsLatest
  <2>3. p \in Path /\ q \in Path
    BY <1>1 DEF CInv, SInv, TypeOK
  <2>4. p.start \in Nat /\ q.start \in Nat
    BY <2>3, BoundsAssumption DEF Path
  <2> QED BY <2>1, <2>2, <2>4
<1> QED BY <1>1, <1>2

LEMMA CInvStep == CInv /\ [Next]_vars /\ steps' = 0 => CInv'
<1> SUFFICES ASSUME CInv, [Next]_vars, steps' = 0 PROVE CInv'
  OBVIOUS
<1>s. SInv'
  BY SInvStep DEF CInv
<1> USE <1>s DEF CInv, NamesArePast, OpenIsLatest, CandidatesAreClosed,
                 FileGoesFirst, OpenNeverIndexed, KnownFilesAreIndexed,
                 files, indexer, env
<1>1. ASSUME NEW c \in Cameras, Rotate(c) PROVE CInv'
  <2> DEFINE p == [cam |-> c, start |-> now]
  <2>1. /\ disk' = disk \cup {p}
        /\ open' = {q \in open : q.cam # c} \cup {p}
        /\ now' = now + 1
        /\ pc # "down"
        /\ UNCHANGED <<rows, known, pc, cand, victims, steps>>
    BY <1>1 DEF Rotate
  <2>2. p.cam = c /\ p.start = now
    OBVIOUS
  <2>3. /\ now \in Nat
        /\ disk \cup rows \subseteq Path
        /\ open \subseteq Path
        /\ known \in [Cameras -> SUBSET Path]
    BY BoundsAssumption DEF SInv, TypeOK
  <2>4. \A q \in Path : q.start \in Nat
    BY BoundsAssumption DEF Path
  <2> HIDE DEF p
  <2>5. p \notin disk \cup rows /\ \A d \in Cameras : p \notin known[d]
    BY <2>2, <2>3
  <2>6. NamesArePast'
    BY <2>1, <2>2, <2>3, <2>4
  <2>7. OpenIsLatest'
    BY <2>1, <2>2, <2>3, <2>4
  <2>8. CandidatesAreClosed' /\ OpenNeverIndexed' /\ KnownFilesAreIndexed'
    BY <2>1, <2>5
  <2>9. FileGoesFirst'
    <3>1. Oldest(victims)' = Oldest(victims) /\ Oldest(victims) \subseteq rows
      BY <2>1 DEF Oldest, SInv, PlanIsOldEnd
    <3> QED BY <2>1, <2>5, <3>1
  <2> QED BY <2>1, <2>6, <2>7, <2>8, <2>9
<1>2. CASE ClockStepsBack
  BY <1>2 DEF ClockStepsBack
<1>3. CASE OtherChanges
  BY <1>3 DEF OtherChanges, Oldest
<1>4. CASE BeginPass
  BY <1>4 DEF BeginPass
<1>5. ASSUME NEW c \in Cameras, Reflect(c) PROVE CInv'
  BY <1>5, ClosedIsNotOpen DEF Reflect
<1>6. ASSUME NEW c \in Cameras, NEW p \in cand, AddSegment(c, p) PROVE CInv'
  <2>1. p \in disk /\ p \notin open
    OBVIOUS
  <2>2. known \in [Cameras -> SUBSET Path]
    BY DEF SInv, TypeOK
  <2> QED BY <1>6, <2>1, <2>2 DEF AddSegment
<1>7. ASSUME NEW c \in Cameras, WritePlaylist(c) PROVE CInv'
  BY <1>7 DEF WritePlaylist
<1>8. CASE WriteRaises
  BY <1>8 DEF WriteRaises, Abandon
<1>9. CASE PlanEviction
  BY <1>9 DEF PlanEviction
<1>10. ASSUME NEW p \in victims, RemoveFile(p) PROVE CInv'
  <2>1. /\ disk' = disk \ {p}
        /\ p \in Oldest(victims)
        /\ pc = "evict" /\ pc' = "drop"
        /\ UNCHANGED <<now, open, rows, known, cand, victims, steps>>
    BY <1>10 DEF RemoveFile
  <2>2. \A q \in Oldest(victims) : q = p
    BY <2>1, OldestIsUnique DEF SInv, TypeOK
  <2>3. FileGoesFirst'
    BY <2>1, <2>2 DEF Oldest
  <2> QED BY <2>1, <2>3
<1>11. ASSUME NEW p \in victims, DropRow(p) PROVE CInv'
  <2>1. p \notin disk
    BY <1>11 DEF DropRow
  <2> QED BY <1>11, <2>1 DEF DropRow
<1>12. CASE DropRaises
  BY <1>12 DEF DropRaises, Abandon
<1>13. CASE Forget
  BY <1>13 DEF Forget, Abandon
<1>14. CASE Boot
  BY <1>14 DEF Boot
<1>15. CASE Exit
  BY <1>15 DEF Exit
<1>16. CASE UNCHANGED vars
  BY <1>16 DEF vars, Oldest
<1> QED
  BY <1>1, <1>2, <1>3, <1>4, <1>5, <1>6, <1>7, <1>8, <1>9, <1>10, <1>11,
     <1>12, <1>13, <1>14, <1>15, <1>16
  DEF Next, Indexer

(* The clock steps that happened are counted, so CInv holds until the      *)
(* first of them.                                                          *)
UntilStep == SInv /\ (steps = 0 => CInv)

LEMMA StepsAreCounted == ASSUME SInv, [Next]_vars, steps' = 0 PROVE steps = 0
<1>1. steps \in Nat
  BY BoundsAssumption DEF SInv, TypeOK
<1>2. steps' = steps \/ steps' = steps + 1
  BY DEF Next, vars, env, Rotate, ClockStepsBack, OtherChanges, Indexer,
         BeginPass, Reflect, AddSegment, WritePlaylist, WriteRaises,
         PlanEviction, RemoveFile, DropRow, DropRaises, Forget, Boot, Exit
<1> QED BY <1>1, <1>2

LEMMA UntilStepHolds == Spec => []UntilStep
<1>1. Init => UntilStep
  BY InitSInv, InitCInv DEF UntilStep
<1>2. UntilStep /\ [Next]_vars => UntilStep'
  <2> SUFFICES ASSUME UntilStep, [Next]_vars PROVE UntilStep'
    OBVIOUS
  <2>1. SInv'
    BY SInvStep DEF UntilStep
  <2>2. ASSUME steps' = 0 PROVE CInv'
    BY <2>2, StepsAreCounted, CInvStep DEF UntilStep
  <2> QED BY <2>1, <2>2 DEF UntilStep
<1> QED BY <1>1, <1>2, PTL DEF Spec

(* Until the clock is set back the index never offers a file that is being *)
(* written.                                                                *)
THEOREM OpenIsNeverIndexed == Spec => []OpenNeverIndexed
<1>1. UntilStep => OpenNeverIndexed
  BY DEF UntilStep, CInv, OpenNeverIndexed
<1> QED BY <1>1, UntilStepHolds, PTL

(* Until then the cache of known paths never hides a file.                 *)
THEOREM KnownIsIndexed == Spec => []KnownFilesAreIndexed
<1>1. UntilStep => KnownFilesAreIndexed
  BY DEF UntilStep, CInv, KnownFilesAreIndexed
<1> QED BY <1>1, UntilStepHolds, PTL

-----------------------------------------------------------------------------
(* Rows without a file, whatever the clock does.  A file that is removed   *)
(* is the oldest victim, whose row goes next; if the recorder reuses its   *)
(* name in between, its row is dropped all the same, but then it was no    *)
(* ghost any more.  So the victim in hand is not counted, and every other  *)
(* ghost has cost a fault.                                                 *)
InRemoval == IF pc = "drop" THEN Oldest(victims) ELSE {}

Unpaid == (rows \ disk) \ InRemoval

CandidatesExist == cand \subseteq disk /\ (pc # "add" => cand = {})

GInv == SInv /\ CandidatesExist /\ Cardinality(Unpaid) <= faults

LEMMA FewerElements ==
  ASSUME NEW S, IsFiniteSet(S), NEW T, T \subseteq S
  PROVE  Cardinality(T) \in Nat /\ Cardinality(T) <= Cardinality(S)
<1>1. IsFiniteSet(T) /\ Cardinality(T) <= Cardinality(S)
  BY FS_Subset
<1> QED BY <1>1, FS_CardinalityType

LEMMA OneMoreElement ==
  ASSUME NEW S, IsFiniteSet(S), NEW T, NEW x, T \subseteq S \cup {x}
  PROVE  Cardinality(T) <= Cardinality(S) + 1
<1>1. Cardinality(S) \in Nat
  BY FS_CardinalityType
<1>2. /\ IsFiniteSet(S \cup {x})
      /\ Cardinality(S \cup {x}) = IF x \in S THEN Cardinality(S) ELSE Cardinality(S) + 1
  BY FS_AddElement
<1>3. Cardinality(T) \in Nat /\ Cardinality(T) <= Cardinality(S \cup {x})
  BY <1>2, FewerElements
<1> QED BY <1>1, <1>2, <1>3

LEMMA UnpaidIsFinite ==
  ASSUME SInv
  PROVE  IsFiniteSet(Unpaid) /\ Cardinality(Unpaid) \in Nat /\ faults \in Nat
<1>1. IsFiniteSet(Unpaid)
  BY FS_Subset DEF SInv, Finite, Unpaid
<1> QED BY <1>1, FS_CardinalityType, BoundsAssumption DEF SInv, TypeOK

(* Giving up in the middle of a removal leaves at most one ghost more.     *)
LEMMA AbandonedRemoval ==
  ASSUME SInv
  PROVE  Cardinality(rows \ disk) <= Cardinality(Unpaid) + 1
<1>1. \E x : InRemoval \subseteq {x}
  <2>1. \A p, q \in Oldest(victims) : p = q
    BY OldestIsUnique DEF SInv, TypeOK
  <2> QED BY <2>1 DEF InRemoval
<1>2. PICK x : InRemoval \subseteq {x}
  BY <1>1
<1>3. rows \ disk \subseteq Unpaid \cup {x}
  BY <1>2 DEF Unpaid
<1> QED BY <1>3, UnpaidIsFinite, OneMoreElement

LEMMA CandidatesStep == SInv /\ CandidatesExist /\ [Next]_vars => CandidatesExist'
<1> SUFFICES ASSUME SInv, CandidatesExist, [Next]_vars PROVE CandidatesExist'
  OBVIOUS
<1> USE DEF CandidatesExist, files, indexer, env
<1>1. ASSUME NEW c \in Cameras, Reflect(c) PROVE CandidatesExist'
  BY <1>1 DEF Reflect, Closed, Files
<1>2. ASSUME NEW c \in Cameras, Rotate(c) \/ WritePlaylist(c) PROVE CandidatesExist'
  BY <1>2 DEF Rotate, WritePlaylist
<1>3. ASSUME NEW c \in Cameras, NEW p \in cand, AddSegment(c, p) PROVE CandidatesExist'
  BY <1>3 DEF AddSegment
<1>4. ASSUME NEW p \in victims, RemoveFile(p) \/ DropRow(p) PROVE CandidatesExist'
  BY <1>4 DEF RemoveFile, DropRow
<1>5. CASE \/ ClockStepsBack \/ OtherChanges \/ BeginPass \/ WriteRaises \/ PlanEviction
           \/ DropRaises \/ Forget \/ Boot \/ Exit \/ UNCHANGED vars
  BY <1>5 DEF ClockStepsBack, OtherChanges, BeginPass, WriteRaises, PlanEviction,
              DropRaises, Forget, Boot, Exit, Abandon, vars
<1> QED BY <1>1, <1>2, <1>3, <1>4, <1>5 DEF Next, Indexer

LEMMA UnpaidStep == GInv /\ [Next]_vars => Cardinality(Unpaid') <= faults'
<1> DEFINE Paid == Cardinality(Unpaid') <= faults'
<1> SUFFICES ASSUME GInv, [Next]_vars PROVE Paid
  OBVIOUS
<1> USE DEF files, indexer, env
<1>s. /\ SInv /\ CandidatesExist /\ Cardinality(Unpaid) <= faults
      /\ IsFiniteSet(Unpaid) /\ Cardinality(Unpaid) \in Nat /\ faults \in Nat
  BY UnpaidIsFinite DEF GInv
<1>n. ASSUME Unpaid' \subseteq Unpaid, UNCHANGED faults PROVE Paid
  BY <1>s, <1>n, FewerElements
<1>1. ASSUME NEW c \in Cameras, Rotate(c) PROVE Paid
  <2>1. /\ disk \subseteq disk'
        /\ UNCHANGED <<rows, pc, victims, faults>>
    BY <1>1 DEF Rotate
  <2>2. InRemoval' = InRemoval
    BY <2>1 DEF InRemoval, Oldest
  <2> QED BY <2>1, <2>2, <1>n DEF Unpaid
<1>2. ASSUME NEW c \in Cameras, NEW p \in cand, AddSegment(c, p) PROVE Paid
  <2>1. rows' \ disk' = rows \ disk
    BY <1>2, <1>s DEF AddSegment, CandidatesExist
  <2>2. pc # "drop" /\ pc' # "drop" /\ UNCHANGED faults
    BY <1>2 DEF AddSegment
  <2> QED BY <2>1, <2>2, <1>n DEF Unpaid, InRemoval
<1>3. ASSUME NEW p \in victims, RemoveFile(p) PROVE Paid
  <2>1. /\ pc = "evict" /\ pc' = "drop" /\ p \in Oldest(victims)
        /\ disk' = disk \ {p}
        /\ UNCHANGED <<rows, victims, faults>>
    BY <1>3 DEF RemoveFile
  <2>2. p \in InRemoval' /\ InRemoval = {}
    BY <2>1 DEF InRemoval, Oldest
  <2> QED BY <2>1, <2>2, <1>n DEF Unpaid
<1>4. ASSUME NEW p \in victims, DropRow(p) PROVE Paid
  <2>1. /\ pc = "drop" /\ pc' = "evict" /\ p \in Oldest(victims)
        /\ rows' = rows \ {p}
        /\ UNCHANGED <<disk, faults>>
    BY <1>4 DEF DropRow
  <2>2. InRemoval \subseteq {p} /\ InRemoval' = {}
    BY <2>1, <1>s, OldestIsUnique DEF InRemoval, SInv, TypeOK
  <2> QED BY <2>1, <2>2, <1>n DEF Unpaid
<1>5. CASE DropRaises \/ Exit
  <2>1. /\ faults' = faults + 1 /\ pc' # "drop"
        /\ UNCHANGED <<disk, rows>>
    BY <1>5 DEF DropRaises, Exit, Abandon
  <2>2. Unpaid' = rows \ disk
    BY <2>1 DEF Unpaid, InRemoval
  <2>3. Cardinality(Unpaid') <= Cardinality(Unpaid) + 1
    BY <2>2, <1>s, AbandonedRemoval
  <2>4. Cardinality(Unpaid') \in Nat
    BY <2>2, <1>s, FewerElements DEF SInv, Finite
  <2> QED BY <2>1, <2>3, <2>4, <1>s
<1>6. ASSUME UNCHANGED <<disk, rows, faults>>, pc # "drop", pc' # "drop" PROVE Paid
  <2>1. Unpaid' = Unpaid
    BY <1>6 DEF Unpaid, InRemoval
  <2> QED BY <2>1, <1>6, <1>n
<1>7. ASSUME NEW c \in Cameras, Reflect(c) \/ WritePlaylist(c) PROVE Paid
  BY <1>6, <1>7 DEF Reflect, WritePlaylist
<1>8. CASE BeginPass \/ WriteRaises \/ PlanEviction \/ Forget \/ Boot
  <2>1. UNCHANGED <<disk, rows, faults>> /\ pc # "drop" /\ pc' # "drop"
    BY <1>8 DEF BeginPass, WriteRaises, PlanEviction, Forget, Boot, Abandon
  <2> QED BY <2>1, <1>6
<1>9. CASE ClockStepsBack \/ OtherChanges \/ UNCHANGED vars
  <2>1. UNCHANGED <<disk, rows, pc, victims, faults>>
    BY <1>9 DEF ClockStepsBack, OtherChanges, vars
  <2>2. Unpaid' = Unpaid
    BY <2>1 DEF Unpaid, InRemoval, Oldest
  <2> QED BY <2>1, <2>2, <1>n
<1> HIDE DEF Paid
<1> QED
  BY <1>1, <1>2, <1>3, <1>4, <1>5, <1>7, <1>8, <1>9 DEF Next, Indexer

LEMMA GInvStep == GInv /\ [Next]_vars => GInv'
  BY SInvStep, CandidatesStep, UnpaidStep DEF GInv

(* Rows that name a file that is gone are as many as there were faults,    *)
(* plus the one that is being evicted: clips can be cut from what the      *)
(* index offers, also after any number of deaths (retention.py:47-52).     *)
THEOREM GhostsArePaidFor == Spec => []GhostRowsNeedFaults
<1>1. Init => GInv
  <2> SUFFICES ASSUME Init PROVE GInv
    OBVIOUS
  <2>1. Unpaid = {} /\ faults = 0 /\ CandidatesExist
    BY DEF Init, Unpaid, CandidatesExist
  <2> QED BY <2>1, InitSInv, FS_EmptySet DEF GInv
<1>2. GInv => GhostRowsNeedFaults
  <2> SUFFICES ASSUME GInv PROVE GhostRowsNeedFaults
    OBVIOUS
  <2>1. /\ Cardinality(Unpaid) <= faults
        /\ Cardinality(Unpaid) \in Nat /\ faults \in Nat
        /\ Cardinality(rows \ disk) <= Cardinality(Unpaid) + 1
        /\ Cardinality(rows \ disk) \in Nat
    BY UnpaidIsFinite, AbandonedRemoval, FewerElements DEF GInv, SInv, Finite
  <2>2. CASE pc = "drop"
    BY <2>1, <2>2 DEF GhostRowsNeedFaults
  <2>3. CASE pc # "drop"
    <3>1. Unpaid = rows \ disk
      BY <2>3 DEF Unpaid, InRemoval
    <3> QED BY <2>1, <2>3, <3>1 DEF GhostRowsNeedFaults
  <2> QED BY <2>2, <2>3
<1> QED BY <1>1, <1>2, GInvStep, PTL DEF Spec

-----------------------------------------------------------------------------
(* What is planned stays needed until it is done: at the turn of a victim  *)
(* the disk is above the watermark, even after the files of all victims    *)
(* before it have gone.  Recording adds to the disk, a ghost frees nothing,*)
(* and each removal frees one segment and shortens the plan by one.        *)
Waiting == victims \ InRemoval

Ahead(p) == {q \in Waiting : Older(q, p)}

StillNeeded ==
    pc \in {"evict", "drop"} /\ ~eased =>
        \A p \in Waiting : Used - Cardinality(Ahead(p)) > Watermark

LEMMA NeededIsTyped ==
  ASSUME SInv
  PROVE  /\ Used \in Nat /\ Watermark \in Nat /\ other \in Nat
         /\ Waiting \subseteq victims /\ victims \subseteq Path
         /\ \A p : IsFiniteSet(Ahead(p)) /\ Cardinality(Ahead(p)) \in Nat
<1>1. victims \subseteq rows /\ IsFiniteSet(rows) /\ IsFiniteSet(disk) /\ other \in Nat
  BY SpaceAssumption DEF SInv, Finite, PlanIsOldEnd, TypeOK
<1>2. Waiting \subseteq victims /\ victims \subseteq Path
  BY DEF Waiting, SInv, TypeOK
<1>3. \A p : IsFiniteSet(Ahead(p))
  <2> TAKE p
  <2>1. Ahead(p) \subseteq rows
    BY <1>1, <1>2 DEF Ahead
  <2> QED BY <1>1, <2>1, FS_Subset
<1>4. Used \in Nat
  BY <1>1, FS_CardinalityType DEF Used
<1> QED BY <1>1, <1>2, <1>3, <1>4, FS_CardinalityType, SpaceAssumption

LEMMA NeededStep == SInv /\ StillNeeded /\ [Next]_vars => StillNeeded'
<1> SUFFICES ASSUME SInv, StillNeeded, [Next]_vars PROVE StillNeeded'
  OBVIOUS
<1> USE DEF files, indexer, env
<1>t. /\ Used \in Nat /\ Watermark \in Nat /\ other \in Nat
      /\ Waiting \subseteq victims /\ victims \subseteq Path
      /\ \A p : IsFiniteSet(Ahead(p)) /\ Cardinality(Ahead(p)) \in Nat
  BY NeededIsTyped
<1>d. IsFiniteSet(disk) /\ Cardinality(disk) \in Nat
  BY FS_CardinalityType DEF SInv, Finite
<1>s. SInv'
  BY SInvStep
<1>f. Cardinality(disk') \in Nat /\ IsFiniteSet(disk')
  BY <1>s, FS_CardinalityType DEF SInv, Finite
(* A step that leaves the plan alone and frees nothing.                    *)
<1>n. ASSUME UNCHANGED <<pc, victims>>, ~eased' => ~eased, ~eased' => Used' >= Used,
             Used' \in Nat
      PROVE  StillNeeded'
  <2>1. UNCHANGED Waiting
    BY <1>n DEF Waiting, InRemoval, Oldest
  <2>2. \A p : Ahead(p)' = Ahead(p)
    BY <2>1 DEF Ahead
  <2>3. SUFFICES ASSUME pc \in {"evict", "drop"}, ~eased', NEW p \in Waiting
                 PROVE  Used' - Cardinality(Ahead(p)) > Watermark
    BY <1>n, <2>1, <2>2 DEF StillNeeded
  <2>4. Used - Cardinality(Ahead(p)) > Watermark
    BY <1>n, <2>3 DEF StillNeeded
  <2> QED BY <1>n, <1>t, <2>3, <2>4
<1>1. ASSUME NEW c \in Cameras, Rotate(c) PROVE StillNeeded'
  <2>1. disk \subseteq disk' /\ other' = other
    BY <1>1 DEF Rotate
  <2>2. Cardinality(disk) <= Cardinality(disk')
    BY <1>f, <2>1, FewerElements
  <2>3. Used' \in Nat /\ Used' >= Used
    BY <1>d, <1>f, <1>t, <2>1, <2>2 DEF Used
  <2> QED BY <1>1, <1>n, <2>3 DEF Rotate
<1>2. CASE OtherChanges
  <2>1. other' \in Nat /\ disk' = disk /\ UNCHANGED <<pc, victims>>
    BY <1>2, SpaceAssumption DEF OtherChanges
  <2>2. CASE pc \notin {"evict", "drop"}
    BY <2>1, <2>2 DEF StillNeeded
  <2>3. CASE pc \in {"evict", "drop"}
    <3>1. ASSUME ~eased' PROVE ~eased /\ ~(other' < other)
      BY <1>2, <2>3, <3>1 DEF OtherChanges
    <3>2. Used' \in Nat
      BY <1>d, <2>1 DEF Used
    <3>3. ASSUME ~eased' PROVE Used' >= Used
      BY <1>d, <1>t, <2>1, <3>1, <3>3 DEF Used
    <3> QED BY <1>n, <2>1, <3>1, <3>2, <3>3
  <2> QED BY <2>2, <2>3
<1>3. CASE PlanEviction
  <2>1. /\ victims' = Planned /\ pc' = "evict" /\ Planned \subseteq rows
        /\ UNCHANGED <<disk, other, rows>>
    BY <1>3 DEF PlanEviction, Planned
  <2>2. Used' = Used /\ Waiting' = Planned
    BY <2>1 DEF Used, Waiting, InRemoval
  <2>3. SUFFICES ASSUME NEW p \in Planned
                 PROVE  Used - Cardinality(Ahead(p)') > Watermark
    BY <2>2 DEF StillNeeded
  <2> DEFINE Before == {q \in rows : Older(q, p)}
  <2>4. Used - Cardinality(Before) > Watermark
    BY DEF Planned
  <2>5. Ahead(p)' \subseteq Before /\ IsFiniteSet(Before)
    BY <2>1, <2>2, FS_Subset DEF Ahead, SInv, Finite
  <2> HIDE DEF Before
  <2>6. /\ Cardinality(Ahead(p)') \in Nat /\ Cardinality(Before) \in Nat
        /\ Cardinality(Ahead(p)') <= Cardinality(Before)
    BY <2>5, FewerElements, FS_CardinalityType
  <2> QED BY <1>t, <2>4, <2>6
<1>4. ASSUME NEW p \in victims, RemoveFile(p) PROVE StillNeeded'
  <2>1. /\ pc = "evict" /\ pc' = "drop" /\ p \in Oldest(victims)
        /\ disk' = disk \ {p}
        /\ UNCHANGED <<other, victims, eased>>
    BY <1>4 DEF RemoveFile
  <2>2. InRemoval' = {p} /\ InRemoval = {}
    <3>1. InRemoval' = Oldest(victims) /\ InRemoval = {}
      BY <2>1 DEF InRemoval, Oldest
    <3>2. \A q \in Oldest(victims) : q = p
      BY <1>t, <2>1, OldestIsUnique
    <3> QED BY <2>1, <3>1, <3>2
  <2>3. Waiting = victims /\ Waiting' = victims \ {p}
    BY <2>1, <2>2 DEF Waiting
  <2>4. Used' \in Nat /\ Used' >= Used - 1
    <3>1. disk \subseteq disk' \cup {p}
      BY <2>1
    <3>2. Cardinality(disk) <= Cardinality(disk') + 1
      BY <1>f, <3>1, OneMoreElement
    <3> QED BY <1>d, <1>f, <1>t, <2>1, <3>2 DEF Used
  <2>5. SUFFICES ASSUME ~eased, NEW r \in victims \ {p}
                 PROVE  Used' - Cardinality(Ahead(r)') > Watermark
    BY <2>1, <2>3 DEF StillNeeded
  <2>6. Used - Cardinality(Ahead(r)) > Watermark
    BY <2>1, <2>3, <2>5 DEF StillNeeded
  <2>7. p \in Ahead(r) /\ Ahead(r)' = Ahead(r) \ {p}
    BY <2>1, <2>3 DEF Ahead, Oldest
  <2>8. Cardinality(Ahead(r)') = Cardinality(Ahead(r)) - 1
    BY <1>t, <2>7, FS_RemoveElement
  <2> QED BY <1>t, <2>4, <2>6, <2>8
<1>5. ASSUME NEW p \in victims, DropRow(p) PROVE StillNeeded'
  <2>1. /\ pc = "drop" /\ pc' = "evict" /\ p \in Oldest(victims)
        /\ victims' = victims \ {p}
        /\ UNCHANGED <<disk, other, eased>>
    BY <1>5 DEF DropRow
  <2>2. InRemoval = {p} /\ InRemoval' = {}
    BY <1>t, <2>1, OldestIsUnique DEF InRemoval
  <2>3. UNCHANGED Waiting /\ Used' = Used
    BY <2>1, <2>2 DEF Waiting, Used
  <2>4. \A q : Ahead(q)' = Ahead(q)
    BY <2>3 DEF Ahead
  <2> QED BY <2>1, <2>3, <2>4 DEF StillNeeded
<1>6. CASE \/ BeginPass \/ WriteRaises \/ DropRaises \/ Forget \/ Boot \/ Exit
           \/ \E c \in Cameras : \/ Reflect(c) \/ WritePlaylist(c)
                                  \/ \E p \in cand : AddSegment(c, p)
  <2>1. pc' \notin {"evict", "drop"}
    BY <1>6 DEF BeginPass, WriteRaises, DropRaises, Forget, Boot, Exit, Reflect,
                WritePlaylist, AddSegment, Abandon
  <2> QED BY <2>1 DEF StillNeeded
<1>7. CASE ClockStepsBack \/ UNCHANGED vars
  <2>1. UNCHANGED <<pc, victims, eased, disk, other>>
    BY <1>7 DEF ClockStepsBack, vars
  <2> QED BY <1>n, <1>t, <2>1 DEF Used
<1> QED BY <1>1, <1>2, <1>3, <1>4, <1>5, <1>6, <1>7 DEF Next, Indexer

(* Retention never takes a file more than it has to: although the usage is *)
(* read once for a whole plan, each file goes while the disk is above the  *)
(* watermark, unless something else has freed space since the plan was     *)
(* made (retention.py:22-32, 47-52).                                       *)
THEOREM NoMoreThanNeeded == Spec => EvictsOnlyAboveWatermark
<1> DEFINE A == disk \ disk' # {} /\ ~eased => Used > Watermark
           NInv == SInv /\ StillNeeded
<1>1. Init => NInv
  BY InitSInv DEF Init, StillNeeded
<1>2. NInv /\ [Next]_vars => NInv'
  BY SInvStep, NeededStep
<1>3. NInv /\ [Next]_vars => [A]_vars
  <2> SUFFICES ASSUME SInv, StillNeeded, Next, NEW f \in disk \ disk', ~eased
               PROVE  Used > Watermark
    BY DEF vars
  <2>1. PICK p \in victims : RemoveFile(p)
    BY DEF Next, Rotate, ClockStepsBack, OtherChanges, Indexer, BeginPass,
           Reflect, WritePlaylist, AddSegment, WriteRaises, PlanEviction,
           RemoveFile, DropRow, DropRaises, Forget, Boot, Exit, files
  <2>2. pc = "evict" /\ p \in Oldest(victims)
    BY <2>1 DEF RemoveFile
  <2>3. Waiting = victims
    BY <2>2 DEF Waiting, InRemoval
  <2>4. Ahead(p) = {}
    BY <2>2, <2>3, NeededIsTyped, OlderIsTotalOrder DEF Ahead, Oldest
  <2>5. Used - Cardinality(Ahead(p)) > Watermark
    BY <2>2, <2>3 DEF StillNeeded
  <2> QED BY <2>4, <2>5, NeededIsTyped, FS_EmptySet
<1> QED BY <1>1, <1>2, <1>3, PTL DEF Spec, EvictsOnlyAboveWatermark
=============================================================================
