---------------------------- MODULE SegmentStore ----------------------------
(***************************************************************************)
(* The circular recording of services/recorder: splitmuxsink writes one    *)
(* segment file per camera at a time and names it after the wall clock;    *)
(* the indexer thread of the same process lists the files, adds the closed *)
(* ones to the SQLite table "segments", rewrites the HLS playlist and,     *)
(* when the disk is above the watermark, deletes the oldest segments, file *)
(* first and row second.  The cameras are written concurrently with the    *)
(* indexer; the process may die between any two steps, and the files and   *)
(* rows survive it while the cache of known paths does not.                *)
(*                                                                         *)
(* The unit of space is one segment: retention is modelled for segments of *)
(* one size, the size max-size-time and the bitrate aim at.                *)
(***************************************************************************)
EXTENDS Integers, FiniteSets

CONSTANTS
    Cameras,    \* numbers, in the order of config.cameras
    Capacity,   \* size of the filesystem
    Watermark,  \* capacity_bytes * high_watermark_pct / 100
    Window,     \* segments in a playlist (20 in the code)
    MaxStart,   \* bound: last start time a segment can get
    MaxOther,   \* bound on the space used by anything else (clips, images)
    MaxSteps,   \* bound on backward steps of the wall clock
    MaxFaults   \* bound on process deaths and refused index.delete calls

ASSUME CamerasAssumption == Cameras \subseteq Nat
ASSUME SpaceAssumption ==
    /\ Capacity \in Nat
    /\ Watermark \in 0..Capacity
    /\ MaxOther \in Nat
ASSUME WindowAssumption == Window \in Nat \ {0}
ASSUME BoundsAssumption ==
    MaxStart \in Nat /\ MaxSteps \in Nat /\ MaxFaults \in Nat

VARIABLES
    now,        \* the wall clock
    disk,       \* the segment files that exist
    open,       \* the files being written, at most one per camera
    rows,       \* table "segments"
    known,      \* known[c]: the indexer's cache of indexed paths
    playlist,   \* playlist[c]: what live.m3u8 says
    other,      \* space used by everything that is not a segment
    pc,         \* the indexer thread; "down" = no recorder process
    scan,       \* cameras still to reflect in this pass
    cand,       \* files of the camera in hand still to be added
    victims,    \* planned evictions still to be carried out
    evicted,    \* all evictions planned in this pass
    eased,      \* history: something else has freed space since the plan
    steps, faults

files   == <<disk, open>>
indexer == <<pc, scan, cand, victims, evicted, eased>>
env     == <<other, steps, faults>>
vars == <<now, disk, open, rows, known, playlist, other, pc, scan, cand,
          victims, evicted, eased, steps, faults>>

(* seg-<epoch_ms>.m4s in the directory of a camera.                        *)
Path == [cam : Cameras, start : 0..MaxStart]

TypeOK ==
    /\ now \in 0..(MaxStart + 1)
    /\ disk \subseteq Path
    /\ open \subseteq Path
    /\ rows \subseteq Path
    /\ known \in [Cameras -> SUBSET Path]
    /\ playlist \in [Cameras -> [seq : Nat, segs : SUBSET Path]]
    /\ other \in 0..MaxOther
    /\ pc \in {"down", "idle", "reflect", "add", "plan", "evict", "drop"}
    /\ scan \subseteq Cameras
    /\ cand \subseteq Path
    /\ victims \subseteq Path
    /\ evicted \subseteq Path
    /\ eased \in BOOLEAN
    /\ steps \in 0..MaxSteps
    /\ faults \in 0..MaxFaults

Used == Cardinality(disk) + other
Full == Used >= Capacity

Files(c)  == {p \in disk : p.cam = c}
(* Mutant: the file being written counts as closed.                        *)
ClosedOrOpen(c) == Files(c)

Closed(c) == {p \in Files(c) : \E q \in Files(c) : p.start < q.start}

(* ORDER BY t_start; t_start is the start in the name of the file.         *)
Older(p, q) ==
    p.start < q.start \/ (p.start = q.start /\ p.cam < q.cam)

Oldest(S) == {p \in S : \A q \in S \ {p} : Older(p, q)}

Init ==
    /\ now = 0
    /\ disk = {}
    /\ open = {}
    /\ rows = {}
    /\ known = [c \in Cameras |-> {}]
    /\ playlist = [c \in Cameras |-> [seq |-> 0, segs |-> {}]]
    /\ other = 0
    /\ pc = "down"
    /\ scan = {} /\ cand = {} /\ victims = {} /\ evicted = {} /\ eased = FALSE
    /\ steps = 0 /\ faults = 0

-----------------------------------------------------------------------------
(* splitmuxsink asks format-location for the next name, which closes the   *)
(* previous file of that camera.  A name that exists is overwritten.  The  *)
(* clock moves on before the next file is named.                           *)
Rotate(c) ==
    /\ pc # "down"
    /\ ~Full
    /\ now <= MaxStart
    /\ LET p == [cam |-> c, start |-> now]
       IN  /\ disk' = disk \cup {p}
           /\ open' = {q \in open : q.cam # c} \cup {p}
    /\ now' = now + 1
    /\ UNCHANGED <<rows, known, playlist, indexer, env>>

ClockStepsBack ==
    /\ steps < MaxSteps
    /\ steps' = steps + 1
    /\ \E t \in 0..(now - 1) : now' = t
    /\ UNCHANGED <<files, rows, known, playlist, indexer, other, faults>>

(* Event clips, container images, logs come and go.                        *)
OtherChanges ==
    /\ \E n \in 0..MaxOther :
          /\ n # other
          /\ Cardinality(disk) + n <= Capacity
          /\ other' = n
          /\ eased' = (pc \in {"evict", "drop"} /\ (eased \/ n < other))
    /\ UNCHANGED <<now, files, rows, known, playlist, pc, scan, cand, victims,
                   evicted, steps, faults>>

-----------------------------------------------------------------------------
(* run_once, in the order of its statements.                               *)
BeginPass ==
    /\ pc = "idle"
    /\ pc' = IF Cameras = {} THEN "plan" ELSE "reflect"
    /\ scan' = Cameras
    /\ UNCHANGED <<now, files, rows, known, playlist, cand, victims, evicted, eased, env>>

InHand(c) == c \in scan /\ \A d \in scan : c <= d

(* Mutant: the cache is updated before the index.                          *)
ReflectRemembersFirst(c) ==
    /\ pc = "reflect"
    /\ InHand(c)
    /\ cand' = Closed(c) \ known[c]
    /\ known' = [known EXCEPT ![c] = @ \cup Closed(c)]
    /\ pc' = "add"
    /\ UNCHANGED <<now, files, rows, playlist, scan, victims, evicted, eased, env>>

Reflect(c) ==
    /\ pc = "reflect"
    /\ InHand(c)
    /\ cand' = Closed(c) \ known[c]
    /\ pc' = "add"
    /\ UNCHANGED <<now, files, rows, known, playlist, scan, victims, evicted, eased, env>>

(* Mutant: no commit after the INSERT.                                     *)
AddSegmentUncommitted(c, p) ==
    /\ pc = "add"
    /\ InHand(c)
    /\ p \in Oldest(cand)
    /\ ~Full
    /\ known' = [known EXCEPT ![c] = @ \cup {p}]
    /\ cand' = cand \ {p}
    /\ UNCHANGED <<now, files, rows, playlist, pc, scan, victims, evicted, eased, env>>

(* index.add_segment needs space in the WAL; known is updated after it.    *)
AddSegment(c, p) ==
    /\ pc = "add"
    /\ InHand(c)
    /\ p \in Oldest(cand)
    /\ ~Full
    /\ rows' = rows \cup {p}
    /\ known' = [known EXCEPT ![c] = @ \cup {p}]
    /\ cand' = cand \ {p}
    /\ UNCHANGED <<now, files, playlist, pc, scan, victims, evicted, eased, env>>

Recent(c) ==
    {p \in Files(c) : Cardinality({q \in Files(c) : q.start >= p.start}) <= Window}

(* The file is listed again; the sequence number is derived from the       *)
(* number of files there are.                                              *)
WritePlaylist(c) ==
    /\ pc = "add"
    /\ InHand(c)
    /\ cand = {}
    /\ ~Full
    /\ playlist' = [playlist EXCEPT ![c] =
          [seq  |-> Cardinality(Files(c)) - Cardinality(Recent(c)),
           segs |-> Recent(c)]]
    /\ scan' = scan \ {c}
    /\ pc' = IF scan' = {} THEN "plan" ELSE "reflect"
    /\ UNCHANGED <<now, files, rows, known, cand, victims, evicted, eased, env>>

Abandon ==
    /\ pc' = "idle"
    /\ scan' = {} /\ cand' = {} /\ victims' = {} /\ evicted' = {} /\ eased' = FALSE

(* Mutant: the exception ends the indexer thread.                          *)
WriteRaisesForGood ==
    /\ pc = "add"
    /\ Full
    /\ pc' = "dead"
    /\ UNCHANGED <<now, files, rows, known, playlist, scan, cand, victims, evicted, eased, env>>

(* A full disk makes the insert and the playlist write raise; the          *)
(* exception leaves run_once and _indexer_loop waits for the next pass.    *)
WriteRaises ==
    /\ pc = "add"
    /\ Full
    /\ Abandon
    /\ UNCHANGED <<now, files, rows, known, playlist, env>>

(* Mutants: the newest rows go first; the watermark is ignored.            *)
PlannedNewestFirst ==
    {p \in rows : Used - Cardinality({q \in rows : Older(p, q)}) > Watermark}

PlannedWhenFull ==
    {p \in rows : Used - Cardinality({q \in rows : Older(q, p)}) > Capacity}

(* Mutant: the plan goes on at the watermark.                              *)
PlannedBelow ==
    {p \in rows : Used - Cardinality({q \in rows : Older(q, p)}) >= Watermark}

(* plan_eviction over the rows, oldest first: a row is planned while what  *)
(* is left after the older ones is still above the watermark.              *)
Planned ==
    {p \in rows : Used - Cardinality({q \in rows : Older(q, p)}) > Watermark}

PlanEviction ==
    /\ pc = "plan"
    /\ victims' = Planned
    /\ evicted' = Planned
    /\ eased' = FALSE
    /\ pc' = "evict"
    /\ UNCHANGED <<now, files, rows, known, playlist, scan, cand, env>>

(* Mutant: all files of the plan are removed before the first row.         *)
RemoveFiles(p) ==
    /\ pc = "evict"
    /\ p \in Oldest(victims)
    /\ disk' = disk \ victims
    /\ pc' = "drop"
    /\ UNCHANGED <<now, open, rows, known, playlist, scan, cand, victims, evicted, eased, env>>

(* os.remove; FileNotFoundError is ignored.                                *)
RemoveFile(p) ==
    /\ pc = "evict"
    /\ p \in Oldest(victims)
    /\ disk' = disk \ {p}
    /\ pc' = "drop"
    /\ UNCHANGED <<now, open, rows, known, playlist, scan, cand, victims, evicted, eased, env>>

DropRow(p) ==
    /\ pc = "drop"
    /\ p \in Oldest(victims)
    /\ rows' = rows \ {p}
    /\ victims' = victims \ {p}
    /\ pc' = "evict"
    /\ UNCHANGED <<now, files, known, playlist, scan, cand, evicted, eased, env>>

(* index.delete raises (another connection kept the database locked): the  *)
(* rest of the plan and the update of known are skipped.                   *)
DropRaises ==
    /\ pc = "drop"
    /\ faults < MaxFaults
    /\ faults' = faults + 1
    /\ Abandon
    /\ UNCHANGED <<now, files, rows, known, playlist, other, steps>>

Forget ==
    /\ pc = "evict"
    /\ victims = {}
    /\ known' = [c \in Cameras |-> known[c] \ evicted]
    /\ Abandon
    /\ UNCHANGED <<now, files, rows, playlist, env>>

Indexer ==
    \/ BeginPass
    \/ \E c \in Cameras : Reflect(c) \/ WritePlaylist(c)
                          \/ \E p \in cand : AddSegment(c, p)
    \/ WriteRaises
    \/ PlanEviction
    \/ \E p \in victims : RemoveFile(p) \/ DropRow(p)
    \/ DropRaises
    \/ Forget

-----------------------------------------------------------------------------
(* The container starts (again): the pipelines run and _indexer_loop       *)
(* begins with an empty cache.                                             *)
Boot ==
    /\ pc = "down"
    /\ pc' = "idle"
    /\ known' = [c \in Cameras |-> {}]
    /\ UNCHANGED <<now, files, rows, playlist, scan, cand, victims, evicted, eased, env>>

(* A kill, a power cut, or the orderly exit of main() after a pipeline     *)
(* error: in none of them is the file being written finalised.             *)
Exit ==
    /\ pc # "down"
    /\ faults < MaxFaults
    /\ faults' = faults + 1
    /\ pc' = "down"
    /\ open' = {}
    /\ scan' = {} /\ cand' = {} /\ victims' = {} /\ evicted' = {} /\ eased' = FALSE
    /\ UNCHANGED <<now, disk, rows, known, playlist, other, steps>>

Next ==
    \/ \E c \in Cameras : Rotate(c)
    \/ ClockStepsBack
    \/ OtherChanges
    \/ Indexer
    \/ Boot
    \/ Exit

Spec == Init /\ [][Next]_vars

(* The indexer thread runs for ever and docker restarts the container.     *)
Fairness == WF_vars(Indexer) /\ WF_vars(Boot)

FairSpec == Spec /\ Fairness

-----------------------------------------------------------------------------
(* The index, from which clips are cut, never offers a file that is still  *)
(* being written: "Pula o mais recente (pode estar sendo escrito)"         *)
(* (indexer.py:27).  The most recent file is told by its name, so this     *)
(* needs a clock that was not set back.                                    *)
OpenNeverIndexed == steps = 0 => open \cap rows = {}

(* The cache never hides a file from the index: what exists and is known   *)
(* has a row, also after a pass that was cut short (indexer.py:33-43,      *)
(* 86-89).  A clock set back may reuse the name of a file that is known.   *)
KnownFilesAreIndexed ==
    steps = 0 => \A c \in Cameras : known[c] \cap disk \subseteq rows

(* A row without a file is a clip that cannot be cut.  Apart from the one  *)
(* being evicted, each costs a fault between os.remove and index.delete.   *)
GhostRowsNeedFaults ==
    Cardinality(rows \ disk) <= faults + (IF pc = "drop" THEN 1 ELSE 0)

(* What is left of the recording has no holes made by retention: when a    *)
(* file is deleted every older indexed file, of any camera, is gone.       *)
EvictsOldestFirst ==
    [][\A p \in disk \ disk' : \A q \in rows \cap disk' : Older(p, q)]_vars

(* Nor does retention take more than it has to: a file is deleted only     *)
(* while the disk is above the watermark, although the usage was read once *)
(* for the whole plan, before recording went on, rows without a file were  *)
(* planned for nothing, and the earlier victims were deleted               *)
(* (retention.py:22-32), unless something else has freed space meanwhile.  *)
EvictsOnlyAboveWatermark ==
    [][disk \ disk' # {} /\ ~eased => Used > Watermark]_vars

(* Every segment that a newer one of its camera has replaced is indexed in *)
(* the end (or already evicted), also when the process died in between or  *)
(* the disk was full for a time.  (A clock set back may reuse a name that  *)
(* the cache remembers, and such a file is never looked at.)               *)
ClosedIsIndexed ==
    [](steps = 0) /\ <>[]~Full =>
        \A p \in Path : p \in Closed(p.cam) ~> p \in rows \/ p \notin disk

(* "acima de ~85% apaga segmentos mais antigos" (docs/architecture.md:80): *)
(* above the watermark the disk gets relief as long as the index has       *)
(* anything to give.                                                       *)
PressureIsRelieved ==
    Used > Watermark /\ rows # {} ~> Used <= Watermark \/ rows = {}

(* It does get it, unless the disk is full again and again: then the       *)
(* indexer's own writes, which come before the eviction, raise.            *)
ReliefUnlessFull == <>[]~Full => PressureIsRelieved
=============================================================================
