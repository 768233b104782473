----------------------------- MODULE EventClip -----------------------------
(***************************************************************************)
(* How a detection becomes an event: services/recorder/recorder/           *)
(* event_handler.py and publish_event_clip of                              *)
(* shared/orwell_shared/clips.py, for one camera.                          *)
(*                                                                         *)
(* A splitmuxsink keeps the last few seconds in numbered fragments in a    *)
(* tmpfs.  A detection copies the fragments one by one, drops those that   *)
(* ffprobe rejects (an unfinished MP4 has no index), joins the rest in a   *)
(* staging directory and publishes it with one rename; then the row is     *)
(* inserted.  Meanwhile the sink goes on: it finishes fragments, opens new *)
(* ones and deletes the oldest.                                            *)
(*                                                                         *)
(* The threads of the recorder (one per camera, and the flusher) share one *)
(* sqlite connection without a lock, hence one transaction: what one has   *)
(* inserted may be committed, or rolled back, by another.                  *)
(***************************************************************************)
EXTENDS Integers, FiniteSets

CONSTANTS
    Events,         \* detections (uuid4 ids, never reused)
    MaxFiles,       \* max-files of the sink, the file being written included
    MaxFragment,    \* bound: number of the last fragment
    MaxRotations,   \* bound: fragments finished while one clip is copied
    MaxFaults       \* bound on process deaths, refused inserts and rollbacks

ASSUME FilesAssumption == MaxFiles \in Nat \ {0, 1}
ASSUME BoundsAssumption ==
    MaxFragment \in Nat /\ MaxRotations \in Nat /\ MaxFaults \in Nat

VARIABLES
    frags,      \* buf-* files in the tmpfs, by number
    writing,    \* the fragment being written, as a set of at most one
    sealed,     \* fragments that were finished, present or not
    last,       \* number of the last fragment opened
    pc,         \* the detection in progress; "down" = no recorder
    cur,        \* its event, as a set of at most one
    todo,       \* fragments listed and not yet copied
    snaps,      \* good copies in the staging directory
    staging,    \* hidden .<event>.<uuid>.tmp directories, by event
    clip,       \* clip[e]: fragments joined in /events/<e>/clip.mp4
    row,        \* row[e], as committed: "absent", "clip", or "null"
                \* (clip_path NULL)
    open,       \* the INSERT is in the open transaction of the connection
    rotations, faults

sink == <<frags, writing, sealed, last>>
work == <<pc, cur, todo, snaps>>
table == <<row, open>>
vars == <<sink, work, staging, clip, table, rotations, faults>>

Fragments == 1..MaxFragment

TypeOK ==
    /\ frags \subseteq Fragments
    /\ writing \subseteq frags
    /\ sealed \subseteq Fragments
    /\ last \in 0..MaxFragment
    /\ pc \in {"down", "idle", "copy", "remux", "publish", "insert", "commit"}
    /\ cur \subseteq Events
    /\ todo \subseteq Fragments
    /\ snaps \subseteq Fragments
    /\ staging \subseteq Events
    /\ clip \in [Events -> SUBSET Fragments]
    /\ row \in [Events -> {"absent", "clip", "null"}]
    /\ open \in BOOLEAN
    /\ rotations \in 0..MaxRotations
    /\ faults \in 0..MaxFaults

Init ==
    /\ frags = {} /\ writing = {} /\ sealed = {} /\ last = 0
    /\ pc = "down" /\ cur = {} /\ todo = {} /\ snaps = {}
    /\ staging = {}
    /\ clip = [e \in Events |-> {}]
    /\ row = [e \in Events |-> "absent"]
    /\ open = FALSE
    /\ rotations = 0 /\ faults = 0

-----------------------------------------------------------------------------
(* The sink finishes the fragment it writes, opens the next and prunes.    *)
Rotate ==
    /\ pc # "down"
    /\ last < MaxFragment
    /\ pc # "idle" => rotations < MaxRotations
    /\ rotations' = IF pc = "idle" THEN rotations ELSE rotations + 1
    /\ last' = last + 1
    /\ sealed' = sealed \cup writing
    /\ writing' = {last + 1}
    /\ frags' = {f \in frags \cup {last + 1} : f > last + 1 - MaxFiles}
    /\ UNCHANGED <<work, staging, clip, table, faults>>

(* handle_detection .. the listing in publish_event_clip.  An empty buffer *)
(* raises NoSegments before anything is created.                           *)
Detect(e) ==
    /\ pc = "idle"
    /\ row[e] = "absent" /\ clip[e] = {} /\ e \notin staging
    /\ cur' = {e}
    /\ todo' = frags
    /\ snaps' = {}
    /\ rotations' = 0
    /\ IF frags = {}
       THEN pc' = "insert" /\ UNCHANGED staging
       ELSE pc' = "copy" /\ staging' = staging \cup {e}
    /\ UNCHANGED <<sink, clip, table, faults>>

(* Mutant: without ffprobe.                                                *)
CopyUnprobed(f) ==
    /\ pc = "copy"
    /\ f \in todo
    /\ \A g \in todo : f <= g
    /\ todo' = todo \ {f}
    /\ snaps' = snaps \cup ({f} \cap frags)
    /\ UNCHANGED <<sink, pc, cur, staging, clip, table, rotations, faults>>

(* copy2 and probe_media of one fragment, in order of age: a fragment that *)
(* was pruned is skipped, one that is not finished is dropped.             *)
Copy(f) ==
    /\ pc = "copy"
    /\ f \in todo
    /\ \A g \in todo : f <= g
    /\ todo' = todo \ {f}
    /\ snaps' = snaps \cup ({f} \cap frags \cap sealed)
    /\ UNCHANGED <<sink, pc, cur, staging, clip, table, rotations, faults>>

(* Nothing usable: NoSegments, the staging directory is removed and the    *)
(* event is recorded without a clip.                                       *)
CopyDone ==
    /\ pc = "copy"
    /\ todo = {}
    /\ IF snaps = {}
       THEN pc' = "insert" /\ staging' = staging \ cur
       ELSE pc' = "remux" /\ UNCHANGED staging
    /\ UNCHANGED <<sink, cur, todo, snaps, clip, table, rotations, faults>>

(* Mutant: the row first.                                                  *)
RemuxThenInsert ==
    /\ pc = "remux"
    /\ pc' = "insert"
    /\ UNCHANGED <<sink, cur, todo, snaps, staging, clip, table, rotations, faults>>

Remux ==
    /\ pc = "remux"
    /\ pc' = "publish"
    /\ UNCHANGED <<sink, cur, todo, snaps, staging, clip, table, rotations, faults>>

(* Mutant: the staging directory stays.                                    *)
PublishRaisesUncleaned ==
    /\ pc \in {"copy", "remux", "publish"}
    /\ pc' = "idle" /\ cur' = {} /\ todo' = {} /\ snaps' = {}
    /\ UNCHANGED <<sink, staging, clip, table, rotations, faults>>

(* ffmpeg fails, the result does not probe, a disk is full: the staging    *)
(* directory is removed and the exception ends handle_detection, so this   *)
(* detection leaves no trace.                                              *)
PublishRaises ==
    /\ pc \in {"copy", "remux", "publish"}
    /\ staging' = staging \ cur
    /\ pc' = "idle" /\ cur' = {} /\ todo' = {} /\ snaps' = {}
    /\ UNCHANGED <<sink, clip, table, rotations, faults>>

(* os.replace(staging_dir, final_dir)                                      *)
Publish ==
    /\ pc = "publish"
    /\ clip' = [e \in Events |-> IF e \in cur THEN snaps ELSE clip[e]]
    /\ staging' = staging \ cur
    /\ pc' = "insert"
    /\ UNCHANGED <<sink, cur, todo, snaps, table, rotations, faults>>

(* add_event: INSERT ...                                                   *)
Insert ==
    /\ pc = "insert"
    /\ open' = TRUE
    /\ pc' = "commit"
    /\ UNCHANGED <<sink, cur, todo, snaps, staging, clip, row, rotations, faults>>

(* Mutant: the row names the directory.                                    *)
NewRowDirectory == IF snaps = {} THEN "null" ELSE "directory"

NewRow == IF snaps = {} THEN "null" ELSE "clip"

Committed == [e \in Events |-> IF e \in cur /\ open THEN NewRow ELSE row[e]]

Finish ==
    /\ open' = FALSE
    /\ pc' = "idle" /\ cur' = {} /\ todo' = {} /\ snaps' = {}

(* ... commit(): without effect when another thread ended the transaction. *)
Commit ==
    /\ pc = "commit"
    /\ row' = Committed
    /\ Finish
    /\ UNCHANGED <<sink, staging, clip, rotations, faults>>

InsertRaises ==
    /\ pc \in {"insert", "commit"}
    /\ faults < MaxFaults
    /\ faults' = faults + 1
    /\ Finish
    /\ UNCHANGED <<sink, staging, clip, row, rotations>>

(* Another thread of the recorder commits its own row, and this one.       *)
OtherCommits ==
    /\ open
    /\ row' = Committed
    /\ open' = FALSE
    /\ UNCHANGED <<sink, work, staging, clip, rotations, faults>>

(* A statement of another thread fails in a way that makes SQLite roll the *)
(* transaction back (disk full, I/O error); this thread is not told.       *)
OtherRollsBack ==
    /\ open
    /\ faults < MaxFaults
    /\ faults' = faults + 1
    /\ open' = FALSE
    /\ UNCHANGED <<sink, work, staging, clip, row, rotations>>

-----------------------------------------------------------------------------
(* Mutant: without _purge_stale_buffer.                                    *)
BootUnpurged ==
    /\ pc = "down"
    /\ pc' = "idle"
    /\ UNCHANGED <<sink, cur, todo, snaps, staging, clip, table, rotations, faults>>

(* main(): _purge_stale_buffer empties the tmpfs, which outlives the       *)
(* process, before the pipelines exist.                                    *)
Boot ==
    /\ pc = "down"
    /\ frags' = {}
    /\ pc' = "idle"
    /\ UNCHANGED <<writing, sealed, last, cur, todo, snaps, staging, clip, table,
                   rotations, faults>>

Crash ==
    /\ pc # "down"
    /\ faults < MaxFaults
    /\ faults' = faults + 1
    /\ writing' = {}
    /\ open' = FALSE
    /\ pc' = "down" /\ cur' = {} /\ todo' = {} /\ snaps' = {}
    /\ UNCHANGED <<frags, sealed, last, staging, clip, row, rotations>>

Next ==
    \/ Rotate
    \/ \E e \in Events : Detect(e)
    \/ \E f \in todo : Copy(f)
    \/ CopyDone \/ Remux \/ PublishRaises \/ Publish
    \/ Insert \/ Commit \/ InsertRaises \/ OtherCommits \/ OtherRollsBack
    \/ Boot \/ Crash

Spec == Init /\ [][Next]_vars

-----------------------------------------------------------------------------
(* A row that names a clip names a published one, whatever dies or fails   *)
(* before or after: "Somente depois da publicação o evento entra no        *)
(* SQLite" (docs/architecture.md:66).                                      *)
RowsFollowClips == \A e \in Events : row[e] = "clip" => clip[e] # {}

(* What is published is made of finished fragments only, although the      *)
(* buffer is copied while it is being written (clips.py:81-90).            *)
ClipsAreWhole == \A e \in Events : clip[e] \subseteq sealed

(* A clip has no hole in time.  This needs fragments longer than the       *)
(* copying: with two rotations during one copy the prune can overtake it.  *)
ClipsAreContiguous ==
    \A e \in Events : \A f, g \in clip[e] : f..g \subseteq clip[e]

(* Nothing accumulates in /events but what rows point to: a hidden staging *)
(* directory or a published clip without a row costs a fault.              *)
Leftovers ==
    staging \cup {e \in Events : clip[e] # {} /\ row[e] = "absent"}

LeftoversNeedFaults ==
    Cardinality(Leftovers) <= faults + (IF pc \in {"down", "idle"} THEN 0 ELSE 1)
=============================================================================
