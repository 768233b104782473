# A TLA+ model of Orwell

Orwell is an edge recorder for the NVIDIA Jetson: it records several cameras in
a circular buffer on disk, cuts clips around detections and at fixed intervals,
sends them to a central server (the Conveyor), and answers requests for clips on
the local network. The programs are Python processes in containers that share a
SQLite file, a few directories and one YAML file. This directory models the
parts in which the order of steps matters, model-checks them with TLC on small
instances and proves their main invariants with TLAPS.

To check a run: `tlc -config <run>.cfg <module>`; to check the proofs:
`tlapm <module>_proofs.tla`. `PROJECT.json` lists the runs, the mutations each
property detects, and the source lines every definition translates.

Paths below are relative to the repository; `main.py` of a service is named with
its service. "The specification" is
`docs/superpowers/specs/2026-06-08-periodic-upload-config-remote.md`.

## 1. The system

### Components

| component | code | state it keeps | operations | modelled in |
|---|---|---|---|---|
| circular recording | `services/recorder/recorder/indexer.py`, `shared/orwell_shared/retention.py`, `index.py` | segment files, table `segments`, `live.m3u8`, cache of known paths | `run_once`: reflect, write playlist, plan and carry out eviction | `SegmentStore` |
| event clips | `event_handler.py`, `shared/orwell_shared/clips.py` | fragments in a tmpfs, staging directories, `/events/<id>`, table `events` | `handle_detection`, `publish_event_clip`, `_purge_stale_buffer`, `add_event` | `EventClip`, with its readers `EventFlow` |
| periodic flusher | `periodic_flusher.py` | enabled/interval, time of the last flush, `/events/<id>` | `_loop`, `_flush_all`, `_make_clip`, `update_config` | `PeriodicFlusher` |
| upload worker | `services/uploader`, `shared/orwell_shared/upload_worker.py`, `events.py` | table `events`, the snapshot in hand | `_process_pending`, `mark_uploaded`, `mark_upload_failed`, `stop`, `_status_loop` | `UploadWorker`, promise: `EventDelivery`; whole process: `Uploader` |
| Conveyor client | `shared/orwell_shared/conveyor_client.py` | token, remaining requests, cached secret, lock | `_get_auth`, `_get_secret`, `send_dev_sample`, `send_dev_status` | `ConveyorClient` |
| configuration | `services/clip-api/clip_api/main.py` (PATCH), `config_watcher.py`, recorder `main.py` | `orwell.yaml`, last mtime, settings in force | `patch_config`, `ConfigWatcher._loop`, `_on_config_change` | `ConfigReload` |
| clip API | `services/clip-api/clip_api/main.py`, `clips.py` | temporary clips by camera and window | `GET /clips`, `GET /events/{id}/clip`, `GET /orwell/clip/...` | `ClipApi`, `EventFlow` |
| preview supervisor | `preview_pipeline.py` | pipeline, pending restart, stable timer, attempt | `start`, `stop`, `_schedule_restart`, `_do_restart`, `_mark_stable` | `PreviewPipeline` |
| recorder process | recorder `main.py` | step of `main()`, GLib sources, recording pipelines | `main`, `_stop_main_loop`, `_on_bus_message` | `Recorder` |

Not modelled: the camera pipelines (strings of GStreamer elements), configuration
schema and paths (pure parsing and formatting), device identity, VSTP framing and
the generated protobuf code, the dashboard, nginx and MediaMTX, provisioning and
the storage calculator. They have no state of their own that another component
reads at a moment it does not expect. The reason for each is in `PROJECT.json`.

### How they interact

    splitmuxsink --files--> SegmentStore --rows--> PeriodicFlusher --event rows--+
         |                      |  eviction                                      v
         |                      +-----------------> ClipApi                 Uploader
         +--fragments--> EventClip --event rows, /events---> EventFlow <---- UploadWorker
                                                       |                     |
                                             clip API reads both             v
    PATCH /config --orwell.yaml--> ConfigReload             ConveyorClient <- status thread
                                       |
                                       +--update_config--> PeriodicFlusher
    Recorder: main thread, GLib loop --callbacks--> PreviewPipeline

* Files and SQLite rows are written by one process and read by another without a
  transaction around both. Every pair (file, row) can be seen half done.
* Threads of one process share one SQLite connection (hence one transaction), the
  Conveyor client and the configuration of the flusher.
* Callbacks of one GLib main loop share the state of the preview supervisor with
  timeouts and messages that were posted earlier; the quit of the loop is one of
  them, with the lowest priority.
* All containers run with `restart: unless-stopped`; a process may die between
  any two statements and comes back with an empty memory.

### What is hard, and what correct means

* **Recording.** A disk that fills up, files that are still being written, a cache
  that may disagree with index and disk after an exception, clock steps, deaths.
  Correct: the index offers only finished files; everything finished gets indexed;
  the oldest goes first, and no more than has to; a full disk gets relief.
* **Event clips.** Copying a ring buffer that rotates meanwhile; staging, rename and
  insert with deaths in between. Correct: a row names a published clip, made of
  finished fragments, without a hole in time; leftovers are rare; the uploader does
  not give up on a clip that is about to appear, and the API serves what it lists.
* **Periodic clips.** Clips are written in place; failures of a camera; a changing
  interval; a wall clock that is set; a stop in the middle of a round. Correct: a row names a finished clip; flushes keep their distance,
  serve all cameras, and never cease.
* **Upload.** At-least-once delivery over lost answers and refused writes. Correct:
  "uploaded" means the Conveyor has it, "failed" means it never left; outcomes are
  final; duplicates are bounded by faults; nothing stays pending for ever.
* **Conveyor session.** Two threads, a budget counted on both sides, a server that
  forgets. Correct: no stale secret, no overdrawn token, recovery.
* **Configuration.** Read-merge-write without a lock or rename, followed by polling
  an mtime. Correct: nothing in the file is lost, no newer value is taken back,
  unless one writer overtakes another; the recorder ends up with what the file
  says, also after a mistake in it was mended.
* **Clip API.** Eviction between query and reading; a shared temporary name.
* **Recorder.** A signal or a recording error before the main loop runs. Correct: the
  process always ends in order.
* **Preview.** Duplicate messages, forgotten timers, stop at any time. Correct:
  plays or is due, never both; nothing after stop; backoff starts over only when
  earned.

The complete list, each at its line and with the properties that cover it, is
under `hazards` in `PROJECT.json`.

## 2. Modules

Each component has a module with its state, `Init`, one action per step at which
another actor can interfere, and its properties; `MC<module>` holds the small sets
a `.cfg` refers to; `<module>_proofs` holds the theorems. Operators introduced by
"Mutant:" are plausible mistakes used by the mutations in `PROJECT.json`; no
specification refers to them.

**`EventDelivery`** is the promise about one event: recorded, perhaps delivered,
then acknowledged only if delivered or given up only if not, both for ever.

**`UploadWorker`** implements it. An event is its rank in `t_evento` order. `row[e]`
is the meaning of `uploaded_at` (NULL, a time, -1). `pc` follows one event through
`_process_pending`: `Take` (with the test of the file, `Triage`), `RemoveOversized`
(`rmtree(ignore_errors=True)`, which may leave the clip), `MarkFailed`, `SendOk` /
`SendFails` / `SendLosesAnswer`, `MarkUploaded`, and the exceptions of the two
UPDATEs, which have different effects: the one of `mark_uploaded` is caught for
the event, the one of `mark_upload_failed` abandons the pass. `Crash`, `Stop` and
`Exit` come between any two. The snapshot `todo` is taken once per pass, as in the
code. The oversized clip stands for the size limit; the package is abstracted to
whether it can be built (`Poison`).

**`ConveyorClient`**: `pc[c]` follows a caller through lock, budget, derivation and
exchange. The Conveyor is external: it accepts a request whose token it remembers
and that has requests left. Lost answer and lost request are the same to the client,
so `Accepted` covers both outcomes of an accepted request.

**`Uploader`** composes the two: `ConveyorClient` is instantiated with the upload
thread and the status thread as callers, and an attempt of the worker to send is a
call of the client with all its steps. `SampleAccepted`, `SampleUnanswered` and
`SampleRefused` are the conjunction of the end of the exchange and of the worker's
step (`SendOk`, `SendLosesAnswer`, `SendFails`), `BuildFails` the exception before
the client is called. A death loses the session with the process. `UploadWorker` no
longer needs fairness of its own: what it may hope for comes from the session.

**`SegmentStore`**: `run_once` statement by statement (`Reflect`, `AddSegment`,
`WritePlaylist`, `PlanEviction`, `RemoveFile`, `DropRow`, `Forget`) against
`Rotate` (splitmuxsink), `OtherChanges` (everything else on the disk),
`ClockStepsBack`, `Exit`, `Boot`. `WriteRaises` and `DropRaises` are the
exceptions. The unit of space is one segment. `eased` is history: something other
than retention has freed space since the plan was made.

**`EventClip`**: one camera, one detection at a time (the handler is called in the
streaming thread), fragments as numbers. `Copy` is `copy2` plus `probe_media` of
one fragment; `Rotate` finishes, opens and prunes between any two of them. `Insert`
and `Commit` are the two statements of `add_event`; `OtherCommits` and
`OtherRollsBack` are other threads of the recorder on the same connection, which
may end the transaction in between.

**`EventFlow`** puts the two readers beside it: `UploadWorker` is instantiated with
the rows the recorder commits in place of its free `Record` (`RecorderStep`), and the
clip API looks a row up (`GetEvent`), tests the file (`IsFile`, `IsNoFile`) and hands
the path to `FileResponse`, which looks again (`SendFile`, `SendRaises`).

**`PeriodicFlusher`**: `Wake` (the test of `_stop`), `Due`, `BeginRound`, then per camera `OpenDir`, `NoSegments`
or `FfmpegWrites`, `FfmpegEnds`, `Insert`; `Raises` for every exception `_loop`
catches; `UpdateConfig` from the watcher's thread at any time. What an earlier
round left behind is counted in `left`. `Tick` and `StepClock` are the wall clock,
which may be set back or forward. `Stop` and `Exit` are `flusher.stop()` and a join
that succeeds; `Die` is a kill or a join that gave up after 30 s.

**`ConfigReload`**: a setting is represented by who set it. `Read`, `Truncate`,
`Write` are the three steps of `patch_config`; `LoadConfig`, `CreateWatcher`,
`Stat`, `Reload`, `ReloadRaises` those of the recorder. `rest` stands for the other
sections; `valid` is FALSE while the file has a mistake the schema refuses. The
handlers of several PATCHes run at the same time, without a lock, and an operator may
save the file between any two of their steps: `Truncate` and `Write` are not excluded
by anything. A `Write` after another handler's may leave what was longer there at the
end of the file, which is then a mistake; after an editor has renamed a new file into
place, it goes to a file that has no name any more (`WriteOrphan`). Of the mtime only
one thing matters and is kept: whether it differs from what the watcher remembers
(`differs`). `latest` and `crossed` are history, for the property about loss: who wrote
each field last, and which requests were overtaken between reading and writing, or cut
off in writing.

**`PreviewPipeline`**: what GStreamer and GLib hold (`playing`, `posted`, `restarts`,
`stables`) is separate from the references of the object (`pipeline`, `restart`,
`stable`), so a lost reference shows. `Tick` lets timeouts come due.

**`Recorder`**: the steps of `main()` from the start of the pipelines to the exit.
The actions of `PreviewPipeline` happen inside `Dispatch`, that is while the loop
runs; `Signal` and `NoticeError` add an idle source, which `Quit` dispatches when
nothing of a higher priority is ready (`Ready`).

**`ClipApi`**: requests in a thread pool, ffmpeg in three steps, output path from
the window in whole seconds; the recorder indexes and evicts concurrently.

## 3. Runs

| run | instance | shows |
|---|---|---|
| `UploadWorker` | module `Uploader`: 2 events, the first poison, 1 fault, 2 tokens, grant 1, 1 restart of the Conveyor | `OutcomesAreTrue`, `DuplicatesNeedFaults`, `EventuallySettled`, refinement `Implements` |
| `ConveyorClient` | 2 callers, 3 token names, grants 1..2, 2 restarts | `SecretIsCurrent`, `NeverOverdrawn`, `SessionRecovers` |
| `SegmentStore` | 2 cameras, disk of 4, watermark 2, starts 0..2, 1 clock step, 1 fault | `OpenNeverIndexed`, `KnownFilesAreIndexed`, `GhostRowsNeedFaults`, `EvictsOldestFirst`, `EvictsOnlyAboveWatermark`, `ClosedIsIndexed`, `ReliefUnlessFull` |
| `SegmentStoreFull` | 1 camera, disk of 4 | **violated**: `PressureIsRelieved` |
| `EventClip` | module `EventFlow`: 2 detections, 3 files, 4 fragments, 1 rotation per clip, 1 fault of the recorder and 1 of the uploader | `ClipsAreWhole`, `ClipsAreContiguous`, `LeftoversNeedFaults`, `NothingGivenUpTooEarly`, `ServedAsAdvertised` |
| `PeriodicFlusher` | 2 cameras, intervals 1 and 3, 2 changes, 2 clock steps of -2 or 2, 2 faults, orderly stops at any time | `LeftoversNeedFaults`, `RoundsAreSpaced`, `FlushesKeepComing` |
| `ConfigReload` | 2 PATCHes that may overlap, 2 edits at any time that may be mistaken, 1 death | `LossNeedsCrossing`, `WatcherConverges` |
| `ConfigReloadRace` | 2 concurrent PATCHes | **violated**: `SectionsSurvive` |
| `ConfigReloadBoot` | a PATCH while the recorder boots | **violated**: `WatcherConverges` |
| `PreviewPipeline` | module `Recorder`: 3 failures of the preview, backoff 1 then 3, stable after 2, a recording error, signals at any time | `AlwaysSupervised`, `NothingIsOrphaned`, `StopIsFinal`, `BackoffIsEarned`, `PreviewRecovers`, `ShutsDown` |
| `ClipApi` | 2 requests, 3 windows, 4 segments | `OwnClipIfWindowsDiffer`, `ShortfallNeedsEviction` |
| `ClipApiShared` | the same, windows may agree | **violated**: `EveryClipIsStandalone` |

Every passing run also checks the module's type invariant. A run is named after the
component whose properties it checks; where its row names a composing module, the
properties are checked in that module's larger state space.

### The four disagreements

1. *A full disk is never relieved* (`SegmentStoreFull`). `run_once` inserts rows and
   writes `live.m3u8` before it looks at the free space. On a full disk the write
   raises, the exception leaves `run_once`, and the next pass fails at the same
   place: eviction, which would free space, is not reached.
   `docs/architecture.md:80` says old segments are deleted above 85 %. The passing
   run shows how far the promise holds: relief comes if the disk is not full again
   and again (`ReliefUnlessFull`).
2. *Two PATCHes lose the other sections* (`ConfigReloadRace`). `write_text` truncates
   first; a second handler that reads then merges into an empty file and writes it
   back, so the cameras are gone. `LossNeedsCrossing` shows that nothing else loses
   anything: only a PATCH that was overtaken between its read and its write, or cut
   off by the death of the API in its write.
3. *A PATCH during boot is not applied* (`ConfigReloadBoot`). The watcher remembers
   the mtime at its construction, after `load_config` read the file.
4. *Two equal requests share a file* (`ClipApiShared`). One is sent what the other's
   `ffmpeg -y` is rewriting.

### Differences met while modelling, without a run

* `docs/architecture.md:106` says `/events` is mounted read-only in the uploader;
  `docker-compose.yml:57` mounts it for writing, and `upload_worker.py:83` removes
  the directory of an oversized clip there. `RemoveOversized` has both outcomes,
  since `ignore_errors=True` hides a refusal. `GET /events` still reports
  `clip_available` for such an event; `ServedAsAdvertised` excepts it.
* Nothing removes an uploaded clip: retention (`retention.py`) knows the table
  `segments` only, so `/events` grows with every event.
* `indexer.py:27-29` tells the file being written by its name. After a backward
  step of the clock the open file may be indexed; `OpenNeverIndexed` says so in its
  premise, `docs/` does not mention it.
* `indexer.py:49-52`: the media sequence number falls when files are evicted, and
  the playlist includes the open file.
* `event_handler.py:45` inserts rows with a NULL clip path, where
  `docs/architecture.md:84` speaks of a row per published clip.
* `periodic_flusher.py:110` writes in place, where the specification (lines 63-64)
  says "publica ... atomicamente"; `LeftoversNeedFaults` shows that rows still name
  finished clips only. And an ffmpeg failure of one camera
  ends the round for the others (`periodic_flusher.py:78`, specification line 64): a
  camera that failed every time would starve those after it. `FlushesKeepComing`
  holds for finitely many failures (`MaxFaults`).
* `config_watcher.py:41`: a second change within the tick of the kernel clock in
  which the first was noticed has the same mtime. `FineClock` switches this.
* `events.py:48`: one connection serves all threads of the recorder, so the commit of
  one thread also commits what another has only inserted, and an error that makes
  SQLite roll back takes the other's row with it. The rows are single and come after
  their clips, so the first is harmless; the second leaves a clip without a row and
  is counted as a fault in `LeftoversNeedFaults`.
* `clip_api/main.py:166-172`: two PATCHes of different fields, or a PATCH and an edit,
  lose an update without any truncation being seen: the second writes back what it
  read before the first. The specification (line 164) has only the fields that were
  sent merged. This is one of the ways `LossNeedsCrossing` leaves; `SectionsSurvive`
  (`ConfigReloadRace`) is the graver one.
* `clip_api/main.py:172`: a death of the API between truncating and writing leaves an
  empty file: a recorder that runs applies the defaults, one that starts finds no
  camera and is restarted for ever, until somebody saves the file again.
* `clip_api/main.py:111`: a request for an oversized clip that the uploader removes
  after `is_file()` is answered 500, one before or after it with the clip or a 404
  (`SendRaises`); `ServedAsAdvertised` shows that this happens to no other clip.
* Recorder `main.py:287` passes on the two settings of the flusher only; the
  specification (lines 189-190) lists more.
* `clip_api/main.py:80`: a segment evicted after the query gives a 500, not the 404
  of `docs/architecture.md:99`, if it is the first of the list. A later one ends
  ffmpeg's copy early, with success, and the clip is shorter than its window.
  `ShortfallNeedsEviction` shows that nothing but eviction inside the window does so.

### Bounds, and why they are enough

* *Upload*: an event interacts with others only through their order in the snapshot,
  so a poison event ahead of another one shows starvation; every fault can hit any
  step. A grant of one request renews the session on every call, which puts an
  authentication between any two sends; the larger grants are in the run of the
  client, and grants of 2 also pass here (397 838 states, over three minutes).
* *Session*: current token, cached token, token in flight: at most three names are
  referred to at once, and a name nobody refers to may be issued again. Two
  restarts include one during recovery from the other. The composition needs two
  names, because a secret is never older than the token (`SecretIsCurrent`).
* *Recording*: two cameras with three start times fill a disk of four, so planning
  across cameras, a full disk and its relief all occur. With a watermark of 2 a plan may
  have one victim or two, and one victim more would be taken at the watermark. The one fault is a death or
  a refused delete at any point; the clock step may name a new file like an old one.
  Starts are bounded, so recording ends; `SegmentStoreFull` has one camera and more
  starts instead, and other data that may fill the disk.
* *Event clips*: four fragments with a buffer of three fill and prune it. A clip of
  two fragments is oversized, so both branches of the worker occur. `MaxRotations =
  1` is an assumption: a fragment lasts seconds, copying the buffer less. With 2 the
  prune overtakes the copy and `ClipsAreContiguous` fails. Each process may die, or
  have a write refused, at any one point.
* *Flusher*: time is counted up to the longest interval; after that nothing depends
  on it. A step of the clock is longer than the short interval; two of them cancel
  or add up. Two faults fail a round and its repetition, or a round and the process.
* *Configuration*: two PATCHes and two edits give every order and overlap of writers,
  a mistake that is mended by hand and one that is not. Loss is by one writer
  overtaking another, which takes two; a third repeats it. An edit sets both fields; a
  PATCH sends one or both in the passing run, and in the other two also none, which is
  a PATCH too. `FineClock` and `QuietBoot` are TRUE in the passing run because the code
  does not promise convergence without them (see 3 above), and FALSE where the run
  shows what happens.
* *Preview*: three failures walk through the schedule and past its end; delays
  shorter and longer than the stable period put the timers in both orders. Signals
  are not bounded: a second one adds nothing to the first.
* *Clip API*: three windows that overlap pairwise, two of which agree in seconds.

`CHECK_DEADLOCK FALSE` is set where the model ends: in `ClipApi` each request is
answered once and recording stops at `MaxSegment`; in `EventFlow` detections and
fragments run out.

### Fairness

* A thread that can run does (weak fairness of `UploadThread`, `StatusThread`,
  `Indexer`, `Thread`, `Recorder`, `Main`, `Dispatch`, `Handler`): these are plain loops with sleeps.
* Docker restarts a process that ended (weak fairness of `UStart`, `Start`,
  `Boot`, `LoadConfig`): `restart: unless-stopped`.
* Time passes (weak fairness of `Tick`).
* Retried calls succeed in the end: strong fairness of `SampleAccepted` and
  `MarkFailed`
  (an event is tried again on every pass; a network that is down for ever cannot
  settle anything) and of `Authenticate`.
* The lock is not withheld for ever from a thread: strong fairness of
  `Acquire(Reporter)` and, in `Uploader`, of `Acquire("upload")`. Its holder releases
  it because every exchange has a timeout, and the other thread waits for its
  interval before it asks again.
* No fairness is assumed of detections, cameras, operators, other users of the disk,
  faults, or of the Conveyor accepting a particular request.

## 4. Proofs

The theorems hold for every value of the constants that satisfies the named
assumptions: any number of events, callers, cameras, fragments, requests, faults,
failures; any capacity, watermark, interval and schedule. They are checked against
`Spec`, without fairness. Every safety property of a passing run is stated by a
theorem. The inductive invariants below were first checked with TLC, as invariants
of the run of their module.

* **`UploadWorker_proofs`**: `TypeCorrect`, `OutcomesAreRight`,
  `DuplicatesAreBounded`, `Refinement`, `Composition`, `UploaderKeepsPromise`. The invariants do
  not follow from themselves: what is known of the event in hand (`WorkInHand`: its
  row is pending, at "mark" it was accepted, at "fail" its file cannot be sent) and
  of the snapshot (`SnapshotIsPending`) is needed, and that only clips that could
  be sent have copies. `CopiesArePaidFor` strengthens the bound on duplicates: a
  pending event without an acceptance in hand has one copy per fault, an uploaded
  one has one more; a stop that was requested has been counted as a fault but has
  not yet cost anything (`Debt`). `Refinement` maps `row` to `status` and the set of
  events with copies to `received`; each action maps to one of `EventDelivery` or a
  stutter, by `IInv`. `Composition` shows that every step of `Uploader` is one of
  `UploadWorker` or a stutter, so that all of this holds of the whole process,
  whatever tokens, grants and restarts of the Conveyor there are. The other half of
  the process is the session: `SessionIsSafe` says that `SecretIsCurrent` and
  `NeverOverdrawn` hold there too, where the process may die in the middle of any
  call. It takes `ConveyorClient_proofs` as an instance (`ClientProofs`), whose
  invariant holds while there is a process; `SessionInv` adds that a dead process
  leaves nothing of its session behind, from which the next one establishes the
  invariant again.
* **`ConveyorClient_proofs`**: `TypeCorrect`, `CurrentSecret`, `WithinBudget`. `LockIsHonest` (inside exactly when holding the lock) gives
  mutual exclusion of any number of threads, and with it `SecretsAreCurrent` and `CountIsConservative`: while the
  Conveyor remembers the token its credit is at least the client's count, plus one
  for the request in flight. `GrantsAssumption` (a grant is positive) is essential:
  with a grant of 0, the default of the protobuf field, the count becomes -1 and
  never returns to 0.
* **`SegmentStore_proofs`**: `TypeCorrect`, `OldestFirst`, `NoMoreThanNeeded`,
  `OpenIsNeverIndexed`, `KnownIsIndexed`. `OldestFirst` rests on `PlanIsOldEnd`: while evicting, every
  planned row is older than every row that is not planned. `PlannedIsOldEnd` derives
  it from cardinalities when the plan is made, and it lasts because rows are added
  by the same thread, never during a plan. It holds with clock steps as well, and so does
  `NoMoreThanNeeded`: `StillNeeded` says of each victim that is waiting that the disk
  is above the watermark even without the files of the victims before it. Recording
  only adds to that, and a removal takes one file from the disk and one victim from
  those ahead, whether or not its row was a ghost. The next two
  need a clock that was not set back: `NamesArePast`, `OpenIsLatest`,
  `CandidatesAreClosed` and `FileGoesFirst` form an invariant `CInv` that is kept by
  every step that leaves `steps` at 0, and `UntilStep` makes it unconditional.
  `GhostsArePaidFor` needs no such premise: `GInv` counts the rows without a file
  other than the victim whose row goes next (`Unpaid`), and a death or a refused
  delete turns that one into an unpaid one exactly when it is counted as a fault.
* **`PreviewPipeline_proofs`**: `TypeCorrect`, `Supervision`, `NoOrphans`,
  `StoppedForGood`, `EarnedReset`. `Agree` (references and holders agree, and a
  stable timeout has waited exactly as long as the pipeline has played), `Counts`
  (numbers are fresh) and `Supervised`. `Composition` shows that `Recorder` runs the
  supervisor as `PreviewPipeline` says; `RecorderSupervises` is a consequence.

* **`EventFlow_proofs`** is about `EventClip` and `EventFlow`. Of the recorder:
  `TypeCorrect`; `WholeClips` (what is copied is finished, `CopiesAreWhole`);
  `RowsAfterClips` and `LeftoversArePaidFor`, from `DetectionInHand` (staging
  directory, clip and row of the detection in progress, at each step) and from
  `OwedIsPaid`, which counts what would be left over if the process died now. After a
  rollback by another thread that includes the clip in hand, since its row is lost
  whatever `commit` then reports. `ContiguousClips` assumes `MaxRotations <= 1`:
  `BufferIsContiguous` describes the ring, `CopyInOrder` says that what was copied
  lies before what is still to be copied without a gap, although the ring moved on
  under the copy; with two rotations the statement is false.
  `RecorderPart` and `UploaderPart` show that `EventFlow` implements `EventClip` and
  `UploadWorker`. `PatientUploader` and `AdvertisedIsServed` are about the three
  processes together; their invariant `FInv` relates the tables as each process sees
  them (`ProcessesAgree`), the events the uploader is giving up (`GivingUp`), and the
  answers of the API (`Answers`), and uses `RowsFollowClips` of the recorder.
  `OutcomesAreRight` and `PromiseIsKept` bring in `UploadWorker_proofs` as an instance.
* **`PeriodicFlusher_proofs`**: `TypeCorrect`, `LeftoversArePaidFor`, `SpacedRounds`.
  `RoundInHand` says where the camera in hand is and that every row of the round
  stands for a finished clip; a camera is in disagreement from `OpenDir` until its row
  is inserted or its directory removed, which the bound pays for with 1 while the
  round is there, and `NewRoundCounts` carries what is left into `left`. `LastFlush`
  ties the timer `_loop` looks at to the time since the last round. Assumed: finitely
  many cameras, and a longest interval (PATCH accepts 60 to 86400 s).
* **`ConfigReload_proofs`**: `TypeCorrect` and `NothingElseIsLost`, for any number of
  PATCHes at the same time, edits and deaths; nothing is assumed of the clock or of the
  moment the recorder reads (`FineClock`, `QuietBoot`). `LossNeedsCrossing` is not
  inductive: `LInv` adds what a handler has in hand. `ReadingsAreCurrent` says that what
  a handler read, and will write back, is still complete and up to date while the
  handler has not been crossed; `OrphansAreCrossed` that a handler whose file was
  replaced under it has been. So a write loses something only if it is crossed, and
  then the request is in `Harmed` until somebody saves the whole file.
* **`ClipApi_proofs`**: `TypeCorrect`, `OwnClip`, `ShortfallIsEviction`.
  `OutputIsOwn`: between `StartFfmpeg` and the answer only the request itself has
  written to its output, if no other has the same window in seconds. `PlanIsRecorded`
  and `EndedEarly` say that ffmpeg stops early only where retention has got to the
  window; `MissingWasEvicted` takes the least of the planned segments for it.

Assumptions on the constants are named in the modules. Beyond types they say: file and
token names differ from the values that stand for none; grants are positive
(`SessionAssumption`, `GrantsAssumption`); writers of the configuration are finitely
many and none is called "initial" or "default" (`WritersAssumption`).

Only model-checked, because the prover has no rules for fairness here: the liveness
properties `EventuallySettled`, `SessionRecovers`, `ClosedIsIndexed`,
`ReliefUnlessFull`, `FlushesKeepComing`, `WatcherConverges`, `PreviewRecovers` and
`ShutsDown`. The four disagreements are counterexamples found by TLC.

## 5. Plan

Done: all modules above, model-checked, and the proofs of every safety property a
passing run checks.

Next:

1. A composition of `SegmentStore` and `ClipApi` or `PeriodicFlusher` on one disk and
   index, in place of the free evictions `ClipApi` uses, and that it implements both.
2. Sizes of segments in `SegmentStore`, with the arithmetic of `plan_eviction`
   against a reference definition.
3. Abstract specifications of the flusher and of the clip API, in the way of
   `EventDelivery`, and their refinement.

## 6. Not modelled

* The camera pipelines (`pipeline.py`) are strings for GStreamer; what the recorder
  relies on (naming, closing, pruning) is in `SegmentStore` and `EventClip`.
* Parsing, formatting and data: configuration schema, environment overrides, paths,
  device identity, VSTP framing, protobuf packages, metrics.
* The GET endpoints that answer from one SELECT (`/events`, `/range`, `/metrics`,
  `/upload-stats`) have no intermediate state.
* `extract_event_clip` with legacy fragments: no code writes such directories any
  more; only its first lines, which find none, are in `EventFlow` (`IsNoFile`).
* Small simplifications: the heartbeat file is touched outside the `try` of the upload
  loop (`upload_worker.py:53-54`), so `EventuallySettled` takes for granted that
  `touch` succeeds, as a failing one would end the thread; `mkdir` is outside the
  `try` of `publish_event_clip` (`clips.py:75`), so a refused one leaves nothing to
  clean up; after a `commit()` that was refused Python keeps the transaction open, the
  model drops it.
* A detection whose remux fails leaves no row (`PublishRaises`): no document promises
  that every detection is recorded.
* A failing `parse_launch` in a restart of the preview, and SIGTERM before the
  handlers are set (docker then kills the process): see `PreviewPipeline` and
  `Recorder`.
* The dashboard, nginx, MediaMTX, provisioning and the storage calculator.
