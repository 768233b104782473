---------------------------- MODULE ConfigReload ----------------------------
(***************************************************************************)
(* orwell.yaml is written by PATCH /config of the clip API (clip_api/      *)
(* main.py, sync handlers run in a thread pool) and followed by the        *)
(* recorder: main() loads it, then creates a ConfigWatcher                 *)
(* (shared/orwell_shared/config_watcher.py), whose thread compares the     *)
(* mtime every 30 s and reloads.                                           *)
(*                                                                         *)
(* A setting is represented by whoever set it last: a request, an edit by  *)
(* hand, the deployed file ("initial") or nobody ("default", what          *)
(* load_config supplies for a missing key).  "rest" stands for all other   *)
(* sections; without them there is no camera and the recorder exits.  An   *)
(* edit may leave YAML that the schema refuses: then load_config raises,   *)
(* in the recorder and, after it has written, in PATCH /config.            *)
(***************************************************************************)
EXTENDS Integers, FiniteSets

CONSTANTS
    Requests,       \* PATCH /config calls
    Bodies,         \* what a PATCH may send, as sets of fields
    Edits,          \* edits of the file by an operator
    MaxConcurrent,  \* PATCH calls handled at the same time
    MaxDeaths,      \* bound on deaths of the API and of the recorder
    FineClock,      \* TRUE: every change of the file has an mtime of its own;
                    \* FALSE: changes within a tick of the kernel share it
    QuietBoot       \* TRUE: nobody touches the file between load_config
                    \* and the creation of the watcher

(* The two fields of ConfigPatch.                                          *)
Fields == {"enabled", "interval"}

ASSUME BodiesAssumption == Bodies \subseteq SUBSET Fields
ASSUME SwitchesAssumption == FineClock \in BOOLEAN /\ QuietBoot \in BOOLEAN
ASSUME BoundsAssumption == MaxConcurrent \in Nat /\ MaxDeaths \in Nat
ASSUME WritersAssumption ==
    /\ IsFiniteSet(Requests) /\ IsFiniteSet(Edits)
    /\ {"initial", "default"} \cap (Requests \cup Edits) = {}

VARIABLES
    file,       \* the content of orwell.yaml
    changed,    \* the clock still shows the tick of the last change
    polled,     \* the clock still shows the tick of the last poll
    hpc, asked, raw,    \* per request: step, fields sent, what it read
    edited,     \* edits already made
    latest,     \* history: who was the last to write each field
    crossed,    \* history: requests between whose read and write the file
                \* was changed by someone else, or that were cut off writing
    rpc,        \* the recorder
    differs,    \* there is a watcher, and its _last_mtime is not the file's
    applied,    \* the settings in force in the recorder
    deaths

clock == <<changed, polled>>
handlers == <<hpc, asked, raw>>
history == <<latest, crossed>>
recorder == <<rpc, applied>>
vars == <<file, differs, clock, handlers, edited, history, recorder, deaths>>

Origins == Requests \cup Edits \cup {"initial", "default"}
Contents == [rest : BOOLEAN, valid : BOOLEAN, set : [Fields -> Origins]]

(* yaml.safe_load("") or {}                                                *)
Empty == [rest |-> FALSE, valid |-> TRUE, set |-> [f \in Fields |-> "default"]]
Deployed == [rest |-> TRUE, valid |-> TRUE, set |-> [f \in Fields |-> "initial"]]

TypeOK ==
    /\ file \in Contents
    /\ differs \in BOOLEAN
    /\ changed \in BOOLEAN /\ polled \in BOOLEAN
    /\ hpc \in [Requests -> {"idle", "read", "write", "orphan", "done", "lost"}]
    /\ asked \in [Requests -> SUBSET Fields]
    /\ raw \in [Requests -> Contents]
    /\ edited \subseteq Edits
    /\ latest \in [Fields -> Origins]
    /\ crossed \subseteq Requests
    /\ rpc \in {"down", "loaded", "wait", "reload"}
    /\ applied \in [Fields -> Origins]
    /\ deaths \in 0..MaxDeaths

Init ==
    /\ file = Deployed /\ differs = FALSE
    /\ changed = FALSE /\ polled = FALSE
    /\ hpc = [r \in Requests |-> "idle"]
    /\ asked = [r \in Requests |-> {}]
    /\ raw = [r \in Requests |-> Empty]
    /\ edited = {}
    /\ latest = Deployed.set /\ crossed = {}
    /\ rpc = "down" /\ applied = Deployed.set
    /\ deaths = 0

-----------------------------------------------------------------------------
Watching == rpc \in {"wait", "reload"}

(* Changing the file stamps it with the tick the clock shows.  A stamp in  *)
(* another tick is one no watcher has seen.                                *)
Store(content) ==
    /\ QuietBoot => rpc # "loaded"
    /\ file' = content
    /\ differs' = (Watching /\ (FineClock \/ ~changed \/ differs))
    /\ changed' = TRUE
    /\ UNCHANGED polled

Tick ==
    /\ changed \/ polled
    /\ changed' = FALSE /\ polled' = FALSE
    /\ UNCHANGED <<file, differs, handlers, edited, history, recorder, deaths>>

(* Mutant: a field that was not sent is written as null.                   *)
MergeNulls(content, fields, who) ==
    [content EXCEPT !.set = [f \in Fields |-> IF f \in fields THEN who ELSE "null"]]

Merge(content, fields, who) ==
    [content EXCEPT !.set = [f \in Fields |->
                                IF f \in fields THEN who ELSE content.set[f]]]

Active == {r \in Requests : hpc[r] \in {"read", "write", "orphan"}}

(* Mutant: the file is read once, when the application is created.         *)
ReadOnce(r, fields) ==
    /\ hpc[r] = "idle"
    /\ Cardinality(Active) < MaxConcurrent
    /\ asked' = [asked EXCEPT ![r] = fields]
    /\ raw' = [raw EXCEPT ![r] = Deployed]
    /\ hpc' = [hpc EXCEPT ![r] = "read"]
    /\ UNCHANGED <<file, differs, clock, edited, history, recorder, deaths>>

(* patch_config: yaml.safe_load(cfg_path.read_text()) or {}                *)
Read(r, fields) ==
    /\ hpc[r] = "idle"
    /\ Cardinality(Active) < MaxConcurrent
    /\ asked' = [asked EXCEPT ![r] = fields]
    /\ raw' = [raw EXCEPT ![r] = file]
    /\ hpc' = [hpc EXCEPT ![r] = "read"]
    /\ UNCHANGED <<file, differs, clock, edited, history, recorder, deaths>>

(* Those that may have written what was out of date, or left no content.   *)
Harmed == {r \in crossed : hpc[r] \in {"done", "lost"}}

CrossedBy(r) == crossed' = crossed \cup (Active \ {r})

(* cfg_path.write_text(yaml.dump(raw)) opens with "w", which truncates ... *)
Truncate(r) ==
    /\ hpc[r] = "read"
    /\ Store(Empty)
    /\ hpc' = [hpc EXCEPT ![r] = "write"]
    /\ CrossedBy(r)
    /\ UNCHANGED <<asked, raw, edited, latest, recorder, deaths>>

Answer(r) ==
    /\ hpc' = [hpc EXCEPT ![r] = "done"]
    /\ latest' = [f \in Fields |-> IF f \in asked[r] THEN r ELSE latest[f]]
    /\ asked' = [asked EXCEPT ![r] = {}]
    /\ raw' = [raw EXCEPT ![r] = Empty]
    /\ UNCHANGED <<edited, recorder, deaths>>

(* ... and then writes from the beginning.  Where another handler has      *)
(* written since, what was longer there sticks out at the end.             *)
Write(r) ==
    /\ hpc[r] = "write"
    /\ LET new == Merge(raw[r], asked[r], r)
       IN  \/ Store(new)
           \/ file # Empty /\ Store([new EXCEPT !.valid = FALSE])
    /\ Answer(r)
    /\ CrossedBy(r)

(* What was truncated is no longer the file of that name.                  *)
WriteOrphan(r) ==
    /\ hpc[r] = "orphan"
    /\ Answer(r)
    /\ UNCHANGED <<file, differs, clock, crossed>>

(* The client of a PATCH that only read gets an error and may call again.  *)
ApiDies ==
    /\ deaths < MaxDeaths
    /\ deaths' = deaths + 1
    /\ hpc' = [r \in Requests |->
                  IF hpc[r] = "read" THEN "idle"
                  ELSE IF hpc[r] \in {"write", "orphan"} THEN "lost" ELSE hpc[r]]
    /\ crossed' = {r \in Requests : \/ hpc[r] = "write"
                                    \/ r \in Harmed}
    /\ asked' = [r \in Requests |-> {}]
    /\ raw' = [r \in Requests |-> Empty]
    /\ UNCHANGED <<file, differs, clock, edited, latest, recorder>>

(* An operator saves the whole file, which was opened earlier, with both   *)
(* fields set and possibly a mistake, which another edit may mend.  The    *)
(* editor renames: a handler that has truncated is left with the old file. *)
(* What earlier writers lost is there again.                               *)
Edit(e) ==
    /\ e \notin edited
    /\ \E ok \in BOOLEAN : Store([Merge(Deployed, Fields, e) EXCEPT !.valid = ok])
    /\ hpc' = [r \in Requests |-> IF hpc[r] = "write" THEN "orphan" ELSE hpc[r]]
    /\ edited' = edited \cup {e}
    /\ latest' = [f \in Fields |-> e]
    /\ crossed' = Active
    /\ UNCHANGED <<asked, raw, recorder, deaths>>

-----------------------------------------------------------------------------
(* main(): without cameras, or when load_config raises, the process exits  *)
(* and is started again.                                                   *)
LoadConfig ==
    /\ rpc = "down"
    /\ IF file.rest /\ file.valid
       THEN applied' = file.set /\ rpc' = "loaded"
       ELSE UNCHANGED <<applied, rpc>>
    /\ UNCHANGED <<file, differs, clock, handlers, edited, history, deaths>>

CreateWatcher ==
    /\ rpc = "loaded"
    /\ differs' = FALSE
    /\ polled' = TRUE
    /\ rpc' = "wait"
    /\ UNCHANGED <<file, changed, handlers, edited, history, applied, deaths>>

(* The poll interval is longer than a tick.                                *)
Stat ==
    /\ rpc = "wait"
    /\ ~polled
    /\ polled' = TRUE
    /\ differs' = FALSE
    /\ rpc' = IF differs THEN "reload" ELSE "wait"
    /\ UNCHANGED <<file, changed, handlers, edited, history, applied, deaths>>

(* Mutant: the interval is not passed on.                                  *)
ReloadEnabled ==
    /\ rpc = "reload"
    /\ file.valid
    /\ applied' = [applied EXCEPT !["enabled"] = file.set["enabled"]]
    /\ rpc' = "wait"
    /\ UNCHANGED <<file, differs, clock, handlers, edited, history, deaths>>

(* load_config, then _on_config_change -> update_config of the flusher.    *)
Reload ==
    /\ rpc = "reload"
    /\ file.valid
    /\ applied' = file.set
    /\ rpc' = "wait"
    /\ UNCHANGED <<file, differs, clock, handlers, edited, history, deaths>>

(* load_config raises in the watcher: the settings stay, the mtime is      *)
(* remembered.                                                             *)
ReloadRaises ==
    /\ rpc = "reload"
    /\ ~file.valid
    /\ rpc' = "wait"
    /\ UNCHANGED <<file, differs, clock, handlers, edited, history, applied, deaths>>

RecorderDies ==
    /\ rpc # "down"
    /\ deaths < MaxDeaths
    /\ deaths' = deaths + 1
    /\ rpc' = "down" /\ differs' = FALSE /\ applied' = Deployed.set
    /\ UNCHANGED <<file, clock, handlers, edited, history>>

Handler(r) == Truncate(r) \/ Write(r) \/ WriteOrphan(r)
Recorder == LoadConfig \/ CreateWatcher \/ Stat \/ Reload \/ ReloadRaises

Next ==
    \/ Tick \/ Recorder \/ ApiDies \/ RecorderDies
    \/ \E r \in Requests :
          Handler(r) \/ \E fields \in Bodies : Read(r, fields)
    \/ \E e \in Edits : Edit(e)

Spec == Init /\ [][Next]_vars

(* Time passes, the recorder's threads run, a handler that began ends.     *)
FairSpec ==
    /\ Spec
    /\ WF_vars(Tick)
    /\ WF_vars(Recorder)
    /\ \A r \in Requests : WF_vars(Handler(r))

-----------------------------------------------------------------------------
(* "lê o orwell.yaml existente, mescla apenas os campos enviados, e        *)
(* re-serializa" (docs/superpowers/specs/2026-06-08-periodic-upload-       *)
(* config-remote.md:164): once no PATCH is, or was cut off, between        *)
(* truncating and writing, the other sections are there.  Two PATCHes lose *)
(* them: one may read what the other truncated.                            *)
SectionsSurvive ==
    (\A r \in Requests : hpc[r] \notin {"write", "lost"}) => file.rest

(* That is the only way: while nobody writes, the file has all its         *)
(* sections and, for each field, what the last PATCH or edit wrote to it,  *)
(* unless the file was changed under a PATCH between its read and its      *)
(* write, or the API died in its write, and nobody has saved the whole     *)
(* file since.  No PATCH loses anything by itself, whatever was there      *)
(* before it and whoever died while it only read (clip_api/main.py:        *)
(* 166-172).                                                               *)
LossNeedsCrossing ==
    (\A r \in Requests : hpc[r] # "write") /\ Harmed = {} =>
        file.rest /\ file.set = latest

(* "verifica mtime do orwell.yaml a cada 30 s. Se mudou, recarrega e       *)
(* aplica" (lines 173-174): when the changes stop, a recorder that runs    *)
(* comes to use the settings in the file, also after it read a truncated   *)
(* or a mistaken one, unless the mistake is still there.                   *)
WatcherConverges == <>[](rpc = "wait" /\ file.valid => applied = file.set)
=============================================================================
