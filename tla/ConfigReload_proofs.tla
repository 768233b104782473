------------------------ MODULE ConfigReload_proofs ------------------------
(***************************************************************************)
(* Proofs about the file in ConfigReload, for any number of PATCH calls at *)
(* the same time, of edits and of deaths, whatever the clock of the file   *)
(* system shows and whenever the recorder reads.                           *)
(***************************************************************************)
EXTENDS ConfigReload, TLAPS

LEMMA MergeIsTyped ==
  ASSUME NEW content \in Contents, NEW fields, NEW who \in Requests \cup Edits
  PROVE  /\ Merge(content, fields, who) \in Contents
         /\ Merge(content, fields, who).rest = content.rest
         /\ Merge(content, fields, who).set =
               [f \in Fields |-> IF f \in fields THEN who ELSE content.set[f]]
<1> DEFINE new == [f \in Fields |-> IF f \in fields THEN who ELSE content.set[f]]
<1>1. new \in [Fields -> Origins]
  BY DEF Contents, Origins
<1> HIDE DEF new
<1>2. /\ [content EXCEPT !.set = new] \in Contents
      /\ [content EXCEPT !.set = new].rest = content.rest
      /\ [content EXCEPT !.set = new].set = new
  BY <1>1 DEF Contents
<1> QED BY <1>2 DEF Merge, new

(* Whether what is written is valid makes no difference to what it sets.   *)
LEMMA ValidityIsApart ==
  ASSUME NEW content \in Contents, NEW ok \in BOOLEAN
  PROVE  /\ [content EXCEPT !.valid = ok] \in Contents
         /\ [content EXCEPT !.valid = ok].rest = content.rest
         /\ [content EXCEPT !.valid = ok].set = content.set
  BY DEF Contents

LEMMA EmptyIsTyped == Empty \in Contents /\ Deployed \in Contents
<1>1. [f \in Fields |-> "default"] \in [Fields -> Origins]
  BY DEF Origins
<1>2. [f \in Fields |-> "initial"] \in [Fields -> Origins]
  BY DEF Origins
<1> QED BY <1>1, <1>2 DEF Empty, Deployed, Contents

-----------------------------------------------------------------------------
(* What a step of each kind does to the file.                              *)
LEMMA WriteStores ==
  ASSUME TypeOK, NEW r \in Requests, Write(r)
  PROVE  /\ file' \in Contents /\ file'.rest = raw[r].rest
         /\ file'.set = [f \in Fields |-> IF f \in asked[r] THEN r ELSE raw[r].set[f]]
<1> DEFINE new == Merge(raw[r], asked[r], r)
<1>1. /\ new \in Contents /\ new.rest = raw[r].rest
      /\ new.set = [f \in Fields |-> IF f \in asked[r] THEN r ELSE raw[r].set[f]]
  BY MergeIsTyped DEF TypeOK
<1>2. file' = new \/ file' = [new EXCEPT !.valid = FALSE]
  BY DEF Write, Store
<1> HIDE DEF new
<1> QED BY <1>1, <1>2, ValidityIsApart

LEMMA EditStores ==
  ASSUME NEW e \in Edits, Edit(e)
  PROVE  file' \in Contents /\ file'.rest /\ file'.set = [f \in Fields |-> e]
<1> DEFINE new == Merge(Deployed, Fields, e)
<1>1. /\ new \in Contents /\ new.rest = Deployed.rest /\ new.set = [f \in Fields |-> e]
  BY MergeIsTyped, EmptyIsTyped
<1>2. \E ok \in BOOLEAN : file' = [new EXCEPT !.valid = ok]
  BY DEF Edit, Store
<1> HIDE DEF new
<1> QED BY <1>1, <1>2, ValidityIsApart DEF Deployed

LEMMA TypeStep == TypeOK /\ [Next]_vars => TypeOK'
<1> SUFFICES ASSUME TypeOK, [Next]_vars PROVE TypeOK'
  OBVIOUS
<1> USE BoundsAssumption DEF TypeOK, clock, handlers, recorder, history
<1>1. CASE Tick
  BY <1>1 DEF Tick
<1>2. ASSUME NEW content, Store(content)
      PROVE  differs' \in BOOLEAN /\ changed' \in BOOLEAN /\ polled' \in BOOLEAN
  <2>1. differs' \in BOOLEAN /\ changed' \in BOOLEAN
    BY <1>2, Zenon DEF Store
  <2> QED BY <1>2, <2>1 DEF Store
<1>3. CASE LoadConfig
  BY <1>3 DEF LoadConfig, Contents
<1>4. CASE CreateWatcher \/ Stat
  <2>1. differs' \in BOOLEAN /\ polled' \in BOOLEAN
    BY <1>4, Zenon DEF CreateWatcher, Stat
  <2> QED BY <1>4, <2>1 DEF CreateWatcher, Stat
<1>5. CASE Reload \/ ReloadRaises
  BY <1>5 DEF Reload, ReloadRaises, Contents
<1>6. CASE ApiDies
  BY <1>6, EmptyIsTyped DEF ApiDies, Harmed
<1>7. CASE RecorderDies
  <2>1. applied' \in [Fields -> Origins]
    BY <1>7, EmptyIsTyped DEF RecorderDies, Contents
  <2>2. differs' \in BOOLEAN
    BY <1>7, Zenon DEF RecorderDies
  <2> QED BY <1>7, <2>1, <2>2 DEF RecorderDies
<1>8. ASSUME NEW r \in Requests, NEW fields \in Bodies, Read(r, fields)
      PROVE  TypeOK'
  BY <1>8, BodiesAssumption DEF Read
<1>9. ASSUME NEW r \in Requests, Truncate(r) PROVE TypeOK'
  <2>1. differs' \in BOOLEAN /\ changed' \in BOOLEAN /\ polled' \in BOOLEAN
    BY <1>9, <1>2 DEF Truncate
  <2>2. file' \in Contents
    BY <1>9, EmptyIsTyped DEF Truncate, Store
  <2> QED BY <1>9, <2>1, <2>2 DEF Truncate, CrossedBy, Active
<1>a. ASSUME NEW r \in Requests, Answer(r)
      PROVE  /\ latest' \in [Fields -> Origins]
             /\ hpc' \in [Requests -> {"idle", "read", "write", "orphan", "done", "lost"}]
             /\ asked' \in [Requests -> SUBSET Fields]
             /\ raw' \in [Requests -> Contents]
             /\ UNCHANGED <<edited, rpc, applied, deaths>>
  BY <1>a, EmptyIsTyped DEF Answer, Origins
<1>10. ASSUME NEW r \in Requests, Write(r) PROVE TypeOK'
  <2>1. differs' \in BOOLEAN /\ changed' \in BOOLEAN /\ polled' \in BOOLEAN
    BY <1>10, <1>2 DEF Write
  <2>2. file' \in Contents
    BY <1>10, WriteStores
  <2>3. crossed' \subseteq Requests
    BY <1>10 DEF Write, CrossedBy, Active
  <2>4. Answer(r)
    BY <1>10 DEF Write
  <2> QED BY <2>1, <2>2, <2>3, <2>4, <1>a
<1>11. ASSUME NEW r \in Requests, WriteOrphan(r) PROVE TypeOK'
  BY <1>11, <1>a DEF WriteOrphan
<1>12. ASSUME NEW e \in Edits, Edit(e) PROVE TypeOK'
  <2>1. differs' \in BOOLEAN /\ changed' \in BOOLEAN /\ polled' \in BOOLEAN
    BY <1>12, <1>2 DEF Edit
  <2>2. file' \in Contents
    BY <1>12, EditStores
  <2>3. latest' \in [Fields -> Origins]
    BY <1>12 DEF Edit, Origins
  <2> QED BY <1>12, <2>1, <2>2, <2>3 DEF Edit, Active
<1>13. CASE UNCHANGED vars
  BY <1>13 DEF vars
<1> QED
  BY <1>1, <1>3, <1>4, <1>5, <1>6, <1>7, <1>8, <1>9, <1>10, <1>11, <1>12, <1>13
  DEF Next, Recorder, Handler

LEMMA InitTypes == Init => TypeOK
<1> SUFFICES ASSUME Init PROVE TypeOK
  OBVIOUS
<1>1. changed \in BOOLEAN /\ polled \in BOOLEAN /\ differs \in BOOLEAN
  BY Zenon DEF Init
<1> QED BY <1>1, EmptyIsTyped, BoundsAssumption DEF Init, TypeOK, Contents

(* The type invariant; in particular a field is never set to a value that  *)
(* nobody sent.                                                            *)
THEOREM TypeCorrect == Spec => []TypeOK
  BY InitTypes, TypeStep, PTL DEF Spec

-----------------------------------------------------------------------------
NoWriter == \A r \in Requests : hpc[r] # "write"

(* Current(content): nothing in it is out of date.                         *)
Current(content) == content.rest /\ content.set = latest

(* What a handler that was not crossed has read is current, unless another *)
(* one is between truncating and writing: then it may have read nothing,   *)
(* but will be crossed when the other one writes.                          *)
ReadingsAreCurrent ==
    \A r \in Active \ crossed :
        (\A q \in Requests : hpc[q] = "write" => q = r) => Current(raw[r])

OrphansAreCrossed == \A r \in Requests : hpc[r] = "orphan" => r \in crossed

LInv ==
    /\ TypeOK
    /\ OrphansAreCrossed
    /\ Harmed = {} => ReadingsAreCurrent
    /\ LossNeedsCrossing

LEMMA InitLInv == Init => LInv
<1> SUFFICES ASSUME Init PROVE LInv
  OBVIOUS
<1>1. Active = {}
  BY DEF Init, Active
<1>2. file.rest /\ file.set = latest
  BY DEF Init, Deployed
<1>3. OrphansAreCrossed
  BY DEF Init, OrphansAreCrossed
<1> QED
  BY <1>1, <1>2, <1>3, InitTypes DEF LInv, ReadingsAreCurrent, LossNeedsCrossing

LEMMA LossStep == LInv /\ [Next]_vars => LInv'
<1> SUFFICES ASSUME LInv, [Next]_vars PROVE LInv'
  OBVIOUS
<1> DEFINE Good == Harmed = {} => ReadingsAreCurrent
<1>s. /\ TypeOK /\ OrphansAreCrossed /\ Good /\ LossNeedsCrossing
      /\ hpc \in [Requests -> {"idle", "read", "write", "orphan", "done", "lost"}]
      /\ asked \in [Requests -> SUBSET Fields]
      /\ file \in Contents /\ raw \in [Requests -> Contents]
      /\ latest \in [Fields -> Origins] /\ crossed \subseteq Requests
  BY DEF LInv, TypeOK
<1> SUFFICES OrphansAreCrossed' /\ Good' /\ LossNeedsCrossing'
  BY <1>s, TypeStep DEF LInv
<1> USE DEF clock, handlers, recorder, history
<1>1. CASE Tick \/ LoadConfig \/ CreateWatcher \/ Stat \/ Reload \/ ReloadRaises
           \/ RecorderDies \/ UNCHANGED vars
  <2>1. UNCHANGED <<file, hpc, asked, raw, latest, crossed>>
    BY <1>1 DEF Tick, LoadConfig, CreateWatcher, Stat, Reload, ReloadRaises,
                RecorderDies, vars
  <2>2. Active' = Active /\ Harmed' = Harmed
    BY <2>1 DEF Active, Harmed
  <2> QED
    BY <2>1, <2>2, <1>s
    DEF OrphansAreCrossed, ReadingsAreCurrent, Current, LossNeedsCrossing
<1>2. CASE ApiDies
  <2>1. /\ UNCHANGED <<file, latest>>
        /\ crossed' = {r \in Requests : hpc[r] = "write" \/ r \in Harmed}
        /\ \A r \in Requests : /\ hpc'[r] \notin {"read", "write", "orphan"}
                               /\ hpc[r] = "write" => hpc'[r] = "lost"
                               /\ hpc[r] \in {"done", "lost"} => hpc'[r] = hpc[r]
    BY <1>2, <1>s DEF ApiDies
  <2>2. Active' = {}
    BY <2>1 DEF Active
  <2>3. Harmed' = {} => Harmed = {} /\ NoWriter
    BY <2>1, <1>s DEF Harmed, NoWriter
  <2> QED
    BY <2>1, <2>2, <2>3, <1>s
    DEF OrphansAreCrossed, ReadingsAreCurrent, LossNeedsCrossing, NoWriter
<1>3. ASSUME NEW r \in Requests, NEW fields \in Bodies, Read(r, fields)
      PROVE  OrphansAreCrossed' /\ Good' /\ LossNeedsCrossing'
  <2>1. /\ UNCHANGED <<file, latest, crossed>> /\ raw'[r] = file
        /\ hpc[r] = "idle" /\ hpc'[r] = "read"
        /\ \A q \in Requests \ {r} : hpc'[q] = hpc[q] /\ raw'[q] = raw[q]
    BY <1>3, <1>s DEF Read
  <2>2. Harmed' = Harmed /\ Active' = Active \cup {r} /\ NoWriter' = NoWriter
    BY <2>1, <1>s DEF Harmed, Active, NoWriter
  <2>3. OrphansAreCrossed' /\ LossNeedsCrossing'
    BY <2>1, <2>2, <1>s DEF OrphansAreCrossed, LossNeedsCrossing
  <2>4. ASSUME Harmed' = {}, NEW p \in Active' \ crossed',
               \A q \in Requests : hpc'[q] = "write" => q = p
        PROVE  Current(raw[p])'
    <3>1. CASE p = r
      <4>1. NoWriter
        BY <2>1, <2>4, <3>1 DEF NoWriter
      <4> QED BY <2>1, <2>2, <2>4, <3>1, <4>1, <1>s DEF LossNeedsCrossing, NoWriter, Current
    <3>2. CASE p # r
      <4>1. p \in Active \ crossed /\ \A q \in Requests : hpc[q] = "write" => q = p
        BY <2>1, <2>2, <2>4, <3>2
      <4>2. raw'[p] = raw[p]
        BY <2>1, <3>2, <4>1 DEF Active
      <4> QED BY <2>1, <2>2, <2>4, <4>1, <4>2, <1>s DEF ReadingsAreCurrent, Current
    <3> QED BY <3>1, <3>2
  <2>5. Good'
    BY <2>4 DEF ReadingsAreCurrent
  <2> QED BY <2>3, <2>5
<1>4. ASSUME NEW r \in Requests, Truncate(r)
      PROVE  OrphansAreCrossed' /\ Good' /\ LossNeedsCrossing'
  <2>1. /\ UNCHANGED <<raw, latest>> /\ crossed' = crossed \cup (Active \ {r})
        /\ hpc[r] = "read" /\ hpc'[r] = "write"
        /\ \A q \in Requests \ {r} : hpc'[q] = hpc[q]
    BY <1>4, <1>s DEF Truncate, CrossedBy
  <2>2. Active' = Active /\ Harmed' = Harmed
    BY <2>1, <1>s DEF Active, Harmed
  <2>3. ASSUME Harmed' = {}, NEW p \in Active' \ crossed',
               \A q \in Requests : hpc'[q] = "write" => q = p
        PROVE  Current(raw[p])'
    <3>1. p = r /\ p \in Active \ crossed
      BY <2>1, <2>2, <2>3
    <3>2. \A q \in Requests : hpc[q] = "write" => q = p
      BY <2>1, <2>3
    <3> QED BY <2>1, <2>2, <2>3, <3>1, <3>2, <1>s DEF ReadingsAreCurrent, Current
  <2>4. Good'
    BY <2>3 DEF ReadingsAreCurrent
  <2>5. OrphansAreCrossed' /\ LossNeedsCrossing'
    BY <2>1, <1>s DEF OrphansAreCrossed, LossNeedsCrossing
  <2> QED BY <2>4, <2>5
<1>5. ASSUME NEW r \in Requests, Write(r)
      PROVE  OrphansAreCrossed' /\ Good' /\ LossNeedsCrossing'
  <2>1. /\ crossed' = crossed \cup (Active \ {r})
        /\ hpc[r] = "write" /\ hpc'[r] = "done"
        /\ \A q \in Requests \ {r} : hpc'[q] = hpc[q]
        /\ latest' = [f \in Fields |-> IF f \in asked[r] THEN r ELSE latest[f]]
    BY <1>5, <1>s DEF Write, Answer, CrossedBy
  <2>2. Active' \subseteq crossed'
    BY <2>1, <1>s DEF Active
  <2>3. Harmed' = {} => Harmed = {} /\ r \in Active \ crossed
    BY <2>1, <1>s DEF Harmed, Active
  <2>4. ASSUME Harmed' = {}, NoWriter' PROVE file'.rest /\ file'.set = latest'
    <3>1. Current(raw[r])
      BY <2>1, <2>3, <2>4, <1>s DEF ReadingsAreCurrent, NoWriter
    <3>2. /\ file'.rest = raw[r].rest
          /\ file'.set = [f \in Fields |-> IF f \in asked[r] THEN r ELSE raw[r].set[f]]
      BY <1>5, <1>s, WriteStores
    <3> QED BY <2>1, <3>1, <3>2 DEF Current
  <2>5. LossNeedsCrossing'
    BY <2>4 DEF LossNeedsCrossing, NoWriter
  <2>6. Good'
    BY <2>2 DEF ReadingsAreCurrent
  <2>7. OrphansAreCrossed'
    BY <2>1, <1>s DEF OrphansAreCrossed
  <2> QED BY <2>5, <2>6, <2>7
<1>6. ASSUME NEW r \in Requests, WriteOrphan(r)
      PROVE  OrphansAreCrossed' /\ Good' /\ LossNeedsCrossing'
  <2>1. /\ UNCHANGED crossed /\ hpc[r] = "orphan" /\ hpc'[r] = "done"
        /\ \A q \in Requests \ {r} : hpc'[q] = hpc[q]
    BY <1>6, <1>s DEF WriteOrphan, Answer
  <2>2. r \in Harmed'
    BY <2>1, <1>s DEF OrphansAreCrossed, Harmed
  <2> QED BY <2>1, <2>2, <1>s DEF OrphansAreCrossed, LossNeedsCrossing
<1>7. ASSUME NEW e \in Edits, Edit(e)
      PROVE  OrphansAreCrossed' /\ Good' /\ LossNeedsCrossing'
  <2>1. /\ crossed' = Active /\ latest' = [f \in Fields |-> e]
        /\ \A q \in Requests : hpc'[q] \in {"read", "orphan"} => q \in Active
    BY <1>7, <1>s DEF Edit, Active
  <2>2. Active' \subseteq crossed'
    BY <1>7, <2>1, <1>s DEF Edit, Active
  <2>3. file'.rest /\ file'.set = latest'
    BY <1>7, <2>1, EditStores
  <2> QED
    BY <2>1, <2>2, <2>3 DEF OrphansAreCrossed, ReadingsAreCurrent, LossNeedsCrossing
<1> HIDE DEF Good
<1> QED BY <1>1, <1>2, <1>3, <1>4, <1>5, <1>6, <1>7 DEF Next, Recorder, Handler

LEMMA LInvariance == Spec => []LInv
  BY InitLInv, LossStep, PTL DEF Spec

(* However many PATCH calls, edits and deaths there are and however they   *)
(* interleave, the file is complete and up to date whenever nobody writes, *)
(* unless a PATCH that was crossed has written, or one was cut off in its  *)
(* write, after the whole file was last saved.                             *)
THEOREM NothingElseIsLost == Spec => []LossNeedsCrossing
<1>1. LInv => LossNeedsCrossing
  BY DEF LInv
<1> QED BY <1>1, LInvariance, PTL
=============================================================================
