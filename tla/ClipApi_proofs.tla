--------------------------- MODULE ClipApi_proofs ---------------------------
(***************************************************************************)
(* Proofs about ClipApi for any number of requests, any windows, any       *)
(* length of a second and any course of recording and retention.           *)
(***************************************************************************)
EXTENDS ClipApi, WellFoundedInduction, TLAPS

LEMMA LeastElement ==
  ASSUME NEW S \in SUBSET Nat, S # {}
  PROVE  \E m \in S : \A n \in S : m <= n
<1>1. \E m \in S : \A n \in S : <<n, m>> \notin OpToRel(<, Nat)
  BY NatLessThanWellFounded, WFMin
<1>2. \A n, m \in Nat : n < m => <<n, m>> \in OpToRel(<, Nat)
  BY DEF OpToRel
<1>3. PICK m \in S : \A n \in S : <<n, m>> \notin OpToRel(<, Nat)
  BY <1>1
<1>4. \A n \in S : ~(n < m)
  BY <1>2, <1>3, Zenon
<1> QED BY <1>4

LEMMA OutIsOutput == ASSUME TypeOK, NEW r \in Requests PROVE Out(r) \in Outputs
  BY DEF TypeOK, Out, Outputs

(* What ffmpeg still has to copy is recorded and lies in the window.       *)
PlanIsRecorded ==
    \A r \in Requests :
        /\ pc[r] = "idle" => plan[r] = {}
        /\ \A s \in plan[r] : window[r][1] <= s /\ s <= newest

(* ffmpeg went through with something left to copy only if the beginning   *)
(* of the window is gone.                                                  *)
EndedEarly ==
    \A r \in Requests :
        pc[r] \in {"send", "done"} /\ plan[r] # {} => window[r][1] <= removed

(* If nobody else can have its name, an output belongs to its request from *)
(* the moment ffmpeg truncated it.                                         *)
OutputIsOwn ==
    WindowsDiffer =>
        \A r \in Requests : pc[r] \in {"copy", "send"} => writers[Out(r)] = {r}

AInv ==
    /\ TypeOK
    /\ PlanIsRecorded
    /\ EndedEarly
    /\ OutputIsOwn
    /\ OwnClipIfWindowsDiffer

LEMMA InitAInv == Init => AInv
<1> SUFFICES ASSUME Init PROVE AInv
  OBVIOUS
<1> USE DEF Init
<1>1. TypeOK
  BY NumbersAssumption DEF TypeOK
<1>2. PlanIsRecorded /\ EndedEarly
  BY DEF PlanIsRecorded, EndedEarly
<1>3. OutputIsOwn /\ OwnClipIfWindowsDiffer
  BY DEF OutputIsOwn, OwnClipIfWindowsDiffer
<1> QED BY <1>1, <1>2, <1>3 DEF AInv

LEMMA NumbersAreNatural ==
  ASSUME TypeOK
  PROVE  /\ newest \in Nat /\ removed \in Nat /\ dropped \in Nat
         /\ \A r \in Requests : window[r][1] \in Nat /\ window[r][2] \in Nat
         /\ \A r \in Requests : plan[r] \subseteq 1..MaxSegment
  BY NumbersAssumption, WindowsAssumption DEF TypeOK

LEMMA SelectionIsTyped ==
  ASSUME TypeOK, NEW r \in Requests
  PROVE  /\ Selected(r) \subseteq 1..MaxSegment
         /\ \A s \in Selected(r) : window[r][1] <= s /\ s <= newest
  BY NumbersAssumption, NumbersAreNatural DEF TypeOK, Selected, Rows

(* When the next input is missing, it is because retention has got there.  *)
LEMMA MissingWasEvicted ==
  ASSUME TypeOK, PlanIsRecorded, NEW r \in Requests, plan[r] # {}, ~NextIsThere(r)
  PROVE  window[r][1] <= removed
<1>1. plan[r] \in SUBSET Nat
  BY NumbersAreNatural, NumbersAssumption
<1>2. PICK m \in plan[r] : \A s \in plan[r] : m <= s
  BY <1>1, LeastElement
<1>3. window[r][1] <= m /\ m <= newest
  BY <1>2 DEF PlanIsRecorded
<1>4. m \notin Files
  BY <1>2 DEF NextIsThere, IsNext
<1>5. m <= removed
  BY <1>1, <1>3, <1>4, NumbersAreNatural DEF Files
<1> QED BY <1>1, <1>3, <1>5, NumbersAreNatural

LEMMA TypeStep == TypeOK /\ [Next]_vars => TypeOK'
<1> SUFFICES ASSUME TypeOK, [Next]_vars PROVE TypeOK'
  OBVIOUS
<1> USE NumbersAssumption DEF TypeOK, store, End
<1>1. CASE AddRow
  BY <1>1 DEF AddRow
<1>2. CASE RemoveFile
  BY <1>2 DEF RemoveFile
<1>3. CASE DropRow
  BY <1>3 DEF DropRow
<1>4. ASSUME NEW r \in Requests, Query(r) PROVE TypeOK'
  BY <1>4, SelectionIsTyped DEF Query
<1>5. ASSUME NEW r \in Requests, NotFound(r) \/ FfmpegFails(r) \/ Send(r) PROVE TypeOK'
  BY <1>5 DEF NotFound, FfmpegFails, Send
<1>6. ASSUME NEW r \in Requests, StartFfmpeg(r) \/ CopySegment(r) PROVE TypeOK'
  BY <1>6, OutIsOutput DEF StartFfmpeg, CopySegment
<1>7. ASSUME NEW r \in Requests, FinishFfmpeg(r) PROVE TypeOK'
  BY <1>7, OutIsOutput DEF FinishFfmpeg
<1>8. CASE UNCHANGED vars
  BY <1>8 DEF vars
<1> QED BY <1>1, <1>2, <1>3, <1>4, <1>5, <1>6, <1>7, <1>8 DEF Next

LEMMA ShortfallStep ==
  TypeOK /\ PlanIsRecorded /\ EndedEarly /\ [Next]_vars => PlanIsRecorded' /\ EndedEarly'
<1> SUFFICES ASSUME TypeOK, PlanIsRecorded, EndedEarly, [Next]_vars
             PROVE  PlanIsRecorded' /\ EndedEarly'
  OBVIOUS
<1> USE NumbersAreNatural, NumbersAssumption
    DEF TypeOK, PlanIsRecorded, EndedEarly, store, End
<1>1. CASE AddRow
  BY <1>1 DEF AddRow
<1>2. CASE RemoveFile
  BY <1>2 DEF RemoveFile
<1>3. CASE DropRow
  BY <1>3 DEF DropRow
<1>4. ASSUME NEW r \in Requests, Query(r) PROVE PlanIsRecorded' /\ EndedEarly'
  BY <1>4, SelectionIsTyped DEF Query
<1>5. ASSUME NEW r \in Requests, NotFound(r) PROVE PlanIsRecorded' /\ EndedEarly'
  BY <1>5 DEF NotFound
<1>6. ASSUME NEW r \in Requests, StartFfmpeg(r) \/ CopySegment(r)
      PROVE  PlanIsRecorded' /\ EndedEarly'
  BY <1>6 DEF StartFfmpeg, CopySegment
<1>7. ASSUME NEW r \in Requests, FfmpegFails(r) \/ FinishFfmpeg(r)
      PROVE  PlanIsRecorded' /\ EndedEarly'
  BY <1>7, MissingWasEvicted DEF FfmpegFails, FinishFfmpeg
<1>8. ASSUME NEW r \in Requests, Send(r) PROVE PlanIsRecorded' /\ EndedEarly'
  BY <1>8 DEF Send
<1>9. CASE UNCHANGED vars
  BY <1>9 DEF vars
<1> QED BY <1>1, <1>2, <1>3, <1>4, <1>5, <1>6, <1>7, <1>8, <1>9 DEF Next

LEMMA NamesDiffer ==
  ASSUME TypeOK, WindowsDiffer, NEW r \in Requests, NEW q \in Requests, r # q
  PROVE  Out(r) # Out(q)
<1>1. \/ window[r][1] \div Second # window[q][1] \div Second
      \/ window[r][2] \div Second # window[q][2] \div Second
  BY DEF WindowsDiffer
<1> QED BY <1>1 DEF Out

LEMMA OwnStep ==
  AInv /\ [Next]_vars => OutputIsOwn' /\ OwnClipIfWindowsDiffer'
<1> SUFFICES ASSUME AInv, [Next]_vars, WindowsDiffer'
             PROVE  \A q \in Requests : /\ pc'[q] \in {"copy", "send"} =>
                                             writers'[Out(q)'] = {q}
                                        /\ answer'[q] # "torn"
  BY DEF OutputIsOwn, OwnClipIfWindowsDiffer
<1>w. UNCHANGED window
  BY DEF Next, vars, store, AddRow, RemoveFile, DropRow, Query, NotFound, StartFfmpeg,
         FfmpegFails, CopySegment, FinishFfmpeg, Send
<1>o. WindowsDiffer /\ \A q \in Requests : Out(q)' = Out(q)
  BY <1>w DEF WindowsDiffer, Out
<1>t. /\ TypeOK
      /\ \A q \in Requests : pc[q] \in {"copy", "send"} => writers[Out(q)] = {q}
      /\ \A q \in Requests : answer[q] # "torn"
  BY <1>o DEF AInv, OutputIsOwn, OwnClipIfWindowsDiffer
<1> SUFFICES ASSUME NEW q \in Requests
             PROVE  /\ pc'[q] \in {"copy", "send"} => writers'[Out(q)] = {q}
                    /\ answer'[q] # "torn"
  BY <1>o
<1> USE <1>o, <1>t, OutIsOutput DEF TypeOK, End
<1>1. CASE AddRow \/ RemoveFile \/ DropRow \/ UNCHANGED vars
  BY <1>1 DEF AddRow, RemoveFile, DropRow, vars
<1>2. ASSUME NEW r \in Requests, Query(r) \/ NotFound(r) \/ FfmpegFails(r)
      PROVE  /\ pc'[q] \in {"copy", "send"} => writers'[Out(q)] = {q}
             /\ answer'[q] # "torn"
  BY <1>2 DEF Query, NotFound, FfmpegFails
<1>3. ASSUME NEW r \in Requests, StartFfmpeg(r) \/ CopySegment(r) \/ FinishFfmpeg(r)
      PROVE  /\ pc'[q] \in {"copy", "send"} => writers'[Out(q)] = {q}
             /\ answer'[q] # "torn"
  <2>1. CASE q = r
    BY <1>3, <2>1 DEF StartFfmpeg, CopySegment, FinishFfmpeg
  <2>2. CASE q # r
    BY <1>3, <2>2, NamesDiffer DEF StartFfmpeg, CopySegment, FinishFfmpeg
  <2> QED BY <2>1, <2>2
<1>4. ASSUME NEW r \in Requests, Send(r)
      PROVE  /\ pc'[q] \in {"copy", "send"} => writers'[Out(q)] = {q}
             /\ answer'[q] # "torn"
  BY <1>4 DEF Send
<1> QED BY <1>1, <1>2, <1>3, <1>4 DEF Next

LEMMA Invariance == Spec => []AInv
<1>1. AInv /\ [Next]_vars => AInv'
  BY TypeStep, ShortfallStep, OwnStep DEF AInv
<1> QED BY <1>1, InitAInv, PTL DEF Spec

(* The type invariant: retention never gets ahead of recording, nor the    *)
(* table ahead of the disk, and ffmpeg is only given recorded segments.    *)
THEOREM TypeCorrect == Spec => []TypeOK
<1>1. AInv => TypeOK
  BY DEF AInv
<1> QED BY <1>1, Invariance, PTL

(* However many requests run at the same time, each is sent the clip its   *)
(* own ffmpeg made, unless two of them ask for the same seconds.           *)
THEOREM OwnClip == Spec => []OwnClipIfWindowsDiffer
<1>1. AInv => OwnClipIfWindowsDiffer
  BY DEF AInv
<1> QED BY <1>1, Invariance, PTL

(* A clip that could not be made, or ends early, is due to retention.      *)
THEOREM ShortfallIsEviction == Spec => []ShortfallNeedsEviction
<1>1. AInv => ShortfallNeedsEviction
  BY DEF AInv, EndedEarly, ShortfallNeedsEviction
<1> QED BY <1>1, Invariance, PTL
=============================================================================
