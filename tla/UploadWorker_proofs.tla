------------------------ MODULE UploadWorker_proofs ------------------------
(***************************************************************************)
(* Proofs about UploadWorker for every set of events, every set of poison  *)
(* events and every bound on the faults, and about Uploader, where the     *)
(* worker runs with the Conveyor client: whatever the session does, the    *)
(* worker sees no more than UploadWorker allows.                           *)
(***************************************************************************)
EXTENDS Uploader, TLAPS

(* While the thread is busy it works on one pending event whose file still *)
(* is what the triage saw, and that event is no longer in the snapshot.    *)
WorkInHand ==
    /\ pc \in Busy => cur \in Events /\ row[cur] = "pending" /\ cur \notin todo
    /\ pc = "send" => file[cur] = "clip"
    /\ pc = "mark" => file[cur] = "clip" /\ copies[cur] > 0
    /\ pc \in {"purge", "fail"} => file[cur] # "clip"

(* The snapshot is stale only in the sense that rows may be missing from   *)
(* it: whatever it still holds is pending.                                 *)
SnapshotIsPending == \A e \in todo : row[e] = "pending"

OnlySendableClipsWereSent ==
    \A e \in Events : copies[e] > 0 => file[e] = "clip" /\ row[e] # "absent"

(* The one copy that needs no fault: the one being, or already, recorded.  *)
Credit(e) == IF row[e] = "uploaded" \/ (pc = "mark" /\ cur = e) THEN 1 ELSE 0

(* A stop is counted when it is requested; what it costs comes at Exit.    *)
Debt == IF stopping THEN 1 ELSE 0

CopiesArePaidFor == \A e \in Events : copies[e] + Debt <= faults + Credit(e)

IInv ==
    /\ TypeOK
    /\ WorkInHand
    /\ SnapshotIsPending
    /\ OnlySendableClipsWereSent
    /\ CopiesArePaidFor
    /\ UploadedWasDelivered
    /\ FailedWasUndeliverable

LEMMA InitIInv == Init => IInv
<1> SUFFICES ASSUME Init PROVE IInv
  OBVIOUS
<1> USE EventsAssumption, FaultsAssumption DEF Init, Status, Clip, Busy, NoEvent
<1>1. TypeOK
  <2>1. stopping \in BOOLEAN
    BY Zenon
  <2> QED BY <2>1 DEF TypeOK
<1>2. WorkInHand /\ SnapshotIsPending
  BY DEF WorkInHand, SnapshotIsPending
<1>3. OnlySendableClipsWereSent /\ CopiesArePaidFor
  BY DEF OnlySendableClipsWereSent, CopiesArePaidFor, Credit, Debt
<1>4. UploadedWasDelivered /\ FailedWasUndeliverable
  BY DEF UploadedWasDelivered, FailedWasUndeliverable
<1> QED
  BY <1>1, <1>2, <1>3, <1>4 DEF IInv

LEMMA TypeStep == TypeOK /\ WorkInHand /\ [Next]_vars => TypeOK'
<1> SUFFICES ASSUME TypeOK, WorkInHand, [Next]_vars PROVE TypeOK'
  OBVIOUS
<1> USE EventsAssumption, FaultsAssumption
    DEF TypeOK, Status, Clip, Busy, NoEvent
<1>1. ASSUME NEW e \in Events, Record(e) PROVE TypeOK'
  BY <1>1 DEF Record
<1>2. CASE BeginPass \/ EndPass \/ Start
  BY <1>2 DEF BeginPass, EndPass, Start, Pending
<1>3. ASSUME NEW e \in Events, Take(e) PROVE TypeOK'
  BY <1>3 DEF Take, Triage
<1>4. CASE RemoveOversized
  BY <1>4 DEF RemoveOversized
<1>5. CASE MarkFailed \/ MarkFailedRaises
  BY <1>5 DEF MarkFailed, MarkFailedRaises
<1>6. CASE SendOk
  <2>1. cur \in Events /\ copies[cur] + 1 \in Nat
    BY <1>6 DEF SendOk, WorkInHand
  <2> QED BY <1>6, <2>1 DEF SendOk
<1>7. CASE SendLosesAnswer
  <2>1. cur \in Events /\ copies[cur] + 1 \in Nat
    BY <1>7 DEF SendLosesAnswer, WorkInHand
  <2> QED BY <1>7, <2>1 DEF SendLosesAnswer
<1>8. CASE SendFails
  BY <1>8 DEF SendFails
<1>9. CASE MarkUploaded
  BY <1>9 DEF MarkUploaded
<1>10. CASE MarkUploadedRaises
  BY <1>10 DEF MarkUploadedRaises
<1>11. CASE Crash
  <2>1. stopping' \in BOOLEAN
    BY <1>11, Zenon DEF Crash, Die
  <2> QED BY <1>11, <2>1 DEF Crash, Die
<1>12. CASE Exit
  <2>1. stopping' \in BOOLEAN
    BY <1>12, Zenon DEF Exit, Die
  <2> QED BY <1>12, <2>1 DEF Exit, Die
<1>13. CASE Stop
  BY <1>13 DEF Stop
<1>14. CASE UNCHANGED vars
  BY <1>14 DEF vars
<1> QED
  BY <1>1, <1>2, <1>3, <1>4, <1>5, <1>6, <1>7, <1>8, <1>9, <1>10, <1>11,
     <1>12, <1>13, <1>14
  DEF Next, Worker

LEMMA IInvStep == IInv /\ [Next]_vars => IInv'
<1> SUFFICES ASSUME IInv, [Next]_vars PROVE IInv'
  OBVIOUS
<1>t. TypeOK'
  BY TypeStep DEF IInv
<1> USE <1>t, EventsAssumption, FaultsAssumption
    DEF IInv, TypeOK, WorkInHand, SnapshotIsPending, OnlySendableClipsWereSent,
        CopiesArePaidFor, Credit, Debt, UploadedWasDelivered, FailedWasUndeliverable,
        Status, Clip, Busy, NoEvent
<1>1. ASSUME NEW e \in Events, Record(e) PROVE IInv'
  BY <1>1 DEF Record
<1>2. CASE BeginPass
  BY <1>2 DEF BeginPass, Pending
<1>3. CASE EndPass \/ Start
  BY <1>3 DEF EndPass, Start
<1>4. ASSUME NEW e \in Events, Take(e) PROVE IInv'
  BY <1>4 DEF Take, Triage
<1>5. CASE RemoveOversized
  BY <1>5 DEF RemoveOversized
<1>6. CASE MarkFailed
  BY <1>6 DEF MarkFailed
<1>7. CASE MarkFailedRaises
  BY <1>7 DEF MarkFailedRaises
<1>8. CASE SendOk
  BY <1>8 DEF SendOk
<1>9. CASE SendLosesAnswer
  BY <1>9 DEF SendLosesAnswer
<1>10. CASE SendFails
  BY <1>10 DEF SendFails
<1>11. CASE MarkUploaded
  BY <1>11 DEF MarkUploaded
<1>12. CASE MarkUploadedRaises
  BY <1>12 DEF MarkUploadedRaises
<1>13. CASE Crash
  BY <1>13 DEF Crash, Die
<1>14. CASE Exit
  <2>1. TypeOK' /\ pc' = "down" /\ cur' = NoEvent /\ todo' = {}
    BY <1>14 DEF Exit, Die
  <2>2. UNCHANGED <<row, file, copies, faults>>
    BY <1>14 DEF Exit, Die
  <2>3. Debt = 1 /\ Debt' = 0
    BY <1>14, Zenon DEF Exit, Die, Debt
  <2>4. CopiesArePaidFor'
    <3> SUFFICES ASSUME NEW e \in Events
                 PROVE  copies[e] + Debt' <= faults + Credit(e)'
      BY <2>2
    <3>1. copies[e] + 1 <= faults + Credit(e) /\ Credit(e) \in {0, 1}
      BY <2>3
    <3> QED BY <2>1, <2>2, <2>3, <3>1
  <2> QED BY <2>1, <2>2, <2>4
<1>15. CASE Stop
  BY <1>15 DEF Stop
<1>16. CASE UNCHANGED vars
  BY <1>16 DEF vars
<1> QED
  BY <1>1, <1>2, <1>3, <1>4, <1>5, <1>6, <1>7, <1>8, <1>9, <1>10, <1>11,
     <1>12, <1>13, <1>14, <1>15, <1>16
  DEF Next, Worker

LEMMA Invariance == Spec => []IInv
  BY InitIInv, IInvStep, PTL DEF Spec

(* The type invariant holds for every set of events and every bound.       *)
THEOREM TypeCorrect == Spec => []TypeOK
<1>1. IInv => TypeOK
  BY DEF IInv
<1> QED BY <1>1, Invariance, PTL

(* A row marked uploaded stands for a clip the Conveyor holds, and the     *)
(* worker gives up only on clips that could not be sent and never were.    *)
THEOREM OutcomesAreRight == Spec => []OutcomesAreTrue
<1>1. IInv => OutcomesAreTrue
  BY DEF IInv, OutcomesAreTrue
<1> QED BY <1>1, Invariance, PTL

(* The Conveyor sees at most one copy of an event more than there were     *)
(* faults.                                                                 *)
THEOREM DuplicatesAreBounded == Spec => []DuplicatesNeedFaults
<1>1. IInv => DuplicatesNeedFaults
  <2> SUFFICES ASSUME IInv, NEW e \in Events PROVE copies[e] <= 1 + faults
    BY DEF DuplicatesNeedFaults
  <2>1. /\ copies[e] + Debt <= faults + Credit(e)
        /\ copies[e] \in Nat
        /\ faults \in Nat
    BY FaultsAssumption DEF IInv, TypeOK, CopiesArePaidFor
  <2>2. Credit(e) \in {0, 1} /\ Debt \in {0, 1}
    BY DEF Credit, Debt
  <2> QED BY <2>1, <2>2
<1> QED BY <1>1, Invariance, PTL

(* Every step of the worker is a step of the delivery promise, or leaves   *)
(* it alone: rows settle once and for all, and agree with the Conveyor.    *)
THEOREM Refinement == Spec => Implements
<1> DEFINE Received == {e \in Events : copies[e] > 0}
<1>1. Init => Delivery!Init
  BY DEF Init, Delivery!Init
<1>2. IInv /\ [Next]_vars => [Delivery!Next]_(Delivery!vars)
  <2> SUFFICES ASSUME IInv, [Next]_vars
               PROVE  [Delivery!Next]_(Delivery!vars)
    OBVIOUS
  <2> USE DEF Delivery!vars
  <2>1. ASSUME NEW e \in Events, Record(e) PROVE Delivery!Next
    <3>1. Delivery!Record(e)
      BY <2>1 DEF Record, Delivery!Record
    <3> QED BY <3>1 DEF Delivery!Next
  <2>2. CASE SendOk \/ SendLosesAnswer
    <3>1. cur \in Events /\ row[cur] = "pending" /\ copies \in [Events -> Nat]
      BY <2>2 DEF SendOk, SendLosesAnswer, IInv, WorkInHand, TypeOK, Busy
    <3>2. copies' = [copies EXCEPT ![cur] = @ + 1] /\ UNCHANGED row
      BY <2>2 DEF SendOk, SendLosesAnswer
    <3>3. Received' = Received \cup {cur}
      BY <3>1, <3>2
    <3>4. PICK e \in Events : e = cur
      BY <3>1
    <3>5. Delivery!Deliver(e)
      BY <3>1, <3>2, <3>3, <3>4 DEF Delivery!Deliver
    <3> QED BY <3>5 DEF Delivery!Next
  <2>3. CASE MarkFailed
    <3>1. cur \in Events /\ row[cur] = "pending" /\ cur \notin Received
      BY <2>3 DEF MarkFailed, IInv, WorkInHand, Busy, OnlySendableClipsWereSent
    <3>2. PICK e \in Events : e = cur
      BY <3>1
    <3>3. Delivery!GiveUp(e)
      BY <2>3, <3>1, <3>2 DEF MarkFailed, Delivery!GiveUp
    <3> QED BY <3>3 DEF Delivery!Next
  <2>4. CASE MarkUploaded
    <3>1. cur \in Events /\ row[cur] = "pending" /\ cur \in Received
      BY <2>4 DEF MarkUploaded, IInv, WorkInHand, Busy
    <3>2. PICK e \in Events : e = cur
      BY <3>1
    <3>3. Delivery!Acknowledge(e)
      BY <2>4, <3>1, <3>2 DEF MarkUploaded, Delivery!Acknowledge
    <3> QED BY <3>3 DEF Delivery!Next
  <2>5. ASSUME UNCHANGED <<row, copies>> PROVE UNCHANGED Delivery!vars
    BY <2>5
  <2>6. CASE BeginPass \/ EndPass \/ Start \/ RemoveOversized \/ MarkFailedRaises
    BY <2>5, <2>6
    DEF BeginPass, EndPass, Start, RemoveOversized, MarkFailedRaises
  <2>7. CASE SendFails \/ MarkUploadedRaises \/ Crash \/ Exit \/ Stop
    BY <2>5, <2>7 DEF SendFails, MarkUploadedRaises, Crash, Exit, Stop, Die
  <2>8. ASSUME NEW e \in Events, Take(e) PROVE UNCHANGED Delivery!vars
    BY <2>5, <2>8 DEF Take
  <2>9. CASE UNCHANGED vars
    BY <2>5, <2>9 DEF vars
  <2> QED
    BY <2>1, <2>2, <2>3, <2>4, <2>6, <2>7, <2>8, <2>9 DEF Next, Worker
<1> QED
  BY <1>1, <1>2, Invariance, PTL DEF Spec, Implements, Delivery!Spec

(* The uploader process implements UploadWorker: an exchange inside the    *)
(* client is a stutter of the worker, its outcome one of SendOk,           *)
(* SendLosesAnswer and SendFails (upload_worker.py:86-102).                *)
THEOREM Composition == USpec => Spec
<1>1. UInit => Init
  BY DEF UInit
<1>2. [UNext]_uvars => [Next]_vars
  <2> SUFFICES ASSUME [UNext]_uvars PROVE Next \/ UNCHANGED vars
    OBVIOUS
  <2>1. CASE UStart
    BY <2>1 DEF UStart, Next
  <2>2. CASE UploadThread
    <3>1. CASE OutsideUpload
      BY <3>1 DEF OutsideUpload, Next, Worker
    <3>2. CASE BuildFails \/ SampleRefused
      BY <3>2 DEF BuildFails, SampleRefused, Next, Worker
    <3>3. CASE SampleAccepted \/ SampleUnanswered
      BY <3>3 DEF SampleAccepted, SampleUnanswered, Next, Worker
    <3>4. CASE CallClient \/ Exchange("upload")
      BY <3>4 DEF CallClient, Exchange
    <3> QED BY <2>2, <3>1, <3>2, <3>3, <3>4 DEF UploadThread
  <2>3. CASE StatusThread
    BY <2>3 DEF StatusThread, ReportStatus, Exchange, ReportEnds
  <2>4. CASE UCrash \/ UExit
    BY <2>4 DEF UCrash, UExit, Next
  <2>5. CASE Elsewhere
    BY <2>5 DEF Elsewhere, Next
  <2>6. CASE UNCHANGED uvars
    BY <2>6 DEF uvars
  <2> QED BY <2>1, <2>2, <2>3, <2>4, <2>5, <2>6 DEF UNext
<1> QED
  BY <1>1, <1>2, PTL DEF USpec, Spec

(* Hence the whole uploader keeps the promise of EventDelivery.            *)
COROLLARY UploaderKeepsPromise == USpec => Implements
  BY Composition, Refinement

-----------------------------------------------------------------------------
(* The session inside the uploader.  ConveyorClient has a client that      *)
(* never dies; here it is made by UStart and lost with the process, in the *)
(* middle of any call.  Its invariant holds while there is a process, and  *)
(* between two processes nothing is left of it.                            *)
ClientProofs == INSTANCE ConveyorClient_proofs WITH
    pc <- calls, Callers <- Threads, Reporter <- "status"

NoClient ==
    /\ calls = [c \in Threads |-> "idle"] /\ lock = Nobody /\ secret = NoToken
    /\ using = [c \in Threads |-> NoToken]
    /\ known = {} /\ credit = [t \in Tokens |-> 0]
    /\ restarts \in 0..MaxRestarts

SessionInv == IF pc = "down" THEN NoClient ELSE ClientProofs!IInv

LEMMA SessionConstants ==
  /\ Nobody \notin Threads /\ "status" \in Threads /\ "upload" \in Threads
  /\ NoToken \notin Tokens /\ Grants \subseteq Nat \ {0} /\ MaxRestarts \in Nat
  BY SessionAssumption DEF Threads

(* What ConveyorClient_proofs shows of a step of the client.               *)
LEMMA ClientStep ==
  ASSUME ClientProofs!IInv,
         \/ \E c \in Threads :
               \/ Client!Call(c) \/ Client!Acquire(c) \/ Client!HasBudget(c)
               \/ Client!Authenticate(c) \/ Client!AuthenticateFails(c)
               \/ Client!Derive(c) \/ Client!Accepted(c) \/ Client!Rejected(c)
               \/ Client!ConnectionFails(c)
         \/ Client!ConveyorRestarts
         \/ UNCHANGED session
  PROVE  ClientProofs!IInv'
<1>1. ClientProofs!IInv /\ [ClientProofs!Next]_(ClientProofs!vars) => ClientProofs!IInv'
  BY SessionConstants, ClientProofs!IInvStep
<1>2. ASSUME NEW c \in Threads,
             \/ Client!Call(c) \/ Client!Acquire(c) \/ Client!HasBudget(c)
             \/ Client!Derive(c)
      PROVE  ClientProofs!Next
  BY <1>2 DEF Client!Call, Client!Acquire, Client!HasBudget, Client!Derive,
              Client!Derived, Client!client, Client!server,
              ClientProofs!Call, ClientProofs!Acquire, ClientProofs!HasBudget,
              ClientProofs!Derive, ClientProofs!Derived,
              ClientProofs!client, ClientProofs!server,
              ClientProofs!Next, ClientProofs!Run
<1>3. ASSUME NEW c \in Threads, Client!Authenticate(c) PROVE ClientProofs!Next
  <2>1. ClientProofs!Authenticate(c)
    BY <1>3 DEF Client!Authenticate, Client!InUse,
                ClientProofs!Authenticate, ClientProofs!InUse
  <2> QED BY <2>1 DEF ClientProofs!Next, ClientProofs!Run
<1>4. ASSUME NEW c \in Threads,
             \/ Client!AuthenticateFails(c) \/ Client!Accepted(c)
             \/ Client!Rejected(c) \/ Client!ConnectionFails(c)
      PROVE  ClientProofs!Next
  BY <1>4 DEF Client!AuthenticateFails, Client!Accepted, Client!Rejected,
              Client!ConnectionFails, Client!Accepts, Client!Return,
              Client!client, Client!server,
              ClientProofs!AuthenticateFails, ClientProofs!Accepted,
              ClientProofs!Rejected, ClientProofs!ConnectionFails,
              ClientProofs!Accepts, ClientProofs!Return,
              ClientProofs!client, ClientProofs!server,
              ClientProofs!Next, ClientProofs!Run
<1>5. CASE Client!ConveyorRestarts
  BY <1>1, <1>5 DEF Client!ConveyorRestarts, Client!client,
                    ClientProofs!ConveyorRestarts, ClientProofs!client,
                    ClientProofs!Next
<1>6. CASE UNCHANGED session
  BY <1>1, <1>6 DEF session, clientVars, conveyorVars, ClientProofs!vars,
                    ClientProofs!client, ClientProofs!server
<1> QED BY <1>1, <1>2, <1>3, <1>4, <1>5, <1>6

(* The constructor authenticates: a new process has a client with one      *)
(* token that the Conveyor knows.                                          *)
LEMMA NewClient ==
  ASSUME NoClient, UStart
  PROVE  ClientProofs!IInv'
<1>1. PICK t \in Tokens, g \in Grants :
         /\ token' = t /\ left' = g
         /\ known' = known \cup {t}
         /\ credit' = [credit EXCEPT ![t] = g]
  BY DEF UStart
<1>2. UNCHANGED <<calls, lock, secret, using, restarts>>
  BY DEF UStart
<1>3. g \in Nat /\ g > 0
  BY SessionConstants
<1> USE SessionConstants DEF NoClient, ClientProofs!Inside
<1>4. ClientProofs!TypeOK'
  BY <1>1, <1>2, <1>3 DEF ClientProofs!TypeOK
<1>5. ClientProofs!LockIsHonest' /\ ClientProofs!SecretsAreCurrent'
  BY <1>2 DEF ClientProofs!LockIsHonest, ClientProofs!SecretsAreCurrent
<1>6. ClientProofs!CountIsConservative'
  BY <1>1, <1>2, <1>3 DEF ClientProofs!CountIsConservative
<1> QED BY <1>4, <1>5, <1>6 DEF ClientProofs!IInv

LEMMA InitSessionInv == UInit => SessionInv
  BY SessionConstants DEF UInit, Init, SessionInv, NoClient

LEMMA SessionStep ==
  ASSUME TypeOK, SessionInv, [UNext]_uvars
  PROVE  SessionInv'
<1> DEFINE Inside == \E c \in Threads :
               \/ Client!Acquire(c) \/ Client!HasBudget(c)
               \/ Client!Authenticate(c) \/ Client!AuthenticateFails(c)
               \/ Client!Derive(c) \/ Client!Accepted(c) \/ Client!Rejected(c)
               \/ Client!ConnectionFails(c)
<1>i. Inside => pc # "down"
  BY SessionConstants
  DEF SessionInv, NoClient, Client!Acquire, Client!HasBudget, Client!Authenticate,
      Client!AuthenticateFails, Client!Derive, Client!Accepted, Client!Rejected,
      Client!ConnectionFails
<1>u. ASSUME pc # "down", pc' # "down",
             \/ Inside \/ (\E c \in Threads : Client!Call(c))
             \/ Client!ConveyorRestarts \/ UNCHANGED session
      PROVE  SessionInv'
  BY <1>u, ClientStep DEF SessionInv
<1>1. CASE UStart
  <2>1. pc = "down" /\ pc' = "idle"
    BY <1>1 DEF UStart, Start
  <2> QED BY <1>1, <2>1, NewClient DEF SessionInv
<1>2. CASE OutsideUpload \/ BuildFails
  <2>1. pc # "down" /\ UNCHANGED session
    BY <1>2 DEF OutsideUpload, BuildFails, BeginPass, EndPass, Take, RemoveOversized,
                MarkFailed, MarkFailedRaises, MarkUploaded, MarkUploadedRaises,
                SendFails
  <2>2. pc' # "down"
    BY <1>2 DEF OutsideUpload, BuildFails, BeginPass, EndPass, Take, Triage,
                RemoveOversized, MarkFailed, MarkFailedRaises, MarkUploaded,
                MarkUploadedRaises, SendFails, TypeOK, Clip
  <2> QED BY <2>1, <2>2, <1>u
<1>3. CASE CallClient \/ ReportStatus
  <2>1. pc # "down" /\ pc' = pc /\ \E c \in Threads : Client!Call(c)
    BY <1>3, SessionConstants DEF CallClient, ReportStatus, vars
  <2> QED BY <2>1, <1>u
<1>4. CASE Exchange("upload") \/ Exchange("status") \/ ReportEnds
  <2>1. Inside /\ pc' = pc
    BY <1>4, SessionConstants DEF Exchange, ReportEnds, vars
  <2> QED BY <2>1, <1>i, <1>u
<1>5. CASE SampleRefused \/ SampleAccepted \/ SampleUnanswered
  <2>1. Inside
    BY <1>5, SessionConstants DEF SampleRefused, SampleAccepted, SampleUnanswered
  <2>2. pc' # "down"
    BY <1>5 DEF SampleRefused, SampleAccepted, SampleUnanswered, SendOk,
                SendLosesAnswer, SendFails
  <2> QED BY <2>1, <2>2, <1>i, <1>u
<1>6. CASE UCrash \/ UExit
  <2>1. pc' = "down" /\ LoseClient
    BY <1>6 DEF UCrash, UExit, Crash, Exit, Die
  <2>2. restarts \in 0..MaxRestarts
    BY DEF SessionInv, NoClient, ClientProofs!IInv, ClientProofs!TypeOK
  <2> QED BY <2>1, <2>2 DEF LoseClient, SessionInv, NoClient
<1>7. CASE Elsewhere
  <2>1. pc' = pc /\ (UNCHANGED session \/ Client!ConveyorRestarts)
    BY <1>7 DEF Elsewhere, Stop, Record, vars
  <2>2. CASE pc = "down"
    <3>1. NoClient /\ restarts' \in 0..MaxRestarts /\ known' = {}
          /\ UNCHANGED <<calls, lock, secret, using, credit>>
      BY <2>1, <2>2, SessionConstants
      DEF SessionInv, NoClient, session, clientVars, conveyorVars,
          Client!ConveyorRestarts, Client!client
    <3> QED BY <2>1, <2>2, <3>1 DEF SessionInv, NoClient
  <2> QED BY <2>1, <2>2, <1>u
<1>8. CASE UNCHANGED uvars
  <2>1. pc' = pc /\ UNCHANGED session
    BY <1>8 DEF uvars, vars
  <2>2. CASE pc = "down"
    BY <2>1, <2>2 DEF SessionInv, NoClient, session, clientVars, conveyorVars
  <2> QED BY <2>1, <2>2, <1>u
<1> HIDE DEF Inside
<1> QED
  BY <1>1, <1>2, <1>3, <1>4, <1>5, <1>6, <1>7, <1>8
  DEF UNext, UploadThread, StatusThread

(* Whenever the process dies and however often the Conveyor forgets its    *)
(* tokens: no request carries the secret of a token that was replaced, and *)
(* none is refused for lack of requests (conveyor_client.py:68-104).       *)
THEOREM SessionIsSafe ==
  USpec => [](Client!SecretIsCurrent /\ Client!NeverOverdrawn)
<1>1. USpec => []TypeOK
  BY Composition, TypeCorrect, PTL
<1>2. SessionInv => Client!SecretIsCurrent /\ Client!NeverOverdrawn
  <2>1. CASE pc = "down"
    BY <2>1 DEF SessionInv, NoClient, Client!SecretIsCurrent, Client!NeverOverdrawn
  <2>2. ASSUME pc # "down", SessionInv
        PROVE  Client!SecretIsCurrent /\ Client!NeverOverdrawn
    BY <2>2 DEF SessionInv, ClientProofs!IInv, ClientProofs!TypeOK,
                ClientProofs!SecretsAreCurrent, ClientProofs!CountIsConservative,
                Client!SecretIsCurrent, Client!NeverOverdrawn
  <2> QED BY <2>1, <2>2
<1>3. TypeOK /\ SessionInv /\ [UNext]_uvars => SessionInv'
  BY SessionStep
<1> QED BY <1>1, <1>2, <1>3, InitSessionInv, PTL DEF USpec
=============================================================================
