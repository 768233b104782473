------------------------------ MODULE Uploader ------------------------------
(***************************************************************************)
(* The uploader process as a whole (services/uploader): the upload thread  *)
(* of UploadWorker and the status thread (_status_loop) share one          *)
(* ConveyorClient.  A clip counts as sent only after a call of the client  *)
(* went through lock, budget, perhaps an authentication, and the exchange; *)
(* the session belongs to the process and dies with it.                    *)
(*                                                                         *)
(* A step of the upload thread that is not a step inside the client leaves *)
(* the session alone, and the other way round; the actions where the two   *)
(* meet are the conjunction of one action of each module.                  *)
(***************************************************************************)
EXTENDS UploadWorker

CONSTANTS Tokens, Grants, NoToken, Nobody, MaxRestarts   \* see ConveyorClient

ASSUME SessionAssumption ==
    /\ NoToken \notin Tokens /\ Nobody \notin {"upload", "status"}
    /\ Grants \subseteq Nat \ {0} /\ MaxRestarts \in Nat

VARIABLES
    calls,      \* calls[c]: where thread c is inside the client
    lock, token, left, secret, using,       \* the client object
    known, credit, restarts                 \* the Conveyor

clientVars == <<calls, lock, token, left, secret, using>>
conveyorVars == <<known, credit, restarts>>
session == <<clientVars, conveyorVars>>
uvars == <<vars, session>>

Threads == {"upload", "status"}

Client == INSTANCE ConveyorClient WITH
    pc <- calls, Callers <- Threads, Reporter <- "status"

(* No process, hence no client: _token is None and nobody holds the lock.  *)
UInit ==
    /\ Init
    /\ calls = [c \in Threads |-> "idle"] /\ lock = Nobody
    /\ token = NoToken /\ left = 0 /\ secret = NoToken
    /\ using = [c \in Threads |-> NoToken]
    /\ known = {} /\ credit = [t \in Tokens |-> 0] /\ restarts = 0

-----------------------------------------------------------------------------
(* ConveyorClient.__init__ authenticates; the threads start afterwards.    *)
UStart ==
    /\ Start
    /\ \E t \in Tokens, g \in Grants :
          /\ token' = t /\ left' = g
          /\ known' = known \cup {t}
          /\ credit' = [credit EXCEPT ![t] = g]
    /\ UNCHANGED <<calls, lock, secret, using, restarts>>

(* Everything outside ConveyorUploader.upload.                             *)
OutsideUpload ==
    /\ \/ BeginPass \/ EndPass \/ \E e \in Events : Take(e)
       \/ RemoveOversized \/ MarkFailed \/ MarkFailedRaises
       \/ MarkUploaded \/ MarkUploadedRaises
    /\ UNCHANGED session

(* The package is built before the client is called; int(camera) raises.   *)
BuildFails ==
    /\ cur \in Poison
    /\ SendFails
    /\ UNCHANGED session

CallClient ==
    /\ pc = "send"
    /\ cur \notin Poison
    /\ Client!Call("upload")
    /\ UNCHANGED vars

Exchange(c) ==
    /\ \/ Client!Acquire(c) \/ Client!HasBudget(c)
       \/ Client!Authenticate(c) \/ Client!Derive(c)
    /\ UNCHANGED vars

(* Mutant: send_dev_sample returns whatever the answer is.                 *)
SampleRefusedUnnoticed ==
    /\ Client!AuthenticateFails("upload") \/ Client!Rejected("upload")
          \/ Client!ConnectionFails("upload")
    /\ pc' = "mark"
    /\ UNCHANGED <<row, file, copies, todo, cur, stopping, faults>>

SampleRefused ==
    /\ Client!AuthenticateFails("upload") \/ Client!Rejected("upload")
          \/ Client!ConnectionFails("upload")
    /\ SendFails

SampleAccepted == Client!Accepted("upload") /\ SendOk

SampleUnanswered == Client!Accepted("upload") /\ SendLosesAnswer

UploadThread ==
    \/ OutsideUpload \/ BuildFails \/ CallClient \/ Exchange("upload")
    \/ SampleRefused \/ SampleAccepted \/ SampleUnanswered

(* _status_loop: a failed report is logged, the next interval is awaited.  *)
ReportStatus ==
    /\ pc # "down"
    /\ ~stopping
    /\ Client!Call("status")
    /\ UNCHANGED vars

ReportEnds ==
    /\ \/ Client!AuthenticateFails("status") \/ Client!Rejected("status")
       \/ Client!ConnectionFails("status") \/ Client!Accepted("status")
    /\ UNCHANGED vars

StatusThread == ReportStatus \/ Exchange("status") \/ ReportEnds

(* The threads are daemons: they and the session end with the process.     *)
(* The Conveyor may remember the token, but nobody holds it any more.      *)
LoseClient ==
    /\ calls' = [c \in Threads |-> "idle"] /\ lock' = Nobody
    /\ token' = NoToken /\ left' = 0 /\ secret' = NoToken
    /\ using' = [c \in Threads |-> NoToken]
    /\ known' = {} /\ credit' = [t \in Tokens |-> 0] /\ UNCHANGED restarts

UCrash == Crash /\ LoseClient
UExit == Exit /\ LoseClient

Elsewhere ==
    \/ (Stop \/ \E e \in Events : Record(e)) /\ UNCHANGED session
    \/ Client!ConveyorRestarts /\ UNCHANGED vars

UNext ==
    \/ UStart \/ UploadThread \/ StatusThread \/ UCrash \/ UExit \/ Elsewhere

USpec == UInit /\ [][UNext]_uvars

(* Docker restarts a dead process, the threads run, every exchange has a   *)
(* time-out.  Strong fairness: the lock is free most of the time, because  *)
(* the status thread waits status_interval_s between two calls; an         *)
(* authentication, a request the Conveyor would accept and an UPDATE       *)
(* that are tried again and again succeed in the end.                      *)
UFairness ==
    /\ WF_uvars(UStart)
    /\ WF_uvars(UExit)
    /\ WF_uvars(UploadThread)
    /\ WF_uvars(StatusThread)
    /\ SF_uvars(Client!Acquire("upload") /\ UNCHANGED vars)
    /\ SF_uvars(Client!Authenticate("upload") /\ UNCHANGED vars)
    /\ SF_uvars(SampleAccepted)
    /\ SF_uvars(MarkFailed /\ UNCHANGED session)

UFairSpec == USpec /\ UFairness
=============================================================================
