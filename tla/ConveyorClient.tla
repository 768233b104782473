--------------------------- MODULE ConveyorClient ---------------------------
(***************************************************************************)
(* shared/orwell_shared/conveyor_client.py: one authenticated session with *)
(* the Conveyor, shared by the upload thread and the status thread of the  *)
(* uploader process.  A token grants a number of requests; each request    *)
(* carries a secret derived from the token and cached until the token is   *)
(* replaced.  send_dev_sample and send_dev_status have the same body, so a *)
(* caller stands for either.  The lock covers the whole call: the budget   *)
(* check, a possible authentication, the derivation and the exchange.      *)
(*                                                                         *)
(* The Conveyor is external.  It is modelled by what the client relies on: *)
(* it accepts a request whose secret belongs to a token it issued, has not *)
(* forgotten (a restart forgets all of them) and that has requests left.   *)
(***************************************************************************)
EXTENDS Integers

CONSTANTS
    Callers,    \* the threads that share the client
    Reporter,   \* the caller that never stops calling (the status thread)
    Tokens,     \* names of tokens; a name nobody refers to may be reissued
    Grants,     \* values of num_requests the Conveyor may send
    NoToken,    \* "no secret cached": the empty string of the code
    Nobody,     \* the lock is free
    MaxRestarts \* bound on restarts of the Conveyor

ASSUME CallersAssumption == Nobody \notin Callers /\ Reporter \in Callers
ASSUME TokensAssumption == NoToken \notin Tokens
(* A grant of 0 (the default of the protobuf field) would make left go to  *)
(* -1 and the test "== 0" never hold again.                                *)
ASSUME GrantsAssumption == Grants \subseteq Nat \ {0}
ASSUME RestartsAssumption == MaxRestarts \in Nat

VARIABLES
    pc,         \* pc[c]: where caller c is
    lock,       \* the holder of _lock
    token,      \* _token["token"]
    left,       \* _token["num_requests"], the client's own count
    secret,     \* the token _secret was derived from
    using,      \* using[c]: the secret in the request c is sending
    known,      \* Conveyor: the tokens it remembers
    credit,     \* Conveyor: credit[t], requests it will still accept
    restarts

client == <<token, left, secret>>
server == <<known, credit>>
vars == <<pc, lock, client, using, server, restarts>>

Inside == {"budget", "derive", "send"}      \* holding the lock

TypeOK ==
    /\ pc \in [Callers -> {"idle", "waiting"} \cup Inside]
    /\ lock \in Callers \cup {Nobody}
    /\ token \in Tokens
    /\ left \in Nat
    /\ secret \in Tokens \cup {NoToken}
    /\ using \in [Callers -> Tokens \cup {NoToken}]
    /\ known \subseteq Tokens
    /\ credit \in [Tokens -> Nat]
    /\ restarts \in 0..MaxRestarts

(* The constructor authenticates before the object can be used.            *)
Init ==
    /\ pc = [c \in Callers |-> "idle"]
    /\ lock = Nobody
    /\ token \in Tokens
    /\ left \in Grants
    /\ secret = NoToken
    /\ using = [c \in Callers |-> NoToken]
    /\ known = {token}
    /\ credit = [t \in Tokens |-> IF t = token THEN left ELSE 0]
    /\ restarts = 0

-----------------------------------------------------------------------------
Call(c) ==
    /\ pc[c] = "idle"
    /\ pc' = [pc EXCEPT ![c] = "waiting"]
    /\ UNCHANGED <<lock, client, using, server, restarts>>

(* Mutant: the call does not wait for the lock.                            *)
AcquireAtOnce(c) ==
    /\ pc[c] = "waiting"
    /\ lock' = c
    /\ pc' = [pc EXCEPT ![c] = "budget"]
    /\ UNCHANGED <<client, using, server, restarts>>

Acquire(c) ==
    /\ pc[c] = "waiting"
    /\ lock = Nobody
    /\ lock' = c
    /\ pc' = [pc EXCEPT ![c] = "budget"]
    /\ UNCHANGED <<client, using, server, restarts>>

(* Leaving the "with" block, by return or by exception.                    *)
Return(c) ==
    /\ pc' = [pc EXCEPT ![c] = "idle"]
    /\ lock' = Nobody
    /\ using' = [using EXCEPT ![c] = NoToken]

HasBudget(c) ==
    /\ pc[c] = "budget"
    /\ left # 0
    /\ pc' = [pc EXCEPT ![c] = "derive"]
    /\ UNCHANGED <<lock, client, using, server, restarts>>

(* _get_auth: the new token replaces the old and the secret is emptied.    *)
InUse == {token, secret} \cup {using[c] : c \in Callers}

(* Mutant: the count of the old token stays.                               *)
AuthenticateKeepsCount(c) ==
    /\ pc[c] = "budget"
    /\ left = 0
    /\ \E t \in Tokens \ InUse, g \in Grants :
          /\ token' = t
          /\ known' = known \cup {t}
          /\ credit' = [credit EXCEPT ![t] = g]
    /\ secret' = NoToken
    /\ pc' = [pc EXCEPT ![c] = "derive"]
    /\ UNCHANGED <<lock, left, using, restarts>>

Authenticate(c) ==
    /\ pc[c] = "budget"
    /\ left = 0
    /\ \E t \in Tokens \ InUse, g \in Grants :
          /\ token' = t
          /\ left' = g
          /\ known' = known \cup {t}
          /\ credit' = [credit EXCEPT ![t] = g]
    /\ secret' = NoToken
    /\ pc' = [pc EXCEPT ![c] = "derive"]
    /\ UNCHANGED <<lock, using, restarts>>

(* No connection, a time-out or an answer other than OK: the exception     *)
(* leaves the exhausted token in place.                                    *)
AuthenticateFails(c) ==
    /\ pc[c] = "budget"
    /\ left = 0
    /\ Return(c)
    /\ UNCHANGED <<client, server, restarts>>

Derived == IF secret = NoToken THEN token ELSE secret

(* Mutant: the request is not counted.                                     *)
DeriveForFree(c) ==
    /\ pc[c] = "derive"
    /\ secret' = Derived
    /\ using' = [using EXCEPT ![c] = Derived]
    /\ pc' = [pc EXCEPT ![c] = "send"]
    /\ UNCHANGED <<lock, token, left, server, restarts>>

Derive(c) ==
    /\ pc[c] = "derive"
    /\ secret' = Derived
    /\ left' = left - 1
    /\ using' = [using EXCEPT ![c] = Derived]
    /\ pc' = [pc EXCEPT ![c] = "send"]
    /\ UNCHANGED <<lock, token, server, restarts>>

Accepts(t) == t \in known /\ credit[t] > 0

(* The Conveyor executes the request; its answer may arrive or be lost,    *)
(* which the client cannot tell apart from a request that never arrived.   *)
Accepted(c) ==
    /\ pc[c] = "send"
    /\ Accepts(using[c])
    /\ credit' = [credit EXCEPT ![using[c]] = @ - 1]
    /\ Return(c)
    /\ UNCHANGED <<client, known, restarts>>

(* Mutant: only requests the Conveyor accepted are counted.                *)
RejectedIsRefunded(c) ==
    /\ pc[c] = "send"
    /\ ~Accepts(using[c])
    /\ left' = left + 1
    /\ Return(c)
    /\ UNCHANGED <<token, secret, server, restarts>>

Rejected(c) ==
    /\ pc[c] = "send"
    /\ ~Accepts(using[c])
    /\ Return(c)
    /\ UNCHANGED <<client, server, restarts>>

ConnectionFails(c) ==
    /\ pc[c] = "send"
    /\ Return(c)
    /\ UNCHANGED <<client, server, restarts>>

ConveyorRestarts ==
    /\ restarts < MaxRestarts
    /\ restarts' = restarts + 1
    /\ known' = {}
    /\ UNCHANGED <<pc, lock, client, using, credit>>

Run(c) ==
    \/ Acquire(c) \/ HasBudget(c)
    \/ Authenticate(c) \/ AuthenticateFails(c) \/ Derive(c)
    \/ Accepted(c) \/ Rejected(c) \/ ConnectionFails(c)

Next == (\E c \in Callers : Call(c) \/ Run(c)) \/ ConveyorRestarts

Spec == Init /\ [][Next]_vars

(* The status thread calls for ever, a call makes progress (every exchange *)
(* has a time-out), and an authentication that is tried again and again    *)
(* succeeds in the end.  Only the status thread needs the lock again and   *)
(* again without being starved of it.                                      *)
Fairness ==
    /\ WF_vars(Call(Reporter))
    /\ SF_vars(Acquire(Reporter))
    /\ \A c \in Callers : WF_vars(Run(c))
    /\ SF_vars(\E c \in Callers : Authenticate(c))

FairSpec == Spec /\ Fairness

-----------------------------------------------------------------------------
(* A request never carries the secret of a token that has been replaced:   *)
(* the cached secret is emptied with every new token (line 68), and no     *)
(* thread authenticates between another's derivation and its send.         *)
SecretIsCurrent ==
    /\ secret \in {NoToken, token}
    /\ \A c \in Callers : pc[c] = "send" => using[c] = token

(* The client counts attempts, the Conveyor accepted requests: failed      *)
(* exchanges only make the client's count the smaller one, so a token the  *)
(* Conveyor still knows is never refused for lack of requests.             *)
NeverOverdrawn ==
    \A c \in Callers :
        pc[c] = "send" /\ using[c] \in known => credit[using[c]] > 0

(* After a restart of the Conveyor every request is refused, and the       *)
(* client does not react to a refusal; it still gets a token the Conveyor  *)
(* knows, because refused requests use up the old budget.                  *)
SessionRecovers == token \notin known ~> token \in known
=============================================================================
