----------------------- MODULE ConveyorClient_proofs -----------------------
(***************************************************************************)
(* Proofs about ConveyorClient for any number of callers, any set of token *)
(* names, any positive grants and any number of restarts.                  *)
(***************************************************************************)
EXTENDS ConveyorClient, TLAPS

(* The lock is held exactly while a caller is inside the session.          *)
LockIsHonest == \A c \in Callers : pc[c] \in Inside <=> lock = c

(* The secret in flight, if any, is the current one; between requests no   *)
(* caller refers to a token.                                               *)
SecretsAreCurrent ==
    /\ secret \in {NoToken, token}
    /\ \A c \in Callers : using[c] = IF pc[c] = "send" THEN token ELSE NoToken

(* The client never believes it has more requests left than the Conveyor   *)
(* will accept, and the request in flight is already deducted.             *)
CountIsConservative ==
    /\ \A c \in Callers : pc[c] = "derive" => left > 0
    /\ token \in known => left <= credit[token]
    /\ \A c \in Callers :
          pc[c] = "send" /\ token \in known => left + 1 <= credit[token]

IInv == TypeOK /\ LockIsHonest /\ SecretsAreCurrent /\ CountIsConservative

LEMMA InitIInv == Init => IInv
<1> SUFFICES ASSUME Init PROVE IInv
  OBVIOUS
<1> USE CallersAssumption, TokensAssumption, GrantsAssumption, RestartsAssumption
    DEF Init, Inside
<1>1. TypeOK
  BY DEF TypeOK
<1>2. LockIsHonest /\ SecretsAreCurrent
  BY DEF LockIsHonest, SecretsAreCurrent
<1>3. CountIsConservative
  BY DEF CountIsConservative
<1> QED
  BY <1>1, <1>2, <1>3 DEF IInv

LEMMA IInvStep == IInv /\ [Next]_vars => IInv'
<1> SUFFICES ASSUME IInv, [Next]_vars PROVE IInv'
  OBVIOUS
<1> USE CallersAssumption, TokensAssumption, GrantsAssumption, RestartsAssumption
    DEF IInv, Inside, client, server
<1>1. ASSUME NEW c \in Callers, Call(c) PROVE IInv'
  BY <1>1 DEF Call, TypeOK, LockIsHonest, SecretsAreCurrent, CountIsConservative
<1>2. ASSUME NEW c \in Callers, Acquire(c) PROVE IInv'
  BY <1>2 DEF Acquire, TypeOK, LockIsHonest, SecretsAreCurrent, CountIsConservative
<1>3. ASSUME NEW c \in Callers, HasBudget(c) PROVE IInv'
  BY <1>3 DEF HasBudget, TypeOK, LockIsHonest, SecretsAreCurrent, CountIsConservative
<1>4. ASSUME NEW c \in Callers, Authenticate(c) PROVE IInv'
  <2>1. PICK t \in Tokens \ InUse, g \in Grants :
          /\ token' = t
          /\ left' = g
          /\ known' = known \cup {t}
          /\ credit' = [credit EXCEPT ![t] = g]
    BY <1>4 DEF Authenticate
  <2>2. /\ pc[c] = "budget"
        /\ pc' = [pc EXCEPT ![c] = "derive"]
        /\ secret' = NoToken
        /\ UNCHANGED <<lock, using, restarts>>
    BY <1>4 DEF Authenticate
  <2>3. \A d \in Callers : d # c => pc[d] \notin Inside
    BY <2>2 DEF LockIsHonest
  <2>4. g \in Nat /\ g > 0
    BY <2>1
  <2>5. TypeOK'
    BY <2>1, <2>2, <2>4 DEF TypeOK
  <2>6. LockIsHonest'
    BY <2>2 DEF TypeOK, LockIsHonest
  <2>7. SecretsAreCurrent'
    BY <2>1, <2>2, <2>3 DEF TypeOK, SecretsAreCurrent
  <2>8. CountIsConservative'
    BY <2>1, <2>2, <2>3, <2>4 DEF TypeOK, CountIsConservative
  <2> QED BY <2>5, <2>6, <2>7, <2>8
<1>5. ASSUME NEW c \in Callers, AuthenticateFails(c) PROVE IInv'
  BY <1>5 DEF AuthenticateFails, Return, TypeOK, LockIsHonest, SecretsAreCurrent,
              CountIsConservative
<1>6. ASSUME NEW c \in Callers, Derive(c) PROVE IInv'
  <2>1. /\ pc[c] = "derive"
        /\ pc' = [pc EXCEPT ![c] = "send"]
        /\ secret' = token
        /\ using' = [using EXCEPT ![c] = token]
        /\ left' = left - 1
        /\ UNCHANGED <<lock, token, known, credit, restarts>>
    BY <1>6 DEF Derive, Derived, SecretsAreCurrent, TypeOK
  <2>2. \A d \in Callers : d # c => pc[d] \notin Inside
    BY <2>1 DEF LockIsHonest
  <2>3. left' \in Nat
    BY <2>1 DEF TypeOK, CountIsConservative
  <2>4. TypeOK'
    BY <2>1, <2>3 DEF TypeOK
  <2>5. LockIsHonest' /\ SecretsAreCurrent'
    BY <2>1, <2>2 DEF TypeOK, LockIsHonest, SecretsAreCurrent
  <2>6. CountIsConservative'
    BY <2>1, <2>2 DEF TypeOK, CountIsConservative
  <2> QED BY <2>4, <2>5, <2>6
<1>7. ASSUME NEW c \in Callers, Accepted(c) PROVE IInv'
  <2>1. /\ pc[c] = "send"
        /\ using[c] = token
        /\ token \in known
        /\ credit' = [credit EXCEPT ![token] = @ - 1]
        /\ Return(c)
        /\ UNCHANGED <<client, known, restarts>>
    BY <1>7 DEF Accepted, Accepts, SecretsAreCurrent
  <2>2. \A d \in Callers : d # c => pc[d] \notin Inside
    BY <2>1 DEF LockIsHonest
  <2>3. credit[token] \in Nat /\ left + 1 <= credit[token]
    BY <2>1 DEF TypeOK, CountIsConservative
  <2>4. TypeOK'
    BY <2>1, <2>3 DEF TypeOK, Return
  <2>5. LockIsHonest' /\ SecretsAreCurrent'
    BY <2>1, <2>2 DEF TypeOK, Return, LockIsHonest, SecretsAreCurrent
  <2>6. CountIsConservative'
    BY <2>1, <2>2, <2>3 DEF TypeOK, Return, CountIsConservative
  <2> QED BY <2>4, <2>5, <2>6
<1>8. ASSUME NEW c \in Callers, Rejected(c) \/ ConnectionFails(c) PROVE IInv'
  BY <1>8 DEF Rejected, ConnectionFails, Return, TypeOK, LockIsHonest,
              SecretsAreCurrent, CountIsConservative
<1>9. CASE ConveyorRestarts
  BY <1>9 DEF ConveyorRestarts, TypeOK, LockIsHonest, SecretsAreCurrent,
              CountIsConservative
<1>10. CASE UNCHANGED vars
  BY <1>10 DEF vars, TypeOK, LockIsHonest, SecretsAreCurrent, CountIsConservative
<1> QED
  BY <1>1, <1>2, <1>3, <1>4, <1>5, <1>6, <1>7, <1>8, <1>9, <1>10 DEF Next, Run

LEMMA Invariance == Spec => []IInv
  BY InitIInv, IInvStep, PTL DEF Spec

(* The type invariant; in particular the client's count never goes below 0. *)
THEOREM TypeCorrect == Spec => []TypeOK
<1>1. IInv => TypeOK
  BY DEF IInv
<1> QED BY <1>1, Invariance, PTL

(* No request carries a secret of a replaced token.                        *)
THEOREM CurrentSecret == Spec => []SecretIsCurrent
<1>1. IInv => SecretIsCurrent
  BY DEF IInv, SecretsAreCurrent, SecretIsCurrent
<1> QED BY <1>1, Invariance, PTL

(* No request is refused for lack of budget.                               *)
THEOREM WithinBudget == Spec => []NeverOverdrawn
<1>1. IInv => NeverOverdrawn
  BY DEF IInv, TypeOK, SecretsAreCurrent, CountIsConservative, NeverOverdrawn
<1> QED BY <1>1, Invariance, PTL
=============================================================================
