-------------------------- MODULE AuthStoreProofs --------------------------
(***************************************************************************)
(* Proofs about AuthStore, for any numbers of replicas, calls and tokens:  *)
(* the inductive invariant IInv, from it the safety properties, and, when  *)
(* there is one replica only, that a logout invalidates its token.         *)
(***************************************************************************)
EXTENDS AuthStore, TLAPS

USE NoneOK

-----------------------------------------------------------------------------
(* The inductive invariant.                                                *)

\* The root of a session is an issued token.
RootInv == \A t \in Issued : root[t] \in Issued

\* Clients present tokens they have; a token on its way to its client is in
\* the table of the replica that answers, and nobody else knows it.
CallInv ==
  /\ \A c \in Calls : pc[c] \in {"consume", "logout"} => token[c] \in known
  /\ \A c \in Calls :
       pc[c] = "reply" => token[c] \in refreshStore[at[c]] /\ token[c] \notin known
  /\ \A c, d \in Calls :
       pc[c] = "reply" /\ pc[d] = "reply" /\ token[c] = token[d] => c = d

IInv == TypeOK /\ RootInv /\ CallInv /\ OneHeir /\ SingleUse /\ KnownTokenStored

\* What the conjuncts say of each call and each token, for the steps below.
USE DEF Goto, Done, Steps, Ages

-----------------------------------------------------------------------------
LEMMA InitInv == Init => IInv
<1> SUFFICES ASSUME Init PROVE IInv
  OBVIOUS
<1> USE DEF Init
<1>1. Issued = {}
  BY DEF Issued
<1>2. TypeOK
  BY <1>1 DEF TypeOK
<1>3. RootInv /\ CallInv /\ OneHeir /\ SingleUse /\ KnownTokenStored
  BY <1>1 DEF RootInv, CallInv, OneHeir, Rotating, SingleUse, KnownTokenStored
<1> QED BY <1>2, <1>3 DEF IInv

\* A request arrives: login with no token, refresh and logout with a known one.
LEMMA ArriveInv ==
  ASSUME IInv, NEW c \in Calls, Login(c) \/ Refresh(c) \/ Logout(c)
  PROVE  IInv'
<1>1. PICK step \in {"issue", "consume", "logout"}, t \in known \cup {NoToken} :
        /\ Arrive(c, step, t)
        /\ step = "issue" => t = NoToken
        /\ step # "issue" => t \in known
  BY DEF Login, Refresh, Logout
<1> USE <1>1 DEF Arrive, IInv
<1>2. Issued' = Issued /\ known \subseteq Issued
  BY DEF Issued, TypeOK
<1>3. TypeOK'
  <2>1. PICK r \in Replicas : at' = [at EXCEPT ![c] = r]
    OBVIOUS
  <2>2. token' \in [Calls -> Issued \cup {NoToken}]
    BY <1>2 DEF TypeOK
  <2>3. /\ pc' \in [Calls -> Steps] /\ at' \in [Calls -> Replicas \cup {NoReplica}]
        /\ \A d \in Calls : pc'[d] = "idle" <=> at'[d] = NoReplica
    BY <2>1 DEF TypeOK
  <2>4. \A d \in Calls :
          pc'[d] \in {"consume", "logout", "parse", "reply"} => token'[d] # NoToken
    BY <1>2 DEF TypeOK, Issued
  <2> QED BY <1>2, <2>2, <2>3, <2>4 DEF TypeOK
<1>4. \A d \in Calls : Rotating(d)' => d # c /\ Rotating(d) /\ token'[d] = token[d]
  BY DEF Rotating, TypeOK
<1>5. OneHeir'
  BY <1>4 DEF OneHeir
<1>6. CallInv'
  BY DEF CallInv, TypeOK
<1>7. UNCHANGED <<refreshStore, age, root, consumed, known, forgotten>>
  OBVIOUS
<1>8. RootInv' /\ SingleUse' /\ KnownTokenStored'
  BY <1>2, <1>7 DEF RootInv, SingleUse, KnownTokenStored
<1> QED BY <1>3, <1>5, <1>6, <1>8

\* A token leaves a table: it is consumed, or has expired, or was not there.
LEMMA DeleteInv ==
  ASSUME IInv, NEW c \in Calls, Consume(c) \/ ConsumeFails(c) \/ EndSession(c)
  PROVE  IInv'
<1> DEFINE r == at[c]
           t == token[c]
<1> USE DEF IInv
<1>1. /\ r \in Replicas /\ t \in Issued /\ t \in known
      /\ pc[c] \in {"consume", "logout"}
  BY DEF TypeOK, CallInv, Consume, ConsumeFails, EndSession
<1>2. /\ refreshStore' = [refreshStore EXCEPT ![r] = @ \ {t}]
      /\ consumed' = IF Good(c) THEN consumed \cup {t} ELSE consumed
      /\ UNCHANGED <<age, root, known, forgotten>>
      /\ loggedOut' \subseteq loggedOut \cup {t}
  BY DEF Consume, ConsumeFails, EndSession, Delete, Remember
<1>3. Good(c) => t \in refreshStore[r]
  BY DEF Good, Stored
<1>4. Issued' = Issued
  BY <1>2 DEF Issued
<1>5. /\ pc' \in [Calls -> Steps] /\ at' \in [Calls -> Replicas \cup {NoReplica}]
      /\ token' \in [Calls -> Issued \cup {NoToken}]
      /\ \A d \in Calls : /\ pc'[d] = "idle" <=> at'[d] = NoReplica
                          /\ pc'[d] \in {"consume", "logout", "parse", "reply"} => token'[d] # NoToken
  BY <1>1 DEF TypeOK, Consume, ConsumeFails, EndSession
<1>6. TypeOK'
  BY <1>1, <1>2, <1>4, <1>5 DEF TypeOK
<1>7. \A d \in Calls : d # c => pc'[d] = pc[d] /\ token'[d] = token[d] /\ at'[d] = at[d]
  BY DEF TypeOK, Consume, ConsumeFails, EndSession
<1>8. (pc'[c] = "parse" /\ token'[c] = t /\ Good(c)) \/ pc'[c] = "idle"
  BY DEF TypeOK, Consume, ConsumeFails, EndSession
<1>9. \A q \in Replicas : /\ refreshStore'[q] \subseteq refreshStore[q]
                          /\ q # r => refreshStore'[q] = refreshStore[q]
                          /\ refreshStore[q] \ {t} \subseteq refreshStore'[q]
                          /\ Good(c) => t \notin refreshStore'[q]
  BY <1>1, <1>2, <1>3 DEF TypeOK, OneHeir
<1>10. CallInv'
  BY <1>1, <1>2, <1>7, <1>8, <1>9 DEF CallInv, TypeOK
<1>11. OneHeir'
  <2>1. \A d \in Calls : Rotating(d)' /\ d # c => Rotating(d) /\ token'[d] = token[d]
    BY <1>7 DEF Rotating
  <2>2. Rotating(c)' => /\ token'[c] = t /\ t \in refreshStore[r]
                        /\ \A q \in Replicas : t \notin refreshStore'[q]
    BY <1>3, <1>8, <1>9 DEF Rotating
  <2>3. \A p, q \in Replicas : \A u \in refreshStore'[p], v \in refreshStore'[q] :
          root[u] = root[v] => u = v /\ p = q
    BY <1>9 DEF OneHeir
  <2>4. \A d, e \in Calls : Rotating(d)' /\ Rotating(e)' /\ root[token'[d]] = root[token'[e]] => d = e
    BY <2>1, <2>2, <1>1 DEF OneHeir
  <2>5. \A d \in Calls, q \in Replicas : \A u \in refreshStore'[q] :
          Rotating(d)' => root[token'[d]] # root[u]
    BY <2>1, <2>2, <1>1, <1>9 DEF OneHeir
  <2> QED BY <2>3, <2>4, <2>5, <1>2 DEF OneHeir
<1>12. SingleUse'
  BY <1>1, <1>2, <1>9 DEF SingleUse
<1>13. KnownTokenStored'
  <2> SUFFICES ASSUME NEW u \in known \ (consumed' \cup forgotten), age[u] # "recordExpired"
               PROVE  \E q \in Replicas : u \in refreshStore'[q]
    BY <1>2 DEF KnownTokenStored
  <2>1. PICK q \in Replicas : u \in refreshStore[q]
    BY <1>2 DEF KnownTokenStored
  <2>2. CASE u # t
    BY <2>1, <2>2, <1>9
  <2>3. CASE u = t
    <3>1. ~Good(c)
      BY <2>3, <1>2
    <3>2. q # r
      BY <3>1, <2>1, <2>3 DEF Good, Stored
    <3> QED BY <3>2, <2>1, <1>9
  <2> QED BY <2>2, <2>3
<1> QED BY <1>2, <1>4, <1>6, <1>10, <1>11, <1>12, <1>13 DEF RootInv

\* A call goes on or ends, and no token moves.
LEMMA LocalInv ==
  ASSUME IInv, NEW c \in Calls,
         Parse(c) \/ ParseFails(c) \/ IssueFails(c) \/ ReplyLost(c)
  PROVE  IInv'
<1> USE DEF IInv, Parse, ParseFails, IssueFails, ReplyLost
<1>1. Issued' = Issued
  BY DEF Issued
<1>2. TypeOK'
  BY <1>1 DEF TypeOK
<1>3. \A d \in Calls : Rotating(d)' => Rotating(d) /\ token'[d] = token[d]
  BY DEF Rotating, TypeOK
<1>4. OneHeir'
  BY <1>3 DEF OneHeir
<1>5. CallInv'
  BY DEF CallInv, TypeOK
<1> QED BY <1>1, <1>2, <1>4, <1>5 DEF RootInv, SingleUse, KnownTokenStored

\* A pair is issued: a login starts a session, a refresh goes on with one.
LEMMA IssueInv ==
  ASSUME IInv, NEW c \in Calls, Issue(c)
  PROVE  IInv'
<1>1. PICK t \in Tokens \ Issued :
        /\ Goto(c, "issue", "reply")
        /\ root' = [root EXCEPT ![t] = IF token[c] = NoToken THEN t ELSE root[token[c]]]
        /\ refreshStore' = [refreshStore EXCEPT ![at[c]] = @ \cup {t}]
        /\ token' = [token EXCEPT ![c] = t]
        /\ UNCHANGED <<age, consumed, known, loggedOut, forgotten, at>>
  BY DEF Issue
<1> DEFINE r == at[c]
           s == IF token[c] = NoToken THEN t ELSE root[token[c]]
<1> USE DEF IInv
<1>2. r \in Replicas /\ pc[c] = "issue" /\ pc' = [pc EXCEPT ![c] = "reply"]
  BY <1>1 DEF TypeOK
<1>3. /\ token[c] # NoToken => token[c] \in Issued /\ Rotating(c)
      /\ s \in Issued \cup {t}
  BY <1>2 DEF TypeOK, Rotating, RootInv
<1>4. /\ Issued' = Issued \cup {t}
      /\ root'[t] = s
      /\ \A u \in Issued : root'[u] = root[u] /\ u # t
      /\ \A u \in Issued : root[u] # t
  BY <1>1, <1>3 DEF Issued, TypeOK, RootInv
<1>5. TypeOK'
  <2>1. refreshStore' \in [Replicas -> SUBSET (Issued \cup {t})]
    BY <1>1, <1>2 DEF TypeOK
  <2>2. root' \in [Tokens -> Tokens \cup {NoToken}]
    BY <1>1, <1>3 DEF TypeOK, Issued
  <2>3. token' \in [Calls -> Issued \cup {t} \cup {NoToken}]
    BY <1>1 DEF TypeOK
  <2>4. consumed \subseteq Issued \cup {t} /\ known \subseteq Issued \cup {t}
        /\ forgotten \subseteq Issued \cup {t} /\ loggedOut \subseteq Issued \cup {t}
    BY DEF TypeOK
  <2>5. \A d \in Calls : /\ pc'[d] = "idle" <=> at'[d] = NoReplica
                         /\ pc'[d] \in {"consume", "logout", "parse", "reply"} => token'[d] # NoToken
    BY <1>1, <1>2 DEF TypeOK
  <2> QED BY <1>1, <1>2, <1>4, <2>1, <2>2, <2>3, <2>4, <2>5 DEF TypeOK
<1>6. RootInv'
  BY <1>3, <1>4 DEF RootInv
<1>7. \A q \in Replicas : /\ refreshStore[q] \subseteq Issued
                         /\ refreshStore'[q] = IF q = r THEN refreshStore[q] \cup {t}
                                                         ELSE refreshStore[q]
  BY <1>1, <1>2 DEF TypeOK
<1>8. t \notin known /\ t \notin consumed
  BY DEF TypeOK
<1>9. \A d \in Calls : /\ d # c => pc'[d] = pc[d] /\ token'[d] = token[d] /\ at'[d] = at[d]
                       /\ token[d] # NoToken => token[d] \in Issued
  BY <1>1, <1>2 DEF TypeOK
<1>10. token'[c] = t /\ pc'[c] = "reply" /\ at'[c] = r
  BY <1>1, <1>2 DEF TypeOK
<1>11. \A d \in Calls : pc[d] = "reply" => token[d] \in Issued /\ at[d] \in Replicas
  BY DEF TypeOK
<1>12. CallInv'
  BY <1>1, <1>2, <1>7, <1>8, <1>9, <1>10, <1>11, SMTT(20) DEF CallInv
<1>13. OneHeir'
  <2>1. \A d \in Calls : Rotating(d)' => /\ d # c /\ Rotating(d) /\ token'[d] = token[d]
                                         /\ token[d] \in Issued
    BY <1>9, <1>10 DEF Rotating
  <2>2. \A q \in Replicas : \A u \in refreshStore'[q] :
          \/ u \in refreshStore[q] /\ root'[u] = root[u] /\ root'[u] # s
          \/ u = t /\ q = r /\ root'[u] = s
    <3>1. ASSUME NEW q \in Replicas, NEW u \in refreshStore[q] PROVE root[u] # s
      <4>1. CASE token[c] = NoToken
        BY <1>4, <1>7, <3>1, <4>1
      <4>2. CASE token[c] # NoToken
        BY <1>3, <3>1, <4>2 DEF OneHeir
      <4> QED BY <4>1, <4>2
    <3> HIDE DEF s
    <3> QED BY <1>4, <1>7, <3>1, ZenonT(40)
  <2>3. \A d \in Calls : Rotating(d)' => root[token[d]] # s
    BY <2>1, <1>3, <1>4 DEF OneHeir
  <2>4. \A p, q \in Replicas : \A u \in refreshStore'[p], v \in refreshStore'[q] :
          root'[u] = root'[v] => u = v /\ p = q
    <3> SUFFICES ASSUME NEW p \in Replicas, NEW q \in Replicas,
                        NEW u \in refreshStore'[p], NEW v \in refreshStore'[q],
                        root'[u] = root'[v]
                 PROVE  u = v /\ p = q
      OBVIOUS
    <3>1. CASE root'[u] = s
      BY <2>2, <3>1
    <3>2. CASE root'[u] # s
      <4>1. u \in refreshStore[p] /\ v \in refreshStore[q] /\ root[u] = root[v]
        BY <2>2, <3>2
      <4> QED BY <4>1 DEF OneHeir
    <3> QED BY <3>1, <3>2
  <2>5. \A d, e \in Calls : Rotating(d)' /\ Rotating(e)' /\ root'[token'[d]] = root'[token'[e]] => d = e
    BY <2>1, <1>4 DEF OneHeir
  <2>6. \A d \in Calls, q \in Replicas : \A u \in refreshStore'[q] :
          Rotating(d)' => root'[token'[d]] # root'[u]
    BY <2>1, <2>2, <2>3, <1>4 DEF OneHeir
  <2> QED BY <2>4, <2>5, <2>6 DEF OneHeir
<1>14. SingleUse'
  BY <1>1, <1>7, <1>8 DEF SingleUse
<1>15. KnownTokenStored'
  BY <1>1, <1>7 DEF KnownTokenStored
<1> QED BY <1>5, <1>6, <1>12, <1>13, <1>14, <1>15

\* The client receives its token.
LEMMA ReplyInv ==
  ASSUME IInv, NEW c \in Calls, Reply(c)
  PROVE  IInv'
<1> USE DEF IInv, Reply
<1>1. Issued' = Issued
  BY DEF Issued
<1>2. token[c] \in Issued /\ at[c] \in Replicas /\ token[c] \in refreshStore[at[c]]
  BY DEF TypeOK, CallInv
<1>3. TypeOK'
  BY <1>1, <1>2 DEF TypeOK
<1>4. \A d \in Calls : Rotating(d)' => Rotating(d) /\ token'[d] = token[d]
  BY DEF Rotating, TypeOK
<1>5. OneHeir'
  BY <1>4 DEF OneHeir
<1>6. CallInv'
  BY DEF CallInv, TypeOK
<1>7. RootInv' /\ SingleUse'
  BY <1>1 DEF RootInv, SingleUse
<1>8. KnownTokenStored'
  BY <1>2 DEF KnownTokenStored
<1> QED BY <1>3, <1>5, <1>6, <1>7, <1>8

\* A token grows old, never young.
LEMMA AgeInv ==
  ASSUME IInv, NEW t \in Tokens, Age(t)
  PROVE  IInv'
<1> USE DEF IInv, Age
<1>1. Issued' = Issued
  BY DEF Issued
<1>2. age' \in [Tokens -> Ages]
  BY DEF TypeOK
<1>3. \A u \in Tokens : age'[u] # "recordExpired" => age[u] # "recordExpired"
  BY DEF TypeOK
<1>4. TypeOK'
  BY <1>1, <1>2 DEF TypeOK
<1>5. known \subseteq Tokens
  BY DEF TypeOK, Issued
<1>6. KnownTokenStored'
  BY <1>3, <1>5 DEF KnownTokenStored
<1>7. RootInv' /\ CallInv' /\ OneHeir' /\ SingleUse'
  BY <1>1 DEF RootInv, CallInv, OneHeir, Rotating, SingleUse
<1> QED BY <1>4, <1>6, <1>7

\* A table and the calls of its process are gone.
LEMMA RestartInv ==
  ASSUME IInv, NEW r \in Replicas, Restart(r)
  PROVE  IInv'
<1> USE DEF IInv, Restart
<1>1. Issued' = Issued
  BY DEF Issued
<1>2. \A q \in Replicas : refreshStore'[q] = IF q = r THEN {} ELSE refreshStore[q]
  BY DEF TypeOK
<1>3. \A d \in Calls : IF at[d] = r
                       THEN pc'[d] = "idle"
                       ELSE pc'[d] = pc[d] /\ token'[d] = token[d] /\ at'[d] = at[d]
  BY DEF TypeOK
<1>4. TypeOK'
  BY <1>1 DEF TypeOK
<1>5. OneHeir'
  BY <1>2, <1>3 DEF OneHeir, Rotating
<1>6. CallInv'
  BY <1>2, <1>3 DEF CallInv, TypeOK
<1>7. RootInv' /\ SingleUse'
  BY <1>1, <1>2 DEF RootInv, SingleUse
<1>8. KnownTokenStored'
  BY <1>2 DEF KnownTokenStored
<1> QED BY <1>4, <1>5, <1>6, <1>7, <1>8

LEMMA StutterInv ==
  ASSUME IInv, UNCHANGED vars
  PROVE  IInv'
BY DEF IInv, vars, TypeOK, RootInv, CallInv, OneHeir, SingleUse, KnownTokenStored,
       Issued, Rotating

\* The invariant of every reachable state.
THEOREM Inductive == Spec => []IInv
<1>1. Init => IInv
  BY InitInv
<1>2. IInv /\ [Next]_vars => IInv'
  <2> SUFFICES ASSUME IInv, [Next]_vars PROVE IInv'
    OBVIOUS
  <2>1. ASSUME NEW c \in Calls, Step(c) PROVE IInv'
    BY <2>1, ArriveInv, DeleteInv, LocalInv, IssueInv, ReplyInv DEF Step
  <2>2. ASSUME NEW t \in Tokens, Age(t) PROVE IInv'
    BY <2>2, AgeInv
  <2>3. ASSUME NEW r \in Replicas, Restart(r) PROVE IInv'
    BY <2>3, RestartInv
  <2>4. CASE UNCHANGED vars
    BY <2>4, StutterInv
  <2> QED BY <2>1, <2>2, <2>3, <2>4 DEF Next
<1> QED BY <1>1, <1>2, PTL DEF Spec

-----------------------------------------------------------------------------
(* What follows from it.                                                   *)

\* Every variable keeps its type: tables, clients and calls hold issued
\* tokens only.
THEOREM TypeCorrect == Spec => []TypeOK
BY Inductive, PTL DEF IInv

\* Rotation (refresh, ConsumeRefresh, StoreRefresh) never forks a session.
THEOREM RotationNeverForks == Spec => []OneHeir
BY Inductive, PTL DEF IInv

\* What ConsumeRefresh has returned once is in no table any more.
THEOREM TokensAreSingleUse == Spec => []SingleUse
BY Inductive, PTL DEF IInv

\* A client's token is refused only if it was consumed, is expired, or its
\* table is lost: the handlers answer after they have stored it.
THEOREM KnownTokensWork == Spec => []KnownTokenStored
BY Inductive, PTL DEF IInv

\* StoreRefresh only ever stores a token nobody has seen.
THEOREM TablesTakeFreshTokens == Spec => NeverReturns
<1> DEFINE Fresh == \A r \in Replicas :
       refreshStore'[r] \cap (known \cup consumed \cup loggedOut) \subseteq refreshStore[r]
<1>1. IInv /\ [Next]_vars => [Fresh]_vars
  <2> SUFFICES ASSUME IInv, Next PROVE Fresh
    OBVIOUS
  <2> USE DEF IInv, TypeOK
  <2>1. ASSUME NEW c \in Calls, Step(c) PROVE Fresh
    <3>1. CASE Issue(c)
      BY <3>1 DEF Issue
    <3>2. CASE Consume(c) \/ ConsumeFails(c) \/ EndSession(c)
      BY <3>2 DEF Consume, ConsumeFails, EndSession, Delete
    <3>3. CASE UNCHANGED refreshStore
      BY <3>3
    <3> QED BY <2>1, <3>1, <3>2, <3>3 DEF Step, Login, Refresh, Logout, Arrive,
               Parse, ParseFails, IssueFails, Reply, ReplyLost
  <2>2. ASSUME NEW t \in Tokens, Age(t) PROVE Fresh
    BY <2>2 DEF Age
  <2>3. ASSUME NEW r \in Replicas, Restart(r) PROVE Fresh
    BY <2>3 DEF Restart
  <2> QED BY <2>1, <2>2, <2>3 DEF Next
<1> QED BY <1>1, Inductive, PTL DEF Spec, NeverReturns

\* With a single replica a logout invalidates its token, as README.md:58-59 says.
THEOREM OneReplicaLogout ==
  ASSUME \A r, q \in Replicas : r = q
  PROVE  Spec => []LogoutInvalidates
<1>1. Init => LogoutInvalidates
  BY DEF Init, LogoutInvalidates
<1>2. IInv /\ LogoutInvalidates /\ [Next]_vars => LogoutInvalidates'
  <2> SUFFICES ASSUME IInv, LogoutInvalidates, [Next]_vars PROVE LogoutInvalidates'
    OBVIOUS
  <2> USE DEF IInv, TypeOK, LogoutInvalidates
  <2>1. ASSUME NEW c \in Calls, Step(c) PROVE LogoutInvalidates'
    <3>1. CASE Issue(c)
      BY <3>1 DEF Issue
    <3>2. CASE Consume(c) \/ ConsumeFails(c)
      BY <3>2 DEF Consume, ConsumeFails, Delete
    <3>3. CASE EndSession(c)
      BY <3>3 DEF EndSession, Delete
    <3>4. CASE UNCHANGED <<refreshStore, loggedOut>>
      BY <3>4
    <3> QED BY <2>1, <3>1, <3>2, <3>3, <3>4 DEF Step, Login, Refresh, Logout, Arrive,
               Parse, ParseFails, IssueFails, Reply, ReplyLost
  <2>2. ASSUME NEW t \in Tokens, Age(t) PROVE LogoutInvalidates'
    BY <2>2 DEF Age
  <2>3. ASSUME NEW r \in Replicas, Restart(r) PROVE LogoutInvalidates'
    BY <2>3 DEF Restart
  <2>4. CASE UNCHANGED vars
    BY <2>4 DEF vars
  <2> QED BY <2>1, <2>2, <2>3, <2>4 DEF Next
<1> QED BY <1>1, <1>2, Inductive, PTL DEF Spec
=============================================================================
