-------------------------- MODULE SessionsProofs --------------------------
(***************************************************************************)
(* AuthStore implements Sessions, for any numbers of replicas, calls and   *)
(* tokens: the first state maps to the first state, and under the          *)
(* invariant of AuthStoreProofs every step maps to a step or to none.      *)
(***************************************************************************)
EXTENDS AuthStoreProofs

USE NoneOK DEF Goto, Done, Steps, Ages

\* Live and Turning, element by element.
LEMMA LiveIs ==
  ASSUME NEW s \in Tokens, NEW t
  PROVE  t \in Live(s) <=>
           /\ t \in Tokens /\ root[t] # NoToken /\ root[t] = s
           /\ \E r \in Replicas : t \in refreshStore[r]
BY DEF Live, Issued

LEMMA TurningIs ==
  ASSUME NEW s
  PROVE  s \in Turning <=> \E c \in Calls : Rotating(c) /\ root[token[c]] = s
BY DEF Turning

\* The first state of AuthStore is the first state of Sessions.
LEMMA AbsInit == Init => Abstract!Begin
<1> SUFFICES ASSUME Init PROVE Abstract!Begin
  OBVIOUS
<1>1. Issued = {}
  BY DEF Init, Issued
<1>2. \A s \in Tokens : Live(s) = {}
  BY <1>1 DEF Live
<1>3. Turning = {}
  BY DEF Init, Turning, Rotating
<1> QED BY <1>1, <1>2, <1>3 DEF Abstract!Begin

-----------------------------------------------------------------------------
(* Steps that no session notices.                                          *)

\* If tables, roots and the calls between two tokens stay, so do the sessions.
LEMMA Unseen ==
  ASSUME refreshStore' = refreshStore, root' = root,
         \A c \in Calls : (Rotating(c) <=> Rotating(c)') /\ (Rotating(c) => token'[c] = token[c])
  PROVE  UNCHANGED Abstract!sessions
<1>1. Issued' = Issued
  BY DEF Issued
<1>2. \A s \in Tokens : Live(s)' = Live(s)
  BY <1>1 DEF Live
<1>3. Turning' = Turning
  <2>1. \A c \in Calls : Rotating(c)' => root'[token'[c]] = root[token[c]]
    OBVIOUS
  <2>2. {d \in Calls : Rotating(d)'} = {d \in Calls : Rotating(d)}
    OBVIOUS
  <2> QED BY <2>1, <2>2 DEF Turning
<1> QED BY <1>1, <1>2, <1>3 DEF Abstract!sessions

LEMMA AbsLocal ==
  ASSUME IInv, NEW c \in Calls,
         Login(c) \/ Refresh(c) \/ Logout(c) \/ Parse(c) \/ Reply(c) \/ ReplyLost(c)
  PROVE  UNCHANGED Abstract!sessions
<1> USE DEF IInv, TypeOK
<1>1. UNCHANGED <<refreshStore, root>>
  BY DEF Login, Refresh, Logout, Arrive, Parse, Reply, ReplyLost
<1>2. \A d \in Calls \ {c} : pc'[d] = pc[d] /\ token'[d] = token[d]
  BY DEF Login, Refresh, Logout, Arrive, Parse, Reply, ReplyLost
<1>3. CASE Parse(c)
  BY <1>1, <1>2, <1>3, Unseen DEF Parse, Rotating
<1>4. CASE ~ Parse(c)
  <2>1. ~ Rotating(c)
    BY <1>4 DEF Login, Refresh, Logout, Arrive, Reply, ReplyLost, Rotating
  <2>2. ~ Rotating(c)'
    BY <1>4 DEF Login, Refresh, Logout, Arrive, Reply, ReplyLost, Rotating
  <2> QED BY <1>1, <1>2, <2>1, <2>2, Unseen DEF Rotating
<1> QED BY <1>3, <1>4

LEMMA AbsAge ==
  ASSUME (\E t \in Tokens : Age(t)) \/ UNCHANGED vars
  PROVE  UNCHANGED Abstract!sessions
BY Unseen DEF Age, vars, Rotating

-----------------------------------------------------------------------------
(* Steps that turn a token in, give one out, or end sessions.              *)

\* ConsumeRefresh takes the one live token of its session, in a refresh to turn
\* it in and otherwise for good; or it takes nothing.
LEMMA AbsDelete ==
  ASSUME IInv, NEW c \in Calls, Consume(c) \/ ConsumeFails(c) \/ EndSession(c)
  PROVE  [Abstract!Change]_(Abstract!sessions)
<1> USE DEF IInv
<1>0. at[c] \in Replicas /\ token[c] \in Issued /\ root[token[c]] \in Tokens
  BY DEF TypeOK, CallInv, Consume, ConsumeFails, EndSession, Issued
<1>1. PICK r \in Replicas, t \in Issued, s \in Tokens :
        r = at[c] /\ t = token[c] /\ s = root[t]
  BY <1>0
<1>2. refreshStore' = [refreshStore EXCEPT ![r] = @ \ {t}] /\ root' = root
  BY <1>1 DEF Consume, ConsumeFails, EndSession, Delete
<1>3. Issued' = Issued
  BY <1>2 DEF Issued
<1>4. /\ ~ Rotating(c)
      /\ \A d \in Calls \ {c} : Rotating(d)' = Rotating(d) /\ token'[d] = token[d]
  BY DEF Consume, ConsumeFails, EndSession, Rotating, TypeOK
<1>5. Rotating(c)' <=> Consume(c)
  BY <1>1 DEF Consume, ConsumeFails, EndSession, Rotating, TypeOK
<1>6. Rotating(c)' => token'[c] = t
  BY <1>1, <1>5 DEF Consume, ConsumeFails, EndSession, Rotating, TypeOK
<1>7. \A u \in Tokens \ {s} : Live(u)' = Live(u)
  <2> SUFFICES ASSUME NEW u \in Tokens \ {s} PROVE Live(u)' = Live(u)
    OBVIOUS
  <2>1. \A v \in Issued, q \in Replicas : root[v] = u => (v \in refreshStore'[q] <=> v \in refreshStore[q])
    BY <1>1, <1>2 DEF TypeOK
  <2> QED BY <1>2, <1>3, <2>1 DEF Live
<1>8. CASE t \in refreshStore[r]
  <2>1. \A q \in Replicas : \A v \in refreshStore[q] : root[v] = s => v = t /\ q = r
    BY <1>1, <1>8 DEF OneHeir
  <2>2. Live(s) # {} /\ Live(s)' = {}
    <3>1. t \in Live(s)
      BY <1>1, <1>8 DEF Live
    <3>2. \A q \in Replicas : \A v \in refreshStore'[q] : root[v] # s
      BY <2>1, <1>1, <1>2 DEF TypeOK
    <3> QED BY <3>1, <3>2, <1>2 DEF Live
  <2>3. s \notin Turning
    BY <1>1, <1>8 DEF Turning, OneHeir
  <2>4. CASE Consume(c)
    <3>1. Turning' = Turning \cup {s}
      BY <1>1, <1>2, <1>4, <1>5, <1>6, <2>4 DEF Turning
    <3>2. Abstract!TurnIn(s)
      BY <1>1, <1>3, <1>7, <2>2, <3>1 DEF Abstract!TurnIn
    <3> QED BY <1>1, <3>2 DEF Abstract!Change
  <2>5. CASE ~ Consume(c)
    <3>1. Turning' = Turning
      BY <1>2, <1>4, <1>5, <2>5 DEF Turning
    <3>2. Abstract!Close({s})
      BY <1>1, <1>3, <1>7, <2>2, <2>3, <3>1 DEF Abstract!Close
    <3> QED BY <1>1, <3>2 DEF Abstract!Change
  <2> QED BY <2>4, <2>5
<1>9. CASE t \notin refreshStore[r]
  <2>1. refreshStore' = refreshStore
    BY <1>1, <1>2, <1>9 DEF TypeOK
  <2>2. ~ Consume(c)
    BY <1>1, <1>9 DEF Consume, Good, Stored
  <2> QED BY <1>2, <1>4, <1>5, <2>1, <2>2, Unseen
<1> QED BY <1>8, <1>9

\* A refresh that fails after it has consumed the token ends its session.
LEMMA AbsFail ==
  ASSUME IInv, NEW c \in Calls, ParseFails(c) \/ IssueFails(c)
  PROVE  [Abstract!Change]_(Abstract!sessions)
<1> USE DEF IInv
<1>1. UNCHANGED <<refreshStore, root>> /\ Issued' = Issued
  BY DEF ParseFails, IssueFails, Issued
<1>2. /\ ~ Rotating(c)'
      /\ \A d \in Calls \ {c} : Rotating(d)' = Rotating(d) /\ token'[d] = token[d]
  BY DEF ParseFails, IssueFails, Rotating, TypeOK
<1>3. CASE ~ Rotating(c)
  BY <1>1, <1>2, <1>3, Unseen
<1>4. CASE Rotating(c)
  <2>0. root[token[c]] \in Tokens /\ root[token[c]] \in Turning
    BY <1>4 DEF TypeOK, Rotating, Issued, Turning
  <2>1. PICK s \in Tokens : s = root[token[c]] /\ s \in Turning
    BY <2>0
  <2>2. \A u \in Tokens : Live(u)' = Live(u)
    BY <1>1 DEF Live
  <2>3. Live(s) = {}
    BY <1>4, <2>1 DEF Live, OneHeir
  <2>4. Turning' = Turning \ {s}
    <3>1. \A d \in Calls : Rotating(d)' <=> Rotating(d) /\ d # c
      BY <1>2
    <3>2. \A d \in Calls : Rotating(d) /\ root[token[d]] = s => d = c
      BY <1>4, <2>1 DEF OneHeir
    <3> QED BY <1>1, <1>2, <2>1, <3>1, <3>2 DEF Turning
  <2>5. Abstract!Close({s})
    BY <1>1, <2>1, <2>2, <2>3, <2>4 DEF Abstract!Close
  <2> QED BY <2>1, <2>5 DEF Abstract!Change
<1> QED BY <1>3, <1>4

\* A pair is issued: a session starts, or goes on with a token never used.
LEMMA AbsIssue ==
  ASSUME IInv, NEW c \in Calls, Issue(c)
  PROVE  Abstract!Change
<1> USE DEF IInv
<1>1. PICK t \in Tokens \ Issued :
        /\ Goto(c, "issue", "reply")
        /\ root' = [root EXCEPT ![t] = IF token[c] = NoToken THEN t ELSE root[token[c]]]
        /\ refreshStore' = [refreshStore EXCEPT ![at[c]] = @ \cup {t}]
        /\ token' = [token EXCEPT ![c] = t]
  BY DEF Issue
<1>0. (IF token[c] = NoToken THEN t ELSE root[token[c]]) \in Tokens
  BY DEF TypeOK, Issued
<1>2. PICK s \in Tokens : /\ s = IF token[c] = NoToken THEN t ELSE root[token[c]]
                          /\ at[c] \in Replicas /\ t # NoToken /\ s # NoToken
  BY <1>0, <1>1 DEF TypeOK
<1>3. root'[t] = s /\ \A u \in Tokens \ {t} : root'[u] = root[u]
  BY <1>1, <1>2 DEF TypeOK
<1>4. Issued' = Issued \cup {t}
  BY <1>2, <1>3 DEF Issued
<1>5. /\ \A q \in Replicas : refreshStore[q] \subseteq Issued
      /\ t \in refreshStore'[at[c]]
      /\ \A q \in Replicas, u \in Tokens \ {t} : u \in refreshStore'[q] <=> u \in refreshStore[q]
  BY <1>1, <1>2 DEF TypeOK
<1>6. \A u \in Tokens \ {s} : Live(u)' = Live(u)
  <2> SUFFICES ASSUME NEW u \in Tokens \ {s} PROVE Live(u)' = Live(u)
    OBVIOUS
  <2>1. \A v \in Issued \cup {t} : v \in Live(u)' <=> v \in Live(u)
    BY <1>1, <1>2, <1>3, <1>4, <1>5 DEF Live, Issued
  <2> QED BY <2>1, <1>4 DEF Live
<1>7. /\ ~ Rotating(c)'
      /\ \A d \in Calls \ {c} : Rotating(d)' = Rotating(d) /\ token'[d] = token[d]
  BY <1>1 DEF Rotating, TypeOK
<1>8. \A d \in Calls \ {c} : Rotating(d) => root'[token'[d]] = root[token[d]]
  BY <1>1, <1>3, <1>7 DEF Rotating, TypeOK, Issued
<1>9. t \in Live(s)'
  BY <1>2, <1>3, <1>4, <1>5 DEF Live
<1>10. CASE token[c] = NoToken
  <2>1. ~ Rotating(c)
    BY <1>10 DEF Rotating
  <2>2. Turning' = Turning
    BY <1>7, <1>8, <2>1 DEF Turning
  <2>3. \A u \in Issued : root'[u] # t
    BY <1>1, <1>3 DEF RootInv, Issued
  <2>4. Live(t)' = {t}
    BY <1>2, <1>4, <1>9, <1>10, <2>3 DEF Live
  <2>5. Abstract!Open(t)
    BY <1>1, <1>2, <1>4, <1>6, <1>10, <2>2, <2>4 DEF Abstract!Open
  <2> QED BY <2>5 DEF Abstract!Change
<1>11. CASE token[c] # NoToken
  <2>1. Rotating(c)
    BY <1>1, <1>11 DEF Rotating
  <2>2. s \in Turning /\ s = root[token[c]]
    BY <1>2, <1>11, <2>1 DEF Turning
  <2>3. Turning' = Turning \ {s}
    <3>1. \A d \in Calls : Rotating(d)' <=> Rotating(d) /\ d # c
      BY <1>7
    <3>2. \A d \in Calls : Rotating(d) /\ root[token[d]] = s => d = c
      BY <2>1, <2>2 DEF OneHeir
    <3> QED BY <1>7, <1>8, <2>2, <3>1, <3>2 DEF Turning
  <2>4. \A q \in Replicas : \A u \in refreshStore[q] : root[u] # s
    BY <2>1, <2>2 DEF OneHeir
  <2>5. Live(s)' = {t}
    <3>1. \A u \in Issued, q \in Replicas : u \in refreshStore'[q] => root'[u] # s
      BY <1>1, <1>3, <1>5, <2>4 DEF Issued
    <3> QED BY <1>4, <1>9, <3>1 DEF Live
  <2>6. Abstract!Give(s, t)
    BY <1>1, <1>2, <1>4, <1>6, <2>2, <2>3, <2>5 DEF Abstract!Give
  <2> QED BY <1>2, <2>6 DEF Abstract!Change
<1> QED BY <1>10, <1>11

\* A replica that is replaced ends the sessions it had.
LEMMA AbsRestart ==
  ASSUME IInv, NEW r \in Replicas, Restart(r)
  PROVE  Abstract!Change
<1> USE DEF IInv
<1> DEFINE S == {s \in Tokens : \/ \E u \in refreshStore[r] : root[u] = s
                                \/ \E c \in Calls : Rotating(c) /\ at[c] = r /\ root[token[c]] = s}
<1>1. /\ root' = root /\ Issued' = Issued
      /\ refreshStore' = [refreshStore EXCEPT ![r] = {}]
  BY DEF Restart, Issued
<1>2. /\ refreshStore'[r] = {}
      /\ \A q \in Replicas \ {r} : refreshStore'[q] = refreshStore[q]
  BY <1>1 DEF TypeOK
<1>3. \A c \in Calls : IF at[c] = r THEN ~ Rotating(c)'
                       ELSE Rotating(c)' = Rotating(c) /\ token'[c] = token[c]
  BY DEF Restart, Rotating
<1>4. \A c \in Calls : Rotating(c) => at[c] \in Replicas /\ root[token[c]] \in Tokens
  BY DEF Rotating, TypeOK, Issued
<1>5. \A s \in S : Live(s) # {} \/ s \in Turning
  <2> SUFFICES ASSUME NEW s \in S PROVE Live(s) # {} \/ s \in Turning
    OBVIOUS
  <2>1. CASE \E u \in refreshStore[r] : root[u] = s
    BY <2>1 DEF Live, TypeOK
  <2>2. CASE \E c \in Calls : Rotating(c) /\ at[c] = r /\ root[token[c]] = s
    BY <2>2 DEF Turning
  <2> QED BY <2>1, <2>2
<1>6. \A s \in S : Live(s)' = {} /\ s \notin Turning'
  <2> SUFFICES ASSUME NEW s \in S PROVE Live(s)' = {} /\ s \notin Turning'
    OBVIOUS
  <2>1. \A q \in Replicas \ {r} : \A u \in refreshStore[q] : root[u] # s
    BY DEF OneHeir
  <2>2. \A c \in Calls : Rotating(c) /\ at[c] # r => root[token[c]] # s
    BY DEF OneHeir
  <2>3. Live(s)' = {}
    BY <1>1, <1>2, <2>1 DEF Live
  <2>4. s \notin Turning'
    BY <1>1, <1>3, <2>2 DEF Turning
  <2> QED BY <2>3, <2>4
<1>7. \A s \in Tokens \ S : Live(s)' = Live(s)
  BY <1>1, <1>2 DEF Live
<1>8. Turning' = Turning \ S
  <2>1. \A s \in Turning' : s \in Turning
    BY <1>1, <1>3 DEF Turning
  <2>2. \A s \in Turning \ S : s \in Turning'
    BY <1>1, <1>3, <1>4 DEF Turning
  <2> QED BY <1>6, <2>1, <2>2
<1>9. S \in SUBSET Tokens
  OBVIOUS
<1>10. Abstract!Close(S)
  <2> HIDE DEF S
  <2> QED BY <1>1, <1>5, <1>6, <1>7, <1>8, <1>9 DEF Abstract!Close
<1> QED BY <1>9, <1>10 DEF Abstract!Change

-----------------------------------------------------------------------------
(* The refinement.                                                         *)

\* Login, refresh, logout, expiry, lost answers and restarts over any number of
\* tables are the atomic steps of Sessions, or none.
THEOREM AuthStoreImplementsSessions == Spec => ImplementsSessions
<1>1. IInv /\ [Next]_vars => [Abstract!Change]_(Abstract!sessions)
  <2> SUFFICES ASSUME IInv, [Next]_vars PROVE [Abstract!Change]_(Abstract!sessions)
    OBVIOUS
  <2>1. ASSUME NEW c \in Calls, Step(c) PROVE [Abstract!Change]_(Abstract!sessions)
    BY <2>1, AbsLocal, AbsDelete, AbsFail, AbsIssue DEF Step
  <2>2. CASE \E t \in Tokens : Age(t)
    BY <2>2, AbsAge
  <2>3. ASSUME NEW r \in Replicas, Restart(r) PROVE Abstract!Change
    BY <2>3, AbsRestart
  <2>4. CASE UNCHANGED vars
    BY <2>4, AbsAge
  <2> QED BY <2>1, <2>2, <2>3, <2>4 DEF Next
<1> QED BY AbsInit, Inductive, <1>1, PTL DEF Spec, ImplementsSessions, Abstract!Sessions

\* A session that was logged out, has expired, failed to refresh or was lost with
\* its replica is never revived by a call that was already under way.
THEOREM SessionsEndForGood == Spec => Abstract!OverForGood
<1> DEFINE Kept == \A s \in Tokens : Abstract!Over(s) => Abstract!Over(s)'
<1>1. [Abstract!Change]_(Abstract!sessions) => [Kept]_(Abstract!sessions)
  <2> SUFFICES ASSUME Abstract!Change PROVE Kept
    OBVIOUS
  <2>1. ASSUME NEW u \in Tokens, Abstract!Open(u) \/ Abstract!TurnIn(u) PROVE Kept
    BY <2>1 DEF Abstract!Open, Abstract!TurnIn, Abstract!Over
  <2>2. ASSUME NEW u \in Tokens, NEW t \in Tokens, Abstract!Give(u, t) PROVE Kept
    BY <2>2 DEF Abstract!Give, Abstract!Over
  <2>3. ASSUME NEW S \in SUBSET Tokens, Abstract!Close(S) PROVE Kept
    BY <2>3 DEF Abstract!Close, Abstract!Over
  <2> QED BY <2>1, <2>2, <2>3 DEF Abstract!Change
<1> QED
  BY AuthStoreImplementsSessions, <1>1, PTL
     DEF ImplementsSessions, Abstract!Sessions, Abstract!OverForGood
=============================================================================
