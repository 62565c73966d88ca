--------------------------- MODULE BrowserProofs ---------------------------
(***************************************************************************)
(* Proofs about the tab and its session, for any users, tokens, replicas   *)
(* and number of calls under way.                                          *)
(***************************************************************************)
EXTENDS Browser, TLAPS

-----------------------------------------------------------------------------
(* What every state satisfies.                                             *)

\* Sessions: a token continues one of them at most; one whose token was turned
\* in is in the hands of a refresh; each is in the tables of one replica.
SessionInv ==
  /\ \A s \in Tokens : live[s] # {} => s \in used \ turning
  /\ \A r, s \in Tokens : live[r] \cap live[s] # {} => r = s
  /\ \A s \in turning : \E c \in Pending : call[c].step = "turning" /\ call[c].got = s
  /\ \A r, q \in Replicas : at[r] \cap at[q] # {} => r = q
  /\ \A s \in Tokens : live[s] # {} \/ s \in turning => \E r \in Replicas : s \in at[r]

\* Users: every token speaks for one, the tokens of a session for the same name,
\* with what the table of the session's replica says now.
UserInv ==
  /\ \A r \in Replicas : OneEach(users[r])
  /\ \A t \in used : claims[t] \in Users
  /\ \A s \in Tokens : \A t \in live[s] : claims[t].name = claims[s].name
  /\ \A r \in Replicas : \A s \in at[r] : \A t \in live[s] : claims[t] \in users[r]

Carriers == {c \in Calls : Is(c, {"login"} \cup Refreshes, {"ok"})}
Turned   == {c \in Pending : call[c].step \in {"turning", "ok"}}

\* What a call of each kind may have come to.
LoginOK(c) ==
  /\ user = NoUser
  /\ call[c].step \in {"sent", "ok"}
  /\ call[c].step = "ok" => call[c].user \in Users /\ claims[call[c].got] = call[c].user
LogoutOK(c) ==
  /\ call[c].step \in {"sent", "ok", "no"} /\ call[c].token \in used
  /\ call[c].step = "ok" => leaked \/ Of(call[c].token) = {}
  /\ call[c].step = "no" => leaked
RefreshOK(c) ==
  /\ call[c].step \in {"sent", "turning", "ok", "no"} /\ call[c].token \in used
  /\ call[c].step = "turning" => call[c].got \in turning
  /\ call[c].step \in {"turning", "ok"} => Of(call[c].token) = {}
  /\ call[c].kind = "api" /\ call[c].step = "no" => leaked \/ Of(call[c].token) = {}

CallOK(c) ==
  /\ call[c].kind = "none" => Free(c)
  /\ call[c].kind = "login" => LoginOK(c)
  /\ call[c].kind = "logout" => LogoutOK(c)
  /\ call[c].kind = "request" => call[c].step = "sent"
  /\ call[c].kind \in Refreshes => RefreshOK(c)
CallInv ==
  /\ \A c \in Calls : CallOK(c)
  /\ \A c, d \in Calls : call[c].kind = "login" /\ call[d].kind = "login" => c = d
  /\ \A c, d \in Pending :
       call[c].step = "turning" /\ call[d].step = "turning" /\ call[c].got = call[d].got => c = d

\* A token on its way to the tab has been presented by nobody, and is carried
\* by one answer.
CarrierInv ==
  /\ \A c \in Carriers : /\ call[c].got \in used /\ call[c].got # stored
                         /\ \A d \in Calls : call[d].token # call[c].got
  /\ \A c, d \in Carriers : call[c].got = call[d].got => c = d

\* The session of a user who has signed in: stored, or with the only refresh.
Continues(c) ==
  \/ call[c].step = "sent" /\ Of(stored) # {}
  \/ /\ call[c].step = "turning" /\ claims[call[c].got].name = user.name
     /\ \E r \in Replicas : call[c].got \in at[r] /\ user \in users[r]
  \/ call[c].step = "ok" /\ claims[call[c].got] = user /\ Of(call[c].got) # {}

UpsetInv ==
  ~ upset =>
    /\ user \in Users /\ stored # NoToken /\ claims[stored] = user
    /\ \A c \in Calls : call[c].kind \in {"none", "request"} \cup Refreshes
    /\ \A c, d \in Pending : c = d
    /\ Pending = {} => Of(stored) # {}
    /\ \A c \in Pending : call[c].token = stored /\ Continues(c)

\* The sessions that live are those whose token is stored or on its way.
LeakInv ==
  ~ leaked =>
    /\ user = NoUser => stored = NoToken /\ \A c \in Pending : call[c].step = "no"
    /\ \A s \in Tokens : \A t \in live[s] : t = stored \/ \E c \in Carriers : call[c].got = t
    /\ \A c, d \in Turned : c = d
    /\ \A c \in Turned : \A s \in Tokens : \A t \in live[s] : c \in Carriers /\ t = call[c].got

IInv == TypeOK /\ SignedInHasToken /\ SessionInv /\ UserInv /\ CallInv /\ CarrierInv
               /\ UpsetInv /\ LeakInv

-----------------------------------------------------------------------------
(* What a step does to the calls.                                          *)

\* The records of calls, with tokens of U.
Record(U) == [kind : Kinds, step : Steps, token : U \cup {NoToken},
              user : Names \cup Users \cup {NoUser}, got : U \cup {NoToken},
              needs : {"none", "reader", "writer"}]

Replaces(c, r) == call' = [call EXCEPT ![c] = r]

\* One call changes, the others do not.
LEMMA ReplacesFacts ==
  ASSUME TypeOK, NEW c \in Calls, NEW r \in Record(used'), used \subseteq used', Replaces(c, r)
  PROVE  /\ call' \in [Calls -> Record(used')]
         /\ call'[c] = r /\ \A d \in Calls \ {c} : call'[d] = call[d]
<1>1. call \in [Calls -> Record(used)]
  BY DEF TypeOK, Record
<1>2. Record(used) \subseteq Record(used')
  BY DEF Record
<1> QED BY <1>1, <1>2 DEF Replaces

\* A record as the tab makes it for a new call.
Sent(k, t, u) == [Idle EXCEPT !.kind = k, !.step = "sent", !.token = t, !.user = u]

\* What a call is before it begins.
LEMMA IdleFacts ==
  /\ Idle.kind = "none" /\ Idle.step = "idle" /\ Idle.token = NoToken /\ Idle.user = NoUser
  /\ Idle.got = NoToken /\ Idle.needs = "none"
  /\ \A U : Idle \in Record(U)
BY DEF Idle, Record, Kinds, Steps

\* ... and when it has begun.
LEMMA SentFacts ==
  ASSUME NEW k \in Kinds, NEW U, NEW t \in U \cup {NoToken}, NEW u \in Names \cup Users \cup {NoUser}
  PROVE  /\ Sent(k, t, u) \in Record(U)
         /\ Sent(k, t, u).kind = k /\ Sent(k, t, u).step = "sent"
         /\ Sent(k, t, u).token = t /\ Sent(k, t, u).user = u
BY DEF Sent, Idle, Record, Kinds, Steps

\* The facts about a call that its kind and step decide.
LEMMA KindFacts ==
  ASSUME TypeOK, NEW c \in Calls
  PROVE  /\ call[c] \in Record(used)
         /\ call[c].kind \in Kinds /\ call[c].step \in Steps
         /\ call[c].token \in used \cup {NoToken} /\ call[c].got \in used \cup {NoToken}
         /\ \A p \in Steps : [call[c] EXCEPT !.step = p] \in Record(used)
<1>1. call[c] \in Record(used)
  BY DEF TypeOK, Record
<1> QED BY <1>1 DEF Record

\* The other calls are as they should be when tokens that are not live stay so
\* and what was given out still speaks for the same users.
LEMMA OthersKeep ==
  ASSUME TypeOK, CallInv, NEW S \in SUBSET Calls, \A d \in S : call'[d] = call[d], used \subseteq used',
         \A t \in used : claims'[t] = claims[t],
         \A t \in used : Of(t) = {} => Of(t)' = {},
         leaked => leaked',
         \A d \in S : call[d].kind = "login" => user' = NoUser,
         \A d \in S : call[d].kind = "login" /\ call[d].step = "ok" => call[d].got \in used,
         \A d \in S : call[d].kind \in Refreshes /\ call[d].step = "turning" => call[d].got \in turning'
  PROVE  \A d \in S : CallOK(d)'
<1> SUFFICES ASSUME NEW d \in S PROVE CallOK(d)'
  OBVIOUS
<1>1. CallOK(d) /\ d \in Calls /\ call'[d] = call[d]
  BY DEF CallInv
<1>2. call[d].kind = "none" => Free(d)'
  BY <1>1 DEF CallOK, Free, Idle
<1>3. call[d].kind = "login" => LoginOK(d)'
  BY <1>1 DEF CallOK, LoginOK
<1>4. call[d].kind = "logout" => LogoutOK(d)'
  BY <1>1 DEF CallOK, LogoutOK, Of
<1>5. call[d].kind \in Refreshes => RefreshOK(d)'
  BY <1>1 DEF CallOK, RefreshOK, Of
<1> QED BY <1>1, <1>2, <1>3, <1>4, <1>5 DEF CallOK, Refreshes

\* A call that carries nothing new leaves the others' tokens undelivered.
LEMMA CarriersKeep ==
  ASSUME TypeOK, CarrierInv, NEW c \in Calls, NEW r, call'[c] = r,
         \A d \in Calls \ {c} : call'[d] = call[d], used \subseteq used',
         r.kind \notin {"login"} \cup Refreshes \/ r.step # "ok",
         \A d \in Carriers \ {c} : call[d].got # r.token /\ call[d].got # stored'
  PROVE  CarrierInv' /\ Carriers' = Carriers \ {c}
<1>1. Carriers' = Carriers \ {c}
  BY DEF Carriers, Is, Refreshes
<1> QED BY <1>1 DEF CarrierInv, Carriers

\* Sessions and users as long as the service does nothing.
LEMMA SessionKeeps ==
  ASSUME SessionInv, UNCHANGED <<sessions, at>>,
         \A c \in Pending : call[c].step = "turning" => call'[c] = call[c]
  PROVE  SessionInv'
BY DEF SessionInv, sessions, Pending

\* ... nor creates users.
LEMMA UserKeeps ==
  ASSUME UserInv, UNCHANGED <<sessions, at, users, claims>>
  PROVE  UserInv'
BY DEF UserInv, sessions, OneEach

\* What the invariant says of a tab for which ~upset and ~leaked hold.
LEMMA UpsetFacts ==
  ASSUME IInv, ~ upset
  PROVE  /\ user # NoUser /\ user \in Users /\ stored \in used
         /\ \A c \in Calls : call[c].kind \notin {"login", "logout"}
         /\ \A c \in Pending : call[c].step # "no"
         /\ \A c \in Pending : call[c].step = "sent" => Of(call[c].token) # {}
<1>1. user \in Users /\ stored # NoToken /\ stored \in used \cup {NoToken}
  BY DEF IInv, UpsetInv, TypeOK
<1>2. \A c \in Calls : call[c].kind \notin {"login", "logout"}
  BY DEF IInv, UpsetInv, Refreshes
<1>3. \A c \in Pending : call[c].step # "no" /\ (call[c].step = "sent" => Of(call[c].token) # {})
  BY DEF IInv, UpsetInv, Continues, Pending, Of
<1> QED BY <1>1, <1>2, <1>3, NothingOK

-----------------------------------------------------------------------------
(* Steps that neither touch the service nor what the tab shows and stores. *)

\* One call begins, ends or fails; it brings no token, and if it refreshes then it
\* presents the stored one, alone, unless `upset' or `leaked' records that it is not so.
LEMMA Quiet ==
  ASSUME IInv, NEW c \in Calls, NEW r \in Record(used), Replaces(c, r),
         UNCHANGED <<service, stored, user>>,
         timer' \in BOOLEAN, refreshPromise' \in Calls \cup {NoCall},
         upset' \in BOOLEAN, leaked' \in BOOLEAN, upset => upset', leaked => leaked',
         call[c].kind \in Refreshes => call[c].step # "turning",
         c \in Carriers => leaked',
         CallOK(c)',
         r.kind = "login" => \A d \in Calls \ {c} : call[d].kind # "login",
         r.kind \in Refreshes => r.step # "turning",
         r.kind \notin {"login"} \cup Refreshes \/ r.step # "ok",
         r.token \in {NoToken, stored, call[c].token},
         r.kind \in Refreshes => leaked' \/ r.step = "no" \/ (r.step = "sent" /\ user # NoUser),
         ~ upset' => /\ c \notin Pending
                     /\ \/ r.kind \in {"none", "request"}
                        \/ /\ r.kind \in Refreshes /\ r.step = "sent" /\ r.token = stored
                           /\ Pending = {}
  PROVE  IInv'
<1>1. UNCHANGED <<used, live, turning, sessions, at, users, claims, expired>>
  BY DEF service, sessions
<1>2. TypeOK
  BY DEF IInv
<1>3. /\ call' \in [Calls -> Record(used')]
      /\ call'[c] = r /\ \A d \in Calls \ {c} : call'[d] = call[d]
  BY <1>1, <1>2, ReplacesFacts
<1>4. TypeOK'
  BY <1>1, <1>2, <1>3 DEF TypeOK, Record
<1>5. SignedInHasToken'
  BY DEF IInv, SignedInHasToken
<1>6. SessionInv' /\ UserInv'
  BY <1>1, <1>3, SessionKeeps, UserKeeps DEF IInv, Pending
<1>7. CallInv'
  <2>1. \A t : Of(t)' = Of(t)
    BY <1>1 DEF Of
  <2>2. \A d \in Calls \ {c} : CallOK(d)'
    <3>1. \A d \in Calls \ {c} : /\ call[d].kind = "login" => user' = NoUser
                                 /\ call[d].kind = "login" /\ call[d].step = "ok" => call[d].got \in used
                                 /\ call[d].kind \in Refreshes /\ call[d].step = "turning"
                                      => call[d].got \in turning'
      BY <1>1 DEF IInv, CallInv, CallOK, LoginOK, RefreshOK, CarrierInv, Carriers, Is
    <3> QED BY <1>1, <1>2, <1>3, <2>1, <3>1, OthersKeep DEF IInv
  <2>3. \A d, e \in Calls : call'[d].kind = "login" /\ call'[e].kind = "login" => d = e
    BY <1>3 DEF IInv, CallInv
  <2>4. \A d, e \in Pending' :
         call'[d].step = "turning" /\ call'[e].step = "turning" /\ call'[d].got = call'[e].got => d = e
    <3>1. \A d \in Pending' : call'[d].step = "turning" => d \in Pending /\ call'[d] = call[d]
      BY <1>3 DEF Pending
    <3> QED BY <3>1 DEF IInv, CallInv
  <2> QED BY <2>2, <2>3, <2>4 DEF CallInv
<1>8. CarrierInv' /\ Carriers' = Carriers \ {c}
  <2>1. \A d \in Carriers \ {c} : call[d].got # r.token /\ call[d].got # stored'
    BY <1>2, NothingOK DEF IInv, CarrierInv, TypeOK
  <2> QED BY <1>1, <1>2, <1>3, <2>1, CarriersKeep DEF IInv
<1>9. UpsetInv'
  <2> SUFFICES ASSUME ~ upset' PROVE UpsetInv'
    BY DEF UpsetInv
  <2>1. c \notin Pending /\ ~ upset
    OBVIOUS
  <2>2. CASE r.kind \in {"none", "request"}
    <3>1. Pending' = Pending
      BY <1>3, <2>1, <2>2 DEF Pending, Refreshes
    <3>2. \A d \in Pending : call'[d] = call[d] /\ (Continues(d) => Continues(d)')
      BY <1>1, <1>3, <2>1 DEF Pending, Continues, Of
    <3> QED BY <1>1, <1>3, <2>1, <2>2, <3>1, <3>2 DEF IInv, UpsetInv, Of
  <2>3. CASE r.kind \in Refreshes /\ r.step = "sent" /\ r.token = stored /\ Pending = {}
    <3>1. Pending' = {c}
      BY <1>3, <2>3 DEF Pending
    <3>2. Of(stored)' # {}
      BY <1>1, <2>1, <2>3 DEF IInv, UpsetInv, Of
    <3> QED BY <1>1, <1>3, <2>1, <2>3, <3>1, <3>2 DEF IInv, UpsetInv, Continues
  <2> QED BY <2>2, <2>3
<1>10. LeakInv'
  <2> SUFFICES ASSUME ~ leaked' PROVE LeakInv'
    BY DEF LeakInv
  <2>1. ~ leaked /\ Carriers' = Carriers
    BY <1>8
  <2>2. Turned' = Turned \ {c}
    BY <1>3 DEF Turned, Pending, Refreshes
  <2>3. \A d \in Pending' : d = c \/ (d \in Pending /\ call'[d] = call[d])
    BY <1>3 DEF Pending
  <2>4. user' = NoUser => stored' = NoToken /\ \A d \in Pending' : call'[d].step = "no"
    BY <1>3, <2>1, <2>3 DEF IInv, LeakInv, Pending
  <2>5. \A d \in Carriers : call'[d] = call[d]
    BY <1>3, <2>1 DEF Carriers
  <2> QED BY <1>1, <1>3, <2>1, <2>2, <2>4, <2>5 DEF IInv, LeakInv, Turned, Pending
<1> QED BY <1>4, <1>5, <1>6, <1>7, <1>8, <1>9, <1>10 DEF IInv

\* Calls after one of them has ended.
LEMMA Ended ==
  ASSUME IInv, NEW c \in Calls, Replaces(c, Idle), UNCHANGED service, leaked => leaked',
         \A d \in Calls \ {c} : call[d].kind = "login" => user' = NoUser,
         call[c].kind \in Refreshes => call[c].step # "turning",
         \A d \in Carriers \ {c} : call[d].got # stored'
  PROVE  /\ SessionInv' /\ UserInv' /\ CallInv' /\ CarrierInv'
         /\ call' \in [Calls -> Record(used')]
         /\ call'[c] = Idle /\ \A d \in Calls \ {c} : call'[d] = call[d]
         /\ Carriers' = Carriers \ {c} /\ Pending' = Pending \ {c} /\ Turned' = Turned \ {c}
<1>1. UNCHANGED <<used, live, turning, sessions, at, users, claims, expired>>
  BY DEF service, sessions
<1>2. TypeOK
  BY DEF IInv
<1>3. /\ call' \in [Calls -> Record(used')]
      /\ call'[c] = Idle /\ \A d \in Calls \ {c} : call'[d] = call[d]
  BY <1>1, <1>2, ReplacesFacts, IdleFacts
<1>4. Idle.kind = "none" /\ Idle.token = NoToken
  BY IdleFacts
<1>5. SessionInv' /\ UserInv'
  BY <1>1, <1>3, SessionKeeps, UserKeeps DEF IInv, Pending
<1>6. CallInv'
  <2>1. \A t : Of(t)' = Of(t)
    BY <1>1 DEF Of
  <2>2. \A d \in Calls \ {c} : CallOK(d)'
    <3>1. \A d \in Calls \ {c} : /\ call[d].kind = "login" /\ call[d].step = "ok" => call[d].got \in used
                                 /\ call[d].kind \in Refreshes /\ call[d].step = "turning"
                                      => call[d].got \in turning'
      BY <1>1 DEF IInv, CallInv, CallOK, RefreshOK, CarrierInv, Carriers, Is
    <3> QED BY <1>1, <1>2, <1>3, <2>1, <3>1, OthersKeep DEF IInv
  <2>3. CallOK(c)'
    BY <1>3, <1>4 DEF CallOK, Free, Idle, Refreshes
  <2>4. \A d, e \in Calls : call'[d].kind = "login" /\ call'[e].kind = "login" => d = e
    BY <1>3, <1>4 DEF IInv, CallInv
  <2>5. \A d, e \in Pending' :
         call'[d].step = "turning" /\ call'[e].step = "turning" /\ call'[d].got = call'[e].got => d = e
    <3>1. \A d \in Pending' : call'[d].step = "turning" => d \in Pending /\ call'[d] = call[d]
      BY <1>3, <1>4 DEF Pending, Refreshes
    <3> QED BY <3>1 DEF IInv, CallInv
  <2> QED BY <2>2, <2>3, <2>4, <2>5 DEF CallInv
<1>7. CarrierInv' /\ Carriers' = Carriers \ {c}
  <2>1. \A d \in Carriers \ {c} : call[d].got # Idle.token
    BY <1>2, <1>4, NothingOK DEF IInv, CarrierInv, TypeOK
  <2>2. Idle.kind \notin {"login"} \cup Refreshes
    BY <1>4 DEF Refreshes
  <2> QED BY <1>1, <1>2, <1>3, <2>1, <2>2, CarriersKeep DEF IInv
<1>8. Pending' = Pending \ {c} /\ Turned' = Turned \ {c}
  BY <1>3, <1>4 DEF Pending, Turned, Refreshes
<1> QED BY <1>3, <1>5, <1>6, <1>7, <1>8

\* Steps that forget the tokens and the user.
LEMMA Cleared ==
  ASSUME IInv, NEW c \in Calls, Replaces(c, Idle), UNCHANGED service,
         stored' = NoToken, user' = NoUser,
         timer' \in BOOLEAN, refreshPromise' \in Calls \cup {NoCall}, leaked' \in BOOLEAN,
         upset', leaked => leaked',
         c \notin Carriers, call[c].kind \in Refreshes => call[c].step # "turning",
         ~ leaked' => /\ \A d \in Pending \ {c} : call[d].step = "no"
                      /\ stored = NoToken \/ Of(stored) = {}
  PROVE  IInv'
<1>1. UNCHANGED <<used, live, turning, at, users, claims, expired>>
  BY DEF service, sessions
<1>2. TypeOK
  BY DEF IInv
<1>3. \A d \in Carriers \ {c} : call[d].got # stored'
  BY <1>2, NothingOK DEF IInv, CarrierInv, TypeOK
<1>4. /\ SessionInv' /\ UserInv' /\ CallInv' /\ CarrierInv'
      /\ call' \in [Calls -> Record(used')]
      /\ call'[c] = Idle /\ \A d \in Calls \ {c} : call'[d] = call[d]
      /\ Carriers' = Carriers \ {c} /\ Pending' = Pending \ {c} /\ Turned' = Turned \ {c}
  BY <1>3, Ended
<1>5. TypeOK'
  BY <1>1, <1>2, <1>4 DEF TypeOK, Record
<1>6. SignedInHasToken' /\ UpsetInv'
  BY DEF SignedInHasToken, UpsetInv
<1>7. LeakInv'
  <2> SUFFICES ASSUME ~ leaked' PROVE LeakInv'
    BY DEF LeakInv
  <2>1. \A s \in Tokens : \A t \in live[s] : t # stored /\ t \in used
    BY <1>2, NothingOK DEF Of, TypeOK
  <2>2. \A d \in Carriers : d \in Calls \ {c} /\ d \in Carriers'
    BY <1>4 DEF Carriers
  <2>3. \A s \in Tokens : \A t \in live'[s] : \E d \in Carriers' : call'[d].got = t
    BY <1>1, <1>4, <2>1, <2>2 DEF IInv, LeakInv
  <2>4. \A d \in Pending' : call'[d].step = "no"
    BY <1>4 DEF Pending
  <2>5. Turned' = {}
    BY <1>4, <2>4 DEF Turned
  <2> QED BY <2>3, <2>4, <2>5 DEF LeakInv
<1> QED BY <1>4, <1>5, <1>6, <1>7 DEF IInv

\* Steps that store the tokens an answer carried.
LEMMA Delivered ==
  ASSUME IInv, NEW c \in Carriers, Replaces(c, Idle), UNCHANGED <<service, leaked>>,
         stored' = call[c].got,
         timer' \in BOOLEAN, refreshPromise' \in Calls \cup {NoCall}, upset' \in BOOLEAN,
         \/ call[c].kind = "login" /\ user' = call[c].user
         \/ call[c].kind \in Refreshes /\ user' = user
  PROVE  /\ TypeOK' /\ SignedInHasToken' /\ SessionInv' /\ UserInv' /\ CallInv' /\ CarrierInv'
         /\ LeakInv' /\ Pending' = Pending \ {c} /\ call'[c] = Idle
         /\ \A d \in Calls \ {c} : call'[d] = call[d]
<1>1. UNCHANGED <<used, live, turning, at, users, claims, expired>>
  BY DEF service, sessions
<1>2. TypeOK /\ c \in Calls /\ call[c].step = "ok" /\ call[c].got \in used
      /\ call[c].kind \in {"login"} \cup Refreshes
  BY DEF IInv, Carriers, CarrierInv, Is
<1>3. \A d \in Carriers \ {c} : call[d].got # stored'
  BY DEF IInv, CarrierInv
<1>4. call[c].kind = "login" => call[c].user \in Users /\ user = NoUser
  BY <1>2 DEF IInv, CallInv, CallOK, LoginOK
<1>5. \A d \in Calls \ {c} : call[d].kind = "login" => user' = NoUser
  <2>1. \A d \in Calls \ {c} : call[d].kind = "login" => call[c].kind # "login" /\ user = NoUser
    BY <1>2 DEF IInv, CallInv, CallOK, LoginOK
  <2> QED BY <2>1
<1>6. /\ SessionInv' /\ UserInv' /\ CallInv' /\ CarrierInv'
      /\ call' \in [Calls -> Record(used')]
      /\ call'[c] = Idle /\ \A d \in Calls \ {c} : call'[d] = call[d]
      /\ Carriers' = Carriers \ {c} /\ Pending' = Pending \ {c} /\ Turned' = Turned \ {c}
  BY <1>2, <1>3, <1>5, Ended
<1>7. TypeOK'
  BY <1>1, <1>2, <1>4, <1>6 DEF TypeOK, Record
<1>8. SignedInHasToken'
  BY <1>2, NothingOK DEF SignedInHasToken, TypeOK
<1>9. LeakInv'
  <2> SUFFICES ASSUME ~ leaked' PROVE LeakInv'
    BY DEF LeakInv
  <2>1. CASE call[c].kind = "login"
    <3>1. stored = NoToken /\ user' # NoUser /\ \A d \in Pending : call[d].step = "no"
      BY <1>4, <2>1, NothingOK DEF IInv, LeakInv, Refreshes
    <3>2. Turned' = {}
      BY <1>6, <3>1 DEF Turned
    <3>3. \A s \in Tokens : \A t \in live[s] : \E d \in Carriers : call[d].got = t
      BY <1>2, <3>1, NothingOK DEF IInv, LeakInv, TypeOK
    <3>4. \A d \in Carriers : d = c \/ (d \in Carriers' /\ call'[d] = call[d])
      BY <1>6 DEF Carriers
    <3> QED BY <1>1, <3>1, <3>2, <3>3, <3>4 DEF LeakInv
  <2>2. CASE call[c].kind \in Refreshes
    <3>1. c \in Turned
      BY <1>2, <2>2 DEF Turned, Pending
    <3>2. user' # NoUser
      <4>1. user' = user /\ ~ leaked
        BY <1>2, <2>2 DEF Refreshes
      <4>2. c \in Pending /\ call[c].step # "no"
        BY <1>2, <2>2 DEF Pending
      <4> QED BY <4>1, <4>2 DEF IInv, LeakInv
    <3>3. \A s \in Tokens : \A t \in live'[s] : t = stored'
      BY <1>1, <3>1 DEF IInv, LeakInv
    <3>4. Turned' = {}
      BY <1>6, <3>1 DEF IInv, LeakInv
    <3> QED BY <3>2, <3>3, <3>4 DEF LeakInv
  <2> QED BY <1>2, <2>1, <2>2
<1> QED BY <1>6, <1>7, <1>8, <1>9

\* What a refresh brings continues the session of the user shown.
LEMMA AnswerStored ==
  ASSUME IInv, NEW c \in Pending, call[c].step = "ok", UNCHANGED <<service, user, upset>>,
         stored' = call[c].got, Pending' = Pending \ {c}, call'[c] = Idle,
         \A d \in Calls \ {c} : call'[d] = call[d]
  PROVE  UpsetInv'
<1> SUFFICES ASSUME ~ upset' PROVE UpsetInv'
  BY DEF UpsetInv
<1>1. c \in Calls /\ claims[call[c].got] = user /\ Of(call[c].got) # {} /\ user \in Users
  BY DEF IInv, UpsetInv, Continues, Pending
<1>2. c \in Carriers
  BY <1>1 DEF Pending, Carriers, Is
<1>3. call[c].got \in used /\ call[c].got # NoToken
  BY <1>2, NothingOK DEF IInv, CarrierInv, TypeOK
<1>4. Pending' = {}
  BY DEF IInv, UpsetInv
<1>5. \A d \in Calls : call'[d].kind \in {"none", "request"} \cup Refreshes
  BY <1>1, IdleFacts DEF IInv, UpsetInv
<1>6. claims' = claims /\ live' = live
  BY DEF service, sessions
<1>7. Of(stored)' # {}
  BY <1>1, <1>6 DEF Of
<1> QED BY <1>1, <1>3, <1>4, <1>5, <1>6, <1>7 DEF UpsetInv

-----------------------------------------------------------------------------
(* The steps of the tab.                                                   *)

\* A login begins: nobody is signed in, so upset holds.
LEMMA SubmitKeeps ==
  ASSUME IInv, NEW c \in Calls, NEW n \in Names, Submit(c, n) PROVE IInv'
<1>0. PICK r : r = Sent("login", NoToken, n)
  OBVIOUS
<1>1. r \in Record(used) /\ r.kind = "login" /\ r.step = "sent" /\ r.token = NoToken
  BY <1>0 DEF Sent, Idle, Record, Kinds, Steps
<1>2. Replaces(c, r) /\ Free(c) /\ user = NoUser
      /\ UNCHANGED <<service, stored, user, timer, refreshPromise, upset, leaked>>
      /\ \A d \in Calls \ {c} : call[d].kind # "login"
  BY <1>0 DEF Submit, Begun, Replaces, Sent, tab
<1>3. call'[c] = r
  BY <1>1, <1>2, ReplacesFacts DEF IInv, service, sessions
<1>4. CallOK(c)' /\ call[c].kind = "none" /\ call[c].step = "idle"
  BY <1>1, <1>2, <1>3, IdleFacts DEF CallOK, LoginOK, Free, Refreshes
<1>5. upset
  BY <1>2, UpsetFacts
<1>6. c \notin Carriers /\ timer \in BOOLEAN /\ refreshPromise \in Calls \cup {NoCall}
      /\ upset \in BOOLEAN /\ leaked \in BOOLEAN
  BY <1>4 DEF Carriers, Is, IInv, TypeOK
<1> QED BY <1>1, <1>2, <1>4, <1>5, <1>6, Quiet DEF Refreshes

\* A call that presents the stored token.
LEMMA PresentKeeps ==
  ASSUME IInv, NEW c \in Calls, NEW k \in {"logout"} \cup Refreshes,
         Begun(c, k, stored, NoUser), stored # NoToken,
         UNCHANGED <<service, stored, user, leaked>>,
         timer' \in BOOLEAN, refreshPromise' \in Calls \cup {NoCall}, upset' \in BOOLEAN,
         upset => upset', c \notin Carriers, call[c].kind \in Refreshes => call[c].step # "turning",
         \/ upset'
         \/ k \in Refreshes /\ Pending = {}
  PROVE  IInv'
<1> DEFINE r == Sent(k, stored, NoUser)
<1>0. stored \in used /\ leaked \in BOOLEAN /\ used' = used
  BY NothingOK DEF IInv, TypeOK, service, sessions
<1>1. r \in Record(used) /\ r.kind = k /\ r.step = "sent" /\ r.token = stored
  BY <1>0, SentFacts DEF Kinds
<1>2. Replaces(c, r)
  BY DEF Begun, Replaces, Sent
<1>3. call'[c] = r
  BY <1>0, <1>1, <1>2, ReplacesFacts DEF IInv
<1>4. CallOK(c)'
  BY <1>0, <1>1, <1>3 DEF CallOK, LogoutOK, RefreshOK, Refreshes
<1>5. k \in Refreshes => leaked' \/ user # NoUser
  BY <1>0 DEF IInv, LeakInv
<1>6. k # "login" /\ (~ upset' => c \notin Pending)
  BY DEF Refreshes
<1> HIDE DEF r
<1> QED BY <1>0, <1>1, <1>2, <1>4, <1>5, <1>6, Quiet

\* A call that just ends.
LEMMA DropKeeps ==
  ASSUME IInv, NEW c \in Calls, Ends(c), UNCHANGED <<service, stored, user, timer, refreshPromise>>,
         upset' \in BOOLEAN, leaked' \in BOOLEAN, upset => upset', leaked => leaked',
         c \in Carriers => leaked', c \in Pending => upset' /\ call[c].step # "turning"
  PROVE  IInv'
<1>1. Idle \in Record(used) /\ Idle.kind = "none" /\ Idle.token = NoToken
  BY IdleFacts
<1>2. Replaces(c, Idle) /\ used' = used /\ timer' \in BOOLEAN /\ refreshPromise' \in Calls \cup {NoCall}
  BY DEF Ends, Replaces, IInv, TypeOK, service, sessions
<1>3. call'[c] = Idle
  BY <1>1, <1>2, ReplacesFacts DEF IInv
<1>4. CallOK(c)'
  BY <1>1, <1>3 DEF CallOK, Free, Idle, Refreshes
<1>5. Idle.kind \notin {"login"} \cup Refreshes
  BY <1>1 DEF Refreshes
<1>6. /\ call[c].kind \in Refreshes => call[c].step # "turning"
      /\ ~ upset' => c \notin Pending
  BY DEF Pending
<1> QED BY <1>1, <1>2, <1>4, <1>5, <1>6, Quiet

\* A request takes the stored token along, which is not one on its way.
LEMMA RequestKeeps ==
  ASSUME IInv, NEW c \in Calls, NEW role \in {"reader", "writer"}, Request(c, role) PROVE IInv'
<1>0. PICK r : r = [Idle EXCEPT !.kind = "request", !.step = "sent", !.token = stored, !.needs = role]
  OBVIOUS
<1>1. /\ r.kind = "request" /\ r.step = "sent" /\ r.token = stored
      /\ r \in Record(used)
  BY <1>0 DEF Idle, Record, Kinds, Steps, IInv, TypeOK
<1>2. Replaces(c, r) /\ Free(c)
      /\ UNCHANGED <<service, stored, user, timer, refreshPromise, upset, leaked>>
  BY <1>0 DEF Request, Replaces, tab
<1>3. call'[c] = r
  BY <1>1, <1>2, ReplacesFacts DEF IInv, service, sessions
<1>4. CallOK(c)' /\ call[c].kind = "none" /\ call[c].step = "idle"
  BY <1>1, <1>2, <1>3, IdleFacts DEF CallOK, Free, Refreshes
<1>5. c \notin Carriers /\ timer \in BOOLEAN /\ refreshPromise \in Calls \cup {NoCall}
      /\ upset \in BOOLEAN /\ leaked \in BOOLEAN /\ c \notin Pending
  BY <1>4 DEF Carriers, Pending, Refreshes, Is, IInv, TypeOK
<1>6. r.kind \notin {"login"} \cup Refreshes /\ call[c].kind \notin Refreshes
  BY <1>1, <1>4 DEF Refreshes
<1> QED BY <1>1, <1>2, <1>4, <1>5, <1>6, Quiet

\* The button: there is a token to present, because somebody is signed in.
LEMMA LogoutKeeps ==
  ASSUME IInv, NEW c \in Calls, Logout(c) PROVE IInv'
<1>1. stored # NoToken
  BY DEF IInv, SignedInHasToken, Logout
<1>2. /\ Begun(c, "logout", stored, NoUser) /\ Free(c) /\ upset' = TRUE
      /\ UNCHANGED <<service, stored, user, timer, refreshPromise, leaked>>
  BY <1>1 DEF Logout, logout, tab
<1>3. c \notin Carriers /\ call[c].kind \notin Refreshes
      /\ timer \in BOOLEAN /\ refreshPromise \in Calls \cup {NoCall}
  BY <1>2, IdleFacts DEF Carriers, Free, Is, Refreshes, IInv, TypeOK
<1> QED BY <1>1, <1>2, <1>3, PresentKeeps

\* A logout has been answered: the token it presented is dead, and if another is
\* stored by now, or on its way, `leaked' says so.
LEMMA LogoutDoneKeeps ==
  ASSUME IInv, NEW c \in Calls, LogoutDone(c) PROVE IInv'
<1>1. /\ call[c].kind = "logout" /\ call[c].step \in {"ok", "no"}
      /\ Replaces(c, Idle) /\ stored' = NoToken /\ user' = NoUser /\ timer' = FALSE
      /\ leaked' = (leaked \/ Overtaken(call[c].token))
      /\ UNCHANGED <<service, refreshPromise, upset>>
  BY DEF LogoutDone, Is, Ends, Replaces, Clear
<1>2. upset /\ refreshPromise \in Calls \cup {NoCall} /\ leaked' \in BOOLEAN
  BY <1>1, UpsetFacts DEF IInv, TypeOK
<1>3. c \notin Carriers /\ c \notin Pending /\ call[c].kind \notin Refreshes
  BY <1>1 DEF Carriers, Is, Pending, Refreshes
<1>4. ASSUME ~ leaked'
      PROVE  /\ \A d \in Pending \ {c} : call[d].step = "no"
             /\ stored = NoToken \/ Of(stored) = {}
  <2>1. ~ leaked /\ stored \in {call[c].token, NoToken} /\ \A d \in Pending : call[d].step = "no"
    BY <1>1, <1>4 DEF Overtaken
  <2>2. Of(call[c].token) = {}
    BY <1>1, <2>1 DEF IInv, CallInv, CallOK, LogoutOK
  <2> QED BY <2>1, <2>2
<1> QED BY <1>1, <1>2, <1>3, <1>4, Cleared

\* logout() with nothing to present.
LEMMA ForgetKeeps ==
  ASSUME IInv, NEW c \in Calls, stored = NoToken, Ends(c), Clear,
         leaked' = (leaked \/ Overtaken(NoToken)), UNCHANGED <<service, refreshPromise>>, upset',
         c \notin Carriers, call[c].kind \in Refreshes => call[c].step # "turning"
  PROVE  IInv'
<1>1. /\ Replaces(c, Idle) /\ stored' = NoToken /\ user' = NoUser /\ timer' = FALSE
      /\ refreshPromise' \in Calls \cup {NoCall} /\ leaked' \in BOOLEAN
  BY DEF Ends, Replaces, Clear, IInv, TypeOK
<1>2. ~ leaked' => \A d \in Pending \ {c} : call[d].step = "no"
  BY DEF Overtaken
<1> QED BY <1>1, <1>2, Cleared

\* The timer presents the stored token; another refresh under way makes it `upset'.
LEMMA SilentRefreshKeeps ==
  ASSUME IInv, NEW c \in Calls, SilentRefresh(c) PROVE IInv'
<1>1. Free(c) /\ UNCHANGED <<service, refreshPromise>>
  BY DEF SilentRefresh
<1>2. c \notin Carriers /\ call[c].kind \notin Refreshes
      /\ refreshPromise' \in Calls \cup {NoCall} /\ upset \in BOOLEAN
  BY <1>1, IdleFacts DEF Carriers, Free, Is, Refreshes, IInv, TypeOK
<1>3. CASE stored = NoToken
  <2>1. Ends(c) /\ Clear /\ leaked' = (leaked \/ Overtaken(NoToken)) /\ UNCHANGED upset
    BY <1>3 DEF SilentRefresh, logout
  <2>2. upset
    BY <1>3, NothingOK, UpsetFacts DEF IInv, TypeOK
  <2> QED BY <1>1, <1>2, <1>3, <2>1, <2>2, ForgetKeeps
<1>4. CASE stored # NoToken
  <2>1. /\ Begun(c, "silent", stored, NoUser) /\ timer' = FALSE
        /\ upset' = (upset \/ Pending # {}) /\ UNCHANGED <<stored, user, leaked>>
    BY <1>4 DEF SilentRefresh
  <2> QED BY <1>1, <1>2, <1>4, <2>1, PresentKeeps DEF Refreshes
<1> QED BY <1>3, <1>4

\* An answer from the refresh endpoint reaches the timer's callback.
LEMMA SilentDoneKeeps ==
  ASSUME IInv, NEW c \in Calls, SilentDone(c) PROVE IInv'
<1>1. UNCHANGED <<service, refreshPromise, upset>> /\ call[c].kind = "silent" /\ call[c].kind \in Refreshes
  BY DEF SilentDone, Is, Refreshes
<1>2. TypeOK /\ refreshPromise' \in Calls \cup {NoCall} /\ upset' \in BOOLEAN /\ c \in Pending
  BY <1>1 DEF IInv, TypeOK, Pending
<1>3. CASE call[c].step = "ok"
  <2>1. Replaces(c, Idle) /\ stored' = call[c].got /\ timer' = TRUE /\ UNCHANGED <<user, leaked>>
        /\ c \in Carriers
    BY <1>1, <1>3 DEF SilentDone, Is, Ends, Replaces, storeTokens, Carriers
  <2>2. /\ TypeOK' /\ SignedInHasToken' /\ SessionInv' /\ UserInv' /\ CallInv' /\ CarrierInv'
        /\ LeakInv' /\ Pending' = Pending \ {c} /\ call'[c] = Idle
        /\ \A d \in Calls \ {c} : call'[d] = call[d]
    BY <1>1, <1>2, <2>1, Delivered
  <2>3. UpsetInv'
    BY <1>1, <1>2, <1>3, <2>1, <2>2, AnswerStored
  <2> QED BY <2>2, <2>3 DEF IInv
<1>4. CASE call[c].step = "no"
  <2>1. upset' /\ c \notin Carriers /\ logout(c) /\ call[c].step # "turning"
    BY <1>1, <1>2, <1>4, UpsetFacts DEF SilentDone, Is, Carriers
  <2>2. CASE stored = NoToken
    BY <1>1, <2>1, <2>2, ForgetKeeps DEF logout
  <2>3. CASE stored # NoToken
    <3>1. Begun(c, "logout", stored, NoUser) /\ UNCHANGED <<stored, user, timer, leaked>>
          /\ timer' \in BOOLEAN
      BY <2>1, <2>3, <1>2 DEF logout, tab, TypeOK
    <3> QED BY <1>1, <1>2, <2>1, <2>3, <3>1, PresentKeeps
  <2> QED BY <2>2, <2>3
<1> QED BY <1>3, <1>4 DEF SilentDone, Is

\* A login has been answered: its session is the user's, unless it ended meanwhile.
LEMMA LoginDoneKeeps ==
  ASSUME IInv, NEW c \in Calls, LoginDone(c) PROVE IInv'
<1>1. /\ UNCHANGED <<service, refreshPromise, leaked>> /\ call[c].kind = "login" /\ call[c].step = "ok"
      /\ Replaces(c, Idle) /\ stored' = call[c].got /\ timer' = TRUE /\ user' = call[c].user
      /\ upset' = (Of(call[c].got) = {} \/ \E d \in Calls \ {c} : ~ Free(d))
  BY DEF LoginDone, Is, Ends, Replaces, storeTokens
<1>2. TypeOK /\ refreshPromise' \in Calls \cup {NoCall} /\ upset' \in BOOLEAN /\ c \in Carriers
  BY <1>1 DEF IInv, TypeOK, Carriers, Is
<1>3. /\ TypeOK' /\ SignedInHasToken' /\ SessionInv' /\ UserInv' /\ CallInv' /\ CarrierInv'
      /\ LeakInv' /\ Pending' = Pending \ {c} /\ call'[c] = Idle
      /\ \A d \in Calls \ {c} : call'[d] = call[d]
  BY <1>1, <1>2, Delivered
<1>4. UpsetInv'
  <2> SUFFICES ASSUME ~ upset' PROVE UpsetInv'
    BY DEF UpsetInv
  <2>1. Of(call[c].got) # {} /\ \A d \in Calls : call'[d] = Idle
    BY <1>1, <1>3 DEF Free
  <2>2. claims[call[c].got] = call[c].user /\ call[c].got \in used
    BY <1>1, <1>2 DEF IInv, CallInv, CallOK, LoginOK, CarrierInv
  <2>3. user' \in Users
    BY <1>1 DEF IInv, CallInv, CallOK, LoginOK
  <2>4. Pending' = {} /\ \A d \in Calls : call'[d].kind = "none"
    BY <2>1, IdleFacts DEF Pending, Refreshes
  <2>5. stored' # NoToken /\ claims' = claims /\ live' = live
    BY <1>1, <1>2, <2>2, NothingOK DEF TypeOK, service, sessions
  <2>6. Of(stored)' # {}
    BY <1>1, <2>1, <2>5 DEF Of
  <2> QED BY <1>1, <2>2, <2>3, <2>4, <2>5, <2>6 DEF UpsetInv
<1> QED BY <1>3, <1>4 DEF IInv

\* A 401 waits for a refresh, starts one, or forgets a user without tokens.
LEMMA UnauthorizedKeeps ==
  ASSUME IInv, NEW c \in Calls, Unauthorized(c) PROVE IInv'
<1>1. UNCHANGED service /\ call[c].kind = "request" /\ call[c].step = "sent"
  BY DEF Unauthorized, Is
<1>2. c \notin Carriers /\ c \notin Pending /\ call[c].kind \notin Refreshes
  BY <1>1 DEF Carriers, Pending, Is, Refreshes
<1>3. TypeOK /\ timer \in BOOLEAN /\ upset \in BOOLEAN /\ leaked \in BOOLEAN
      /\ refreshPromise \in Calls \cup {NoCall}
  BY DEF IInv, TypeOK
<1>4. CASE Ends(c) /\ UNCHANGED <<tab, refreshPromise, upset, leaked>>
  <2>1. UNCHANGED <<stored, user, timer>>
    BY <1>4 DEF tab
  <2> QED BY <1>1, <1>2, <1>3, <1>4, <2>1, DropKeeps
<1>5. CASE /\ stored # NoToken /\ Begun(c, "api", stored, NoUser) /\ refreshPromise' = c
           /\ upset' = (upset \/ Pending # {}) /\ UNCHANGED <<tab, leaked>>
  <2>1. UNCHANGED <<stored, user, timer>> /\ timer' \in BOOLEAN /\ upset' \in BOOLEAN
    BY <1>3, <1>5 DEF tab
  <2> QED BY <1>1, <1>2, <1>5, <2>1, PresentKeeps DEF Refreshes
<1>6. CASE /\ stored = NoToken /\ Ends(c) /\ Clear /\ leaked' = (leaked \/ Overtaken(NoToken))
           /\ UNCHANGED <<refreshPromise, upset>>
  <2>1. upset
    BY <1>3, <1>6, NothingOK, UpsetFacts DEF TypeOK
  <2> QED BY <1>1, <1>2, <1>6, <2>1, ForgetKeeps
<1> QED BY <1>4, <1>5, <1>6 DEF Unauthorized

\* The refresh of a 401 has been answered: the tokens are stored, or everything is
\* forgotten, which cannot happen to a user who is not `upset'.
LEMMA ApiDoneKeeps ==
  ASSUME IInv, NEW c \in Calls, ApiDone(c) PROVE IInv'
<1>1. /\ UNCHANGED <<service, upset>> /\ call[c].kind = "api" /\ call[c].kind \in Refreshes
      /\ Replaces(c, Idle) /\ refreshPromise' = NoCall
  BY DEF ApiDone, Is, Refreshes, Ends, Replaces
<1>2. TypeOK /\ refreshPromise' \in Calls \cup {NoCall} /\ upset' \in BOOLEAN /\ c \in Pending
      /\ timer \in BOOLEAN /\ leaked \in BOOLEAN
  BY <1>1 DEF IInv, TypeOK, Pending
<1>3. CASE call[c].step = "ok"
  <2>1. stored' = call[c].got /\ UNCHANGED <<timer, user, leaked>> /\ c \in Carriers
    BY <1>1, <1>3 DEF ApiDone, Is, Carriers
  <2>2. /\ TypeOK' /\ SignedInHasToken' /\ SessionInv' /\ UserInv' /\ CallInv' /\ CarrierInv'
        /\ LeakInv' /\ Pending' = Pending \ {c} /\ call'[c] = Idle
        /\ \A d \in Calls \ {c} : call'[d] = call[d]
    BY <1>1, <1>2, <2>1, Delivered
  <2>3. UpsetInv'
    BY <1>1, <1>2, <1>3, <2>1, <2>2, AnswerStored
  <2> QED BY <2>2, <2>3 DEF IInv
<1>4. CASE call[c].step = "no"
  <2>1. upset' /\ c \notin Carriers
    BY <1>1, <1>2, <1>4, UpsetFacts DEF Is, Carriers
  <2>2. Of(call[c].token) = {} \/ leaked
    BY <1>1, <1>4 DEF IInv, CallInv, CallOK, RefreshOK
  <2>3. CASE user # NoUser
    <3>1. /\ stored' = NoToken /\ user' = NoUser /\ timer' = FALSE
          /\ leaked' = (leaked \/ Overtaken(call[c].token))
      BY <1>4, <2>3 DEF ApiDone, Is, Clear
    <3>2. ASSUME ~ leaked'
          PROVE  /\ \A d \in Pending \ {c} : call[d].step = "no"
                 /\ stored = NoToken \/ Of(stored) = {}
      <4>1. ~ leaked /\ stored \in {call[c].token, NoToken} /\ \A d \in Pending : call[d].step = "no"
        BY <3>1, <3>2 DEF Overtaken
      <4> QED BY <2>2, <4>1
    <3> QED BY <1>1, <1>2, <1>4, <2>1, <3>1, <3>2, Cleared
  <2>4. CASE user = NoUser
    <3>1. stored' = NoToken /\ UNCHANGED <<user, timer, leaked>>
      BY <1>4, <2>4 DEF ApiDone, Is
    <3>2. ~ leaked => /\ \A d \in Pending \ {c} : call[d].step = "no"
                      /\ stored = NoToken
      BY <2>4 DEF IInv, LeakInv
    <3> QED BY <1>1, <1>2, <1>4, <2>1, <2>4, <3>1, <3>2, Cleared
  <2> QED BY <2>3, <2>4
<1> QED BY <1>3, <1>4 DEF ApiDone, Is

\* The answer to a request ends the call, and nothing else.
LEMMA AnsweredKeeps ==
  ASSUME IInv, NEW c \in Calls, Served(c) \/ Forbidden(c) \/ LoginRefused(c) PROVE IInv'
<1>1. /\ Ends(c) /\ UNCHANGED <<service, stored, user, timer, refreshPromise, upset, leaked>>
      /\ call[c].kind \in {"request", "login"} /\ call[c].step = "sent"
  BY DEF Served, Forbidden, LoginRefused, Is, tab
<1>2. c \notin Carriers /\ c \notin Pending /\ upset \in BOOLEAN /\ leaked \in BOOLEAN
  BY <1>1 DEF Carriers, Pending, Is, Refreshes, IInv, TypeOK
<1> QED BY <1>1, <1>2, DropKeeps

\* A call that ends without tokens, by refusal or loss.
LEMMA BecomesFacts ==
  ASSUME TypeOK, NEW c \in Calls, NEW p \in Steps, Becomes(c, p)
  PROVE  \E r \in Record(used) : /\ Replaces(c, r)
                                 /\ r.kind = call[c].kind /\ r.token = call[c].token
                                 /\ r.got = call[c].got /\ r.step = p
<1> DEFINE r == [call[c] EXCEPT !.step = p]
<1>1. call \in [Calls -> Record(used)] /\ call[c] \in Record(used)
  BY DEF TypeOK, Record
<1>2. r \in Record(used) /\ Replaces(c, r)
  BY <1>1 DEF Becomes, Replaces, Record
<1>3. /\ r.kind = call[c].kind /\ r.token = call[c].token
      /\ r.got = call[c].got /\ r.step = p
  BY <1>1 DEF Record
<1> HIDE DEF r
<1> QED BY <1>2, <1>3

\* A logout or a refresh comes to nothing.
LEMMA FailsKeeps ==
  ASSUME IInv, NEW c \in Calls, Becomes(c, "no"), UNCHANGED <<service, tab, refreshPromise>>,
         upset' = TRUE, leaked' \in BOOLEAN, leaked => leaked',
         call[c].kind \in {"logout"} \cup Refreshes, call[c].step \in {"sent", "ok"},
         \/ leaked'
         \/ /\ call[c].kind \in Refreshes /\ call[c].step = "sent"
            /\ call[c].kind = "api" => Of(call[c].token) = {}
  PROVE  IInv'
<1>0. TypeOK /\ used' = used /\ live' = live /\ UNCHANGED <<stored, user, timer>> /\ "no" \in Steps
  BY DEF IInv, service, sessions, tab, Steps
<1>1. PICK r \in Record(used) :
             /\ Replaces(c, r)
             /\ r.kind = call[c].kind /\ r.token = call[c].token
             /\ r.got = call[c].got /\ r.step = "no"
  BY <1>0, BecomesFacts
<1>2. call'[c] = r
  BY <1>0, <1>1, ReplacesFacts
<1>3. timer' \in BOOLEAN /\ refreshPromise' \in Calls \cup {NoCall} /\ call[c].step # "turning"
  BY <1>0 DEF TypeOK
<1>4. r.kind = call[c].kind /\ r.kind # "login" /\ call[c].kind # "none" /\ call[c].kind # "request"
  BY <1>1 DEF Refreshes
<1>5. CallOK(c)'
  <2>1. CASE call[c].kind = "logout"
    <3>1. LogoutOK(c)'
      BY <1>0, <1>1, <1>2, <2>1 DEF IInv, CallInv, CallOK, LogoutOK, Refreshes
    <3> QED BY <1>2, <1>4, <2>1, <3>1 DEF CallOK, Refreshes
  <2>2. CASE call[c].kind \in Refreshes
    <3>1. RefreshOK(c)'
      BY <1>0, <1>1, <1>2, <2>2 DEF IInv, CallInv, CallOK, RefreshOK, Of
    <3> QED BY <1>2, <1>4, <2>2, <3>1 DEF CallOK, Refreshes
  <2> QED BY <2>1, <2>2
<1>6. c \in Carriers => leaked'
  BY DEF Carriers, Is
<1> QED BY <1>0, <1>1, <1>3, <1>4, <1>5, <1>6, Quiet

\* A refresh is refused: the session was over, so somebody was `upset' before, or it
\* went astray, which `upset' records, and `leaked' when tokens will be forgotten.
LEMMA RefusedKeeps ==
  ASSUME IInv, NEW c \in Calls, Refused(c) PROVE IInv'
<1>1. /\ Becomes(c, "no") /\ UNCHANGED <<service, tab, refreshPromise>>
      /\ call[c].kind \in Refreshes /\ call[c].step = "sent"
      /\ upset' = (upset \/ Of(call[c].token) # {})
      /\ leaked' = (leaked \/ (Of(call[c].token) # {} /\ call[c].kind = "api"))
  BY DEF Refused, Is
<1>2. upset \in BOOLEAN /\ leaked \in BOOLEAN /\ c \in Pending
  BY <1>1 DEF IInv, TypeOK, Pending
<1>3. upset' = TRUE /\ leaked' \in BOOLEAN /\ (leaked => leaked')
  <2>1. upset \/ Of(call[c].token) # {}
    BY <1>1, <1>2, UpsetFacts
  <2> QED BY <1>1, <1>2, <2>1
<1>4. leaked' \/ (call[c].kind = "api" => Of(call[c].token) = {})
  BY <1>1, <1>2
<1> QED BY <1>1, <1>3, <1>4, FailsKeeps

\* A call is lost: a login just ends, the others fail.
LEMMA LostKeeps ==
  ASSUME IInv, NEW c \in Calls, Lost(c) PROVE IInv'
<1>1. /\ call[c].kind \in {"login", "logout"} \cup Refreshes /\ call[c].step \in {"sent", "ok"}
      /\ upset' = TRUE /\ leaked' = TRUE /\ UNCHANGED <<service, tab, refreshPromise>>
      /\ UNCHANGED <<stored, user, timer>>
  BY DEF Lost, Is, tab
<1>2. CASE call[c].kind = "login"
  <2>1. Ends(c) /\ c \notin Pending
    BY <1>2 DEF Lost, Pending, Refreshes
  <2> QED BY <1>1, <2>1, DropKeeps
<1>3. CASE call[c].kind # "login"
  <2>1. Becomes(c, "no")
    BY <1>3 DEF Lost
  <2> QED BY <1>1, <1>3, <2>1, FailsKeeps
<1> QED BY <1>2, <1>3

-----------------------------------------------------------------------------
(* The steps of the service.                                               *)

\* Sessions end: a logout, seven days, a refresh that fails, a new process.
LEMMA Closes ==
  ASSUME IInv, NEW S \in SUBSET Tokens, EndAll(S),
         UNCHANGED <<claims, expired, tab, refreshPromise>>,
         upset' = TRUE \/ (upset' = upset /\ S = {} /\ call' = call),
         leaked' \in BOOLEAN, leaked => leaked',
         users' \in [Replicas -> SUBSET Users],
         \A r \in Replicas : /\ OneEach(users'[r]) /\ Seed \subseteq users'[r]
                             /\ users'[r] = users[r] \/ at[r] \subseteq S,
         call' \in [Calls -> Record(used)],
         \A d \in Calls : /\ call'[d].kind = call[d].kind /\ call'[d].token = call[d].token
                          /\ call'[d].got = call[d].got,
         \A d \in Calls :
           \/ call'[d] = call[d] /\ (d \in Pending /\ call[d].step = "turning" => call[d].got \notin S)
           \/ /\ d \in Pending /\ call[d].step = "turning" /\ call[d].got \in S
              /\ call'[d].step = "no"
           \/ /\ call[d].kind = "logout" /\ call'[d].step = "ok"
              /\ leaked' \/ Of(call[d].token) \subseteq S
  PROVE  IInv'
<1>1. /\ TypeOK /\ UNCHANGED <<used, claims, expired, stored, user, timer>> /\ turning' = turning \ S
      /\ live' = [s \in Tokens |-> IF s \in S THEN {} ELSE live[s]]
      /\ at' = [r \in Replicas |-> at[r] \ S]
  BY DEF EndAll, Close, tab, IInv
<1>2. \A s \in Tokens : live'[s] \subseteq live[s] /\ (s \in S => live'[s] = {})
  BY <1>1
<1>3. Pending' = Pending
  BY DEF Pending
<1>4. Carriers' = Carriers /\ \A d \in Carriers : call'[d] = call[d]
  <2>1. \A d \in Calls : (d \in Carriers' <=> d \in Carriers) /\ (d \in Carriers => call'[d] = call[d])
    BY DEF Carriers, Is, Pending, Refreshes
  <2> QED BY <2>1 DEF Carriers
<1>5. \A d \in Pending : call'[d] = call[d] \/ (call[d].step = "turning" /\ call'[d].step = "no")
  BY DEF Pending, Refreshes
<1>6. TypeOK'
  BY <1>1 DEF TypeOK, Record
<1>7. SignedInHasToken'
  BY <1>1 DEF IInv, SignedInHasToken
<1>8. SessionInv'
  <2>1. \A s \in turning' : \E d \in Pending' : call'[d].step = "turning" /\ call'[d].got = s
    BY <1>1, <1>3 DEF IInv, SessionInv, Pending, Refreshes
  <2>2. \A r, q \in Replicas : at'[r] \cap at'[q] # {} => r = q
    BY <1>1 DEF IInv, SessionInv
  <2>3. \A s \in Tokens : live'[s] # {} \/ s \in turning' => \E r \in Replicas : s \in at'[r]
    BY <1>1, <1>2 DEF IInv, SessionInv
  <2>4. /\ \A s \in Tokens : live'[s] # {} => s \in used' \ turning'
        /\ \A r, s \in Tokens : live'[r] \cap live'[s] # {} => r = s
    BY <1>1, <1>2 DEF IInv, SessionInv
  <2> QED BY <2>1, <2>2, <2>3, <2>4 DEF SessionInv
<1>9. UserInv'
  <2>1. \A r \in Replicas : \A s \in at'[r] :
          s \in at[r] /\ s \in Tokens /\ users'[r] = users[r] /\ live'[s] \subseteq live[s]
    BY <1>1, <1>2 DEF TypeOK
  <2>2. \A s \in Tokens : \A t \in live'[s] : t \in live[s] /\ t \in Tokens
    BY <1>1, <1>2 DEF TypeOK
  <2>3. \A r \in Replicas : \A s \in at'[r] : \A t \in live'[s] : claims'[t] \in users'[r]
    BY <1>1, <2>1 DEF IInv, UserInv
  <2>4. \A s \in Tokens : \A t \in live'[s] : claims'[t].name = claims'[s].name
    BY <1>1, <2>2 DEF IInv, UserInv
  <2> QED BY <1>1, <2>3, <2>4 DEF IInv, UserInv
<1>10. CallInv'
  <2>1. \A d \in Calls : CallOK(d)'
    <3> SUFFICES ASSUME NEW d \in Calls PROVE CallOK(d)'
      OBVIOUS
    <3>1. \A t : Of(t)' \subseteq Of(t) /\ (Of(t) \subseteq S => Of(t)' = {})
      BY <1>2 DEF Of
    <3>2. CallOK(d) /\ call'[d].kind = call[d].kind /\ call'[d].token = call[d].token
          /\ call'[d].got = call[d].got
      BY DEF IInv, CallInv
    <3>3. CASE call'[d] = call[d] /\ (d \in Pending /\ call[d].step = "turning" => call[d].got \notin S)
      <4>1. call[d].kind = "none" => Free(d)'
        BY <3>2, <3>3 DEF CallOK, Free, Idle
      <4>2. call[d].kind = "login" => LoginOK(d)'
        BY <1>1, <3>2, <3>3 DEF CallOK, LoginOK
      <4>3. call[d].kind = "logout" => LogoutOK(d)'
        BY <1>1, <3>1, <3>2, <3>3 DEF CallOK, LogoutOK
      <4>4. call[d].kind \in Refreshes => RefreshOK(d)'
        BY <1>1, <3>1, <3>2, <3>3 DEF CallOK, RefreshOK, Pending
      <4> QED BY <3>2, <3>3, <4>1, <4>2, <4>3, <4>4 DEF CallOK
    <3>4. CASE d \in Pending /\ call[d].step = "turning" /\ call'[d].step = "no"
      <4>1. RefreshOK(d)'
        BY <1>1, <3>1, <3>2, <3>4 DEF CallOK, RefreshOK, Pending
      <4> QED BY <3>2, <3>4, <4>1 DEF CallOK, Pending, Refreshes
    <3>5. CASE /\ call[d].kind = "logout" /\ call'[d].step = "ok"
               /\ leaked' \/ Of(call[d].token) \subseteq S
      <4>1. LogoutOK(d)'
        BY <1>1, <3>1, <3>2, <3>5 DEF CallOK, LogoutOK
      <4> QED BY <3>2, <3>5, <4>1 DEF CallOK, Refreshes
    <3> QED BY <3>3, <3>4, <3>5
  <2>2. \A d, e \in Calls : call'[d].kind = "login" /\ call'[e].kind = "login" => d = e
    BY DEF IInv, CallInv
  <2>3. \A d, e \in Pending' :
         call'[d].step = "turning" /\ call'[e].step = "turning" /\ call'[d].got = call'[e].got => d = e
    BY <1>3, <1>5 DEF IInv, CallInv
  <2> QED BY <2>1, <2>2, <2>3 DEF CallInv
<1>11. CarrierInv'
  BY <1>1, <1>4 DEF IInv, CarrierInv
<1>12. LeakInv'
  <2> SUFFICES ASSUME ~ leaked' PROVE LeakInv'
    BY DEF LeakInv
  <2>1. ~ leaked
    OBVIOUS
  <2>2. user' = NoUser => stored' = NoToken /\ \A d \in Pending' : call'[d].step = "no"
    BY <1>1, <1>3, <1>5, <2>1 DEF IInv, LeakInv
  <2>3. \A d \in Turned' : d \in Turned /\ call'[d].got = call[d].got
    BY <1>3, <1>5 DEF Turned, Pending
  <2> QED BY <1>1, <1>2, <1>4, <2>1, <2>2, <2>3 DEF IInv, LeakInv
<1>13. UpsetInv'
  <2> SUFFICES ASSUME ~ upset' PROVE UpsetInv'
    BY DEF UpsetInv
  <2>1. ~ upset /\ S = {} /\ call' = call
    OBVIOUS
  <2>2. live' = live /\ \A r \in Replicas : at'[r] = at[r] /\ (at[r] # {} => users'[r] = users[r])
    BY <1>1, <2>1 DEF TypeOK
  <2>3. \A t : Of(t)' = Of(t)
    BY <2>2 DEF Of
  <2>4. \A d \in Pending : Continues(d) => Continues(d)'
    BY <1>1, <2>1, <2>2, <2>3 DEF Continues
  <2> QED BY <1>1, <1>3, <2>1, <2>3, <2>4 DEF IInv, UpsetInv
<1> QED BY <1>6, <1>7, <1>8, <1>9, <1>10, <1>11, <1>12, <1>13 DEF IInv

\* A refresh fails inside the service: it alone held the session.
LEMMA NotReissuedKeeps ==
  ASSUME IInv, NEW c \in Calls, NotReissued(c) PROVE IInv'
<1> DEFINE S == {call[c].got}
<1>1. /\ call[c].kind \in Refreshes /\ call[c].step = "turning" /\ c \in Pending
      /\ EndAll(S) /\ Becomes(c, "no") /\ upset' = TRUE
      /\ UNCHANGED <<users, claims, expired, tab, refreshPromise, leaked>>
  BY DEF NotReissued, Is, Pending
<1>2. TypeOK /\ used' = used /\ "no" \in Steps /\ leaked \in BOOLEAN
  BY <1>1 DEF IInv, EndAll, Close, Steps, TypeOK
<1>3. call[c].got \in turning /\ S \in SUBSET Tokens
  BY <1>1, <1>2 DEF IInv, CallInv, CallOK, RefreshOK, TypeOK
<1>4. PICK r \in Record(used) : /\ Replaces(c, r)
                                /\ r.kind = call[c].kind /\ r.token = call[c].token
                                /\ r.got = call[c].got /\ r.step = "no"
  BY <1>1, <1>2, BecomesFacts
<1>5. call' \in [Calls -> Record(used)] /\ call'[c] = r /\ \A d \in Calls \ {c} : call'[d] = call[d]
  BY <1>2, <1>4, ReplacesFacts
<1>6. \A d \in Calls : /\ call'[d].kind = call[d].kind /\ call'[d].token = call[d].token
                       /\ call'[d].got = call[d].got
  BY <1>4, <1>5
<1>7. \A d \in Calls :
        \/ call'[d] = call[d] /\ (d \in Pending /\ call[d].step = "turning" => call[d].got \notin S)
        \/ d \in Pending /\ call[d].step = "turning" /\ call[d].got \in S /\ call'[d].step = "no"
  BY <1>1, <1>4, <1>5 DEF IInv, CallInv
<1>8. /\ users' \in [Replicas -> SUBSET Users] /\ users' = users
      /\ \A p \in Replicas : OneEach(users'[p]) /\ Seed \subseteq users'[p]
  BY <1>1, <1>2 DEF IInv, UserInv, TypeOK
<1>9. leaked' \in BOOLEAN /\ (leaked => leaked')
  BY <1>1, <1>2
<1> HIDE DEF S
<1> QED BY <1>1, <1>3, <1>5, <1>6, <1>7, <1>8, <1>9, Closes

\* A logout is served: the session of the token it presents ends, if this replica
\* has it; none that is being refreshed does.
LEMMA ServeLogoutKeeps ==
  ASSUME IInv, NEW c \in Calls, ServeLogout(c) PROVE IInv'
<1>0. PICK q \in Replicas : /\ EndAll(Of(call[c].token) \cap at[q])
                            /\ leaked' = (leaked \/ ~ Of(call[c].token) \subseteq at[q])
  BY DEF ServeLogout
<1> DEFINE S == Of(call[c].token) \cap at[q]
<1>1. /\ call[c].kind = "logout" /\ call[c].step = "sent" /\ c \notin Pending
      /\ EndAll(S) /\ Becomes(c, "ok")
      /\ UNCHANGED <<users, claims, expired, tab, refreshPromise, upset>>
  BY <1>0 DEF ServeLogout, Is, Pending, Refreshes
<1>2. /\ TypeOK /\ used' = used /\ "ok" \in Steps /\ S \in SUBSET Tokens
      /\ leaked' \in BOOLEAN /\ (leaked => leaked')
      /\ leaked' \/ Of(call[c].token) \subseteq S
  BY <1>0, <1>1 DEF IInv, EndAll, Close, Steps, Of, TypeOK
<1>3. upset' = TRUE
  <2>1. upset
    BY <1>1, UpsetFacts
  <2> QED BY <1>1, <1>2, <2>1 DEF TypeOK
<1>4. PICK r \in Record(used) : /\ Replaces(c, r)
                                /\ r.kind = call[c].kind /\ r.token = call[c].token
                                /\ r.got = call[c].got /\ r.step = "ok"
  BY <1>1, <1>2, BecomesFacts
<1>5. call' \in [Calls -> Record(used)] /\ call'[c] = r /\ \A d \in Calls \ {c} : call'[d] = call[d]
  BY <1>2, <1>4, ReplacesFacts
<1>6. \A d \in Calls : /\ call'[d].kind = call[d].kind /\ call'[d].token = call[d].token
                       /\ call'[d].got = call[d].got
  BY <1>4, <1>5
<1>7. \A d \in Pending : call[d].step = "turning" => call[d].got \notin S
  BY DEF IInv, SessionInv, CallInv, CallOK, RefreshOK, Pending, Of
<1>8. \A d \in Calls :
        \/ call'[d] = call[d] /\ (d \in Pending /\ call[d].step = "turning" => call[d].got \notin S)
        \/ /\ call[d].kind = "logout" /\ call'[d].step = "ok"
           /\ leaked' \/ Of(call[d].token) \subseteq S
  BY <1>1, <1>2, <1>4, <1>5, <1>7
<1>9. /\ users' \in [Replicas -> SUBSET Users] /\ users' = users
      /\ \A p \in Replicas : OneEach(users'[p]) /\ Seed \subseteq users'[p]
  BY <1>1, <1>2 DEF IInv, UserInv, TypeOK
<1> HIDE DEF S
<1> QED BY <1>1, <1>2, <1>3, <1>5, <1>6, <1>8, <1>9, Closes

\* Seven days: a session that lives is not being refreshed.
LEMMA SessionExpiresKeeps ==
  ASSUME IInv, NEW s \in Tokens, SessionExpires(s) PROVE IInv'
<1>1. /\ live[s] # {} /\ EndAll({s}) /\ upset' = TRUE
      /\ UNCHANGED <<users, claims, expired, tab, refreshPromise, call, leaked>>
  BY DEF SessionExpires
<1>2. \A d \in Pending : call[d].step = "turning" => call[d].got \notin {s}
  BY <1>1 DEF IInv, SessionInv, CallInv, CallOK, RefreshOK, Pending
<1>3. /\ users' \in [Replicas -> SUBSET Users] /\ users' = users
      /\ \A p \in Replicas : OneEach(users'[p]) /\ Seed \subseteq users'[p]
      /\ call' = call /\ call' \in [Calls -> Record(used)] /\ leaked' \in BOOLEAN
  BY <1>1 DEF IInv, UserInv, TypeOK, Record
<1>4. /\ \A d \in Calls : /\ call'[d].kind = call[d].kind /\ call'[d].token = call[d].token
                          /\ call'[d].got = call[d].got
      /\ \A d \in Calls :
           call'[d] = call[d] /\ (d \in Pending /\ call[d].step = "turning" => call[d].got \notin {s})
  BY <1>2, <1>3
<1> QED BY <1>1, <1>3, <1>4, Closes

\* A replica is replaced: its sessions end, its refreshes fail, and its users are
\* the seeded ones.  One without sessions takes nothing along.
LEMMA RestartKeeps ==
  ASSUME IInv, NEW q \in Replicas, Restart(q) PROVE IInv'
<1>1. /\ EndAll(at[q]) /\ upset' = (upset \/ at[q] # {}) /\ users' = [users EXCEPT ![q] = Seed]
      /\ call' = [c \in Calls |-> IF call[c].step = "turning" /\ call[c].got \in at[q]
                                    THEN [call[c] EXCEPT !.step = "no"] ELSE call[c]]
      /\ UNCHANGED <<claims, expired, tab, refreshPromise, leaked>>
  BY DEF Restart, Gone
<1>2. at[q] \in SUBSET Tokens /\ upset \in BOOLEAN /\ leaked' \in BOOLEAN
  BY <1>1 DEF IInv, TypeOK
<1>3. /\ users' \in [Replicas -> SUBSET Users]
      /\ \A r \in Replicas : /\ OneEach(users'[r]) /\ Seed \subseteq users'[r]
                             /\ users'[r] = users[r] \/ at[r] \subseteq at[q]
  BY <1>1, SeedOK DEF IInv, UserInv, TypeOK
<1>4. \A d \in Calls :
        /\ call'[d] \in Record(used)
        /\ call'[d].kind = call[d].kind /\ call'[d].token = call[d].token
        /\ call'[d].got = call[d].got
        /\ IF call[d].step = "turning" /\ call[d].got \in at[q]
             THEN call'[d].step = "no" ELSE call'[d] = call[d]
  <2> SUFFICES ASSUME NEW d \in Calls
               PROVE  /\ call'[d] \in Record(used)
                      /\ call'[d].kind = call[d].kind /\ call'[d].token = call[d].token
                      /\ call'[d].got = call[d].got
                      /\ IF call[d].step = "turning" /\ call[d].got \in at[q]
                           THEN call'[d].step = "no" ELSE call'[d] = call[d]
    OBVIOUS
  <2>1. call[d] \in Record(used)
    BY KindFacts DEF IInv
  <2>2. call'[d] = IF call[d].step = "turning" /\ call[d].got \in at[q]
                     THEN [call[d] EXCEPT !.step = "no"] ELSE call[d]
    BY <1>1
  <2> QED BY ONLY <2>1, <2>2 DEF Record, Steps
<1>5. call' \in [Calls -> Record(used)]
  BY <1>1, <1>4
<1>6. \A d \in Calls : call[d].step = "turning" => d \in Pending
  <2> SUFFICES ASSUME NEW d \in Calls, call[d].step = "turning"
               PROVE  d \in Pending
    OBVIOUS
  <2>1. CallOK(d) /\ call[d].kind \in Kinds
    BY KindFacts DEF IInv, CallInv
  <2>2. call[d].kind \in Refreshes
    BY <2>1 DEF CallOK, Free, Idle, LoginOK, LogoutOK, Kinds
  <2> QED BY <2>2 DEF Pending
<1>7. \A d \in Calls :
        \/ call'[d] = call[d] /\ (d \in Pending /\ call[d].step = "turning" => call[d].got \notin at[q])
        \/ d \in Pending /\ call[d].step = "turning" /\ call[d].got \in at[q] /\ call'[d].step = "no"
  BY <1>4, <1>6
<1>8. upset' = TRUE \/ (upset' = upset /\ at[q] = {} /\ call' = call)
  <2>1. CASE at[q] # {}
    BY <1>1, <1>2, <2>1
  <2>2. CASE at[q] = {}
    <3>1. \A d \in Calls : call'[d] = call[d]
      BY <1>4, <2>2
    <3>2. call' = call
      BY <1>5, <3>1 DEF IInv, TypeOK
    <3> QED BY <1>1, <1>2, <2>2, <3>2
  <2> QED BY <2>1, <2>2
<1> QED BY <1>1, <1>2, <1>3, <1>4, <1>5, <1>7, <1>8, Closes

\* A token is turned in: nothing of its session lives until it is given a new one.
LEMMA ConsumeKeeps ==
  ASSUME IInv, NEW c \in Calls, Consume(c) PROVE IInv'
<1>1. PICK s \in Of(call[c].token) :
        TurnIn(s) /\ call' = [call EXCEPT ![c].step = "turning", ![c].got = s]
  BY DEF Consume
<1>2. /\ call[c].kind \in Refreshes /\ call[c].step = "sent" /\ c \in Pending
      /\ UNCHANGED <<used, at, users, claims, expired, stored, user, timer, refreshPromise, upset, leaked>>
  BY <1>1 DEF Consume, Is, Pending, tab, TurnIn
<1>3. TypeOK /\ s \in Tokens /\ call[c].token \in live[s] /\ s \in used \ turning /\ call[c].token \in used
  BY <1>1 DEF IInv, SessionInv, Of, TypeOK
<1>4. live' = [live EXCEPT ![s] = {}] /\ turning' = turning \cup {s}
  BY <1>1 DEF TurnIn
<1>5. \A x \in Tokens : live'[x] = IF x = s THEN {} ELSE live[x]
  BY <1>3, <1>4 DEF TypeOK
<1>6. PICK r \in Record(used) :
        /\ Replaces(c, r) /\ r.kind = call[c].kind /\ r.token = call[c].token
        /\ r.step = "turning" /\ r.got = s
  <2> DEFINE r == [call[c] EXCEPT !.step = "turning", !.got = s]
  <2>1. call \in [Calls -> Record(used)] /\ call[c] \in Record(used)
    BY <1>3 DEF TypeOK, Record
  <2>2. r \in Record(used) /\ Replaces(c, r)
    BY <1>1, <1>3, <2>1 DEF Replaces, Record, Steps
  <2>3. r.kind = call[c].kind /\ r.token = call[c].token /\ r.step = "turning" /\ r.got = s
    BY <2>1 DEF Record
  <2> HIDE DEF r
  <2> QED BY <2>2, <2>3
<1>7. /\ call' \in [Calls -> Record(used')]
      /\ call'[c] = r /\ \A d \in Calls \ {c} : call'[d] = call[d]
  BY <1>2, <1>3, <1>6, ReplacesFacts
<1>8. Carriers' = Carriers /\ c \notin Carriers /\ \A d \in Carriers : call'[d] = call[d]
  <2>1. \A d \in Calls : d \in Carriers' <=> d \in Carriers
    BY <1>2, <1>6, <1>7 DEF Carriers, Is
  <2> QED BY <1>2, <1>7, <2>1 DEF Carriers, Is
<1>9. Pending' = Pending
  BY <1>6, <1>7 DEF Pending
<1>10. TypeOK'
  BY <1>2, <1>3, <1>4, <1>5, <1>7 DEF TypeOK, Record
<1>11. SignedInHasToken'
  BY <1>2 DEF IInv, SignedInHasToken
<1>12. SessionInv'
  <2>1. \A x \in turning' : \E d \in Pending' : call'[d].step = "turning" /\ call'[d].got = x
    BY <1>2, <1>4, <1>6, <1>7, <1>9 DEF IInv, SessionInv, Pending
  <2>2. \A x \in Tokens : live'[x] # {} \/ x \in turning' => \E q \in Replicas : x \in at'[q]
    BY <1>2, <1>3, <1>4, <1>5 DEF IInv, SessionInv
  <2>3. /\ \A x \in Tokens : live'[x] # {} => x \in used' \ turning'
        /\ \A x, y \in Tokens : live'[x] \cap live'[y] # {} => x = y
    BY <1>2, <1>4, <1>5 DEF IInv, SessionInv
  <2> QED BY <1>2, <2>1, <2>2, <2>3 DEF IInv, SessionInv
<1>13. UserInv'
  <2>1. \A x \in Tokens : live'[x] \subseteq live[x]
    BY <1>5
  <2> QED BY <1>2, <1>3, <2>1 DEF IInv, UserInv, TypeOK
<1>14. CallInv'
  <2>1. \A t : Of(t)' \subseteq Of(t)
    BY <1>5 DEF Of
  <2>2. \A d \in Calls \ {c} : CallOK(d)'
    <3>1. \A d \in Calls \ {c} : /\ call[d].kind = "login" => user' = NoUser
                                 /\ call[d].kind = "login" /\ call[d].step = "ok" => call[d].got \in used
                                 /\ call[d].kind \in Refreshes /\ call[d].step = "turning"
                                      => call[d].got \in turning'
      BY <1>2, <1>4 DEF IInv, CallInv, CallOK, LoginOK, RefreshOK, CarrierInv, Carriers, Is
    <3>2. \A t \in used : (Of(t) = {} => Of(t)' = {}) /\ claims'[t] = claims[t]
      BY <1>2, <2>1
    <3> QED BY <1>2, <1>3, <1>7, <3>1, <3>2, OthersKeep DEF IInv
  <2>3. Of(call[c].token)' = {}
    <3>1. \A x \in Tokens : call[c].token \notin live'[x]
      BY <1>3, <1>5 DEF IInv, SessionInv
    <3>2. call'[c].token = call[c].token
      BY <1>6, <1>7
    <3> QED BY <3>1, <3>2 DEF Of
  <2>4. CallOK(c)'
    <3>1. RefreshOK(c)'
      BY <1>2, <1>3, <1>4, <1>6, <1>7, <2>3 DEF RefreshOK
    <3> QED BY <1>2, <1>6, <1>7, <3>1 DEF CallOK, Refreshes
  <2>5. \A d, e \in Calls : call'[d].kind = "login" /\ call'[e].kind = "login" => d = e
    BY <1>6, <1>7 DEF IInv, CallInv
  <2>6. \A d, e \in Pending' :
         call'[d].step = "turning" /\ call'[e].step = "turning" /\ call'[d].got = call'[e].got => d = e
    <3>1. \A d \in Pending \ {c} : call[d].step = "turning" => call[d].got # s
      BY <1>3 DEF IInv, CallInv, CallOK, RefreshOK, Pending
    <3>2. \A d \in Pending \ {c} : call'[d] = call[d]
      BY <1>7 DEF Pending
    <3> QED BY <1>6, <1>7, <1>9, <3>1, <3>2 DEF IInv, CallInv
  <2> QED BY <2>2, <2>4, <2>5, <2>6 DEF CallInv
<1>15. CarrierInv'
  <2>1. \A d \in Calls : call'[d].token = call[d].token
    BY <1>6, <1>7
  <2> QED BY <1>2, <1>8, <2>1 DEF IInv, CarrierInv
<1>16. UpsetInv'
  <2> SUFFICES ASSUME ~ upset' PROVE UpsetInv'
    BY DEF UpsetInv
  <2>1. call[c].token = stored /\ claims[stored] = user /\ Pending = {c}
    BY <1>2 DEF IInv, UpsetInv
  <2>2. claims[s].name = user.name
    BY <1>3, <2>1 DEF IInv, UserInv
  <2>3. \E q \in Replicas : s \in at[q] /\ user \in users[q]
    <3>1. PICK q \in Replicas : s \in at[q]
      BY <1>3 DEF IInv, SessionInv
    <3> QED BY <1>3, <2>1, <3>1 DEF IInv, UserInv
  <2>4. Continues(c)'
    BY <1>2, <1>6, <1>7, <2>2, <2>3 DEF Continues
  <2>5. \A d \in Calls : call'[d].kind = call[d].kind /\ call'[d].token = call[d].token
    BY <1>6, <1>7
  <2> QED BY <1>2, <1>9, <2>1, <2>4, <2>5 DEF IInv, UpsetInv
<1>17. LeakInv'
  <2> SUFFICES ASSUME ~ leaked' PROVE LeakInv'
    BY DEF LeakInv
  <2>1. ~ leaked /\ user # NoUser
    BY <1>2 DEF IInv, LeakInv
  <2>2. Turned = {}
    BY <1>2, <1>3, <2>1 DEF IInv, LeakInv, CarrierInv
  <2>3. Carriers = {}
    <3>1. \A d \in Calls : call[d].kind # "login"
      BY <2>1 DEF IInv, CallInv, CallOK, LoginOK
    <3> QED BY <2>2, <3>1 DEF Carriers, Turned, Is, Pending
  <2>4. \A x \in Tokens : \A t \in live[x] : t = stored
    BY <2>1, <2>3 DEF IInv, LeakInv
  <2>5. \A x \in Tokens : live'[x] = {}
    BY <1>3, <1>5, <2>4 DEF IInv, SessionInv
  <2>6. \A d \in Turned' : d = c
    BY <1>7, <1>9, <2>2 DEF Turned, Pending
  <2> QED BY <1>2, <2>1, <2>5, <2>6 DEF LeakInv
<1> QED BY <1>10, <1>11, <1>12, <1>13, <1>14, <1>15, <1>16, <1>17 DEF IInv

\* A session that nobody has, or that replica q has already, is one of q.
LEMMA Held ==
  ASSUME TypeOK, SessionInv, NEW s \in Tokens, NEW q \in Replicas,
         \/ s \notin used /\ at' = [at EXCEPT ![q] = @ \cup {s}]
         \/ s \in at[q] /\ at' = at
  PROVE  /\ at' \in [Replicas -> SUBSET (used \cup {s})]
         /\ \A p \in Replicas : \A x : x \in at'[p] <=> x \in at[p] \/ (p = q /\ x = s)
         /\ \A p \in Replicas : s \in at'[p] => p = q
         /\ \A o, p \in Replicas : at'[o] \cap at'[p] # {} => o = p
<1>1. at \in [Replicas -> SUBSET used]
  BY DEF TypeOK
<1>2. \A o, p \in Replicas : \A x : x \in at[o] /\ x \in at[p] => o = p
  BY DEF SessionInv
<1>3. CASE s \notin used /\ at' = [at EXCEPT ![q] = @ \cup {s}]
  <2>1. \A p \in Replicas : \A x : x \in at'[p] <=> x \in at[p] \/ (p = q /\ x = s)
    BY <1>1, <1>3
  <2>2. \A p \in Replicas : s \notin at[p]
    BY <1>1, <1>3
  <2>3. \A o, p \in Replicas : \A x : x \in at'[o] /\ x \in at'[p] => o = p
    BY ONLY <1>2, <2>1, <2>2
  <2> QED BY <1>1, <1>3, <2>1, <2>2, <2>3
<1>4. CASE s \in at[q] /\ at' = at
  BY <1>1, <1>2, <1>4
<1> QED BY <1>3, <1>4

\* A new token, of a new session or of one whose token was turned in, goes into
\* the answer of one call.
LEMMA Issued ==
  ASSUME IInv, NEW c \in Calls, NEW f \in Tokens \ used, NEW s \in Tokens,
         NEW q \in Replicas, NEW u \in users[q],
         used' = used \cup {f}, live' = [live EXCEPT ![s] = {f}], live[s] = {},
         turning' = turning \ {s}, claims' = [claims EXCEPT ![f] = u],
         NEW r \in Record(used'), Replaces(c, r), r.kind = call[c].kind, r.token = call[c].token,
         r.step = "ok", r.got = f,
         UNCHANGED <<users, expired, stored, user, timer, refreshPromise, upset, leaked>>,
         \/ /\ call[c].kind = "login" /\ call[c].step = "sent" /\ s = f /\ r.user = u
            /\ at' = [at EXCEPT ![q] = @ \cup {s}]
         \/ /\ call[c].kind \in Refreshes /\ call[c].step = "turning" /\ call[c].got = s
            /\ u.name = claims[s].name /\ s \in at[q] /\ at' = at
  PROVE  IInv'
<1>1. TypeOK /\ u \in Users /\ u # NoUser /\ f # NoToken /\ c \notin Carriers
  BY NothingOK DEF IInv, TypeOK, Carriers, Is
<1>2. /\ call' \in [Calls -> Record(used')]
      /\ call'[c] = r /\ \A d \in Calls \ {c} : call'[d] = call[d]
  BY <1>1, ReplacesFacts
<1>3. /\ \A x \in Tokens : live'[x] = IF x = s THEN {f} ELSE live[x]
      /\ \A t \in Tokens : claims'[t] = IF t = f THEN u ELSE claims[t]
      /\ \A t \in used : t # f /\ claims'[t] = claims[t]
  BY <1>1 DEF TypeOK
<1>4. /\ \A x \in Tokens : live[x] # {} => x \in used \ turning /\ x # f /\ x # s
      /\ \A x \in Tokens : \A t \in live[x] : t \in used /\ t # f
  BY <1>1 DEF IInv, SessionInv, TypeOK
<1>5. call[c].kind \in Refreshes =>
        c \in Pending /\ s \in turning /\ Of(call[c].token) = {} /\ call[c].token \in used
  <2> SUFFICES ASSUME call[c].kind \in Refreshes
               PROVE  c \in Pending /\ s \in turning /\ Of(call[c].token) = {} /\ call[c].token \in used
    OBVIOUS
  <2>1. call[c].step = "turning" /\ call[c].got = s
    BY DEF Refreshes
  <2>2. RefreshOK(c)
    BY DEF IInv, CallInv, CallOK
  <2> QED BY <2>1, <2>2 DEF RefreshOK, Pending
<1>6. /\ at' \in [Replicas -> SUBSET used']
      /\ \A p \in Replicas : \A x : x \in at'[p] <=> x \in at[p] \/ (p = q /\ x = s)
      /\ \A p \in Replicas : s \in at'[p] => p = q
      /\ \A o, p \in Replicas : at'[o] \cap at'[p] # {} => o = p
  <2>1. \/ s \notin used /\ at' = [at EXCEPT ![q] = @ \cup {s}]
        \/ s \in at[q] /\ at' = at
    OBVIOUS
  <2>2. SessionInv /\ used \cup {s} \subseteq used'
    BY <1>1, <2>1 DEF IInv, TypeOK
  <2>3. /\ at' \in [Replicas -> SUBSET (used \cup {s})]
        /\ \A p \in Replicas : \A x : x \in at'[p] <=> x \in at[p] \/ (p = q /\ x = s)
        /\ \A p \in Replicas : s \in at'[p] => p = q
        /\ \A o, p \in Replicas : at'[o] \cap at'[p] # {} => o = p
    BY <1>1, <2>1, <2>2, Held
  <2> QED BY ONLY <2>2, <2>3
<1>7. Pending' = Pending /\ Carriers' = Carriers \cup {c} /\ \A d \in Carriers : d # c /\ call'[d] = call[d]
  <2>1. \A d \in Calls : (d \in Pending' <=> d \in Pending) /\ (d \in Carriers' <=> d \in Carriers \cup {c})
    BY <1>1, <1>2 DEF Pending, Carriers, Is
  <2> QED BY <1>1, <1>2, <2>1 DEF Pending, Carriers
<1>8. TypeOK'
  <2>1. /\ live' \in [Tokens -> SUBSET used'] /\ claims' \in [Tokens -> Users \cup {NoUser}]
        /\ at' \in [Replicas -> SUBSET used']
    BY <1>1, <1>3, <1>6 DEF TypeOK
  <2> QED BY <1>1, <1>2, <2>1 DEF TypeOK, Record
<1>9. SignedInHasToken'
  BY DEF IInv, SignedInHasToken
<1>10. SessionInv'
  <2>1. \A x \in turning' : \E d \in Pending' : call'[d].step = "turning" /\ call'[d].got = x
    <3> SUFFICES ASSUME NEW x \in turning' PROVE \E d \in Pending : call'[d].step = "turning" /\ call'[d].got = x
      BY <1>7
    <3>1. PICK d \in Pending : call[d].step = "turning" /\ call[d].got = x
      BY DEF IInv, SessionInv
    <3>2. d # c /\ d \in Calls
      BY <3>1 DEF Pending
    <3> QED BY <1>2, <3>1, <3>2
  <2>2. s \in used' /\ s \notin turning'
    BY <1>1, <1>5 DEF TypeOK
  <2>3. \A x \in Tokens : live'[x] # {} => x \in used' \ turning'
    BY <1>3, <1>4, <2>2
  <2>4. \A x, y \in Tokens : live'[x] \cap live'[y] # {} => x = y
    BY <1>3, <1>4 DEF IInv, SessionInv
  <2>5. \A x \in Tokens : live'[x] # {} \/ x \in turning' => \E p \in Replicas : x \in at'[p]
    <3>1. \A x \in Tokens : live[x] # {} \/ x \in turning => \E p \in Replicas : x \in at[p]
      BY DEF IInv, SessionInv
    <3>2. \A x \in Tokens \ {s} : live'[x] # {} \/ x \in turning' => live[x] # {} \/ x \in turning
      BY <1>3
    <3> QED BY ONLY <1>6, <3>1, <3>2, q \in Replicas
  <2> QED BY <1>6, <2>1, <2>3, <2>4, <2>5 DEF SessionInv
<1>11. UserInv'
  <2>1. \A t \in used' : claims'[t] \in Users
    BY <1>1, <1>3 DEF IInv, UserInv
  <2>2. claims'[f] = u /\ claims'[s].name = u.name
    BY <1>1, <1>3, <1>5 DEF TypeOK
  <2>3. \A x \in Tokens : \A t \in live'[x] : claims'[t].name = claims'[x].name
    <3>1. \A x \in Tokens \ {s} : \A t \in live'[x] : claims'[t].name = claims'[x].name
      BY <1>3, <1>4 DEF IInv, UserInv
    <3> QED BY <1>3, <2>2, <3>1
  <2>4. ASSUME NEW p \in Replicas, NEW x \in at'[p], NEW t \in live'[x]
        PROVE  claims'[t] \in users'[p]
    <3>1. x \in Tokens
      BY <1>1, <1>6 DEF TypeOK
    <3>2. CASE x = s
      <4>1. p = q /\ t = f /\ users'[p] = users[p]
        BY <1>3, <1>6, <3>1, <3>2
      <4> QED BY <2>2, <4>1
    <3>3. CASE x # s
      <4>1. x \in at[p] /\ t \in live[x] /\ users'[p] = users[p] /\ claims'[t] = claims[t]
        BY <1>3, <1>4, <1>6, <3>1, <3>3
      <4> QED BY <4>1 DEF IInv, UserInv
    <3> QED BY <3>2, <3>3
  <2> QED BY <2>1, <2>3, <2>4 DEF IInv, UserInv
<1>12. CallInv'
  <2>1. \A t \in used : Of(t)' \subseteq Of(t)
    BY <1>3 DEF Of
  <2>2. \A d \in Calls \ {c} : CallOK(d)'
    <3>1. \A d \in Calls \ {c} : /\ call[d].kind = "login" => user' = NoUser
                                 /\ call[d].kind = "login" /\ call[d].step = "ok" => call[d].got \in used
      BY DEF IInv, CallInv, CallOK, LoginOK, CarrierInv, Carriers, Is
    <3>2. \A d \in Calls \ {c} : call[d].kind \in Refreshes /\ call[d].step = "turning"
                                   => call[d].got \in turning'
      <4>1. \A d \in Pending : call[d].step = "turning" => call[d].got \in turning
        BY DEF IInv, CallInv, CallOK, RefreshOK, Pending
      <4>2. \A d \in Pending \ {c} : call[d].step = "turning" => call[d].got # s
        BY <1>1, <1>5, <4>1 DEF IInv, CallInv, TypeOK
      <4> QED BY <4>1, <4>2 DEF Pending
    <3>3. \A t \in used : (Of(t) = {} => Of(t)' = {}) /\ claims'[t] = claims[t]
      BY <1>3, <2>1
    <3> QED BY <1>1, <1>2, <3>1, <3>2, <3>3, OthersKeep DEF IInv
  <2>3. CallOK(c)'
    <3>1. CASE call[c].kind = "login"
      <4>1. user = NoUser
        BY <3>1 DEF IInv, CallInv, CallOK, LoginOK
      <4>2. LoginOK(c)'
        BY <1>1, <1>2, <1>3, <3>1, <4>1 DEF LoginOK, Refreshes
      <4> QED BY <1>2, <3>1, <4>2 DEF CallOK, Refreshes
    <3>2. CASE call[c].kind \in Refreshes
      <4>1. \A x \in Tokens : call[c].token \notin live'[x]
        BY <1>3, <1>5, <3>2 DEF Of
      <4>2. Of(call[c].token)' = {}
        BY <1>2, <4>1 DEF Of
      <4>3. RefreshOK(c)'
        BY <1>2, <1>5, <3>2, <4>2 DEF RefreshOK
      <4> QED BY <1>2, <3>2, <4>3 DEF CallOK, Refreshes
    <3> QED BY <3>1, <3>2
  <2>4. \A d, e \in Calls : call'[d].kind = "login" /\ call'[e].kind = "login" => d = e
    BY <1>2 DEF IInv, CallInv
  <2>5. \A d, e \in Pending' :
         call'[d].step = "turning" /\ call'[e].step = "turning" /\ call'[d].got = call'[e].got => d = e
    <3>1. \A d \in Pending' : call'[d].step = "turning" => d \in Pending /\ call'[d] = call[d]
      BY <1>2 DEF Pending
    <3> QED BY <3>1 DEF IInv, CallInv
  <2> QED BY <2>2, <2>3, <2>4, <2>5 DEF CallInv
<1>13. CarrierInv'
  <2>1. \A d \in Calls : call'[d].token = call[d].token /\ call[d].token # f
    BY <1>1, <1>2, KindFacts
  <2>2. stored # f /\ \A d \in Carriers : call[d].got # f /\ call[d].got \in used
    BY <1>1 DEF IInv, CarrierInv, TypeOK
  <2> QED BY <1>2, <1>7, <2>1, <2>2 DEF IInv, CarrierInv
<1>14. UpsetInv'
  <2> SUFFICES ASSUME ~ upset' PROVE UpsetInv'
    BY DEF UpsetInv
  <2>1. /\ ~ upset /\ call[c].kind \in Refreshes /\ Pending = {c} /\ stored \in used
        /\ \E p \in Replicas : s \in at[p] /\ user \in users[p]
        /\ user \in Users /\ claims[s].name = user.name /\ call[c].token = stored
    <3>1. ~ upset /\ call[c].kind # "login" /\ stored \in used
      BY UpsetFacts
    <3> QED BY <1>5, <3>1 DEF IInv, UpsetInv, Continues
  <2>2. u = user
    <3>1. u.name = user.name /\ s \in at[q]
      BY <2>1 DEF Refreshes
    <3>2. user \in users[q]
      BY <2>1, <3>1 DEF IInv, SessionInv
    <3> QED BY <3>1, <3>2 DEF IInv, UserInv, OneEach
  <2>3. Of(f)' # {}
    BY <1>3 DEF Of
  <2>4. Continues(c)'
    BY <1>2, <1>3, <2>2, <2>3 DEF Continues, Of
  <2>5. \A d \in Calls : call'[d].kind = call[d].kind /\ call'[d].token = call[d].token
    BY <1>2
  <2> QED BY <1>3, <1>7, <2>1, <2>4, <2>5 DEF IInv, UpsetInv
<1>15. LeakInv'
  <2> SUFFICES ASSUME ~ leaked' PROVE LeakInv'
    BY DEF LeakInv
  <2>0. ~ leaked
    OBVIOUS
  <2>1. user' = NoUser => stored' = NoToken /\ \A d \in Pending' : call'[d].step = "no"
    <3>1. user = NoUser => c \notin Pending /\ stored = NoToken /\ \A d \in Pending : call[d].step = "no"
      BY <2>0 DEF IInv, LeakInv, Refreshes
    <3> QED BY <1>2, <1>7, <3>1 DEF Pending
  <2>2. \A x \in Tokens : \A t \in live'[x] : t = stored' \/ \E d \in Carriers' : call'[d].got = t
    BY <1>2, <1>3, <1>7, <2>0 DEF IInv, LeakInv
  <2>3. CASE call[c].kind = "login"
    <3>1. \A d \in Pending : call[d].step = "no"
      BY <2>0, <2>3 DEF IInv, CallInv, CallOK, LoginOK, LeakInv
    <3>2. Turned' = {}
      <4>1. c \notin Pending
        BY <2>3 DEF Pending, Refreshes
      <4> QED BY <1>2, <1>7, <3>1, <4>1 DEF Turned, Pending
    <3> QED BY <2>1, <2>2, <3>2 DEF LeakInv
  <2>4. CASE call[c].kind \in Refreshes
    <3>1. c \in Turned /\ Turned' = Turned
      <4>1. c \in Turned
        BY <1>5, <2>4 DEF Turned, Refreshes
      <4>2. \A d \in Pending : call'[d].step \in {"turning", "ok"} <=> call[d].step \in {"turning", "ok"}
        BY <1>2, <2>4 DEF Pending, Refreshes
      <4> QED BY <1>7, <4>1, <4>2 DEF Turned
    <3>2. \A x \in Tokens : live[x] = {}
      BY <1>1, <2>0, <3>1 DEF IInv, LeakInv
    <3>3. \A x \in Tokens : \A t \in live'[x] : t = f
      BY <1>3, <3>2
    <3>4. \A d \in Turned' : d = c
      BY <2>0, <3>1 DEF IInv, LeakInv
    <3> QED BY <1>2, <1>7, <2>1, <2>2, <3>3, <3>4 DEF LeakInv
  <2> QED BY <2>3, <2>4
<1> QED BY <1>8, <1>9, <1>10, <1>11, <1>12, <1>13, <1>14, <1>15 DEF IInv

\* A login is served with a session of its own.
LEMMA ServeLoginKeeps ==
  ASSUME IInv, NEW c \in Calls, ServeLogin(c) PROVE IInv'
<1>0. PICK q \in Replicas : \E u \in users[q] :
        /\ u.name = call[c].user
        /\ at' = [at EXCEPT ![q] = @ \cup {Fresh}]
        /\ claims' = [claims EXCEPT ![Fresh] = u]
        /\ call' = [call EXCEPT ![c].step = "ok", ![c].got = Fresh, ![c].user = u]
  BY DEF ServeLogin
<1>1. PICK u \in users[q] :
        /\ u.name = call[c].user
        /\ at' = [at EXCEPT ![q] = @ \cup {Fresh}]
        /\ claims' = [claims EXCEPT ![Fresh] = u]
        /\ call' = [call EXCEPT ![c].step = "ok", ![c].got = Fresh, ![c].user = u]
  BY <1>0
<1>2. PICK f : f = Fresh
  OBVIOUS
<1>3. /\ call[c].kind = "login" /\ call[c].step = "sent" /\ used # Tokens /\ Open(f)
      /\ UNCHANGED <<users, expired, stored, user, timer, refreshPromise, upset, leaked>>
  BY <1>2 DEF ServeLogin, Is, tab
<1>4. TypeOK /\ f \in Tokens \ used
  BY <1>2, <1>3 DEF IInv, TypeOK, Fresh
<1>5. /\ used' = used \cup {f} /\ live' = [live EXCEPT ![f] = {f}] /\ live[f] = {}
      /\ turning' = turning \ {f} /\ u \in Users
  BY <1>3, <1>4 DEF Open, IInv, SessionInv, TypeOK
<1>6. PICK r \in Record(used') :
        /\ Replaces(c, r) /\ r.kind = call[c].kind /\ r.token = call[c].token
        /\ r.step = "ok" /\ r.got = f /\ r.user = u
  <2> DEFINE r == [call[c] EXCEPT !.step = "ok", !.got = f, !.user = u]
  <2>1. call \in [Calls -> Record(used)] /\ call[c] \in Record(used)
    BY <1>4 DEF TypeOK, Record
  <2>2. r \in Record(used') /\ Replaces(c, r)
    BY <1>1, <1>2, <1>5, <2>1 DEF Replaces, Record, Steps
  <2>3. /\ r.kind = call[c].kind /\ r.token = call[c].token /\ r.step = "ok" /\ r.got = f
        /\ r.user = u
    BY <2>1 DEF Record
  <2> HIDE DEF r
  <2> QED BY <2>2, <2>3
<1> QED BY <1>1, <1>2, <1>3, <1>4, <1>5, <1>6, Issued

\* The second half of a refresh is served with the user as the table has it.
LEMMA ReissueKeeps ==
  ASSUME IInv, NEW c \in Calls, Reissue(c) PROVE IInv'
<1>0. PICK q \in Replicas : \E u \in users[q] :
        /\ call[c].got \in at[q] /\ u.name = claims[call[c].got].name
        /\ claims' = [claims EXCEPT ![Fresh] = u]
  BY DEF Reissue
<1>1. PICK u \in users[q] :
        /\ call[c].got \in at[q] /\ u.name = claims[call[c].got].name
        /\ claims' = [claims EXCEPT ![Fresh] = u]
  BY <1>0
<1>2. PICK f : f = Fresh
  OBVIOUS
<1>3. PICK s : s = call[c].got
  OBVIOUS
<1>4. /\ call[c].kind \in Refreshes /\ call[c].step = "turning" /\ used # Tokens /\ Give(s, f)
      /\ Got(c, f)
      /\ UNCHANGED <<at, users, expired, stored, user, timer, refreshPromise, upset, leaked>>
  BY <1>2, <1>3 DEF Reissue, Is, tab
<1>5. TypeOK /\ f \in Tokens \ used
  BY <1>2, <1>4 DEF IInv, TypeOK, Fresh
<1>6. /\ used' = used \cup {f} /\ live' = [live EXCEPT ![s] = {f}] /\ live[s] = {}
      /\ turning' = turning \ {s} /\ s \in Tokens
  BY <1>4, <1>5 DEF Give, IInv, SessionInv, TypeOK
<1>7. PICK r \in Record(used') :
        /\ Replaces(c, r) /\ r.kind = call[c].kind /\ r.token = call[c].token
        /\ r.step = "ok" /\ r.got = f
  <2> DEFINE r == [call[c] EXCEPT !.step = "ok", !.got = f]
  <2>1. call \in [Calls -> Record(used)] /\ call[c] \in Record(used)
    BY <1>5 DEF TypeOK, Record
  <2>2. r \in Record(used') /\ Replaces(c, r)
    BY <1>4, <1>6, <2>1 DEF Got, Replaces, Record, Steps
  <2>3. r.kind = call[c].kind /\ r.token = call[c].token /\ r.step = "ok" /\ r.got = f
    BY <2>1 DEF Record
  <2> HIDE DEF r
  <2> QED BY <2>2, <2>3
<1> QED BY <1>1, <1>2, <1>3, <1>4, <1>5, <1>6, <1>7, Issued

-----------------------------------------------------------------------------
(* The steps around them.                                                  *)

\* A reload forgets the calls, and the answers on their way.
LEMMA ReloadKeeps ==
  ASSUME IInv, Reload PROVE IInv'
<1> DEFINE cut == \E c \in Calls : call[c].kind \notin {"none", "request"}
<1>1. /\ \A c \in Calls : call[c].step # "turning"
      /\ call' = [c \in Calls |-> Idle] /\ refreshPromise' = NoCall /\ timer' = (stored # NoToken)
      /\ upset' = (upset \/ cut) /\ leaked' = (leaked \/ cut)
      /\ UNCHANGED <<used, live, turning, at, users, claims, expired, stored, user>>
  BY DEF Reload, service, sessions
<1>2. \A c \in Calls : call'[c] = Idle
  BY <1>1
<1>3. Pending' = {} /\ Carriers' = {} /\ Turned' = {} /\ \A c \in Calls : CallOK(c)'
  BY <1>2, IdleFacts DEF Pending, Carriers, Turned, Is, Refreshes, CallOK, Free
<1>4. TypeOK'
  <2>1. call' \in [Calls -> Record(used')]
    BY <1>1, IdleFacts
  <2> QED BY <1>1, <2>1 DEF IInv, TypeOK, Record
<1>5. SignedInHasToken' /\ UserInv' /\ CarrierInv'
  BY <1>1, <1>3 DEF IInv, SignedInHasToken, UserInv, CarrierInv
<1>6. SessionInv'
  <2>1. turning' = {}
    BY <1>1 DEF IInv, SessionInv, Pending
  <2> QED BY <1>1, <2>1 DEF IInv, SessionInv
<1>7. CallInv'
  BY <1>2, <1>3, IdleFacts DEF CallInv
<1>8. ~ cut => Pending = {} /\ Carriers = {}
  BY DEF Pending, Carriers, Is, Refreshes
<1>9. UpsetInv'
  <2> SUFFICES ASSUME ~ upset' PROVE UpsetInv'
    BY DEF UpsetInv
  <2>1. ~ upset /\ Pending = {}
    BY <1>1, <1>8
  <2> QED BY <1>1, <1>2, <1>3, <2>1, IdleFacts DEF IInv, UpsetInv, Of
<1>10. LeakInv'
  <2> SUFFICES ASSUME ~ leaked' PROVE LeakInv'
    BY DEF LeakInv
  <2>1. ~ leaked /\ Carriers = {}
    BY <1>1, <1>8
  <2> QED BY <1>1, <1>3, <2>1 DEF IInv, LeakInv
<1> QED BY <1>4, <1>5, <1>6, <1>7, <1>9, <1>10 DEF IInv

\* A token expires: no session depends on that.
LEMMA ExpireKeeps ==
  ASSUME IInv, NEW t \in Tokens, Expire(t) PROVE IInv'
<1>1. /\ UNCHANGED <<used, live, turning, at, users, claims, stored, user, timer, refreshPromise, call,
                     upset, leaked>>
      /\ expired' = expired \cup {t} /\ t \in used
  BY DEF Expire, sessions, tab
<1>2. TypeOK'
  BY <1>1 DEF IInv, TypeOK
<1>3. SignedInHasToken' /\ SessionInv' /\ UserInv'
  BY <1>1 DEF IInv, SignedInHasToken, SessionInv, UserInv, Pending
<1>4. CallInv' /\ CarrierInv'
  BY <1>1 DEF IInv, CallInv, CallOK, Free, LoginOK, LogoutOK, RefreshOK, Of, CarrierInv, Carriers, Is, Pending
<1>5. UpsetInv' /\ LeakInv'
  BY <1>1 DEF IInv, UpsetInv, LeakInv, Pending, Continues, Of, Carriers, Turned, Is
<1> QED BY <1>2, <1>3, <1>4, <1>5 DEF IInv

\* A user is created: no other user has the name.
LEMMA CreateUserKeeps ==
  ASSUME IInv, NEW q \in Replicas, NEW u \in Users, CreateUser(q, u) PROVE IInv'
<1>1. /\ UNCHANGED <<used, live, turning, at, expired, claims, stored, user, timer, refreshPromise, call,
                     upset, leaked>>
      /\ users' = [users EXCEPT ![q] = @ \cup {u}] /\ \A v \in users[q] : v.name # u.name
  BY DEF CreateUser, sessions, tab
<1>2. TypeOK'
  BY <1>1 DEF IInv, TypeOK
<1>3. SignedInHasToken' /\ SessionInv' /\ UserInv'
  BY <1>1 DEF IInv, SignedInHasToken, SessionInv, UserInv, Pending, OneEach
<1>4. CallInv' /\ CarrierInv'
  BY <1>1 DEF IInv, CallInv, CallOK, Free, LoginOK, LogoutOK, RefreshOK, Of, CarrierInv, Carriers, Is, Pending
<1>5. UpsetInv' /\ LeakInv'
  BY <1>1 DEF IInv, UpsetInv, LeakInv, Pending, Continues, Of, Carriers, Turned, Is
<1> QED BY <1>2, <1>3, <1>4, <1>5 DEF IInv

-----------------------------------------------------------------------------
(* The theorems.                                                           *)

\* It holds when the tab is opened for the first time.
LEMMA InitInv ==
  ASSUME Init PROVE IInv
<1>1. /\ used = {} /\ live = [s \in Tokens |-> {}] /\ turning = {}
      /\ at = [r \in Replicas |-> {}] /\ users = [r \in Replicas |-> Seed]
      /\ claims = [t \in Tokens |-> NoUser] /\ expired = {} /\ stored = NoToken /\ user = NoUser
      /\ timer = FALSE /\ refreshPromise = NoCall /\ call = [c \in Calls |-> Idle]
      /\ upset = TRUE /\ leaked = FALSE
  BY DEF Init, Begin
<1>2. \A c \in Calls : call[c] = Idle
  BY <1>1
<1>3. Pending = {} /\ Carriers = {} /\ Turned = {} /\ \A c \in Calls : CallOK(c)
  BY <1>2, IdleFacts DEF Pending, Carriers, Turned, Is, Refreshes, CallOK, Free
<1>4. TypeOK
  <2>1. call \in [Calls -> Record(used)]
    BY <1>1, IdleFacts
  <2> QED BY <1>1, <2>1, SeedOK DEF TypeOK, Record
<1>5. SignedInHasToken /\ SessionInv /\ UserInv /\ CarrierInv
  BY <1>1, <1>3, SeedOK DEF SignedInHasToken, SessionInv, UserInv, CarrierInv
<1>6. CallInv /\ UpsetInv /\ LeakInv
  BY <1>1, <1>2, <1>3, IdleFacts DEF CallInv, UpsetInv, LeakInv
<1> QED BY <1>4, <1>5, <1>6 DEF IInv

\* Every step keeps it.
LEMMA NextInv ==
  ASSUME IInv, [Next]_vars PROVE IInv'
<1>1. ASSUME NEW c \in Calls, Start(c) PROVE IInv'
  BY <1>1, SubmitKeeps, RequestKeeps, LogoutKeeps, SilentRefreshKeeps DEF Start
<1>2. ASSUME NEW c \in Calls, Serve(c) PROVE IInv'
  BY <1>2, ServeLoginKeeps, AnsweredKeeps, ConsumeKeeps, RefusedKeeps, ReissueKeeps,
     NotReissuedKeeps, ServeLogoutKeeps, LostKeeps, UnauthorizedKeeps DEF Serve
<1>3. ASSUME NEW c \in Calls, Finish(c) PROVE IInv'
  BY <1>3, LoginDoneKeeps, LogoutDoneKeeps, SilentDoneKeeps, ApiDoneKeeps DEF Finish
<1>4. ASSUME NEW t \in Tokens, Expire(t) \/ SessionExpires(t) PROVE IInv'
  BY <1>4, ExpireKeeps, SessionExpiresKeeps
<1>5. CASE UNCHANGED vars
  <2>1. UNCHANGED <<used, live, turning, at, users, expired, claims, stored, user, timer, refreshPromise,
                    call, upset, leaked>>
    BY <1>5 DEF vars, service, tab, sessions
  <2>2. TypeOK' /\ SignedInHasToken' /\ SessionInv' /\ UserInv'
    BY <2>1 DEF IInv, TypeOK, SignedInHasToken, SessionInv, UserInv, Pending
  <2>3. CallInv' /\ CarrierInv'
    BY <2>1 DEF IInv, CallInv, CallOK, Free, LoginOK, LogoutOK, RefreshOK, Of, CarrierInv, Carriers, Is, Pending
  <2>4. UpsetInv' /\ LeakInv'
    BY <2>1 DEF IInv, UpsetInv, LeakInv, Pending, Continues, Of, Carriers, Turned, Is
  <2> QED BY <2>2, <2>3, <2>4 DEF IInv
<1> QED BY <1>1, <1>2, <1>3, <1>4, <1>5, CreateUserKeeps, ReloadKeeps, RestartKeeps, SeedOK DEF Next

\* The invariant holds in every state the tab and the service can reach.
THEOREM Inductive == Spec => []IInv
<1>1. Init => IInv
  BY InitInv
<1>2. IInv /\ [Next]_vars => IInv'
  BY NextInv
<1> QED BY <1>1, <1>2, PTL DEF Spec

\* The variables keep their shapes: what is stored, presented or carried is a
\* token that was given out, and no seeded user is ever missing.
THEOREM TypeCorrect == Spec => []TypeOK
<1>1. IInv => TypeOK
  BY DEF IInv
<1> QED BY <1>1, Inductive, PTL

\* A tab that shows a user has tokens, for any number of calls, reloads and lost
\* answers: storage and the user shown are cleared and set in step.
THEOREM SignedInHasTokens == Spec => []SignedInHasToken
<1>1. IInv => SignedInHasToken
  BY DEF IInv
<1> QED BY <1>1, Inductive, PTL

\* A user who has signed in stays signed in, until one of the events that may end
\* it: of any number of 401s and timers, one refresh continues the session, if it
\* reaches the replica that has it; that it does not is one of those events.
THEOREM StaysSignedIn == Spec => []KeepsSignedIn
<1>1. IInv => KeepsSignedIn
  <2> SUFFICES ASSUME IInv, ~ upset
               PROVE  user # NoUser /\ (Of(stored) # {} \/ RefreshOf(stored) # {})
    BY DEF KeepsSignedIn
  <2>1. user # NoUser /\ \A c \in Pending : call[c].step # "no"
    BY UpsetFacts
  <2>2. Pending # {} => RefreshOf(stored) # {}
    BY <2>1 DEF IInv, UpsetInv, RefreshOf
  <2> QED BY <2>1, <2>2 DEF IInv, UpsetInv
<1> QED BY <1>1, Inductive, PTL

\* The user shown is the one the stored token speaks for, role included: roles
\* do not change, so that a refreshed token says what the login said.
THEOREM ActsAsShown == Spec => []ActsAsUser
<1>1. IInv => ActsAsUser
  BY DEF IInv, UpsetInv, ActsAsUser
<1> QED BY <1>1, Inductive, PTL

\* A tab that has logged out, with nothing under way, has left no session alive
\* in any replica, unless one of the events of `leaked' happened, among them that
\* its logout went to a replica without the session.
THEOREM LogoutsEnd == Spec => []LogoutEnds
<1>1. IInv => LogoutEnds
  <2> SUFFICES ASSUME IInv, ~ leaked, user = NoUser, \A c \in Calls : Free(c)
               PROVE  (\A s \in Tokens : live[s] = {}) /\ turning = {}
    BY DEF LogoutEnds
  <2>1. Carriers = {} /\ Pending = {}
    BY IdleFacts DEF Free, Carriers, Pending, Is, Refreshes
  <2>2. turning = {}
    BY <2>1 DEF IInv, SessionInv
  <2>3. stored = NoToken /\ \A s \in Tokens : live[s] \subseteq Tokens
    BY DEF IInv, LeakInv, TypeOK
  <2>4. \A s \in Tokens : \A t \in live[s] : FALSE
    BY <2>1, <2>3, NothingOK DEF IInv, LeakInv
  <2> QED BY <2>2, <2>4
<1> QED BY <1>1, Inductive, PTL

-----------------------------------------------------------------------------
(* The sessions that a tab meets are those that module Sessions describes. *)

\* Steps that give out no token and end no session.
LEMMA SameService ==
  ASSUME NEW c \in Calls,
         \/ Start(c) \/ Finish(c) \/ LoginRefused(c) \/ Refused(c) \/ Lost(c)
         \/ Served(c) \/ Forbidden(c) \/ Unauthorized(c)
  PROVE  UNCHANGED sessions
BY DEF Start, Submit, Logout, SilentRefresh, Request, Finish, LoginDone, LogoutDone, SilentDone,
       ApiDone, LoginRefused, Refused, Lost, Served, Forbidden, Unauthorized, service

\* While there are tokens to give, Fresh is one that nobody has had.
LEMMA FreshFacts ==
  ASSUME TypeOK, used # Tokens
  PROVE  Fresh \in Tokens \ used
BY DEF TypeOK, Fresh

\* Every step of the tab, of its calls and of the service is a step of Sessions,
\* or none: a refresh is its two halves, and whatever ends a session closes it.
LEMMA StepChanges ==
  ASSUME IInv, [Next]_vars
  PROVE  [Change]_sessions
<1>1. \A S \in SUBSET Tokens : EndAll(S) => Change
  BY DEF EndAll, Change
<1>2. \A c \in Calls : ServeLogin(c) => Change
  <2> SUFFICES ASSUME NEW c \in Calls, ServeLogin(c)
               PROVE  Change
    OBVIOUS
  <2>1. Fresh \in Tokens /\ Open(Fresh)
    BY FreshFacts DEF ServeLogin, IInv
  <2> QED BY <2>1 DEF Change
<1>3. \A c \in Calls : Consume(c) => Change
  BY DEF Consume, Change, Of
<1>4. \A c \in Calls : Reissue(c) => Change
  <2> SUFFICES ASSUME NEW c \in Calls, Reissue(c)
               PROVE  Change
    OBVIOUS
  <2>1. Fresh \in Tokens /\ Give(call[c].got, Fresh)
    BY FreshFacts DEF Reissue, IInv
  <2>2. call[c].got \in Tokens
    BY <2>1 DEF Give, IInv, TypeOK
  <2> QED BY <2>1, <2>2 DEF Change
<1>5. \A c \in Calls : NotReissued(c) => Change
  <2> SUFFICES ASSUME NEW c \in Calls, NotReissued(c)
               PROVE  Change
    OBVIOUS
  <2>1. call[c].got \in Tokens
    BY NothingOK DEF NotReissued, Is, IInv, CallInv, CallOK, RefreshOK, TypeOK
  <2> QED BY <1>1, <2>1 DEF NotReissued
<1>6. \A c \in Calls : ServeLogout(c) => Change
  BY <1>1 DEF ServeLogout, Of
<1>7. \A t \in Tokens : (Expire(t) => UNCHANGED sessions) /\ (SessionExpires(t) => Change)
  BY <1>1 DEF Expire, SessionExpires
<1>8. \A r \in Replicas : Restart(r) => Change
  <2>1. \A r \in Replicas : at[r] \in SUBSET Tokens
    BY DEF IInv, TypeOK
  <2> QED BY <1>1, <2>1 DEF Restart, Gone
<1>9. /\ Reload \/ UNCHANGED vars => UNCHANGED sessions
      /\ \A r \in Replicas, u \in Created : CreateUser(r, u) => UNCHANGED sessions
  BY DEF Reload, CreateUser, vars, service
<1> QED BY <1>2, <1>3, <1>4, <1>5, <1>6, <1>7, <1>8, <1>9, SameService DEF Next, Serve

\* The replicas that serve a tab keep the promise of Sessions: nothing the tab
\* does, loses, repeats or sends to the wrong replica, no restart and no user made
\* in between gives a session two tokens, or revives one that is over.
THEOREM ServedBySessions == Spec => Sessions
<1>1. Init => Begin
  BY DEF Init
<1> QED BY <1>1, StepChanges, Inductive, PTL DEF Spec, Sessions

\* A token that continues no session any more never does again: a refresh or a
\* logout that is repeated, late or answered to nobody finds nothing.
THEOREM SpentForGood == Spec => [][\A t \in used : Of(t) = {} => Of(t)' = {}]_sessions
<1>1. ASSUME IInv, Change, NEW t \in used, Of(t) = {}
      PROVE  Of(t)' = {}
  <2>1. live \in [Tokens -> SUBSET used] /\ t \in Tokens /\ \A s \in Tokens : t \notin live[s]
    BY <1>1 DEF IInv, TypeOK, Of
  <2>2. CASE \E s \in Tokens : Open(s)
    BY <1>1, <2>1, <2>2 DEF Open, Of
  <2>3. CASE \E s \in Tokens : TurnIn(s)
    BY <1>1, <2>1, <2>3 DEF TurnIn, Of
  <2>4. CASE \E s, n \in Tokens : Give(s, n)
    BY <1>1, <2>1, <2>4 DEF Give, Of
  <2>5. CASE \E S \in SUBSET Tokens : Close(S)
    BY <1>1, <2>1, <2>5 DEF Close, Of
  <2> QED BY <1>1, <2>2, <2>3, <2>4, <2>5 DEF Change
<1>2. IInv /\ [Change]_sessions => [\A t \in used : Of(t) = {} => Of(t)' = {}]_sessions
  BY <1>1
<1> QED BY <1>2, Inductive, ServedBySessions, PTL DEF Sessions
=============================================================================
