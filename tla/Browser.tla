------------------------------ MODULE Browser ------------------------------
(***************************************************************************)
(* A browser tab and its session: AuthContext.jsx and the interceptor of   *)
(* utils/api.js, over the auth service and the token checks of the search  *)
(* and ingest services (middleware/auth.go).  The sessions are those of    *)
(* module Sessions; each is in the tables of the replica that has served   *)
(* its login, and a call goes to any of them, as in AuthStore.             *)
(*                                                                         *)
(* The tab runs one callback at a time; each action is one, from one await *)
(* to the next.  Between them are calls on their way, here `call'.  An     *)
(* access token is named by the refresh token it came with: the tab always *)
(* stores and removes the two together, and with the user's name.          *)
(***************************************************************************)
EXTENDS Naturals, Sessions

CONSTANTS
  Names,     \* user names
  Roles,     \* reader, writer and admin
  Seed,      \* the users the store starts with
  Created,   \* users that somebody creates
  Calls,     \* calls that are under way at one time
  Replicas,  \* processes of the auth service
  NoToken, NoUser, NoCall

Users == [name : Names, role : Roles]

\* Tables of users are keyed by the name.
OneEach(U) == \A u, v \in U : u.name = v.name => u = v

ASSUME SeedOK == /\ Seed \subseteq Users /\ OneEach(Seed) /\ Created \subseteq Users
                 /\ Roles \subseteq {"reader", "writer", "admin"}
ASSUME NothingOK == NoToken \notin Tokens /\ NoUser \notin Users /\ NoCall \notin Calls

VARIABLES
  at,             \* at[r]: the sessions of replica r, live or being refreshed
  users,          \* users[r]: its user table
  claims,         \* claims[t]: the user an access token speaks for
  expired,        \* access tokens past their exp
  stored,         \* the tokens in session storage
  user,           \* the user the tab shows
  timer,          \* whether the timer of the silent refresh is set
  refreshPromise, \* the refresh of the interceptor
  call,
  upset, leaked   \* history, see KeepsSignedIn and LogoutEnds

service == <<sessions, at, users, claims, expired>>
tab     == <<stored, user, timer>>
vars    == <<service, tab, refreshPromise, call, upset, leaked>>

Idle == [kind |-> "none", step |-> "idle", token |-> NoToken, user |-> NoUser, got |-> NoToken,
         needs |-> "none"]

Of(t)       == {s \in Tokens : t \in live[s]}
Free(c)     == call[c] = Idle
Is(c, k, p) == call[c].kind \in k /\ call[c].step \in p
Refreshes   == {"silent", "api"}
Pending     == {c \in Calls : call[c].kind \in Refreshes}

Begun(c, k, t, u) ==
  call' = [call EXCEPT ![c] = [Idle EXCEPT !.kind = k, !.step = "sent", !.token = t, !.user = u]]
Ends(c)     == call' = [call EXCEPT ![c] = Idle]
Becomes(c, p) == call' = [call EXCEPT ![c].step = p]
Got(c, t)     == call' = [call EXCEPT ![c].step = "ok", ![c].got = t]

Init ==
  /\ Begin
  /\ at = [r \in Replicas |-> {}]
  /\ users = [r \in Replicas |-> Seed]
  /\ claims = [t \in Tokens |-> NoUser]
  /\ expired = {}
  /\ stored = NoToken /\ user = NoUser /\ timer = FALSE
  /\ refreshPromise = NoCall
  /\ call = [c \in Calls |-> Idle]
  /\ upset = TRUE /\ leaked = FALSE

-----------------------------------------------------------------------------
(* What the tab does.                                                      *)

\* Session storage, user and accessToken are emptied in one go.
Clear == stored' = NoToken /\ user' = NoUser /\ timer' = FALSE

\* ... while a refresh is under way, or with other tokens than were presented.
Overtaken(t) ==
  \/ stored \notin {t, NoToken}
  \/ \E c \in Pending : call[c].step # "no"

storeTokens(t) == stored' = t /\ timer' = TRUE

\* logout() presents what is stored, or has nothing to present.
\* (fault: it only forgets the tokens)
logoutHere(c) == Ends(c) /\ Clear /\ UNCHANGED leaked
logout(c) ==
  IF stored = NoToken THEN Ends(c) /\ Clear /\ leaked' = (leaked \/ Overtaken(NoToken))
  ELSE Begun(c, "logout", stored, NoUser) /\ UNCHANGED <<tab, leaked>>

Submit(c, n) ==
  /\ user = NoUser /\ Free(c)
  /\ \A d \in Calls : call[d].kind # "login"
  /\ Begun(c, "login", NoToken, n)
  /\ UNCHANGED <<service, tab, refreshPromise, upset, leaked>>

LoginDone(c) ==
  /\ Is(c, {"login"}, {"ok"})
  /\ Ends(c)
  /\ storeTokens(call[c].got)
  /\ user' = call[c].user
  /\ upset' = (Of(call[c].got) = {} \/ \E d \in Calls \ {c} : ~ Free(d))
  /\ UNCHANGED <<service, refreshPromise, leaked>>

\* The button.
Logout(c) ==
  /\ user # NoUser /\ Free(c)
  /\ logout(c)
  /\ upset' = TRUE
  /\ UNCHANGED <<service, refreshPromise>>

LogoutDone(c) ==
  /\ Is(c, {"logout"}, {"ok", "no"})
  /\ Ends(c) /\ Clear
  /\ leaked' = (leaked \/ Overtaken(call[c].token))
  /\ UNCHANGED <<service, refreshPromise, upset>>

\* Two minutes before the token in accessToken expires, or later.
SilentRefresh(c) ==
  /\ timer /\ Free(c)
  /\ IF stored = NoToken THEN logout(c) /\ UNCHANGED <<refreshPromise, upset>>
     ELSE /\ Begun(c, "silent", stored, NoUser)
          /\ timer' = FALSE
          /\ upset' = (upset \/ Pending # {})
          /\ UNCHANGED <<stored, user, refreshPromise, leaked>>
  /\ UNCHANGED service

SilentDone(c) ==
  /\ \/ /\ Is(c, {"silent"}, {"ok"})
        /\ Ends(c) /\ storeTokens(call[c].got)
        /\ UNCHANGED <<user, upset, leaked>>
     \/ /\ Is(c, {"silent"}, {"no"})
        /\ logout(c)
        /\ UNCHANGED upset
  /\ UNCHANGED <<service, refreshPromise>>

canWrite == user # NoUser /\ user.role \in {"writer", "admin"}

\* An API request with the token stored now, for which a role is required: the
\* shell polls every 10 seconds, an upload is offered to those who may write.
Request(c, role) ==
  /\ user # NoUser /\ Free(c)
  /\ role = "reader" \/ canWrite
  /\ call' = [call EXCEPT ![c] = [Idle EXCEPT !.kind = "request", !.step = "sent",
                                              !.token = stored, !.needs = role]]
  /\ UNCHANGED <<service, tab, refreshPromise, upset, leaked>>

\* RequireAuth and RequireRole: the token is looked at, nobody is asked.
Authentic(t)  == t # NoToken /\ t \notin expired
roleLevel     == [reader |-> 1, writer |-> 2, admin |-> 3]
Permits(t, r) == roleLevel[claims[t].role] >= roleLevel[r]

\* 200, or a 403, which the tab shows as an error.
Served(c) ==
  /\ Is(c, {"request"}, {"sent"}) /\ Authentic(call[c].token)
  /\ Permits(call[c].token, call[c].needs)
  /\ Ends(c)
  /\ UNCHANGED <<service, tab, refreshPromise, upset, leaked>>

Forbidden(c) ==
  /\ Is(c, {"request"}, {"sent"}) /\ Authentic(call[c].token)
  /\ ~ Permits(call[c].token, call[c].needs)
  /\ Ends(c)
  /\ UNCHANGED <<service, tab, refreshPromise, upset, leaked>>

\* A 401 waits for the refresh under way, starts one with the token stored by
\* now, or logs out.  (fault: every 401 starts one)
UnauthorizedAlone(c) ==
  /\ Is(c, {"request"}, {"sent"}) /\ ~ Authentic(call[c].token) /\ stored # NoToken
  /\ Begun(c, "api", stored, NoUser)
  /\ refreshPromise' = c
  /\ upset' = (upset \/ \E d \in Calls : call[d].kind = "silent")
  /\ UNCHANGED <<service, tab, leaked>>
Unauthorized(c) ==
  /\ Is(c, {"request"}, {"sent"}) /\ ~ Authentic(call[c].token)
  /\ \/ /\ refreshPromise # NoCall
        /\ Ends(c)
        /\ UNCHANGED <<tab, refreshPromise, upset, leaked>>
     \/ /\ refreshPromise = NoCall /\ stored # NoToken
        /\ Begun(c, "api", stored, NoUser)
        /\ refreshPromise' = c
        /\ upset' = (upset \/ Pending # {})
        /\ UNCHANGED <<tab, leaked>>
     \/ /\ refreshPromise = NoCall /\ stored = NoToken
        /\ Ends(c)
        /\ IF user # NoUser THEN Clear /\ leaked' = (leaked \/ Overtaken(NoToken))
                            ELSE UNCHANGED <<tab, leaked>>
        /\ UNCHANGED <<refreshPromise, upset>>
  /\ UNCHANGED service

\* The new tokens are stored; accessToken of React, and its timer, are not told.
\* When there are none, session storage is emptied and App told to log out: it
\* listens while somebody is signed in.  (fault: it is not told)
ApiDoneUntold(c) ==
  /\ Is(c, {"api"}, {"ok", "no"})
  /\ Ends(c)
  /\ stored' = IF call[c].step = "ok" THEN call[c].got ELSE NoToken
  /\ refreshPromise' = NoCall
  /\ UNCHANGED <<service, user, timer, upset, leaked>>
ApiDone(c) ==
  /\ \/ /\ Is(c, {"api"}, {"ok"})
        /\ stored' = call[c].got
        /\ UNCHANGED <<user, timer, leaked>>
     \/ /\ Is(c, {"api"}, {"no"}) /\ user # NoUser
        /\ Clear
        /\ leaked' = (leaked \/ Overtaken(call[c].token))
     \/ /\ Is(c, {"api"}, {"no"}) /\ user = NoUser
        /\ stored' = NoToken
        /\ UNCHANGED <<user, timer, leaked>>
  /\ Ends(c)
  /\ refreshPromise' = NoCall
  /\ UNCHANGED <<service, upset>>

-----------------------------------------------------------------------------
(* What happens to its calls.                                              *)

\* The jti of a new token is one that no token has had.
Fresh == CHOOSE t \in Tokens \ used : TRUE

\* Sessions come to an end.
EndAll(S) == Close(S) /\ at' = [r \in Replicas |-> at[r] \ S]

\* Authenticate, GeneratePair, StoreRefresh.
ServeLogin(c) ==
  /\ Is(c, {"login"}, {"sent"}) /\ used # Tokens
  /\ \E r \in Replicas : \E u \in users[r] :
       /\ u.name = call[c].user
       /\ at' = [at EXCEPT ![r] = @ \cup {Fresh}]
       /\ claims' = [claims EXCEPT ![Fresh] = u]
       /\ call' = [call EXCEPT ![c].step = "ok", ![c].got = Fresh, ![c].user = u]
  /\ Open(Fresh)
  /\ UNCHANGED <<users, expired, tab, refreshPromise, upset, leaked>>

\* A wrong password, or no such user in this replica: the tab shows the error.
LoginRefused(c) ==
  /\ Is(c, {"login"}, {"sent"})
  /\ Ends(c)
  /\ UNCHANGED <<service, tab, refreshPromise, upset, leaked>>

\* ConsumeRefresh at the replica that has the token.
Consume(c) ==
  /\ Is(c, Refreshes, {"sent"})
  /\ \E s \in Of(call[c].token) :
       /\ TurnIn(s)
       /\ call' = [call EXCEPT ![c].step = "turning", ![c].got = s]
  /\ UNCHANGED <<at, users, claims, expired, tab, refreshPromise, upset, leaked>>

\* ... at one that does not have it, though another may: then the session is astray.
Refused(c) ==
  /\ Is(c, Refreshes, {"sent"})
  /\ \E r \in Replicas : Of(call[c].token) \cap at[r] = {}
  /\ Becomes(c, "no")
  /\ LET astray == Of(call[c].token) # {}
     IN /\ upset' = (upset \/ astray)
        /\ leaked' = (leaked \/ (astray /\ call[c].kind = "api"))
  /\ UNCHANGED <<service, tab, refreshPromise>>

\* GetByID at that replica: the role is that of the user now.
Reissue(c) ==
  /\ Is(c, Refreshes, {"turning"}) /\ used # Tokens
  /\ \E r \in Replicas : \E u \in users[r] :
       /\ call[c].got \in at[r]
       /\ u.name = claims[call[c].got].name
       /\ claims' = [claims EXCEPT ![Fresh] = u]
  /\ Give(call[c].got, Fresh)
  /\ Got(c, Fresh)
  /\ UNCHANGED <<at, users, expired, tab, refreshPromise, upset, leaked>>

NotReissued(c) ==
  /\ Is(c, Refreshes, {"turning"})
  /\ EndAll({call[c].got})
  /\ Becomes(c, "no")
  /\ upset' = TRUE
  /\ UNCHANGED <<users, claims, expired, tab, refreshPromise, leaked>>

\* The answer is the same whether this replica has the token or not.
ServeLogout(c) ==
  /\ Is(c, {"logout"}, {"sent"})
  /\ \E r \in Replicas :
       /\ EndAll(Of(call[c].token) \cap at[r])
       /\ leaked' = (leaked \/ ~ Of(call[c].token) \subseteq at[r])
  /\ Becomes(c, "ok")
  /\ UNCHANGED <<users, claims, expired, tab, refreshPromise, upset>>

\* The request or the answer does not arrive.
Lost(c) ==
  /\ Is(c, {"login", "logout"} \cup Refreshes, {"sent", "ok"})
  /\ IF call[c].kind = "login" THEN Ends(c) ELSE Becomes(c, "no")
  /\ upset' = TRUE /\ leaked' = TRUE
  /\ UNCHANGED <<service, tab, refreshPromise>>

-----------------------------------------------------------------------------
(* What happens around it.                                                 *)

\* The page is reloaded: what is stored stays, what is under way is forgotten.
\* A request that has left is served before that, or never.
Reload ==
  /\ \A c \in Calls : call[c].step # "turning"
  /\ call' = [c \in Calls |-> Idle]
  /\ refreshPromise' = NoCall
  /\ timer' = (stored # NoToken)
  /\ LET cut == \E c \in Calls : call[c].kind \notin {"none", "request"}
     IN upset' = (upset \/ cut) /\ leaked' = (leaked \/ cut)
  /\ UNCHANGED <<service, stored, user>>

\* Time passes for a token that is in use.
Expire(t) ==
  /\ t \in used \ expired
  /\ t = stored \/ \E c \in Calls : Is(c, {"request"}, {"sent"}) /\ call[c].token = t
  /\ expired' = expired \cup {t}
  /\ UNCHANGED <<sessions, at, users, claims, tab, refreshPromise, call, upset, leaked>>

\* Seven days.
SessionExpires(s) ==
  /\ live[s] # {} /\ EndAll({s})
  /\ upset' = TRUE
  /\ UNCHANGED <<users, claims, expired, tab, refreshPromise, call, leaked>>

\* POST /admin/users, sent by somebody.  (fault: an existing user is replaced)
CreateOrReplace(r, u) ==
  /\ users' = [users EXCEPT ![r] = {v \in @ : v.name # u.name} \cup {u}]
  /\ UNCHANGED <<sessions, at, claims, expired, tab, refreshPromise, call, upset, leaked>>
CreateUser(r, u) ==
  /\ \A v \in users[r] : v.name # u.name
  /\ users' = [users EXCEPT ![r] = @ \cup {u}]
  /\ UNCHANGED <<sessions, at, claims, expired, tab, refreshPromise, call, upset, leaked>>

\* A replica is replaced: its tables are new, its sessions and refreshes are gone.
Gone(r) ==
  /\ EndAll(at[r])
  /\ call' = [c \in Calls |-> IF call[c].step = "turning" /\ call[c].got \in at[r]
                                THEN [call[c] EXCEPT !.step = "no"] ELSE call[c]]
  /\ upset' = (upset \/ at[r] # {})
  /\ UNCHANGED <<claims, expired, tab, refreshPromise, leaked>>
\* (fault: New() seeds no users)
RestartEmpty(r) == Gone(r) /\ users' = [users EXCEPT ![r] = {}]
Restart(r)      == Gone(r) /\ users' = [users EXCEPT ![r] = Seed]
-----------------------------------------------------------------------------
Start(c) == \/ \E n \in Names : Submit(c, n)
            \/ \E r \in {"reader", "writer"} : Request(c, r)
            \/ Logout(c) \/ SilentRefresh(c)
Serve(c) == \/ ServeLogin(c) \/ LoginRefused(c) \/ Consume(c) \/ Refused(c)
            \/ Reissue(c) \/ NotReissued(c) \/ ServeLogout(c) \/ Lost(c)
            \/ Served(c) \/ Forbidden(c) \/ Unauthorized(c)
Finish(c) == LoginDone(c) \/ LogoutDone(c) \/ SilentDone(c) \/ ApiDone(c)

Next == \/ \E c \in Calls : Start(c) \/ Serve(c) \/ Finish(c)
        \/ \E t \in Tokens : Expire(t) \/ SessionExpires(t)
        \/ \E r \in Replicas : Restart(r) \/ \E u \in Created : CreateUser(r, u)
        \/ Reload

Spec == Init /\ [][Next]_vars
-----------------------------------------------------------------------------
Kinds == {"none", "login", "logout", "request"} \cup Refreshes
Steps == {"idle", "sent", "turning", "ok", "no"}

\* The shapes of the variables.  Every replica has the seeded users, whatever
\* happens to it.
TypeOK ==
  /\ used \subseteq Tokens /\ live \in [Tokens -> SUBSET used] /\ turning \subseteq used
  /\ at \in [Replicas -> SUBSET used]
  /\ users \in [Replicas -> SUBSET Users] /\ \A r \in Replicas : Seed \subseteq users[r]
  /\ claims \in [Tokens -> Users \cup {NoUser}]
  /\ expired \subseteq used
  /\ stored \in used \cup {NoToken} /\ user \in Users \cup {NoUser}
  /\ timer \in BOOLEAN /\ upset \in BOOLEAN /\ leaked \in BOOLEAN
  /\ refreshPromise \in Calls \cup {NoCall}
  /\ call \in [Calls -> [kind : Kinds, step : Steps, token : used \cup {NoToken},
                         user : Names \cup Users \cup {NoUser}, got : used \cup {NoToken},
                         needs : {"none", "reader", "writer"}]]

\* A tab that shows a user has tokens to act with.  The two are written and
\* cleared in different places: storage by storeTokens and the interceptor,
\* user by login and logout, with calls and reloads between.
SignedInHasToken == user # NoUser => stored # NoToken

RefreshOf(t) == {c \in Pending : call[c].token = t /\ call[c].step # "no"}

\* A user who has signed in stays signed in, on a session that is live or in the
\* hands of the refresh that will continue it.  A token may be used once, and
\* two paths refresh: the timer and any request that gets a 401, of which many
\* may come together.  What may end it is `upset': the user's own logout, an
\* answer that is lost, a refresh that fails inside the service, one that goes to
\* a replica without the session, the session's seven days, a restart of the
\* replica with it, a reload that cuts a call off, a login that completes beside
\* other calls, and a refresh of one path that starts while one of the other is
\* under way, which present the same token.
KeepsSignedIn ==
  ~ upset => /\ user # NoUser
             /\ Of(stored) # {} \/ RefreshOf(stored) # {}

\* The user shown, and the role by which App chooses what to offer, are those in
\* the token that goes with every request.  A login sets both, a refresh only the
\* token, with the role of that replica's user table at that time.
ActsAsUser == ~ upset => claims[stored] = user

\* When nobody is signed in and nothing is under way, no session that this tab
\* opened is live in any replica: not only the tab has forgotten it.  What may
\* break it is `leaked': a logout, or a refresh that a 401 has started, that goes to
\* a replica without the session, a lost call, a reload that cuts a call off, and
\* tokens cleared while a refresh is under way or after another one has replaced
\* them.  A timer's refresh that goes astray does not: it ends in a logout.
LogoutEnds ==
  ~ leaked /\ user = NoUser /\ (\A c \in Calls : Free(c)) =>
    /\ \A s \in Tokens : live[s] = {}
    /\ turning = {}
=============================================================================
