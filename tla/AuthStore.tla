----------------------------- MODULE AuthStore -----------------------------
(***************************************************************************)
(* Refresh tokens of the auth service: login, refresh and logout handlers  *)
(* (api/handler.go) over the in-memory token table (store/store.go).       *)
(*                                                                         *)
(* A session starts with a login and goes on through rotations; it is      *)
(* named by its first token, the root of the tokens that follow.  Every    *)
(* replica has a table of its own and the balancer sends a call to any of  *)
(* them.  Tokens that were never issued, and access tokens, are in no      *)
(* table and change nothing, so calls here carry issued tokens.            *)
(***************************************************************************)
EXTENDS Naturals

CONSTANTS
  Replicas,   \* processes of the service
  Calls,      \* handler goroutines
  Tokens,     \* refresh tokens that can be issued: the jti makes each unique
  NoToken, NoReplica

ASSUME NoneOK == NoToken \notin Tokens /\ NoReplica \notin Replicas

VARIABLES
  refreshStore,  \* refreshStore[r]: the tokens in the table of r
  age,           \* age[t]: which of the times in Ages has passed
  root,          \* root[t]: NoToken until t is issued
  consumed,      \* tokens that ConsumeRefresh has returned a record for
  known,         \* tokens that a client has received
  loggedOut,     \* tokens whose logout was answered
  forgotten,     \* tokens that were in a table when its process restarted
  pc, at, token  \* of each call: where it is, its replica, its token

vars == <<refreshStore, age, root, consumed, known, loggedOut, forgotten, pc, at, token>>

\* The exp claim has whole seconds, so it passes before the ExpiresAt of the
\* record, which is also set later.
Ages == {"valid", "jwtExpired", "recordExpired"}

Issued == {t \in Tokens : root[t] # NoToken}

Init ==
  /\ refreshStore = [r \in Replicas |-> {}]
  /\ age = [t \in Tokens |-> "valid"]
  /\ root = [t \in Tokens |-> NoToken]
  /\ consumed = {} /\ known = {} /\ loggedOut = {} /\ forgotten = {}
  /\ pc = [c \in Calls |-> "idle"]
  /\ at = [c \in Calls |-> NoReplica]
  /\ token = [c \in Calls |-> NoToken]

-----------------------------------------------------------------------------
\* A request reaches the replica the balancer has chosen.
Arrive(c, step, t) ==
  /\ pc[c] = "idle"
  /\ pc' = [pc EXCEPT ![c] = step]
  /\ \E r \in Replicas : at' = [at EXCEPT ![c] = r]
  /\ token' = [token EXCEPT ![c] = t]
  /\ UNCHANGED <<refreshStore, age, root, consumed, known, loggedOut, forgotten>>

Goto(c, from, to) ==
  /\ pc[c] = from
  /\ pc' = [pc EXCEPT ![c] = to]

Done(c) ==
  /\ pc' = [pc EXCEPT ![c] = "idle"]
  /\ at' = [at EXCEPT ![c] = NoReplica]
  /\ token' = [token EXCEPT ![c] = NoToken]

\* The password was right: what is left is to issue a pair.
Login(c) == Arrive(c, "issue", NoToken)

Refresh(c) == \E t \in known : Arrive(c, "consume", t)

Logout(c) == \E t \in known : Arrive(c, "logout", t)

\* ConsumeRefresh, under mu: it deletes the token, and finds it or fails.
Stored(c) == token[c] \in refreshStore[at[c]]
Good(c)   == Stored(c) /\ age[token[c]] # "recordExpired"
\* (fault: the token stays)
KeepStored(c) == refreshStore' = refreshStore
Delete(c) == refreshStore' = [refreshStore EXCEPT ![at[c]] = @ \ {token[c]}]
Remember(c) == consumed' = IF Good(c) THEN consumed \cup {token[c]} ELSE consumed

Consume(c) ==
  /\ Goto(c, "consume", "parse")
  /\ Good(c)
  /\ Delete(c) /\ Remember(c)
  /\ UNCHANGED <<age, root, known, loggedOut, forgotten, at, token>>

\* 401.
ConsumeFails(c) ==
  /\ pc[c] = "consume"
  /\ ~Good(c)
  /\ Delete(c)
  /\ Done(c)
  /\ UNCHANGED <<age, root, consumed, known, loggedOut, forgotten>>

\* ParseRefresh comes after the token is gone.
Parse(c) ==
  /\ Goto(c, "parse", "issue")
  /\ age[token[c]] = "valid"
  /\ UNCHANGED <<refreshStore, age, root, consumed, known, loggedOut, forgotten, at, token>>

\* (fault: a token whose JWT does not parse is given back)
ParseReturns(c) ==
  /\ pc[c] = "parse"
  /\ age[token[c]] # "valid"
  /\ refreshStore' = [refreshStore EXCEPT ![at[c]] = @ \cup {token[c]}]
  /\ Done(c)
  /\ UNCHANGED <<age, root, consumed, known, loggedOut, forgotten>>

\* 401.
ParseFails(c) ==
  /\ pc[c] = "parse"
  /\ age[token[c]] # "valid"
  /\ Done(c)
  /\ UNCHANGED <<refreshStore, age, root, consumed, known, loggedOut, forgotten>>

\* (fault: the pair is issued, and stored only after the answer)
IssueUnstored(c) ==
  \E t \in Tokens \ Issued :
    /\ Goto(c, "issue", "reply")
    /\ root' = [root EXCEPT ![t] = IF token[c] = NoToken THEN t ELSE root[token[c]]]
    /\ token' = [token EXCEPT ![c] = t]
    /\ UNCHANGED <<refreshStore, age, consumed, known, loggedOut, forgotten, at>>

\* GeneratePair and StoreRefresh.
Issue(c) ==
  \E t \in Tokens \ Issued :
    /\ Goto(c, "issue", "reply")
    /\ root' = [root EXCEPT ![t] = IF token[c] = NoToken THEN t ELSE root[token[c]]]
    /\ refreshStore' = [refreshStore EXCEPT ![at[c]] = @ \cup {t}]
    /\ token' = [token EXCEPT ![c] = t]
    /\ UNCHANGED <<age, consumed, known, loggedOut, forgotten, at>>

\* (fault: no return after the error)
IssueNothing(c) ==
  /\ Goto(c, "issue", "reply")
  /\ UNCHANGED <<refreshStore, age, root, consumed, known, loggedOut, forgotten, at, token>>

\* 500: no randomness for the jti.  A token consumed for it is not given back.
IssueFails(c) ==
  /\ pc[c] = "issue"
  /\ Done(c)
  /\ UNCHANGED <<refreshStore, age, root, consumed, known, loggedOut, forgotten>>

Reply(c) ==
  /\ pc[c] = "reply"
  /\ known' = known \cup {token[c]}
  /\ Done(c)
  /\ UNCHANGED <<refreshStore, age, root, consumed, loggedOut, forgotten>>

\* The client is gone or the connection broke.
ReplyLost(c) ==
  /\ pc[c] = "reply"
  /\ Done(c)
  /\ UNCHANGED <<refreshStore, age, root, consumed, known, loggedOut, forgotten>>

\* The logout handler ignores what ConsumeRefresh says, and answers 200.
EndSession(c) ==
  /\ pc[c] = "logout"
  /\ Delete(c) /\ Remember(c)
  /\ loggedOut' = loggedOut \cup {token[c]}
  /\ Done(c)
  /\ UNCHANGED <<age, root, known, forgotten>>

\* Time passes for t.
Age(t) ==
  /\ t \in Issued
  /\ \/ age[t] = "valid" /\ age' = [age EXCEPT ![t] = "jwtExpired"]
     \/ age[t] = "jwtExpired" /\ age' = [age EXCEPT ![t] = "recordExpired"]
  /\ UNCHANGED <<refreshStore, root, consumed, known, loggedOut, forgotten, pc, at, token>>

\* A pod is replaced: its table and its calls are gone.
Restart(r) ==
  /\ forgotten' = forgotten \cup refreshStore[r]
  /\ refreshStore' = [refreshStore EXCEPT ![r] = {}]
  /\ pc' = [c \in Calls |-> IF at[c] = r THEN "idle" ELSE pc[c]]
  /\ token' = [c \in Calls |-> IF at[c] = r THEN NoToken ELSE token[c]]
  /\ at' = [c \in Calls |-> IF at[c] = r THEN NoReplica ELSE at[c]]
  /\ UNCHANGED <<age, root, consumed, known, loggedOut>>

Step(c) == \/ Login(c) \/ Refresh(c) \/ Logout(c)
           \/ Consume(c) \/ ConsumeFails(c) \/ Parse(c) \/ ParseFails(c)
           \/ Issue(c) \/ IssueFails(c) \/ Reply(c) \/ ReplyLost(c) \/ EndSession(c)

Next == \/ \E c \in Calls : Step(c)
        \/ \E t \in Tokens : Age(t)
        \/ \E r \in Replicas : Restart(r)

Spec == Init /\ [][Next]_vars
-----------------------------------------------------------------------------
Steps == {"idle", "issue", "consume", "logout", "parse", "reply"}

TypeOK ==
  /\ refreshStore \in [Replicas -> SUBSET Issued]
  /\ age \in [Tokens -> Ages]
  /\ root \in [Tokens -> Tokens \cup {NoToken}]
  /\ consumed \subseteq Issued /\ known \subseteq Issued /\ forgotten \subseteq Issued
  /\ loggedOut \subseteq Issued
  /\ pc \in [Calls -> Steps]
  /\ at \in [Calls -> Replicas \cup {NoReplica}]
  /\ token \in [Calls -> Issued \cup {NoToken}]
  /\ \A c \in Calls : /\ pc[c] = "idle" <=> at[c] = NoReplica
                      /\ pc[c] \in {"consume", "logout", "parse", "reply"} => token[c] # NoToken

\* A refresh that has consumed its token and not yet issued the next one.
Rotating(c) == pc[c] \in {"parse", "issue"} /\ token[c] # NoToken

\* Rotation never forks a session: of its tokens at most one is in a table,
\* and in one table only; at most one call is between consuming one and
\* issuing the next; and not both.  Two clients that present the same token,
\* or a client that retries a refresh, cannot both get a successor.
OneHeir ==
  /\ \A r, q \in Replicas : \A t \in refreshStore[r], u \in refreshStore[q] :
       root[t] = root[u] => t = u /\ r = q
  /\ \A c, d \in Calls :
       Rotating(c) /\ Rotating(d) /\ root[token[c]] = root[token[d]] => c = d
  /\ \A c \in Calls, r \in Replicas : \A t \in refreshStore[r] :
       Rotating(c) => root[token[c]] # root[t]

\* A token is used once: what was consumed is in no table any more.
SingleUse == \A r \in Replicas : refreshStore[r] \cap consumed = {}

\* What a client holds works: it is in a table, unless it was consumed, has
\* expired, or its table is gone.
KnownTokenStored ==
  \A t \in known \ (consumed \cup forgotten) :
    age[t] # "recordExpired" => \E r \in Replicas : t \in refreshStore[r]

\* A table never takes in a token that a client has, or that was consumed or
\* logged out: a replica that once has not found it never will.
NeverReturns ==
  [][\A r \in Replicas :
       refreshStore'[r] \cap (known \cup consumed \cup loggedOut) \subseteq refreshStore[r]]_vars

\* The sessions of module Sessions: what of each is in some table, and which are
\* in the hands of a refresh.
Live(s)  == {t \in Issued : root[t] = s /\ \E r \in Replicas : t \in refreshStore[r]}
Turning  == {root[token[c]] : c \in {d \in Calls : Rotating(d)}}
Abstract == INSTANCE Sessions WITH used <- Issued,
                                   live <- [s \in Tokens |-> Live(s)],
                                   turning <- Turning

\* The tables, steps and replicas implement Sessions.  At each moment a session
\* has one token or one refresh under way, a refresh starts from the token that is
\* live and gives out one no session ever had, and whatever else happens to a
\* session, a late answer or an expired, repeated or misdirected call, ends it
\* or leaves it as it is.
ImplementsSessions == Abstract!Sessions

\* README.md:58-59 says a logout "Invalidates refresh token".
LogoutInvalidates == \A r \in Replicas : refreshStore[r] \cap loggedOut = {}
=============================================================================
