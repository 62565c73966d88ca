------------------------------ MODULE Sessions ------------------------------
(***************************************************************************)
(* What the auth service promises about refresh tokens, without tables,    *)
(* replicas, calls or clocks: a session has one token at a time, which can *)
(* be turned in for a new one, once, until the session ends for good.      *)
(* A session is named by its first token.  AuthStore implements it.        *)
(***************************************************************************)
CONSTANT Tokens

VARIABLES
  used,     \* tokens that were ever given out
  live,     \* live[s]: the token that continues s, a set of at most one
  turning   \* sessions whose token was turned in, with no new one yet

sessions == <<used, live, turning>>

Begin ==
  /\ used = {}
  /\ live = [s \in Tokens |-> {}]
  /\ turning = {}

\* A login.
Open(s) ==
  /\ s \notin used
  /\ used' = used \cup {s}
  /\ live' = [live EXCEPT ![s] = {s}]
  /\ UNCHANGED turning

\* The two halves of a refresh.
TurnIn(s) ==
  /\ live[s] # {}
  /\ live' = [live EXCEPT ![s] = {}]
  /\ turning' = turning \cup {s}
  /\ UNCHANGED used

Give(s, t) ==
  /\ s \in turning /\ t \notin used
  /\ used' = used \cup {t}
  /\ live' = [live EXCEPT ![s] = {t}]
  /\ turning' = turning \ {s}

\* A logout, an expired token, a failed refresh, a process that ends.
Close(S) ==
  /\ \A s \in S : live[s] # {} \/ s \in turning
  /\ live' = [s \in Tokens |-> IF s \in S THEN {} ELSE live[s]]
  /\ turning' = turning \ S
  /\ UNCHANGED used

Change == \/ \E s \in Tokens : Open(s) \/ TurnIn(s)
          \/ \E s, t \in Tokens : Give(s, t)
          \/ \E S \in SUBSET Tokens : Close(S)

Sessions == Begin /\ [][Change]_sessions

Over(s) == s \in used /\ live[s] = {} /\ s \notin turning

\* A session that is over stays over: nothing it left behind revives it.
OverForGood == [][\A s \in Tokens : Over(s) => Over(s)']_sessions
=============================================================================
