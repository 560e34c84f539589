---------------------------- MODULE SourceToken ----------------------------
(***************************************************************************)
(* The OAuth token of one data source.  The administrator connects the     *)
(* source (handleOAuthCallback); every refresh of a widget that uses it    *)
(* (Broker.refreshOAuth), every list of resources an administrator opens   *)
(* and every fetch of a OneDrive document (freshAccessToken) reads the     *)
(* stored token, has it renewed when its access token has expired, and     *)
(* writes the new one back.  Nothing keeps two of them apart.              *)
(*                                                                         *)
(* A token belongs to the grant of one connection.  With a provider that   *)
(* takes a refresh token only once, renewing it leaves every copy of the   *)
(* old one dead.                                                           *)
(***************************************************************************)
EXTENDS Integers

CONSTANTS
  Loop,         \* the broker's goroutine
  Renewers,     \* all goroutines that renew, Loop among them
  MaxGrants,    \* bound: connections
  MaxMishaps,   \* bound: restarts, writes that fail, grants withdrawn
  NoToken

ASSUME TokenConstants ==
  /\ Loop \in Renewers
  /\ {MaxGrants, MaxMishaps} \subseteq Nat
  /\ NoToken \notin [grant : 1 .. MaxGrants, live : BOOLEAN]

VARIABLES
  once,       \* the provider takes a refresh token once
  secret,     \* data_sources.secret_ciphertext
  health,     \* data_sources.health
  callback,   \* the callback's token, on its way into the row
  renewal,    \* where a goroutine is, the token it holds, what it will record
  grants, mishaps,
  lost        \* history: grants withdrawn, or whose last token was not written

tokenVars == <<once, secret, health, callback, renewal, grants, mishaps, lost>>

Tokens == [grant : 1 .. MaxGrants, live : BOOLEAN]
Idle   == [step |-> "idle", records |-> FALSE, token |-> NoToken, outcome |-> ""]

\* A copy of a token after every token of its grant has been refused for good.
Dead(token, grant) ==
  IF token # NoToken /\ token.grant = grant THEN [token EXCEPT !.live = FALSE] ELSE token

TokenInit ==
  /\ once \in BOOLEAN
  /\ secret = NoToken /\ health = "" /\ callback = NoToken
  /\ renewal = [t \in Renewers |-> Idle]
  /\ grants = 0 /\ mishaps = 0 /\ lost = {}

-----------------------------------------------------------------------------
(* handleOAuthCallback: the code is exchanged, and the token stored.       *)
Granted ==
  /\ callback = NoToken /\ grants < MaxGrants
  /\ grants' = grants + 1
  /\ callback' = [grant |-> grants', live |-> TRUE]
  /\ UNCHANGED <<once, secret, health, renewal, mishaps, lost>>

StoreGrant ==
  /\ callback # NoToken
  /\ secret' = callback /\ callback' = NoToken
  /\ UNCHANGED <<once, health, renewal, grants, mishaps, lost>>

-----------------------------------------------------------------------------
(* Renewals.                                                               *)

\* A row without a token has nothing to renew.  The broker records the source's
\* health, freshAccessToken does not.
ReadToken(t) ==
  /\ renewal[t].step = "idle" /\ secret # NoToken
  /\ \E records \in {TRUE} \cup (IF t = Loop THEN {} ELSE {FALSE}) :
       renewal' = [renewal EXCEPT ![t] = [step |-> "ask", records |-> records,
                                          token |-> secret, outcome |-> ""]]
  /\ UNCHANGED <<once, secret, health, callback, grants, mishaps, lost>>

\* Without a result to write back, only the outcome remains.
Outcome(t, outcome) ==
  IF renewal[t].records THEN [renewal[t] EXCEPT !.step = "record", !.outcome = outcome]
  ELSE Idle

\* The access token has not expired: FreshToken returns the token it was given.
Unexpired(t) ==
  /\ renewal[t].step = "ask"
  /\ renewal' = [renewal EXCEPT ![t] = Outcome(t, "ok")]
  /\ UNCHANGED <<once, secret, health, callback, grants, mishaps, lost>>

Renewed(t) ==
  LET old == renewal[t].token IN
  /\ renewal[t].step = "ask" /\ old.live
  /\ renewal' = [s \in Renewers |->
       IF s = t THEN [renewal[t] EXCEPT !.step = "write"]
       ELSE IF once THEN [renewal[s] EXCEPT !.token = Dead(@, old.grant)]
       ELSE renewal[s]]
  /\ secret' = IF once THEN Dead(secret, old.grant) ELSE secret
  /\ UNCHANGED <<once, health, callback, grants, mishaps, lost>>

\* ClassifyError: invalid_grant.
Refused(t) ==
  /\ renewal[t].step = "ask" /\ ~ renewal[t].token.live
  /\ renewal' = [renewal EXCEPT ![t] = Outcome(t, "reconnect")]
  /\ UNCHANGED <<once, secret, health, callback, grants, mishaps, lost>>

\* ClassifyError: anything else.
Unreachable(t) ==
  /\ renewal[t].step = "ask"
  /\ renewal' = [renewal EXCEPT ![t] = Outcome(t, "error")]
  /\ UNCHANGED <<once, secret, health, callback, grants, mishaps, lost>>

\* Mutant: only the broker writes back what it renewed.
WriteBackRecording(t) ==
  /\ renewal[t].step = "write"
  /\ secret' = IF renewal[t].records THEN renewal[t].token ELSE secret
  /\ renewal' = [renewal EXCEPT ![t] = Outcome(t, "ok")]
  /\ UNCHANGED <<once, health, callback, grants, mishaps, lost>>

WriteBack(t) ==
  /\ renewal[t].step = "write"
  /\ secret' = renewal[t].token
  /\ renewal' = [renewal EXCEPT ![t] = Outcome(t, "ok")]
  /\ UNCHANGED <<once, health, callback, grants, mishaps, lost>>

\* Mutant: an error is left to the log.
RecordSuccess(t) ==
  /\ renewal[t].step = "record"
  /\ health' = IF renewal[t].outcome = "ok" THEN "ok" ELSE health
  /\ renewal' = [renewal EXCEPT ![t] = Idle]
  /\ UNCHANGED <<once, secret, callback, grants, mishaps, lost>>

\* recordSourceHealth
Record(t) ==
  /\ renewal[t].step = "record"
  /\ health' = renewal[t].outcome
  /\ renewal' = [renewal EXCEPT ![t] = Idle]
  /\ UNCHANGED <<once, secret, callback, grants, mishaps, lost>>

-----------------------------------------------------------------------------
Mishap == mishaps < MaxMishaps /\ mishaps' = mishaps + 1

\* The error of the write is dropped.
WriteFails(t) ==
  /\ Mishap
  /\ renewal[t].step = "write"
  /\ renewal' = [renewal EXCEPT ![t] = Outcome(t, "ok")]
  /\ lost' = lost \cup {renewal[t].token.grant}
  /\ UNCHANGED <<once, secret, health, callback, grants>>

Restart ==
  /\ Mishap
  /\ renewal' = [t \in Renewers |-> Idle] /\ callback' = NoToken
  /\ lost' = lost \cup {renewal[t].token.grant :
                          t \in {s \in Renewers : renewal[s].step = "write"}}
  /\ UNCHANGED <<once, secret, health, grants>>

\* Whoever granted the access takes it back; or the answer with the only successor of
\* a once-only token is lost (Unreachable follows).
Withdraw(grant) ==
  /\ Mishap
  /\ grant \notin lost
  /\ lost' = lost \cup {grant}
  /\ secret' = Dead(secret, grant)
  /\ callback' = Dead(callback, grant)
  /\ renewal' = [t \in Renewers |-> [renewal[t] EXCEPT !.token = Dead(@, grant)]]
  /\ UNCHANGED <<once, health, grants>>

Renew(t) == Unexpired(t) \/ Renewed(t) \/ Refused(t) \/ Unreachable(t)

TokenNext ==
  \/ Granted \/ StoreGrant
  \/ \E t \in Renewers : ReadToken(t) \/ Renew(t) \/ WriteBack(t) \/ Record(t) \/ WriteFails(t)
  \/ Restart \/ \E grant \in 1 .. grants : Withdraw(grant)

\* The broker comes back to the source, requests end, and access tokens expire and
\* are renewed, or refused, some time.
TokenFairness ==
  /\ WF_tokenVars(StoreGrant) /\ WF_tokenVars(ReadToken(Loop))
  /\ \A t \in Renewers : /\ WF_tokenVars(Renew(t)) /\ WF_tokenVars(Record(t))
                         /\ WF_tokenVars(WriteBack(t) \/ WriteFails(t))
  /\ SF_tokenVars(Renewed(Loop) \/ Refused(Loop))

-----------------------------------------------------------------------------
TokenTypeOK ==
  /\ once \in BOOLEAN
  /\ secret \in Tokens \cup {NoToken} /\ callback \in Tokens \cup {NoToken}
  /\ health \in {"", "ok", "error", "reconnect"}
  /\ renewal \in [Renewers -> [step : {"idle", "ask", "write", "record"}, records : BOOLEAN,
                              token : Tokens \cup {NoToken},
                              outcome : {"", "ok", "error", "reconnect"}]]
  /\ grants \in 0 .. MaxGrants /\ mishaps \in 0 .. MaxMishaps
  /\ lost \subseteq 1 .. MaxGrants

\* The stored token works, or its successor is about to be written.
Works ==
  \/ secret.live
  \/ \E t \in Renewers : /\ renewal[t].step = "write" /\ renewal[t].token.live
                         /\ renewal[t].token.grant = secret.grant

\* broker.go, refreshOAuth: "refreshes a stored token, persists it if rotated".
\* Although nothing orders the renewals, and one of an earlier connection may write
\* over a later connection, they never leave the source with a token the provider
\* has done with: unless the grant was withdrawn, or its last token was not
\* written, the stored token works or its successor is about to be.
TokenLives == secret # NoToken /\ secret.grant \notin lost => Works

\* health.go judges a source by the health the broker recorded.  A renewal that
\* lost to another one, or to a new connection, records "reconnect" for a source
\* that works, and may do so again and again; but once renewals no longer overlap,
\* that is put right, and a source that has to be connected again is called so.
\* (A call to the token endpoint is assumed to end: WidgetCache shows what follows
\* when it does not.)
Alone == \A t \in Renewers \ {Loop} : renewal[t] = Idle
HealthTells ==
  \/ []<>(secret = NoToken \/ health = IF Works THEN "ok" ELSE "reconnect")
  \/ []<>~Alone
=============================================================================
