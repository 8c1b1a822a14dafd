---------------------------- MODULE SecondFactor ----------------------------
(***************************************************************************)
(* Two-factor authentication: the table totp_configurations, the requests  *)
(* that set a TOTP up, confirm it and disable it, the account recovery     *)
(* that removes it, and the logins that ask for it.                        *)
(*                                                                         *)
(* None of these locks the row it has read: BeginTOTPSetup and             *)
(* ConfirmTOTPSetup read it with one statement and write it with another,  *)
(* and a login reads it twice.  Each statement is a step.  That a code is  *)
(* right for a secret is open: whoever has seen the secret has it.         *)
(*                                                                         *)
(* Definition_Change is Definition with a plausible mistake made in it; no *)
(* specification uses it.                                                  *)
(***************************************************************************)
CONSTANTS
    Users,
    Secrets,    \* the secrets totp.Generate can return, each of them once
    Requests,   \* the requests that may be in flight at a time
    Nothing     \* the secret or the user of what has none

ASSUME FactorAssumption == Nothing \notin Users \union Secrets

VARIABLES
    totp,       \* totp_configurations, by user
    req,        \* the requests in flight
    made,       \* history: the secrets generated
    confirmed,  \* history: those a code was given for when a setup was confirmed
    overtaken,  \* history: those set up while a confirmation that had read
                \* an earlier secret of the user was about to enable the row
    removed,    \* history: those that were in a row and no longer are
    principals  \* history: what is told of the second factor of each login

vars == <<totp, req, made, confirmed, overtaken, removed, principals>>

NoRow == [secret |-> Nothing, enabled |-> FALSE]

Rows == [secret : Secrets, enabled : BOOLEAN]

\* asked, whether a code was asked for and right; raced is history: whether
\* a second factor was enabled since the row was read
Requested == [step   : {"idle", "upsert", "enable", "flag"},
              user   : Users \union {Nothing},
              secret : Secrets \union {Nothing},
              asked  : BOOLEAN,
              raced  : BOOLEAN]

Idle == [step |-> "idle", user |-> Nothing, secret |-> Nothing,
         asked |-> FALSE, raced |-> FALSE]

At(r, step) == req[r].step = step

Finish(r) == req' = [req EXCEPT ![r] = Idle]

\* The secret of the row of u is gone
Lose(u) == removed' = removed \union ({totp[u].secret} \ {Nothing})

-----------------------------------------------------------------------------
(* BeginTOTPSetup *)

\* The row is read and a secret generated.  If the row is enabled the answer
\* is ErrTOTPAlreadyEnabled and nothing changes.
BeginRead_EnabledIgnored(r, u, s) ==
    /\ At(r, "idle")
    /\ s \notin made
    /\ made' = made \union {s}
    /\ req' = [req EXCEPT ![r] = [Idle EXCEPT !.step = "upsert", !.user = u, !.secret = s]]
    /\ UNCHANGED <<totp, confirmed, overtaken, removed, principals>>
BeginRead_NotGenerated(r, u, s) ==
    /\ At(r, "idle")
    /\ ~totp[u].enabled
    /\ s \notin made
    /\ made' = made \union {s}
    /\ req' = [req EXCEPT ![r] = [Idle EXCEPT !.step = "upsert", !.user = u]]
    /\ UNCHANGED <<totp, confirmed, overtaken, removed, principals>>
BeginRead(r, u, s) ==
    /\ At(r, "idle")
    /\ ~totp[u].enabled
    /\ s \notin made
    /\ made' = made \union {s}
    /\ req' = [req EXCEPT ![r] = [Idle EXCEPT !.step = "upsert", !.user = u, !.secret = s]]
    /\ UNCHANGED <<totp, confirmed, overtaken, removed, principals>>

\* Another request has read the row of u and goes on to enable it
Confirming(u) == \E q \in Requests : At(q, "enable") /\ req[q].user = u

\* The secret and enabled_at of the row, if there is one, are overwritten
UpsertTotpConfiguration_KeepsEnabled(r) ==
    LET u == req[r].user
        s == req[r].secret
    IN  /\ At(r, "upsert")
        /\ totp' = [totp EXCEPT ![u].secret = s]
        /\ Lose(u)
        /\ overtaken' = IF Confirming(u) THEN overtaken \union {s} ELSE overtaken
        /\ Finish(r)
        /\ UNCHANGED <<made, confirmed, principals>>
UpsertTotpConfiguration(r) ==
    LET u == req[r].user
        s == req[r].secret
    IN  /\ At(r, "upsert")
        /\ totp' = [totp EXCEPT ![u] = [secret |-> s, enabled |-> FALSE]]
        /\ Lose(u)
        /\ overtaken' = IF Confirming(u) THEN overtaken \union {s} ELSE overtaken
        /\ Finish(r)
        /\ UNCHANGED <<made, confirmed, principals>>

-----------------------------------------------------------------------------
(* ConfirmTOTPSetup *)

\* The row is read and the code is right for its secret; otherwise the answer
\* is an error and nothing changes
ConfirmRead(r, u) ==
    /\ At(r, "idle")
    /\ totp[u] # NoRow
    /\ confirmed' = confirmed \union {totp[u].secret}
    /\ req' = [req EXCEPT ![r] = [Idle EXCEPT !.step = "enable", !.user = u,
                                              !.secret = totp[u].secret]]
    /\ UNCHANGED <<totp, made, overtaken, removed, principals>>

\* A setup or a login has read the row of u and goes on from what it read
Reading(q, u) == req[q].step \in {"upsert", "flag"} /\ req[q].user = u

\* Whatever row the user has by now is enabled
EnableTotpConfiguration_WritesBack(r) ==
    LET u == req[r].user
    IN  /\ At(r, "enable")
        /\ totp' = [totp EXCEPT ![u] = [secret |-> req[r].secret, enabled |-> TRUE]]
        /\ req' = [q \in Requests |->
                     CASE q = r         -> Idle
                       [] Reading(q, u) -> [req[q] EXCEPT !.raced = TRUE]
                       [] OTHER         -> req[q]]
        /\ UNCHANGED <<made, confirmed, overtaken, removed, principals>>
EnableTotpConfiguration(r) ==
    LET u == req[r].user
    IN  /\ At(r, "enable")
        /\ totp' = [totp EXCEPT ![u].enabled = totp[u] # NoRow]
        /\ req' = [q \in Requests |->
                     CASE q = r         -> Idle
                       [] Reading(q, u) -> [req[q] EXCEPT !.raced = TRUE]
                       [] OTHER         -> req[q]]
        /\ UNCHANGED <<made, confirmed, overtaken, removed, principals>>

-----------------------------------------------------------------------------
(* Removal: DeleteTotpConfigurationByUserID. *)

RemoveRow(u) ==
    /\ totp' = [totp EXCEPT ![u] = NoRow]
    /\ Lose(u)
    /\ UNCHANGED <<req, made, confirmed, overtaken, principals>>

DisableTOTP(u) == RemoveRow(u)

\* In the transaction of the recovery, see Accounts
RecoverAccount(u) == RemoveRow(u)

-----------------------------------------------------------------------------
(* A password login. *)

\* validateSecondFactor: without an enabled row no code is asked for; with one
\* the code is right, or the login goes no further
LoginFactor_EmptyCodePasses(r, u) ==
    /\ At(r, "idle")
    /\ req' = [req EXCEPT ![r] = [Idle EXCEPT !.step = "flag", !.user = u]]
    /\ UNCHANGED <<totp, made, confirmed, overtaken, removed, principals>>
LoginFactor(r, u) ==
    /\ At(r, "idle")
    /\ req' = [req EXCEPT ![r] = [Idle EXCEPT !.step = "flag", !.user = u,
                                              !.asked = totp[u].enabled]]
    /\ UNCHANGED <<totp, made, confirmed, overtaken, removed, principals>>

\* principalWithFactors reads the row again for totp_enabled
LoginFlag(r) ==
    LET u == req[r].user
    IN  /\ At(r, "flag")
        /\ principals' = principals \union
             {[flag |-> totp[u].enabled, asked |-> req[r].asked, raced |-> req[r].raced]}
        /\ Finish(r)
        /\ UNCHANGED <<totp, made, confirmed, overtaken, removed>>

\* The client is gone or a statement fails
Abort(r) ==
    /\ ~At(r, "idle")
    /\ Finish(r)
    /\ UNCHANGED <<totp, made, confirmed, overtaken, removed, principals>>

-----------------------------------------------------------------------------

Init ==
    /\ totp = [u \in Users |-> NoRow]
    /\ req = [r \in Requests |-> Idle]
    /\ made = {}
    /\ confirmed = {}
    /\ overtaken = {}
    /\ removed = {}
    /\ principals = {}

Setup(r) ==
    \/ \E u \in Users, s \in Secrets : BeginRead(r, u, s)
    \/ UpsertTotpConfiguration(r)
    \/ \E u \in Users : ConfirmRead(r, u)
    \/ EnableTotpConfiguration(r)

Login(r) ==
    \/ \E u \in Users : LoginFactor(r, u)
    \/ LoginFlag(r)

Next ==
    \/ \E r \in Requests : Setup(r) \/ Login(r) \/ Abort(r)
    \/ \E u \in Users : DisableTOTP(u) \/ RecoverAccount(u)

Spec == Init /\ [][Next]_vars

-----------------------------------------------------------------------------
(* Properties. *)

(* A row has a generated secret, and a request that writes one has it at   *)
(* hand (UpsertTotpConfiguration in totp.sql).                             *)
TypeOK ==
    /\ totp \in [Users -> Rows \union {NoRow}]
    /\ \A u \in Users : totp[u].secret \in made \union {Nothing}
    /\ made \subseteq Secrets
    /\ req \in [Requests -> Requested]
    /\ \A r \in Requests :
          /\ ~At(r, "idle") => req[r].user \in Users
          /\ At(r, "upsert") \/ At(r, "enable") => req[r].secret \in made
    /\ confirmed \union overtaken \union removed \subseteq made
    /\ principals \subseteq [flag : BOOLEAN, asked : BOOLEAN, raced : BOOLEAN]

(* The second factor of an account is a secret its user has given a code   *)
(* of, but for one way: a setup that overtook a confirmation in flight     *)
(* (BeginTOTPSetup, ConfirmTOTPSetup).                                     *)
UnconfirmedWasOvertaken ==
    \A u \in Users : totp[u].enabled => totp[u].secret \in confirmed \union overtaken

(* A secret that was replaced, disabled or removed by a recovery never     *)
(* comes back, whatever confirmation had read it before                    *)
(* (EnableTotpConfiguration, DeleteTotpConfigurationByUserID).             *)
RemovedNeverReturns == \A u \in Users : totp[u].secret \notin removed

(* A password login whose principal says that the second factor is enabled *)
(* was asked for it, unless it was enabled while the login was on its way  *)
(* (validateSecondFactor, principalWithFactors).  The logins by OAuth and  *)
(* by passkey carry the flag and ask for no code.                          *)
FlaggedWasAsked == \A p \in principals : p.flag => p.asked \/ p.raced

(* The inductive invariant behind these: a secret is in one place only, in *)
(* the row of one user or with the request about to write it, and what the *)
(* properties say of a row holds of what a request in flight will make of  *)
(* it.                                                                     *)
SecretsApart ==
    /\ \A u, v \in Users : u # v /\ totp[u].secret = totp[v].secret => totp[u] = NoRow
    /\ \A r \in Requests :
          At(r, "upsert") => /\ req[r].secret \notin removed
                             /\ \A u \in Users : totp[u].secret # req[r].secret
                             /\ \A q \in Requests :
                                   At(q, "upsert") /\ q # r => req[q].secret # req[r].secret

EnablingKnown ==
    \A r \in Requests :
        At(r, "enable") /\ totp[req[r].user] # NoRow
            => totp[req[r].user].secret \in confirmed \union overtaken

LoginsKnow ==
    \A r \in Requests :
        At(r, "flag") /\ totp[req[r].user].enabled => req[r].asked \/ req[r].raced

SetupsKnow ==
    \A r \in Requests :
        At(r, "upsert") /\ totp[req[r].user].enabled => req[r].raced

IInv ==
    /\ TypeOK
    /\ SecretsApart
    /\ RemovedNeverReturns
    /\ EnablingKnown
    /\ UnconfirmedWasOvertaken
    /\ LoginsKnow
    /\ SetupsKnow
    /\ FlaggedWasAsked

(* A setup is refused when the TOTP is enabled (ErrTOTPAlreadyEnabled): an *)
(* enabled one ends by being disabled or by a recovery, but for a setup    *)
(* that had read the row before it was enabled (BeginTOTPSetup).           *)
ReplacedBySlowSetup ==
    [][\A u \in Users :
         totp[u].enabled /\ totp'[u] \notin {totp[u], NoRow}
         => \E r \in Requests :
               /\ At(r, "upsert") /\ req[r].user = u /\ req[r].raced
               /\ req'[r].step = "idle"]_vars

(* "expected TOTP config to be disabled before confirmation" is what       *)
(* TestTOTPFlowAndLoginWithCode reports as a failure: no secret is the     *)
(* second factor of an account before a code of it was given.              *)
DisabledBeforeConfirmation ==
    \A u \in Users : totp[u].enabled => totp[u].secret \in confirmed
=============================================================================
