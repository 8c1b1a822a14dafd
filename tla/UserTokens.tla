----------------------------- MODULE UserTokens -----------------------------
(***************************************************************************)
(* The one-time tokens sent by mail: the table user_tokens, the requests   *)
(* that replace a token by a new one (requestTokenEmail), the operations   *)
(* that consume one (VerifyEmail, ResetPassword, RecoverAccount) and the   *)
(* cleanup job.                                                            *)
(*                                                                         *)
(* All of these are transactions at READ COMMITTED.  A variable holds what *)
(* is committed; what a transaction has written is in its own record, and  *)
(* the rows it has locked are in held until it commits or rolls back.  A   *)
(* statement sees what was committed when it began; when it has to wait    *)
(* for a row it looks at that row again, and at no other.  NOW() is the    *)
(* time at which the transaction began.                                    *)
(*                                                                         *)
(* Definition_Change is Definition with a plausible mistake made in it; no *)
(* specification uses it.                                                  *)
(***************************************************************************)
EXTENDS Integers, FiniteSets

CONSTANTS
    Users,
    Kinds,          \* token_kind
    Verification,   \* the kind asked for by unverified users only
    Tokens,         \* the tokens NewToken can return, each of them once
    Requests,       \* requestTokenEmail in flight
    Consumers,      \* VerifyEmail, ResetPassword, RecoverAccount in flight
    Nobody,         \* the user, kind and token of what is idle
    TTL,            \* how long a token may be used
    MaxTime         \* bound: the clock stops here

ASSUME TokenAssumption ==
    /\ Verification \in Kinds
    /\ TTL \in Nat \ {0}
    /\ MaxTime \in Nat
    /\ Nobody \notin Users \union Kinds \union Tokens

VARIABLES
    now,
    account,    \* the users: absent, or whether email_verified_at is set
    row,        \* user_tokens, by token; NoRow is a row that is not there
    req,        \* the requests for a token
    use,        \* the attempts to consume a token
    issued,     \* history: the row each token was committed with
    latest,     \* history: the token committed last, by user and kind
    replaced,   \* history: the tokens that were there when a request started
                \* that has been answered since, for the same user and kind
    effects     \* history: how often each token was consumed, by kind asked

vars == <<now, account, row, req, use, issued, latest, replaced, effects>>

NoRow == [user |-> Nobody, kind |-> Nobody, expiresAt |-> 0, used |-> FALSE]

Rows == [user : Users, kind : Kinds, expiresAt : Nat, used : BOOLEAN]

Asked == [step : {"idle", "begin", "scan", "expire", "commit"}, user : Users \union {Nobody},
          kind : Kinds \union {Nobody}, token : Tokens \union {Nobody}, at : Nat,
          seen : SUBSET Tokens, held : SUBSET Tokens, before : SUBSET Tokens]

Attempt == [step : {"idle", "begun", "consumed"}, kind : Kinds \union {Nobody},
            token : Tokens \union {Nobody}, at : Nat]

Idle == [step |-> "idle", user |-> Nobody, kind |-> Nobody, token |-> Nobody,
         at |-> 0, seen |-> {}, held |-> {}, before |-> {}]

Unused == [step |-> "idle", kind |-> Nobody, token |-> Nobody, at |-> 0]

-----------------------------------------------------------------------------

There(t) == row[t] # NoRow

\* used_at IS NULL AND expires_at > NOW(), for a transaction begun at time at
Live(t, at) == There(t) /\ ~row[t].used /\ row[t].expiresAt > at

Of(u, k) == {t \in Tokens : There(t) /\ row[t].user = u /\ row[t].kind = k}

\* Locked by a transaction other than that of request r, or of any
Held(t) ==
    \/ \E r \in Requests : t \in req[r].held
    \/ \E c \in Consumers : use[c].step = "consumed" /\ use[c].token = t

\* NewToken returns a token nobody has seen or guessed
Fresh(t) ==
    /\ issued[t] = NoRow
    /\ \A r \in Requests : req[r].token # t
    /\ \A c \in Consumers : use[c].token # t

Issue(t, u, k) ==
    LET new == [user |-> u, kind |-> k, expiresAt |-> now + TTL, used |-> FALSE]
    IN  /\ issued' = [issued EXCEPT ![t] = new]
        /\ latest' = [latest EXCEPT ![u][k] = t]

-----------------------------------------------------------------------------
(* requestTokenEmail *)

\* GetUserByEmail, the check of onlyUnverified, and NewToken, all before the
\* transaction.  An unknown or a verified user is answered at once.
RequestStart(r, u, k, t) ==
    /\ req[r].step = "idle"
    /\ Fresh(t)
    /\ account[u] # "absent"
    /\ ~(k = Verification /\ account[u] = "verified")
    /\ req' = [req EXCEPT ![r] = [Idle EXCEPT !.step = "begin", !.user = u, !.kind = k,
                                              !.token = t, !.before = Of(u, k)]]
    /\ UNCHANGED <<now, account, row, use, issued, latest, replaced, effects>>

\* BEGIN, which fixes NOW()
RequestBegin(r) ==
    /\ req[r].step = "begin"
    /\ req' = [req EXCEPT ![r].step = "scan", ![r].at = now]
    /\ UNCHANGED <<now, account, row, use, issued, latest, replaced, effects>>

\* ExpireUserTokens finds the rows it is about to update
ExpireScan(r) ==
    /\ req[r].step = "scan"
    /\ req' = [req EXCEPT
                 ![r].step = "expire",
                 ![r].seen = {t \in Of(req[r].user, req[r].kind) : Live(t, req[r].at)}]
    /\ UNCHANGED <<now, account, row, use, issued, latest, replaced, effects>>

\* ... waits until no other transaction holds one of them, looks at each of
\* them again, and locks those it updates
ExpireLock(r) ==
    /\ req[r].step = "expire"
    /\ \A t \in req[r].seen : ~Held(t)
    /\ req' = [req EXCEPT ![r].step = "commit",
                          ![r].held = {t \in req[r].seen : Live(t, req[r].at)}]
    /\ UNCHANGED <<now, account, row, use, issued, latest, replaced, effects>>

\* CreateUserToken and EnqueueEmail add rows no one else sees before the
\* commit; the mail carries the token
RequestCommit_NewFirst(r) ==
    LET q == req[r]
    IN  /\ q.step = "commit"
        /\ Issue(q.token, q.user, q.kind)
        /\ row' = [t \in Tokens |->
                     IF t \in q.held \union {q.token}
                     THEN [issued'[t] EXCEPT !.expiresAt = q.at]
                     ELSE row[t]]
        /\ replaced' = replaced \union q.before
        /\ req' = [req EXCEPT ![r] = Idle]
        /\ UNCHANGED <<now, account, use, effects>>
RequestCommit_NoExpire(r) ==
    LET q == req[r]
    IN  /\ q.step = "commit"
        /\ Issue(q.token, q.user, q.kind)
        /\ row' = [row EXCEPT ![q.token] = issued'[q.token]]
        /\ replaced' = replaced \union q.before
        /\ req' = [req EXCEPT ![r] = Idle]
        /\ UNCHANGED <<now, account, use, effects>>
RequestCommit(r) ==
    LET q == req[r]
    IN  /\ q.step = "commit"
        /\ Issue(q.token, q.user, q.kind)
        /\ row' = [t \in Tokens |->
                     CASE t = q.token   -> issued'[t]
                       [] t \in q.held  -> [row[t] EXCEPT !.expiresAt = q.at]
                       [] OTHER         -> row[t]]
        /\ replaced' = replaced \union q.before
        /\ req' = [req EXCEPT ![r] = Idle]
        /\ UNCHANGED <<now, account, use, effects>>

\* A statement fails or the client is gone: the transaction is rolled back
RequestRollback_KeepsLocks(r) ==
    /\ req[r].step # "idle"
    /\ req' = [req EXCEPT ![r] = [Idle EXCEPT !.held = req[r].held]]
    /\ UNCHANGED <<now, account, row, use, issued, latest, replaced, effects>>
RequestRollback(r) ==
    /\ req[r].step # "idle"
    /\ req' = [req EXCEPT ![r] = Idle]
    /\ UNCHANGED <<now, account, row, use, issued, latest, replaced, effects>>

\* Register commits a new user together with the first token and its mail
Register(u, t) ==
    /\ account[u] = "absent"
    /\ account' = [account EXCEPT ![u] = "unverified"]
    /\ Fresh(t)
    /\ Issue(t, u, Verification)
    /\ row' = [row EXCEPT ![t] = issued'[t]]
    /\ UNCHANGED <<now, req, use, replaced, effects>>

-----------------------------------------------------------------------------
(* The three operations that consume a token of the kind they ask for. *)

\* BEGIN, with whatever token was given
ConsumeBegin(c, k, t) ==
    /\ use[c].step = "idle"
    /\ use' = [use EXCEPT ![c] = [step |-> "begun", kind |-> k, token |-> t, at |-> now]]
    /\ UNCHANGED <<now, account, row, req, issued, latest, replaced, effects>>

\* ConsumeUserToken waits for the row, and answers no row or locks it
ConsumeUserToken_NoWait(c) ==
    LET t == use[c].token
    IN  /\ use[c].step = "begun"
        /\ use' = IF Live(t, use[c].at) /\ row[t].kind = use[c].kind
                  THEN [use EXCEPT ![c].step = "consumed"]
                  ELSE [use EXCEPT ![c] = Unused]
        /\ UNCHANGED <<now, account, row, req, issued, latest, replaced, effects>>
ConsumeUserToken(c) ==
    LET t == use[c].token
    IN  /\ use[c].step = "begun"
        /\ ~Held(t)
        /\ use' = IF Live(t, use[c].at) /\ row[t].kind = use[c].kind
                  THEN [use EXCEPT ![c].step = "consumed"]
                  ELSE [use EXCEPT ![c] = Unused]
        /\ UNCHANGED <<now, account, row, req, issued, latest, replaced, effects>>

\* The rest of the transaction (see Accounts) and its commit
ConsumeCommit(c) ==
    LET t == use[c].token
    IN  /\ use[c].step = "consumed"
        /\ row' = [row EXCEPT ![t].used = TRUE]
        /\ effects' = [effects EXCEPT ![t][use[c].kind] = @ + 1]
        /\ account' = IF use[c].kind = Verification
                      THEN [account EXCEPT ![row[t].user] = "verified"]
                      ELSE account
        /\ use' = [use EXCEPT ![c] = Unused]
        /\ UNCHANGED <<now, req, issued, latest, replaced>>

ConsumeRollback(c) ==
    /\ use[c].step # "idle"
    /\ use' = [use EXCEPT ![c] = Unused]
    /\ UNCHANGED <<now, account, row, req, issued, latest, replaced, effects>>

-----------------------------------------------------------------------------
(* The cleanup job, and the clock. *)

\* Rows that some transaction holds are left for when it is over
DeleteRows(S) ==
    /\ S # {}
    /\ row' = [t \in Tokens |-> IF t \in S THEN NoRow ELSE row[t]]
    /\ UNCHANGED <<now, account, req, use, issued, latest, replaced, effects>>

DeleteExpiredUserTokens ==
    DeleteRows({t \in Tokens : /\ There(t) /\ ~row[t].used /\ ~Held(t)
                               /\ row[t].expiresAt < now})

DeleteUsedUserTokens ==
    DeleteRows({t \in Tokens : There(t) /\ row[t].used /\ ~Held(t)})

Tick ==
    /\ now < MaxTime
    /\ now' = now + 1
    /\ UNCHANGED <<account, row, req, use, issued, latest, replaced, effects>>

-----------------------------------------------------------------------------

Init ==
    /\ now = 0
    /\ account \in [Users -> {"absent", "unverified", "verified"}]
    /\ row = [t \in Tokens |-> NoRow]
    /\ req = [r \in Requests |-> Idle]
    /\ use = [c \in Consumers |-> Unused]
    /\ issued = [t \in Tokens |-> NoRow]
    /\ latest = [u \in Users |-> [k \in Kinds |-> Nobody]]
    /\ replaced = {}
    /\ effects = [t \in Tokens |-> [k \in Kinds |-> 0]]

Request(r) ==
    \/ \E u \in Users, k \in Kinds, t \in Tokens : RequestStart(r, u, k, t)
    \/ RequestBegin(r)
    \/ ExpireScan(r)
    \/ ExpireLock(r)
    \/ RequestCommit(r)
    \/ RequestRollback(r)

Consume(c) ==
    \/ \E k \in Kinds, t \in Tokens : ConsumeBegin(c, k, t)
    \/ ConsumeUserToken(c)
    \/ ConsumeCommit(c)
    \/ ConsumeRollback(c)

Next ==
    \/ \E r \in Requests : Request(r)
    \/ \E u \in Users, t \in Tokens : Register(u, t)
    \/ \E c \in Consumers : Consume(c)
    \/ DeleteExpiredUserTokens
    \/ DeleteUsedUserTokens
    \/ Tick

Spec == Init /\ [][Next]_vars

-----------------------------------------------------------------------------
(* Properties. *)

(* The rows are those of user_tokens, and a transaction holds no more than *)
(* what it saw (requestTokenEmail).                                        *)
TypeOK ==
    /\ now \in Nat
    /\ account \in [Users -> {"absent", "unverified", "verified"}]
    /\ row \in [Tokens -> Rows \union {NoRow}]
    /\ issued \in [Tokens -> Rows \union {NoRow}]
    /\ req \in [Requests -> Asked]
    /\ use \in [Consumers -> Attempt]
    /\ \A r \in Requests : req[r].held \subseteq req[r].seen
    /\ latest \in [Users -> [Kinds -> Tokens \union {Nobody}]]
    /\ replaced \subseteq Tokens
    /\ effects \in [Tokens -> [Kinds -> Nat]]

(* However many ask at once, a token takes effect once, for the kind it    *)
(* was issued for (TestVerifyEmailTokenCanOnlyBeConsumedOnceConcurrently). *)
ConsumedOnce ==
    \A t \in Tokens, k \in Kinds :
        effects[t][k] <= (IF issued[t].kind = k THEN 1 ELSE 0)

(* Once a request for a token has been answered, the tokens of its kind    *)
(* that were there when it started are refused to every attempt begun      *)
(* from then on (ExpireUserTokens), whatever other requests overlapped it. *)
ReplacedIsDead == \A t \in replaced : ~Live(t, now)

(* The token mailed last is good for its whole life: no request that       *)
(* overlapped, rolled back or came before expires it, and no cleanup takes *)
(* it away (requestTokenEmail, CleanupWorker.Work).                        *)
LatestIsGood ==
    \A u \in Users, k \in Kinds :
        LET t == latest[u][k]
        IN  t # Nobody => \/ effects[t][k] > 0
                          \/ now >= issued[t].expiresAt
                          \/ Live(t, now)

(* "first verification token remained valid after resend" is what          *)
(* TestRequestEmailVerificationReplacesPreviousToken reports as a failure: *)
(* no two tokens of a user and kind are good at a time.                    *)
OneTokenAtATime ==
    \A u \in Users, k \in Kinds :
        Cardinality({t \in Of(u, k) : Live(t, now)}) <= 1

-----------------------------------------------------------------------------
(* The inductive invariant. *)

\* A row is the one the token was issued with, but for its end and its use
RowsIssued ==
    \A t \in Tokens :
        There(t) => /\ issued[t] # NoRow
                    /\ row[t].user = issued[t].user /\ row[t].kind = issued[t].kind

\* q is the record of request r, and x that of consumer c, from here on.
\* The token of a request is its own, and nobody has it before the commit
OwnToken(r, q) ==
    IF q.step = "idle" THEN q.token = Nobody
    ELSE /\ q.user \in Users /\ q.kind \in Kinds /\ q.token \in Tokens
         /\ issued[q.token] = NoRow
         /\ \A s \in Requests \ {r} : req[s].token # q.token

\* What a transaction has locked is good, and locked by no other
Using(t, x) == x.step = "consumed" /\ x.token = t

LockedForRequest(r, q) ==
    /\ q.at <= now
    /\ q.held # {} => q.step = "commit"
    /\ \A t \in q.held :
          /\ Live(t, q.at)
          /\ \A s \in Requests \ {r} : t \notin req[s].held
          /\ \A c \in Consumers : ~Using(t, use[c])

LockedForUse(c, x) ==
    /\ x.step # "idle" => x.kind \in Kinds /\ x.token \in Tokens
    /\ x.step = "consumed" =>
          /\ Live(x.token, x.at) /\ row[x.token].kind = x.kind
          /\ \A r \in Requests : x.token \notin req[r].held
          /\ \A d \in Consumers \ {c} : ~Using(x.token, use[d])

\* What was there when a request started is of its user and kind; past the
\* scan it is about to be expired, or refused at the time of the request
Covers(q) ==
    /\ \A t \in q.before \union q.seen :
          issued[t] # NoRow /\ issued[t].user = q.user /\ issued[t].kind = q.kind
    /\ \A t \in q.before :
          /\ q.step = "expire" => t \in q.seen \/ ~Live(t, q.at)
          /\ q.step = "commit" => t \in q.held \/ ~Live(t, q.at)

\* A token that had its effect can have no other
Spent(t) ==
    \A k \in Kinds :
        effects[t][k] > 0 =>
            /\ effects[t][k] = 1
            /\ issued[t].kind = k
            /\ There(t) => row[t].used

\* The token issued last has its whole life before it, if it was not used
Lasts(u, k) ==
    LET t == latest[u][k]
    IN  t # Nobody =>
           /\ issued[t] # NoRow /\ issued[t].user = u /\ issued[t].kind = k
           /\ \/ effects[t][k] > 0
              \/ now >= issued[t].expiresAt
              \/ There(t) /\ ~row[t].used /\ row[t].expiresAt = issued[t].expiresAt

IInv ==
    /\ TypeOK
    /\ RowsIssued
    /\ \A r \in Requests :
          OwnToken(r, req[r]) /\ LockedForRequest(r, req[r]) /\ Covers(req[r])
    /\ \A c \in Consumers : LockedForUse(c, use[c])
    /\ \A t \in Tokens : Spent(t)
    /\ \A u \in Users, k \in Kinds : Lasts(u, k)
    /\ \A t \in replaced : issued[t] # NoRow /\ ~Live(t, now)
=============================================================================
