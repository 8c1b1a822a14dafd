------------------------------ MODULE Accounts ------------------------------
(***************************************************************************)
(* The users table and the operations of the authentication service that   *)
(* change it: the password login with its lockout, the logins that end in  *)
(* completeUserAuthentication (OAuth, passkey), password reset, account    *)
(* recovery, email verification and the inactivity job.                    *)
(*                                                                         *)
(* A login runs its statements one by one on the connection pool, outside  *)
(* any transaction, so each statement is a step of its own and every other *)
(* request may run between two of them.  ResetPassword, RecoverAccount and *)
(* VerifyEmail are transactions of single-row updates: the row lock taken  *)
(* by the first update of the users row is held to the commit and none of  *)
(* them reads a row before it, so each is one step, its commit.            *)
(*                                                                         *)
(* The application clock and the database clock are one clock here.  The   *)
(* application reads it apart from the statement it passes the reading to; *)
(* NOW() in a statement is the clock when the statement runs.              *)
(*                                                                         *)
(* Definition_Change is Definition with a plausible mistake made in it; no *)
(* specification uses it.                                                  *)
(***************************************************************************)
EXTENDS Integers

CONSTANTS
    Users,          \* the rows of the table
    Requests,       \* the login requests that may be in flight at a time
    Passwords,      \* what a password may be
    NoPassword,     \* password_hash IS NULL, an account created by OAuth
    NoUser,         \* the user of an idle request
    Threshold,      \* security.failed_login_threshold
    Window,         \* security.failed_login_window, also how long a lock is
    InactiveAfter,  \* auth.inactivity_disable_after
    MaxTime,        \* bound: the clock stops here
    MaxFailures,    \* bound: no failed_login_count above this one
    MaxVersion      \* bound: no authentication version above this one

\* app.New rejects a threshold or a window that is not positive
ASSUME ConfigAssumption ==
    /\ Threshold \in Nat \ {0}
    /\ Window \in Nat \ {0}
    /\ InactiveAfter \in Nat \ {0}
    /\ MaxTime \in Nat
    /\ MaxVersion \in Nat \ {0}
    /\ NoUser \notin Users
    /\ NoPassword \notin Passwords

VARIABLES
    now,         \* the clock
    user,        \* the users table
    req,         \* the login requests in flight
    principals,  \* history: the principals completeUserAuthentication returned
    revoked,     \* history: those returned before a reset or a recovery of
                 \* their user
    cut,         \* history: the users of whom a request was cut off before it
                 \* could lock the account, and no failure was counted since
    shortened    \* history: the users of whom a late LockUserUntil moved the
                 \* end of a lock back, and no failure was counted since

vars == <<now, user, req, principals, revoked, cut, shortened>>

-----------------------------------------------------------------------------
(* The row of a user and the states of a request. *)

NoTime == -1        \* a timestamp column that IS NULL

Timestamps == Nat \union {NoTime}

Reasons == {"none", "failed_login_attempts", "inactivity"}

Rows == [active      : BOOLEAN,
         verified    : BOOLEAN,
         password    : Passwords \union {NoPassword},
         version     : Nat \ {0},
         failures    : Nat,
         lastFailed  : Timestamps,
         lockedUntil : Timestamps,
         reason      : Reasons,
         lastLogin   : Nat]      \* COALESCE(last_login_at, created_at)

\* Where a login request stands: the statement it runs next
Steps == {"idle", "check", "factor", "record", "clock", "lock",
          "validate", "touch", "reread"}

Requested == [step        : Steps,
              user        : Users \union {NoUser},
              match       : BOOLEAN,     \* the given password is the one read
              active      : BOOLEAN,     \* is_active as read
              verified    : BOOLEAN,     \* email_verified_at as read
              lockedUntil : Timestamps,  \* locked_until as read
              until       : Timestamps]  \* the end of the lock it is to set

Idle == [step |-> "idle", user |-> NoUser, match |-> FALSE, active |-> FALSE,
         verified |-> FALSE, lockedUntil |-> NoTime, until |-> NoTime]

\* The row left by Register (a password, the email not verified) and by
\* createOAuthUser (no password, the email verified by the provider)
NewRow_VersionZero(p, v) ==
    [active |-> TRUE, verified |-> v, password |-> p, version |-> 0,
     failures |-> 0, lastFailed |-> NoTime, lockedUntil |-> NoTime,
     reason |-> "none", lastLogin |-> 0]
NewRow(p, v) ==
    [active |-> TRUE, verified |-> v, password |-> p, version |-> 1,
     failures |-> 0, lastFailed |-> NoTime, lockedUntil |-> NoTime,
     reason |-> "none", lastLogin |-> 0]

-----------------------------------------------------------------------------
(* The statements of db/queries/users.sql, as functions of a row. *)

ResetLoginFailures(row) ==
    [row EXCEPT !.failures = 0, !.lastFailed = NoTime, !.lockedUntil = NoTime,
                !.reason = IF @ = "failed_login_attempts" THEN "none" ELSE @]

UpdateUserLastLogin(row) == [ResetLoginFailures(row) EXCEPT !.lastLogin = now]

\* Failures further apart than the window do not add up
RecordFailedLogin(row) ==
    [row EXCEPT !.failures = IF \/ row.lastFailed = NoTime
                                \/ row.lastFailed < now - Window
                             THEN 1
                             ELSE @ + 1,
                !.lastFailed = now]

LockUserUntil(row, until) ==
    [row EXCEPT !.lockedUntil = until, !.reason = "failed_login_attempts"]

IncrementUserAuthVersion(row) == [row EXCEPT !.version = @ + 1]

RestoreUserAccess_KeepsReason(row) ==
    [row EXCEPT !.active = TRUE, !.verified = TRUE, !.failures = 0,
                !.lastFailed = NoTime, !.lockedUntil = NoTime]
RestoreUserAccess(row) ==
    [row EXCEPT !.active = TRUE, !.verified = TRUE, !.failures = 0,
                !.lastFailed = NoTime, !.lockedUntil = NoTime,
                !.reason = "none"]

Inactive(row) == row.lastLogin < now - InactiveAfter

DisableInactiveUsers(row) ==
    IF row.active /\ Inactive(row)
    THEN [row EXCEPT !.active = FALSE, !.reason = "inactivity"]
    ELSE row

userAccountIsUsable(row) ==
    row.active /\ ~(row.lockedUntil > now) /\ row.verified

\* ValidateSession: whether a session made from principal p = <<user, version>>
\* is let through now
ValidateSession(p) ==
    userAccountIsUsable(user[p[1]]) /\ user[p[1]].version = p[2]

-----------------------------------------------------------------------------
(* LoginWithPassword, statement by statement. *)

Goto(r, step) == req' = [req EXCEPT ![r] = [@ EXCEPT !.step = step]]

Finish(r) == req' = [req EXCEPT ![r] = Idle]

Update(u, row) == user' = [user EXCEPT ![u] = row]

\* GetUserWithPasswordByEmail and ComparePassword on the row it returned.  An
\* account without a password, as an unknown email, is answered at once.
LoginRead(r, u, p) ==
    /\ req[r].step = "idle"
    /\ user[u].password # NoPassword
    /\ req' = [req EXCEPT ![r] =
                 [step |-> "check", user |-> u, match |-> user[u].password = p,
                  active |-> user[u].active, verified |-> user[u].verified,
                  lockedUntil |-> user[u].lockedUntil, until |-> NoTime]]
    /\ UNCHANGED <<now, user, principals, revoked, cut, shortened>>

\* The checks on the row read, the lock against the clock as it is now
LoginCheck_LockIgnored(r) ==
    /\ req[r].step = "check"
    /\ IF ~req[r].active \/ ~req[r].verified
       THEN Finish(r)
       ELSE Goto(r, IF req[r].match THEN "factor" ELSE "record")
    /\ UNCHANGED <<now, user, principals, revoked, cut, shortened>>
LoginCheck(r) ==
    /\ req[r].step = "check"
    /\ IF ~req[r].active \/ req[r].lockedUntil > now \/ ~req[r].verified
       THEN Finish(r)
       ELSE Goto(r, IF req[r].match THEN "factor" ELSE "record")
    /\ UNCHANGED <<now, user, principals, revoked, cut, shortened>>

\* validateSecondFactor.  Whether the account has a second factor, and whether
\* the code given is right, is open here.
SecondFactor(r) ==
    /\ req[r].step = "factor"
    /\ Goto(r, "validate") \/ Goto(r, "record")
    /\ UNCHANGED <<now, user, principals, revoked, cut, shortened>>

\* handleFailedLogin, its first statement: the failure is counted
RecordFailure_OffByOne(r) ==
    LET u == req[r].user
        row == RecordFailedLogin(user[u])
    IN  /\ req[r].step = "record"
        /\ row.failures <= MaxFailures
        /\ Update(u, row)
        /\ IF row.failures > Threshold THEN Goto(r, "clock") ELSE Finish(r)
        /\ cut' = cut \ {u}
        /\ shortened' = shortened \ {u}
        /\ UNCHANGED <<now, principals, revoked>>
RecordFailure(r) ==
    LET u == req[r].user
        row == RecordFailedLogin(user[u])
    IN  /\ req[r].step = "record"
        /\ row.failures <= MaxFailures
        /\ Update(u, row)
        /\ IF row.failures >= Threshold THEN Goto(r, "clock") ELSE Finish(r)
        /\ cut' = cut \ {u}
        /\ shortened' = shortened \ {u}
        /\ UNCHANGED <<now, principals, revoked>>

\* time.Now() and the end of the lock, before the statement is sent
ReadClock(r) ==
    /\ req[r].step = "clock"
    /\ req' = [req EXCEPT ![r] = [@ EXCEPT !.step = "lock", !.until = now + Window]]
    /\ UNCHANGED <<now, user, principals, revoked, cut, shortened>>

\* handleFailedLogin, its second statement: the account is locked until then,
\* however long the statement waited and whatever lock it finds
LockAccount(r) ==
    LET u == req[r].user
    IN  /\ req[r].step = "lock"
        /\ Update(u, LockUserUntil(user[u], req[r].until))
        /\ Finish(r)
        /\ shortened' = IF req[r].until < user[u].lockedUntil THEN shortened \union {u}
                                                              ELSE shortened
        /\ UNCHANGED <<now, principals, revoked, cut>>

-----------------------------------------------------------------------------
(* completeUserAuthentication, where every login ends. *)

\* An OAuth or passkey login whose proof was accepted
FederatedLogin(r, u) ==
    /\ req[r].step = "idle"
    /\ req' = [req EXCEPT ![r] = [Idle EXCEPT !.step = "validate", !.user = u]]
    /\ UNCHANGED <<now, user, principals, revoked, cut, shortened>>

\* GetUserByID and validateUserAccount
ValidateAccount(r) ==
    /\ req[r].step = "validate"
    /\ IF userAccountIsUsable(user[req[r].user]) THEN Goto(r, "touch") ELSE Finish(r)
    /\ UNCHANGED <<now, user, principals, revoked, cut, shortened>>

TouchLastLogin(r) ==
    /\ req[r].step = "touch"
    /\ Update(req[r].user, UpdateUserLastLogin(user[req[r].user]))
    /\ Goto(r, "reread")
    /\ UNCHANGED <<now, principals, revoked, cut, shortened>>

\* The second GetUserByID, whose row gives the principal its version.  The
\* session made from the principal may be stored at any later time.
ReadPrincipal(r) ==
    LET u == req[r].user
    IN  /\ req[r].step = "reread"
        /\ principals' = principals \union {<<u, user[u].version>>}
        /\ Finish(r)
        /\ UNCHANGED <<now, user, revoked, cut, shortened>>

\* The client goes away and the context of its request is cancelled, or a
\* statement fails: what was committed stays, nothing else follows
Abort(r) ==
    /\ req[r].step # "idle"
    /\ cut' = IF req[r].step \in {"clock", "lock"} THEN cut \union {req[r].user} ELSE cut
    /\ Finish(r)
    /\ UNCHANGED <<now, user, principals, revoked, shortened>>

-----------------------------------------------------------------------------
(* The other writers of the table. *)

Revoke(u) == revoked' = revoked \union {p \in principals : p[1] = u}

\* The token is consumed in the same transaction, see UserTokens
ResetPassword_SameVersion(u, p) ==
    /\ user[u].version < MaxVersion
    /\ Update(u, ResetLoginFailures([user[u] EXCEPT !.password = p]))
    /\ Revoke(u)
    /\ UNCHANGED <<now, req, principals, cut, shortened>>
ResetPassword(u, p) ==
    /\ user[u].version < MaxVersion
    /\ Update(u, ResetLoginFailures(IncrementUserAuthVersion(
                     [user[u] EXCEPT !.password = p])))
    /\ Revoke(u)
    /\ UNCHANGED <<now, req, principals, cut, shortened>>

RecoverAccount_SameVersion(u, p) ==
    /\ user[u].version < MaxVersion
    /\ Update(u, RestoreUserAccess([user[u] EXCEPT !.password = p]))
    /\ Revoke(u)
    /\ UNCHANGED <<now, req, principals, cut, shortened>>
RecoverAccount(u, p) ==
    /\ user[u].version < MaxVersion
    /\ Update(u, IncrementUserAuthVersion(RestoreUserAccess(
                     [user[u] EXCEPT !.password = p])))
    /\ Revoke(u)
    /\ UNCHANGED <<now, req, principals, cut, shortened>>

VerifyEmail(u) ==
    /\ Update(u, [user[u] EXCEPT !.verified = TRUE])
    /\ UNCHANGED <<now, req, principals, revoked, cut, shortened>>

\* One statement over the whole table, run by the inactivity job
DisableInactive ==
    /\ user' = [u \in Users |-> DisableInactiveUsers(user[u])]
    /\ UNCHANGED <<now, req, principals, revoked, cut, shortened>>

Tick ==
    /\ now < MaxTime
    /\ now' = now + 1
    /\ UNCHANGED <<user, req, principals, revoked, cut, shortened>>

-----------------------------------------------------------------------------

Init ==
    /\ now = 0
    /\ user \in [Users -> {NewRow(p, FALSE) : p \in Passwords}
                            \union {NewRow(NoPassword, TRUE)}]
    /\ req = [r \in Requests |-> Idle]
    /\ principals = {}
    /\ revoked = {}
    /\ cut = {}
    /\ shortened = {}

Login(r) ==
    \/ \E u \in Users, p \in Passwords : LoginRead(r, u, p)
    \/ LoginCheck(r)
    \/ SecondFactor(r)
    \/ RecordFailure(r)
    \/ ReadClock(r)
    \/ LockAccount(r)
    \/ \E u \in Users : FederatedLogin(r, u)
    \/ ValidateAccount(r)
    \/ TouchLastLogin(r)
    \/ ReadPrincipal(r)
    \/ Abort(r)

Next ==
    \/ \E r \in Requests : Login(r)
    \/ \E u \in Users, p \in Passwords : ResetPassword(u, p)
    \/ \E u \in Users, p \in Passwords : RecoverAccount(u, p)
    \/ \E u \in Users : VerifyEmail(u)
    \/ DisableInactive
    \/ Tick

Spec == Init /\ [][Next]_vars

-----------------------------------------------------------------------------
(* Properties. *)

(* The columns of a row and the fields of a request hold what the code can *)
(* store in them (users in 00001_initial_schema.sql).                      *)
TypeOK ==
    /\ now \in Nat
    /\ user \in [Users -> Rows]
    /\ req \in [Requests -> Requested]
    /\ \A r \in Requests : req[r].step # "idle" => req[r].user \in Users
    /\ \A r \in Requests : req[r].step = "lock" => req[r].until # NoTime
    /\ principals \subseteq Users \X (Nat \ {0})
    /\ revoked \subseteq principals
    /\ cut \subseteq Users
    /\ shortened \subseteq Users

(* No principal read before a password reset or an account recovery of its *)
(* user is validated after it, however late the login that read it stores  *)
(* its session (README: session revocation).                               *)
RevokedNeverValid == \A p \in revoked : ~ValidateSession(p)

(* The columns that are written by different statements agree: failures    *)
(* are counted from a last failure, an account whose reason is the lockout *)
(* has a lock, and one whose reason is inactivity is disabled.             *)
RowsConsistent ==
    \A u \in Users :
        LET row == user[u]
        IN  /\ row.failures = 0 <=> row.lastFailed = NoTime
            /\ row.reason = "failed_login_attempts" => row.lockedUntil # NoTime
            /\ row.reason = "inactivity" => ~row.active

(* An account whose counted failures have reached the threshold is locked  *)
(* for a full window after the last of them, or a request is about to lock *)
(* it for as long (handleFailedLogin), whatever resets, recoveries and     *)
(* logins run in between.  There are two ways to less: that request is cut *)
(* off between its two statements, or the UPDATE of an earlier attempt,    *)
(* with an end from an earlier reading of the clock, comes after a newer   *)
(* lock.  Either lasts until the next failure is counted.                  *)
Armed(u) ==
    user[u].failures >= Threshold =>
        LET full == user[u].lastFailed + Window
        IN  \/ user[u].lockedUntil >= full
            \/ \E r \in Requests :
                  /\ req[r].user = u
                  /\ \/ req[r].step = "clock"
                     \/ req[r].step = "lock" /\ req[r].until >= full

LockoutArmed == \A u \in Users \ (cut \union shortened) : Armed(u)

(* What an operator may take the lockout to be: a full window unless the   *)
(* request is cut off.  The clock reading of service.go:596 is not in the  *)
(* statement that waits, and LockUserUntil does not compare, so it does    *)
(* not hold: MCAccountsShortened.cfg, for a run by hand, shows how.        *)
LockIsFull == \A u \in Users \ cut : Armed(u)

(* The inductive invariant behind the properties: what they say, and that  *)
(* a principal carries no version its user has not reached, a revoked one  *)
(* an earlier version, a failure is never in the future, and an attempt    *)
(* that passed the lock check saw no lock that is still running.           *)
VersionsReached ==
    /\ \A p \in principals : p[2] <= user[p[1]].version
    /\ \A p \in revoked : p[2] < user[p[1]].version

FailuresPast == \A u \in Users : user[u].lastFailed <= now

ChecksPassed ==
    \A r \in Requests :
        req[r].step \in {"factor", "record", "clock", "lock"} => req[r].lockedUntil <= now

IInv ==
    /\ TypeOK
    /\ VersionsReached
    /\ FailuresPast
    /\ RowsConsistent
    /\ LockoutArmed
    /\ ChecksPassed

(* Attempts made while an account is locked do not prolong the lock: what  *)
(* moves the end of a running lock is an attempt that read the row before  *)
(* that lock was there (the lock is checked before a failure is counted).  *)
LockNotProlonged ==
    [][\A u \in Users :
         user[u].lockedUntil > now /\ user'[u].lockedUntil > user[u].lockedUntil
         => \E r \in Requests :
               /\ req[r].step = "lock"
               /\ req[r].user = u
               /\ req[r].lockedUntil < user[u].lockedUntil]_vars

(* An account a recovery reactivates has not "been inactive beyond the     *)
(* configured threshold" (inactivity.go) at that moment, so the next run   *)
(* of the inactivity job leaves it alone.                                  *)
RecoveredStaysActive ==
    [][\A u \in Users : ~user[u].active /\ user'[u].active
                          => ~Inactive(user'[u])]_vars

-----------------------------------------------------------------------------
(* The abstract specification this module implements. *)

Authority == INSTANCE SessionAuthority
    WITH MaxEpoch <- MaxVersion,
         epoch    <- [u \in Users |-> user[u].version],
         granted  <- principals,
         void     <- revoked

(* The users table is a session authority: a principal carries the version *)
(* of the moment it is read and only a reset or a recovery starts another. *)
ImplementsAuthority == Authority!Spec
=============================================================================
