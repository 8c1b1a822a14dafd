--------------------------- MODULE AccountsProofs ---------------------------
(***************************************************************************)
(* Proofs about Accounts, for every set of users, requests and passwords   *)
(* and every threshold and window.  What a step does to a row is one of    *)
(* the statements of users.sql (RowChanges); the invariants about rows     *)
(* follow from that, those about requests and principals from the actions. *)
(***************************************************************************)
EXTENDS Accounts, TLAPS

(* The statements map rows to rows.                                        *)
LEMMA StatementsTyped ==
  ASSUME now \in Nat, NEW row \in Rows
  PROVE  /\ ResetLoginFailures(row) \in Rows
         /\ UpdateUserLastLogin(row) \in Rows
         /\ RecordFailedLogin(row) \in Rows
         /\ \A until \in Nat : LockUserUntil(row, until) \in Rows
         /\ IncrementUserAuthVersion(row) \in Rows
         /\ RestoreUserAccess(row) \in Rows
         /\ DisableInactiveUsers(row) \in Rows
         /\ [row EXCEPT !.verified = TRUE] \in Rows
         /\ \A p \in Passwords : [row EXCEPT !.password = p] \in Rows
  <1> USE ConfigAssumption DEF Rows, Timestamps, NoTime, Reasons
  <1>1. ResetLoginFailures(row) \in Rows
    BY DEF ResetLoginFailures
  <1>2. UpdateUserLastLogin(row) \in Rows
    BY <1>1 DEF UpdateUserLastLogin
  <1>3. RecordFailedLogin(row) \in Rows
    <2> DEFINE n == IF \/ row.lastFailed = NoTime
                       \/ row.lastFailed < now - Window
                    THEN 1 ELSE row.failures + 1
    <2>1. n \in Nat
      OBVIOUS
    <2>2. RecordFailedLogin(row) = [row EXCEPT !.failures = n, !.lastFailed = now]
      BY DEF RecordFailedLogin
    <2> HIDE DEF n
    <2> QED BY <2>1, <2>2
  <1>4. \A until \in Nat : LockUserUntil(row, until) \in Rows
    BY DEF LockUserUntil
  <1>5. IncrementUserAuthVersion(row) \in Rows
    BY DEF IncrementUserAuthVersion
  <1>6. RestoreUserAccess(row) \in Rows
    BY DEF RestoreUserAccess
  <1>7. DisableInactiveUsers(row) \in Rows
    BY DEF DisableInactiveUsers
  <1>8. /\ [row EXCEPT !.verified = TRUE] \in Rows
        /\ \A p \in Passwords : [row EXCEPT !.password = p] \in Rows
    OBVIOUS
  <1> QED BY <1>1, <1>2, <1>3, <1>4, <1>5, <1>6, <1>7, <1>8

(* What ResetPassword and RecoverAccount make of a row.                    *)
Reset(row, p) ==
  ResetLoginFailures(IncrementUserAuthVersion([row EXCEPT !.password = p]))
Recovered(row, p) ==
  IncrementUserAuthVersion(RestoreUserAccess([row EXCEPT !.password = p]))

(* The transactions of service.go that reset or recover keep a row typed.  *)
LEMMA TransactionsTyped ==
  ASSUME now \in Nat, NEW row \in Rows, NEW p \in Passwords
  PROVE  Reset(row, p) \in Rows /\ Recovered(row, p) \in Rows
  <1> DEFINE row1 == [row EXCEPT !.password = p]
  <1>1. row1 \in Rows
    BY StatementsTyped
  <1> HIDE DEF row1
  <1>2. IncrementUserAuthVersion(row1) \in Rows /\ RestoreUserAccess(row1) \in Rows
    BY <1>1, StatementsTyped
  <1>3. /\ ResetLoginFailures(IncrementUserAuthVersion(row1)) \in Rows
        /\ IncrementUserAuthVersion(RestoreUserAccess(row1)) \in Rows
    BY <1>2, StatementsTyped
  <1> QED BY <1>3 DEF Reset, Recovered, row1

(* The rows a step may leave for a user.                                   *)
Changed(u) ==
  \/ user'[u] = user[u]
  \/ user'[u] = UpdateUserLastLogin(user[u])
  \/ user'[u] = RecordFailedLogin(user[u])
  \/ \E until \in Nat : user'[u] = LockUserUntil(user[u], until)
  \/ user'[u] = DisableInactiveUsers(user[u])
  \/ user'[u] = [user[u] EXCEPT !.verified = TRUE]
  \/ \E p \in Passwords : user'[u] = Reset(user[u], p) \/ user'[u] = Recovered(user[u], p)

(* A step leaves each row as one of the statements of users.sql makes it,  *)
(* and changes a row only while the clock stands still.                    *)
LEMMA RowChanges ==
  ASSUME TypeOK, [Next]_vars
  PROVE  /\ \A u \in Users : Changed(u)
         /\ user' \in [Users -> Rows]
         /\ now' \in Nat /\ now <= now'
         /\ user' = user \/ now' = now
  <1> USE DEF TypeOK
  <1>0. \A r \in Requests : req[r].step # "idle" => req[r].user \in Users
    OBVIOUS
  <1>1. ASSUME NEW r \in Requests, RecordFailure(r) \/ LockAccount(r) \/ TouchLastLogin(r)
        PROVE  /\ \A u \in Users : Changed(u)
               /\ user' \in [Users -> Rows]
               /\ now' = now
    <2>1. req[r].user \in Users /\ user[req[r].user] \in Rows
      BY <1>0, <1>1 DEF RecordFailure, LockAccount, TouchLastLogin
    <2> DEFINE row == user[req[r].user]
    <2>2. PICK new \in {RecordFailedLogin(row), UpdateUserLastLogin(row)}
                         \union {LockUserUntil(row, until) : until \in Nat} :
             user' = [user EXCEPT ![req[r].user] = new]
      <3>1. CASE LockAccount(r)
        <4>1. req[r].until \in Nat
          BY <3>1 DEF LockAccount, Requested, Timestamps
        <4>2. user' = [user EXCEPT ![req[r].user] = LockUserUntil(row, req[r].until)]
          BY <3>1 DEF LockAccount, Update
        <4> QED BY <4>1, <4>2
      <3>2. CASE RecordFailure(r) \/ TouchLastLogin(r)
        BY <3>2 DEF RecordFailure, TouchLastLogin, Update
      <3> QED BY <1>1, <3>1, <3>2
    <2>3. new \in Rows
      BY <2>1, <2>2, StatementsTyped
    <2>4. user' \in [Users -> Rows]
      BY <2>1, <2>2, <2>3
    <2>5. \A u \in Users : Changed(u)
      BY <2>1, <2>2 DEF Changed
    <2>6. now' = now
      BY <1>1 DEF RecordFailure, LockAccount, TouchLastLogin
    <2> QED BY <2>4, <2>5, <2>6
  <1>2. ASSUME NEW v \in Users, NEW p \in Passwords, ResetPassword(v, p) \/ RecoverAccount(v, p)
        PROVE  /\ \A u \in Users : Changed(u)
               /\ user' \in [Users -> Rows]
               /\ now' = now
    <2>1. PICK new \in {Reset(user[v], p), Recovered(user[v], p)} :
             user' = [user EXCEPT ![v] = new]
      BY <1>2 DEF ResetPassword, RecoverAccount, Update, Reset, Recovered
    <2>2. new \in Rows
      BY TransactionsTyped
    <2>3. now' = now
      BY <1>2 DEF ResetPassword, RecoverAccount
    <2> QED BY <2>1, <2>2, <2>3 DEF Changed
  <1>3. ASSUME NEW v \in Users, VerifyEmail(v)
        PROVE  /\ \A u \in Users : Changed(u)
               /\ user' \in [Users -> Rows]
               /\ now' = now
    <2> DEFINE new == [user[v] EXCEPT !.verified = TRUE]
    <2>1. user' = [user EXCEPT ![v] = new] /\ now' = now
      BY <1>3 DEF VerifyEmail, Update
    <2>2. new \in Rows
      BY StatementsTyped
    <2>3. \A u \in Users : Changed(u)
      BY <2>1 DEF Changed
    <2> HIDE DEF new
    <2> QED BY <2>1, <2>2, <2>3
  <1>4. CASE DisableInactive
    <2>1. /\ \A u \in Users : user'[u] = DisableInactiveUsers(user[u])
          /\ user' = [u \in Users |-> DisableInactiveUsers(user[u])]
          /\ now' = now
      BY <1>4 DEF DisableInactive
    <2>2. \A u \in Users : DisableInactiveUsers(user[u]) \in Rows
      BY StatementsTyped
    <2>3. user' \in [Users -> Rows]
      BY <2>1, <2>2
    <2> QED BY <2>1, <2>3 DEF Changed
  <1>5. ASSUME user' = user
        PROVE  /\ \A u \in Users : Changed(u)
               /\ user' \in [Users -> Rows]
    BY <1>5 DEF Changed
  <1>6. CASE Tick
    BY <1>5, <1>6 DEF Tick
  <1>7. CASE UNCHANGED vars
    BY <1>5, <1>7 DEF vars
  <1>8. ASSUME NEW r \in Requests, Login(r)
        PROVE  /\ \A u \in Users : Changed(u)
               /\ user' \in [Users -> Rows]
               /\ now' = now
    <2>1. CASE RecordFailure(r) \/ LockAccount(r) \/ TouchLastLogin(r)
      BY <1>1, <2>1
    <2>2. CASE user' = user /\ now' = now
      BY <1>5, <2>2
    <2> QED
      BY <1>8, <2>1, <2>2
         DEF Login, LoginRead, LoginCheck, SecondFactor, ReadClock, FederatedLogin,
             ValidateAccount, ReadPrincipal, Abort
  <1> QED
    BY <1>2, <1>3, <1>4, <1>6, <1>7, <1>8 DEF Next

(* What a step does to the requests: it leaves them, finishes one, sends   *)
(* one on to its next statement, or starts one.                            *)
LEMMA RequestChanges ==
  ASSUME TypeOK, [Next]_vars
  PROVE  \/ req' = req
         \/ \E r \in Requests : \E q \in Requested :
               /\ req' = [req EXCEPT ![r] = q]
               /\ q.step # "idle" => q.user \in Users
               /\ q.step = "lock" => q.until # NoTime
               /\ q.step \in {"factor", "record", "clock", "lock"} =>
                     /\ q.lockedUntil = req[r].lockedUntil
                     /\ \/ req[r].step \in {"factor", "record", "clock"}
                        \/ ~(req[r].lockedUntil > now)
  <1> USE DEF TypeOK
  <1>1. Idle \in Requested /\ Idle.step = "idle"
    BY ConfigAssumption DEF Idle, Requested, Steps, Timestamps, NoTime
  <1>2. ASSUME NEW r \in Requests, Finish(r)
        PROVE  \E q \in Requested :
                 /\ req' = [req EXCEPT ![r] = q]
                 /\ q.step = "idle"
    BY <1>1, <1>2 DEF Finish
  <1>3. ASSUME NEW r \in Requests, NEW step \in Steps, Goto(r, step)
        PROVE  \E q \in Requested :
                 /\ req' = [req EXCEPT ![r] = q]
                 /\ q.step = step
                 /\ q.user = req[r].user
                 /\ q.lockedUntil = req[r].lockedUntil
    <2> DEFINE q == [req[r] EXCEPT !.step = step]
    <2>1. /\ q \in Requested /\ q.step = step /\ q.user = req[r].user
          /\ q.lockedUntil = req[r].lockedUntil
      BY DEF Requested
    <2>2. req' = [req EXCEPT ![r] = q]
      BY <1>3 DEF Goto
    <2> HIDE DEF q
    <2> QED BY <2>1, <2>2
  <1>4. ASSUME NEW r \in Requests, NEW u \in Users, NEW p \in Passwords, LoginRead(r, u, p)
        PROVE  \E q \in Requested :
                 /\ req' = [req EXCEPT ![r] = q]
                 /\ q.step = "check" /\ q.user = u
    <2> DEFINE q == [step |-> "check", user |-> u, match |-> user[u].password = p,
                     active |-> user[u].active, verified |-> user[u].verified,
                     lockedUntil |-> user[u].lockedUntil, until |-> NoTime]
    <2>1. q \in Requested
      BY DEF Requested, Steps, Rows, Timestamps, NoTime
    <2>2. req' = [req EXCEPT ![r] = q] /\ q.step = "check" /\ q.user = u
      BY <1>4 DEF LoginRead
    <2> HIDE DEF q
    <2> QED BY <2>1, <2>2
  <1>5. ASSUME NEW r \in Requests, NEW u \in Users, FederatedLogin(r, u)
        PROVE  \E q \in Requested :
                 /\ req' = [req EXCEPT ![r] = q]
                 /\ q.step = "validate" /\ q.user = u
    <2> DEFINE q == [Idle EXCEPT !.step = "validate", !.user = u]
    <2>1. q \in Requested /\ q.step = "validate" /\ q.user = u
      BY DEF Requested, Steps, Idle, Timestamps, NoTime
    <2>2. req' = [req EXCEPT ![r] = q]
      BY <1>5 DEF FederatedLogin
    <2> HIDE DEF q
    <2> QED BY <2>1, <2>2
  <1>6. ASSUME NEW r \in Requests, LoginCheck(r) \/ SecondFactor(r) \/ RecordFailure(r)
                                   \/ LockAccount(r) \/ ValidateAccount(r)
                                   \/ TouchLastLogin(r) \/ ReadPrincipal(r) \/ Abort(r)
        PROVE  /\ req[r].user \in Users
               /\ \/ Finish(r)
                  \/ Goto(r, "validate") \/ Goto(r, "touch") \/ Goto(r, "reread")
                  \/ /\ Goto(r, "factor") \/ Goto(r, "record") \/ Goto(r, "clock")
                     /\ \/ req[r].step \in {"factor", "record"}
                        \/ ~(req[r].lockedUntil > now)
    BY <1>6 DEF LoginCheck, SecondFactor, RecordFailure, LockAccount, ValidateAccount,
                TouchLastLogin, ReadPrincipal, Abort
  <1>7. CASE \E r \in Requests : Login(r)
    <2>1. PICK r \in Requests : Login(r)
      BY <1>7
    <2>2. CASE \E u \in Users, p \in Passwords : LoginRead(r, u, p)
      BY <1>4, <2>2
    <2>3. CASE \E u \in Users : FederatedLogin(r, u)
      BY <1>5, <2>3
    <2>4. CASE LoginCheck(r) \/ SecondFactor(r) \/ RecordFailure(r)
                 \/ LockAccount(r) \/ ValidateAccount(r)
                 \/ TouchLastLogin(r) \/ ReadPrincipal(r) \/ Abort(r)
      <3>1. {"validate", "touch", "reread", "factor", "record", "clock"} \subseteq Steps
        BY DEF Steps
      <3>2. CASE Finish(r)
        BY <1>2, <3>2
      <3>3. CASE Goto(r, "validate") \/ Goto(r, "touch") \/ Goto(r, "reread")
        BY <1>3, <1>6, <2>4, <3>1, <3>3
      <3>4. CASE /\ Goto(r, "factor") \/ Goto(r, "record") \/ Goto(r, "clock")
                 /\ \/ req[r].step \in {"factor", "record"}
                    \/ ~(req[r].lockedUntil > now)
        BY <1>3, <1>6, <2>4, <3>1, <3>4
      <3> QED BY <1>6, <2>4, <3>2, <3>3, <3>4
    <2>5. CASE ReadClock(r)
      <3> DEFINE q == [req[r] EXCEPT !.step = "lock", !.until = now + Window]
      <3>1. now + Window \in Nat /\ now + Window # NoTime
        BY ConfigAssumption DEF NoTime
      <3>2. /\ q \in Requested /\ q.step = "lock" /\ q.until # NoTime
            /\ q.user = req[r].user /\ q.lockedUntil = req[r].lockedUntil
        BY <3>1 DEF Requested, Steps, Timestamps
      <3>3. req' = [req EXCEPT ![r] = q] /\ req[r].step = "clock" /\ req[r].user \in Users
        BY <2>5 DEF ReadClock
      <3> HIDE DEF q
      <3> QED BY <3>2, <3>3
    <2> QED BY <2>1, <2>2, <2>3, <2>4, <2>5 DEF Login
  <1>8. CASE req' = req
    BY <1>8
  <1> QED
    BY <1>7, <1>8
       DEF Next, ResetPassword, RecoverAccount, VerifyEmail, DisableInactive, Tick, vars

(* Every step keeps the types.                                             *)
LEMMA NextTypeOK == TypeOK /\ [Next]_vars => TypeOK'
  <1> SUFFICES ASSUME TypeOK, [Next]_vars
               PROVE  TypeOK'
    OBVIOUS
  <1>1. /\ req' \in [Requests -> Requested]
        /\ \A r \in Requests : req'[r].step # "idle" => req'[r].user \in Users
        /\ \A r \in Requests : req'[r].step = "lock" => req'[r].until # NoTime
    BY RequestChanges DEF TypeOK
  <1>0. cut' \subseteq Users /\ shortened' \subseteq Users
    <2>1. /\ \/ cut' \subseteq cut
             \/ \E r \in Requests : req[r].step # "idle" /\ cut' = cut \union {req[r].user}
          /\ \/ shortened' \subseteq shortened
             \/ \E r \in Requests : /\ req[r].step # "idle"
                                     /\ shortened' = shortened \union {req[r].user}
      BY DEF Next, Login, LoginRead, LoginCheck, SecondFactor, RecordFailure,
             ReadClock, LockAccount, FederatedLogin, ValidateAccount, TouchLastLogin,
             ReadPrincipal, Abort, ResetPassword, RecoverAccount, VerifyEmail,
             DisableInactive, Tick, vars
    <2> QED BY <2>1 DEF TypeOK
  <1>2. CASE \E r \in Requests : ReadPrincipal(r)
    <2>1. PICK r \in Requests : ReadPrincipal(r)
      BY <1>2
    <2>2. req[r].user \in Users
      BY <2>1 DEF TypeOK, ReadPrincipal
    <2>3. user[req[r].user].version \in Nat \ {0}
      BY <2>2 DEF TypeOK, Rows
    <2> QED BY <1>0, <1>1, <2>1, <2>2, <2>3, RowChanges DEF TypeOK, ReadPrincipal
  <1>3. CASE UNCHANGED principals
    <2>1. revoked' = revoked \/ \E u \in Users : Revoke(u)
      BY <1>3 DEF Next, Login, LoginRead, LoginCheck, SecondFactor, RecordFailure,
                  ReadClock, LockAccount, FederatedLogin, ValidateAccount, TouchLastLogin,
                  ReadPrincipal, Abort, ResetPassword, RecoverAccount, VerifyEmail,
                  DisableInactive, Tick, vars
    <2>2. revoked' \subseteq principals
      BY <2>1 DEF TypeOK, Revoke
    <2> QED BY <1>0, <1>1, <1>3, <2>2, RowChanges DEF TypeOK
  <1> QED
    BY <1>2, <1>3
       DEF Next, Login, LoginRead, LoginCheck, SecondFactor, RecordFailure, ReadClock,
           LockAccount, FederatedLogin, ValidateAccount, TouchLastLogin, Abort, ResetPassword,
           RecoverAccount, VerifyEmail, DisableInactive, Tick, vars

-----------------------------------------------------------------------------
(* What holds of every row. *)

RowOK(row, t) ==
  /\ row.lastFailed <= t
  /\ row.failures = 0 <=> row.lastFailed = NoTime
  /\ row.reason = "failed_login_attempts" => row.lockedUntil # NoTime
  /\ row.reason = "inactivity" => ~row.active

(* The statements keep the columns of a row in agreement.                  *)
LEMMA StatementsAgree ==
  ASSUME now \in Nat, NEW row \in Rows, RowOK(row, now)
  PROVE  /\ RowOK(UpdateUserLastLogin(row), now)
         /\ RowOK(RecordFailedLogin(row), now)
         /\ \A until \in Nat : RowOK(LockUserUntil(row, until), now)
         /\ RowOK(DisableInactiveUsers(row), now)
         /\ RowOK([row EXCEPT !.verified = TRUE], now)
         /\ \A p \in Passwords : RowOK(Reset(row, p), now) /\ RowOK(Recovered(row, p), now)
  <1> USE ConfigAssumption DEF Rows, RowOK, NoTime, Timestamps
  <1>1. RowOK(UpdateUserLastLogin(row), now)
    BY DEF UpdateUserLastLogin, ResetLoginFailures
  <1>2. RowOK(RecordFailedLogin(row), now)
    <2> DEFINE n == IF \/ row.lastFailed = NoTime
                       \/ row.lastFailed < now - Window
                    THEN 1 ELSE row.failures + 1
    <2>1. n \in Nat /\ n # 0
      OBVIOUS
    <2>2. RecordFailedLogin(row) = [row EXCEPT !.failures = n, !.lastFailed = now]
      BY DEF RecordFailedLogin
    <2> HIDE DEF n
    <2> QED BY <2>1, <2>2
  <1>3. \A until \in Nat : RowOK(LockUserUntil(row, until), now)
    BY DEF LockUserUntil
  <1>4. RowOK(DisableInactiveUsers(row), now)
    BY DEF DisableInactiveUsers
  <1>5. RowOK([row EXCEPT !.verified = TRUE], now)
    OBVIOUS
  <1>6. ASSUME NEW p \in Passwords
        PROVE  RowOK(Reset(row, p), now) /\ RowOK(Recovered(row, p), now)
    BY DEF Reset, Recovered, ResetLoginFailures, IncrementUserAuthVersion, RestoreUserAccess
  <1> QED BY <1>1, <1>2, <1>3, <1>4, <1>5, <1>6

RowsOK == RowsConsistent /\ FailuresPast

(* Every step keeps the columns of every row in agreement.                 *)
LEMMA NextRows == TypeOK /\ RowsOK /\ [Next]_vars => RowsOK'
  <1> SUFFICES ASSUME TypeOK, RowsOK, [Next]_vars
               PROVE  RowsOK'
    OBVIOUS
  <1>1. \A u \in Users : user[u] \in Rows /\ RowOK(user[u], now)
    BY DEF TypeOK, RowsOK, RowsConsistent, FailuresPast, RowOK
  <1>2. now \in Nat /\ now' \in Nat /\ now <= now'
    BY RowChanges DEF TypeOK
  <1>3. ASSUME NEW u \in Users
        PROVE  RowOK(user'[u], now')
    <2>1. RowOK(user'[u], now)
      BY <1>1, <1>2, RowChanges, StatementsAgree DEF Changed
    <2>2. user'[u].lastFailed \in Int
      BY RowChanges DEF Rows, Timestamps, NoTime
    <2> QED BY <1>2, <2>1, <2>2 DEF RowOK
  <1> QED BY <1>3 DEF RowsOK, RowsConsistent, FailuresPast, RowOK

-----------------------------------------------------------------------------
(* What holds of the versions of principals. *)

(* No statement takes a version back.                                      *)
LEMMA VersionsGrow ==
  ASSUME TypeOK, [Next]_vars, NEW u \in Users
  PROVE  user[u].version <= user'[u].version
  <1> DEFINE row == user[u]
  <1>1. row \in Rows /\ row.version \in Nat
    BY DEF TypeOK, Rows
  <1>2. UpdateUserLastLogin(row).version = row.version
    BY <1>1 DEF Rows, UpdateUserLastLogin, ResetLoginFailures
  <1>3. RecordFailedLogin(row).version = row.version
    BY <1>1 DEF Rows, RecordFailedLogin
  <1>4. \A until \in Nat : LockUserUntil(row, until).version = row.version
    BY <1>1 DEF Rows, LockUserUntil
  <1>5. DisableInactiveUsers(row).version = row.version
    BY <1>1 DEF Rows, DisableInactiveUsers
  <1>6. [row EXCEPT !.verified = TRUE].version = row.version
    BY <1>1 DEF Rows
  <1>7. \A p \in Passwords : /\ Reset(row, p).version = row.version + 1
                            /\ Recovered(row, p).version = row.version + 1
    BY <1>1 DEF Rows, Reset, Recovered, ResetLoginFailures, IncrementUserAuthVersion,
                RestoreUserAccess
  <1>8. Changed(u)
    BY RowChanges
  <1> HIDE DEF row
  <1>9. user'[u].version = row.version \/ user'[u].version = row.version + 1
    BY <1>2, <1>3, <1>4, <1>5, <1>6, <1>7, <1>8 DEF Changed, row
  <1> QED BY <1>1, <1>9 DEF row

(* A password reset and a recovery start the next version.                 *)
LEMMA ResetStartsVersion ==
  ASSUME TypeOK, NEW u \in Users, NEW p \in Passwords,
         ResetPassword(u, p) \/ RecoverAccount(u, p)
  PROVE  user' = [user EXCEPT ![u] = user'[u]] /\ user'[u].version = user[u].version + 1
  <1>1. user[u] \in Rows
    BY DEF TypeOK
  <1>2. PICK new \in {Reset(user[u], p), Recovered(user[u], p)} :
           user' = [user EXCEPT ![u] = new]
    BY DEF ResetPassword, RecoverAccount, Update, Reset, Recovered
  <1>3. new.version = user[u].version + 1
    BY <1>1, <1>2 DEF Rows, Reset, Recovered, ResetLoginFailures,
                      IncrementUserAuthVersion, RestoreUserAccess
  <1> QED BY <1>2, <1>3 DEF TypeOK

(* Every step keeps the versions of principals in order.                   *)
LEMMA NextVersions == TypeOK /\ VersionsReached /\ [Next]_vars => VersionsReached'
  <1> SUFFICES ASSUME TypeOK, VersionsReached, [Next]_vars
               PROVE  VersionsReached'
    OBVIOUS
  <1>1. /\ \A p \in principals : p[1] \in Users /\ p[2] \in Nat
        /\ revoked \subseteq principals
        /\ \A u \in Users : user[u].version \in Nat /\ user'[u].version \in Nat
    BY RowChanges DEF TypeOK, Rows
  <1>2. /\ \A p \in principals : p[2] <= user'[p[1]].version
        /\ \A p \in revoked : p[2] < user'[p[1]].version
    BY <1>1, VersionsGrow DEF VersionsReached
  <1>3. CASE \E r \in Requests : ReadPrincipal(r)
    <2>1. PICK r \in Requests : ReadPrincipal(r)
      BY <1>3
    <2>2. req[r].user \in Users
      BY <2>1 DEF TypeOK, ReadPrincipal
    <2>3. /\ principals' = principals \union {<<req[r].user, user[req[r].user].version>>}
          /\ user' = user /\ revoked' = revoked
      BY <2>1 DEF ReadPrincipal
    <2> QED BY <1>1, <1>2, <2>2, <2>3 DEF VersionsReached
  <1>4. ASSUME NEW u \in Users, NEW p \in Passwords, ResetPassword(u, p) \/ RecoverAccount(u, p)
        PROVE  VersionsReached'
    <2>1. user'[u].version = user[u].version + 1
      BY <1>4, ResetStartsVersion
    <2>2. revoked' = revoked \union {g \in principals : g[1] = u} /\ principals' = principals
      BY <1>4 DEF ResetPassword, RecoverAccount, Revoke
    <2> QED BY <1>1, <1>2, <2>1, <2>2 DEF VersionsReached
  <1>5. CASE UNCHANGED <<principals, revoked>>
    BY <1>2, <1>5 DEF VersionsReached
  <1> QED
    BY <1>3, <1>4, <1>5
       DEF Next, Login, LoginRead, LoginCheck, SecondFactor, RecordFailure, ReadClock,
           LockAccount, FederatedLogin, ValidateAccount, TouchLastLogin, Abort, VerifyEmail,
           DisableInactive, Tick, vars

-----------------------------------------------------------------------------
(* The lockout. *)

(* The statements that clear the failures leave no count to lock for.      *)
LEMMA StatementsClear ==
  ASSUME NEW row \in Rows
  PROVE  /\ UpdateUserLastLogin(row).failures = 0
         /\ \A p \in Passwords : Reset(row, p).failures = 0 /\ Recovered(row, p).failures = 0
  BY DEF Rows, UpdateUserLastLogin, Reset, Recovered, ResetLoginFailures,
         IncrementUserAuthVersion, RestoreUserAccess

(* A counted failure arms the lockout, whatever was before.                *)
LEMMA CountingArms ==
  ASSUME TypeOK, NEW r \in Requests, RecordFailure(r),
         NEW u \in Users, req[r].user = u
  PROVE  Armed(u)'
  <1> DEFINE row == RecordFailedLogin(user[u])
  <1>1. user'[u] = row
    BY DEF RecordFailure, Update, TypeOK
  <1>2. CASE row.failures >= Threshold
    <2>1. Goto(r, "clock")
      BY <1>2 DEF RecordFailure
    <2>2. req'[r].step = "clock" /\ req'[r].user = u
      BY <2>1 DEF Goto, TypeOK, Requested
    <2> QED BY <2>2 DEF Armed
  <1>3. CASE ~(row.failures >= Threshold)
    BY <1>1, <1>3 DEF Armed
  <1> QED BY <1>2, <1>3

(* A lockout that is armed stays so, unless the request about to lock the  *)
(* account is cut off or a late one moves the end of the lock back.        *)
LEMMA StaysArmed ==
  ASSUME TypeOK, FailuresPast, [Next]_vars, NEW u \in Users, Armed(u),
         \A r \in Requests : RecordFailure(r) => req[r].user # u,
         \A r \in Requests : Abort(r) /\ req[r].user = u => req[r].step \notin {"clock", "lock"},
         \A r \in Requests : LockAccount(r) /\ req[r].user = u
                             => ~(req[r].until < user[u].lockedUntil)
  PROVE  Armed(u)'
  <1>0. /\ Armed(u)
        /\ user[u] \in Rows
        /\ now \in Nat
        /\ user[u].lastFailed <= now
    BY DEF TypeOK, FailuresPast
  <1>01. /\ user[u].lastFailed \in Int /\ user[u].lockedUntil \in Int /\ Window \in Int
         /\ \A r \in Requests : req[r].until \in Int
    BY <1>0, ConfigAssumption DEF TypeOK, Rows, Requested, Timestamps, NoTime
  <1>1. ASSUME NEW r \in Requests, req[r].step \notin {"clock", "lock"},
               \E q : req' = [req EXCEPT ![r] = q],
               user'[u] = user[u]
        PROVE  Armed(u)'
    BY <1>0, <1>1 DEF Armed, TypeOK
  <1>2. ASSUME user'[u].failures = 0
        PROVE  Armed(u)'
    BY <1>2, ConfigAssumption DEF Armed
  <1>3. ASSUME NEW r \in Requests, RecordFailure(r)
        PROVE  Armed(u)'
    BY <1>1, <1>3 DEF RecordFailure, Update, Goto, Finish, TypeOK
  <1>4. ASSUME NEW r \in Requests, LockAccount(r)
        PROVE  Armed(u)'
    <2>1. CASE req[r].user = u
      <3>1. user'[u] = LockUserUntil(user[u], req[r].until)
        BY <1>4, <2>1 DEF LockAccount, Update, TypeOK
      <3>2. /\ user'[u].lockedUntil = req[r].until
            /\ user'[u].lastFailed = user[u].lastFailed
            /\ user'[u].failures = user[u].failures
        BY <1>0, <3>1 DEF LockUserUntil, Rows
      <3>3. req[r].until >= user[u].lockedUntil
        BY <1>01, <1>4, <2>1
      <3>4. \A q \in Requests : q # r => req'[q] = req[q]
        BY <1>4 DEF LockAccount, Finish, TypeOK
      <3>5. CASE user[u].lockedUntil >= user[u].lastFailed + Window
        BY <1>01, <3>2, <3>3, <3>5 DEF Armed
      <3>6. CASE req[r].until >= user[u].lastFailed + Window
        BY <3>2, <3>6 DEF Armed
      <3>7. CASE /\ ~(user[u].lockedUntil >= user[u].lastFailed + Window)
                 /\ ~(req[r].until >= user[u].lastFailed + Window)
        <4>1. req[r].step = "lock"
          BY <1>4 DEF LockAccount
        <4> QED BY <1>0, <3>2, <3>4, <3>7, <4>1 DEF Armed
      <3> QED BY <3>5, <3>6, <3>7
    <2>2. CASE req[r].user # u
      <3>1. user'[u] = user[u]
        BY <1>4, <2>2 DEF LockAccount, Update, TypeOK
      <3>2. \A s \in Requests : req[s].user = u => req'[s] = req[s]
        BY <1>4, <2>2 DEF LockAccount, Finish, TypeOK
      <3> QED BY <1>0, <3>1, <3>2 DEF Armed
    <2> QED BY <2>1, <2>2
  <1>45. ASSUME NEW r \in Requests, ReadClock(r)
        PROVE  Armed(u)'
    <2>1. \A q \in Requests : q # r => req'[q] = req[q]
      BY <1>45 DEF ReadClock, TypeOK
    <2>2. user'[u] = user[u]
      BY <1>45 DEF ReadClock
    <2>3. CASE req[r].user = u
      <3>1. req'[r].step = "lock" /\ req'[r].user = u /\ req'[r].until = now + Window
        BY <1>45, <2>3 DEF ReadClock, TypeOK, Requested
      <3>2. now + Window >= user[u].lastFailed + Window
        BY <1>0, <1>01
      <3> QED BY <2>2, <3>1, <3>2 DEF Armed
    <2>4. CASE req[r].user # u
      BY <1>0, <2>1, <2>2, <2>4 DEF Armed
    <2> QED BY <2>3, <2>4
  <1>5. ASSUME NEW r \in Requests, TouchLastLogin(r)
        PROVE  Armed(u)'
    <2>1. CASE req[r].user = u
      BY <1>0, <1>2, <1>5, <2>1, StatementsClear DEF TouchLastLogin, Update, TypeOK
    <2>2. CASE req[r].user # u
      BY <1>1, <1>5, <2>2 DEF TouchLastLogin, Update, Goto, TypeOK
    <2> QED BY <2>1, <2>2
  <1>6. ASSUME NEW r \in Requests, user' = user, Login(r)
        PROVE  Armed(u)'
    <2>1. CASE \E v \in Users, p \in Passwords : LoginRead(r, v, p)
      BY <1>1, <1>6, <2>1 DEF LoginRead
    <2>2. CASE \E v \in Users : FederatedLogin(r, v)
      BY <1>1, <1>6, <2>2 DEF FederatedLogin
    <2>3. CASE LoginCheck(r) \/ SecondFactor(r) \/ ValidateAccount(r) \/ ReadPrincipal(r)
      BY <1>1, <1>6, <2>3
         DEF LoginCheck, SecondFactor, ValidateAccount, ReadPrincipal, Goto, Finish
    <2>4. CASE Abort(r)
      <3>1. CASE req[r].step \notin {"clock", "lock"}
        BY <1>1, <1>6, <2>4, <3>1 DEF Abort, Finish
      <3>2. CASE req[r].user # u
        <4>1. \A s \in Requests : req[s].user = u => req'[s] = req[s]
          BY <2>4, <3>2 DEF Abort, Finish, TypeOK
        <4> QED BY <1>0, <1>6, <4>1 DEF Armed
      <3> QED BY <2>4, <3>1, <3>2
    <2> QED
      BY <1>3, <1>4, <1>45, <1>5, <1>6, <2>1, <2>2, <2>3, <2>4 DEF Login
  <1>7. ASSUME NEW v \in Users, NEW p \in Passwords, ResetPassword(v, p) \/ RecoverAccount(v, p)
        PROVE  Armed(u)'
    <2>1. req' = req
      BY <1>7 DEF ResetPassword, RecoverAccount
    <2>2. CASE v = u
      <3>1. user'[u] = Reset(user[u], p) \/ user'[u] = Recovered(user[u], p)
        BY <1>7, <2>2 DEF ResetPassword, RecoverAccount, Update, Reset, Recovered, TypeOK
      <3> QED BY <1>0, <1>2, <3>1, StatementsClear
    <2>3. CASE v # u
      BY <1>0, <1>7, <2>1, <2>3 DEF ResetPassword, RecoverAccount, Update, Armed, TypeOK
    <2> QED BY <2>2, <2>3
  <1>8. CASE (\E v \in Users : VerifyEmail(v)) \/ DisableInactive \/ Tick \/ UNCHANGED vars
    <2>1. req' = req
      BY <1>8 DEF VerifyEmail, DisableInactive, Tick, vars
    <2>2. \/ user'[u] = user[u]
          \/ user'[u] = [user[u] EXCEPT !.verified = TRUE]
          \/ user'[u] = DisableInactiveUsers(user[u])
      BY <1>8 DEF VerifyEmail, Update, DisableInactive, Tick, vars, TypeOK
    <2>3. /\ user'[u].failures = user[u].failures
          /\ user'[u].lastFailed = user[u].lastFailed
          /\ user'[u].lockedUntil = user[u].lockedUntil
      BY <1>0, <2>2 DEF DisableInactiveUsers, Rows
    <2> QED BY <1>0, <2>1, <2>3 DEF Armed
  <1> QED
    BY <1>3, <1>4, <1>45, <1>5, <1>6, <1>7, <1>8
       DEF Next, Login, LoginRead, LoginCheck, SecondFactor, FederatedLogin,
           ValidateAccount, ReadPrincipal, Abort

(* Every step keeps the lockout armed for those neither cut off nor        *)
(* shortened.                                                              *)
LEMMA NextLockout == TypeOK /\ FailuresPast /\ LockoutArmed /\ [Next]_vars => LockoutArmed'
  <1> SUFFICES ASSUME TypeOK, FailuresPast, LockoutArmed, [Next]_vars,
                      NEW u \in Users, u \notin cut', u \notin shortened'
               PROVE  Armed(u)'
    BY DEF LockoutArmed
  <1>1. CASE \E r \in Requests : RecordFailure(r) /\ req[r].user = u
    BY <1>1, CountingArms
  <1>2. CASE \A r \in Requests : RecordFailure(r) => req[r].user # u
    <2>1. \A r \in Requests : Abort(r) /\ req[r].user = u
                             => req[r].step \notin {"clock", "lock"}
      BY DEF Abort
    <2>4. \A r \in Requests : LockAccount(r) /\ req[r].user = u
                             => ~(req[r].until < user[u].lockedUntil)
      BY DEF LockAccount
    <2>2. u \notin cut /\ u \notin shortened
      BY <1>2 DEF Next, Login, LoginRead, LoginCheck, SecondFactor, RecordFailure,
                  ReadClock, LockAccount, FederatedLogin, ValidateAccount, TouchLastLogin,
                  ReadPrincipal, Abort, ResetPassword, RecoverAccount, VerifyEmail,
                  DisableInactive, Tick, vars
    <2>3. Armed(u)
      BY <2>2 DEF LockoutArmed
    <2> QED BY <1>2, <2>1, <2>3, <2>4, StaysArmed
  <1> QED BY <1>1, <1>2

-----------------------------------------------------------------------------
(* The lock check, and the theorems. *)

(* An attempt that passed the lock check saw no lock that still runs.      *)
LEMMA NextChecks == TypeOK /\ ChecksPassed /\ [Next]_vars => ChecksPassed'
  <1> SUFFICES ASSUME TypeOK, ChecksPassed, [Next]_vars
               PROVE  ChecksPassed'
    OBVIOUS
  <1>1. now \in Nat /\ now' \in Nat /\ now <= now'
    BY RowChanges DEF TypeOK
  <1>2. \A r \in Requests : req[r].lockedUntil \in Int
    BY DEF TypeOK, Requested, Timestamps, NoTime
  <1>3. CASE req' = req
    BY <1>1, <1>2, <1>3 DEF ChecksPassed
  <1>4. ASSUME NEW r \in Requests, NEW q \in Requested,
               req' = [req EXCEPT ![r] = q],
               q.step \in {"factor", "record", "clock", "lock"} =>
                  /\ q.lockedUntil = req[r].lockedUntil
                  /\ \/ req[r].step \in {"factor", "record", "clock"}
                     \/ ~(req[r].lockedUntil > now)
        PROVE  ChecksPassed'
    <2> SUFFICES ASSUME NEW s \in Requests, req'[s].step \in {"factor", "record", "clock", "lock"}
                 PROVE  req'[s].lockedUntil <= now'
      BY DEF ChecksPassed
    <2>1. CASE s = r
      BY <1>1, <1>2, <1>4, <2>1 DEF TypeOK, ChecksPassed
    <2>2. CASE s # r
      BY <1>1, <1>2, <1>4, <2>2 DEF TypeOK, ChecksPassed
    <2> QED BY <2>1, <2>2
  <1> QED BY <1>3, <1>4, RequestChanges

(* The initial states satisfy the inductive invariant.                     *)
LEMMA InitIInv == Init => IInv
  <1> SUFFICES ASSUME Init
               PROVE  IInv
    OBVIOUS
  <1> USE ConfigAssumption DEF Init
  <1>1. \A u \in Users : \E p \in Passwords \union {NoPassword}, v \in BOOLEAN :
           user[u] = NewRow(p, v)
    OBVIOUS
  <1>2. user \in [Users -> Rows]
    <2>1. \A p \in Passwords \union {NoPassword}, v \in BOOLEAN : NewRow(p, v) \in Rows
      BY DEF NewRow, Rows, Reasons, Timestamps, NoTime
    <2> QED BY <1>1, <2>1
  <1>3. Idle \in Requested /\ Idle.step = "idle"
    BY DEF Idle, Requested, Steps, Timestamps, NoTime
  <1>4. TypeOK
    BY <1>2, <1>3 DEF TypeOK
  <1>5. VersionsReached /\ ChecksPassed
    BY <1>3 DEF VersionsReached, ChecksPassed
  <1>6. \A u \in Users : /\ user[u].failures = 0 /\ user[u].lastFailed = NoTime
                        /\ user[u].reason = "none"
    <2>1. ASSUME NEW u \in Users
          PROVE  /\ user[u].failures = 0 /\ user[u].lastFailed = NoTime
                 /\ user[u].reason = "none"
      <3>1. PICK p \in Passwords \union {NoPassword}, v \in BOOLEAN : user[u] = NewRow(p, v)
        BY <1>1
      <3> QED BY <3>1 DEF NewRow
    <2> QED BY <2>1
  <1>7. RowsConsistent /\ FailuresPast /\ LockoutArmed
    BY <1>6 DEF RowsConsistent, FailuresPast, LockoutArmed, Armed, NoTime
  <1> QED BY <1>4, <1>5, <1>7 DEF IInv

(* Every step preserves the inductive invariant.                           *)
LEMMA NextIInv == IInv /\ [Next]_vars => IInv'
  BY NextTypeOK, NextRows, NextVersions, NextLockout, NextChecks DEF IInv, RowsOK

(* The rows, the requests and the principals hold what the code can store  *)
(* in them.                                                                *)
THEOREM Types == Spec => []TypeOK
  <1>1. IInv => TypeOK
    BY DEF IInv
  <1> QED BY <1>1, InitIInv, NextIInv, PTL DEF Spec

(* IInv holds throughout.                                                  *)
THEOREM Invariance == Spec => []IInv
  BY InitIInv, NextIInv, PTL DEF Spec

(* What ResetPassword or RecoverAccount revoked never passes               *)
(* ValidateSession again.                                                  *)
THEOREM Revocation == Spec => []RevokedNeverValid
  <1>1. IInv => RevokedNeverValid
    <2> SUFFICES ASSUME IInv, NEW p \in revoked
                 PROVE  user[p[1]].version # p[2]
      BY DEF RevokedNeverValid, ValidateSession
    <2>1. p[1] \in Users /\ p[2] \in Nat /\ p[2] < user[p[1]].version
      BY DEF IInv, TypeOK, VersionsReached
    <2>2. user[p[1]].version \in Nat
      BY <2>1 DEF IInv, TypeOK, Rows
    <2> QED BY <2>1, <2>2
  <1> QED BY <1>1, Invariance, PTL

(* The columns of a row agree whatever statements ran in between.          *)
THEOREM Consistency == Spec => []RowsConsistent
  <1>1. IInv => RowsConsistent
    BY DEF IInv
  <1> QED BY <1>1, Invariance, PTL

(* Counted failures that reach the threshold lead to a lock that lasts a   *)
(* full window after the last of them, unless the request about to set it  *)
(* is cut off or an UPDATE sent with an older end overwrites it.           *)
THEOREM Lockout == Spec => []LockoutArmed
  <1>1. IInv => LockoutArmed
    BY DEF IInv
  <1> QED BY <1>1, Invariance, PTL

(* A running lock is prolonged only by an attempt that read the row before *)
(* the lock was there.                                                     *)
THEOREM NoProlonging == Spec => LockNotProlonged
  <1>1. ASSUME IInv, [Next]_vars, NEW u \in Users,
               user[u].lockedUntil > now, user'[u].lockedUntil > user[u].lockedUntil
        PROVE  \E r \in Requests :
                  /\ req[r].step = "lock"
                  /\ req[r].user = u
                  /\ req[r].lockedUntil < user[u].lockedUntil
    <2>0. /\ TypeOK /\ user[u] \in Rows
          /\ now \in Nat /\ user[u].lockedUntil \in Int
      BY <1>1 DEF IInv, TypeOK, Rows, Timestamps, NoTime
    <2>1. ASSUME ~\E r \in Requests : LockAccount(r) /\ req[r].user = u
          PROVE  user'[u].lockedUntil \in {user[u].lockedUntil, NoTime}
      <3>1. \/ user'[u] = user[u]
            \/ user'[u] = UpdateUserLastLogin(user[u])
            \/ user'[u] = RecordFailedLogin(user[u])
            \/ user'[u] = DisableInactiveUsers(user[u])
            \/ user'[u] = [user[u] EXCEPT !.verified = TRUE]
            \/ \E p \in Passwords : \/ user'[u] = Reset(user[u], p)
                                    \/ user'[u] = Recovered(user[u], p)
        <4> USE <2>0 DEF Update, TypeOK
        <4>1. CASE \E r \in Requests : Login(r)
          BY <2>1, <4>1 DEF Login, LoginRead, LoginCheck, SecondFactor, RecordFailure,
             ReadClock, LockAccount, FederatedLogin, ValidateAccount, TouchLastLogin, ReadPrincipal, Abort
        <4>2. ASSUME NEW v \in Users, NEW p \in Passwords,
                     ResetPassword(v, p) \/ RecoverAccount(v, p)
              PROVE  \/ user'[u] = user[u]
                     \/ user'[u] = Reset(user[u], p)
                     \/ user'[u] = Recovered(user[u], p)
          BY <4>2 DEF ResetPassword, RecoverAccount, Reset, Recovered
        <4>3. CASE (\E v \in Users : VerifyEmail(v)) \/ DisableInactive \/ Tick \/ UNCHANGED vars
          BY <4>3 DEF VerifyEmail, DisableInactive, Tick, vars
        <4> QED BY <1>1, <4>1, <4>2, <4>3 DEF Next
      <3> QED
        BY <2>0, <3>1 DEF Rows, UpdateUserLastLogin, ResetLoginFailures, RecordFailedLogin,
             DisableInactiveUsers, Reset, Recovered, IncrementUserAuthVersion, RestoreUserAccess
    <2>2. PICK r \in Requests : LockAccount(r) /\ req[r].user = u
      BY <1>1, <2>0, <2>1 DEF NoTime
    <2>3. req[r].step = "lock" /\ req[r].lockedUntil <= now /\ req[r].lockedUntil \in Int
      BY <1>1, <2>2 DEF LockAccount, IInv, ChecksPassed, TypeOK, Requested, Timestamps, NoTime
    <2> QED BY <1>1, <2>0, <2>2, <2>3
  <1>2. IInv /\ [Next]_vars
          => [\A u \in Users :
                user[u].lockedUntil > now /\ user'[u].lockedUntil > user[u].lockedUntil
                => \E r \in Requests :
                      /\ req[r].step = "lock"
                      /\ req[r].user = u
                      /\ req[r].lockedUntil < user[u].lockedUntil]_vars
    BY <1>1
  <1> QED BY <1>2, Invariance, PTL DEF Spec, LockNotProlonged

(* Accounts implements SessionAuthority: a login grants a principal at the *)
(* version it reads last, a reset and a recovery revoke what was granted,  *)
(* and nothing else touches either.                                        *)
THEOREM Implementation == Spec => ImplementsAuthority
  <1>1. ASSUME Init
        PROVE  Authority!Init
    <2>1. \A u \in Users : user[u].version = 1
      BY <1>1 DEF Init, NewRow
    <2> QED BY <1>1, <2>1 DEF Init, Authority!Init
  <1>2. ASSUME IInv, [Next]_vars
        PROVE  [Authority!Next]_(Authority!vars)
    <2> DEFINE epoch == [u \in Users |-> user[u].version]
    <2>0. TypeOK /\ user' \in [Users -> Rows]
      BY <1>2, RowChanges DEF IInv
    <2>1. ASSUME NEW r \in Requests, ReadPrincipal(r)
          PROVE  Authority!Grant(req[r].user) /\ req[r].user \in Users
      BY <2>0, <2>1 DEF ReadPrincipal, Authority!Grant, TypeOK
    <2>2. ASSUME NEW u \in Users, NEW p \in Passwords, ResetPassword(u, p) \/ RecoverAccount(u, p)
          PROVE  Authority!Revoke(u)
      <3>1. user' = [user EXCEPT ![u] = user'[u]] /\ user'[u].version = user[u].version + 1
        BY <2>0, <2>2, ResetStartsVersion
      <3>2. [v \in Users |-> user'[v].version]
              = [[v \in Users |-> user[v].version] EXCEPT ![u] = @ + 1]
        BY <2>0, <3>1 DEF TypeOK
      <3>3. user[u].version < MaxVersion
        BY <2>2 DEF ResetPassword, RecoverAccount
      <3> QED BY <2>2, <3>2, <3>3 DEF ResetPassword, RecoverAccount, Revoke, Authority!Revoke
    <2>3. ASSUME UNCHANGED <<principals, revoked>>,
                 \A u \in Users : user'[u].version = user[u].version
          PROVE  UNCHANGED Authority!vars
      BY <2>3 DEF Authority!vars
    <2>4. CASE UNCHANGED vars
      BY <2>3, <2>4 DEF vars
    <2>5. CASE (\E v \in Users : VerifyEmail(v)) \/ DisableInactive \/ Tick
      <3>1. ASSUME NEW u \in Users
            PROVE  user'[u].version = user[u].version
        <4>1. user[u] \in Rows
          BY <2>0 DEF TypeOK
        <4>2. \/ user'[u] = user[u]
              \/ user'[u] = [user[u] EXCEPT !.verified = TRUE]
              \/ user'[u] = DisableInactiveUsers(user[u])
          BY <2>0, <2>5 DEF VerifyEmail, Update, DisableInactive, Tick, TypeOK
        <4> QED BY <4>1, <4>2 DEF Rows, DisableInactiveUsers
      <3> QED BY <2>3, <2>5, <3>1 DEF VerifyEmail, DisableInactive, Tick
    <2>6. ASSUME NEW r \in Requests, Login(r), ~ReadPrincipal(r)
          PROVE  UNCHANGED Authority!vars
      <3>1. UNCHANGED <<principals, revoked>>
        BY <2>6 DEF Login, LoginRead, LoginCheck, SecondFactor, RecordFailure, ReadClock,
                    LockAccount, FederatedLogin, ValidateAccount, TouchLastLogin, Abort
      <3>2. ASSUME NEW u \in Users
            PROVE  user'[u].version = user[u].version
        <4>1. user[u] \in Rows
          BY <2>0 DEF TypeOK
        <4>2. \/ user'[u] = user[u]
              \/ user'[u] = RecordFailedLogin(user[u])
              \/ \E until \in Timestamps : user'[u] = LockUserUntil(user[u], until)
              \/ user'[u] = UpdateUserLastLogin(user[u])
          <5>1. CASE LockAccount(r)
            <6>1. req[r].until \in Timestamps
              BY <2>0 DEF TypeOK, Requested
            <6>2. user' = [user EXCEPT ![req[r].user] =
                             LockUserUntil(user[req[r].user], req[r].until)]
              BY <5>1 DEF LockAccount, Update
            <6> QED BY <2>0, <6>1, <6>2 DEF TypeOK
          <5>2. CASE ~LockAccount(r)
            BY <2>0, <2>6, <5>2
               DEF Login, LoginRead, LoginCheck, SecondFactor, RecordFailure, ReadClock,
                   FederatedLogin, ValidateAccount, TouchLastLogin, Abort, Update, TypeOK
          <5> QED BY <5>1, <5>2
        <4> QED BY <4>1, <4>2 DEF Rows, RecordFailedLogin, LockUserUntil,
                                  UpdateUserLastLogin, ResetLoginFailures
      <3> QED BY <2>3, <3>1, <3>2
    <2> QED
      BY <1>2, <2>1, <2>2, <2>4, <2>5, <2>6 DEF Next, Authority!Next
  <1> QED BY <1>1, <1>2, Invariance, PTL DEF Spec, ImplementsAuthority, Authority!Spec
=============================================================================
