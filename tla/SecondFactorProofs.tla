------------------------- MODULE SecondFactorProofs -------------------------
(***************************************************************************)
(* Proofs about SecondFactor, for every set of users, secrets and          *)
(* requests.  IInv is inductive; what the runs check follows from it.      *)
(***************************************************************************)
EXTENDS SecondFactor, TLAPS

(* The initial states satisfy the inductive invariant.                     *)
LEMMA InitIInv == Init => IInv
  BY FactorAssumption
     DEF Init, IInv, TypeOK, Requested, Rows, NoRow, Idle, At, SecretsApart,
         RemovedNeverReturns, EnablingKnown, UnconfirmedWasOvertaken,
         LoginsKnow, SetupsKnow, FlaggedWasAsked

-----------------------------------------------------------------------------
(* What a step does to the requests and to the rows, pointwise. *)

(* A request that is over has no step left, and no row is no secret.       *)
LEMMA Nulls ==
  /\ Idle \in Requested /\ Idle.step = "idle"
  /\ NoRow.secret = Nothing /\ NoRow.enabled = FALSE
  /\ [NoRow EXCEPT !.enabled = FALSE] = NoRow
  <1> DEFINE row == [NoRow EXCEPT !.enabled = FALSE]
  <1>1. row \in [secret : {Nothing}, enabled : {FALSE}]
    BY DEF NoRow
  <1>2. ASSUME NEW x \in [secret : {Nothing}, enabled : {FALSE}]
        PROVE  x = [secret |-> Nothing, enabled |-> FALSE]
    OBVIOUS
  <1>3. row = NoRow
    BY <1>1, <1>2 DEF NoRow
  <1> QED BY <1>3 DEF Idle, Requested, NoRow

(* A request that is over is idle, and nothing else has changed for it.    *)
LEMMA Finished ==
  ASSUME TypeOK, NEW r \in Requests, Finish(r)
  PROVE  /\ req' \in [Requests -> Requested]
         /\ \A x \in Requests : req'[x] = IF x = r THEN Idle ELSE req[x]
  BY Nulls DEF Finish, TypeOK

(* Enabling a row leaves its secret, the rows there are not, and the rows  *)
(* of others.                                                              *)
LEMMA EnabledInPlace ==
  ASSUME TypeOK, NEW r \in Requests, EnableTotpConfiguration(r), NEW v \in Users
  PROVE  /\ totp'[v].secret = totp[v].secret
         /\ totp[v] = NoRow => totp'[v] = NoRow
         /\ v # req[r].user => totp'[v] = totp[v]
  <1>1. totp \in [Users -> Rows \union {NoRow}] /\ req[r].user \in Users
    BY DEF TypeOK, EnableTotpConfiguration, At
  <1>2. CASE v # req[r].user
    BY <1>1, <1>2 DEF EnableTotpConfiguration
  <1>3. CASE v = req[r].user
    <2>1. totp'[v] = [totp[v] EXCEPT !.enabled = totp[v] # NoRow]
      BY <1>1, <1>3 DEF EnableTotpConfiguration
    <2>2. totp'[v].secret = totp[v].secret
      BY <1>1, <2>1 DEF Rows, NoRow
    <2>3. ASSUME totp[v] = NoRow
          PROVE  totp'[v] = NoRow
      <3>1. (totp[v] # NoRow) = FALSE
        BY <2>3
      <3> QED BY <2>1, <2>3, <3>1, Nulls
    <2> QED BY <1>3, <2>2, <2>3
  <1> QED BY <1>2, <1>3

(* Every step keeps the types.                                             *)
LEMMA NextTypeOK == TypeOK /\ [Next]_vars => TypeOK'
  <1> USE FactorAssumption, Nulls DEF TypeOK, At
  <1> SUFFICES ASSUME TypeOK, [Next]_vars
               PROVE  TypeOK'
    OBVIOUS
  <1>1. ASSUME NEW r \in Requests, NEW u \in Users, NEW s \in Secrets, BeginRead(r, u, s)
        PROVE  TypeOK'
    <2> DEFINE q == [Idle EXCEPT !.step = "upsert", !.user = u, !.secret = s]
    <2>1. q \in Requested /\ q.step = "upsert" /\ q.user = u /\ q.secret = s
      BY DEF Idle, Requested
    <2> HIDE DEF q
    <2>2. req' = [req EXCEPT ![r] = q]
      BY <1>1 DEF BeginRead, q
    <2> QED BY <1>1, <2>1, <2>2 DEF BeginRead
  <1>2. ASSUME NEW r \in Requests, UpsertTotpConfiguration(r)
        PROVE  TypeOK'
    <2> DEFINE u == req[r].user
               row == [secret |-> req[r].secret, enabled |-> FALSE]
    <2>1. /\ req' \in [Requests -> Requested]
          /\ \A x \in Requests : req'[x] = IF x = r THEN Idle ELSE req[x]
      BY Finished, <1>2 DEF UpsertTotpConfiguration
    <2>2. u \in Users /\ req[r].secret \in made
      BY <1>2 DEF UpsertTotpConfiguration
    <2>3. row \in Rows /\ row.secret \in made
      BY <2>2 DEF Rows
    <2> HIDE DEF row
    <2>4. totp' = [totp EXCEPT ![u] = row]
      BY <1>2 DEF UpsertTotpConfiguration, row
    <2>5. removed' \subseteq made /\ overtaken' \subseteq made
      BY <1>2, <2>2 DEF UpsertTotpConfiguration, Lose
    <2> QED BY <1>2, <2>1, <2>2, <2>3, <2>4, <2>5 DEF UpsertTotpConfiguration
  <1>3. ASSUME NEW r \in Requests, NEW u \in Users, ConfirmRead(r, u)
        PROVE  TypeOK'
    <2> DEFINE q == [Idle EXCEPT !.step = "enable", !.user = u, !.secret = totp[u].secret]
    <2>1. totp[u].secret \in made
      BY <1>3 DEF ConfirmRead, Rows
    <2>2. q \in Requested /\ q.step = "enable" /\ q.user = u /\ q.secret \in made
      BY <2>1 DEF Idle, Requested
    <2> HIDE DEF q
    <2>3. req' = [req EXCEPT ![r] = q]
      BY <1>3 DEF ConfirmRead, q
    <2> QED BY <1>3, <2>1, <2>2, <2>3 DEF ConfirmRead
  <1>4. ASSUME NEW r \in Requests, EnableTotpConfiguration(r)
        PROVE  TypeOK'
    <2> DEFINE u == req[r].user
    <2>1. u \in Users
      BY <1>4 DEF EnableTotpConfiguration
    <2>2. [totp[u] EXCEPT !.enabled = totp[u] # NoRow] \in Rows \union {NoRow}
      <3>1. CASE totp[u] = NoRow
        <4>1. (totp[u] # NoRow) = FALSE
          BY <3>1
        <4> QED BY <3>1, <4>1
      <3>2. CASE totp[u] \in Rows /\ totp[u] # NoRow
        <4>1. [totp[u] EXCEPT !.enabled = TRUE] \in Rows
          BY <3>2 DEF Rows
        <4> QED BY <3>2, <4>1
      <3> QED BY <2>1, <3>1, <3>2
    <2>3. totp' \in [Users -> Rows \union {NoRow}]
      BY <1>4, <2>1, <2>2 DEF EnableTotpConfiguration
    <2>4. \A v \in Users : totp'[v].secret = totp[v].secret
      BY <1>4, EnabledInPlace
    <2>5. ASSUME NEW x \in Requests
          PROVE  /\ [req[x] EXCEPT !.raced = TRUE] \in Requested
                 /\ [req[x] EXCEPT !.raced = TRUE].step = req[x].step
                 /\ [req[x] EXCEPT !.raced = TRUE].user = req[x].user
                 /\ [req[x] EXCEPT !.raced = TRUE].secret = req[x].secret
      BY DEF Requested
    <2>6. req' \in [Requests -> Requested]
      BY <1>4, <2>5 DEF EnableTotpConfiguration, Reading
    <2>7. \A x \in Requests :
             \/ req'[x].step = "idle"
             \/ /\ req'[x].step = req[x].step
                /\ req'[x].user = req[x].user
                /\ req'[x].secret = req[x].secret
      BY <1>4, <2>5 DEF EnableTotpConfiguration, Reading
    <2> QED BY <1>4, <2>3, <2>4, <2>6, <2>7 DEF EnableTotpConfiguration
  <1>5. ASSUME NEW u \in Users, RemoveRow(u)
        PROVE  TypeOK'
    BY <1>5 DEF RemoveRow, Lose
  <1>6. ASSUME NEW r \in Requests, NEW u \in Users, LoginFactor(r, u)
        PROVE  TypeOK'
    <2> DEFINE q == [Idle EXCEPT !.step = "flag", !.user = u, !.asked = totp[u].enabled]
    <2>1. totp[u].enabled \in BOOLEAN
      BY DEF Rows
    <2>2. q \in Requested /\ q.step = "flag" /\ q.user = u
      BY <2>1 DEF Idle, Requested
    <2> HIDE DEF q
    <2>3. req' = [req EXCEPT ![r] = q]
      BY <1>6 DEF LoginFactor, q
    <2> QED BY <1>6, <2>2, <2>3 DEF LoginFactor
  <1>7. ASSUME NEW r \in Requests, LoginFlag(r)
        PROVE  TypeOK'
    <2>1. totp[req[r].user].enabled \in BOOLEAN
      BY <1>7 DEF LoginFlag, Rows
    <2>2. req[r].asked \in BOOLEAN /\ req[r].raced \in BOOLEAN
      BY DEF Requested
    <2> QED BY Finished, <1>7, <2>1, <2>2 DEF LoginFlag
  <1>8. ASSUME NEW r \in Requests, Abort(r)
        PROVE  TypeOK'
    BY Finished, <1>8 DEF Abort
  <1>9. CASE UNCHANGED vars
    BY <1>9 DEF vars
  <1> QED
    BY <1>1, <1>2, <1>3, <1>4, <1>5, <1>6, <1>7, <1>8, <1>9
       DEF Next, Setup, Login, DisableTOTP, RecoverAccount

-----------------------------------------------------------------------------
(* The parts of the invariant that say something of a row or a request. *)

(* Every step keeps a secret in one place, and out of those removed.       *)
LEMMA NextSecretsApart ==
  ASSUME TypeOK, SecretsApart, RemovedNeverReturns, [Next]_vars
  PROVE  SecretsApart' /\ RemovedNeverReturns'
  <1> USE FactorAssumption, Nulls DEF TypeOK, SecretsApart, RemovedNeverReturns, At
  <1>0. ASSUME NEW r \in Requests, Finish(r), UNCHANGED <<totp, removed>>
        PROVE  SecretsApart' /\ RemovedNeverReturns'
    BY <1>0, Finished
  <1>1. ASSUME NEW r \in Requests, NEW u \in Users, NEW s \in Secrets, BeginRead(r, u, s)
        PROVE  SecretsApart' /\ RemovedNeverReturns'
    <2>1. /\ req'[r].step = "upsert" /\ req'[r].secret = s
          /\ \A x \in Requests \ {r} : req'[x] = req[x]
      BY <1>1 DEF BeginRead, Idle
    <2>2. s \notin removed /\ \A v \in Users : totp[v].secret # s
      BY <1>1 DEF BeginRead
    <2>3. \A x \in Requests : At(x, "upsert") => req[x].secret # s
      BY <1>1 DEF BeginRead
    <2> QED BY <1>1, <2>1, <2>2, <2>3 DEF BeginRead
  <1>2. ASSUME NEW r \in Requests, UpsertTotpConfiguration(r)
        PROVE  SecretsApart' /\ RemovedNeverReturns'
    <2> DEFINE u == req[r].user
               s == req[r].secret
    <2>1. u \in Users /\ s \in Secrets /\ At(r, "upsert")
      BY <1>2 DEF UpsertTotpConfiguration
    <2>2. \A x \in Requests : req'[x] = IF x = r THEN Idle ELSE req[x]
      BY <1>2, Finished DEF UpsertTotpConfiguration
    <2>3. /\ totp'[u].secret = s
          /\ \A v \in Users \ {u} : totp'[v] = totp[v]
      BY <1>2, <2>1 DEF UpsertTotpConfiguration
    <2>4. removed' = removed \union ({totp[u].secret} \ {Nothing})
      BY <1>2 DEF UpsertTotpConfiguration, Lose
    <2>5. \A v \in Users : totp[v].secret # s
      BY <2>1
    <2>6. \A v \in Users : totp[v].secret = Nothing => totp[v] = NoRow
      BY DEF Rows
    <2>7. RemovedNeverReturns'
      BY <2>1, <2>3, <2>4, <2>5, <2>6
    <2>8. ASSUME NEW v \in Users, NEW w \in Users, v # w,
                 totp'[v].secret = totp'[w].secret
          PROVE  totp'[v] = NoRow
      BY <2>3, <2>5, <2>8
    <2>9. ASSUME NEW x \in Requests, req'[x].step = "upsert"
          PROVE  /\ req'[x].secret \notin removed'
                 /\ \A v \in Users : totp'[v].secret # req'[x].secret
                 /\ \A y \in Requests :
                      req'[y].step = "upsert" /\ y # x => req'[y].secret # req'[x].secret
      BY <2>1, <2>2, <2>3, <2>4, <2>9
    <2> QED BY <2>7, <2>8, <2>9
  <1>3. ASSUME NEW r \in Requests, NEW u \in Users, ConfirmRead(r, u)
        PROVE  SecretsApart' /\ RemovedNeverReturns'
    <2>1. req'[r].step = "enable" /\ \A x \in Requests \ {r} : req'[x] = req[x]
      BY <1>3 DEF ConfirmRead, Idle
    <2> QED BY <1>3, <2>1 DEF ConfirmRead
  <1>4. ASSUME NEW r \in Requests, EnableTotpConfiguration(r)
        PROVE  SecretsApart' /\ RemovedNeverReturns'
    <2>1. \A u \in Users : /\ totp'[u].secret = totp[u].secret
                           /\ totp[u] = NoRow => totp'[u] = NoRow
      BY <1>4, EnabledInPlace
    <2>2. \A x \in Requests :
             \/ req'[x].step = "idle"
             \/ req'[x].step = req[x].step /\ req'[x].secret = req[x].secret
      BY <1>4 DEF EnableTotpConfiguration, Reading, Requested
    <2> QED BY <1>4, <2>1, <2>2 DEF EnableTotpConfiguration
  <1>5. ASSUME NEW u \in Users, RemoveRow(u)
        PROVE  SecretsApart' /\ RemovedNeverReturns'
    <2>1. /\ totp'[u] = NoRow
          /\ \A v \in Users \ {u} : totp'[v] = totp[v]
          /\ removed' = removed \union ({totp[u].secret} \ {Nothing})
          /\ req' = req
      BY <1>5 DEF RemoveRow, Lose
    <2>2. \A v \in Users : totp[v].secret = Nothing => totp[v] = NoRow
      BY DEF Rows
    <2>3. RemovedNeverReturns'
      BY <2>1, <2>2
    <2>4. SecretsApart'
      BY <2>1, <2>2
    <2> QED BY <2>3, <2>4
  <1>6. ASSUME NEW r \in Requests, NEW u \in Users, LoginFactor(r, u)
        PROVE  SecretsApart' /\ RemovedNeverReturns'
    <2>1. req'[r].step = "flag" /\ \A x \in Requests \ {r} : req'[x] = req[x]
      BY <1>6 DEF LoginFactor, Idle
    <2> QED BY <1>6, <2>1 DEF LoginFactor
  <1>7. ASSUME NEW r \in Requests, LoginFlag(r)
        PROVE  SecretsApart' /\ RemovedNeverReturns'
    BY <1>0, <1>7 DEF LoginFlag
  <1>8. ASSUME NEW r \in Requests, Abort(r)
        PROVE  SecretsApart' /\ RemovedNeverReturns'
    BY <1>0, <1>8 DEF Abort
  <1>9. CASE UNCHANGED vars
    BY <1>9 DEF vars
  <1> QED
    BY <1>1, <1>2, <1>3, <1>4, <1>5, <1>6, <1>7, <1>8, <1>9
       DEF Next, Setup, Login, DisableTOTP, RecoverAccount

(* A secret that is enabled, or is about to be, was confirmed or overtook  *)
(* the confirmation.                                                       *)
LEMMA NextEnablingKnown ==
  ASSUME TypeOK, EnablingKnown, UnconfirmedWasOvertaken, [Next]_vars
  PROVE  EnablingKnown' /\ UnconfirmedWasOvertaken'
  <1> USE FactorAssumption, Nulls DEF TypeOK, EnablingKnown, UnconfirmedWasOvertaken, At
  <1>0. ASSUME NEW r \in Requests, Finish(r), UNCHANGED <<totp, confirmed, overtaken>>
        PROVE  EnablingKnown' /\ UnconfirmedWasOvertaken'
    BY <1>0, Finished
  <1>1. ASSUME NEW r \in Requests, NEW u \in Users, NEW s \in Secrets, BeginRead(r, u, s)
        PROVE  EnablingKnown' /\ UnconfirmedWasOvertaken'
    <2>1. req'[r].step = "upsert" /\ \A x \in Requests \ {r} : req'[x] = req[x]
      BY <1>1 DEF BeginRead, Idle
    <2> QED BY <1>1, <2>1 DEF BeginRead
  <1>2. ASSUME NEW r \in Requests, UpsertTotpConfiguration(r)
        PROVE  EnablingKnown' /\ UnconfirmedWasOvertaken'
    <2> DEFINE u == req[r].user
               s == req[r].secret
    <2>1. u \in Users /\ confirmed' = confirmed /\ overtaken \subseteq overtaken'
      BY <1>2 DEF UpsertTotpConfiguration
    <2>2. \A x \in Requests : req'[x] = IF x = r THEN Idle ELSE req[x]
      BY <1>2, Finished DEF UpsertTotpConfiguration
    <2>3. /\ totp'[u].secret = s /\ totp'[u].enabled = FALSE
          /\ \A v \in Users \ {u} : totp'[v] = totp[v]
      BY <1>2, <2>1 DEF UpsertTotpConfiguration
    <2>4. ASSUME NEW x \in Requests, At(x, "enable"), req[x].user = u
          PROVE  s \in overtaken'
      BY <1>2, <2>4 DEF UpsertTotpConfiguration, Confirming
    <2>5. UnconfirmedWasOvertaken'
      BY <2>1, <2>3
    <2>6. EnablingKnown'
      BY <2>1, <2>2, <2>3, <2>4
    <2> QED BY <2>5, <2>6
  <1>3. ASSUME NEW r \in Requests, NEW u \in Users, ConfirmRead(r, u)
        PROVE  EnablingKnown' /\ UnconfirmedWasOvertaken'
    <2>1. /\ req'[r].step = "enable" /\ req'[r].user = u
          /\ \A x \in Requests \ {r} : req'[x] = req[x]
      BY <1>3 DEF ConfirmRead, Idle
    <2>2. totp[u].secret \in confirmed' /\ confirmed \subseteq confirmed'
      BY <1>3 DEF ConfirmRead
    <2> QED BY <1>3, <2>1, <2>2 DEF ConfirmRead
  <1>4. ASSUME NEW r \in Requests, EnableTotpConfiguration(r)
        PROVE  EnablingKnown' /\ UnconfirmedWasOvertaken'
    <2> DEFINE u == req[r].user
    <2>1. u \in Users /\ At(r, "enable")
      BY <1>4 DEF EnableTotpConfiguration
    <2>2. \A v \in Users : /\ totp'[v].secret = totp[v].secret
                           /\ totp[v] = NoRow => totp'[v] = NoRow
                           /\ v # u => totp'[v] = totp[v]
      BY <1>4, EnabledInPlace
    <2>3. \A x \in Requests :
             \/ req'[x].step = "idle"
             \/ req'[x].step = req[x].step /\ req'[x].user = req[x].user
      BY <1>4 DEF EnableTotpConfiguration, Reading, Requested
    <2>4. UNCHANGED <<confirmed, overtaken>>
      BY <1>4 DEF EnableTotpConfiguration
    <2>5. EnablingKnown'
      BY <1>4, <2>1, <2>2, <2>3, <2>4 DEF EnableTotpConfiguration
    <2>6. UnconfirmedWasOvertaken'
      BY <2>1, <2>2, <2>4
    <2> QED BY <2>5, <2>6
  <1>5. ASSUME NEW u \in Users, RemoveRow(u)
        PROVE  EnablingKnown' /\ UnconfirmedWasOvertaken'
    <2>1. totp'[u] = NoRow /\ \A v \in Users \ {u} : totp'[v] = totp[v]
      BY <1>5 DEF RemoveRow
    <2> QED BY <1>5, <2>1 DEF RemoveRow
  <1>6. ASSUME NEW r \in Requests, NEW u \in Users, LoginFactor(r, u)
        PROVE  EnablingKnown' /\ UnconfirmedWasOvertaken'
    <2>1. req'[r].step = "flag" /\ \A x \in Requests \ {r} : req'[x] = req[x]
      BY <1>6 DEF LoginFactor, Idle
    <2> QED BY <1>6, <2>1 DEF LoginFactor
  <1>7. ASSUME NEW r \in Requests, LoginFlag(r)
        PROVE  EnablingKnown' /\ UnconfirmedWasOvertaken'
    BY <1>0, <1>7 DEF LoginFlag
  <1>8. ASSUME NEW r \in Requests, Abort(r)
        PROVE  EnablingKnown' /\ UnconfirmedWasOvertaken'
    BY <1>0, <1>8 DEF Abort
  <1>9. CASE UNCHANGED vars
    BY <1>9 DEF vars
  <1> QED
    BY <1>1, <1>2, <1>3, <1>4, <1>5, <1>6, <1>7, <1>8, <1>9
       DEF Next, Setup, Login, DisableTOTP, RecoverAccount

(* A login under way knows of the second factor, or it was enabled since.  *)
LEMMA NextLoginsKnow ==
  ASSUME TypeOK, LoginsKnow, FlaggedWasAsked, [Next]_vars
  PROVE  LoginsKnow' /\ FlaggedWasAsked'
  <1> USE FactorAssumption, Nulls DEF TypeOK, LoginsKnow, FlaggedWasAsked, At
  <1>0. ASSUME NEW r \in Requests, Finish(r), UNCHANGED totp
        PROVE  LoginsKnow'
    BY <1>0, Finished
  <1>1. ASSUME NEW r \in Requests, NEW u \in Users, NEW s \in Secrets, BeginRead(r, u, s)
        PROVE  LoginsKnow' /\ FlaggedWasAsked'
    <2>1. req'[r].step = "upsert" /\ \A x \in Requests \ {r} : req'[x] = req[x]
      BY <1>1 DEF BeginRead, Idle
    <2> QED BY <1>1, <2>1 DEF BeginRead
  <1>2. ASSUME NEW r \in Requests, UpsertTotpConfiguration(r)
        PROVE  LoginsKnow' /\ FlaggedWasAsked'
    <2>1. \A x \in Requests : req'[x] = IF x = r THEN Idle ELSE req[x]
      BY <1>2, Finished DEF UpsertTotpConfiguration
    <2>2. /\ req[r].user \in Users
          /\ totp'[req[r].user].enabled = FALSE
          /\ \A v \in Users \ {req[r].user} : totp'[v] = totp[v]
      BY <1>2 DEF UpsertTotpConfiguration
    <2> QED BY <1>2, <2>1, <2>2 DEF UpsertTotpConfiguration
  <1>3. ASSUME NEW r \in Requests, NEW u \in Users, ConfirmRead(r, u)
        PROVE  LoginsKnow' /\ FlaggedWasAsked'
    <2>1. req'[r].step = "enable" /\ \A x \in Requests \ {r} : req'[x] = req[x]
      BY <1>3 DEF ConfirmRead, Idle
    <2> QED BY <1>3, <2>1 DEF ConfirmRead
  <1>4. ASSUME NEW r \in Requests, EnableTotpConfiguration(r)
        PROVE  LoginsKnow' /\ FlaggedWasAsked'
    <2> DEFINE u == req[r].user
    <2>1. \A v \in Users \ {u} : totp'[v] = totp[v]
      BY <1>4 DEF EnableTotpConfiguration
    <2>2. ASSUME NEW x \in Requests, req'[x].step = "flag"
          PROVE  /\ req[x].step = "flag" /\ x # r
                 /\ req'[x].user = req[x].user /\ req'[x].asked = req[x].asked
                 /\ req[x].raced => req'[x].raced
                 /\ req[x].user = u => req'[x].raced
      BY <1>4, <2>2 DEF EnableTotpConfiguration, Reading, Requested
    <2> QED BY <1>4, <2>1, <2>2 DEF EnableTotpConfiguration
  <1>5. ASSUME NEW u \in Users, RemoveRow(u)
        PROVE  LoginsKnow' /\ FlaggedWasAsked'
    <2>1. totp'[u] = NoRow /\ \A v \in Users \ {u} : totp'[v] = totp[v]
      BY <1>5 DEF RemoveRow
    <2> QED BY <1>5, <2>1 DEF RemoveRow
  <1>6. ASSUME NEW r \in Requests, NEW u \in Users, LoginFactor(r, u)
        PROVE  LoginsKnow' /\ FlaggedWasAsked'
    <2>1. /\ req'[r].user = u /\ req'[r].asked = totp[u].enabled
          /\ \A x \in Requests \ {r} : req'[x] = req[x]
      BY <1>6 DEF LoginFactor, Idle
    <2> QED BY <1>6, <2>1 DEF LoginFactor
  <1>7. ASSUME NEW r \in Requests, LoginFlag(r)
        PROVE  LoginsKnow' /\ FlaggedWasAsked'
    <2>1. LoginsKnow'
      BY <1>0, <1>7 DEF LoginFlag
    <2>2. FlaggedWasAsked'
      BY <1>7 DEF LoginFlag
    <2> QED BY <2>1, <2>2
  <1>8. ASSUME NEW r \in Requests, Abort(r)
        PROVE  LoginsKnow' /\ FlaggedWasAsked'
    BY <1>0, <1>8 DEF Abort
  <1>9. CASE UNCHANGED vars
    BY <1>9 DEF vars
  <1> QED
    BY <1>1, <1>2, <1>3, <1>4, <1>5, <1>6, <1>7, <1>8, <1>9
       DEF Next, Setup, Login, DisableTOTP, RecoverAccount

(* A setup under way was overtaken, if a second factor is enabled by now.   *)
LEMMA NextSetupsKnow ==
  ASSUME TypeOK, SetupsKnow, [Next]_vars
  PROVE  SetupsKnow'
  <1> USE FactorAssumption, Nulls DEF TypeOK, SetupsKnow, At
  <1>0. ASSUME NEW r \in Requests, Finish(r), UNCHANGED totp
        PROVE  SetupsKnow'
    BY <1>0, Finished
  <1>1. ASSUME NEW r \in Requests, NEW u \in Users, NEW s \in Secrets, BeginRead(r, u, s)
        PROVE  SetupsKnow'
    <2>1. ~totp[u].enabled /\ UNCHANGED totp
      BY <1>1 DEF BeginRead
    <2>2. req'[r].user = u /\ \A x \in Requests \ {r} : req'[x] = req[x]
      BY <1>1 DEF BeginRead, Idle
    <2> QED BY <2>1, <2>2
  <1>2. ASSUME NEW r \in Requests, UpsertTotpConfiguration(r)
        PROVE  SetupsKnow'
    <2>1. \A x \in Requests : req'[x] = IF x = r THEN Idle ELSE req[x]
      BY <1>2, Finished DEF UpsertTotpConfiguration
    <2>2. /\ req[r].user \in Users
          /\ totp'[req[r].user].enabled = FALSE
          /\ \A v \in Users \ {req[r].user} : totp'[v] = totp[v]
      BY <1>2 DEF UpsertTotpConfiguration
    <2> QED BY <2>1, <2>2
  <1>3. ASSUME NEW r \in Requests, NEW u \in Users, ConfirmRead(r, u)
        PROVE  SetupsKnow'
    <2>1. req'[r].step = "enable" /\ \A x \in Requests \ {r} : req'[x] = req[x]
      BY <1>3 DEF ConfirmRead, Idle
    <2> QED BY <1>3, <2>1 DEF ConfirmRead
  <1>4. ASSUME NEW r \in Requests, EnableTotpConfiguration(r)
        PROVE  SetupsKnow'
    <2> DEFINE u == req[r].user
    <2>1. \A v \in Users \ {u} : totp'[v] = totp[v]
      BY <1>4 DEF EnableTotpConfiguration
    <2>2. ASSUME NEW x \in Requests, req'[x].step = "upsert"
          PROVE  /\ req[x].step = "upsert" /\ req'[x].user = req[x].user
                 /\ req[x].raced => req'[x].raced
                 /\ req[x].user = u => req'[x].raced
      BY <1>4, <2>2 DEF EnableTotpConfiguration, Reading, Requested
    <2> QED BY <2>1, <2>2
  <1>5. ASSUME NEW u \in Users, RemoveRow(u)
        PROVE  SetupsKnow'
    <2>1. totp'[u] = NoRow /\ \A v \in Users \ {u} : totp'[v] = totp[v]
      BY <1>5 DEF RemoveRow
    <2> QED BY <1>5, <2>1 DEF RemoveRow
  <1>6. ASSUME NEW r \in Requests, NEW u \in Users, LoginFactor(r, u)
        PROVE  SetupsKnow'
    <2>1. req'[r].step = "flag" /\ \A x \in Requests \ {r} : req'[x] = req[x]
      BY <1>6 DEF LoginFactor, Idle
    <2> QED BY <1>6, <2>1 DEF LoginFactor
  <1>7. ASSUME NEW r \in Requests, LoginFlag(r) \/ Abort(r)
        PROVE  SetupsKnow'
    BY <1>0, <1>7 DEF LoginFlag, Abort
  <1>8. CASE UNCHANGED vars
    BY <1>8 DEF vars
  <1> QED
    BY <1>1, <1>2, <1>3, <1>4, <1>5, <1>6, <1>7, <1>8
       DEF Next, Setup, Login, DisableTOTP, RecoverAccount

-----------------------------------------------------------------------------

(* Every step preserves the inductive invariant.                           *)
LEMMA NextIInv == IInv /\ [Next]_vars => IInv'
  BY NextTypeOK, NextSecretsApart, NextEnablingKnown, NextLoginsKnow, NextSetupsKnow
     DEF IInv

(* IInv holds throughout.                                                  *)
THEOREM Invariance == Spec => []IInv
  <1>1. Init => IInv
    BY InitIInv
  <1>2. IInv /\ [Next]_vars => IInv'
    BY NextIInv
  <1> QED BY <1>1, <1>2, PTL DEF Spec

(* Rows and requests stay well typed (totp_configurations).                *)
THEOREM Types == Spec => []TypeOK
  <1>1. IInv => TypeOK
    BY DEF IInv
  <1> QED BY <1>1, Invariance, PTL

(* A secret that was replaced or removed never is anyone's second factor   *)
(* again (EnableTotpConfiguration, DeleteTotpConfigurationByUserID).       *)
THEOREM Removal == Spec => []RemovedNeverReturns
  <1>1. IInv => RemovedNeverReturns
    BY DEF IInv
  <1> QED BY <1>1, Invariance, PTL

(* An enabled secret was confirmed, or overtook a confirmation             *)
(* (BeginTOTPSetup, ConfirmTOTPSetup).                                     *)
THEOREM Confirmation == Spec => []UnconfirmedWasOvertaken
  <1>1. IInv => UnconfirmedWasOvertaken
    BY DEF IInv
  <1> QED BY <1>1, Invariance, PTL

(* A login told that the second factor is enabled was asked for it, or it  *)
(* was enabled meanwhile (validateSecondFactor, principalWithFactors).     *)
THEOREM Asking == Spec => []FlaggedWasAsked
  <1>1. IInv => FlaggedWasAsked
    BY DEF IInv
  <1> QED BY <1>1, Invariance, PTL

(* An enabled TOTP is replaced only by a setup that read the row before it *)
(* was enabled (BeginTOTPSetup).                                           *)
THEOREM Replacing == Spec => ReplacedBySlowSetup
  <1>1. ASSUME IInv, [Next]_vars, NEW u \in Users,
               totp[u].enabled, totp'[u] \notin {totp[u], NoRow}
        PROVE  \E r \in Requests :
                  /\ At(r, "upsert") /\ req[r].user = u /\ req[r].raced
                  /\ req'[r].step = "idle"
    <2> USE <1>1
    <2>1. TypeOK /\ totp[u] \in Rows \union {NoRow} /\ totp[u] # NoRow
      BY Nulls DEF IInv, TypeOK
    <2>2. ASSUME NEW r \in Requests, EnableTotpConfiguration(r)
          PROVE  FALSE
      <3>1. CASE req[r].user # u
        BY <2>1, <2>2, <3>1, EnabledInPlace
      <3>2. CASE req[r].user = u
        <4>1. totp'[u] = [totp[u] EXCEPT !.enabled = TRUE]
          <5>1. totp'[u] = [totp[u] EXCEPT !.enabled = totp[u] # NoRow]
            BY <2>1, <2>2, <3>2 DEF EnableTotpConfiguration, TypeOK
          <5>2. (totp[u] # NoRow) = TRUE
            BY <2>1
          <5> QED BY <5>1, <5>2
        <4>2. [totp[u] EXCEPT !.enabled = TRUE] = totp[u]
          BY <2>1 DEF Rows
        <4> QED BY <4>1, <4>2
      <3> QED BY <3>1, <3>2
    <2>3. ASSUME NEW v \in Users, RemoveRow(v)
          PROVE  FALSE
      BY <2>1, <2>3 DEF RemoveRow, TypeOK
    <2>4. PICK r \in Requests : UpsertTotpConfiguration(r)
      BY <2>2, <2>3
         DEF Next, Setup, Login, DisableTOTP, RecoverAccount, BeginRead, ConfirmRead,
             LoginFactor, LoginFlag, Abort, vars
    <2>5. req[r].user = u /\ At(r, "upsert")
      BY <2>1, <2>4 DEF UpsertTotpConfiguration, TypeOK
    <2>6. req'[r].step = "idle"
      BY <2>1, <2>4, Nulls DEF UpsertTotpConfiguration, Finish, TypeOK
    <2>7. req[r].raced
      BY <2>5 DEF IInv, SetupsKnow
    <2> QED BY <2>5, <2>6, <2>7
  <1>2. IInv /\ [Next]_vars
          => [\A u \in Users :
                totp[u].enabled /\ totp'[u] \notin {totp[u], NoRow}
                => \E r \in Requests :
                      /\ At(r, "upsert") /\ req[r].user = u /\ req[r].raced
                      /\ req'[r].step = "idle"]_vars
    BY <1>1
  <1> QED BY <1>2, Invariance, PTL DEF Spec, ReplacedBySlowSetup
=============================================================================
