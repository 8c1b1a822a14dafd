------------------------------ MODULE Passkeys ------------------------------
(***************************************************************************)
(* The table passkey_credentials: the registration of a credential in a    *)
(* browser session, logins with it that read, advance and write its sign   *)
(* counter in separate statements, and its deletion.                       *)
(*                                                                         *)
(* WebAuthn is external: the authenticator makes a credential for the user *)
(* and the challenge of a ceremony, keeps that user as its handle, and     *)
(* signs with a counter; a copy of it signs with a counter of its own, so  *)
(* the counter of an assertion is any number.  Signatures are right.       *)
(*                                                                         *)
(* Names and public keys are left out: no property tells them apart.       *)
(*                                                                         *)
(* Definition_Change is Definition with a plausible mistake made in it; no *)
(* specification uses it.                                                  *)
(***************************************************************************)
EXTENDS Naturals

CONSTANTS
    Users,
    Credentials,
    Requests,       \* the requests in flight
    Nobody,
    MaxCount        \* bound: the greatest sign counter

ASSUME PasskeyAssumption == Nobody \notin Users /\ MaxCount \in Nat

VARIABLES
    row,        \* passkey_credentials
    maker,      \* the user handle in the authenticator, Nobody before it is made
    current,    \* user_id of the browser session, Nobody if anonymous
    ceremony,   \* the registration data in it: the credentials that answer the
                \* challenge (one, or none)
    req,
    seen        \* history of each credential

vars == <<row, maker, current, ceremony, req, seen>>

\* Has no row: user is Nobody
NoRow == [user |-> Nobody, count |-> 0, warned |-> FALSE]

Registered(c) == row[c].user # Nobody

\* creds holds the credential the request is about; read is the row as it was
\* read; next the row to be written; count the counter of the assertion;
\* user and data are what was in the session when it was loaded
Idle == [step |-> "idle", creds |-> {}, read |-> NoRow, next |-> NoRow, count |-> 0,
         user |-> Nobody, data |-> {}]

\* top: the greatest counter accepted since the registration; reused: one not
\* greater than top was accepted; overlapped: two logins read before either wrote
Unseen == [top |-> 0, reused |-> FALSE, overlapped |-> FALSE]

\* A login with c has read the row and not written it
LoginPending(r, c) == req[r].step = "update" /\ req[r].creds = {c}

-----------------------------------------------------------------------------
(* The browser session; see BrowserSessions. *)

\* completeLogin keeps what else is in the session
SignIn(u) ==
    /\ current' = u
    /\ UNCHANGED <<row, maker, ceremony, req, seen>>

Logout ==
    /\ current' = Nobody
    /\ ceremony' = {}
    /\ UNCHANGED <<row, maker, req, seen>>

-----------------------------------------------------------------------------
(* Registration. *)

\* A challenge for the user of the session; the authenticator makes a new
\* credential for it
BeginPasskeyRegistration(c) ==
    /\ current # Nobody
    /\ maker[c] = Nobody
    /\ maker' = [maker EXCEPT ![c] = current]
    /\ ceremony' = {c}
    /\ UNCHANGED <<row, current, req, seen>>

\* The library refuses data of another user (session.UserID) or none; the
\* request carries the session as it was loaded; n is the counter it starts with
FinishPasskeyRegistration(r, c, n) ==
    /\ req[r] = Idle
    /\ current # Nobody
    /\ c \in ceremony
    /\ maker[c] = current
    /\ req' = [req EXCEPT ![r] = [Idle EXCEPT !.step = "insert", !.creds = {c}, !.count = n,
                                              !.user = current, !.data = ceremony]]
    /\ UNCHANGED <<row, maker, current, ceremony, seen>>

\* The INSERT fails if the credential_id is there
PersistPasskeyCredential(r, c) ==
    LET q == req[r]
    IN  /\ q.step = "insert"
        /\ q.creds = {c}
        /\ IF Registered(c)
           THEN /\ UNCHANGED <<row, seen>>
                /\ req' = [req EXCEPT ![r].step = "answer", ![r].count = 0]
           ELSE /\ row' = [row EXCEPT ![c] = [NoRow EXCEPT !.user = q.user, !.count = q.count]]
                /\ seen' = [seen EXCEPT ![c] = [Unseen EXCEPT !.top = q.count,
                              !.overlapped = \E s \in Requests : LoginPending(s, c)]]
                /\ req' = [req EXCEPT ![r].step = "answer", ![r].count = 0, ![r].data = {}]
        /\ UNCHANGED <<maker, current, ceremony>>

\* The session is saved as the request has it, without the data after a success
\* and with it after a failure, whatever was saved since it was loaded.  Or the
\* answer is late, and the browser goes on with another session.
Answer(r) ==
    /\ req[r].step = "answer"
    /\ \/ /\ ceremony' = req[r].data
          /\ current' = req[r].user
       \/ UNCHANGED <<ceremony, current>>
    /\ req' = [req EXCEPT ![r] = Idle]
    /\ UNCHANGED <<row, maker, seen>>

-----------------------------------------------------------------------------
(* Login. *)

\* The credential as the library gets it
CredentialFromRow_NoCount(rw) == [rw EXCEPT !.count = 0]
CredentialFromRow(rw) == rw

\* The library's Authenticator.UpdateCounter
UpdateCounter(cred, n) ==
    IF n <= cred.count /\ (n # 0 \/ cred.count # 0)
    THEN [cred EXCEPT !.warned = TRUE]
    ELSE [cred EXCEPT !.count = n]

\* loadPasskeyUserByHandle finds the credential with the user of the handle;
\* the assertion is good, and the counter is advanced in the copy
FinishPasskeyLogin(r, c, n) ==
    /\ req[r] = Idle
    /\ Registered(c) /\ row[c].user = maker[c]
    /\ req' = [req EXCEPT ![r] =
                 [Idle EXCEPT !.step = "update", !.creds = {c}, !.read = row[c], !.count = n,
                              !.next = UpdateCounter(CredentialFromRow(row[c]), n)]]
    /\ seen' = [seen EXCEPT ![c].overlapped = @ \/ \E s \in Requests : LoginPending(s, c)]
    /\ UNCHANGED <<row, maker, current, ceremony>>

\* The row that is there, whoever's it is now, gets what was computed
Write(c, next) == row' = [row EXCEPT ![c].count = next.count, ![c].warned = next.warned]

\* UPDATE ... WHERE credential_id = $1: no row, no error
UpdatePasskeyCredential_CountOnly(c, next) ==
    row' = IF Registered(c) THEN [row EXCEPT ![c].count = next.count] ELSE row
UpdatePasskeyCredential_Upsert(c, next) == row' = [row EXCEPT ![c] = next]
UpdatePasskeyCredential(c, next) == IF Registered(c) THEN Write(c, next) ELSE UNCHANGED row

\* ... then completeUserAuthentication, which writes nothing here; see Accounts
FinishLogin(r, c) ==
    LET q == req[r]
        h == seen[c]
    IN  /\ LoginPending(r, c)
        /\ UpdatePasskeyCredential(c, q.next)
        /\ seen' = [seen EXCEPT
                      ![c].top = IF Registered(c) /\ q.count > h.top THEN q.count ELSE h.top,
                      ![c].reused = \/ h.reused
                                    \/ /\ Registered(c)
                                       /\ q.count <= h.top
                                       /\ q.count # 0 \/ h.top # 0]
        /\ req' = [req EXCEPT ![r] = Idle]
        /\ UNCHANGED <<maker, current, ceremony>>

-----------------------------------------------------------------------------

\* WHERE id = $1 AND user_id = $2, for a user signed in anywhere
DeletePasskey(u, c) ==
    /\ Registered(c) /\ row[c].user = u
    /\ row' = [row EXCEPT ![c] = NoRow]
    /\ UNCHANGED <<maker, current, ceremony, req, seen>>

\* The request ends: a statement fails, or it is cut off
Abort(r) ==
    /\ req[r] # Idle
    /\ req' = [req EXCEPT ![r] = Idle]
    /\ UNCHANGED <<row, maker, current, ceremony, seen>>

Init ==
    /\ row = [c \in Credentials |-> NoRow]
    /\ maker = [c \in Credentials |-> Nobody]
    /\ current = Nobody
    /\ ceremony = {}
    /\ req = [r \in Requests |-> Idle]
    /\ seen = [c \in Credentials |-> Unseen]

Next ==
    \/ \E u \in Users : SignIn(u)
    \/ Logout
    \/ \E c \in Credentials : BeginPasskeyRegistration(c)
    \/ \E r \in Requests, c \in Credentials :
          \/ \E n \in 0..MaxCount :
                FinishPasskeyRegistration(r, c, n) \/ FinishPasskeyLogin(r, c, n)
          \/ PersistPasskeyCredential(r, c)
          \/ FinishLogin(r, c)
    \/ \E r \in Requests : Answer(r) \/ Abort(r)
    \/ \E u \in Users, c \in Credentials : DeletePasskey(u, c)

Spec == Init /\ [][Next]_vars

-----------------------------------------------------------------------------
(* Properties. *)

Row == [user : Users \union {Nobody}, count : 0..MaxCount, warned : BOOLEAN]

Request == [step : {"idle", "insert", "answer", "update"}, creds : SUBSET Credentials,
            read : Row, next : Row, count : 0..MaxCount, user : Users \union {Nobody},
            data : SUBSET Credentials]

(* The rows are those of passkey_credentials, a deleted one leaves nothing *)
(* behind, and only a registration carries its data.                       *)
TypeOK ==
    /\ row \in [Credentials -> Row]
    /\ \A c \in Credentials : ~Registered(c) => row[c] = NoRow
    /\ maker \in [Credentials -> Users \union {Nobody}]
    /\ current \in Users \union {Nobody}
    /\ ceremony \subseteq Credentials
    /\ req \in [Requests -> Request]
    /\ seen \in [Credentials -> [top : 0..MaxCount, reused : BOOLEAN, overlapped : BOOLEAN]]
    /\ \A r \in Requests : req[r].data # {} => req[r].step \in {"insert", "answer"}

(* A counter that was accepted before is never accepted again without the  *)
(* warning that the authenticator may have been copied, and the warning    *)
(* stays: as long as no two logins with the credential were between their  *)
(* read and their write at a time (FinishPasskeyLogin,                     *)
(* updatePasskeyCredential).                                               *)
CloneWarned ==
    \A c \in Credentials :
        Registered(c) /\ ~seen[c].overlapped =>
            /\ row[c].count = seen[c].top
            /\ seen[c].reused => row[c].warned

(* The counter goes back, or a warning goes away, only by a login that     *)
(* read the row before another wrote it: not by what is read from the row  *)
(* and its credential_data, nor by the library's arithmetic.               *)
RevertedOnlyByOverlap ==
    [][\A c \in Credentials :
          /\ Registered(c) /\ row'[c].user = row[c].user
          /\ row'[c].count < row[c].count \/ (row[c].warned /\ ~row'[c].warned)
          => \E r \in Requests : LoginPending(r, c) /\ req[r].read # row[c]]_vars

(* A deleted credential is not brought back by a login that had read it,   *)
(* and a credential becomes that of no user but the one the authenticator  *)
(* made it for, whoever signs in between the halves of the registration.   *)
ReturnsByRegistrationOnly ==
    [][\A c \in Credentials :
          ~Registered(c) /\ row'[c] # row[c] =>
              \E r \in Requests : /\ req[r].step = "insert"
                                  /\ req[r].creds = {c}
                                  /\ row'[c].user = maker[c]]_vars

-----------------------------------------------------------------------------
(* The inductive invariant. *)

\* A registration is about to write the credential of its own user, a login
\* what it made of the row that it read
Carries(q) ==
    /\ \A c \in Credentials :
          q.step = "insert" /\ q.creds = {c} => q.user \in Users /\ q.user = maker[c]
    /\ q.step = "update" => q.next = UpdateCounter(CredentialFromRow(q.read), q.count)

\* Without an overlap, the one login that may be under way has read what is there
Tracked(c) ==
    Registered(c) /\ ~seen[c].overlapped =>
        /\ row[c].count = seen[c].top
        /\ seen[c].reused => row[c].warned
        /\ \A r \in Requests :
              LoginPending(r, c) =>
                  /\ req[r].read = row[c]
                  /\ \A s \in Requests : LoginPending(s, c) => s = r

IInv ==
    /\ TypeOK
    /\ \A r \in Requests : Carries(req[r])
    /\ \A c \in Credentials : Tracked(c)
=============================================================================
