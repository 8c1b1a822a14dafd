--------------------------- MODULE BrowserSessions ---------------------------
(***************************************************************************)
(* The requests of one browser over the session store: each loads the      *)
(* session of its cookie, works on the copy, and saves the copy whole when *)
(* it answers.                                                             *)
(*                                                                         *)
(* SCS is external.  With an IdleTimeout, which the configuration sets, a  *)
(* session that was found is saved at the end of every request; Commit     *)
(* inserts a row that is not there; RenewToken and Destroy delete the row  *)
(* at once; RenewToken keeps the values.                                   *)
(*                                                                         *)
(* Of what a request puts into the session for a later one, the flow of an *)
(* OAuth sign-in is modelled.  The data of the passkey ceremonies, which   *)
(* the request that ends one removes only when it succeeds, is not; that   *)
(* of a registration is in Passkeys.  What a callback does at the provider *)
(* and in the database is in OAuthFlow.                                    *)
(*                                                                         *)
(* Definition_Change is Definition with a plausible mistake made in it; no *)
(* specification uses it.                                                  *)
(***************************************************************************)
EXTENDS Naturals

CONSTANTS
    Users,
    Tokens,         \* bound: the session tokens there may ever be
    Flows,          \* bound: the OAuth flows there may ever be
    Requests,       \* the requests in flight
    None,
    MaxVersion      \* bound: of auth_version

ASSUME SessionAssumption == /\ None \notin Users \union Tokens \union Flows
                            /\ "fresh" \notin Users \union {None}
                            /\ MaxVersion \in Nat \ {0}

VARIABLES
    store,      \* the saved sessions
    cookie,     \* the token the browser has
    version,    \* users: auth_version
    bearer,     \* the user each token was first saved for, or not yet "fresh"
    flowUser,   \* LinkUserID of each flow, None to sign in, or not yet "fresh"
    req,
    out,        \* history: tokens logged out "alone" or while others had them loaded
    spent,      \* history: the flows a callback went to the provider with
    shared      \* history: the flows two requests had loaded at a time, or
                \* whose callback was cut off before it was saved

vars == <<store, cookie, version, bearer, flowUser, req, out, spent, shared>>

Empty == [user |-> None, version |-> 0, flow |-> None]

NoSession == [Empty EXCEPT !.version = MaxVersion + 1]

Kinds == {"page", "logout", "login", "start", "callback"}

\* acts is the user the handler works for, flow the one taken out of the
\* session; revoked is history: the users whose auth_version rose since it was loaded
Idle == [step |-> "idle", kind |-> "page", token |-> None, data |-> Empty, save |-> FALSE,
         flow |-> None, acts |-> None, revoked |-> {}]

InFlight(r) == req[r].step \in {"loaded", "provider", "answer"}

\* Another request has loaded the session with token t
Overlapped(r, t) == \E s \in Requests \ {r} : InFlight(s) /\ req[s].token = t

-----------------------------------------------------------------------------
(* The browser and LoadAndSave. *)

\* A request is sent with the cookie and its session loaded: one that comes
\* late is one after which the cookie has changed
Load(r, kind) ==
    LET found == cookie # None /\ store[cookie] # NoSession
        data  == IF found THEN store[cookie] ELSE Empty
    IN  /\ req[r] = Idle
        /\ req' = [req EXCEPT ![r] =
                     [Idle EXCEPT !.step = "loaded", !.kind = kind, !.data = data, !.save = found,
                                  !.token = IF found THEN cookie ELSE None]]
        /\ shared' = shared \union
             {f \in Flows : f = data.flow /\ \E s \in Requests : InFlight(s) /\
                                               f \in {req[s].data.flow, req[s].flow}}
        /\ UNCHANGED <<store, cookie, version, bearer, flowUser, out, spent>>

\* The copy is saved, under a new token if it has none
Commit(r, t) ==
    LET q == req[r]
    IN  /\ q.step = "answer"
        /\ q.save
        /\ IF q.token = None THEN bearer[t] = "fresh" ELSE t = q.token
        /\ store' = [store EXCEPT ![t] = q.data]
        /\ bearer' = [bearer EXCEPT ![t] = IF @ = "fresh" THEN q.data.user ELSE @]
        /\ req' = [req EXCEPT ![r] = [Idle EXCEPT !.step = "saved", !.token = t]]
        /\ UNCHANGED <<cookie, version, flowUser, out, spent, shared>>

\* The answer sets the cookie; it may be lost
Receive(r) ==
    /\ req[r].step = "saved"
    /\ cookie' \in {cookie, req[r].token}
    /\ req' = [req EXCEPT ![r] = Idle]
    /\ UNCHANGED <<store, version, bearer, flowUser, out, spent, shared>>

\* The answer leaves the cookie alone
NothingToSave(r) ==
    /\ req[r].step = "answer"
    /\ ~req[r].save
    /\ req' = [req EXCEPT ![r] = Idle]
    /\ UNCHANGED <<store, cookie, version, bearer, flowUser, out, spent, shared>>

\* The context of the request ends, or the store fails: nothing is saved
Abort(r) ==
    /\ InFlight(r)
    /\ req' = [req EXCEPT ![r] = Idle]
    /\ shared' = shared \union ({req[r].flow} \ {None})
    /\ UNCHANGED <<store, cookie, version, bearer, flowUser, out, spent>>

-----------------------------------------------------------------------------
(* What the handlers do to the copy they have loaded. *)

\* ValidateSession; an account that is disabled or locked is not told apart
\* from one whose auth_version has risen
Valid(d) == d.user # None /\ d.version = version[d.user]

Delete(t) == store' = IF t = None THEN store ELSE [store EXCEPT ![t] = NoSession]

\* Sessions.Destroy: the row is gone, the copy is not saved, the cookie is
\* cleared when the answer arrives, saved here as the token None
Destroy(r) ==
    /\ Delete(req[r].token)
    /\ req' = [req EXCEPT ![r] = [Idle EXCEPT !.step = "saved"]]

Answer(r, q) == req' = [req EXCEPT ![r] = [q EXCEPT !.step = "answer", !.save = TRUE,
                                                    !.kind = "page"]]

\* ... without any Put or Remove
Refuse(r) ==
    /\ req' = [req EXCEPT ![r].step = "answer", ![r].kind = "page", ![r].acts = None]
    /\ UNCHANGED store

\* The copy has user v in it; every value of before stays
Principal(d, v) == [d EXCEPT !.user = v, !.version = version[v]]

\* completeLogin: RenewToken deletes the row; the new token comes with Commit
CompleteLogin_SameToken(r, q, v) ==
    /\ UNCHANGED store
    /\ Answer(r, [q EXCEPT !.data = Principal(@, v)])
CompleteLogin(r, q, v) ==
    /\ Delete(q.token)
    /\ Answer(r, [q EXCEPT !.token = None, !.acts = None, !.data = Principal(@, v)])

-----------------------------------------------------------------------------
(* The handlers. *)

\* ValidateSession or Destroy fails: 500, and the copy is saved, without the
\* flow if it is that of a callback
Fail(r) ==
    LET q == req[r]
        d == [q.data EXCEPT !.flow = IF q.kind = "callback" THEN None ELSE @]
    IN  /\ q.step = "loaded" /\ q.kind # "login" /\ q.data.user # None
        /\ req' = [req EXCEPT ![r] = [q EXCEPT !.step = "answer", !.kind = "page", !.data = d]]
        /\ UNCHANGED <<store, cookie, version, bearer, flowUser, out, spent, shared>>

\* RequireAuthenticated, and any handler that does not touch the session
Page_NotValidated(r) ==
    LET q == req[r]
    IN  /\ q.step = "loaded" /\ q.kind = "page"
        /\ req' = [req EXCEPT ![r].step = "answer", ![r].acts = q.data.user]
        /\ UNCHANGED <<store, cookie, version, bearer, flowUser, out, spent, shared>>
Page(r) ==
    LET q == req[r]
    IN  /\ q.step = "loaded" /\ q.kind = "page"
        /\ CASE q.data.user = None -> Refuse(r)
             [] Valid(q.data)      -> /\ req' = [req EXCEPT ![r].step = "answer",
                                                            ![r].acts = q.data.user]
                                      /\ UNCHANGED store
             [] OTHER              -> Destroy(r)
        /\ UNCHANGED <<cookie, version, bearer, flowUser, out, spent, shared>>

\* Logout, behind RequireAuthenticated, which destroys an invalid session too
Logout_KeepsRow(r) ==
    LET q == req[r]
    IN  /\ q.step = "loaded" /\ q.kind = "logout"
        /\ IF q.data.user = None THEN Refuse(r) /\ UNCHANGED out
           ELSE /\ req' = [req EXCEPT ![r] = [Idle EXCEPT !.step = "saved"]]
                /\ UNCHANGED store
                /\ out' = [out EXCEPT ![q.token] = IF Overlapped(r, q.token) THEN "overlapped"
                                                                             ELSE "alone"]
        /\ UNCHANGED <<cookie, version, bearer, flowUser, spent, shared>>
Logout(r) ==
    LET q == req[r]
    IN  /\ q.step = "loaded" /\ q.kind = "logout"
        /\ IF q.data.user = None THEN Refuse(r) /\ UNCHANGED out
           ELSE /\ Destroy(r)
                /\ out' = [out EXCEPT ![q.token] = IF Overlapped(r, q.token) THEN "overlapped"
                                                                             ELSE "alone"]
        /\ UNCHANGED <<cookie, version, bearer, flowUser, spent, shared>>

\* Login, for a session of whatever user
Login(r, v) ==
    /\ req[r].step = "loaded" /\ req[r].kind = "login"
    /\ CompleteLogin(r, req[r], v)
    /\ UNCHANGED <<cookie, version, bearer, flowUser, out, spent, shared>>

\* A wrong password
LoginRefused(r) ==
    /\ req[r].step = "loaded" /\ req[r].kind = "login"
    /\ Refuse(r)
    /\ UNCHANGED <<cookie, version, bearer, flowUser, out, spent, shared>>

\* validatedOptionalUserID: an anonymous session goes on, an invalid one ends;
\* the provider may be unknown
StartOAuth(r, f) ==
    LET q == req[r]
    IN  /\ q.step = "loaded" /\ q.kind = "start"
        /\ flowUser[f] = "fresh"
        /\ IF q.data.user = None \/ Valid(q.data)
           THEN \/ /\ flowUser' = [flowUser EXCEPT ![f] = q.data.user]
                   /\ Answer(r, [q EXCEPT !.data.flow = f])
                   /\ UNCHANGED store
                \/ Refuse(r) /\ UNCHANGED flowUser
           ELSE Destroy(r) /\ UNCHANGED flowUser
        /\ UNCHANGED <<cookie, version, bearer, out, spent, shared>>

\* CompleteOAuth up to the provider: the flow is taken out of the copy, the
\* session validated, and the state compared; the flow goes on if it is for
\* the user of the session, or for nobody
CompleteOAuth_FlowStays(r, match) ==
    LET q == req[r]
        f == q.data.flow
    IN  /\ q.step = "loaded" /\ q.kind = "callback"
        /\ match => f # None
        /\ CASE q.data.user # None /\ ~Valid(q.data) -> Destroy(r) /\ UNCHANGED spent
             [] (q.data.user = None \/ Valid(q.data)) /\ match
                   /\ flowUser[f] \in {None, q.data.user} ->
                   /\ req' = [req EXCEPT ![r].step = "provider", ![r].flow = f,
                                         ![r].acts = flowUser[f], ![r].save = TRUE]
                   /\ spent' = spent \union {f}
                   /\ UNCHANGED store
             [] OTHER -> Refuse(r) /\ UNCHANGED spent
        /\ UNCHANGED <<cookie, version, bearer, flowUser, out, shared>>
CompleteOAuth(r, match) ==
    LET q     == req[r]
        f     == q.data.flow
        taken == [q EXCEPT !.data.flow = None]
    IN  /\ q.step = "loaded" /\ q.kind = "callback"
        /\ match => f # None
        /\ CASE q.data.user # None /\ ~Valid(q.data) -> Destroy(r) /\ UNCHANGED spent
             [] (q.data.user = None \/ Valid(q.data)) /\ match
                   /\ flowUser[f] \in {None, q.data.user} ->
                   /\ req' = [req EXCEPT ![r] = [taken EXCEPT !.step = "provider", !.flow = f,
                                                 !.acts = flowUser[f], !.save = TRUE]]
                   /\ spent' = spent \union {f}
                   /\ UNCHANGED store
             [] OTHER ->
                   /\ req' = [req EXCEPT ![r] = [taken EXCEPT !.step = "answer", !.kind = "page"]]
                   /\ UNCHANGED <<store, spent>>
        /\ UNCHANGED <<cookie, version, bearer, flowUser, out, shared>>

\* ... and after it: a sign-in completes the login of the user who was found,
\* a link leaves the session alone, and so does an error
CompleteOAuthEnd(r) ==
    LET q == req[r]
    IN  /\ q.step = "provider"
        /\ \/ /\ flowUser[q.flow] = None
              /\ \E v \in Users : CompleteLogin(r, q, v)
           \/ Refuse(r)
        /\ UNCHANGED <<cookie, version, bearer, flowUser, out, spent, shared>>

\* A password reset or a recovery ends the sessions of a user; see Accounts
IncrementUserAuthVersion(u) ==
    /\ version[u] < MaxVersion
    /\ version' = [version EXCEPT ![u] = @ + 1]
    /\ req' = [r \in Requests |-> IF req[r].step \in {"idle", "saved"} THEN req[r]
                                  ELSE [req[r] EXCEPT !.revoked = @ \union ({u} \cap {req[r].data.user})]]
    /\ UNCHANGED <<store, cookie, bearer, flowUser, out, spent, shared>>

-----------------------------------------------------------------------------

Init ==
    /\ store = [t \in Tokens |-> NoSession]
    /\ cookie = None
    /\ version = [u \in Users |-> 1]
    /\ bearer = [t \in Tokens |-> "fresh"]
    /\ flowUser = [f \in Flows |-> "fresh"]
    /\ req = [r \in Requests |-> Idle]
    /\ out = [t \in Tokens |-> "no"]
    /\ spent = {}
    /\ shared = {}

Next ==
    \/ \E r \in Requests :
          \/ \E kind \in Kinds : Load(r, kind)
          \/ \E t \in Tokens : Commit(r, t)
          \/ Receive(r)
          \/ NothingToSave(r)
          \/ Abort(r)
          \/ Fail(r)
          \/ Page(r)
          \/ Logout(r)
          \/ \E v \in Users : Login(r, v)
          \/ LoginRefused(r)
          \/ \E f \in Flows : StartOAuth(r, f)
          \/ \E match \in BOOLEAN : CompleteOAuth(r, match)
          \/ CompleteOAuthEnd(r)
    \/ \E u \in Users : IncrementUserAuthVersion(u)

Spec == Init /\ [][Next]_vars

-----------------------------------------------------------------------------
(* Properties. *)

Session == [user : Users \union {None}, version : 0..MaxVersion + 1, flow : Flows \union {None}]

Sent == [step : {"idle", "loaded", "provider", "answer", "saved"}, kind : Kinds,
         token : Tokens \union {None}, data : Session, save : BOOLEAN,
         flow : Flows \union {None}, acts : Users \union {None}, revoked : SUBSET Users]

(* A token has a row only if it was given out, and the rows and the copies *)
(* hold sessions, with an auth_version if they have a user.                *)
TypeOK ==
    /\ store \in [Tokens -> Session]
    /\ cookie \in Tokens \union {None}
    /\ version \in [Users -> 1..MaxVersion]
    /\ bearer \in [Tokens -> Users \union {None, "fresh"}]
    /\ flowUser \in [Flows -> Users \union {None, "fresh"}]
    /\ req \in [Requests -> Sent]
    /\ out \in [Tokens -> {"no", "alone", "overlapped"}]
    /\ spent \subseteq Flows /\ shared \subseteq Flows
    /\ \A t \in Tokens : bearer[t] = "fresh" => store[t] = NoSession
    /\ \A r \in Requests : req[r].data.user # None => req[r].data.version \in 1..MaxVersion

SignedIn(t) == store[t].user # None

(* A token is of one user, or of none, for as long as it exists: one that  *)
(* was known before a login does not become the session of that login      *)
(* (completeLogin), whatever is saved back by requests that overlap it.    *)
TokenKeepsUser ==
    \A t \in Tokens : store[t] # NoSession => store[t].user = bearer[t]

(* After a logout that no other request overlaps, its token is nobody's:   *)
(* late answers and lost ones do not bring it back (Logout).               *)
LoggedOutStaysOut == \A t \in Tokens : out[t] = "alone" => ~SignedIn(t)

(* A handler works for no user but the one of the session it was sent      *)
(* with, also to link an identity, and only if that session was not        *)
(* revoked before the request loaded it (RequireAuthenticated,             *)
(* validatedOptionalUserID, LinkUserID in CompleteOAuthAuthentication).    *)
ActsForCurrentUser ==
    \A r \in Requests :
        LET q == req[r]
        IN  q.acts # None /\ q.step \in {"provider", "answer"} =>
                /\ q.acts = q.data.user
                /\ q.data.version = version[q.acts] \/ q.acts \in q.revoked

(* A second callback goes to the provider with the same flow only if some  *)
(* other request had the flow loaded at the same time, or the first one    *)
(* was cut off before its session was saved (CompleteOAuth).               *)
FlowTakenOnce ==
    [][\A r \in Requests :
          req[r].step = "loaded" /\ req'[r].step = "provider" /\ req'[r].flow \in spent
              => req'[r].flow \in shared]_vars

(* "Destroy session" (README.md:134): after a logout its token is nobody's. *)
LogoutEndsSession == \A t \in Tokens : out[t] # "no" => ~SignedIn(t)

-----------------------------------------------------------------------------
(* The inductive invariant. *)

\* Of the record of a request: it has loaded a session, it carries a flow
Going(q) == q.step \in {"loaded", "provider", "answer"}

Carries(q, f) == Going(q) /\ f \in {q.data.flow, q.flow}

\* A copy is of the user its token is of, and was what was saved or nothing;
\* a request that has taken a flow saves its copy
CopyOf(q) ==
    /\ Going(q) /\ q.token # None => q.data.user = bearer[q.token]
    /\ q.step = "loaded" => /\ q.acts = None /\ q.flow = None
                            /\ q.token = None => q.data = Empty
    /\ q.flow # None => q.save

ActsRight(q) ==
    q.acts # None /\ q.step \in {"provider", "answer"} =>
        /\ q.acts = q.data.user
        /\ q.data.version = version[q.acts] \/ q.acts \in q.revoked

SavedFor(t) ==
    store[t] # NoSession =>
        /\ store[t].user = bearer[t]
        /\ store[t].user # None => store[t].version \in 1..MaxVersion

\* A token that was logged out alone is given out, and nobody has it
LoggedOut(t) ==
    out[t] = "alone" =>
        /\ store[t] = NoSession /\ bearer[t] # "fresh"
        /\ \A r \in Requests : Going(req[r]) => req[r].token # t

\* A flow that is not in use is nowhere; one that is not shared is with one
\* request, under one token, at most; one that was taken is in the store only
\* until the request that took it saves its copy
Unstarted(f) ==
    flowUser[f] = "fresh" =>
        /\ f \notin spent
        /\ \A r \in Requests : ~Carries(req[r], f)
        /\ \A t \in Tokens : store[t].flow # f

InOnePlace(f) ==
    f \notin shared =>
        /\ \A r, s \in Requests : Carries(req[r], f) /\ Carries(req[s], f) => r = s
        /\ \A r \in Requests, t \in Tokens :
              Carries(req[r], f) /\ store[t].flow = f => req[r].token = t
        /\ \A t, x \in Tokens : store[t].flow = f /\ store[x].flow = f => t = x

TakenOut(f) ==
    f \in spent \ shared =>
        /\ \A r \in Requests : Going(req[r]) => req[r].data.flow # f
        /\ \A t \in Tokens :
              store[t].flow = f =>
                  \E r \in Requests : Going(req[r]) /\ req[r].flow = f /\ req[r].token = t

IInv ==
    /\ TypeOK
    /\ \A r \in Requests : CopyOf(req[r]) /\ ActsRight(req[r])
    /\ \A t \in Tokens : SavedFor(t) /\ LoggedOut(t)
    /\ \A f \in Flows : Unstarted(f) /\ InOnePlace(f) /\ TakenOut(f)
=============================================================================
