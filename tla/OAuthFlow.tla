----------------------------- MODULE OAuthFlow -----------------------------
(***************************************************************************)
(* The callback of an OAuth sign-in: CompleteOAuthAuthentication, from the *)
(* two requests to the provider to the commit of completeOAuthFlow, over   *)
(* the table oauth_accounts and its two UNIQUE constraints.                *)
(*                                                                         *)
(* The constraints are per provider, so there is one provider.  A user is  *)
(* its email, which is UNIQUE and never changes.  The transaction runs at  *)
(* READ COMMITTED: link and account hold what is committed; what a         *)
(* callback has written is in its own record until it commits, and keeps   *)
(* conflicting writers waiting until it is over.                           *)
(*                                                                         *)
(* Which user a flow was started by, and what the session has to do with   *)
(* it, is in BrowserSessions.                                              *)
(*                                                                         *)
(* Definition_Change is Definition with a plausible mistake made in it; no *)
(* specification uses it.                                                  *)
(***************************************************************************)
EXTENDS FiniteSets

CONSTANTS
    Users,          \* the users there may be, each of them its email
    Identities,     \* the subjects at the provider
    Callbacks,      \* the callbacks in flight
    Nobody

ASSUME FlowAssumption == Nobody \notin Users

VARIABLES
    account,    \* users: absent, unverified, usable, or refused (disabled or locked)
    link,       \* oauth_accounts: the user_id of an identity, or Nobody for no row
    cb          \* where each callback stands

vars == <<account, link, cb>>

\* Two fields are history: entitled is the user who asked for the link while
\* signed in, or whose verified email the provider gave; usable says that the
\* user was usable at some time since the callback has it
Idle == [step |-> "idle", linkUser |-> Nobody, identity |-> Nobody, email |-> Nobody,
         saw |-> Nobody, user |-> Nobody, creates |-> FALSE,
         entitled |-> Nobody, usable |-> FALSE]

\* The callback is about user u from here on
With(c, u, step) == [c EXCEPT !.user = u, !.step = step, !.email = Nobody,
                              !.usable = account[u] = "usable"]

Goto(f, step) == cb' = [cb EXCEPT ![f].step = step]

End(f) == cb' = [cb EXCEPT ![f] = Idle]

-----------------------------------------------------------------------------
(* What a transaction keeps others from writing. *)

\* The callback has an uncommitted row in oauth_accounts
Wrote(f) == cb[f].step \in {"validate", "commit"}

\* ... or an uncommitted user with this email
Creating(f, u) == cb[f].creates /\ cb[f].user = u

\* The keys of the rows f has written: the identity, its new user, and the
\* user it had before, which a rollback gives back
Conflicts(f, g) ==
    /\ Wrote(f)
    /\ \/ cb[f].identity = cb[g].identity
       \/ cb[g].user \in {cb[f].user, link[cb[f].identity]}

-----------------------------------------------------------------------------
(* CompleteOAuthAuthentication, before the transaction. *)

\* The flow state from the session is good; k is its LinkUserID, the user
\* whose session was found valid, or Nobody to sign in
Callback(f, k) ==
    /\ cb[f].step = "idle"
    /\ k # Nobody => account[k] = "usable"
    /\ cb' = [cb EXCEPT ![f].step = "exchange", ![f].linkUser = k, ![f].entitled = k]
    /\ UNCHANGED <<account, link>>

\* The code is exchanged for a token and the token for a profile.  The subject
\* and the email are what the provider says; without a verified email it ends.
FetchProfile_AnyEmail(f, i, e, verified) ==
    /\ cb[f].step = "exchange"
    /\ cb' = [cb EXCEPT ![f].step = "identity", ![f].identity = i, ![f].email = e,
                        ![f].entitled = IF @ = Nobody /\ verified THEN e ELSE @]
    /\ UNCHANGED <<account, link>>
FetchProfile(f, i, e, verified) ==
    /\ cb[f].step = "exchange"
    /\ IF verified
       THEN cb' = [cb EXCEPT ![f].step = "identity", ![f].identity = i, ![f].email = e,
                             ![f].entitled = IF @ = Nobody THEN e ELSE @]
       ELSE End(f)
    /\ UNCHANGED <<account, link>>

-----------------------------------------------------------------------------
(* completeOAuthFlow, statement by statement. *)

\* GetOAuthAccountByProviderIdentity: a known identity stands for its user,
\* and is refused if another user wants to link it
FindIdentity_OwnerIgnored(f) ==
    LET c     == cb[f]
        owner == link[c.identity]
        found == [c EXCEPT !.saw = owner]
    IN  /\ c.step = "identity"
        /\ cb' = [cb EXCEPT ![f] =
                    CASE c.linkUser # Nobody -> With(found, c.linkUser, "provider")
                      [] owner # Nobody      -> With(found, owner, "upsert")
                      [] OTHER               -> [found EXCEPT !.step = "email"]]
        /\ UNCHANGED <<account, link>>
FindIdentity(f) ==
    LET c     == cb[f]
        owner == link[c.identity]
        found == [c EXCEPT !.saw = owner]
    IN  /\ c.step = "identity"
        /\ cb' = [cb EXCEPT ![f] =
                    CASE c.linkUser # Nobody /\ owner \notin {Nobody, c.linkUser} -> Idle
                      [] c.linkUser # Nobody /\ owner \in {Nobody, c.linkUser} ->
                            With(found, c.linkUser, "provider")
                      [] c.linkUser = Nobody /\ owner # Nobody -> With(found, owner, "upsert")
                      [] OTHER -> [found EXCEPT !.step = "email"]]
        /\ UNCHANGED <<account, link>>

\* GetUserByEmail: the identity is new, the user may be known
MatchEmail(f) ==
    LET e == cb[f].email
    IN  /\ cb[f].step = "email"
        /\ CASE account[e] = "absent"  -> Goto(f, "create")
             [] account[e] = "refused" -> End(f)
             [] OTHER -> cb' = [cb EXCEPT ![f] = With(@, e, "upsert")]
        /\ UNCHANGED <<account, link>>

\* createOAuthUser: the INSERT waits for another one of the same email, and
\* fails if there is a user by then.  The verification and the role are
\* rows of this transaction only.
CreateUser(f) ==
    LET e == cb[f].email
    IN  /\ cb[f].step = "create"
        /\ \A g \in Callbacks : ~Creating(g, e)
        /\ IF account[e] = "absent"
           THEN cb' = [cb EXCEPT ![f] = [With(@, e, "upsert") EXCEPT !.creates = TRUE, !.usable = TRUE]]
           ELSE End(f)
        /\ UNCHANGED <<account, link>>

\* GetOAuthAccountByUserIDAndProvider: one identity of a provider per user
FindProviderAccount(f) ==
    /\ cb[f].step = "provider"
    /\ IF \E j \in Identities \ {cb[f].identity} : link[j] = cb[f].linkUser
       THEN End(f)
       ELSE Goto(f, "upsert")
    /\ UNCHANGED <<account, link>>

\* UpsertOAuthAccount: waits for conflicting rows; ON CONFLICT on the
\* identity moves it to the user, a conflict on the user is an error
UpsertOAuthAccount_NoUnique(f) ==
    /\ cb[f].step = "upsert"
    /\ \A g \in Callbacks \ {f} : ~Conflicts(g, f)
    /\ Goto(f, "validate")
    /\ UNCHANGED <<account, link>>
UpsertOAuthAccount(f) ==
    /\ cb[f].step = "upsert"
    /\ \A g \in Callbacks \ {f} : ~Conflicts(g, f)
    /\ IF \E j \in Identities \ {cb[f].identity} : link[j] = cb[f].user
       THEN End(f)
       ELSE Goto(f, "validate")
    /\ UNCHANGED <<account, link>>

\* completeUserAuthentication reads the user again, whichever way it was found
CompleteUserAuthentication_Unchecked(f) ==
    /\ cb[f].step = "validate"
    /\ Goto(f, "commit")
    /\ UNCHANGED <<account, link>>
CompleteUserAuthentication_NoRollback(f) ==
    /\ cb[f].step = "validate"
    /\ cb[f].creates \/ account[cb[f].user] = "usable"
    /\ Goto(f, "commit")
    /\ UNCHANGED <<account, link>>
CompleteUserAuthentication(f) ==
    /\ cb[f].step = "validate"
    /\ IF cb[f].creates \/ account[cb[f].user] = "usable" THEN Goto(f, "commit") ELSE End(f)
    /\ UNCHANGED <<account, link>>

\* The callbacks while u becomes usable
Usable(u) == [g \in Callbacks |-> [cb[g] EXCEPT !.usable = @ \/ cb[g].user = u]]

Commit(f) ==
    LET c == cb[f]
    IN  /\ c.step = "commit"
        /\ link' = [link EXCEPT ![c.identity] = c.user]
        /\ IF c.creates
           THEN /\ account' = [account EXCEPT ![c.user] = "usable"]
                /\ cb' = [Usable(c.user) EXCEPT ![f] = Idle]
           ELSE /\ UNCHANGED account
                /\ End(f)

\* The provider or a statement fails, or the request is cut off: rolled back
Abort(f) ==
    /\ cb[f].step # "idle"
    /\ End(f)
    /\ UNCHANGED <<account, link>>

-----------------------------------------------------------------------------
(* What others do to the users; see Accounts. *)

SetAccount(u, from, to) ==
    /\ account[u] = from
    /\ account' = [account EXCEPT ![u] = to]
    /\ cb' = IF to = "usable" THEN Usable(u) ELSE cb
    /\ UNCHANGED link

\* Register waits for an uncommitted user of the same email
Register(u) ==
    /\ \A f \in Callbacks : ~Creating(f, u)
    /\ SetAccount(u, "absent", "unverified")

VerifyEmail(u) == SetAccount(u, "unverified", "usable")

\* Locked, or disabled
Refuse(u) == SetAccount(u, "usable", "refused")

\* The lock ends, or the account is recovered
Restore(u) == SetAccount(u, "refused", "usable")

-----------------------------------------------------------------------------

Init ==
    /\ account \in [Users -> {"absent", "unverified", "usable", "refused"}]
    /\ link = [i \in Identities |-> Nobody]
    /\ cb = [f \in Callbacks |-> Idle]

\* The callback goes on
Step(f) ==
    \/ \E i \in Identities, e \in Users, verified \in BOOLEAN : FetchProfile(f, i, e, verified)
    \/ FindIdentity(f)
    \/ MatchEmail(f)
    \/ CreateUser(f)
    \/ FindProviderAccount(f)
    \/ UpsertOAuthAccount(f)
    \/ CompleteUserAuthentication(f)
    \/ Commit(f)

Next ==
    \/ \E f \in Callbacks, k \in Users \union {Nobody} : Callback(f, k)
    \/ \E f \in Callbacks : Step(f)
    \/ \E f \in Callbacks : Abort(f)
    \/ \E u \in Users : Register(u) \/ VerifyEmail(u) \/ Refuse(u) \/ Restore(u)

Spec == Init /\ [][Next]_vars

\* The provider and the database answer, and PostgreSQL lets those that wait
\* for a row go on in their order.  Nothing is assumed of Abort.
FairSpec == Spec /\ \A f \in Callbacks : SF_vars(Step(f))

-----------------------------------------------------------------------------
(* Properties. *)

Record == [step     : {"idle", "exchange", "identity", "email", "create",
                       "provider", "upsert", "validate", "commit"},
           linkUser : Users \union {Nobody}, identity : Identities \union {Nobody},
           email    : Users \union {Nobody}, saw      : Users \union {Nobody},
           user     : Users \union {Nobody}, creates  : BOOLEAN,
           entitled : Users \union {Nobody}, usable   : BOOLEAN]

Status == {"absent", "unverified", "usable", "refused"}

(* The rows are those of oauth_accounts, a linked user exists, and both    *)
(* UNIQUE constraints hold (UpsertOAuthAccount).                           *)
TypeOK ==
    /\ account \in [Users -> Status]
    /\ link \in [Identities -> Users \union {Nobody}]
    /\ \A i, j \in Identities : i # j => link[i] = Nobody \/ link[i] # link[j]
    /\ \A i \in Identities : link[i] # Nobody => account[link[i]] # "absent"
    /\ cb \in [Callbacks -> Record]

(* An identity is given to nobody but the user who asked for it while      *)
(* signed in, the user whose verified email the provider gave with it, or  *)
(* the user it was found to belong to; however callbacks and registrations *)
(* overlap (CompleteOAuthAuthentication).                                  *)
OwnerEntitled ==
    [][\A i \in Identities :
          link'[i] # link[i] =>
              \E f \in Callbacks : /\ cb[f].step = "commit"
                                   /\ cb[f].identity = i
                                   /\ link'[i] \in {cb[f].entitled, cb[f].saw} \ {Nobody}]_vars

(* "oauth account is already linked to another user" (ErrOAuthConflict) is *)
(* what a callback gets that comes after the link: only one that looked    *)
(* the identity up before it was linked to its user takes it away.         *)
MovedOnlyByOverlap ==
    [][\A i \in Identities :
          link[i] # Nobody /\ link'[i] # link[i] =>
              \E f \in Callbacks : /\ cb[f].step = "commit"
                                   /\ cb[f].identity = i
                                   /\ cb[f].saw # link[i]]_vars

(* A user who was at no time usable while the callback was about it is not *)
(* signed in by it and gets no link: neither a locked or disabled account  *)
(* nor one somebody registered with that email and never verified          *)
(* (completeUserAuthentication, and the rollback of what came before).     *)
UnusableNotServed == \A f \in Callbacks : cb[f].step = "commit" => cb[f].usable

(* Every callback ends: no two wait for each other's rows, and what one    *)
(* held is given up on each of its ways out (completeOAuthFlow, withTx).   *)
CallbacksEnd == \A f \in Callbacks : (cb[f].step # "idle") ~> (cb[f].step = "idle")

-----------------------------------------------------------------------------
(* The inductive invariant. *)

\* The user a callback c signs in, or links the identity to, is known
Decided(c) == c.step \in {"provider", "upsert", "validate", "commit"}

Asking(c) == c.step \in {"email", "create"}

\* What c knows where it stands
Knows(c) ==
    /\ c.step \notin {"idle", "exchange"} => c.identity \in Identities
    /\ c.linkUser # Nobody => account[c.linkUser] # "absent"
    /\ ~Decided(c) => c.saw = Nobody /\ ~c.creates
    /\ c.step = "exchange" => c.entitled = c.linkUser
    /\ c.step = "identity" \/ Asking(c) =>
          /\ c.email \in Users
          /\ c.entitled = IF c.linkUser = Nobody THEN c.email ELSE c.linkUser
    /\ Asking(c) => c.linkUser = Nobody

\* Whoever it is for was entitled to it or found with the identity, and c has
\* noticed if it was usable
Decides(c) ==
    Decided(c) =>
        /\ c.user \in Users
        /\ c.user \in {c.entitled, c.saw}
        /\ c.saw # Nobody => c.user = c.saw
        /\ c.step = "provider" => c.linkUser = c.user /\ ~c.creates
        /\ c.creates <=> account[c.user] = "absent"
        /\ c.creates \/ account[c.user] = "usable" => c.usable
        /\ c.step = "commit" => c.usable

\* What c, the record of f, has not committed keeps apart from what others
\* have not, and from what is
Fits(f, c) ==
    /\ c.step \in {"validate", "commit"} =>
          /\ \A j \in Identities \ {c.identity} : link[j] # c.user
          /\ \A g \in Callbacks \ {f} :
                Wrote(g) => c.identity # cb[g].identity /\ c.user # cb[g].user
    /\ c.creates => \A g \in Callbacks \ {f} : cb[g].creates => cb[g].user # c.user

IInv ==
    /\ TypeOK
    /\ \A f \in Callbacks : Knows(cb[f]) /\ Decides(cb[f]) /\ Fits(f, cb[f])
=============================================================================
