--------------------------- MODULE OAuthFlowProofs ---------------------------
(***************************************************************************)
(* Proofs about OAuthFlow, for every set of users, identities and          *)
(* callbacks.  IInv is inductive; what the runs check, but for the end of  *)
(* every callback, follows from it and from what a commit writes.          *)
(***************************************************************************)
EXTENDS OAuthFlow, TLAPS

(* The record of a callback that is over.                                  *)
LEMMA Over ==
  /\ Idle \in Record
  /\ Idle.step = "idle" /\ Idle.linkUser = Nobody /\ Idle.saw = Nobody /\ ~Idle.creates
  BY DEF Idle, Record

(* The initial states satisfy the inductive invariant.                     *)
LEMMA InitIInv == Init => IInv
  BY Over, FlowAssumption
     DEF Init, IInv, TypeOK, Status, Knows, Decides, Fits, Decided, Asking

-----------------------------------------------------------------------------
(* A callback that takes a step and commits nothing disturbs no other. *)

(* It is enough to look at the callback's own record.                      *)
LEMMA OwnRecord ==
  ASSUME IInv, NEW f \in Callbacks, NEW c \in Record,
         Knows(c), Decides(c), Fits(f, c),
         cb' = [cb EXCEPT ![f] = c], UNCHANGED <<account, link>>
  PROVE  IInv'
  <1>1. TypeOK'
    BY DEF IInv, TypeOK
  <1>2. \A g \in Callbacks : cb'[g] = IF g = f THEN c ELSE cb[g]
    BY DEF IInv, TypeOK
  <1>3. ASSUME NEW g \in Callbacks
        PROVE  Knows(cb[g])' /\ Decides(cb[g])'
    BY <1>2 DEF IInv, Knows, Decides
  <1>4. ASSUME NEW g \in Callbacks
        PROVE  Fits(g, cb[g])'
    <2>1. CASE g = f
      BY <1>2, <2>1 DEF Fits, Wrote
    <2>2. CASE g # f
      BY <1>2, <2>2 DEF IInv, Fits, Wrote
    <2> QED BY <2>1, <2>2
  <1> QED BY <1>1, <1>3, <1>4 DEF IInv

(* ... which nothing is asked of when the callback is over.                *)
LEMMA EndIInv ==
  ASSUME IInv, NEW f \in Callbacks, End(f), UNCHANGED <<account, link>>
  PROVE  IInv'
  <1>1. Knows(Idle) /\ Decides(Idle) /\ Fits(f, Idle)
    BY Over DEF Knows, Decides, Fits, Decided, Asking
  <1> QED BY <1>1, Over, OwnRecord DEF End

(* With gives the record of a callback that is about a user from then on.  *)
LEMMA WithFields ==
  ASSUME NEW c \in Record, NEW u \in Users,
         NEW s \in {"provider", "upsert"}
  PROVE  /\ With(c, u, s) \in Record
         /\ With(c, u, s).user = u /\ With(c, u, s).step = s
         /\ With(c, u, s).usable = (account[u] = "usable")
         /\ With(c, u, s).identity = c.identity /\ With(c, u, s).linkUser = c.linkUser
         /\ With(c, u, s).saw = c.saw /\ With(c, u, s).entitled = c.entitled
         /\ With(c, u, s).creates = c.creates
  BY DEF With, Record

(* Going on to another step leaves the rest of the record as it is.        *)
LEMMA GotoFields ==
  ASSUME TypeOK, NEW f \in Callbacks,
         NEW s \in {"create", "upsert", "validate", "commit"}, Goto(f, s)
  PROVE  \E c \in Record :
            /\ cb' = [cb EXCEPT ![f] = c]
            /\ c.step = s
            /\ c.linkUser = cb[f].linkUser /\ c.identity = cb[f].identity
            /\ c.email = cb[f].email /\ c.saw = cb[f].saw /\ c.user = cb[f].user
            /\ c.creates = cb[f].creates /\ c.entitled = cb[f].entitled
            /\ c.usable = cb[f].usable
  <1> DEFINE c == [cb[f] EXCEPT !.step = s]
  <1>1. cb[f] \in Record
    BY DEF TypeOK
  <1>2. /\ c \in Record
        /\ c.step = s
        /\ c.linkUser = cb[f].linkUser /\ c.identity = cb[f].identity
        /\ c.email = cb[f].email /\ c.saw = cb[f].saw /\ c.user = cb[f].user
        /\ c.creates = cb[f].creates /\ c.entitled = cb[f].entitled
        /\ c.usable = cb[f].usable
    BY <1>1 DEF Record
  <1>3. cb' = [cb EXCEPT ![f] = c]
    BY DEF Goto
  <1> QED BY <1>2, <1>3

(* A callback arrives with the user of its session, or with none.          *)
LEMMA CallbackIInv ==
  ASSUME IInv, NEW f \in Callbacks, NEW k \in Users \union {Nobody}, Callback(f, k)
  PROVE  IInv'
  <1> DEFINE c == [cb[f] EXCEPT !.step = "exchange", !.linkUser = k, !.entitled = k]
  <1>1. /\ cb[f] \in Record /\ cb[f].step = "idle"
        /\ k # Nobody => account[k] = "usable"
    BY DEF IInv, TypeOK, Callback
  <1>2. /\ c \in Record /\ c.step = "exchange"
        /\ c.linkUser = k /\ c.entitled = k
        /\ c.saw = cb[f].saw /\ c.creates = cb[f].creates
    BY <1>1 DEF Record
  <1>3. cb' = [cb EXCEPT ![f] = c] /\ UNCHANGED <<account, link>>
    BY DEF Callback
  <1> HIDE DEF c
  <1>4. cb[f].saw = Nobody /\ ~cb[f].creates
    BY <1>1 DEF IInv, Knows, Decided
  <1>5. Knows(c) /\ Decides(c) /\ Fits(f, c)
    BY <1>1, <1>2, <1>4 DEF Knows, Decides, Fits, Decided, Asking
  <1> QED BY <1>2, <1>3, <1>5, OwnRecord

(* The provider's word gives a callback its email, unless it has a user.   *)
LEMMA FetchProfileIInv ==
  ASSUME IInv, NEW f \in Callbacks, NEW i \in Identities, NEW e \in Users,
         NEW verified \in BOOLEAN, FetchProfile(f, i, e, verified)
  PROVE  IInv'
  <1>1. CASE ~verified
    BY <1>1, EndIInv DEF FetchProfile
  <1>2. CASE verified
    <2> DEFINE ent == IF cb[f].entitled = Nobody THEN e ELSE cb[f].entitled
               c == [cb[f] EXCEPT !.step = "identity", !.identity = i, !.email = e,
                                  !.entitled = ent]
    <2>1. /\ cb[f] \in Record /\ cb[f].step = "exchange"
          /\ cb[f].entitled = cb[f].linkUser
          /\ cb[f].saw = Nobody /\ ~cb[f].creates
          /\ cb[f].linkUser # Nobody => account[cb[f].linkUser] # "absent"
      BY DEF IInv, TypeOK, FetchProfile, Knows, Decided
    <2>2. ent \in Users \union {Nobody}
      BY <2>1 DEF Record
    <2> HIDE DEF ent
    <2>3. /\ c \in Record /\ c.step = "identity" /\ c.identity = i /\ c.email = e
          /\ c.linkUser = cb[f].linkUser /\ c.entitled = ent
          /\ c.saw = cb[f].saw /\ c.creates = cb[f].creates
      BY <2>1, <2>2 DEF Record
    <2>4. cb' = [cb EXCEPT ![f] = c] /\ UNCHANGED <<account, link>>
      BY <1>2 DEF FetchProfile, ent
    <2> HIDE DEF c
    <2>5. Knows(c) /\ Decides(c) /\ Fits(f, c)
      BY <2>1, <2>3 DEF Knows, Decides, Fits, Decided, Asking, ent
    <2> QED BY <2>3, <2>4, <2>5, OwnRecord
  <1> QED BY <1>1, <1>2

(* A known identity decides the user, if the session does not.             *)
LEMMA FindIdentityIInv ==
  ASSUME IInv, NEW f \in Callbacks, FindIdentity(f)
  PROVE  IInv'
  <1> DEFINE c == cb[f]
             owner == link[c.identity]
             found == [c EXCEPT !.saw = owner]
  <1>1. /\ c \in Record /\ c.step = "identity" /\ c.identity \in Identities
        /\ c.email \in Users /\ c.saw = Nobody /\ ~c.creates
        /\ c.linkUser # Nobody => account[c.linkUser] # "absent"
        /\ c.entitled = IF c.linkUser = Nobody THEN c.email ELSE c.linkUser
    BY DEF IInv, TypeOK, FindIdentity, Knows, Decided
  <1>2. /\ owner \in Users \union {Nobody}
        /\ owner # Nobody => account[owner] # "absent"
    BY <1>1 DEF IInv, TypeOK
  <1>3. c.linkUser \in Users \union {Nobody}
    BY <1>1 DEF Record
  <1>4. /\ found \in Record /\ found.saw = owner /\ found.step = "identity"
        /\ found.identity = c.identity /\ found.linkUser = c.linkUser
        /\ found.email = c.email /\ found.entitled = c.entitled
        /\ found.creates = c.creates
    BY <1>1, <1>2 DEF Record
  <1>5. UNCHANGED <<account, link>>
    BY DEF FindIdentity
  <1> HIDE DEF found
  <1>6. ASSUME NEW u \in Users, NEW s \in {"provider", "upsert"},
               account[u] # "absent", u \in {c.entitled, owner}, owner \in {Nobody, u},
               s = "provider" => c.linkUser = u,
               cb' = [cb EXCEPT ![f] = With(found, u, s)]
        PROVE  IInv'
    <2> DEFINE w == With(found, u, s)
    <2>1. /\ w \in Record /\ w.user = u /\ w.step = s
          /\ w.usable = (account[u] = "usable")
          /\ w.identity = c.identity /\ w.linkUser = c.linkUser
          /\ w.saw = owner /\ w.entitled = c.entitled /\ ~w.creates
      <3>1. /\ w \in Record /\ w.user = u /\ w.step = s
            /\ w.usable = (account[u] = "usable")
            /\ w.identity = found.identity /\ w.linkUser = found.linkUser
            /\ w.saw = found.saw /\ w.entitled = found.entitled
            /\ w.creates = found.creates
        BY <1>4, WithFields
      <3> HIDE DEF w
      <3> QED BY <1>1, <1>4, <3>1
    <2> HIDE DEF w
    <2>2. Knows(w) /\ Decides(w) /\ Fits(f, w)
      BY <1>1, <1>2, <1>3, <1>6, <2>1 DEF Knows, Decides, Fits, Decided, Asking
    <2> QED BY <1>5, <1>6, <2>1, <2>2, OwnRecord DEF w
  <1>7. CASE c.linkUser # Nobody /\ owner \notin {Nobody, c.linkUser}
    <2>1. End(f)
      BY <1>7 DEF FindIdentity, End
    <2> QED BY <1>5, <2>1, EndIInv
  <1>8. CASE c.linkUser # Nobody /\ owner \in {Nobody, c.linkUser}
    <2>1. cb' = [cb EXCEPT ![f] = With(found, c.linkUser, "provider")]
      BY <1>8 DEF FindIdentity, found
    <2> QED BY <1>1, <1>3, <1>6, <1>8, <2>1
  <1>9. CASE c.linkUser = Nobody /\ owner # Nobody
    <2>1. cb' = [cb EXCEPT ![f] = With(found, owner, "upsert")]
      BY <1>9 DEF FindIdentity, found
    <2> QED BY <1>2, <1>6, <1>9, <2>1
  <1>10. CASE c.linkUser = Nobody /\ owner = Nobody
    <2> DEFINE e == [found EXCEPT !.step = "email"]
    <2>1. cb' = [cb EXCEPT ![f] = e]
      BY <1>10 DEF FindIdentity, found
    <2>2. /\ e \in Record /\ e.step = "email" /\ e.saw = owner /\ e.identity = c.identity
          /\ e.linkUser = c.linkUser /\ e.email = c.email /\ e.entitled = c.entitled
          /\ e.creates = c.creates
      BY <1>4 DEF Record
    <2> HIDE DEF e
    <2>3. Knows(e) /\ Decides(e) /\ Fits(f, e)
      BY <1>1, <1>10, <2>2 DEF Knows, Decides, Fits, Decided, Asking
    <2> QED BY <1>5, <2>1, <2>2, <2>3, OwnRecord
  <1> QED BY <1>7, <1>8, <1>9, <1>10

(* A verified email decides the user, if it has one and is not refused.    *)
LEMMA MatchEmailIInv ==
  ASSUME IInv, NEW f \in Callbacks, MatchEmail(f)
  PROVE  IInv'
  <1> DEFINE c == cb[f]
             e == c.email
  <1>1. /\ c \in Record /\ c.step = "email" /\ c.identity \in Identities
        /\ e \in Users /\ c.saw = Nobody /\ ~c.creates
        /\ c.linkUser = Nobody /\ c.entitled = e
    BY DEF IInv, TypeOK, MatchEmail, Knows, Decided, Asking
  <1>2. UNCHANGED <<account, link>>
    BY DEF MatchEmail
  <1>3. CASE account[e] = "absent"
    <2>1. Goto(f, "create")
      BY <1>3 DEF MatchEmail
    <2>2. PICK d \in Record :
             /\ cb' = [cb EXCEPT ![f] = d]
             /\ d.step = "create"
             /\ d.linkUser = Nobody /\ d.identity = c.identity /\ d.email = e
             /\ d.saw = Nobody /\ ~d.creates /\ d.entitled = e
      BY <1>1, <2>1, GotoFields DEF IInv
    <2>3. Knows(d) /\ Decides(d) /\ Fits(f, d)
      BY <1>1, <2>2 DEF Knows, Decides, Fits, Decided, Asking
    <2> QED BY <1>2, <2>2, <2>3, OwnRecord
  <1>4. CASE account[e] = "refused"
    BY <1>2, <1>4, EndIInv DEF MatchEmail
  <1>5. CASE account[e] \notin {"absent", "refused"}
    <2> DEFINE w == With(c, e, "upsert")
    <2>1. cb' = [cb EXCEPT ![f] = w]
      BY <1>1, <1>5 DEF MatchEmail, IInv, TypeOK
    <2>2. /\ w \in Record /\ w.user = e /\ w.step = "upsert"
          /\ w.usable = (account[e] = "usable")
          /\ w.identity = c.identity /\ w.linkUser = Nobody
          /\ w.saw = Nobody /\ w.entitled = e /\ ~w.creates
      BY <1>1, WithFields
    <2> HIDE DEF w
    <2>3. Knows(w) /\ Decides(w) /\ Fits(f, w)
      BY <1>1, <1>5, <2>2 DEF Knows, Decides, Fits, Decided, Asking
    <2> QED BY <1>2, <2>1, <2>2, <2>3, OwnRecord
  <1> QED BY <1>3, <1>4, <1>5

(* A new user is that of one callback only.                                *)
LEMMA CreateUserIInv ==
  ASSUME IInv, NEW f \in Callbacks, CreateUser(f)
  PROVE  IInv'
  <1> DEFINE c == cb[f]
             e == c.email
  <1>1. /\ c \in Record /\ c.step = "create" /\ c.identity \in Identities
        /\ e \in Users /\ c.saw = Nobody /\ ~c.creates
        /\ c.linkUser = Nobody /\ c.entitled = e
    BY DEF IInv, TypeOK, CreateUser, Knows, Decided, Asking
  <1>2. UNCHANGED <<account, link>>
    BY DEF CreateUser
  <1>3. CASE account[e] # "absent"
    BY <1>2, <1>3, EndIInv DEF CreateUser
  <1>4. CASE account[e] = "absent"
    <2> DEFINE w == With(c, e, "upsert")
               d == [w EXCEPT !.creates = TRUE, !.usable = TRUE]
    <2>1. cb' = [cb EXCEPT ![f] = d]
      BY <1>1, <1>4 DEF CreateUser, IInv, TypeOK
    <2>2. /\ w \in Record /\ w.user = e /\ w.step = "upsert"
          /\ w.identity = c.identity /\ w.linkUser = Nobody
          /\ w.saw = Nobody /\ w.entitled = e
      BY <1>1, WithFields
    <2> HIDE DEF w
    <2>3. /\ d \in Record /\ d.user = e /\ d.step = "upsert"
          /\ d.identity = c.identity /\ d.linkUser = Nobody
          /\ d.saw = Nobody /\ d.entitled = e /\ d.creates /\ d.usable
      BY <2>2 DEF Record
    <2> HIDE DEF d
    <2>4. Fits(f, d)
      BY <2>3 DEF CreateUser, Creating, Fits
    <2>5. Knows(d) /\ Decides(d)
      BY <1>1, <1>4, <2>3 DEF Knows, Decides, Decided, Asking
    <2> QED BY <1>2, <2>1, <2>3, <2>4, <2>5, OwnRecord
  <1> QED BY <1>3, <1>4

(* A linked user of a session keeps to the identity it has.                *)
LEMMA FindProviderAccountIInv ==
  ASSUME IInv, NEW f \in Callbacks, FindProviderAccount(f)
  PROVE  IInv'
  <1>1. UNCHANGED <<account, link>> /\ cb[f].step = "provider"
    BY DEF FindProviderAccount
  <1>2. CASE End(f)
    BY <1>1, <1>2, EndIInv
  <1>3. CASE Goto(f, "upsert")
    <2>1. PICK d \in Record :
             /\ cb' = [cb EXCEPT ![f] = d]
             /\ d.step = "upsert"
             /\ d.linkUser = cb[f].linkUser /\ d.identity = cb[f].identity
             /\ d.saw = cb[f].saw /\ d.user = cb[f].user
             /\ d.creates = cb[f].creates /\ d.entitled = cb[f].entitled
             /\ d.usable = cb[f].usable
      BY <1>3, GotoFields DEF IInv
    <2>2. Knows(d) /\ Decides(d) /\ Fits(f, d)
      BY <1>1, <2>1 DEF IInv, Knows, Decides, Fits, Decided, Asking
    <2> QED BY <1>1, <2>1, <2>2, OwnRecord
  <1> QED BY <1>2, <1>3 DEF FindProviderAccount

(* The row that is written has no rival.                                   *)
LEMMA UpsertOAuthAccountIInv ==
  ASSUME IInv, NEW f \in Callbacks, UpsertOAuthAccount(f)
  PROVE  IInv'
  <1> DEFINE c == cb[f]
  <1>1. UNCHANGED <<account, link>> /\ c.step = "upsert"
    BY DEF UpsertOAuthAccount
  <1>2. CASE \E j \in Identities \ {c.identity} : link[j] = c.user
    BY <1>1, <1>2, EndIInv DEF UpsertOAuthAccount
  <1>3. CASE \A j \in Identities \ {c.identity} : link[j] # c.user
    <2>1. Goto(f, "validate")
      BY <1>3 DEF UpsertOAuthAccount
    <2>2. PICK d \in Record :
             /\ cb' = [cb EXCEPT ![f] = d]
             /\ d.step = "validate"
             /\ d.linkUser = c.linkUser /\ d.identity = c.identity
             /\ d.saw = c.saw /\ d.user = c.user
             /\ d.creates = c.creates /\ d.entitled = c.entitled
             /\ d.usable = c.usable
      BY <2>1, GotoFields DEF IInv
    <2>3. ASSUME NEW g \in Callbacks \ {f}, Wrote(g)
          PROVE  c.identity # cb[g].identity /\ c.user # cb[g].user
      BY <2>3 DEF UpsertOAuthAccount, Conflicts
    <2>4. Fits(f, d)
      BY <1>1, <1>3, <2>2, <2>3 DEF IInv, Fits
    <2>5. Knows(d) /\ Decides(d)
      BY <1>1, <2>2 DEF IInv, Knows, Decides, Decided, Asking
    <2> QED BY <1>1, <2>2, <2>4, <2>5, OwnRecord
  <1> QED BY <1>2, <1>3

(* Only a usable user gets past the check.                                 *)
LEMMA CompleteUserAuthenticationIInv ==
  ASSUME IInv, NEW f \in Callbacks, CompleteUserAuthentication(f)
  PROVE  IInv'
  <1> DEFINE c == cb[f]
  <1>1. UNCHANGED <<account, link>> /\ c.step = "validate"
    BY DEF CompleteUserAuthentication
  <1>2. CASE ~(c.creates \/ account[c.user] = "usable")
    BY <1>1, <1>2, EndIInv DEF CompleteUserAuthentication
  <1>3. CASE c.creates \/ account[c.user] = "usable"
    <2>1. Goto(f, "commit")
      BY <1>3 DEF CompleteUserAuthentication
    <2>2. PICK d \in Record :
             /\ cb' = [cb EXCEPT ![f] = d]
             /\ d.step = "commit"
             /\ d.linkUser = c.linkUser /\ d.identity = c.identity
             /\ d.saw = c.saw /\ d.user = c.user
             /\ d.creates = c.creates /\ d.entitled = c.entitled
             /\ d.usable = c.usable
      BY <2>1, GotoFields DEF IInv
    <2>3. Knows(d) /\ Decides(d) /\ Fits(f, d)
      BY <1>1, <1>3, <2>2 DEF IInv, Knows, Decides, Fits, Decided, Asking
    <2> QED BY <1>1, <2>2, <2>3, OwnRecord
  <1> QED BY <1>2, <1>3

-----------------------------------------------------------------------------
(* Steps that change what is committed. *)

(* A user that becomes usable is noticed by the callbacks about it.        *)
LEMMA UsableFields ==
  ASSUME TypeOK, NEW u \in Users, NEW g \in Callbacks
  PROVE  LET d == Usable(u)[g]
         IN  /\ d \in Record
             /\ d.step = cb[g].step /\ d.linkUser = cb[g].linkUser
             /\ d.identity = cb[g].identity /\ d.email = cb[g].email
             /\ d.saw = cb[g].saw /\ d.user = cb[g].user
             /\ d.creates = cb[g].creates /\ d.entitled = cb[g].entitled
             /\ cb[g].usable \/ cb[g].user = u => d.usable
  <1> DEFINE b == cb[g].usable \/ cb[g].user = u
  <1>1. b \in BOOLEAN /\ (cb[g].usable \/ cb[g].user = u => b) /\ cb[g] \in Record
    BY DEF TypeOK
  <1>2. Usable(u)[g] = [cb[g] EXCEPT !.usable = b]
    BY DEF Usable
  <1> HIDE DEF b
  <1> QED BY <1>1, <1>2 DEF Record

(* ... and all of them stay records of callbacks.                          *)
LEMMA UsableType ==
  ASSUME TypeOK, NEW u \in Users
  PROVE  Usable(u) \in [Callbacks -> Record]
  <1>1. Usable(u) = [g \in Callbacks |-> Usable(u)[g]]
    BY DEF Usable
  <1>2. \A g \in Callbacks : Usable(u)[g] \in Record
    BY UsableFields
  <1> QED BY <1>1, <1>2

(* The callbacks stand where they stood, and notice a usable user.         *)
LEMMA StatusIInv ==
  ASSUME IInv, NEW u \in Users, NEW from \in Status, NEW to \in Status \ {"absent"},
         from = "absent" => \A f \in Callbacks : ~Creating(f, u),
         SetAccount(u, from, to)
  PROVE  IInv'
  <1>1. TypeOK /\ link' = link /\ account' \in [Users -> Status]
    BY DEF IInv, TypeOK, SetAccount
  <1>2. \A v \in Users : account'[v] = IF v = u THEN to ELSE account[v]
    BY DEF IInv, TypeOK, SetAccount
  <1>3. cb' \in [Callbacks -> Record]
    BY <1>1, UsableType DEF SetAccount, TypeOK
  <1>4. ASSUME NEW g \in Callbacks
        PROVE  /\ cb'[g].step = cb[g].step /\ cb'[g].linkUser = cb[g].linkUser
               /\ cb'[g].identity = cb[g].identity /\ cb'[g].email = cb[g].email
               /\ cb'[g].saw = cb[g].saw /\ cb'[g].user = cb[g].user
               /\ cb'[g].creates = cb[g].creates /\ cb'[g].entitled = cb[g].entitled
               /\ cb[g].usable => cb'[g].usable
               /\ to = "usable" /\ cb[g].user = u => cb'[g].usable
    <2>1. CASE to = "usable"
      BY <1>1, <2>1, UsableFields DEF SetAccount
    <2>2. CASE to # "usable"
      BY <2>2 DEF SetAccount
    <2> QED BY <2>1, <2>2
  <1>5. TypeOK'
    BY <1>1, <1>2, <1>3 DEF TypeOK
  <1>6. ASSUME NEW g \in Callbacks
        PROVE  Knows(cb[g])'
    <2>1. cb[g] \in Record /\ Knows(cb[g])
      BY <1>1 DEF IInv, TypeOK
    <2>2. cb[g].linkUser \in Users \union {Nobody}
      BY <2>1 DEF Record
    <2> QED BY <1>2, <1>4, <2>1, <2>2 DEF Knows, Decided, Asking
  <1>7. ASSUME NEW g \in Callbacks
        PROVE  Decides(cb[g])'
    <2>1. Knows(cb[g]) /\ Decides(cb[g])
      BY DEF IInv
    <2>2. cb[g].user = u /\ cb[g].creates => from # "absent"
      BY DEF Creating
    <2>3. account[u] = from
      BY DEF SetAccount
    <2> QED BY <1>2, <1>4, <2>1, <2>2, <2>3 DEF Knows, Decides, Decided
  <1>8. ASSUME NEW g \in Callbacks
        PROVE  Fits(g, cb[g])'
    BY <1>1, <1>4 DEF IInv, Fits, Wrote
  <1> QED BY <1>5, <1>6, <1>7, <1>8 DEF IInv

(* The commit makes a callback's rows everyone's, and it is over.          *)
LEMMA CommitIInv ==
  ASSUME IInv, NEW f \in Callbacks, Commit(f)
  PROVE  IInv'
  <1> DEFINE c == cb[f]
             u == c.user
             i == c.identity
  <1>1. /\ TypeOK /\ c \in Record /\ c.step = "commit"
        /\ u \in Users /\ i \in Identities
        /\ c.creates <=> account[u] = "absent"
        /\ \A j \in Identities \ {i} : link[j] # u
    BY DEF Commit, IInv, TypeOK, Knows, Decides, Fits, Decided
  <1>2. ASSUME NEW j \in Identities
        PROVE  link'[j] = IF j = i THEN u ELSE link[j]
    BY <1>1 DEF Commit, TypeOK
  <1>3. /\ link' \in [Identities -> Users \union {Nobody}]
        /\ account' \in [Users -> Status]
        /\ \A v \in Users : IF c.creates /\ v = u THEN account'[v] = "usable"
                                                ELSE account'[v] = account[v]
    <2>1. CASE c.creates
      BY <1>1, <2>1 DEF Commit, TypeOK, Status
    <2>2. CASE ~c.creates
      BY <1>1, <2>2 DEF Commit, TypeOK, Status
    <2> QED BY <2>1, <2>2
  <1>4. ASSUME NEW g \in Callbacks
        PROVE  IF g = f THEN cb'[g] = Idle
               ELSE /\ cb'[g] \in Record
                    /\ cb'[g].step = cb[g].step /\ cb'[g].linkUser = cb[g].linkUser
                    /\ cb'[g].identity = cb[g].identity /\ cb'[g].email = cb[g].email
                    /\ cb'[g].saw = cb[g].saw /\ cb'[g].user = cb[g].user
                    /\ cb'[g].creates = cb[g].creates /\ cb'[g].entitled = cb[g].entitled
                    /\ cb[g].usable => cb'[g].usable
                    /\ c.creates /\ cb[g].user = u => cb'[g].usable
    <2>1. CASE c.creates
      <3>1. cb' = [Usable(u) EXCEPT ![f] = Idle]
        BY <2>1 DEF Commit
      <3>2. Usable(u) \in [Callbacks -> Record]
        BY <1>1, UsableType
      <3>3. IF g = f THEN cb'[g] = Idle ELSE cb'[g] = Usable(u)[g]
        BY <3>1, <3>2
      <3> QED BY <1>1, <3>3, UsableFields
    <2>2. CASE ~c.creates
      BY <1>1, <2>2 DEF Commit, End, TypeOK
    <2> QED BY <2>1, <2>2
  <1>5. cb' \in [Callbacks -> Record]
    <2>1. CASE c.creates
      BY <1>1, <2>1, UsableType, Over DEF Commit
    <2>2. CASE ~c.creates
      BY <1>1, <2>2, Over DEF Commit, End, TypeOK
    <2> QED BY <2>1, <2>2
  <1>6. TypeOK'
    <2>1. ASSUME NEW j \in Identities, NEW k \in Identities, j # k
          PROVE  link'[j] = Nobody \/ link'[j] # link'[k]
      BY <1>1, <1>2, <2>1, FlowAssumption DEF TypeOK
    <2>2. ASSUME NEW j \in Identities, link'[j] # Nobody
          PROVE  account'[link'[j]] # "absent"
      BY <1>1, <1>2, <1>3, <2>2 DEF TypeOK
    <2> QED BY <1>3, <1>5, <2>1, <2>2 DEF TypeOK
  <1>7. ASSUME NEW g \in Callbacks
        PROVE  Knows(cb[g])' /\ Decides(cb[g])'
    <2>1. CASE g = f
      BY <1>4, <2>1, Over DEF Knows, Decides, Decided, Asking
    <2>2. CASE g # f
      <3>1. /\ cb[g].linkUser \in Users \union {Nobody}
            /\ Knows(cb[g]) /\ Decides(cb[g]) /\ Fits(g, cb[g])
        BY DEF IInv, TypeOK, Record
      <3> DEFINE d == cb[g]
                 e == cb'[g]
      <3>0. /\ e.step = d.step /\ e.linkUser = d.linkUser
            /\ e.identity = d.identity /\ e.email = d.email
            /\ e.saw = d.saw /\ e.user = d.user
            /\ e.creates = d.creates /\ e.entitled = d.entitled
            /\ d.usable => e.usable
            /\ c.creates /\ d.user = u => e.usable
        BY <1>4, <2>2
      <3>2. Knows(cb[g])'
        BY <1>3, <3>0, <3>1 DEF Knows, Decided, Asking
      <3>3. c.creates /\ cb[g].creates => cb[g].user # u
        BY <2>2, <3>1 DEF Fits
      <3>4. Decides(cb[g])'
        BY <1>1, <1>3, <3>0, <3>1, <3>3 DEF Decides, Decided
      <3> QED BY <3>2, <3>4
    <2> QED BY <2>1, <2>2
  <1>8. ASSUME NEW g \in Callbacks
        PROVE  Fits(g, cb[g])'
    <2>1. CASE g = f
      BY <1>4, <2>1, Over DEF Fits
    <2>2. CASE g # f
      <3>1. Fits(g, cb[g]) /\ Fits(f, c) /\ ~Wrote(f)' /\ ~cb'[f].creates
        BY <1>4, Over DEF IInv, Wrote
      <3>2. ASSUME cb[g].step \in {"validate", "commit"}
            PROVE  cb[g].identity # i /\ cb[g].user # u
        BY <1>1, <2>2, <3>1, <3>2 DEF Fits, Wrote
      <3>3. ASSUME NEW h \in Callbacks \ {g}, Wrote(h)'
            PROVE  Wrote(h) /\ cb'[h].identity = cb[h].identity /\ cb'[h].user = cb[h].user
        BY <1>4, <3>1, <3>3 DEF Wrote
      <3>4. ASSUME NEW h \in Callbacks \ {g}, cb'[h].creates
            PROVE  cb[h].creates /\ cb'[h].user = cb[h].user
        BY <1>4, <3>1, <3>4
      <3> QED BY <1>2, <1>4, <2>2, <3>1, <3>2, <3>3, <3>4 DEF Fits
    <2> QED BY <2>1, <2>2
  <1> QED BY <1>6, <1>7, <1>8 DEF IInv

-----------------------------------------------------------------------------

(* Every step preserves the inductive invariant.                           *)
LEMMA NextIInv == IInv /\ [Next]_vars => IInv'
  <1> SUFFICES ASSUME IInv, [Next]_vars
               PROVE  IInv'
    OBVIOUS
  <1>1. ASSUME NEW f \in Callbacks, NEW k \in Users \union {Nobody}, Callback(f, k)
        PROVE  IInv'
    BY <1>1, CallbackIInv
  <1>2. ASSUME NEW f \in Callbacks, Step(f)
        PROVE  IInv'
    BY <1>2, FetchProfileIInv, FindIdentityIInv, MatchEmailIInv, CreateUserIInv,
       FindProviderAccountIInv, UpsertOAuthAccountIInv, CompleteUserAuthenticationIInv,
       CommitIInv DEF Step
  <1>3. ASSUME NEW f \in Callbacks, Abort(f)
        PROVE  IInv'
    BY <1>3, EndIInv DEF Abort
  <1>4. ASSUME NEW u \in Users, Register(u) \/ VerifyEmail(u) \/ Refuse(u) \/ Restore(u)
        PROVE  IInv'
    <2>1. {"absent", "unverified", "usable", "refused"} = Status
      BY DEF Status
    <2>2. CASE Register(u)
      BY <2>1, <2>2, StatusIInv DEF Register
    <2>3. CASE VerifyEmail(u)
      BY <2>1, <2>3, StatusIInv DEF VerifyEmail
    <2>4. CASE Refuse(u)
      BY <2>1, <2>4, StatusIInv DEF Refuse
    <2>5. CASE Restore(u)
      BY <2>1, <2>5, StatusIInv DEF Restore
    <2> QED BY <1>4, <2>2, <2>3, <2>4, <2>5
  <1>5. CASE UNCHANGED vars
    BY <1>5 DEF vars, IInv, TypeOK, Knows, Decides, Fits, Wrote, Decided, Asking
  <1> QED BY <1>1, <1>2, <1>3, <1>4, <1>5 DEF Next

(* IInv holds throughout.                                                  *)
THEOREM Invariance == Spec => []IInv
  <1>1. Init => IInv
    BY InitIInv
  <1>2. IInv /\ [Next]_vars => IInv'
    BY NextIInv
  <1> QED BY <1>1, <1>2, PTL DEF Spec

(* Both UNIQUE constraints hold, and a linked user exists                  *)
(* (UpsertOAuthAccount).                                                   *)
THEOREM Types == Spec => []TypeOK
  <1>1. IInv => TypeOK
    BY DEF IInv
  <1> QED BY <1>1, Invariance, PTL

(* No user is served who was at no time usable while the callback was      *)
(* about it (completeUserAuthentication).                                  *)
THEOREM Serving == Spec => []UnusableNotServed
  <1>1. IInv => UnusableNotServed
    BY DEF IInv, Decides, Decided, UnusableNotServed
  <1> QED BY <1>1, Invariance, PTL

-----------------------------------------------------------------------------
(* What a commit writes. *)

(* A link is written by a commit, for the user its callback is about.      *)
LEMMA Linked ==
  ASSUME IInv, [Next]_vars, NEW i \in Identities, link'[i] # link[i]
  PROVE  \E f \in Callbacks : /\ cb[f].step = "commit" /\ cb[f].identity = i
                              /\ link'[i] = cb[f].user /\ Decides(cb[f])
  <1>1. PICK f \in Callbacks : Commit(f)
    BY DEF Next, Step, Callback, FetchProfile, FindIdentity, MatchEmail, CreateUser,
           FindProviderAccount, UpsertOAuthAccount, CompleteUserAuthentication,
           Abort, Register, VerifyEmail, Refuse, Restore, SetAccount, vars
  <1>2. cb[f].step = "commit" /\ link' = [link EXCEPT ![cb[f].identity] = cb[f].user]
    BY <1>1 DEF Commit
  <1>3. link \in [Identities -> Users \union {Nobody}] /\ Decides(cb[f])
    BY DEF IInv, TypeOK
  <1>4. cb[f].identity = i /\ link'[i] = cb[f].user
    BY <1>2, <1>3
  <1> QED BY <1>2, <1>3, <1>4

(* An identity goes to the user who asked for it or whose email came with  *)
(* it, or to the one it was found to belong to                             *)
(* (CompleteOAuthAuthentication).                                          *)
THEOREM Entitlement == Spec => OwnerEntitled
  <1>1. ASSUME IInv, [Next]_vars, NEW i \in Identities, link'[i] # link[i]
        PROVE  \E f \in Callbacks : /\ cb[f].step = "commit"
                                    /\ cb[f].identity = i
                                    /\ link'[i] \in {cb[f].entitled, cb[f].saw} \ {Nobody}
    <2>1. PICK f \in Callbacks : /\ cb[f].step = "commit" /\ cb[f].identity = i
                                 /\ link'[i] = cb[f].user /\ Decides(cb[f])
      BY <1>1, Linked
    <2>2. cb[f].user \in Users /\ cb[f].user \in {cb[f].entitled, cb[f].saw}
      BY <2>1 DEF Decides, Decided
    <2> QED BY <2>1, <2>2, FlowAssumption
  <1>2. IInv /\ [Next]_vars
          => [\A i \in Identities :
                link'[i] # link[i] =>
                    \E f \in Callbacks : /\ cb[f].step = "commit"
                                         /\ cb[f].identity = i
                                         /\ link'[i] \in {cb[f].entitled, cb[f].saw} \ {Nobody}]_vars
    BY <1>1
  <1> QED BY <1>2, Invariance, PTL DEF Spec, OwnerEntitled

(* A link is moved only by a callback that looked the identity up before   *)
(* it was linked to that user (ErrOAuthConflict).                          *)
THEOREM Moving == Spec => MovedOnlyByOverlap
  <1>1. ASSUME IInv, [Next]_vars, NEW i \in Identities, link[i] # Nobody, link'[i] # link[i]
        PROVE  \E f \in Callbacks : /\ cb[f].step = "commit"
                                    /\ cb[f].identity = i
                                    /\ cb[f].saw # link[i]
    <2>1. PICK f \in Callbacks : /\ cb[f].step = "commit" /\ cb[f].identity = i
                                 /\ link'[i] = cb[f].user /\ Decides(cb[f])
      BY <1>1, Linked
    <2>2. cb[f].saw # Nobody => cb[f].user = cb[f].saw
      BY <2>1 DEF Decides, Decided
    <2> QED BY <1>1, <2>1, <2>2
  <1>2. IInv /\ [Next]_vars
          => [\A i \in Identities :
                link[i] # Nobody /\ link'[i] # link[i] =>
                    \E f \in Callbacks : /\ cb[f].step = "commit"
                                         /\ cb[f].identity = i
                                         /\ cb[f].saw # link[i]]_vars
    BY <1>1
  <1> QED BY <1>2, Invariance, PTL DEF Spec, MovedOnlyByOverlap
=============================================================================
