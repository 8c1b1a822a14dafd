----------------------- MODULE BrowserSessionsProofs -----------------------
(***************************************************************************)
(* Proofs about BrowserSessions, for every set of users, tokens, flows and *)
(* requests and every bound of auth_version.  IInv is inductive; what the  *)
(* run checks follows from it.                                             *)
(***************************************************************************)
EXTENDS BrowserSessions, TLAPS

(* The sessions and the request that hold nothing.                         *)
LEMMA Blank ==
  /\ Empty \in Session /\ Empty.user = None /\ Empty.flow = None
  /\ NoSession \in Session /\ NoSession.user = None /\ NoSession.flow = None
  /\ Empty # NoSession
  /\ Idle \in Sent /\ Idle.step = "idle" /\ Idle.token = None /\ Idle.data = Empty
  /\ Idle.flow = None /\ Idle.acts = None /\ Idle.save = FALSE
  BY SessionAssumption DEF Empty, NoSession, Session, Idle, Sent, Kinds

(* The initial states satisfy the inductive invariant.                     *)
LEMMA InitIInv == Init => IInv
  <1> SUFFICES ASSUME Init PROVE IInv
    OBVIOUS
  <1>1. TypeOK
    BY Blank, SessionAssumption DEF Init, TypeOK
  <1>2. \A r \in Requests : req[r] = Idle /\ ~Going(req[r])
    BY Blank DEF Init, Going
  <1>3. \A r \in Requests : CopyOf(req[r]) /\ ActsRight(req[r])
    BY <1>2, Blank DEF CopyOf, ActsRight
  <1>4. \A t \in Tokens : SavedFor(t) /\ LoggedOut(t)
    BY DEF Init, SavedFor, LoggedOut
  <1>5. \A f \in Flows : Unstarted(f) /\ InOnePlace(f) /\ TakenOut(f)
    BY <1>2, Blank, SessionAssumption DEF Init, Unstarted, InOnePlace, TakenOut, Carries
  <1> QED BY <1>1, <1>3, <1>4, <1>5 DEF IInv

-----------------------------------------------------------------------------
(* Steps of one request that saves nothing. *)

\* The store, with or without the row that request r has loaded
After(r, D) ==
    [t \in Tokens |-> IF D /\ t = req[r].token THEN NoSession ELSE store[t]]

(* A handler goes on with the record q; it may have its row deleted, log   *)
(* its token out, start a flow, or take one out of its copy.               *)
LEMMA HandlerIInv ==
  ASSUME IInv, NEW r \in Requests, NEW q \in Sent, NEW D \in BOOLEAN,
         q.data.user # None => q.data.version \in 1..MaxVersion,
         CopyOf(q), ActsRight(q),
         Going(q) => Going(req[r]) /\ (q.token = req[r].token \/ (D /\ q.token = None)),
         req' = [req EXCEPT ![r] = q],
         store' = After(r, D),
         cookie' \in Tokens \union {None},
         UNCHANGED <<version, bearer>>,
         out' \in [Tokens -> {"no", "alone", "overlapped"}],
         \A t \in Tokens :
            out'[t] = "alone" =>
               \/ out[t] = "alone"
               \/ /\ D /\ t = req[r].token /\ Going(req[r]) /\ ~Going(q)
                  /\ ~Overlapped(r, t),
         flowUser' \in [Flows -> Users \union {None, "fresh"}],
         \A f \in Flows : flowUser'[f] = "fresh" => flowUser[f] = "fresh" /\ ~Carries(q, f),
         \A f \in Flows :
            Going(q) /\ q.data.flow = f =>
               req[r].data.flow = f \/ flowUser[f] = "fresh",
         \A f \in Flows : Going(q) /\ q.flow = f => Carries(req[r], f),
         spent' \subseteq Flows,
         \A f \in spent' \ spent :
            Going(q) /\ ~D /\ q.flow = f /\ q.data.flow # f /\ Carries(req[r], f),
         shared \subseteq shared', shared' \subseteq Flows,
         \A f \in Flows \ shared' :
            Going(req[r]) /\ req[r].flow = f => Going(q) /\ q.flow = f
  PROVE  IInv'
  <1>1. \A s \in Requests : req'[s] = IF s = r THEN q ELSE req[s]
    BY DEF IInv, TypeOK
  <1>2. \A t \in Tokens : store'[t] = IF D /\ t = req[r].token THEN NoSession ELSE store[t]
    BY DEF After
  <1>3. TypeOK'
    <2>1. store' \in [Tokens -> Session]
      BY Blank DEF After, IInv, TypeOK
    <2>2. req' \in [Requests -> Sent]
      BY DEF IInv, TypeOK
    <2>3. \A t \in Tokens : bearer'[t] = "fresh" => store'[t] = NoSession
      BY <1>2 DEF IInv, TypeOK
    <2>4. \A s \in Requests : req'[s].data.user # None => req'[s].data.version \in 1..MaxVersion
      BY <1>1 DEF IInv, TypeOK
    <2> QED BY <2>1, <2>2, <2>3, <2>4 DEF IInv, TypeOK
  <1>4. \A s \in Requests : CopyOf(req[s])' /\ ActsRight(req[s])'
    BY <1>1 DEF IInv, CopyOf, ActsRight
  <1>5. \A t \in Tokens : SavedFor(t)'
    BY <1>2 DEF IInv, SavedFor
  <1>6. ASSUME NEW t \in Tokens, out'[t] = "alone"
        PROVE  /\ store'[t] = NoSession /\ bearer'[t] # "fresh"
               /\ \A s \in Requests : Going(req'[s]) => req'[s].token # t
    <2>1. CASE out[t] = "alone"
      <3>1. /\ store[t] = NoSession /\ bearer[t] # "fresh"
            /\ \A s \in Requests : Going(req[s]) => req[s].token # t
        BY <2>1 DEF IInv, LoggedOut
      <3>2. Going(q) => q.token # t
        <4>1. Going(q) /\ q.token # None => Going(req[r]) /\ q.token = req[r].token
          BY <3>1
        <4> QED BY <3>1, <4>1, SessionAssumption
      <3> QED BY <1>1, <1>2, <3>1, <3>2
    <2>2. CASE out[t] # "alone"
      <3>1. D /\ t = req[r].token /\ Going(req[r]) /\ ~Going(q) /\ ~Overlapped(r, t)
        BY <1>6, <2>2
      <3>2. bearer[t] # "fresh"
        <4>1. req[r].data.user = bearer[t] /\ req[r].data.user \in Users \union {None}
          BY <3>1, SessionAssumption DEF IInv, TypeOK, CopyOf, Sent, Session
        <4> QED BY <4>1, SessionAssumption
      <3>3. \A s \in Requests \ {r} : Going(req[s]) => req[s].token # t
        BY <3>1 DEF Overlapped, InFlight, Going
      <3>4. store'[t] = NoSession
        BY <1>2, <3>1
      <3>5. ASSUME NEW s \in Requests, Going(req'[s])
            PROVE  req'[s].token # t
        <4>1. s # r
          BY <1>1, <3>1, <3>5
        <4> QED BY <1>1, <3>3, <3>5, <4>1
      <3> QED BY <3>2, <3>4, <3>5
    <2> QED BY <2>1, <2>2
  <1>7. \A t \in Tokens : LoggedOut(t)'
    BY <1>6 DEF LoggedOut
  <1>8. ASSUME NEW f \in Flows
        PROVE  /\ Unstarted(f)' /\ InOnePlace(f)' /\ TakenOut(f)'
    <2>1. Unstarted(f) /\ InOnePlace(f) /\ TakenOut(f) /\ f # None
      BY SessionAssumption DEF IInv
    <2>2. \A t \in Tokens : store'[t].flow = f =>
                               store'[t] = store[t] /\ store[t].flow = f /\ ~(D /\ t = req[r].token)
      BY <1>2, <2>1, Blank
    <2>3. Carries(q, f) => Carries(req[r], f) \/ flowUser[f] = "fresh"
      BY DEF Carries
    <2>4. \A s \in Requests : req'[s] = q \/ req'[s] = req[s]
      BY <1>1
    <2>5. Unstarted(f)'
      <3> SUFFICES ASSUME flowUser'[f] = "fresh"
                   PROVE  /\ f \notin spent'
                          /\ \A s \in Requests : ~Carries(req'[s], f)
                          /\ \A t \in Tokens : store'[t].flow # f
        BY DEF Unstarted, Carries, Going
      <3>1. flowUser[f] = "fresh" /\ ~Carries(q, f)
        OBVIOUS
      <3>2. /\ f \notin spent
            /\ \A s \in Requests : ~Carries(req[s], f)
            /\ \A t \in Tokens : store[t].flow # f
        BY <2>1, <3>1 DEF Unstarted
      <3> QED BY <2>2, <2>4, <3>1, <3>2
    <2>6. InOnePlace(f)'
      <3> SUFFICES ASSUME f \notin shared'
                   PROVE  /\ \A s, p \in Requests :
                                Carries(req'[s], f) /\ Carries(req'[p], f) => s = p
                          /\ \A s \in Requests, t \in Tokens :
                                Carries(req'[s], f) /\ store'[t].flow = f => req'[s].token = t
                          /\ \A t, x \in Tokens : store'[t].flow = f /\ store'[x].flow = f => t = x
        BY DEF InOnePlace, Carries, Going
      <3>1. /\ \A s, p \in Requests : Carries(req[s], f) /\ Carries(req[p], f) => s = p
            /\ \A s \in Requests, t \in Tokens :
                  Carries(req[s], f) /\ store[t].flow = f => req[s].token = t
            /\ \A t, x \in Tokens : store[t].flow = f /\ store[x].flow = f => t = x
        BY <2>1 DEF InOnePlace
      <3>2. flowUser[f] = "fresh" => /\ \A s \in Requests : ~Carries(req[s], f)
                                     /\ \A t \in Tokens : store[t].flow # f
        BY <2>1 DEF Unstarted
      <3>3. \A s \in Requests \ {r} : Carries(req[s], f) => ~Carries(q, f)
        BY <2>3, <3>1, <3>2
      <3>4. ASSUME NEW t \in Tokens, Carries(q, f), store'[t].flow = f
            PROVE  q.token = t
        <4>1. Carries(req[r], f) /\ store[t].flow = f /\ ~(D /\ t = req[r].token)
          BY <2>2, <2>3, <3>2, <3>4
        <4>2. req[r].token = t /\ Going(q)
          BY <3>1, <3>4, <4>1 DEF Carries
        <4> QED BY <4>1, <4>2
      <3> QED BY <1>1, <2>2, <3>1, <3>3, <3>4
    <2>7. TakenOut(f)'
      <3> SUFFICES ASSUME f \in spent', f \notin shared'
                   PROVE  /\ \A s \in Requests : Going(req'[s]) => req'[s].data.flow # f
                          /\ \A t \in Tokens : store'[t].flow = f =>
                                \E s \in Requests :
                                   Going(req'[s]) /\ req'[s].flow = f /\ req'[s].token = t
        BY DEF TakenOut, Going
      <3>1. f \notin shared
        OBVIOUS
      <3>2. CASE f \in spent
        <4>1. /\ \A s \in Requests : Going(req[s]) => req[s].data.flow # f
              /\ \A t \in Tokens : store[t].flow = f =>
                    \E s \in Requests : Going(req[s]) /\ req[s].flow = f /\ req[s].token = t
              /\ flowUser[f] # "fresh"
          BY <2>1, <3>1, <3>2 DEF TakenOut, Unstarted
        <4>2. Going(q) => q.data.flow # f
          BY <4>1
        <4>3. ASSUME NEW t \in Tokens, store'[t].flow = f
              PROVE  \E s \in Requests :
                        Going(req'[s]) /\ req'[s].flow = f /\ req'[s].token = t
          <5>1. store[t].flow = f /\ ~(D /\ t = req[r].token)
            BY <2>2, <4>3
          <5>2. PICK s \in Requests : Going(req[s]) /\ req[s].flow = f /\ req[s].token = t
            BY <4>1, <5>1
          <5>3. CASE s = r
            <6>1. Going(q) /\ q.flow = f
              BY <5>2, <5>3
            <6>2. q.token = t
              BY <5>1, <5>2, <5>3, <6>1
            <6> QED BY <1>1, <6>1, <6>2
          <5> QED BY <1>1, <5>2, <5>3
        <4> QED BY <2>4, <4>1, <4>2, <4>3
      <3>3. CASE f \notin spent
        <4>1. Going(q) /\ ~D /\ q.flow = f /\ q.data.flow # f /\ Carries(req[r], f)
          BY <3>3
        <4>2. q.token = req[r].token
          BY <4>1
        <4>3. \A s \in Requests \ {r} : Going(req[s]) => req[s].data.flow # f
          BY <2>1, <3>1, <4>1 DEF InOnePlace, Carries
        <4>4. \A t \in Tokens : store'[t].flow = f => q.token = t
          BY <2>1, <2>2, <3>1, <4>1, <4>2 DEF InOnePlace
        <4> QED BY <1>1, <4>1, <4>3, <4>4
      <3> QED BY <3>2, <3>3
    <2> QED BY <2>5, <2>6, <2>7
  <1> QED BY <1>3, <1>4, <1>5, <1>7, <1>8 DEF IInv

(* A step that is about no flow, unless it drops the one of the copy.      *)
LEMMA QuietIInv ==
  ASSUME IInv, NEW r \in Requests, NEW q \in Sent, NEW D \in BOOLEAN,
         q.data.user # None => q.data.version \in 1..MaxVersion,
         CopyOf(q), ActsRight(q),
         Going(q) => /\ Going(req[r]) /\ (q.token = req[r].token \/ (D /\ q.token = None))
                     /\ q.data.flow \in {req[r].data.flow, None}
                     /\ q.flow = req[r].flow,
         ~Going(q) => ~Going(req[r]) \/ req[r].flow = None,
         req' = [req EXCEPT ![r] = q],
         store' = After(r, D),
         cookie' \in Tokens \union {None},
         UNCHANGED <<version, bearer, flowUser, out, spent, shared>>
  PROVE  IInv'
  <1>1. \A f \in Flows : f # None
    BY SessionAssumption
  <1>2. /\ out' \in [Tokens -> {"no", "alone", "overlapped"}] /\ out' = out
        /\ flowUser' \in [Flows -> Users \union {None, "fresh"}] /\ flowUser' = flowUser
        /\ spent' \subseteq Flows /\ spent' = spent /\ shared' \subseteq Flows /\ shared' = shared
        /\ UNCHANGED <<version, bearer>>
    BY DEF IInv, TypeOK
  <1>3. \A f \in Flows : Going(q) /\ q.data.flow = f => req[r].data.flow = f
    BY <1>1
  <1>4. \A f \in Flows : Going(q) /\ q.flow = f => Carries(req[r], f)
    BY DEF Carries
  <1>5. \A f \in Flows : flowUser[f] = "fresh" => ~Carries(q, f)
    <2>1. \A f \in Flows : flowUser[f] = "fresh" => ~Carries(req[r], f)
      BY DEF IInv, Unstarted
    <2>2. \A f \in Flows : Carries(q, f) => Carries(req[r], f)
      BY <1>3, <1>4 DEF Carries
    <2> QED BY <2>1, <2>2
  <1>6. \A f \in Flows : Going(req[r]) /\ req[r].flow = f => Going(q) /\ q.flow = f
    BY <1>1
  <1>7. Going(q) => Going(req[r]) /\ (q.token = req[r].token \/ (D /\ q.token = None))
    OBVIOUS
  <1> QED BY <1>2, <1>3, <1>4, <1>5, <1>6, <1>7, HandlerIInv

(* What is done to the store, for the request's own row.                   *)
LEMMA RowOf ==
  ASSUME IInv, NEW r \in Requests
  PROVE  /\ Delete(req[r].token) => store' = After(r, TRUE)
         /\ UNCHANGED store => store' = After(r, FALSE)
  BY SessionAssumption DEF IInv, TypeOK, Sent, Delete, After

(* A request's record is of the type, and as IInv says.                    *)
LEMMA Mine ==
  ASSUME IInv, NEW r \in Requests
  PROVE  /\ req[r] \in Sent /\ cookie \in Tokens \union {None}
         /\ req[r].data.user # None => req[r].data.version \in 1..MaxVersion
         /\ CopyOf(req[r]) /\ ActsRight(req[r])
  BY DEF IInv, TypeOK

(* Sessions.Destroy, when no flow has been taken out of the copy.          *)
LEMMA DestroyIInv ==
  ASSUME IInv, NEW r \in Requests, req[r].flow = None, Destroy(r),
         UNCHANGED <<cookie, version, bearer, flowUser, out, spent, shared>>
  PROVE  IInv'
  <1> DEFINE q == [Idle EXCEPT !.step = "saved"]
  <1>1. /\ q \in Sent /\ q.step = "saved" /\ q.data = Empty /\ q.flow = None /\ q.acts = None
    BY Blank DEF Sent
  <1>2. req' = [req EXCEPT ![r] = q] /\ Delete(req[r].token)
    BY DEF Destroy
  <1> HIDE DEF q
  <1>3. ~Going(q) /\ CopyOf(q) /\ ActsRight(q) /\ q.data.user = None
    BY <1>1, Blank DEF Going, CopyOf, ActsRight
  <1>4. store' = After(r, TRUE) /\ cookie' \in Tokens \union {None}
    BY <1>2, RowOf, Mine
  <1> QED BY <1>1, <1>2, <1>3, <1>4, QuietIInv

(* An answer without any Put or Remove.                                    *)
LEMMA RefuseIInv ==
  ASSUME IInv, NEW r \in Requests, Going(req[r]), Refuse(r),
         UNCHANGED <<cookie, version, bearer, flowUser, out, spent, shared>>
  PROVE  IInv'
  <1> DEFINE q == [req[r] EXCEPT !.step = "answer", !.kind = "page", !.acts = None]
  <1>1. req[r] \in Sent /\ CopyOf(req[r])
    BY Mine
  <1>2. /\ q \in Sent /\ q.step = "answer" /\ q.acts = None /\ q.token = req[r].token
        /\ q.data = req[r].data /\ q.flow = req[r].flow /\ q.save = req[r].save
    BY <1>1 DEF Sent, Kinds
  <1>3. req' = [req EXCEPT ![r] = q] /\ UNCHANGED store
    BY DEF Refuse
  <1> HIDE DEF q
  <1>4. Going(q) /\ CopyOf(q) /\ ActsRight(q)
    BY <1>1, <1>2 DEF Going, CopyOf, ActsRight
  <1>5. store' = After(r, FALSE) /\ cookie' \in Tokens \union {None}
    BY <1>3, RowOf, Mine
  <1>6. q.data.user # None => q.data.version \in 1..MaxVersion
    BY <1>2, Mine
  <1> QED BY <1>2, <1>3, <1>4, <1>5, <1>6, QuietIInv

(* completeLogin: the user changes, and the token with it.                 *)
LEMMA CompleteLoginIInv ==
  ASSUME IInv, NEW r \in Requests, NEW v \in Users, Going(req[r]),
         CompleteLogin(r, req[r], v),
         UNCHANGED <<cookie, version, bearer, flowUser, out, spent, shared>>
  PROVE  IInv'
  <1> DEFINE d == Principal(req[r].data, v)
             p == [req[r] EXCEPT !.token = None, !.acts = None, !.data = Principal(@, v)]
             q == [p EXCEPT !.step = "answer", !.save = TRUE, !.kind = "page"]
  <1>1. req[r] \in Sent /\ version[v] \in 1..MaxVersion
    BY Mine DEF IInv, TypeOK
  <1>2. /\ d \in Session /\ d.user = v /\ d.version = version[v] /\ d.flow = req[r].data.flow
    <2>1. req[r].data \in Session /\ version[v] \in 0..MaxVersion + 1
      BY <1>1, SessionAssumption DEF Sent
    <2> QED BY <2>1 DEF Session, Principal
  <1>3. req' = [req EXCEPT ![r] = q] /\ Delete(req[r].token)
    BY DEF CompleteLogin, Answer
  <1>4. q = [req[r] EXCEPT !.token = None, !.acts = None, !.data = d,
                           !.step = "answer", !.save = TRUE, !.kind = "page"]
    BY <1>1 DEF Sent
  <1> HIDE DEF d, p, q
  <1>5. /\ q \in Sent /\ q.step = "answer" /\ q.acts = None /\ q.token = None
        /\ q.data = d /\ q.flow = req[r].flow /\ q.save = TRUE
    BY <1>1, <1>2, <1>4 DEF Sent, Kinds
  <1>6. Going(q) /\ CopyOf(q) /\ ActsRight(q)
    BY <1>5 DEF Going, CopyOf, ActsRight
  <1>7. store' = After(r, TRUE) /\ cookie' \in Tokens \union {None}
    BY <1>3, RowOf, Mine
  <1>8. q.data.user # None => q.data.version \in 1..MaxVersion
    BY <1>1, <1>2, <1>5
  <1>9. q.data.flow = req[r].data.flow
    BY <1>2, <1>5
  <1> QED BY <1>3, <1>5, <1>6, <1>7, <1>8, <1>9, QuietIInv

-----------------------------------------------------------------------------
(* The handlers. *)

(* A handler that fails to validate or to destroy its session.             *)
LEMMA FailIInv ==
  ASSUME IInv, NEW r \in Requests, Fail(r)
  PROVE  IInv'
  <1> DEFINE d == [req[r].data EXCEPT !.flow = IF req[r].kind = "callback" THEN None ELSE @]
             q == [req[r] EXCEPT !.step = "answer", !.kind = "page", !.data = d]
  <1>1. /\ req[r] \in Sent /\ CopyOf(req[r]) /\ req[r].step = "loaded"
        /\ Going(req[r]) /\ req[r].flow = None /\ req[r].acts = None
    BY Mine DEF Fail, CopyOf, Going
  <1>2. /\ d \in Session /\ d.user = req[r].data.user /\ d.version = req[r].data.version
        /\ d.flow \in {req[r].data.flow, None}
    <2>1. req[r].data \in Session
      BY <1>1 DEF Sent
    <2> QED BY <2>1 DEF Session
  <1>3. /\ req' = [req EXCEPT ![r] = q]
        /\ UNCHANGED <<store, cookie, version, bearer, flowUser, out, spent, shared>>
    BY <1>1 DEF Fail, Sent
  <1>4. store' = After(r, FALSE) /\ cookie' \in Tokens \union {None}
    BY <1>3, RowOf, Mine
  <1> HIDE DEF d
  <1>5. /\ q \in Sent /\ q.step = "answer" /\ q.acts = None /\ q.token = req[r].token
        /\ q.data = d /\ q.flow = None /\ q.save = req[r].save
    BY <1>1, <1>2 DEF Sent, Kinds
  <1> HIDE DEF q
  <1>6. Going(q) /\ CopyOf(q) /\ ActsRight(q)
    BY <1>1, <1>2, <1>5 DEF Going, CopyOf, ActsRight
  <1>7. q.data.user # None => q.data.version \in 1..MaxVersion
    BY <1>2, <1>5, Mine
  <1>8. q.data.flow \in {req[r].data.flow, None} /\ q.flow = req[r].flow
    BY <1>1, <1>2, <1>5
  <1> QED BY <1>1, <1>3, <1>4, <1>5, <1>6, <1>7, <1>8, QuietIInv

(* A page: the handler works for the user of a session that is valid.      *)
LEMMA PageIInv ==
  ASSUME IInv, NEW r \in Requests, Page(r)
  PROVE  IInv'
  <1>1. /\ req[r] \in Sent /\ CopyOf(req[r]) /\ req[r].step = "loaded"
        /\ Going(req[r]) /\ req[r].flow = None
    BY Mine DEF Page, CopyOf, Going
  <1>2. UNCHANGED <<cookie, version, bearer, flowUser, out, spent, shared>>
    BY DEF Page
  <1>3. CASE Refuse(r)
    BY <1>1, <1>2, <1>3, RefuseIInv
  <1>4. CASE Destroy(r)
    BY <1>1, <1>2, <1>4, DestroyIInv
  <1>5. CASE /\ Valid(req[r].data) /\ UNCHANGED store
             /\ req' = [req EXCEPT ![r].step = "answer", ![r].acts = req[r].data.user]
    <2> DEFINE q == [req[r] EXCEPT !.step = "answer", !.acts = req[r].data.user]
    <2>1. req[r].data.user \in Users \union {None}
      BY <1>1 DEF Sent, Session
    <2>2. /\ q \in Sent /\ q.step = "answer" /\ q.acts = q.data.user /\ q.token = req[r].token
          /\ q.data = req[r].data /\ q.flow = req[r].flow /\ q.save = req[r].save
      BY <1>1, <2>1 DEF Sent
    <2>3. req' = [req EXCEPT ![r] = q] /\ store' = After(r, FALSE) /\ cookie' \in Tokens \union {None}
      BY <1>2, <1>5, RowOf, Mine
    <2> HIDE DEF q
    <2>4. Going(q) /\ CopyOf(q) /\ ActsRight(q)
      BY <1>1, <1>5, <2>2 DEF Going, CopyOf, ActsRight, Valid
    <2>5. q.data.user # None => q.data.version \in 1..MaxVersion
      BY <2>2, Mine
    <2> QED BY <1>1, <1>2, <2>2, <2>3, <2>4, <2>5, QuietIInv
  <1>6. Refuse(r) \/ Destroy(r) \/
        (/\ Valid(req[r].data) /\ UNCHANGED store
         /\ req' = [req EXCEPT ![r].step = "answer", ![r].acts = req[r].data.user])
    BY DEF Page
  <1> QED BY <1>3, <1>4, <1>5, <1>6

(* A logout: with no other copy about, nobody has the token from now on.   *)
LEMMA LogoutIInv ==
  ASSUME IInv, NEW r \in Requests, Logout(r)
  PROVE  IInv'
  <1>1. /\ req[r] \in Sent /\ CopyOf(req[r]) /\ req[r].step = "loaded"
        /\ Going(req[r]) /\ req[r].flow = None
    BY Mine DEF Logout, CopyOf, Going
  <1>2. UNCHANGED <<cookie, version, bearer, flowUser, spent, shared>>
    BY DEF Logout
  <1>3. CASE req[r].data.user = None
    BY <1>1, <1>2, <1>3, RefuseIInv DEF Logout
  <1>4. CASE req[r].data.user # None
    <2> DEFINE q == [Idle EXCEPT !.step = "saved"]
               w == IF Overlapped(r, req[r].token) THEN "overlapped" ELSE "alone"
    <2>1. /\ q \in Sent /\ q.step = "saved" /\ q.data = Empty /\ q.flow = None /\ q.acts = None
      BY Blank DEF Sent
    <2>2. /\ req' = [req EXCEPT ![r] = q] /\ Delete(req[r].token)
          /\ out' = [out EXCEPT ![req[r].token] = w]
      BY <1>4 DEF Logout, Destroy
    <2>3. out' \in [Tokens -> {"no", "alone", "overlapped"}]
      BY <2>2 DEF IInv, TypeOK
    <2>4. \A t \in Tokens :
             out'[t] = "alone" => out[t] = "alone" \/ (t = req[r].token /\ ~Overlapped(r, t))
      BY <2>2 DEF IInv, TypeOK
    <2> HIDE DEF q, w
    <2>5. ~Going(q) /\ CopyOf(q) /\ ActsRight(q) /\ q.data.user = None
      BY <2>1, Blank DEF Going, CopyOf, ActsRight
    <2>6. store' = After(r, TRUE) /\ cookie' \in Tokens \union {None}
      BY <1>2, <2>2, RowOf, Mine
    <2>7. /\ flowUser' \in [Flows -> Users \union {None, "fresh"}] /\ flowUser' = flowUser
          /\ spent' \subseteq Flows /\ spent' = spent /\ shared' \subseteq Flows /\ shared' = shared
          /\ UNCHANGED <<version, bearer>>
      BY <1>2 DEF IInv, TypeOK
    <2>8. \A f \in Flows : flowUser'[f] = "fresh" => flowUser[f] = "fresh" /\ ~Carries(q, f)
      BY <2>5, <2>7 DEF Carries
    <2>9. \A f \in Flows : req[r].flow # f
      BY <1>1, SessionAssumption
    <2> QED BY <1>1, <2>1, <2>2, <2>3, <2>4, <2>5, <2>6, <2>7, <2>8, <2>9, HandlerIInv
  <1> QED BY <1>3, <1>4

(* A login, with the password or a passkey, and one that is refused.       *)
LEMMA LoginIInv ==
  ASSUME IInv, NEW r \in Requests, NEW v \in Users, Login(r, v)
  PROVE  IInv'
  <1>1. Going(req[r])
    BY DEF Login, Going
  <1> QED BY <1>1, CompleteLoginIInv DEF Login

LEMMA LoginRefusedIInv ==
  ASSUME IInv, NEW r \in Requests, LoginRefused(r)
  PROVE  IInv'
  <1>1. Going(req[r])
    BY DEF LoginRefused, Going
  <1> QED BY <1>1, RefuseIInv DEF LoginRefused

(* A flow starts: the copy carries it, and nothing else does.              *)
LEMMA StartOAuthIInv ==
  ASSUME IInv, NEW r \in Requests, NEW g \in Flows, StartOAuth(r, g)
  PROVE  IInv'
  <1>1. /\ req[r] \in Sent /\ CopyOf(req[r]) /\ req[r].step = "loaded"
        /\ Going(req[r]) /\ req[r].flow = None /\ req[r].acts = None /\ flowUser[g] = "fresh"
    BY Mine DEF StartOAuth, CopyOf, Going
  <1>2. UNCHANGED <<cookie, version, bearer, out, spent, shared>>
    BY DEF StartOAuth
  <1>3. CASE Refuse(r) /\ UNCHANGED flowUser
    BY <1>1, <1>2, <1>3, RefuseIInv
  <1>4. CASE Destroy(r) /\ UNCHANGED flowUser
    BY <1>1, <1>2, <1>4, DestroyIInv
  <1>5. CASE /\ flowUser' = [flowUser EXCEPT ![g] = req[r].data.user]
             /\ Answer(r, [req[r] EXCEPT !.data.flow = g])
             /\ UNCHANGED store
    <2> DEFINE d == [req[r].data EXCEPT !.flow = g]
               p == [req[r] EXCEPT !.data.flow = g]
               q == [p EXCEPT !.step = "answer", !.save = TRUE, !.kind = "page"]
    <2>1. /\ d \in Session /\ d.user = req[r].data.user /\ d.version = req[r].data.version
          /\ d.flow = g /\ req[r].data.user \in Users \union {None}
      <3>1. req[r].data \in Session
        BY <1>1 DEF Sent
      <3> QED BY <3>1 DEF Session
    <2>2. q = [req[r] EXCEPT !.data = d, !.step = "answer", !.save = TRUE, !.kind = "page"]
      BY <1>1 DEF Sent
    <2>3. req' = [req EXCEPT ![r] = q] /\ store' = After(r, FALSE) /\ cookie' \in Tokens \union {None}
      BY <1>2, <1>5, RowOf, Mine DEF Answer
    <2> HIDE DEF d, p, q
    <2>4. /\ q \in Sent /\ q.step = "answer" /\ q.acts = None /\ q.token = req[r].token
          /\ q.data = d /\ q.flow = None /\ q.save = TRUE
      BY <1>1, <2>1, <2>2 DEF Sent, Kinds
    <2>5. Going(q) /\ CopyOf(q) /\ ActsRight(q)
      BY <1>1, <2>1, <2>4 DEF Going, CopyOf, ActsRight
    <2>6. q.data.user # None => q.data.version \in 1..MaxVersion
      BY <2>1, <2>4, Mine
    <2>7. /\ flowUser' \in [Flows -> Users \union {None, "fresh"}]
          /\ flowUser'[g] # "fresh" /\ \A f \in Flows \ {g} : flowUser'[f] = flowUser[f]
      BY <1>5, <2>1, SessionAssumption DEF IInv, TypeOK
    <2>8. \A f \in Flows : /\ q.data.flow = f => f = g
                           /\ q.flow # f /\ req[r].flow # f
      BY <1>1, <2>1, <2>4, SessionAssumption
    <2>9. \A f \in Flows : flowUser'[f] = "fresh" => flowUser[f] = "fresh" /\ ~Carries(q, f)
      BY <2>7, <2>8 DEF Carries
    <2>10. /\ out' \in [Tokens -> {"no", "alone", "overlapped"}] /\ out' = out
           /\ spent' \subseteq Flows /\ spent' = spent /\ shared' \subseteq Flows /\ shared' = shared
           /\ UNCHANGED <<version, bearer>>
      BY <1>2 DEF IInv, TypeOK
    <2> QED BY <1>1, <2>3, <2>4, <2>5, <2>6, <2>7, <2>8, <2>9, <2>10, HandlerIInv
  <1>6. \/ Refuse(r) /\ UNCHANGED flowUser
        \/ Destroy(r) /\ UNCHANGED flowUser
        \/ /\ flowUser' = [flowUser EXCEPT ![g] = req[r].data.user]
           /\ Answer(r, [req[r] EXCEPT !.data.flow = g])
           /\ UNCHANGED store
    BY DEF StartOAuth
  <1> QED BY <1>3, <1>4, <1>5, <1>6

(* A callback takes the flow out of its copy, and goes to the provider or  *)
(* not.                                                                    *)
LEMMA CompleteOAuthIInv ==
  ASSUME IInv, NEW r \in Requests, NEW match \in BOOLEAN, CompleteOAuth(r, match)
  PROVE  IInv'
  <1> DEFINE g == req[r].data.flow
             d == [req[r].data EXCEPT !.flow = None]
             taken == [req[r] EXCEPT !.data.flow = None]
  <1>1. /\ req[r] \in Sent /\ CopyOf(req[r]) /\ req[r].step = "loaded"
        /\ Going(req[r]) /\ req[r].flow = None /\ req[r].acts = None
    BY Mine DEF CompleteOAuth, CopyOf, Going
  <1>2. UNCHANGED <<cookie, version, bearer, flowUser, out, shared>>
    BY DEF CompleteOAuth
  <1>3. /\ d \in Session /\ d.user = req[r].data.user /\ d.version = req[r].data.version
        /\ d.flow = None /\ req[r].data.user \in Users \union {None}
        /\ g \in Flows \union {None}
    <2>1. req[r].data \in Session
      BY <1>1 DEF Sent
    <2> QED BY <2>1 DEF Session
  <1>4. CASE Destroy(r) /\ UNCHANGED spent
    BY <1>1, <1>2, <1>4, DestroyIInv
  <1>5. CASE /\ req[r].data.user = None \/ Valid(req[r].data)
             /\ match /\ flowUser[g] \in {None, req[r].data.user}
             /\ req' = [req EXCEPT ![r] = [taken EXCEPT !.step = "provider", !.flow = g,
                                                       !.acts = flowUser[g], !.save = TRUE]]
             /\ spent' = spent \union {g}
             /\ UNCHANGED store
    <2> DEFINE q == [taken EXCEPT !.step = "provider", !.flow = g,
                                  !.acts = flowUser[g], !.save = TRUE]
    <2>1. g \in Flows /\ flowUser[g] \in Users \union {None} /\ flowUser[g] # "fresh"
      BY <1>3, <1>5, SessionAssumption DEF CompleteOAuth
    <2>2. q = [req[r] EXCEPT !.data = d, !.step = "provider", !.flow = g,
                             !.acts = flowUser[g], !.save = TRUE]
      BY <1>1 DEF Sent
    <2>3. req' = [req EXCEPT ![r] = q] /\ store' = After(r, FALSE) /\ cookie' \in Tokens \union {None}
      BY <1>2, <1>5, RowOf, Mine
    <2>4. Carries(req[r], g)
      BY <1>1 DEF Carries
    <2> HIDE DEF d, taken, q, g
    <2>5. /\ q \in Sent /\ q.step = "provider" /\ q.acts = flowUser[g] /\ q.token = req[r].token
          /\ q.data = d /\ q.flow = g /\ q.save = TRUE
      BY <1>1, <1>3, <2>1, <2>2 DEF Sent
    <2>6. Going(q) /\ CopyOf(q)
      BY <1>1, <1>3, <2>5 DEF Going, CopyOf
    <2>7. ActsRight(q)
      BY <1>3, <1>5, <2>5 DEF ActsRight, Valid
    <2>8. q.data.user # None => q.data.version \in 1..MaxVersion
      BY <1>3, <2>5, Mine
    <2>9. \A f \in Flows : /\ q.data.flow # f
                           /\ q.flow = f => f = g
                           /\ req[r].flow # f
      BY <1>1, <1>3, <2>5, SessionAssumption
    <2>10. /\ flowUser' \in [Flows -> Users \union {None, "fresh"}]
           /\ \A f \in Flows : flowUser'[f] = "fresh" => flowUser[f] = "fresh" /\ ~Carries(q, f)
      BY <1>2, <2>1, <2>9 DEF IInv, TypeOK, Carries
    <2>11. /\ out' \in [Tokens -> {"no", "alone", "overlapped"}] /\ out' = out
           /\ spent' \subseteq Flows /\ shared' \subseteq Flows /\ shared' = shared
           /\ UNCHANGED <<version, bearer>>
      BY <1>2, <1>5, <2>1 DEF IInv, TypeOK
    <2>12. \A f \in spent' \ spent :
              Going(q) /\ ~FALSE /\ q.flow = f /\ q.data.flow # f /\ Carries(req[r], f)
      BY <1>5, <2>1, <2>4, <2>5, <2>6, <2>9
    <2>13. \A f \in Flows : Going(q) /\ q.flow = f => Carries(req[r], f)
      BY <2>4, <2>9
    <2> QED
      BY <1>1, <2>3, <2>5, <2>6, <2>7, <2>8, <2>9, <2>10, <2>11, <2>12, <2>13, HandlerIInv
  <1>6. CASE /\ req' = [req EXCEPT ![r] = [taken EXCEPT !.step = "answer", !.kind = "page"]]
             /\ UNCHANGED <<store, spent>>
    <2> DEFINE q == [taken EXCEPT !.step = "answer", !.kind = "page"]
    <2>1. q = [req[r] EXCEPT !.data = d, !.step = "answer", !.kind = "page"]
      BY <1>1 DEF Sent
    <2>2. req' = [req EXCEPT ![r] = q] /\ store' = After(r, FALSE) /\ cookie' \in Tokens \union {None}
      BY <1>2, <1>6, RowOf, Mine
    <2> HIDE DEF d, taken, q
    <2>3. /\ q \in Sent /\ q.step = "answer" /\ q.acts = None /\ q.token = req[r].token
          /\ q.data = d /\ q.flow = None /\ q.save = req[r].save
      BY <1>1, <1>3, <2>1 DEF Sent, Kinds
    <2>4. Going(q) /\ CopyOf(q) /\ ActsRight(q)
      BY <1>1, <1>3, <2>3 DEF Going, CopyOf, ActsRight
    <2>5. q.data.user # None => q.data.version \in 1..MaxVersion
      BY <1>3, <2>3, Mine
    <2>6. q.data.flow = None /\ q.flow = req[r].flow
      BY <1>1, <1>3, <2>3
    <2> QED BY <1>1, <1>2, <1>6, <2>2, <2>3, <2>4, <2>5, <2>6, QuietIInv
  <1>7. \/ Destroy(r) /\ UNCHANGED spent
        \/ /\ req[r].data.user = None \/ Valid(req[r].data)
           /\ match /\ flowUser[g] \in {None, req[r].data.user}
           /\ req' = [req EXCEPT ![r] = [taken EXCEPT !.step = "provider", !.flow = g,
                                                     !.acts = flowUser[g], !.save = TRUE]]
           /\ spent' = spent \union {g}
           /\ UNCHANGED store
        \/ /\ req' = [req EXCEPT ![r] = [taken EXCEPT !.step = "answer", !.kind = "page"]]
           /\ UNCHANGED <<store, spent>>
    BY DEF CompleteOAuth
  <1> QED BY <1>4, <1>5, <1>6, <1>7

LEMMA CompleteOAuthEndIInv ==
  ASSUME IInv, NEW r \in Requests, CompleteOAuthEnd(r)
  PROVE  IInv'
  <1>1. Going(req[r])
    BY DEF CompleteOAuthEnd, Going
  <1> QED BY <1>1, CompleteLoginIInv, RefuseIInv DEF CompleteOAuthEnd

(* The ends of a request that saves nothing: what it had is gone, and a    *)
(* flow it had taken counts as shared.                                     *)
LEMMA NothingToSaveIInv ==
  ASSUME IInv, NEW r \in Requests, NothingToSave(r)
  PROVE  IInv'
  <1>1. req[r].flow = None
    BY Mine DEF NothingToSave, CopyOf
  <1>2. /\ req' = [req EXCEPT ![r] = Idle] /\ store' = After(r, FALSE)
        /\ cookie' \in Tokens \union {None}
        /\ UNCHANGED <<version, bearer, flowUser, out, spent, shared>>
    BY RowOf, Mine DEF NothingToSave
  <1>3. ~Going(Idle) /\ CopyOf(Idle) /\ ActsRight(Idle) /\ Idle \in Sent /\ Idle.data.user = None
    BY Blank DEF Going, CopyOf, ActsRight
  <1> QED BY <1>1, <1>2, <1>3, QuietIInv

LEMMA ReceiveIInv ==
  ASSUME IInv, NEW r \in Requests, Receive(r)
  PROVE  IInv'
  <1>1. ~Going(req[r]) /\ req[r].token \in Tokens \union {None}
    BY Mine DEF Receive, Going, Sent
  <1>2. /\ req' = [req EXCEPT ![r] = Idle] /\ store' = After(r, FALSE)
        /\ cookie' \in Tokens \union {None}
        /\ UNCHANGED <<version, bearer, flowUser, out, spent, shared>>
    BY <1>1, RowOf, Mine DEF Receive
  <1>3. ~Going(Idle) /\ CopyOf(Idle) /\ ActsRight(Idle) /\ Idle \in Sent /\ Idle.data.user = None
    BY Blank DEF Going, CopyOf, ActsRight
  <1> QED BY <1>1, <1>2, <1>3, QuietIInv

LEMMA AbortIInv ==
  ASSUME IInv, NEW r \in Requests, Abort(r)
  PROVE  IInv'
  <1>1. /\ req' = [req EXCEPT ![r] = Idle] /\ store' = After(r, FALSE)
        /\ cookie' \in Tokens \union {None}
        /\ shared' = shared \union ({req[r].flow} \ {None})
        /\ UNCHANGED <<version, bearer, flowUser, out, spent>>
    BY RowOf, Mine DEF Abort
  <1>2. ~Going(Idle) /\ CopyOf(Idle) /\ ActsRight(Idle) /\ Idle \in Sent /\ Idle.data.user = None
    BY Blank DEF Going, CopyOf, ActsRight
  <1>3. /\ out' \in [Tokens -> {"no", "alone", "overlapped"}] /\ out' = out
        /\ flowUser' \in [Flows -> Users \union {None, "fresh"}] /\ flowUser' = flowUser
        /\ spent' \subseteq Flows /\ spent' = spent
        /\ UNCHANGED <<version, bearer>>
    BY <1>1 DEF IInv, TypeOK
  <1>4. shared \subseteq shared' /\ shared' \subseteq Flows
    <2>1. req[r].flow \in Flows \union {None}
      BY Mine DEF Sent
    <2> QED BY <1>1, <2>1 DEF IInv, TypeOK
  <1>5. \A f \in Flows \ shared' : req[r].flow # f
    BY <1>1, SessionAssumption
  <1>6. \A f \in Flows : ~Carries(Idle, f)
    BY <1>2 DEF Carries
  <1> QED BY <1>1, <1>2, <1>3, <1>4, <1>5, <1>6, HandlerIInv

-----------------------------------------------------------------------------
(* The browser and LoadAndSave, and the end of a user's sessions. *)

(* A request loads the session of the cookie: another copy of it, if any,  *)
(* makes its flow a shared one.                                            *)
LEMMA LoadIInv ==
  ASSUME IInv, NEW r \in Requests, NEW kind \in Kinds, Load(r, kind)
  PROVE  IInv'
  <1> DEFINE found == cookie # None /\ store[cookie] # NoSession
             data  == IF found THEN store[cookie] ELSE Empty
             q == [Idle EXCEPT !.step = "loaded", !.kind = kind, !.data = data, !.save = found,
                               !.token = IF found THEN cookie ELSE None]
  <1>1. /\ req[r] = Idle /\ req' = [req EXCEPT ![r] = q]
        /\ shared' = shared \union
             {f \in Flows : f = data.flow /\ \E s \in Requests : InFlight(s) /\
                                               f \in {req[s].data.flow, req[s].flow}}
        /\ UNCHANGED <<store, cookie, version, bearer, flowUser, out, spent>>
    BY DEF Load
  <1>2. /\ cookie \in Tokens \union {None} /\ found \in BOOLEAN
        /\ found => cookie \in Tokens
        /\ data \in Session
    BY Blank DEF IInv, TypeOK
  <1>3. data.user # None => data.version \in 1..MaxVersion
    BY <1>2, Blank DEF IInv, SavedFor
  <1>4. found => data = store[cookie] /\ data.user = bearer[cookie]
    BY <1>2 DEF IInv, SavedFor
  <1>5. ~found => data = Empty
    OBVIOUS
  <1>6. /\ q \in Sent /\ q.step = "loaded" /\ q.data = data /\ q.flow = None /\ q.acts = None
        /\ q.token = IF found THEN cookie ELSE None
    <2> HIDE DEF found, data
    <2> QED BY <1>2, Blank DEF Sent
  <1>7. found => store[cookie] # NoSession
    OBVIOUS
  <1> HIDE DEF found, data, q
  <1>8. CopyOf(q) /\ ActsRight(q) /\ Going(q)
    BY <1>2, <1>4, <1>5, <1>6, SessionAssumption DEF CopyOf, ActsRight, Going
  <1>9. \A s \in Requests : req'[s] = IF s = r THEN q ELSE req[s]
    BY <1>1 DEF IInv, TypeOK
  <1>10. TypeOK'
    <2>1. req' \in [Requests -> Sent]
      BY <1>1, <1>6 DEF IInv, TypeOK
    <2>2. \A s \in Requests : req'[s].data.user # None => req'[s].data.version \in 1..MaxVersion
      BY <1>3, <1>6, <1>9 DEF IInv, TypeOK
    <2>3. shared' \subseteq Flows
      BY <1>1 DEF IInv, TypeOK
    <2> QED BY <1>1, <2>1, <2>2, <2>3 DEF IInv, TypeOK
  <1>11. \A s \in Requests : CopyOf(req[s])' /\ ActsRight(req[s])'
    BY <1>1, <1>8, <1>9 DEF IInv, CopyOf, ActsRight
  <1>12. ASSUME NEW t \in Tokens
         PROVE  SavedFor(t)' /\ LoggedOut(t)'
    <2>1. SavedFor(t) /\ LoggedOut(t)
      BY DEF IInv
    <2>2. out[t] = "alone" => q.token # t
      BY <1>6, <1>7, <2>1, SessionAssumption DEF LoggedOut
    <2>3. LoggedOut(t)'
      <3> SUFFICES ASSUME out'[t] = "alone"
                   PROVE  /\ store'[t] = NoSession /\ bearer'[t] # "fresh"
                          /\ \A s \in Requests : Going(req'[s]) => req'[s].token # t
        BY DEF LoggedOut, Going
      <3> QED BY <1>1, <1>9, <2>1, <2>2 DEF LoggedOut
    <2> QED BY <1>1, <2>1, <2>3 DEF SavedFor
  <1>13. ~Going(req[r]) /\ \A f \in Flows : ~Carries(req[r], f)
    BY <1>1, Blank DEF Going, Carries
  <1>14. ASSUME NEW f \in Flows
         PROVE  Unstarted(f)' /\ InOnePlace(f)' /\ TakenOut(f)'
    <2>1. Unstarted(f) /\ InOnePlace(f) /\ TakenOut(f) /\ f # None
      BY SessionAssumption DEF IInv
    <2>2. Carries(q, f) <=> q.data.flow = f
      BY <1>6, <1>8, <2>1 DEF Carries
    <2>3. Carries(q, f) => found /\ cookie \in Tokens /\ q.token = cookie /\ store[cookie].flow = f
      BY <1>2, <1>4, <1>5, <1>6, <2>1, <2>2, Blank
    <2>4. Carries(q, f) /\ f \notin shared' => \A s \in Requests : ~Carries(req[s], f)
      BY <1>1, <1>6, <2>2 DEF Carries, InFlight, Going
    <2>5. \A s \in Requests : req'[s] = q \/ req'[s] = req[s]
      BY <1>9
    <2>6. Unstarted(f)'
      <3> SUFFICES ASSUME flowUser'[f] = "fresh"
                   PROVE  /\ f \notin spent'
                          /\ \A s \in Requests : ~Carries(req'[s], f)
                          /\ \A t \in Tokens : store'[t].flow # f
        BY DEF Unstarted, Carries, Going
      <3>1. /\ f \notin spent
            /\ \A s \in Requests : ~Carries(req[s], f)
            /\ \A t \in Tokens : store[t].flow # f
        BY <1>1, <2>1 DEF Unstarted
      <3> QED BY <1>1, <2>3, <2>5, <3>1
    <2>7. InOnePlace(f)'
      <3> SUFFICES ASSUME f \notin shared'
                   PROVE  /\ \A s, p \in Requests :
                                Carries(req'[s], f) /\ Carries(req'[p], f) => s = p
                          /\ \A s \in Requests, t \in Tokens :
                                Carries(req'[s], f) /\ store'[t].flow = f => req'[s].token = t
                          /\ \A t, x \in Tokens : store'[t].flow = f /\ store'[x].flow = f => t = x
        BY DEF InOnePlace, Carries, Going
      <3>1. /\ \A s, p \in Requests : Carries(req[s], f) /\ Carries(req[p], f) => s = p
            /\ \A s \in Requests, t \in Tokens :
                  Carries(req[s], f) /\ store[t].flow = f => req[s].token = t
            /\ \A t, x \in Tokens : store[t].flow = f /\ store[x].flow = f => t = x
        BY <1>1, <2>1 DEF InOnePlace
      <3>2. ASSUME NEW t \in Tokens, Carries(q, f), store[t].flow = f
            PROVE  q.token = t
        BY <2>3, <3>1, <3>2
      <3> QED BY <1>1, <1>9, <2>4, <3>1, <3>2
    <2>8. TakenOut(f)'
      <3> SUFFICES ASSUME f \in spent', f \notin shared'
                   PROVE  /\ \A s \in Requests : Going(req'[s]) => req'[s].data.flow # f
                          /\ \A t \in Tokens : store'[t].flow = f =>
                                \E s \in Requests :
                                   Going(req'[s]) /\ req'[s].flow = f /\ req'[s].token = t
        BY DEF TakenOut, Going
      <3>1. /\ \A s \in Requests : Going(req[s]) => req[s].data.flow # f
            /\ \A t \in Tokens : store[t].flow = f =>
                  \E s \in Requests : Going(req[s]) /\ req[s].flow = f /\ req[s].token = t
        BY <1>1, <2>1 DEF TakenOut
      <3>2. q.data.flow # f
        <4> SUFFICES ASSUME Carries(q, f) PROVE FALSE
          BY <2>2
        <4>1. PICK s \in Requests : Going(req[s]) /\ req[s].flow = f
          BY <2>3, <3>1
        <4> QED BY <2>4, <4>1 DEF Carries
      <3>3. ASSUME NEW t \in Tokens, store[t].flow = f
            PROVE  \E s \in Requests : Going(req'[s]) /\ req'[s].flow = f /\ req'[s].token = t
        <4>1. PICK s \in Requests : Going(req[s]) /\ req[s].flow = f /\ req[s].token = t
          BY <3>1, <3>3
        <4>2. s # r
          BY <1>13, <4>1
        <4> QED BY <1>9, <4>1, <4>2
      <3> QED BY <1>1, <2>5, <3>1, <3>2, <3>3
    <2> QED BY <2>6, <2>7, <2>8
  <1> QED BY <1>10, <1>11, <1>12, <1>14 DEF IInv

(* The copy is saved: a row that was deleted comes back with it, but not   *)
(* one of another user.                                                    *)
LEMMA CommitIInv ==
  ASSUME IInv, NEW r \in Requests, NEW x \in Tokens, Commit(r, x)
  PROVE  IInv'
  <1> DEFINE q == req[r]
             p == [Idle EXCEPT !.step = "saved", !.token = x]
             b == IF bearer[x] = "fresh" THEN q.data.user ELSE bearer[x]
  <1>1. /\ q \in Sent /\ q.step = "answer" /\ Going(q) /\ CopyOf(q)
        /\ IF q.token = None THEN bearer[x] = "fresh" ELSE x = q.token
        /\ q.data.user # None => q.data.version \in 1..MaxVersion
    BY Mine DEF Commit, Going
  <1>2. /\ q.data \in Session /\ q.data.user \in Users \union {None}
        /\ q.data.flow \in Flows \union {None}
    <2>1. q.data \in Session
      BY <1>1 DEF Sent
    <2> QED BY <2>1 DEF Session
  <1>3. /\ store' = [store EXCEPT ![x] = q.data]
        /\ bearer' = [bearer EXCEPT ![x] = b]
        /\ req' = [req EXCEPT ![r] = p]
        /\ UNCHANGED <<cookie, version, flowUser, out, spent, shared>>
    BY DEF Commit
  <1>4. b = q.data.user /\ b # "fresh"
    BY <1>1, <1>2, SessionAssumption DEF CopyOf
  <1>5. /\ p \in Sent /\ p.step = "saved" /\ p.flow = None /\ p.acts = None /\ p.data = Empty
    BY Blank DEF Sent
  <1> HIDE DEF q, p, b
  <1>6. ~Going(p) /\ CopyOf(p) /\ ActsRight(p) /\ \A f \in Flows : ~Carries(p, f)
    BY <1>5 DEF Going, CopyOf, ActsRight, Carries
  <1>7. \A s \in Requests : req'[s] = IF s = r THEN p ELSE req[s]
    BY <1>3 DEF IInv, TypeOK
  <1>8. \A t \in Tokens : /\ store'[t] = IF t = x THEN q.data ELSE store[t]
                          /\ bearer'[t] = IF t = x THEN q.data.user ELSE bearer[t]
    BY <1>3, <1>4 DEF IInv, TypeOK
  <1>9. TypeOK'
    <2>1. req' \in [Requests -> Sent]
      BY <1>3, <1>5 DEF IInv, TypeOK
    <2>2. \A s \in Requests : req'[s].data.user # None => req'[s].data.version \in 1..MaxVersion
      BY <1>5, <1>7, Blank DEF IInv, TypeOK
    <2>3. store' \in [Tokens -> Session] /\ bearer' \in [Tokens -> Users \union {None, "fresh"}]
      BY <1>2, <1>3, <1>4 DEF IInv, TypeOK
    <2>4. \A t \in Tokens : bearer'[t] = "fresh" => store'[t] = NoSession
      BY <1>4, <1>8 DEF IInv, TypeOK
    <2> QED BY <1>3, <2>1, <2>2, <2>3, <2>4 DEF IInv, TypeOK
  <1>10. ASSUME NEW s \in Requests
         PROVE  CopyOf(req[s])' /\ ActsRight(req[s])'
    <2>1. CASE s = r
      BY <1>5, <1>6, <1>7, <2>1 DEF CopyOf, ActsRight, Going
    <2>2. CASE s # r
      <3>1. req'[s] = req[s] /\ CopyOf(req[s]) /\ ActsRight(req[s]) /\ req[s] \in Sent
        BY <1>7, <2>2, Mine
      <3>2. ASSUME Going(req[s]), req[s].token # None
            PROVE  bearer'[req[s].token] = bearer[req[s].token]
        <4>1. /\ req[s].token \in Tokens /\ bearer[req[s].token] # "fresh"
          <5>1. /\ req[s].token \in Tokens /\ req[s].data \in Session
                /\ req[s].data.user = bearer[req[s].token]
            BY <3>1, <3>2 DEF Sent, CopyOf
          <5> QED BY <5>1, SessionAssumption DEF Session
        <4> QED BY <1>3, <4>1 DEF IInv, TypeOK, b
      <3> QED BY <1>3, <3>1, <3>2 DEF CopyOf, ActsRight, Going
    <2> QED BY <2>1, <2>2
  <1>11. ASSUME NEW t \in Tokens
         PROVE  SavedFor(t)' /\ LoggedOut(t)'
    <2>1. SavedFor(t) /\ LoggedOut(t)
      BY DEF IInv
    <2>2. out[t] = "alone" => t # x
      BY <1>1, <2>1 DEF LoggedOut, q
    <2>3. SavedFor(t)'
      BY <1>1, <1>8, <2>1 DEF SavedFor
    <2>4. LoggedOut(t)'
      <3> SUFFICES ASSUME out'[t] = "alone"
                   PROVE  /\ store'[t] = NoSession /\ bearer'[t] # "fresh"
                          /\ \A s \in Requests : Going(req'[s]) => req'[s].token # t
        BY DEF LoggedOut, Going
      <3>1. \A s \in Requests : Going(req'[s]) => req'[s] = req[s]
        BY <1>6, <1>7
      <3> QED BY <1>3, <1>8, <2>1, <2>2, <3>1 DEF LoggedOut
    <2> QED BY <2>3, <2>4
  <1>12. ASSUME NEW f \in Flows
         PROVE  Unstarted(f)' /\ InOnePlace(f)' /\ TakenOut(f)'
    <2>1. Unstarted(f) /\ InOnePlace(f) /\ TakenOut(f) /\ f # None
      BY SessionAssumption DEF IInv
    <2>2. q.data.flow = f => Carries(q, f)
      BY <1>1 DEF Carries
    <2>3. \A s \in Requests : Going(req'[s]) => s # r /\ req'[s] = req[s]
      BY <1>6, <1>7
    <2>4. \A s \in Requests : Carries(req'[s], f) => s # r /\ req'[s] = req[s]
      BY <2>3 DEF Carries
    <2>5. Unstarted(f)'
      <3> SUFFICES ASSUME flowUser'[f] = "fresh"
                   PROVE  /\ f \notin spent'
                          /\ \A s \in Requests : ~Carries(req'[s], f)
                          /\ \A t \in Tokens : store'[t].flow # f
        BY DEF Unstarted, Carries, Going
      <3>1. /\ f \notin spent
            /\ \A s \in Requests : ~Carries(req[s], f)
            /\ \A t \in Tokens : store[t].flow # f
        BY <1>3, <2>1 DEF Unstarted
      <3>2. ~Carries(q, f)
        BY <3>1 DEF q
      <3> QED BY <1>3, <1>8, <2>2, <2>4, <3>1, <3>2
    <2>6. InOnePlace(f)'
      <3> SUFFICES ASSUME f \notin shared'
                   PROVE  /\ \A s, z \in Requests :
                                Carries(req'[s], f) /\ Carries(req'[z], f) => s = z
                          /\ \A s \in Requests, t \in Tokens :
                                Carries(req'[s], f) /\ store'[t].flow = f => req'[s].token = t
                          /\ \A t, y \in Tokens : store'[t].flow = f /\ store'[y].flow = f => t = y
        BY DEF InOnePlace, Carries, Going
      <3>1. /\ \A s, z \in Requests : Carries(req[s], f) /\ Carries(req[z], f) => s = z
            /\ \A s \in Requests, t \in Tokens :
                  Carries(req[s], f) /\ store[t].flow = f => req[s].token = t
            /\ \A t, y \in Tokens : store[t].flow = f /\ store[y].flow = f => t = y
        BY <1>3, <2>1 DEF InOnePlace
      <3>2. q.data.flow = f => \A s \in Requests : ~Carries(req'[s], f)
        BY <2>2, <2>4, <3>1 DEF q
      <3>3. ASSUME NEW t \in Tokens, q.data.flow = f, store[t].flow = f
            PROVE  t = x
        <4>1. q.token = t
          BY <2>2, <3>1, <3>3 DEF q
        <4> QED BY <1>1, <4>1, SessionAssumption
      <3>4. \A t \in Tokens :
               store'[t].flow = f => (t = x /\ q.data.flow = f) \/ (t # x /\ store[t].flow = f)
        BY <1>8
      <3> QED BY <2>4, <3>1, <3>2, <3>3, <3>4
    <2>7. TakenOut(f)'
      <3> SUFFICES ASSUME f \in spent', f \notin shared'
                   PROVE  /\ \A s \in Requests : Going(req'[s]) => req'[s].data.flow # f
                          /\ \A t \in Tokens : store'[t].flow = f =>
                                \E s \in Requests :
                                   Going(req'[s]) /\ req'[s].flow = f /\ req'[s].token = t
        BY DEF TakenOut, Going
      <3>1. /\ \A s \in Requests : Going(req[s]) => req[s].data.flow # f
            /\ \A t \in Tokens : store[t].flow = f =>
                  \E s \in Requests : Going(req[s]) /\ req[s].flow = f /\ req[s].token = t
        BY <1>3, <2>1 DEF TakenOut
      <3>2. q.data.flow # f
        BY <1>1, <3>1 DEF q
      <3>3. ASSUME NEW t \in Tokens, store'[t].flow = f
            PROVE  \E s \in Requests : Going(req'[s]) /\ req'[s].flow = f /\ req'[s].token = t
        <4>1. t # x /\ store[t].flow = f
          BY <1>8, <3>2, <3>3
        <4>2. PICK s \in Requests : Going(req[s]) /\ req[s].flow = f /\ req[s].token = t
          BY <3>1, <4>1
        <4>3. s # r
          BY <1>1, <4>1, <4>2, SessionAssumption DEF q
        <4> QED BY <1>7, <4>2, <4>3
      <3> QED BY <2>3, <3>1, <3>3
    <2> QED BY <2>5, <2>6, <2>7
  <1> QED BY <1>9, <1>10, <1>11, <1>12 DEF IInv

(* The sessions of a user end: who had loaded one knows it was revoked.    *)
LEMMA IncrementIInv ==
  ASSUME IInv, NEW u \in Users, IncrementUserAuthVersion(u)
  PROVE  IInv'
  <1>1. /\ version[u] < MaxVersion
        /\ version' = [version EXCEPT ![u] = @ + 1]
        /\ req' = [r \in Requests |->
                      IF req[r].step \in {"idle", "saved"} THEN req[r]
                      ELSE [req[r] EXCEPT !.revoked = @ \union ({u} \cap {req[r].data.user})]]
        /\ UNCHANGED <<store, cookie, bearer, flowUser, out, spent, shared>>
    BY DEF IncrementUserAuthVersion
  <1>2. ASSUME NEW r \in Requests
        PROVE  /\ req'[r] \in Sent /\ req'[r].step = req[r].step /\ req'[r].token = req[r].token
               /\ req'[r].data = req[r].data /\ req'[r].save = req[r].save
               /\ req'[r].flow = req[r].flow /\ req'[r].acts = req[r].acts
               /\ req[r].revoked \subseteq req'[r].revoked
               /\ req[r].step \in {"provider", "answer"} /\ req[r].data.user = u =>
                     u \in req'[r].revoked
    <2>1. req[r] \in Sent
      BY Mine
    <2>2. CASE req[r].step \in {"idle", "saved"}
      BY <1>1, <2>1, <2>2
    <2>3. CASE req[r].step \notin {"idle", "saved"}
      <3>1. req'[r] = [req[r] EXCEPT !.revoked = @ \union ({u} \cap {req[r].data.user})]
        BY <1>1, <2>3
      <3>2. req[r].revoked \union ({u} \cap {req[r].data.user}) \in SUBSET Users
        BY <2>1 DEF Sent
      <3> QED BY <2>1, <3>1, <3>2 DEF Sent
    <2> QED BY <2>2, <2>3
  <1>3. /\ version' \in [Users -> 1..MaxVersion]
        /\ \A v \in Users \ {u} : version'[v] = version[v]
    BY <1>1, SessionAssumption DEF IInv, TypeOK
  <1>4. TypeOK'
    <2>1. req' \in [Requests -> Sent]
      BY <1>1, <1>2
    <2> QED BY <1>1, <1>2, <1>3, <2>1 DEF IInv, TypeOK
  <1>5. ASSUME NEW r \in Requests
        PROVE  CopyOf(req[r])' /\ ActsRight(req[r])'
    <2>1. CopyOf(req[r]) /\ ActsRight(req[r]) /\ req[r].acts \in Users \union {None}
      BY Mine DEF Sent
    <2>2. CopyOf(req[r])'
      BY <1>1, <1>2, <2>1 DEF CopyOf, Going
    <2>3. ActsRight(req[r])'
      BY <1>2, <1>3, <2>1 DEF ActsRight
    <2> QED BY <2>2, <2>3
  <1>6. \A r \in Requests : /\ Going(req[r])' = Going(req[r])
                            /\ \A f \in Flows : Carries(req[r], f)' = Carries(req[r], f)
    BY <1>2 DEF Going, Carries
  <1>7. \A t \in Tokens : SavedFor(t)' /\ LoggedOut(t)'
    BY <1>1, <1>2 DEF IInv, SavedFor, LoggedOut, Going
  <1>8. ASSUME NEW f \in Flows
        PROVE  Unstarted(f)' /\ InOnePlace(f)' /\ TakenOut(f)'
    <2>1. Unstarted(f) /\ InOnePlace(f) /\ TakenOut(f)
      BY DEF IInv
    <2>2. Unstarted(f)'
      BY <1>1, <1>6, <2>1 DEF Unstarted
    <2>3. InOnePlace(f)'
      BY <1>1, <1>2, <1>6, <2>1 DEF InOnePlace
    <2>4. TakenOut(f)'
      BY <1>1, <1>2, <1>6, <2>1 DEF TakenOut
    <2> QED BY <2>2, <2>3, <2>4
  <1> QED BY <1>4, <1>5, <1>7, <1>8 DEF IInv

-----------------------------------------------------------------------------

(* Every step keeps the inductive invariant.                               *)
LEMMA NextIInv == IInv /\ [Next]_vars => IInv'
  <1> SUFFICES ASSUME IInv, [Next]_vars PROVE IInv'
    OBVIOUS
  <1>1. CASE Next
    BY <1>1, LoadIInv, CommitIInv, ReceiveIInv, NothingToSaveIInv, AbortIInv, FailIInv, PageIInv,
       LogoutIInv, LoginIInv, LoginRefusedIInv, StartOAuthIInv, CompleteOAuthIInv,
       CompleteOAuthEndIInv, IncrementIInv DEF Next
  <1>2. CASE UNCHANGED vars
    BY <1>2 DEF vars, IInv, TypeOK, CopyOf, ActsRight, SavedFor, LoggedOut, Unstarted,
                InOnePlace, TakenOut, Carries, Going
  <1> QED BY <1>1, <1>2

(* IInv holds throughout: every copy is of the user of its token, and a    *)
(* flow nobody shares is in one place.                                     *)
THEOREM Invariance == Spec => []IInv
  BY InitIInv, NextIInv, PTL DEF Spec

(* The store, the cookie and the copies of the requests are of their       *)
(* types; a token has a row only if it was given out (SCS's Commit).       *)
THEOREM Types == Spec => []TypeOK
  <1>1. IInv => TypeOK
    BY DEF IInv
  <1> QED BY <1>1, Invariance, PTL

(* A token is of one user, or of none, for as long as it exists: late      *)
(* saves of overlapping requests do not make a token that was known before *)
(* a login the session of that login (completeLogin).                      *)
THEOREM OneUser == Spec => []TokenKeepsUser
  <1>1. IInv => TokenKeepsUser
    BY DEF IInv, TokenKeepsUser, SavedFor
  <1> QED BY <1>1, Invariance, PTL

(* After a logout that no other request overlaps, its token is nobody's    *)
(* (Logout).                                                               *)
THEOREM StaysOut == Spec => []LoggedOutStaysOut
  <1>1. IInv => LoggedOutStaysOut
    BY Blank DEF IInv, LoggedOutStaysOut, LoggedOut, SignedIn
  <1> QED BY <1>1, Invariance, PTL

(* A handler works for the user of the session it was sent with, and that  *)
(* session was not revoked before the request loaded it                    *)
(* (RequireAuthenticated, validatedOptionalUserID, CompleteOAuth).         *)
THEOREM ActsFor == Spec => []ActsForCurrentUser
  <1>1. IInv => ActsForCurrentUser
    BY DEF IInv, ActsForCurrentUser, ActsRight
  <1> QED BY <1>1, Invariance, PTL

(* Only a callback goes to the provider, and with the flow of its copy.    *)
LEMMA ToProvider ==
  ASSUME IInv, Next, NEW r \in Requests,
         req[r].step = "loaded", req'[r].step = "provider"
  PROVE  req'[r].flow = req[r].data.flow
  <1>1. \A s \in Requests : req[s] \in Sent
    BY Mine
  <1>2. ASSUME NEW s \in Requests, NEW q, req' = [req EXCEPT ![s] = q], q.step # "provider"
        PROVE  FALSE
    BY <1>2 DEF IInv, TypeOK
  <1>3. ASSUME NEW s \in Requests, Refuse(s)
        PROVE  FALSE
    <2> DEFINE q == [req[s] EXCEPT !.step = "answer", !.kind = "page", !.acts = None]
    <2>1. req' = [req EXCEPT ![s] = q] /\ q.step # "provider"
      BY <1>1, <1>3 DEF Refuse, Sent
    <2> HIDE DEF q
    <2> QED BY <1>2, <2>1
  <1>4. ASSUME NEW s \in Requests, Destroy(s)
        PROVE  FALSE
    <2> DEFINE q == [Idle EXCEPT !.step = "saved"]
    <2>1. req' = [req EXCEPT ![s] = q] /\ q.step # "provider"
      BY <1>4, Blank DEF Destroy, Sent
    <2> HIDE DEF q
    <2> QED BY <1>2, <2>1
  <1>5. ASSUME NEW s \in Requests, NEW p \in Sent, Answer(s, p)
        PROVE  FALSE
    <2> DEFINE q == [p EXCEPT !.step = "answer", !.save = TRUE, !.kind = "page"]
    <2>1. req' = [req EXCEPT ![s] = q] /\ q.step # "provider"
      BY <1>5 DEF Answer, Sent
    <2> HIDE DEF q
    <2> QED BY <1>2, <2>1
  <1>6. ASSUME NEW s \in Requests, NEW v \in Users, CompleteLogin(s, req[s], v)
        PROVE  FALSE
    <2> DEFINE d == Principal(req[s].data, v)
               p == [req[s] EXCEPT !.token = None, !.acts = None, !.data = Principal(@, v)]
    <2>1. d \in Session
      <3>1. req[s].data \in Session /\ version[v] \in 0..MaxVersion + 1
        BY <1>1, SessionAssumption DEF Sent, IInv, TypeOK
      <3> QED BY <3>1 DEF Session, Principal
    <2>2. p = [req[s] EXCEPT !.token = None, !.acts = None, !.data = d]
      BY <1>1 DEF Sent
    <2>3. Answer(s, p)
      BY <1>6 DEF CompleteLogin
    <2> HIDE DEF d, p
    <2>4. p \in Sent
      BY <1>1, <2>1, <2>2 DEF Sent
    <2> QED BY <1>5, <2>3, <2>4
  <1>7. ASSUME NEW s \in Requests, Page(s)
        PROVE  FALSE
    <2> DEFINE q == [req[s] EXCEPT !.step = "answer", !.acts = req[s].data.user]
    <2>1. q.step # "provider"
      BY <1>1 DEF Sent
    <2>2. Refuse(s) \/ Destroy(s) \/ req' = [req EXCEPT ![s] = q]
      BY <1>7 DEF Page
    <2> HIDE DEF q
    <2> QED BY <1>2, <1>3, <1>4, <2>1, <2>2
  <1>8. ASSUME NEW s \in Requests, \E kind \in Kinds : Load(s, kind)
        PROVE  FALSE
    <2>1. req[s] = Idle /\ \A p \in Requests \ {s} : req'[p] = req[p]
      BY <1>8 DEF Load, IInv, TypeOK
    <2> QED BY <2>1, Blank
  <1>9. ASSUME NEW s \in Requests, \E t \in Tokens : Commit(s, t)
        PROVE  FALSE
    <2>1. req[s].step = "answer" /\ \A p \in Requests \ {s} : req'[p] = req[p]
      BY <1>9 DEF Commit, IInv, TypeOK
    <2> QED BY <2>1
  <1>10. ASSUME NEW s \in Requests, Receive(s) \/ NothingToSave(s) \/ Abort(s)
         PROVE  FALSE
    BY <1>2, <1>10, Blank DEF Receive, NothingToSave, Abort
  <1>11. ASSUME NEW s \in Requests, Logout(s)
         PROVE  FALSE
    BY <1>3, <1>4, <1>11 DEF Logout
  <1>12. ASSUME NEW s \in Requests, NEW f \in Flows, StartOAuth(s, f)
         PROVE  FALSE
    <2> DEFINE d == [req[s].data EXCEPT !.flow = f]
               p == [req[s] EXCEPT !.data.flow = f]
    <2>1. d \in Session
      <3>1. req[s].data \in Session
        BY <1>1 DEF Sent
      <3> QED BY <3>1 DEF Session
    <2>2. p = [req[s] EXCEPT !.data = d]
      BY <1>1 DEF Sent
    <2>3. Refuse(s) \/ Destroy(s) \/ Answer(s, p)
      BY <1>12 DEF StartOAuth
    <2> HIDE DEF d, p
    <2>4. p \in Sent
      BY <1>1, <2>1, <2>2 DEF Sent
    <2> QED BY <1>3, <1>4, <1>5, <2>3, <2>4
  <1>13. ASSUME NEW s \in Requests, NEW match \in BOOLEAN, CompleteOAuth(s, match)
         PROVE  req'[r].flow = req[r].data.flow
    <2> DEFINE d == [req[s].data EXCEPT !.flow = None]
               taken == [req[s] EXCEPT !.data.flow = None]
               q == [taken EXCEPT !.step = "provider", !.flow = req[s].data.flow,
                                  !.acts = flowUser[req[s].data.flow], !.save = TRUE]
               p == [taken EXCEPT !.step = "answer", !.kind = "page"]
    <2>1. /\ taken = [req[s] EXCEPT !.data = d]
          /\ q.flow = req[s].data.flow /\ p.step = "answer"
      BY <1>1 DEF Sent
    <2>2. Destroy(s) \/ req' = [req EXCEPT ![s] = q] \/ req' = [req EXCEPT ![s] = p]
      BY <1>13 DEF CompleteOAuth
    <2> HIDE DEF d, taken, q, p
    <2>3. CASE req' = [req EXCEPT ![s] = q]
      <3>1. \A x \in Requests : req'[x] = IF x = s THEN q ELSE req[x]
        BY <2>3 DEF IInv, TypeOK
      <3>2. s = r
        BY <3>1
      <3> QED BY <2>1, <3>1, <3>2
    <2> QED BY <1>2, <1>4, <2>1, <2>2, <2>3
  <1>14. ASSUME NEW s \in Requests,
                \/ \E v \in Users : Login(s, v)
                \/ LoginRefused(s) \/ CompleteOAuthEnd(s)
         PROVE  FALSE
    BY <1>3, <1>6, <1>14 DEF Login, LoginRefused, CompleteOAuthEnd
  <1>15. ASSUME NEW u \in Users, IncrementUserAuthVersion(u)
         PROVE  FALSE
    <2>1. \/ req'[r] = req[r]
          \/ req'[r] = [req[r] EXCEPT !.revoked = @ \union ({u} \cap {req[r].data.user})]
      BY <1>15 DEF IncrementUserAuthVersion
    <2> QED BY <1>1, <2>1 DEF Sent
  <1>16. ASSUME NEW s \in Requests, Fail(s)
         PROVE  FALSE
    <2> DEFINE d == [req[s].data EXCEPT !.flow = IF req[s].kind = "callback" THEN None ELSE @]
               q == [req[s] EXCEPT !.step = "answer", !.kind = "page", !.data = d]
    <2>1. req' = [req EXCEPT ![s] = q] /\ q.step # "provider"
      BY <1>1, <1>16 DEF Fail, Sent
    <2> HIDE DEF q
    <2> QED BY <1>2, <2>1
  <1> QED
    BY <1>7, <1>8, <1>9, <1>10, <1>11, <1>12, <1>13, <1>14, <1>15, <1>16
    DEF Next

(* A flow goes to the provider a second time only if two requests had it   *)
(* at a time, or the first callback was cut off (CompleteOAuth).           *)
THEOREM TakenOnce == Spec => FlowTakenOnce
  <1> DEFINE A == \A r \in Requests :
                     req[r].step = "loaded" /\ req'[r].step = "provider" /\ req'[r].flow \in spent
                         => req'[r].flow \in shared
  <1>1. ASSUME IInv, Next
        PROVE  A
    <2> SUFFICES ASSUME NEW r \in Requests,
                        req[r].step = "loaded", req'[r].step = "provider",
                        req'[r].flow \in spent
                 PROVE  req'[r].flow \in shared
      OBVIOUS
    <2>1. Going(req[r])
      BY DEF Going
    <2>2. spent \subseteq Flows /\ \A f \in Flows : TakenOut(f)
      BY <1>1 DEF IInv, TypeOK
    <2> QED BY <1>1, <2>1, <2>2, ToProvider DEF TakenOut
  <1>2. IInv /\ [Next]_vars => [A]_vars
    BY <1>1
  <1> QED BY <1>2, Invariance, PTL DEF Spec, FlowTakenOnce
=============================================================================
