-------------------------- MODULE UserTokensProofs --------------------------
(***************************************************************************)
(* Proofs about UserTokens, for every set of users, kinds, tokens,         *)
(* requests and consumers, every lifetime of a token and every end of the  *)
(* clock.  IInv is inductive; what the run checks follows from it.         *)
(***************************************************************************)
EXTENDS UserTokens, TLAPS

(* The records of what is idle, and of no row.                             *)
LEMMA Blank ==
  /\ NoRow \notin Rows
  /\ Idle \in Asked /\ Idle.step = "idle" /\ Idle.token = Nobody /\ Idle.at = 0
  /\ Idle.held = {} /\ Idle.seen = {} /\ Idle.before = {}
  /\ Unused \in Attempt /\ Unused.step = "idle"
  BY TokenAssumption DEF NoRow, Rows, Idle, Asked, Unused, Attempt

(* The initial states satisfy the inductive invariant.                     *)
LEMMA InitIInv == Init => IInv
  <1> SUFFICES ASSUME Init PROVE IInv
    OBVIOUS
  <1>1. TypeOK
    BY Blank DEF Init, TypeOK
  <1>2. /\ \A t \in Tokens : ~There(t)
        /\ \A r \in Requests : req[r] = Idle
        /\ \A c \in Consumers : use[c] = Unused
    BY DEF Init, There
  <1>3. \A r \in Requests : OwnToken(r, req[r]) /\ LockedForRequest(r, req[r]) /\ Covers(req[r])
    BY <1>2, Blank DEF Init, OwnToken, LockedForRequest, Covers
  <1>4. \A c \in Consumers : LockedForUse(c, use[c])
    BY <1>2, Blank DEF LockedForUse
  <1>5. \A t \in Tokens : Spent(t)
    BY DEF Init, Spent
  <1>6. \A u \in Users, k \in Kinds : Lasts(u, k)
    BY DEF Init, Lasts
  <1> QED BY <1>1, <1>2, <1>3, <1>4, <1>5, <1>6 DEF IInv, RowsIssued, Init

-----------------------------------------------------------------------------
(* Steps that touch no row: one record changes. *)

(* It is enough to look at the record of the request.                      *)
LEMMA OwnRequest ==
  ASSUME IInv, NEW r \in Requests, NEW q \in Asked, q.held \subseteq q.seen,
         OwnToken(r, q), LockedForRequest(r, q), Covers(q),
         req' = [req EXCEPT ![r] = q],
         UNCHANGED <<now, account, row, use, issued, latest, replaced, effects>>
  PROVE  IInv'
  <1>1. \A s \in Requests : req'[s] = IF s = r THEN q ELSE req[s]
    BY DEF IInv, TypeOK
  <1>2. TypeOK'
    BY <1>1 DEF IInv, TypeOK
  <1>3. ASSUME NEW s \in Requests
        PROVE  OwnToken(s, req[s])'
    <2>1. CASE s = r
      BY <1>1, <2>1 DEF OwnToken
    <2>2. CASE s # r
      <3>1. OwnToken(s, req[s]) /\ req'[s] = req[s] /\ req'[r] = q
        BY <1>1, <2>2 DEF IInv
      <3>2. ASSUME req[s].step # "idle"
            PROVE  q.token # req[s].token
        BY <2>2, <3>1, <3>2, TokenAssumption DEF OwnToken
      <3>3. \A x \in Requests \ {s} : req'[x] = req[x] \/ (x = r /\ req'[x] = q)
        BY <1>1
      <3> QED BY <3>1, <3>2, <3>3 DEF OwnToken
    <2> QED BY <2>1, <2>2
  <1>4. ASSUME NEW s \in Requests
        PROVE  LockedForRequest(s, req[s])'
    <2>1. CASE s = r
      BY <1>1, <2>1 DEF LockedForRequest, Live, There, Using
    <2>2. CASE s # r
      <3>1. LockedForRequest(s, req[s]) /\ req'[s] = req[s] /\ req'[r] = q
        BY <1>1, <2>2 DEF IInv
      <3>2. \A t \in req[s].held : t \notin q.held
        BY <2>2 DEF LockedForRequest
      <3>3. \A x \in Requests \ {s} : req'[x] = req[x] \/ (x = r /\ req'[x] = q)
        BY <1>1
      <3> QED BY <3>1, <3>2, <3>3 DEF LockedForRequest, Live, There, Using
    <2> QED BY <2>1, <2>2
  <1>5. ASSUME NEW s \in Requests
        PROVE  Covers(req[s])'
    BY <1>1 DEF IInv, Covers, Live, There
  <1>6. ASSUME NEW c \in Consumers
        PROVE  LockedForUse(c, use[c])'
    <2>1. LockedForUse(c, use[c])
      BY DEF IInv
    <2>2. ASSUME use[c].step = "consumed"
          PROVE  use[c].token \notin q.held
      BY <2>2 DEF LockedForRequest, Using
    <2> QED BY <1>1, <2>1, <2>2 DEF LockedForUse, Live, There, Using
  <1> QED
    BY <1>2, <1>3, <1>4, <1>5, <1>6 DEF IInv, RowsIssued, Spent, Lasts, Live, There

(* ... or of the attempt to consume a token.                               *)
LEMMA OwnUse ==
  ASSUME IInv, NEW c \in Consumers, NEW x \in Attempt, LockedForUse(c, x),
         use' = [use EXCEPT ![c] = x],
         UNCHANGED <<now, account, row, req, issued, latest, replaced, effects>>
  PROVE  IInv'
  <1>1. \A d \in Consumers : use'[d] = IF d = c THEN x ELSE use[d]
    BY DEF IInv, TypeOK
  <1>2. TypeOK'
    BY <1>1 DEF IInv, TypeOK
  <1>3. ASSUME NEW r \in Requests
        PROVE  /\ OwnToken(r, req[r])'
               /\ LockedForRequest(r, req[r])'
               /\ Covers(req[r])'
    <2>1. OwnToken(r, req[r]) /\ LockedForRequest(r, req[r]) /\ Covers(req[r])
      BY DEF IInv
    <2>2. \A t \in req[r].held : ~Using(t, x)
      BY DEF LockedForUse, Using
    <2>3. LockedForRequest(r, req[r])'
      BY <1>1, <2>1, <2>2 DEF LockedForRequest, Live, There, Using
    <2> QED BY <2>1, <2>3 DEF OwnToken, Covers, Live, There
  <1>4. ASSUME NEW d \in Consumers
        PROVE  LockedForUse(d, use[d])'
    <2>1. CASE d = c
      BY <1>1, <2>1 DEF LockedForUse, Live, There, Using
    <2>2. CASE d # c
      <3>1. LockedForUse(d, use[d]) /\ use'[d] = use[d]
        BY <1>1, <2>2 DEF IInv
      <3>2. ASSUME use[d].step = "consumed"
            PROVE  ~Using(use[d].token, x)
        BY <2>2, <3>2 DEF LockedForUse, Using
      <3>3. \A e \in Consumers \ {d} : use'[e] = use[e] \/ (e = c /\ use'[e] = x)
        BY <1>1
      <3> QED BY <3>1, <3>2, <3>3 DEF LockedForUse, Live, There, Using
    <2> QED BY <2>1, <2>2
  <1> QED
    BY <1>2, <1>3, <1>4 DEF IInv, RowsIssued, Spent, Lasts, Live, There

(* Going on to another step of requestTokenEmail; see the fields.          *)
LEMMA RequestOver ==
  ASSUME IInv, NEW r \in Requests
  PROVE  /\ Idle.held \subseteq Idle.seen
         /\ OwnToken(r, Idle) /\ LockedForRequest(r, Idle) /\ Covers(Idle)
  BY Blank DEF IInv, TypeOK, OwnToken, LockedForRequest, Covers

(* The tokens of a user and kind that are there were issued as such.       *)
LEMMA OfIssued ==
  ASSUME IInv, NEW u \in Users, NEW k \in Kinds, NEW t \in Of(u, k)
  PROVE  /\ t \in Tokens /\ issued[t] # NoRow
         /\ issued[t].user = u /\ issued[t].kind = k
  BY DEF IInv, RowsIssued, Of

(* The steps of requestTokenEmail before the commit.                       *)
LEMMA RequestStartIInv ==
  ASSUME IInv, NEW r \in Requests, NEW u \in Users, NEW k \in Kinds, NEW t \in Tokens,
         RequestStart(r, u, k, t)
  PROVE  IInv'
  <1> DEFINE q == [Idle EXCEPT !.step = "begin", !.user = u, !.kind = k,
                               !.token = t, !.before = Of(u, k)]
  <1>1. /\ q \in Asked /\ q.step = "begin" /\ q.user = u /\ q.kind = k /\ q.token = t
        /\ q.before = Of(u, k) /\ q.seen = {} /\ q.held = {} /\ q.at = 0
    BY Blank DEF Asked, Idle, Of
  <1> HIDE DEF q
  <1>2. OwnToken(r, q)
    BY <1>1 DEF OwnToken, RequestStart, Fresh
  <1>3. LockedForRequest(r, q)
    BY <1>1 DEF LockedForRequest, IInv, TypeOK
  <1>4. Covers(q)
    BY <1>1, OfIssued DEF Covers
  <1>5. /\ req' = [req EXCEPT ![r] = q]
        /\ UNCHANGED <<now, account, row, use, issued, latest, replaced, effects>>
    BY DEF RequestStart, q
  <1> QED BY <1>1, <1>2, <1>3, <1>4, <1>5, OwnRequest

LEMMA RequestBeginIInv ==
  ASSUME IInv, NEW r \in Requests, RequestBegin(r)
  PROVE  IInv'
  <1> DEFINE p == req[r]
             q == [p EXCEPT !.step = "scan", !.at = now]
  <1>1. /\ p \in Asked /\ p.step = "begin" /\ p.held \subseteq p.seen /\ now \in Nat
        /\ OwnToken(r, p) /\ LockedForRequest(r, p) /\ Covers(p)
    BY DEF IInv, TypeOK, RequestBegin
  <1>2. /\ q \in Asked /\ q.step = "scan" /\ q.at = now
        /\ q.user = p.user /\ q.kind = p.kind /\ q.token = p.token
        /\ q.before = p.before /\ q.seen = p.seen /\ q.held = p.held
    BY <1>1 DEF Asked
  <1>3. /\ req' = [req EXCEPT ![r] = q]
        /\ UNCHANGED <<now, account, row, use, issued, latest, replaced, effects>>
    BY DEF RequestBegin
  <1> HIDE DEF p, q
  <1>4. OwnToken(r, q)
    BY <1>1, <1>2 DEF OwnToken
  <1>5. LockedForRequest(r, q)
    BY <1>1, <1>2 DEF LockedForRequest
  <1>6. Covers(q)
    BY <1>1, <1>2 DEF Covers
  <1> QED BY <1>1, <1>2, <1>3, <1>4, <1>5, <1>6, OwnRequest

LEMMA ExpireScanIInv ==
  ASSUME IInv, NEW r \in Requests, ExpireScan(r)
  PROVE  IInv'
  <1> DEFINE p == req[r]
             S == {t \in Of(p.user, p.kind) : Live(t, p.at)}
             q == [p EXCEPT !.step = "expire", !.seen = S]
  <1>1. /\ p \in Asked /\ p.step = "scan" /\ p.held \subseteq p.seen
        /\ OwnToken(r, p) /\ LockedForRequest(r, p) /\ Covers(p)
        /\ p.user \in Users /\ p.kind \in Kinds
    BY DEF IInv, TypeOK, ExpireScan, OwnToken
  <1>2. /\ q \in Asked /\ q.step = "expire" /\ q.at = p.at
        /\ q.user = p.user /\ q.kind = p.kind /\ q.token = p.token
        /\ q.before = p.before /\ q.seen = S /\ q.held = p.held
    BY <1>1 DEF Asked, Of
  <1>3. /\ req' = [req EXCEPT ![r] = q]
        /\ UNCHANGED <<now, account, row, use, issued, latest, replaced, effects>>
    BY DEF ExpireScan
  <1>4. p.held = {}
    BY <1>1 DEF LockedForRequest
  <1>5. \A t \in S : /\ t \in Tokens /\ issued[t] # NoRow
                     /\ issued[t].user = p.user /\ issued[t].kind = p.kind
    BY <1>1, OfIssued
  <1>6. ASSUME NEW t \in p.before
        PROVE  t \in S \/ ~Live(t, p.at)
    BY <1>1 DEF Covers, Of, Live, IInv, RowsIssued, Asked
  <1> HIDE DEF p, q, S
  <1>7. OwnToken(r, q)
    BY <1>1, <1>2 DEF OwnToken
  <1>8. LockedForRequest(r, q)
    BY <1>1, <1>2, <1>4 DEF LockedForRequest
  <1>9. Covers(q)
    BY <1>1, <1>2, <1>5, <1>6 DEF Covers
  <1> QED BY <1>2, <1>3, <1>4, <1>7, <1>8, <1>9, OwnRequest

LEMMA ExpireLockIInv ==
  ASSUME IInv, NEW r \in Requests, ExpireLock(r)
  PROVE  IInv'
  <1> DEFINE p == req[r]
             S == {t \in p.seen : Live(t, p.at)}
             q == [p EXCEPT !.step = "commit", !.held = S]
  <1>1. /\ p \in Asked /\ p.step = "expire"
        /\ OwnToken(r, p) /\ LockedForRequest(r, p) /\ Covers(p)
        /\ \A t \in p.seen : ~Held(t)
    BY DEF IInv, TypeOK, ExpireLock
  <1>2. /\ q \in Asked /\ q.step = "commit" /\ q.at = p.at
        /\ q.user = p.user /\ q.kind = p.kind /\ q.token = p.token
        /\ q.before = p.before /\ q.seen = p.seen /\ q.held = S
    BY <1>1 DEF Asked
  <1>3. /\ req' = [req EXCEPT ![r] = q]
        /\ UNCHANGED <<now, account, row, use, issued, latest, replaced, effects>>
    BY DEF ExpireLock
  <1>4. S \subseteq p.seen /\ \A t \in p.seen : t \in S \/ ~Live(t, p.at)
    OBVIOUS
  <1>5. \A t \in S : Live(t, p.at)
    OBVIOUS
  <1> HIDE DEF p, q, S
  <1>6. OwnToken(r, q)
    BY <1>1, <1>2 DEF OwnToken
  <1>7. LockedForRequest(r, q)
    BY <1>1, <1>2, <1>4, <1>5 DEF LockedForRequest, Held, Using
  <1>8. Covers(q)
    BY <1>1, <1>2, <1>4 DEF Covers
  <1> QED BY <1>2, <1>3, <1>4, <1>6, <1>7, <1>8, OwnRequest

LEMMA RequestRollbackIInv ==
  ASSUME IInv, NEW r \in Requests, RequestRollback(r)
  PROVE  IInv'
  BY Blank, RequestOver, OwnRequest DEF RequestRollback

(* The steps of an attempt to consume a token, before its commit.          *)
LEMMA ConsumeBeginIInv ==
  ASSUME IInv, NEW c \in Consumers, NEW k \in Kinds, NEW t \in Tokens, ConsumeBegin(c, k, t)
  PROVE  IInv'
  <1> DEFINE x == [step |-> "begun", kind |-> k, token |-> t, at |-> now]
  <1>1. x \in Attempt
    BY DEF Attempt, IInv, TypeOK
  <1>2. LockedForUse(c, x)
    BY DEF LockedForUse
  <1> QED BY <1>1, <1>2, OwnUse DEF ConsumeBegin

LEMMA ConsumeUserTokenIInv ==
  ASSUME IInv, NEW c \in Consumers, ConsumeUserToken(c)
  PROVE  IInv'
  <1> DEFINE t == use[c].token
             x == [use[c] EXCEPT !.step = "consumed"]
  <1>1. /\ use[c] \in Attempt /\ use[c].step = "begun" /\ ~Held(t)
        /\ t \in Tokens /\ use[c].kind \in Kinds
    BY DEF IInv, TypeOK, ConsumeUserToken, LockedForUse
  <1>2. LockedForUse(c, Unused)
    BY Blank DEF LockedForUse
  <1>3. CASE Live(t, use[c].at) /\ row[t].kind = use[c].kind
    <2>1. /\ x \in Attempt /\ x.step = "consumed" /\ x.token = t
          /\ x.kind = use[c].kind /\ x.at = use[c].at
      BY <1>1 DEF Attempt
    <2>2. use' = [use EXCEPT ![c] = x]
      BY <1>3 DEF ConsumeUserToken
    <2> HIDE DEF x
    <2>3. LockedForUse(c, x)
      BY <1>1, <1>3, <2>1 DEF LockedForUse, Held, Using
    <2> QED BY <2>1, <2>2, <2>3, OwnUse DEF ConsumeUserToken
  <1>4. CASE ~(Live(t, use[c].at) /\ row[t].kind = use[c].kind)
    BY <1>2, <1>4, Blank, OwnUse DEF ConsumeUserToken
  <1> QED BY <1>3, <1>4

LEMMA ConsumeRollbackIInv ==
  ASSUME IInv, NEW c \in Consumers, ConsumeRollback(c)
  PROVE  IInv'
  <1>1. LockedForUse(c, Unused)
    BY Blank DEF LockedForUse
  <1> QED BY <1>1, Blank, OwnUse DEF ConsumeRollback

(* The clock goes on: what is refused stays so.                            *)
LEMMA TickIInv ==
  ASSUME IInv, Tick
  PROVE  IInv'
  <1>1. now \in Nat /\ now' = now + 1
    BY DEF IInv, TypeOK, Tick
  <1>2. TypeOK'
    BY <1>1 DEF IInv, TypeOK, Tick
  <1>3. ASSUME NEW r \in Requests
        PROVE  /\ OwnToken(r, req[r])'
               /\ LockedForRequest(r, req[r])'
               /\ Covers(req[r])'
    <2>1. req[r].at \in Nat
      BY DEF IInv, TypeOK, Asked
    <2> QED BY <1>1, <2>1 DEF IInv, Tick, OwnToken, LockedForRequest, Covers, Live, There, Using
  <1>4. ASSUME NEW c \in Consumers
        PROVE  LockedForUse(c, use[c])'
    BY DEF IInv, Tick, LockedForUse, Live, There, Using
  <1>5. ASSUME NEW t \in Tokens, issued[t] # NoRow, ~Live(t, now)
        PROVE  ~Live(t, now)'
    BY <1>1, <1>5, Blank DEF IInv, TypeOK, Tick, Live, There, Rows
  <1>6. ASSUME NEW u \in Users, NEW k \in Kinds
        PROVE  Lasts(u, k)'
    <2>1. ASSUME latest[u][k] # Nobody, issued[latest[u][k]] # NoRow
          PROVE  issued[latest[u][k]].expiresAt \in Nat
      BY <2>1 DEF IInv, TypeOK, Rows
    <2>2. Lasts(u, k)
      BY DEF IInv
    <2> QED BY <1>1, <2>1, <2>2 DEF Lasts, Tick, There
  <1>7. RowsIssued' /\ (\A t \in Tokens : Spent(t)') /\ replaced' = replaced
    BY DEF IInv, RowsIssued, Spent, There, Tick
  <1>8. \A t \in replaced' : issued'[t] # NoRow /\ ~Live(t, now)'
    BY <1>5, <1>7 DEF IInv, TypeOK, Tick
  <1> QED BY <1>2, <1>3, <1>4, <1>6, <1>7, <1>8 DEF IInv
-----------------------------------------------------------------------------
(* Steps that change rows. *)

\* The rows with a new one, and those of H expired; the requests without R
Rewritten(t, H, at) ==
    [x \in Tokens |-> CASE x = t   -> issued'[t]
                       [] x \in H -> [row[x] EXCEPT !.expiresAt = at]
                       [] OTHER   -> row[x]]

Without(R) == [s \in Requests |-> IF s \in R THEN Idle ELSE req[s]]

(* A new row, and those of its user and kind that the transaction holds    *)
(* are expired at the time the transaction began (CreateUserToken after    *)
(* ExpireUserTokens).  What was refused at a time stays so.                *)
LEMMA Issuing ==
  ASSUME IInv, NEW t \in Tokens, NEW u \in Users, NEW k \in Kinds,
         NEW H \in SUBSET Tokens, NEW at \in Nat, at <= now,
         issued[t] = NoRow, Issue(t, u, k),
         \A x \in H : Live(x, at) /\ issued[x].user = u /\ issued[x].kind = k,
         row' = Rewritten(t, H, at),
         UNCHANGED <<now, effects>>
  PROVE  /\ issued' \in [Tokens -> Rows \union {NoRow}]
         /\ row' \in [Tokens -> Rows \union {NoRow}]
         /\ latest' \in [Users -> [Kinds -> Tokens \union {Nobody}]]
         /\ RowsIssued'
         /\ \A x \in Tokens : Spent(x)'
         /\ \A v \in Users, j \in Kinds : Lasts(v, j)'
         /\ \A x \in Tokens \ {t} : issued'[x] = issued[x]
         /\ \A x \in Tokens \ H : x # t => row'[x] = row[x]
         /\ \A x \in H : ~Live(x, at)'
         /\ \A x \in Tokens, a \in Nat :
               issued[x] # NoRow /\ ~Live(x, a) => ~Live(x, a)'
  <1> DEFINE new == [user |-> u, kind |-> k, expiresAt |-> now + TTL, used |-> FALSE]
  <1>1. /\ new \in Rows /\ new # NoRow
        /\ new.user = u /\ new.kind = k /\ new.used = FALSE
    <2>1. now \in Nat /\ now + TTL \in Nat
      BY TokenAssumption DEF IInv, TypeOK
    <2>2. new \in Rows
      BY <2>1 DEF Rows
    <2> QED BY <2>2, Blank
  <1>2. /\ issued'[t] = new /\ row'[t] = new
        /\ \A x \in Tokens \ {t} : issued'[x] = issued[x]
        /\ issued' \in [Tokens -> Rows \union {NoRow}]
        /\ latest' = [latest EXCEPT ![u][k] = t]
    <2>1. issued' = [issued EXCEPT ![t] = new] /\ latest' = [latest EXCEPT ![u][k] = t]
      BY DEF Issue
    <2> HIDE DEF new
    <2>2. issued \in [Tokens -> Rows \union {NoRow}]
      BY DEF IInv, TypeOK
    <2>3. /\ issued'[t] = new
          /\ \A x \in Tokens \ {t} : issued'[x] = issued[x]
          /\ issued' \in [Tokens -> Rows \union {NoRow}]
      BY <1>1, <2>1, <2>2
    <2>4. t \notin H
      BY DEF IInv, RowsIssued, Live
    <2>5. row'[t] = new
      BY <2>3, <2>4 DEF Rewritten
    <2> QED BY <2>1, <2>3, <2>5
  <1> HIDE DEF new
  <1>3. \A x \in Tokens \ H : x # t => row'[x] = row[x]
    BY DEF Rewritten
  <1>4. \A x \in H : x # t /\ issued[x] # NoRow
    BY DEF IInv, RowsIssued, Live
  <1>5. ASSUME NEW x \in H
        PROVE  /\ row[x] \in Rows /\ row'[x] \in Rows
               /\ row'[x].user = row[x].user /\ row'[x].kind = row[x].kind
               /\ row'[x].used = row[x].used /\ row'[x].expiresAt = at
               /\ row[x].expiresAt > at
    <2>1. row[x] \in Rows /\ row[x].expiresAt > at
      BY DEF IInv, TypeOK, Live, There
    <2>2. row'[x] = [row[x] EXCEPT !.expiresAt = at]
      BY <1>4 DEF Rewritten
    <2> QED BY <2>1, <2>2 DEF Rows
  <1>6. row' \in [Tokens -> Rows \union {NoRow}]
    <2>1. \A x \in Tokens : row'[x] \in Rows \union {NoRow}
      BY <1>1, <1>2, <1>3, <1>5 DEF IInv, TypeOK
    <2> QED BY <2>1 DEF Rewritten
  <1>7. latest' \in [Users -> [Kinds -> Tokens \union {Nobody}]]
    BY <1>2 DEF IInv, TypeOK
  <1>8. \A x \in Tokens : x # t => There(x)' = There(x)
    BY <1>3, <1>5, Blank DEF There, Live
  <1>9. RowsIssued'
    BY <1>1, <1>2, <1>3, <1>4, <1>5, <1>8 DEF RowsIssued, IInv, There
  <1>10. ASSUME NEW x \in Tokens
         PROVE  Spent(x)'
    <2>1. Spent(x)
      BY DEF IInv
    <2>2. CASE x = t
      <3>1. \A j \in Kinds : issued[t].kind # j
        BY TokenAssumption DEF NoRow
      <3> QED BY <2>1, <2>2, <3>1 DEF Spent
    <2>3. CASE x # t
      <3>1. There(x)' => There(x) /\ row'[x].used = row[x].used
        BY <1>3, <1>5, <1>8, <2>3
      <3> QED BY <1>2, <2>1, <2>3, <3>1 DEF Spent
    <2> QED BY <2>2, <2>3
  <1>11. ASSUME NEW v \in Users, NEW j \in Kinds
         PROVE  Lasts(v, j)'
    <2>1. Lasts(v, j)
      BY DEF IInv
    <2>2. CASE v = u /\ j = k
      <3>1. latest'[v][j] = t
        BY <1>2, <2>2 DEF IInv, TypeOK
      <3>2. There(t)'
        BY <1>1, <1>2 DEF There
      <3> QED BY <1>1, <1>2, <2>2, <3>1, <3>2 DEF Lasts
    <2>3. CASE ~(v = u /\ j = k)
      <3>1. latest'[v][j] = latest[v][j] /\ latest[v][j] \in Tokens \union {Nobody}
        BY <1>2, <2>3 DEF IInv, TypeOK
      <3> DEFINE y == latest[v][j]
      <3>2. ASSUME y # Nobody
            PROVE  /\ y \in Tokens /\ y # t /\ issued'[y] = issued[y]
                   /\ row'[y] = row[y] /\ (row'[y] # NoRow <=> row[y] # NoRow)
        <4>1. y \in Tokens /\ y # t /\ y \notin H
          BY <2>1, <2>3, <3>1, <3>2 DEF Lasts
        <4> QED BY <1>2, <1>3, <4>1
      <3> QED BY <2>1, <3>1, <3>2 DEF Lasts, There
    <2> QED BY <2>2, <2>3
  <1>12. \A x \in H : ~Live(x, at)'
    BY <1>5 DEF Live
  <1>13. ASSUME NEW x \in Tokens, NEW a \in Nat, issued[x] # NoRow, ~Live(x, a)
         PROVE  ~Live(x, a)'
    <2>1. CASE x \in H
      <3>1. Live(x, at) /\ row[x].expiresAt \in Nat
        BY <1>5, <2>1 DEF Rows
      <3>2. ~(row[x].expiresAt > a)
        BY <1>13, <3>1 DEF Live
      <3>3. row'[x].expiresAt = at /\ row[x].expiresAt > at
        BY <1>5, <2>1
      <3>4. ~(row'[x].expiresAt > a)
        BY <3>1, <3>2, <3>3
      <3> QED BY <3>4 DEF Live
    <2>2. CASE x \notin H
      BY <1>3, <1>8, <1>13, <2>2 DEF Live, There
    <2> QED BY <2>1, <2>2
  <1> QED BY <1>2, <1>3, <1>6, <1>7, <1>9, <1>10, <1>11, <1>12, <1>13

(* The commit of a new row, by the transactions of R, which are over.      *)
LEMMA IssuingIInv ==
  ASSUME IInv, NEW t \in Tokens, NEW u \in Users, NEW k \in Kinds,
         NEW H \in SUBSET Tokens, NEW at \in Nat, at <= now,
         issued[t] = NoRow, Issue(t, u, k),
         \A x \in H : Live(x, at) /\ issued[x].user = u /\ issued[x].kind = k,
         row' = Rewritten(t, H, at),
         NEW R \in SUBSET Requests,
         req' = Without(R),
         \A s \in Requests \ R : req[s].token # t /\ \A x \in req[s].held : x \notin H,
         \A c \in Consumers, x \in H : ~Using(x, use[c]),
         account' \in [Users -> {"absent", "unverified", "verified"}],
         replaced' \subseteq Tokens,
         \A x \in replaced' : issued[x] # NoRow /\ (x \in H \/ ~Live(x, now)),
         UNCHANGED <<now, use, effects>>
  PROVE  IInv'
  <1>1. /\ issued' \in [Tokens -> Rows \union {NoRow}]
        /\ row' \in [Tokens -> Rows \union {NoRow}]
        /\ latest' \in [Users -> [Kinds -> Tokens \union {Nobody}]]
        /\ RowsIssued'
        /\ \A x \in Tokens : Spent(x)'
        /\ \A v \in Users, j \in Kinds : Lasts(v, j)'
        /\ \A x \in Tokens \ {t} : issued'[x] = issued[x]
        /\ \A x \in Tokens \ H : x # t => row'[x] = row[x]
        /\ \A x \in H : ~Live(x, at)'
        /\ \A x \in Tokens, a \in Nat : issued[x] # NoRow /\ ~Live(x, a) => ~Live(x, a)'
    BY Issuing
  <1>2. \A s \in Requests : req'[s] = IF s \in R THEN Idle ELSE req[s]
    BY DEF Without
  <1>3. TypeOK'
    <2>1. req' \in [Requests -> Asked]
      BY <1>2, Blank DEF IInv, TypeOK, Without
    <2> QED BY <1>1, <1>2, <2>1, Blank DEF IInv, TypeOK
  <1>4. \A x \in Tokens : Live(x, now) \/ There(x) => x # t
    BY DEF IInv, RowsIssued, Live
  <1>5. ASSUME NEW s \in Requests
        PROVE  /\ OwnToken(s, req[s])'
               /\ LockedForRequest(s, req[s])'
               /\ Covers(req[s])'
    <2>1. CASE s \in R
      <3>1. req'[s] = Idle /\ now \in Nat
        BY <1>2, <2>1 DEF IInv, TypeOK
      <3> QED BY <3>1, Blank DEF OwnToken, LockedForRequest, Covers
    <2>2. CASE s \notin R
      <3>1. /\ req'[s] = req[s] /\ req[s] \in Asked
            /\ OwnToken(s, req[s]) /\ LockedForRequest(s, req[s]) /\ Covers(req[s])
        BY <1>2, <2>2 DEF IInv, TypeOK
      <3>2. OwnToken(s, req[s])'
        <4>1. \A x \in Requests : req'[x].token \in {req[x].token, Nobody}
          BY <1>2, Blank
        <4>2. req[s].token # t
          BY <2>2
        <4> QED BY <1>1, <3>1, <4>1, <4>2, TokenAssumption DEF OwnToken
      <3>3. LockedForRequest(s, req[s])'
        <4>1. ASSUME NEW x \in req[s].held
              PROVE  Live(x, req[s].at)'
          <5>1. x \in Tokens /\ x \notin H /\ Live(x, req[s].at)
            BY <2>2, <3>1 DEF LockedForRequest, Asked
          <5>2. row'[x] = row[x]
            BY <1>1, <1>4, <5>1 DEF Live
          <5> QED BY <3>1, <5>1, <5>2 DEF Live, There
        <4>2. \A x \in Requests : req'[x].held \subseteq req[x].held
          BY <1>2, Blank
        <4> QED BY <3>1, <4>1, <4>2 DEF LockedForRequest, Using
      <3>4. Covers(req[s])'
        <4>1. \A x \in req[s].before \union req[s].seen : x \in Tokens /\ issued'[x] = issued[x]
          BY <1>1, <3>1 DEF Covers, Asked
        <4>2. \A x \in req[s].before :
                 ~Live(x, req[s].at) => ~Live(x, req[s].at)'
          BY <1>1, <3>1 DEF Covers, Asked
        <4> QED BY <3>1, <4>1, <4>2 DEF Covers
      <3> QED BY <3>2, <3>3, <3>4
    <2> QED BY <2>1, <2>2
  <1>6. ASSUME NEW c \in Consumers
        PROVE  LockedForUse(c, use[c])'
    <2>1. LockedForUse(c, use[c])
      BY DEF IInv
    <2>2. ASSUME use[c].step = "consumed"
          PROVE  row'[use[c].token] = row[use[c].token]
      <3>1. use[c].token \in Tokens /\ use[c].token \notin H /\ Live(use[c].token, use[c].at)
        BY <2>1, <2>2 DEF LockedForUse, Using
      <3> QED BY <1>1, <1>4, <3>1 DEF Live
    <2>3. \A x \in Requests : req'[x].held \subseteq req[x].held
      BY <1>2, Blank
    <2> QED BY <2>1, <2>2, <2>3 DEF LockedForUse, Live, There, Using
  <1>7. ASSUME NEW x \in replaced'
        PROVE  issued'[x] # NoRow /\ ~Live(x, now)'
    <2>1. x \in Tokens /\ now \in Nat /\ issued'[x] = issued[x]
      BY <1>1 DEF IInv, TypeOK
    <2>2. CASE x \in H
      <3>1. ~Live(x, at)' /\ row'[x] \in Rows \union {NoRow}
        BY <1>1, <2>1, <2>2
      <3> QED BY <2>1, <3>1 DEF Live, There, Rows
    <2>3. CASE ~Live(x, now)
      BY <1>1, <2>1, <2>3
    <2> QED BY <2>1, <2>2, <2>3
  <1> QED BY <1>1, <1>3, <1>5, <1>6, <1>7 DEF IInv

(* The commit of requestTokenEmail: what was there when it started is      *)
(* expired by it or was refused already.                                   *)
LEMMA RequestCommitIInv ==
  ASSUME IInv, NEW r \in Requests, RequestCommit(r)
  PROVE  IInv'
  <1> DEFINE q == req[r]
  <1>1. /\ q \in Asked /\ q.step = "commit" /\ q.held \subseteq q.seen
        /\ OwnToken(r, q) /\ LockedForRequest(r, q) /\ Covers(q)
    BY DEF IInv, TypeOK, RequestCommit
  <1>2. /\ q.token \in Tokens /\ q.user \in Users /\ q.kind \in Kinds
        /\ q.held \in SUBSET Tokens /\ q.at \in Nat /\ q.at <= now /\ issued[q.token] = NoRow
    BY <1>1 DEF Asked, OwnToken, LockedForRequest
  <1>3. /\ Issue(q.token, q.user, q.kind)
        /\ row' = Rewritten(q.token, q.held, q.at)
        /\ replaced' = replaced \union q.before
        /\ req' = [req EXCEPT ![r] = Idle]
        /\ UNCHANGED <<now, account, use, effects>>
    BY DEF RequestCommit, Rewritten
  <1> HIDE DEF q
  <1>4. req' = Without({r})
    BY <1>3 DEF IInv, TypeOK, Without
  <1>5. \A x \in q.held : Live(x, q.at) /\ issued[x].user = q.user /\ issued[x].kind = q.kind
    BY <1>1 DEF LockedForRequest, Covers
  <1>6. ASSUME NEW s \in Requests \ {r}
        PROVE  req[s].token # q.token /\ \A x \in req[s].held : x \notin q.held
    BY <1>1 DEF OwnToken, LockedForRequest
  <1>7. \A c \in Consumers, x \in q.held : ~Using(x, use[c])
    BY <1>1 DEF LockedForRequest
  <1>8. ASSUME NEW x \in replaced'
        PROVE  x \in Tokens /\ issued[x] # NoRow /\ (x \in q.held \/ ~Live(x, now))
    <2>1. CASE x \in replaced
      BY <2>1 DEF IInv, TypeOK
    <2>2. CASE x \in q.before
      <3>1. x \in Tokens /\ issued[x] # NoRow /\ (x \in q.held \/ ~Live(x, q.at))
        BY <1>1, <2>2 DEF Covers, Asked
      <3>2. ASSUME Live(x, now)
            PROVE  Live(x, q.at)
        <4>1. row[x] \in Rows /\ row[x].expiresAt > now /\ now \in Nat
          BY <3>1, <3>2 DEF IInv, TypeOK, Live, There
        <4>2. row[x].expiresAt \in Nat
          BY <4>1 DEF Rows
        <4>3. row[x].expiresAt > q.at
          BY <1>2, <4>1, <4>2
        <4> QED BY <3>2, <4>3 DEF Live
      <3> QED BY <3>1, <3>2
    <2> QED BY <1>3, <2>1, <2>2
  <1>9. account' \in [Users -> {"absent", "unverified", "verified"}]
    BY <1>3 DEF IInv, TypeOK
  <1>10. replaced' \subseteq Tokens /\ {r} \in SUBSET Requests
    BY <1>8
  <1>11. /\ Issue(q.token, q.user, q.kind)
         /\ row' = Rewritten(q.token, q.held, q.at)
         /\ UNCHANGED <<now, use, effects>>
    BY <1>3
  <1>12. \A x \in replaced' : issued[x] # NoRow /\ (x \in q.held \/ ~Live(x, now))
    BY <1>8
  <1> QED BY <1>2, <1>4, <1>5, <1>6, <1>7, <1>9, <1>10, <1>11, <1>12, IssuingIInv

(* A new user's first token.                                               *)
LEMMA RegisterIInv ==
  ASSUME IInv, NEW u \in Users, NEW t \in Tokens, Register(u, t)
  PROVE  IInv'
  <1>1. /\ Issue(t, u, Verification) /\ issued[t] = NoRow /\ Verification \in Kinds
        /\ \A s \in Requests : req[s].token # t
        /\ row' = [row EXCEPT ![t] = issued'[t]]
        /\ account' = [account EXCEPT ![u] = "unverified"]
        /\ UNCHANGED <<now, req, use, replaced, effects>>
    BY TokenAssumption DEF Register, Fresh
  <1> DEFINE H == {}
  <1>2. row' = Rewritten(t, H, 0)
    BY <1>1 DEF IInv, TypeOK, Rewritten
  <1>3. req' = Without(H)
    BY <1>1 DEF IInv, TypeOK, Without
  <1>4. account' \in [Users -> {"absent", "unverified", "verified"}]
    BY <1>1 DEF IInv, TypeOK
  <1>5. /\ replaced' \subseteq Tokens /\ 0 \in Nat /\ 0 <= now
        /\ \A x \in replaced' : issued[x] # NoRow /\ (x \in H \/ ~Live(x, now))
    BY <1>1 DEF IInv, TypeOK
  <1>6. /\ H \in SUBSET Tokens /\ H \in SUBSET Requests
        /\ \A x \in H : Live(x, 0) /\ issued[x].user = u /\ issued[x].kind = Verification
        /\ \A s \in Requests \ H : req[s].token # t /\ \A x \in req[s].held : x \notin H
        /\ \A c \in Consumers, x \in H : ~Using(x, use[c])
    BY <1>1
  <1> HIDE DEF H
  <1> QED BY <1>1, <1>2, <1>3, <1>4, <1>5, <1>6, IssuingIInv

(* The commit of what consumes a token: it was good until then, so it had  *)
(* had no effect.                                                          *)
LEMMA ConsumeCommitIInv ==
  ASSUME IInv, NEW c \in Consumers, ConsumeCommit(c)
  PROVE  IInv'
  <1> DEFINE t == use[c].token
             k == use[c].kind
             v == [row[t] EXCEPT !.used = TRUE]
  <1>1. /\ t \in Tokens /\ k \in Kinds /\ Live(t, use[c].at) /\ row[t].kind = k
        /\ \A r \in Requests : t \notin req[r].held
        /\ \A d \in Consumers \ {c} : ~Using(t, use[d])
    BY DEF IInv, ConsumeCommit, LockedForUse
  <1>2. /\ row[t] \in Rows /\ There(t) /\ ~row[t].used
        /\ issued[t] # NoRow /\ issued[t].kind = k
    BY <1>1 DEF IInv, TypeOK, RowsIssued, Live, There
  <1>3. /\ v \in Rows /\ v # NoRow /\ v.used /\ v.user = row[t].user /\ v.kind = row[t].kind
    BY <1>2, Blank DEF Rows
  <1>4. /\ row' = [row EXCEPT ![t] = v]
        /\ effects' = [effects EXCEPT ![t][k] = @ + 1]
        /\ use' = [use EXCEPT ![c] = Unused]
        /\ account' = IF k = Verification THEN [account EXCEPT ![row[t].user] = "verified"]
                                          ELSE account
        /\ UNCHANGED <<now, req, issued, latest, replaced>>
    BY DEF ConsumeCommit
  <1> HIDE DEF v, t, k
  <1>5. /\ row' \in [Tokens -> Rows \union {NoRow}] /\ row'[t] = v
        /\ \A x \in Tokens \ {t} : row'[x] = row[x]
    BY <1>1, <1>3, <1>4 DEF IInv, TypeOK
  <1>6. \A d \in Consumers : use'[d] = IF d = c THEN Unused ELSE use[d]
    BY <1>4 DEF IInv, TypeOK
  <1>7. \A j \in Kinds : effects[t][j] = 0
    <2>1. Spent(t) /\ \A j \in Kinds : effects[t][j] \in Nat
      BY <1>1 DEF IInv, TypeOK
    <2> QED BY <1>2, <2>1 DEF Spent
  <1>8. /\ effects' \in [Tokens -> [Kinds -> Nat]]
        /\ effects'[t][k] = 1 /\ \A j \in Kinds : j # k => effects'[t][j] = 0
        /\ \A x \in Tokens \ {t} : effects'[x] = effects[x]
    <2>1. effects \in [Tokens -> [Kinds -> Nat]]
      BY DEF IInv, TypeOK
    <2> QED BY <1>1, <1>4, <1>7, <2>1
  <1>9. TypeOK'
    <2>1. use' \in [Consumers -> Attempt]
      BY <1>4, Blank DEF IInv, TypeOK
    <2>2. account' \in [Users -> {"absent", "unverified", "verified"}]
      BY <1>2, <1>4 DEF IInv, TypeOK, Rows
    <2> QED BY <1>4, <1>5, <1>8, <2>1, <2>2 DEF IInv, TypeOK
  <1>10. RowsIssued'
    BY <1>2, <1>3, <1>4, <1>5 DEF IInv, RowsIssued, There
  <1>11. \A x \in Tokens, a \in Nat : ~Live(x, a) => ~Live(x, a)'
    BY <1>3, <1>5 DEF Live, There
  <1>12. ASSUME NEW r \in Requests
         PROVE  /\ OwnToken(r, req[r])'
                /\ LockedForRequest(r, req[r])'
                /\ Covers(req[r])'
    <2>1. /\ req' = req /\ issued' = issued /\ now' = now /\ req[r] \in Asked
          /\ OwnToken(r, req[r]) /\ LockedForRequest(r, req[r]) /\ Covers(req[r])
      BY <1>4 DEF IInv, TypeOK
    <2>2. OwnToken(r, req[r])'
      BY <2>1 DEF OwnToken
    <2>3. LockedForRequest(r, req[r])'
      <3>1. \A x \in req[r].held : row'[x] = row[x]
        BY <1>1, <1>5, <2>1 DEF Asked
      <3>2. \A x \in req[r].held, d \in Consumers : ~Using(x, use'[d])
        BY <1>6, <2>1, Blank DEF LockedForRequest, Using
      <3> QED BY <2>1, <3>1, <3>2 DEF LockedForRequest, Live, There
    <2>4. Covers(req[r])'
      <3>1. \A x \in req[r].before :
               ~Live(x, req[r].at) => ~Live(x, req[r].at)'
        BY <1>11, <2>1 DEF Asked
      <3> QED BY <2>1, <3>1 DEF Covers
    <2> QED BY <2>2, <2>3, <2>4
  <1>13. ASSUME NEW d \in Consumers
         PROVE  LockedForUse(d, use[d])'
    <2>1. CASE d = c
      BY <1>6, <2>1, Blank DEF LockedForUse
    <2>2. CASE d # c
      <3>1. LockedForUse(d, use[d]) /\ use'[d] = use[d] /\ req' = req
        BY <1>4, <1>6, <2>2 DEF IInv
      <3>2. ASSUME use[d].step = "consumed"
            PROVE  row'[use[d].token] = row[use[d].token]
        BY <1>1, <1>5, <2>2, <3>1, <3>2 DEF LockedForUse, Using
      <3>3. \A e \in Consumers, x \in Tokens : Using(x, use'[e]) => Using(x, use[e])
        BY <1>6, Blank DEF Using
      <3> QED BY <3>1, <3>2, <3>3 DEF LockedForUse, Live, There
    <2> QED BY <2>1, <2>2
  <1>14. ASSUME NEW x \in Tokens
         PROVE  Spent(x)'
    <2>1. CASE x = t
      BY <1>2, <1>3, <1>4, <1>5, <1>8, <2>1 DEF Spent
    <2>2. CASE x # t
      BY <1>4, <1>5, <1>8, <2>2 DEF IInv, Spent, There
    <2> QED BY <2>1, <2>2
  <1>15. ASSUME NEW u \in Users, NEW j \in Kinds
         PROVE  Lasts(u, j)'
    <2>1. Lasts(u, j) /\ latest' = latest /\ issued' = issued /\ now' = now
      BY <1>4 DEF IInv
    <2>2. latest[u][j] \in Tokens \union {Nobody}
      BY DEF IInv, TypeOK
    <2>3. CASE latest[u][j] = t
      BY <1>2, <1>8, <2>1, <2>3 DEF Lasts
    <2>4. CASE latest[u][j] # t
      BY <1>5, <1>8, <2>1, <2>2, <2>4 DEF Lasts, There
    <2> QED BY <2>3, <2>4
  <1>16. \A x \in replaced' : issued'[x] # NoRow /\ ~Live(x, now)'
    <2>1. replaced \subseteq Tokens /\ now \in Nat /\ now' = now /\ replaced' = replaced
      BY <1>4 DEF IInv, TypeOK
    <2>2. \A x \in Tokens : ~Live(x, now) => ~Live(x, now)'
      BY <1>3, <1>5, <2>1 DEF Live, There
    <2> QED BY <1>4, <2>1, <2>2 DEF IInv
  <1> QED BY <1>9, <1>10, <1>12, <1>13, <1>14, <1>15, <1>16 DEF IInv

(* The cleanup job takes away what is used or has expired, and is held by  *)
(* nobody.                                                                 *)
LEMMA DeleteRowsIInv ==
  ASSUME IInv, NEW S \in SUBSET Tokens, DeleteRows(S),
         \A t \in S : ~Held(t) /\ (row[t].used \/ row[t].expiresAt < now)
  PROVE  IInv'
  <1>1. /\ row' = [t \in Tokens |-> IF t \in S THEN NoRow ELSE row[t]]
        /\ UNCHANGED <<now, account, req, use, issued, latest, replaced, effects>>
    BY DEF DeleteRows
  <1>2. TypeOK'
    BY <1>1 DEF IInv, TypeOK
  <1>3. \A t \in Tokens : There(t)' => There(t) /\ row'[t] = row[t]
    BY <1>1 DEF There
  <1>4. \A t \in Tokens \ S : row'[t] = row[t]
    BY <1>1
  <1>5. ASSUME NEW r \in Requests
        PROVE  /\ OwnToken(r, req[r])'
               /\ LockedForRequest(r, req[r])'
               /\ Covers(req[r])'
    <2>1. /\ req[r] \in Asked /\ \A t \in req[r].held : t \in Tokens \ S
          /\ OwnToken(r, req[r]) /\ LockedForRequest(r, req[r]) /\ Covers(req[r])
      BY DEF IInv, TypeOK, Held, Asked
    <2>2. LockedForRequest(r, req[r])'
      BY <1>1, <1>4, <2>1 DEF LockedForRequest, Live, There, Using
    <2>3. Covers(req[r])'
      BY <1>1, <1>3, <2>1 DEF Covers, Live, Asked
    <2> QED BY <1>1, <2>1, <2>2, <2>3 DEF OwnToken
  <1>6. ASSUME NEW c \in Consumers
        PROVE  LockedForUse(c, use[c])'
    <2>1. LockedForUse(c, use[c])
      BY DEF IInv
    <2>2. ASSUME use[c].step = "consumed"
          PROVE  use[c].token \in Tokens \ S
      BY <2>1, <2>2 DEF LockedForUse, Held
    <2> QED BY <1>1, <1>4, <2>1, <2>2 DEF LockedForUse, Live, There, Using
  <1>7. \A t \in Tokens : Spent(t)'
    BY <1>1, <1>3 DEF IInv, Spent
  <1>8. ASSUME NEW u \in Users, NEW k \in Kinds
        PROVE  Lasts(u, k)'
    <2> DEFINE t == latest[u][k]
    <2>1. Lasts(u, k) /\ now \in Nat /\ t \in Tokens \union {Nobody}
      BY DEF IInv, TypeOK
    <2>2. ASSUME t # Nobody, t \in S, ~row[t].used, row[t].expiresAt = issued[t].expiresAt
          PROVE  now >= issued[t].expiresAt
      <3>1. row[t].expiresAt < now /\ row[t].expiresAt \in Nat
        BY <2>2 DEF IInv, TypeOK, Rows, NoRow
      <3> QED BY <2>1, <2>2, <3>1
    <2> QED BY <1>1, <1>4, <2>1, <2>2 DEF Lasts, There
  <1>9. RowsIssued' /\ \A t \in replaced' : issued'[t] # NoRow /\ ~Live(t, now)'
    BY <1>1, <1>3 DEF IInv, TypeOK, RowsIssued, Live
  <1> QED BY <1>2, <1>5, <1>6, <1>7, <1>8, <1>9 DEF IInv

-----------------------------------------------------------------------------

(* Every step keeps the inductive invariant.                               *)
LEMMA NextIInv == IInv /\ [Next]_vars => IInv'
  <1> SUFFICES ASSUME IInv, [Next]_vars PROVE IInv'
    OBVIOUS
  <1>1. ASSUME NEW r \in Requests, Request(r)
        PROVE  IInv'
    BY <1>1, RequestStartIInv, RequestBeginIInv, ExpireScanIInv, ExpireLockIInv,
       RequestCommitIInv, RequestRollbackIInv DEF Request
  <1>2. ASSUME NEW u \in Users, NEW t \in Tokens, Register(u, t)
        PROVE  IInv'
    BY <1>2, RegisterIInv
  <1>3. ASSUME NEW c \in Consumers, Consume(c)
        PROVE  IInv'
    BY <1>3, ConsumeBeginIInv, ConsumeUserTokenIInv, ConsumeCommitIInv, ConsumeRollbackIInv
       DEF Consume
  <1>4. CASE DeleteExpiredUserTokens
    <2> DEFINE S == {t \in Tokens : /\ There(t) /\ ~row[t].used /\ ~Held(t)
                                    /\ row[t].expiresAt < now}
    <2>1. S \in SUBSET Tokens /\ DeleteRows(S)
      BY <1>4 DEF DeleteExpiredUserTokens
    <2>2. \A t \in S : ~Held(t) /\ (row[t].used \/ row[t].expiresAt < now)
      OBVIOUS
    <2> HIDE DEF S
    <2> QED BY <2>1, <2>2, DeleteRowsIInv
  <1>5. CASE DeleteUsedUserTokens
    <2> DEFINE S == {t \in Tokens : There(t) /\ row[t].used /\ ~Held(t)}
    <2>1. S \in SUBSET Tokens /\ DeleteRows(S)
      BY <1>5 DEF DeleteUsedUserTokens
    <2>2. \A t \in S : ~Held(t) /\ (row[t].used \/ row[t].expiresAt < now)
      OBVIOUS
    <2> HIDE DEF S
    <2> QED BY <2>1, <2>2, DeleteRowsIInv
  <1>6. CASE UNCHANGED vars
    BY <1>6 DEF vars, IInv, TypeOK, RowsIssued, OwnToken, LockedForRequest, LockedForUse,
                Covers, Spent, Lasts, Live, There, Using
  <1> QED BY <1>1, <1>2, <1>3, <1>4, <1>5, <1>6, TickIInv DEF Next

(* IInv holds throughout: locks exclude each other, and no row changes but *)
(* under one.                                                              *)
THEOREM Invariance == Spec => []IInv
  BY InitIInv, NextIInv, PTL DEF Spec

(* The rows are those of user_tokens, and a transaction holds no more than *)
(* what it saw (requestTokenEmail).                                        *)
THEOREM Types == Spec => []TypeOK
  <1>1. IInv => TypeOK
    BY DEF IInv
  <1> QED BY <1>1, Invariance, PTL

(* However many VerifyEmail, ResetPassword and RecoverAccount ask at once, *)
(* a token takes effect once, for the kind it was issued for.              *)
THEOREM OneEffect == Spec => []ConsumedOnce
  <1>1. ASSUME IInv
        PROVE  ConsumedOnce
    <2> SUFFICES ASSUME NEW t \in Tokens, NEW k \in Kinds
                 PROVE  effects[t][k] <= (IF issued[t].kind = k THEN 1 ELSE 0)
      BY DEF ConsumedOnce
    <2>1. effects[t][k] \in Nat /\ Spent(t)
      BY <1>1 DEF IInv, TypeOK
    <2> QED BY <2>1 DEF Spent
  <1> QED BY <1>1, Invariance, PTL

(* A token that was there when a request for its kind started is refused   *)
(* from the answer to that request on, whatever overlapped it              *)
(* (ExpireUserTokens, then the commit).                                    *)
THEOREM Replaced == Spec => []ReplacedIsDead
  <1>1. IInv => ReplacedIsDead
    BY DEF IInv, ReplacedIsDead
  <1> QED BY <1>1, Invariance, PTL

(* The token mailed last is good until it is used or its life is over: no  *)
(* overlapping requestTokenEmail and no CleanupWorker takes it away.       *)
THEOREM LastIsGood == Spec => []LatestIsGood
  <1>1. ASSUME IInv
        PROVE  LatestIsGood
    <2> SUFFICES ASSUME NEW u \in Users, NEW k \in Kinds, latest[u][k] # Nobody
                 PROVE  \/ effects[latest[u][k]][k] > 0
                        \/ now >= issued[latest[u][k]].expiresAt
                        \/ Live(latest[u][k], now)
      BY DEF LatestIsGood
    <2>1. /\ Lasts(u, k) /\ now \in Nat /\ latest[u][k] \in Tokens
          /\ issued[latest[u][k]] \in Rows
      BY <1>1 DEF IInv, TypeOK, Lasts
    <2>2. issued[latest[u][k]].expiresAt \in Nat
      BY <2>1 DEF Rows
    <2> QED BY <2>1, <2>2 DEF Lasts, Live
  <1> QED BY <1>1, Invariance, PTL

(* A transaction's locks are its own: no token is held by two of them, and *)
(* what is held stays good until the commit (ExpireUserTokens and          *)
(* ConsumeUserToken update the rows they lock).                            *)
LocksExclude ==
    \A r \in Requests, t \in Tokens :
        t \in req[r].held =>
            /\ Live(t, req[r].at)
            /\ \A s \in Requests \ {r} : t \notin req[s].held
            /\ \A c \in Consumers : ~(use[c].step = "consumed" /\ use[c].token = t)

THEOREM Exclusion == Spec => []LocksExclude
  <1>1. IInv => LocksExclude
    BY DEF IInv, LocksExclude, LockedForRequest, Using
  <1> QED BY <1>1, Invariance, PTL

(* A token that is refused is refused for good: no statement that writes   *)
(* expires_at or used_at, and no commit, makes it usable again             *)
(* (ExpireUserTokens, ConsumeUserToken, CreateUserToken).                  *)
RefusedForGood ==
    [][\A t \in Tokens : issued[t] # NoRow /\ ~Live(t, now) => ~Live(t, now)']_vars

THEOREM NoRevival == Spec => RefusedForGood
  <1> DEFINE R == \A t \in Tokens : issued[t] # NoRow /\ ~Live(t, now) => ~Live(t, now)'
  <1>1. ASSUME IInv, Next
        PROVE  R
    <2> SUFFICES ASSUME NEW t \in Tokens, issued[t] # NoRow, Live(t, now)'
                 PROVE  Live(t, now)
      OBVIOUS
    <2>1. now \in Nat /\ row[t] \in Rows \union {NoRow}
      BY <1>1 DEF IInv, TypeOK
    <2>2. CASE row'[t] = row[t] /\ now' \in {now, now + 1}
      <3>1. row[t] \in Rows /\ row[t].expiresAt \in Nat
        BY <2>1, <2>2 DEF Live, There, Rows
      <3>2. now <= now'
        BY <2>1, <2>2
      <3>3. row[t].expiresAt > now
        BY <2>1, <2>2, <3>1, <3>2 DEF Live
      <3> QED BY <2>2, <3>3 DEF Live, There
    <2>3. ASSUME NEW r \in Requests, RequestCommit(r)
          PROVE  row'[t] = row[t] /\ now' = now
      <3> DEFINE q == req[r]
      <3>1. /\ q.token # t /\ q.at \in Nat /\ q.at <= now
            /\ q.step = "commit"
        BY <1>1, <2>3 DEF IInv, TypeOK, Asked, OwnToken, LockedForRequest, RequestCommit
      <3>2. /\ row' = Rewritten(q.token, q.held, q.at)
            /\ now' = now
        BY <2>3 DEF RequestCommit, Rewritten
      <3>3. CASE t \in q.held
        <4>1. row'[t] = [row[t] EXCEPT !.expiresAt = q.at] /\ Live(t, q.at)
          BY <1>1, <3>1, <3>2, <3>3 DEF Rewritten, IInv, LockedForRequest
        <4>2. row[t] \in Rows
          BY <2>1, <4>1 DEF Live, There
        <4>3. row'[t].expiresAt = q.at
          BY <4>1, <4>2 DEF Rows
        <4> QED BY <2>1, <3>1, <3>2, <4>3 DEF Live
      <3>4. CASE t \notin q.held
        BY <3>1, <3>2, <3>4 DEF Rewritten
      <3> QED BY <3>2, <3>3, <3>4
    <2>4. ASSUME NEW u \in Users, NEW x \in Tokens, Register(u, x)
          PROVE  row'[t] = row[t] /\ now' = now
      BY <1>1, <2>4 DEF Register, Fresh, IInv, TypeOK
    <2>5. ASSUME NEW c \in Consumers, ConsumeCommit(c)
          PROVE  row'[t] = row[t] /\ now' = now
      <3>1. use[c].token \in Tokens /\ There(use[c].token)
        BY <1>1, <2>5 DEF IInv, LockedForUse, ConsumeCommit, Live
      <3>2. row' = [row EXCEPT ![use[c].token].used = TRUE] /\ now' = now
        BY <2>5 DEF ConsumeCommit
      <3>3. CASE t = use[c].token
        <4>1. row[t] \in Rows
          BY <2>1, <3>1, <3>3 DEF There
        <4>2. row'[t].used
          BY <1>1, <3>2, <3>3, <4>1 DEF IInv, TypeOK, Rows
        <4> QED BY <4>2 DEF Live
      <3>4. CASE t # use[c].token
        BY <1>1, <3>1, <3>2, <3>4 DEF IInv, TypeOK
      <3> QED BY <3>2, <3>3, <3>4
    <2>6. ASSUME NEW S, DeleteRows(S)
          PROVE  row'[t] = row[t] /\ now' = now
      BY <2>6 DEF DeleteRows, Live, There
    <2>7. ASSUME NEW r \in Requests, Request(r)
          PROVE  row'[t] = row[t] /\ now' \in {now, now + 1}
      BY <2>3, <2>7 DEF Request, RequestStart, RequestBegin, ExpireScan, ExpireLock,
                        RequestRollback
    <2>8. ASSUME NEW c \in Consumers, Consume(c)
          PROVE  row'[t] = row[t] /\ now' \in {now, now + 1}
      BY <2>5, <2>8 DEF Consume, ConsumeBegin, ConsumeUserToken, ConsumeRollback
    <2>9. row'[t] = row[t] /\ now' \in {now, now + 1}
      BY <1>1, <2>4, <2>6, <2>7, <2>8 DEF Next, Tick, DeleteExpiredUserTokens, DeleteUsedUserTokens
    <2> QED BY <2>2, <2>9
  <1>2. IInv /\ [Next]_vars => [R]_vars
    BY <1>1
  <1> QED BY <1>2, Invariance, PTL DEF Spec, RefusedForGood
=============================================================================
