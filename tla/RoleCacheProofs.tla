--------------------------- MODULE RoleCacheProofs ---------------------------
(***************************************************************************)
(* Proofs about RoleCache, for every set of users, roles and requests and  *)
(* every TTL.  IInv is inductive; the freshness of the answers and the     *)
(* implementation of BoundedStaleness follow from it.                      *)
(***************************************************************************)
EXTENDS RoleCache, TLAPS

(* The initial states satisfy the inductive invariant.                     *)
LEMMA InitIInv == Init => IInv
  BY CacheAssumption
     DEF Init, IInv, TypeOK, ReadingsPast, EntriesHeld, FillsHeld,
         AnswersAreFresh, Nobody, NoEntry, Times, Never

(* A step that only writes the record q of a request keeps the types.      *)
LEMMA RequestTyped ==
  ASSUME TypeOK, NEW r \in Requests, NEW q \in Requested,
         q.step \in {"set", "answer"} => q.value \in RoleSets,
         req' = [req EXCEPT ![r] = q]
  PROVE  /\ req' \in [Requests -> Requested \union {Nobody}]
         /\ \A s \in Requests :
               req'[s].step \in {"set", "answer"} => req'[s].value \in RoleSets
  BY DEF TypeOK

(* Every step keeps the types.                                             *)
LEMMA NextTypeOK == TypeOK /\ [Next]_vars => TypeOK'
  <1> USE CacheAssumption DEF TypeOK, Times, Entries, Requested
  <1> SUFFICES ASSUME TypeOK, [Next]_vars
               PROVE  TypeOK'
    OBVIOUS
  <1>1. ASSUME NEW r \in Requests, NEW u \in Users, Start(r, u)
        PROVE  TypeOK'
    BY <1>1 DEF Start
  <1>2. ASSUME NEW r \in Requests, Get(r)
        PROVE  TypeOK'
    <2>1. req[r] \in Requested /\ req[r].user \in Users
      BY <1>2 DEF Get, Nobody
    <2>2. ASSUME NEW step \in {"resolve", "evict"}, Goto(r, step)
          PROVE  TypeOK'
      <3> DEFINE q == [req[r] EXCEPT !.step = step]
      <3>1. q \in Requested /\ q.step = step
        BY <2>1
      <3> QED BY <1>2, <2>2, <3>1, RequestTyped DEF Get, Goto
    <2>3. CASE items[req[r].user] # NoEntry /\ Found(r, items[req[r].user].value)
      <3>1. items[req[r].user].value \in RoleSets
        BY <2>1, <2>3
      <3> DEFINE q == [req[r] EXCEPT !.step = "answer",
                                     !.value = items[req[r].user].value]
      <3>2. q \in Requested /\ q.value \in RoleSets
        BY <2>1, <3>1
      <3> QED BY <1>2, <2>3, <3>2, RequestTyped DEF Get, Found
    <2> QED BY <1>2, <2>2, <2>3 DEF Get
  <1>3. ASSUME NEW r \in Requests, Evict(r)
        PROVE  TypeOK'
    <2>1. req[r] \in Requested /\ req[r].user \in Users
      BY <1>3 DEF Evict, Nobody
    <2> QED BY <1>3, <2>1 DEF Evict, Goto
  <1>4. ASSUME NEW r \in Requests, Resolve(r)
        PROVE  TypeOK'
    <2>1. req[r] \in Requested /\ req[r].user \in Users
      BY <1>4 DEF Resolve, Nobody
    <2> DEFINE q == [req[r] EXCEPT !.step = "set", !.value = roles[req[r].user]]
    <2>2. q \in Requested /\ q.value \in RoleSets
      BY <2>1
    <2>3. req' = [req EXCEPT ![r] = q]
      BY <1>4 DEF Resolve
    <2> QED BY <1>4, <2>2, <2>3, RequestTyped DEF Resolve
  <1>5. ASSUME NEW r \in Requests, ResolveFails(r) \/ Answer(r)
        PROVE  TypeOK'
    BY <1>5 DEF ResolveFails, Answer, Nobody
  <1>6. ASSUME NEW r \in Requests, Set(r)
        PROVE  TypeOK'
    <2>1. req[r] \in Requested /\ req[r].user \in Users
      BY <1>6 DEF Set, Nobody
    <2> DEFINE q == [req[r] EXCEPT !.step = "answer", !.value = req[r].value]
    <2>2. req[r].value \in RoleSets
      BY <1>6 DEF Set
    <2>3. q \in Requested /\ q.value \in RoleSets
      BY <2>1, <2>2
    <2>4. req' = [req EXCEPT ![r] = q]
      BY <1>6 DEF Set, Found
    <2>5. items' \in [Users -> Entries \union {NoEntry}]
      BY <1>6, <2>1, <2>2 DEF Set, Found
    <2> QED BY <1>6, <2>3, <2>4, <2>5, RequestTyped DEF Set
  <1>7. CASE SweepStart \/ Sweep
    <2>1. CASE SweepStart
      BY <2>1 DEF SweepStart
    <2>2. CASE Sweep
      BY <2>2 DEF Sweep
    <2> QED BY <1>7, <2>1, <2>2
  <1>8. ASSUME NEW u \in Users, NEW v \in RoleSets, ChangeRoles(u, v)
        PROVE  TypeOK'
    BY <1>8 DEF ChangeRoles
  <1>9. CASE Tick \/ UNCHANGED vars
    BY <1>9 DEF Tick, vars
  <1> QED
    BY <1>1, <1>2, <1>3, <1>4, <1>5, <1>6, <1>7, <1>8, <1>9 DEF Next, Request

(* A step that leaves the database and the cache alone keeps the rest of   *)
(* the invariant when it does so for the one request it writes.            *)
LEMMA RequestHeld ==
  ASSUME IInv, TypeOK', NEW r \in Requests, NEW q \in Requested,
         req' = [req EXCEPT ![r] = q],
         UNCHANGED <<now, roles, lastHeld, items, sweep>>,
         q.at <= now,
         q.step = "set" => HeldSince(q.user, q.value, q.at),
         q.step = "answer" => HeldSince(q.user, q.value, q.at - TTL)
  PROVE  IInv'
  <1> USE DEF IInv, TypeOK
  <1>1. ReadingsPast'
    BY DEF ReadingsPast
  <1>2. EntriesHeld'
    BY DEF EntriesHeld, HeldSince
  <1>3. FillsHeld'
    BY DEF FillsHeld, HeldSince
  <1>4. AnswersAreFresh'
    BY DEF AnswersAreFresh, HeldSince
  <1> QED BY <1>1, <1>2, <1>3, <1>4

(* Every step of RoleCache preserves the inductive invariant.              *)
LEMMA NextIInv == IInv /\ [Next]_vars => IInv'
  <1> SUFFICES ASSUME IInv, [Next]_vars
               PROVE  IInv'
    OBVIOUS
  <1>0. TypeOK /\ TypeOK'
    BY NextTypeOK DEF IInv
  <1> USE CacheAssumption
  <1>1. ASSUME NEW r \in Requests, NEW u \in Users, Start(r, u)
        PROVE  IInv'
    <2> DEFINE q == [step |-> "get", user |-> u, at |-> now, value |-> NoRoles]
    <2>1. q \in Requested /\ q.at <= now
      BY <1>0 DEF Requested, TypeOK
    <2> QED BY <1>0, <1>1, <2>1, RequestHeld DEF Start
  <1>2. ASSUME NEW r \in Requests, Get(r)
        PROVE  IInv'
    <2>1. /\ req[r] \in Requested
          /\ req[r].user \in Users
          /\ req[r].at <= now
      BY <1>0, <1>2 DEF Get, IInv, TypeOK, ReadingsPast, Nobody, Requested
    <2>2. ASSUME NEW step \in {"resolve", "evict"}, Goto(r, step)
          PROVE  IInv'
      <3> DEFINE q == [req[r] EXCEPT !.step = step]
      <3>1. q \in Requested /\ q.step = step /\ q.at <= now
        BY <2>1 DEF Requested
      <3>2. req' = [req EXCEPT ![r] = q]
        BY <2>2 DEF Goto
      <3> QED BY <1>0, <1>2, <3>1, <3>2, RequestHeld DEF Get
    <2>3. ASSUME items[req[r].user] # NoEntry,
                 ~Expired(items[req[r].user], req[r].at),
                 Found(r, items[req[r].user].value)
          PROVE  IInv'
      <3> DEFINE e == items[req[r].user]
                 q == [req[r] EXCEPT !.step = "answer", !.value = e.value]
      <3>1. e \in Entries
        BY <1>0, <2>1, <2>3 DEF TypeOK
      <3>2. /\ q \in Requested /\ q.step = "answer" /\ q.value = e.value
            /\ q.at = req[r].at /\ q.user = req[r].user
        BY <2>1, <3>1 DEF Requested, Entries
      <3>3. HeldSince(q.user, e.value, e.expiresAt - TTL)
        BY <2>1, <2>3, <3>2 DEF IInv, EntriesHeld
      <3>4. e.expiresAt \in Nat /\ q.at \in Nat /\ ~(q.at > e.expiresAt)
        BY <2>1, <2>3, <3>1, <3>2 DEF Expired, Entries, Requested
      <3>5. lastHeld[q.user][e.value] \in Int
        BY <1>0, <2>1, <3>1, <3>2 DEF TypeOK, Entries, Times, Never
      <3>6. HeldSince(q.user, q.value, q.at - TTL)
        BY <3>2, <3>3, <3>4, <3>5 DEF HeldSince
      <3>7. req' = [req EXCEPT ![r] = q]
        BY <2>3 DEF Found
      <3> HIDE DEF q, e
      <3> QED BY <1>0, <1>2, <2>1, <3>2, <3>6, <3>7, RequestHeld DEF Get
    <2> QED BY <1>2, <2>2, <2>3 DEF Get
  <1>3. ASSUME NEW r \in Requests, Evict(r)
        PROVE  IInv'
    <2> DEFINE q == [req[r] EXCEPT !.step = "resolve"]
    <2>1. /\ req[r] \in Requested
          /\ req[r].at <= now
      BY <1>0, <1>3 DEF Evict, IInv, TypeOK, ReadingsPast, Nobody
    <2>2. q \in Requested /\ q.step = "resolve" /\ q.at = req[r].at
      BY <2>1 DEF Requested
    <2>3. req' = [req EXCEPT ![r] = q]
      BY <1>3 DEF Evict, Goto
    <2> HIDE DEF q
    <2>4. \A u \in Users : items'[u] # NoEntry => items'[u] = items[u]
      BY <1>0, <1>3 DEF Evict, TypeOK
    <2>5. ReadingsPast'
      BY <1>0, <1>3, <2>1, <2>2, <2>3, <2>4 DEF Evict, IInv, ReadingsPast, TypeOK
    <2>6. EntriesHeld'
      BY <1>0, <1>3, <2>4 DEF Evict, IInv, EntriesHeld, HeldSince
    <2>7. FillsHeld' /\ AnswersAreFresh'
      BY <1>0, <1>3, <2>2, <2>3
         DEF Evict, IInv, FillsHeld, AnswersAreFresh, HeldSince, TypeOK
    <2> QED BY <1>0, <2>5, <2>6, <2>7 DEF IInv
  <1>4. ASSUME NEW r \in Requests, Resolve(r)
        PROVE  IInv'
    <2> DEFINE q == [req[r] EXCEPT !.step = "set", !.value = roles[req[r].user]]
    <2>1. /\ req[r] \in Requested
          /\ req[r].at <= now
      BY <1>0, <1>4 DEF Resolve, IInv, TypeOK, ReadingsPast, Nobody
    <2>2. /\ q \in Requested /\ q.step = "set" /\ q.at = req[r].at
          /\ q.value = roles[q.user]
      BY <1>0, <2>1 DEF Requested, TypeOK
    <2>3. req' = [req EXCEPT ![r] = q]
      BY <1>4 DEF Resolve
    <2> HIDE DEF q
    <2>4. HeldSince(q.user, q.value, q.at)
      BY <2>2 DEF HeldSince
    <2> QED BY <1>0, <1>4, <2>1, <2>2, <2>3, <2>4, RequestHeld DEF Resolve
  <1>5. ASSUME NEW r \in Requests, ResolveFails(r) \/ Answer(r)
        PROVE  IInv'
    <2>1. /\ req' = [req EXCEPT ![r] = Nobody]
          /\ UNCHANGED <<now, roles, lastHeld, items, sweep>>
      BY <1>5 DEF ResolveFails, Answer
    <2>2. Nobody.step = "idle"
      BY DEF Nobody
    <2>3. ReadingsPast' /\ EntriesHeld'
      BY <1>0, <2>1 DEF IInv, ReadingsPast, EntriesHeld, HeldSince, TypeOK
    <2>4. FillsHeld' /\ AnswersAreFresh'
      BY <1>0, <2>1, <2>2 DEF IInv, FillsHeld, AnswersAreFresh, HeldSince, TypeOK
    <2> QED BY <1>0, <2>3, <2>4 DEF IInv
  <1>6. ASSUME NEW r \in Requests, Set(r)
        PROVE  IInv'
    <2> DEFINE q == [req[r] EXCEPT !.step = "answer", !.value = req[r].value]
               e == [value |-> req[r].value, expiresAt |-> req[r].at + TTL]
    <2>1. /\ req[r] \in Requested
          /\ req[r].at <= now
          /\ req[r].at \in Nat
          /\ req[r].user \in Users
          /\ req[r].value \in RoleSets
          /\ HeldSince(req[r].user, req[r].value, req[r].at)
      BY <1>0, <1>6 DEF Set, IInv, TypeOK, ReadingsPast, FillsHeld, Nobody, Requested
    <2>2. /\ q \in Requested /\ q.step = "answer" /\ q.value = req[r].value
          /\ q.at = req[r].at /\ q.user = req[r].user
      BY <2>1 DEF Requested
    <2>3. req' = [req EXCEPT ![r] = q]
      BY <1>6 DEF Set, Found
    <2> HIDE DEF q
    <2>4. e.expiresAt - TTL = req[r].at
      BY <2>1
    <2>5. \/ items' = items
          \/ items' = [items EXCEPT ![req[r].user] = e]
      BY <1>6 DEF Set
    <2>6. ReadingsPast'
      BY <1>0, <1>6, <2>1, <2>2, <2>3, <2>4, <2>5 DEF Set, IInv, ReadingsPast, TypeOK
    <2>7. EntriesHeld'
      BY <1>0, <1>6, <2>1, <2>4, <2>5 DEF Set, IInv, EntriesHeld, HeldSince, TypeOK
    <2>8. FillsHeld'
      BY <1>0, <1>6, <2>2, <2>3 DEF Set, IInv, FillsHeld, HeldSince, TypeOK
    <2>9. HeldSince(q.user, q.value, q.at - TTL)
      <3>1. lastHeld[req[r].user][req[r].value] \in Int
        BY <1>0, <2>1 DEF TypeOK, Times, Never
      <3> QED BY <2>1, <2>2, <3>1 DEF HeldSince
    <2>10. AnswersAreFresh'
      BY <1>0, <1>6, <2>2, <2>3, <2>9 DEF Set, IInv, AnswersAreFresh, HeldSince, TypeOK
    <2> QED BY <1>0, <2>6, <2>7, <2>8, <2>10 DEF IInv
  <1>7. CASE SweepStart
    BY <1>0, <1>7 DEF SweepStart, IInv, TypeOK, ReadingsPast, EntriesHeld, FillsHeld,
                      AnswersAreFresh, HeldSince
  <1>8. CASE Sweep
    <2>1. \A u \in Users : items'[u] # NoEntry => items'[u] = items[u]
      BY <1>0, <1>8 DEF Sweep, TypeOK
    <2>2. ReadingsPast'
      BY <1>0, <1>8, <2>1 DEF Sweep, IInv, ReadingsPast, TypeOK, Never
    <2>3. EntriesHeld' /\ FillsHeld' /\ AnswersAreFresh'
      BY <1>0, <1>8, <2>1
         DEF Sweep, IInv, EntriesHeld, FillsHeld, AnswersAreFresh, HeldSince
    <2> QED BY <1>0, <2>2, <2>3 DEF IInv
  <1>9. ASSUME NEW a \in Users, NEW b \in RoleSets, ChangeRoles(a, b)
        PROVE  IInv'
    <2>1. ReadingsPast'
      BY <1>9 DEF ChangeRoles, IInv, ReadingsPast
    <2>2. EntriesHeld'
      <3> SUFFICES ASSUME NEW u \in Users, items[u] # NoEntry
                   PROVE  HeldSince(u, items[u].value, items[u].expiresAt - TTL)'
        BY <1>9 DEF EntriesHeld, ChangeRoles
      <3>1. /\ items[u].value \in RoleSets
            /\ items[u].expiresAt - TTL \in Int
            /\ items[u].expiresAt - TTL <= now
            /\ HeldSince(u, items[u].value, items[u].expiresAt - TTL)
        BY <1>0 DEF IInv, EntriesHeld, ReadingsPast, TypeOK, Entries
      <3> DEFINE t == items[u].expiresAt - TTL
                 v == items[u].value
      <3>2. HeldSince(u, v, t)'
        BY <1>0, <1>9, <3>1 DEF ChangeRoles, HeldSince, TypeOK
      <3> QED BY <3>2
    <2>3. ASSUME NEW r \in Requests, req[r].step \in {"set", "answer"}
          PROVE  /\ req[r].user \in Users
                 /\ req[r].value \in RoleSets
                 /\ req[r].at \in Nat
                 /\ req[r].at <= now
      BY <1>0, <2>3 DEF IInv, ReadingsPast, TypeOK, Requested, Nobody
    <2>4. FillsHeld'
      BY <1>0, <1>9, <2>3 DEF IInv, FillsHeld, ChangeRoles, HeldSince, TypeOK
    <2>5. AnswersAreFresh'
      BY <1>0, <1>9, <2>3 DEF IInv, AnswersAreFresh, ChangeRoles, HeldSince, TypeOK
    <2> QED BY <1>0, <2>1, <2>2, <2>4, <2>5 DEF IInv
  <1>10. CASE Tick \/ UNCHANGED vars
    <2>1. ReadingsPast'
      <3>1. now <= now' /\ now' \in Int /\ now \in Int
        BY <1>0, <1>10 DEF Tick, vars, TypeOK
      <3> QED BY <1>0, <1>10, <3>1
              DEF Tick, vars, IInv, ReadingsPast, TypeOK, Entries, Requested, Times, Never
    <2> QED BY <1>0, <1>10, <2>1
            DEF Tick, vars, IInv, EntriesHeld, FillsHeld, AnswersAreFresh, HeldSince
  <1> QED
    BY <1>1, <1>2, <1>3, <1>4, <1>5, <1>6, <1>7, <1>8, <1>9, <1>10 DEF Next, Request

(* The map, the requests and the clock readings hold what the code can put *)
(* in them (entry, Cache and resolveRoleNames).                            *)
THEOREM Types == Spec => []TypeOK
  <1>1. Init => TypeOK
    BY InitIInv DEF IInv
  <1> QED BY <1>1, NextTypeOK, PTL DEF Spec

(* IInv holds throughout: the cache never holds a value older than its     *)
(* expiry says.                                                            *)
THEOREM Invariance == Spec => []IInv
  BY InitIInv, NextIInv, PTL DEF Spec

(* RequireRoles never judges a request by roles its user had lost more     *)
(* than TTL before the request came.                                       *)
THEOREM Freshness == Spec => []AnswersAreFresh
  <1>1. IInv => AnswersAreFresh
    BY DEF IInv
  <1> QED BY <1>1, Invariance, PTL

(* Get and Sweep remove expired entries only.                              *)
THEOREM Removal == Spec => OnlyExpiredRemoved
  <1>1. ASSUME IInv, [Next]_vars,
               NEW u \in Users, items[u] # NoEntry, items'[u] = NoEntry
        PROVE  now > items[u].expiresAt
    <2> USE DEF IInv, TypeOK
    <2>1. CASE \E r \in Requests : Evict(r)
      <3>1. PICK r \in Requests : Evict(r)
        BY <2>1
      <3>2. Expired(items[u], req[r].at) /\ req[r] # Nobody
        BY <1>1, <3>1 DEF Evict, Nobody
      <3>3. items[u] \in Entries /\ req[r] \in Requested /\ req[r].at <= now
        BY <1>1, <3>2 DEF ReadingsPast
      <3> QED BY <1>1, <3>2, <3>3 DEF Expired, Entries, Requested
    <2>2. CASE Sweep
      <3>1. Expired(items[u], sweep)
        BY <1>1, <2>2 DEF Sweep
      <3> QED BY <1>1, <3>1 DEF Expired, ReadingsPast, Entries, Times, Never
    <2>3. CASE \E r \in Requests : Set(r)
      <3>1. PICK r \in Requests : Set(r)
        BY <2>3
      <3>2. req[r] \in Requested /\ req[r].value \in RoleSets
        BY <1>1, <3>1 DEF Set, Nobody
      <3>3. req[r].value # NoRoles
        BY <3>2, CacheAssumption
      <3> QED BY <1>1, <3>1, <3>3 DEF Set, NoEntry
    <2>4. CASE items' = items
      BY <1>1, <2>4
    <2> QED
      BY <1>1, <2>1, <2>2, <2>3, <2>4
         DEF Next, Request, Start, Get, Resolve, ResolveFails, Answer,
             SweepStart, ChangeRoles, Tick, vars
  <1>2. IInv /\ [Next]_vars
          => [\A u \in Users : items[u] # NoEntry /\ items'[u] = NoEntry
                                => now > items[u].expiresAt]_vars
    BY <1>1
  <1> QED BY <1>2, Invariance, PTL DEF Spec, OnlyExpiredRemoved

(* RoleCache implements BoundedStaleness with a bound of TTL: each of its  *)
(* steps is a step of the abstract specification or changes nothing there. *)
THEOREM Implementation == Spec => KeepsPromise
  <1> USE DEF IInv
  <1>1. Init => Promise!Init
    BY DEF Init, Promise!Init, asked, Nobody, Never, Promise!Nobody, Promise!Never
  <1>2. ASSUME IInv, [Next]_vars
        PROVE  [Promise!Next]_(Promise!vars)
    <2>1. ASSUME NEW r \in Requests, NEW u \in Users, Start(r, u)
          PROVE  Promise!Ask(r, u)
      <3>1. asked' = [asked EXCEPT ![r] = [state |-> "asked", user |-> u,
                                           at |-> now, value |-> NoRoles]]
        BY <1>2, <2>1 DEF Start, asked, TypeOK
      <3>2. asked[r].state = "idle"
        BY <2>1 DEF Start, asked
      <3> QED BY <2>1, <3>1, <3>2 DEF Start, Promise!Ask
    <2>2. ASSUME NEW r \in Requests, Answer(r) \/ ResolveFails(r)
          PROVE  Promise!Leave(r)
      <3>1. req' = [req EXCEPT ![r] = Nobody]
        BY <2>2 DEF Answer, ResolveFails
      <3>2. /\ Nobody.step = "idle" /\ Nobody.user = NoRoles
            /\ Nobody.at = Never
        BY DEF Nobody
      <3>3. \A s \in Requests : req'[s] = IF s = r THEN Nobody ELSE req[s]
        BY <1>2, <3>1 DEF TypeOK
      <3>4. asked' = [asked EXCEPT ![r] = [state |-> "idle", user |-> NoRoles,
                                           at |-> Never, value |-> NoRoles]]
        BY <3>2, <3>3 DEF asked
      <3> QED BY <2>2, <3>4 DEF Answer, ResolveFails, Promise!Leave,
                                Promise!Nobody, Promise!Never, Never
    <2>3. ASSUME NEW r \in Requests, NEW step \in {"resolve", "evict"},
                 req[r].step \in {"get", "evict"}, Goto(r, step)
          PROVE  asked' = asked
      BY <1>2, <2>3 DEF Goto, asked, TypeOK, Requested, Nobody
    <2>4. ASSUME NEW r \in Requests, Resolve(r)
          PROVE  asked' = asked
      BY <1>2, <2>4 DEF Resolve, asked, TypeOK, Requested, Nobody
    <2>5. ASSUME NEW r \in Requests, NEW v \in RoleSets,
                 req[r].step \in {"get", "set"}, Found(r, v),
                 UNCHANGED <<now, roles, lastHeld>>
          PROVE  Promise!Answer(r, v)
      <3>1. req[r] \in Requested /\ asked[r].state = "asked"
        BY <1>2, <2>5 DEF TypeOK, Nobody, asked
      <3>2. asked' = [asked EXCEPT ![r] = [@ EXCEPT !.state = "answered", !.value = v]]
        BY <1>2, <2>5, <3>1 DEF Found, asked, TypeOK, Requested
      <3>3. /\ req'[r].step = "answer" /\ req'[r].value = v
            /\ req'[r].user = req[r].user /\ req'[r].at = req[r].at
        BY <1>2, <2>5, <3>1 DEF Found, TypeOK, Requested
      <3>4. HeldSince(req[r].user, v, req[r].at - TTL)
        BY <1>2, <2>5, <3>3, NextIInv DEF AnswersAreFresh, HeldSince
      <3>5. Promise!HeldSince(asked[r].user, v, asked[r].at - TTL)
        BY <3>4 DEF HeldSince, Promise!HeldSince, asked
      <3>6. asked' = [asked EXCEPT ![r].state = "answered", ![r].value = v]
        BY <3>2 DEF asked
      <3> QED BY <2>5, <3>1, <3>5, <3>6 DEF Promise!Answer
    <2>6. ASSUME NEW r \in Requests, Get(r)
          PROVE  [Promise!Next]_(Promise!vars)
      <3> DEFINE e == items[req[r].user]
      <3>1. CASE \E step \in {"resolve", "evict"} : Goto(r, step)
        BY <2>3, <2>6, <3>1 DEF Get, Promise!vars
      <3>2. CASE e # NoEntry /\ Found(r, e.value)
        <4>1. e.value \in RoleSets
          BY <1>2, <2>6, <3>2 DEF Get, TypeOK, Nobody, Requested, Entries
        <4> QED BY <2>5, <2>6, <3>2, <4>1 DEF Get, Promise!Next
      <3> QED BY <2>6, <3>1, <3>2 DEF Get
    <2>7. ASSUME NEW r \in Requests, Evict(r)
          PROVE  UNCHANGED Promise!vars
      BY <2>3, <2>7 DEF Evict, Promise!vars
    <2>8. ASSUME NEW r \in Requests, Set(r)
          PROVE  Promise!Next
      <3>1. req[r].value \in RoleSets
        BY <1>2, <2>8 DEF Set, TypeOK
      <3> QED BY <2>5, <2>8, <3>1 DEF Set, Promise!Next
    <2>9. CASE SweepStart \/ Sweep \/ UNCHANGED vars
      BY <2>9 DEF SweepStart, Sweep, vars, asked, Promise!vars
    <2>10. ASSUME NEW u \in Users, NEW v \in RoleSets, ChangeRoles(u, v)
           PROVE  Promise!ChangeRoles(u, v)
      BY <2>10 DEF ChangeRoles, Promise!ChangeRoles, asked
    <2>11. CASE Tick
      BY <2>11 DEF Tick, Promise!Tick, Promise!Next, asked
    <2>12. ASSUME NEW r \in Requests, Resolve(r)
           PROVE  UNCHANGED Promise!vars
      BY <2>4, <2>12 DEF Resolve, Promise!vars
    <2> QED
      BY <1>2, <2>1, <2>2, <2>6, <2>7, <2>8, <2>9, <2>10, <2>11, <2>12
         DEF Next, Request, Promise!Next
  <1> QED BY <1>1, <1>2, Invariance, PTL DEF Spec, KeepsPromise, Promise!Spec
=============================================================================
