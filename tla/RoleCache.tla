----------------------------- MODULE RoleCache -----------------------------
(***************************************************************************)
(* The authorization cache: internal/cache as RequireRoles uses it to keep *)
(* the roles of users, the cleanup job that sweeps it, and the table       *)
(* user_roles it is filled from.                                           *)
(*                                                                         *)
(* A critical section of the cache's RWMutex is one step, and so is the    *)
(* query for the roles.  resolveRoleNames reads the clock once, before     *)
(* anything else, and hands that reading to Get and to Set.                *)
(*                                                                         *)
(* Definition_Change is Definition with a plausible mistake made in it; no *)
(* specification uses it.                                                  *)
(***************************************************************************)
EXTENDS Integers

CONSTANTS
    Users,
    RoleSets,   \* the sets of role names a user may have
    NoRoles,    \* not a set of roles: no value
    Requests,   \* the requests that may be in RequireRoles at a time
    TTL,        \* security.authorization_cache_ttl; 0 is no cache at all
    MaxTime     \* bound: the clock stops here

ASSUME CacheAssumption ==
    /\ TTL \in Nat
    /\ MaxTime \in Nat
    /\ NoRoles \notin Users \union RoleSets

VARIABLES
    now,        \* the clock
    roles,      \* the roles of each user in the database
    lastHeld,   \* history: when each user last had each set of roles
    items,      \* Cache.items
    req,        \* the requests in RequireRoles
    sweep       \* the time a running sweep was given

vars == <<now, roles, lastHeld, items, req, sweep>>

-----------------------------------------------------------------------------
(* Entries, requests, and the initial state. *)

Never == -1

Times == Nat \union {Never}

\* A user with no entry in the map
NoEntry == [value |-> NoRoles, expiresAt |-> Never]

Entries == [value : RoleSets, expiresAt : Nat]

Nobody == [step |-> "idle", user |-> NoRoles, at |-> Never, value |-> NoRoles]

Requested == [step  : {"get", "evict", "resolve", "set", "answer"},
              user  : Users,
              at    : Nat,                           \* the clock reading
              value : RoleSets \union {NoRoles}]     \* the roles found

Init ==
    /\ now = 0
    /\ roles \in [Users -> RoleSets]
    /\ lastHeld = [u \in Users |-> [v \in RoleSets |-> Never]]
    /\ items = [u \in Users |-> NoEntry]
    /\ req = [r \in Requests |-> Nobody]
    /\ sweep = Never

-----------------------------------------------------------------------------
(* resolveRoleNames, step by step. *)

\* time.After: an entry is still good at the very time it expires
Expired_Never(e, t) == FALSE
Expired(e, t) == e # NoEntry /\ t > e.expiresAt

Found(r, v) == req' = [req EXCEPT ![r] = [@ EXCEPT !.step = "answer", !.value = v]]

Goto(r, step) == req' = [req EXCEPT ![r] = [@ EXCEPT !.step = step]]

Start(r, u) ==
    /\ req[r].step = "idle"
    /\ req' = [req EXCEPT ![r] = [step |-> "get", user |-> u, at |-> now,
                                  value |-> NoRoles]]
    /\ UNCHANGED <<now, roles, lastHeld, items, sweep>>

\* Cache.Get under the read lock
Get(r) ==
    LET e == items[req[r].user]
    IN  /\ req[r].step = "get"
        /\ IF e = NoEntry
           THEN Goto(r, "resolve")
           ELSE IF Expired(e, req[r].at) THEN Goto(r, "evict") ELSE Found(r, e.value)
        /\ UNCHANGED <<now, roles, lastHeld, items, sweep>>

\* Cache.Get under the write lock: the entry may be another one by now
Evict_NoRecheck(r) ==
    LET u == req[r].user
    IN  /\ req[r].step = "evict"
        /\ items' = [items EXCEPT ![u] = NoEntry]
        /\ Goto(r, "resolve")
        /\ UNCHANGED <<now, roles, lastHeld, sweep>>
Evict(r) ==
    LET u == req[r].user
    IN  /\ req[r].step = "evict"
        /\ items' = IF Expired(items[u], req[r].at)
                    THEN [items EXCEPT ![u] = NoEntry]
                    ELSE items
        /\ Goto(r, "resolve")
        /\ UNCHANGED <<now, roles, lastHeld, sweep>>

\* UserRoleNames answers with the roles as they are in the database ...
Resolve(r) ==
    /\ req[r].step = "resolve"
    /\ req' = [req EXCEPT ![r] =
                 [@ EXCEPT !.step = "set", !.value = roles[req[r].user]]]
    /\ UNCHANGED <<now, roles, lastHeld, items, sweep>>

\* ... or it fails (the account is not usable, the query fails, the client is
\* gone): nothing is cached and the request is answered with an error
ResolveFails_Cached(r) ==
    /\ req[r].step = "resolve"
    /\ req' = [req EXCEPT ![r] = [@ EXCEPT !.step = "set"]]
    /\ UNCHANGED <<now, roles, lastHeld, items, sweep>>
ResolveFails(r) ==
    /\ req[r].step = "resolve"
    /\ req' = [req EXCEPT ![r] = Nobody]
    /\ UNCHANGED <<now, roles, lastHeld, items, sweep>>

\* Cache.Set, with the clock reading taken before the roles were read
Set_LateClock(r) ==
    LET q == req[r]
    IN  /\ q.step = "set"
        /\ items' = IF TTL = 0 THEN items
                    ELSE [items EXCEPT ![q.user] = [value |-> q.value,
                                                    expiresAt |-> now + TTL]]
        /\ Found(r, q.value)
        /\ UNCHANGED <<now, roles, lastHeld, sweep>>
Set(r) ==
    LET q == req[r]
    IN  /\ q.step = "set"
        /\ items' = IF TTL = 0 THEN items
                    ELSE [items EXCEPT ![q.user] = [value |-> q.value,
                                                    expiresAt |-> q.at + TTL]]
        /\ Found(r, q.value)
        /\ UNCHANGED <<now, roles, lastHeld, sweep>>

\* RequireRoles lets the request through or refuses it by the roles found
Answer(r) ==
    /\ req[r].step = "answer"
    /\ req' = [req EXCEPT ![r] = Nobody]
    /\ UNCHANGED <<now, roles, lastHeld, items, sweep>>

-----------------------------------------------------------------------------
(* The cleanup job, the administrators and the clock. *)

\* The cleanup job hands the time to the sweepers; the lock is taken later
SweepStart ==
    /\ sweep = Never
    /\ sweep' = now
    /\ UNCHANGED <<now, roles, lastHeld, items, req>>

Sweep ==
    /\ sweep # Never
    /\ items' = [u \in Users |-> IF Expired(items[u], sweep) THEN NoEntry ELSE items[u]]
    /\ sweep' = Never
    /\ UNCHANGED <<now, roles, lastHeld, req>>

\* A row of user_roles is added or removed; nothing tells the cache
ChangeRoles(u, v) ==
    /\ v # roles[u]
    /\ roles' = [roles EXCEPT ![u] = v]
    /\ lastHeld' = [lastHeld EXCEPT ![u][roles[u]] = now]
    /\ UNCHANGED <<now, items, req, sweep>>

Tick ==
    /\ now < MaxTime
    /\ now' = now + 1
    /\ UNCHANGED <<roles, lastHeld, items, req, sweep>>

Request(r) ==
    \/ \E u \in Users : Start(r, u)
    \/ Get(r)
    \/ Evict(r)
    \/ Resolve(r)
    \/ ResolveFails(r)
    \/ Set(r)
    \/ Answer(r)

Next ==
    \/ \E r \in Requests : Request(r)
    \/ SweepStart
    \/ Sweep
    \/ \E u \in Users, v \in RoleSets : ChangeRoles(u, v)
    \/ Tick

Spec == Init /\ [][Next]_vars

-----------------------------------------------------------------------------
(* Properties. *)

(* The map holds entries the cache can build and a request in flight knows *)
(* its user and its clock reading (entry and Cache in cache.go).           *)
TypeOK ==
    /\ now \in Nat
    /\ roles \in [Users -> RoleSets]
    /\ lastHeld \in [Users -> [RoleSets -> Times]]
    /\ items \in [Users -> Entries \union {NoEntry}]
    /\ req \in [Requests -> Requested \union {Nobody}]
    /\ \A r \in Requests : req[r].step \in {"set", "answer"} => req[r].value \in RoleSets
    /\ sweep \in Times

HeldSince(u, v, t) == roles[u] = v \/ lastHeld[u][v] >= t

(* The roles a request is judged by were those of its user at some time no *)
(* earlier than TTL before the request read the clock: a role taken away   *)
(* is refused to every request that starts more than TTL later, however    *)
(* slow the query that filled the cache was (resolveRoleNames).            *)
AnswersAreFresh ==
    \A r \in Requests :
        req[r].step = "answer" => HeldSince(req[r].user, req[r].value, req[r].at - TTL)

(* The inductive invariant behind AnswersAreFresh: no clock reading is     *)
(* ahead of the clock, and the value of an entry was held since the        *)
(* reading its expiry was counted from, as that of a request about to      *)
(* cache it since the reading of that request.                             *)
ReadingsPast ==
    /\ \A u \in Users : items[u] # NoEntry => items[u].expiresAt - TTL <= now
    /\ \A r \in Requests : req[r] # Nobody => req[r].at <= now
    /\ sweep <= now

EntriesHeld ==
    \A u \in Users :
        items[u] # NoEntry => HeldSince(u, items[u].value, items[u].expiresAt - TTL)

FillsHeld ==
    \A r \in Requests :
        req[r].step = "set" => HeldSince(req[r].user, req[r].value, req[r].at)

IInv == TypeOK /\ ReadingsPast /\ EntriesHeld /\ FillsHeld /\ AnswersAreFresh

(* Only an entry whose time is over is removed from the map, by Get as by  *)
(* Sweep (TestCacheGetDoesNotDeleteFreshEntryOnExpiredRead).               *)
OnlyExpiredRemoved ==
    [][\A u \in Users : items[u] # NoEntry /\ items'[u] = NoEntry
                          => now > items[u].expiresAt]_vars

-----------------------------------------------------------------------------
(* The abstract specification this module implements. *)

asked ==
    [r \in Requests |->
        [state |-> CASE req[r].step = "idle"   -> "idle"
                     [] req[r].step = "answer" -> "answered"
                     [] OTHER                  -> "asked",
         user  |-> req[r].user,
         at    |-> req[r].at,
         value |-> IF req[r].step = "answer" THEN req[r].value ELSE NoRoles]]

Promise == INSTANCE BoundedStaleness WITH Bound <- TTL

(* With the cache RequireRoles is answered as without one, from a state of *)
(* the database at most TTL older than the request (RequireRoles).         *)
KeepsPromise == Promise!Spec
=============================================================================
