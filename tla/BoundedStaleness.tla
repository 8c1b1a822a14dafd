-------------------------- MODULE BoundedStaleness --------------------------
(***************************************************************************)
(* What RequireRoles is promised by whatever tells it the roles of a user: *)
(* a request that asks at some time is answered with a value the user held *)
(* at that time less Bound, or at some time after it.  There is no cache   *)
(* here; RoleCache implements this module (see Promise there).             *)
(***************************************************************************)
EXTENDS Integers

CONSTANTS
    Users,
    RoleSets,   \* the sets of role names a user may have
    NoRoles,    \* not a set of roles: no value yet
    Requests,
    Bound,      \* how old an answer may be, counted from the request
    MaxTime     \* bound: the clock stops here

VARIABLES
    now,
    roles,      \* the roles each user has
    lastHeld,   \* when each user last had each set of roles it has no more
    asked       \* the requests: who asks, since when, and the answer

vars == <<now, roles, lastHeld, asked>>

Never == -1

Nobody == [state |-> "idle", user |-> NoRoles, at |-> Never, value |-> NoRoles]

\* User u had the roles v at some time from t on, the present included
HeldSince(u, v, t) == roles[u] = v \/ lastHeld[u][v] >= t

Init ==
    /\ now = 0
    /\ roles \in [Users -> RoleSets]
    /\ lastHeld = [u \in Users |-> [v \in RoleSets |-> Never]]
    /\ asked = [r \in Requests |-> Nobody]

Ask(r, u) ==
    /\ asked[r].state = "idle"
    /\ asked' = [asked EXCEPT ![r] = [state |-> "asked", user |-> u,
                                      at |-> now, value |-> NoRoles]]
    /\ UNCHANGED <<now, roles, lastHeld>>

Answer(r, v) ==
    /\ asked[r].state = "asked"
    /\ HeldSince(asked[r].user, v, asked[r].at - Bound)
    /\ asked' = [asked EXCEPT ![r].state = "answered", ![r].value = v]
    /\ UNCHANGED <<now, roles, lastHeld>>

\* The request is over, or no answer could be had
Leave(r) ==
    /\ asked' = [asked EXCEPT ![r] = Nobody]
    /\ UNCHANGED <<now, roles, lastHeld>>

ChangeRoles(u, v) ==
    /\ v # roles[u]
    /\ roles' = [roles EXCEPT ![u] = v]
    /\ lastHeld' = [lastHeld EXCEPT ![u][roles[u]] = now]
    /\ UNCHANGED <<now, asked>>

Tick ==
    /\ now < MaxTime
    /\ now' = now + 1
    /\ UNCHANGED <<roles, lastHeld, asked>>

Next ==
    \/ \E r \in Requests :
          \/ \E u \in Users : Ask(r, u)
          \/ \E v \in RoleSets : Answer(r, v)
          \/ Leave(r)
    \/ \E u \in Users, v \in RoleSets : ChangeRoles(u, v)
    \/ Tick

Spec == Init /\ [][Next]_vars
=============================================================================
