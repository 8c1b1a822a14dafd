-------------------------- MODULE SessionAuthority --------------------------
(***************************************************************************)
(* What the authentication version of a user promises, with everything     *)
(* that makes it hard left out: a principal is granted at the current      *)
(* epoch of its user, a password reset or an account recovery starts the   *)
(* next epoch, and what was granted before is void from then on.           *)
(* Accounts implements this module (see SessionAuthority there).           *)
(***************************************************************************)
EXTENDS Integers

CONSTANTS
    Users,      \* the accounts
    MaxEpoch    \* bound: no epoch above this one is started

VARIABLES
    epoch,      \* users.auth_version
    granted,    \* the principals handed out: pairs of a user and an epoch
    void        \* those of them handed out before a later epoch was started

vars == <<epoch, granted, void>>

Principals == Users \X (Nat \ {0})

Init ==
    /\ epoch = [u \in Users |-> 1]
    /\ granted = {}
    /\ void = {}

Grant(u) ==
    /\ granted' = granted \union {<<u, epoch[u]>>}
    /\ UNCHANGED <<epoch, void>>

Revoke(u) ==
    /\ epoch[u] < MaxEpoch
    /\ epoch' = [epoch EXCEPT ![u] = @ + 1]
    /\ void' = void \union {g \in granted : g[1] = u}
    /\ UNCHANGED granted

Next == \E u \in Users : Grant(u) \/ Revoke(u)

Spec == Init /\ [][Next]_vars
=============================================================================
