--------------------------- MODULE LoginRateLimit ---------------------------
(***************************************************************************)
(* The address a login is taken to come from, and the two token buckets it *)
(* is charged to: RealIP, clientIP and enforceRateLimit.                   *)
(*                                                                         *)
(* The token bucket is external.  A token is Window units, so that an      *)
(* email's bucket, Threshold tokens in a window, gains Threshold units in  *)
(* a unit of time, and an address's IPFactor times as much.                *)
(*                                                                         *)
(* A header is a sequence of lines and a line one of parts.  Ports, spaces *)
(* and the mapped form of an IPv4 address are left out: all are removed    *)
(* before two addresses are compared.  A line without a part in it is one  *)
(* with a part that does not parse: the code takes nothing from either.    *)
(*                                                                         *)
(* The names that every module has start with Rate here, as the proofs are *)
(* in one module with those of Passkeys (LoginProofs).                     *)
(*                                                                         *)
(* Definition_Change is Definition with a plausible mistake made in it; no *)
(* specification uses it.                                                  *)
(***************************************************************************)
EXTENDS Naturals, FiniteSets, SequencesExt

CONSTANTS
    Emails,
    Clients,        \* the addresses that are not of trusted proxies
    Proxies,        \* http.trusted_proxies
    Garbage,        \* what does not parse as an address
    Nothing,        \* no X-Real-IP, no address
    Logins,         \* the logins in flight
    MaxHops,        \* bound: the proxies on the way
    MaxBefore,      \* bound: the parts of the line the client sends
    Threshold,      \* security.failed_login_threshold
    IPFactor,       \* an address's bucket in buckets of an email; 4
    Window,         \* security.failed_login_window
    StaleAfter,     \* a bucket untouched for longer is removed: 24 hours,
                    \* whatever the window is
    MaxTime         \* bound: the clock stops here

ASSUME RateAssumption ==
    /\ Threshold \in Nat \ {0} /\ Window \in Nat \ {0} /\ IPFactor \in Nat \ {0}
    /\ StaleAfter \in Nat
    /\ Clients \intersect Proxies = {}
    /\ {Garbage, Nothing} \intersect (Clients \union Proxies \union Emails) = {}
    /\ Emails \intersect (Clients \union Proxies) = {}    \* "login:email:", "login:ip:"
    /\ IsFiniteSet(Logins)
    /\ MaxHops \in Nat /\ MaxBefore \in Nat

VARIABLES now, bucket, login, passed

RateVars == <<now, bucket, login, passed>>

Addresses == Clients \union Proxies    \* a proxy's address may be a client's
Keys == Emails \union Addresses

-----------------------------------------------------------------------------
(* RealIP. *)

Parses(value) == value \in Addresses

\* Where the header has an address that is not a proxy's
Others(header) == {i \in DOMAIN header : header[i] \notin Proxies}

\* The rightmost of these, or the first of all; one part that does not parse,
\* or no part, and the header says nothing
ClientAddrFromForwardedFor_LeftMost(header) ==
    IF header = <<>> \/ \E i \in DOMAIN header : ~Parses(header[i]) THEN Nothing
    ELSE header[IF Others(header) = {} THEN 1 ELSE Min(Others(header))]
ClientAddrFromForwardedFor(header) ==
    IF header = <<>> \/ \E i \in DOMAIN header : ~Parses(header[i]) THEN Nothing
    ELSE header[IF Others(header) = {} THEN 1 ELSE Max(Others(header))]

\* http.Header.Get: the first line, whatever follows it
Get(lines) == IF lines = <<>> THEN <<>> ELSE Head(lines)

\* RemoteAddr after the middleware; lines are those of X-Forwarded-For, real is
\* X-Real-IP
RealIP(peer, lines, real) ==
    LET forwarded == ClientAddrFromForwardedFor(Get(lines))
    IN  CASE peer \notin Proxies                         -> peer
          [] peer \in Proxies /\ forwarded # Nothing     -> forwarded
          [] peer \in Proxies /\ forwarded = Nothing /\ Parses(real) -> real
          [] OTHER                                       -> peer

-----------------------------------------------------------------------------
(* The requests: a client sends one, perhaps with a line in it already, and *)
(* it passes proxies that each add the address they got it from.  A proxy  *)
(* puts all lines and that address in one, or adds a line; what counts is  *)
(* the last of them that does the former, folded, 0 if none does.          *)

Ways == {w \in [origin : Addresses \union {Nothing},
                before : BoundedSeq(Addresses \union {Garbage}, MaxBefore),
                path : BoundedSeq(Proxies, MaxHops), folded : 0 .. MaxHops,
                real : Clients \union {Nothing}] :
            /\ w.folded <= Len(w.path)
            /\ w.origin = Nothing => w.path = <<>>}  \* a connection that has no address

Hops(w) == <<w.origin>> \o w.path

Lines(w) ==
    LET first == w.before \o SubSeq(Hops(w), 1, w.folded)
    IN  (IF first = <<>> THEN <<>> ELSE <<first>>)
            \o [i \in 1 .. Len(w.path) - w.folded |-> <<Hops(w)[w.folded + i]>>]

\* Whom a request is due to be charged to, by what became of it on its way
Due(w) ==
    LET wrote     == {w.before[i] : i \in DOMAIN w.before}
        malformed == \E part \in wrote : ~Parses(part)
        peer      == Last(Hops(w))
    IN  CASE peer \notin Proxies -> {w.origin}
          [] peer \in Proxies /\ malformed -> {IF Parses(w.real) THEN w.real ELSE peer}
          [] peer \in Proxies /\ wrote = {} /\ w.path # <<>> -> {w.origin}
          [] peer \in Proxies /\ wrote = {} /\ w.path = <<>> ->
                {IF Parses(w.real) THEN w.real ELSE peer}
          [] peer \in Proxies /\ ~malformed /\ wrote # {} /\ w.folded = 0 -> wrote
          [] peer \in Proxies /\ ~malformed /\ wrote # {} /\ w.folded > 0 ->
                IF w.origin \in Proxies THEN wrote \union {w.origin} ELSE {w.origin}

\* What the server makes of a request, and what is due: history
Seen(w) == [ip |-> RealIP(Last(Hops(w)), Lines(w), w.real), due |-> Due(w)]

Arrivals == {Seen(w) : w \in Ways}

-----------------------------------------------------------------------------
(* enforceRateLimit, a statement for each bucket. *)

NoBucket == [level |-> 0, at |-> 0, there |-> FALSE]

NoLogin == [step |-> "idle", email |-> Nothing, ip |-> Nothing, due |-> {}]

\* A bucket of capacity tokens as it is now; a new one is full
Level(k, capacity) ==
    LET b    == bucket[k]
        full == capacity * Window
        gain == b.level + (now - b.at) * capacity
    IN  IF ~b.there \/ gain > full THEN full ELSE gain

\* Allow: one token if there is one
Charge(k, capacity) ==
    LET level == Level(k, capacity)
    IN  bucket' = [bucket EXCEPT ![k] =
            [there |-> TRUE, at |-> now,
             level |-> IF level >= Window THEN level - Window ELSE level]]

Allowed(k, capacity) == Level(k, capacity) >= Window

IPCapacity == IPFactor * Threshold

\* A login reaches enforceRateLimit
Arrive(l, e, arrival) ==
    /\ login[l] = NoLogin
    /\ login' = [login EXCEPT ![l] =
          [step |-> "email", email |-> e, ip |-> arrival.ip, due |-> arrival.due]]
    /\ UNCHANGED <<now, bucket, passed>>

\* The bucket of the email is charged whatever the other one says then
ChargeEmail(l) ==
    /\ login[l].step = "email"
    /\ Charge(login[l].email, Threshold)
    /\ login' = IF Allowed(login[l].email, Threshold) THEN [login EXCEPT ![l].step = "ip"]
                                                      ELSE [login EXCEPT ![l] = NoLogin]
    /\ UNCHANGED <<now, passed>>

\* Past both, or past the first if there is no address, the password is looked
\* at; passed is history: how many got there
ChargeIP(l) ==
    LET q       == login[l]
        nowhere == q.ip = Nothing
    IN  /\ q.step = "ip"
        /\ IF nowhere THEN UNCHANGED bucket ELSE Charge(q.ip, IPCapacity)
        /\ login' = [login EXCEPT ![l] = NoLogin]
        /\ passed' = IF nowhere \/ Allowed(q.ip, IPCapacity)
                     THEN [k \in Keys |-> passed[k] + IF k \in {q.email, q.ip} THEN 1 ELSE 0]
                     ELSE passed
        /\ UNCHANGED now

\* The client is gone, or a statement fails
GiveUp(l) ==
    /\ login[l] # NoLogin
    /\ login' = [login EXCEPT ![l] = NoLogin]
    /\ UNCHANGED <<now, bucket, passed>>

\* The cleanup
DeleteStaleBuckets_Any ==
    /\ \E k \in Keys : bucket[k].there
    /\ bucket' = [k \in Keys |-> NoBucket]
    /\ UNCHANGED <<now, login, passed>>
DeleteStaleBuckets ==
    LET stale == {k \in Keys : bucket[k].there /\ now - bucket[k].at > StaleAfter}
    IN  /\ stale # {}
        /\ bucket' = [k \in Keys |-> IF k \in stale THEN NoBucket ELSE bucket[k]]
        /\ UNCHANGED <<now, login, passed>>

Tick ==
    /\ now < MaxTime
    /\ now' = now + 1
    /\ UNCHANGED <<bucket, login, passed>>

-----------------------------------------------------------------------------

RateInit ==
    /\ now = 0
    /\ bucket = [k \in Keys |-> NoBucket]
    /\ login = [l \in Logins |-> NoLogin]
    /\ passed = [k \in Keys |-> 0]

RateNext ==
    \/ \E l \in Logins, e \in Emails, arrival \in Arrivals : Arrive(l, e, arrival)
    \/ \E l \in Logins : ChargeEmail(l) \/ ChargeIP(l) \/ GiveUp(l)
    \/ DeleteStaleBuckets
    \/ Tick

RateSpec == RateInit /\ [][RateNext]_RateVars

-----------------------------------------------------------------------------
(* Properties. *)

(* A login is charged to whom it is due (RealIP): to the client that sent  *)
(* it if it came straight, if it had no X-Forwarded-For before the first   *)
(* proxy, or if a proxy put the line it had and the client's address in    *)
(* one, whatever addresses the line names and whatever X-Real-IP says.  If *)
(* the proxies only add lines of their own, the line the client wrote is   *)
(* the one that is read, and an address in it is charged.  A part that     *)
(* does not parse makes it the address in X-Real-IP, or else the last      *)
(* proxy's; one whose own address is a trusted proxy's may be charged to   *)
(* an address it wrote.                                                    *)
ChargedToOrigin == \A l \in Logins : login[l] # NoLogin => login[l].ip \in login[l].due

\* The time in which an empty bucket is full again, be it that it has gained a
\* token at a time or that it was removed
Refill == IF Window <= StaleAfter THEN Window ELSE StaleAfter + 1

(* No more logins of an email, or from an address, get past the limiter    *)
(* than a full bucket and one more for each Refill since: not when two of  *)
(* them overlap, not when the other bucket refuses, and not when the       *)
(* cleanup removes a bucket (enforceRateLimit, CleanupWorker.Work).  That  *)
(* is the configured limit as long as failed_login_window is not above the *)
(* 24 hours of the cleanup, and no less than a bucket a day if it is.      *)
LimitsHold ==
    /\ \A e \in Emails : passed[e] * Refill <= Threshold * (Refill + now)
    /\ \A a \in Addresses : passed[a] * Refill <= IPCapacity * (Refill + now)

(* The configured limit, which a longer window than the 24 hours does not  *)
(* get: MCLoginRateLimitLongWindow.cfg, for a run by hand, shows how.      *)
ConfiguredLimitsHold ==
    /\ \A e \in Emails : passed[e] * Window <= Threshold * (Window + now)
    /\ \A a \in Addresses : passed[a] * Window <= IPCapacity * (Window + now)

-----------------------------------------------------------------------------
(* The inductive invariant. *)

Login == [step : {"email", "ip"}, email : Emails, ip : Addresses \union {Nothing},
          due : SUBSET (Addresses \union {Nothing})]

\* The logins that have paid for e, and not yet for their address
Paid(e) == {l \in Logins : login[l].step = "ip" /\ login[l].email = e}

\* A login that passed, and a full bucket, in what keeps both rates whole
Unit == Window * Refill
Full(capacity) == capacity * Window

\* What passed, what has paid and what is left came out of one full bucket and
\* one for each Refill since; once the bucket is gone, a full one is owed again
Within(k, capacity, paid) ==
    IF bucket[k].there
    THEN (passed[k] + paid) * Unit + bucket[k].level * Refill
             <= Full(capacity) * (Refill + bucket[k].at)
    ELSE (passed[k] + paid) * Unit <= Full(capacity) * now

RateIInv ==
    /\ now \in Nat
    /\ bucket \in [Keys -> [level : Nat, at : Nat, there : BOOLEAN]]
    /\ \A k \in Keys : bucket[k].at <= now
    /\ login \in [Logins -> Login \union {NoLogin}]
    /\ passed \in [Keys -> Nat]
    /\ \A e \in Emails : Within(e, Threshold, Cardinality(Paid(e)))
    /\ \A a \in Addresses : Within(a, IPCapacity, 0)
    /\ ChargedToOrigin
=============================================================================
