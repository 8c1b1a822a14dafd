----------------------------- MODULE LoginProofs -----------------------------
(***************************************************************************)
(* Proofs about two things on the way of a login: LoginRateLimit, which    *)
(* every login passes first, and Passkeys.  They hold for any number of    *)
(* users, credentials, requests, emails and addresses, any header that is  *)
(* sent along any way of proxies, and any capacity and bound of a counter. *)
(***************************************************************************)
EXTENDS LoginRateLimit, Passkeys, SequenceTheorems, FiniteSetTheorems,
        WellFoundedInduction, TLAPS

-----------------------------------------------------------------------------
(* LoginRateLimit: the address of a client. *)

(* The rightmost address of a header that is not a proxy's.                *)
LEMMA Rightmost ==
  ASSUME NEW header \in Seq(Addresses), NEW p \in DOMAIN header,
         header[p] \notin Proxies,
         \A i \in DOMAIN header : i > p => header[i] \in Proxies
  PROVE  ClientAddrFromForwardedFor(header) = header[p]
  <1>1. DOMAIN header = 1 .. Len(header) /\ Len(header) \in Nat
    BY LenProperties
  <1>2. header # <<>> /\ \A i \in DOMAIN header : Parses(header[i])
    BY <1>1, ElementOfSeq, EmptySeq DEF Parses
  <1>3. p \in Others(header) /\ \A i \in Others(header) : i \in Nat /\ p >= i
    BY <1>1 DEF Others
  <1>4. Max(Others(header)) = p
    <2>1. \A q \in Others(header) : (\A i \in Others(header) : q >= i) => q = p
      BY <1>3
    <2> QED BY <1>3, <2>1 DEF Max
  <1> QED BY <1>2, <1>3, <1>4 DEF ClientAddrFromForwardedFor

(* A part that does not parse.                                             *)
LEMMA Unreadable ==
  ASSUME NEW header, NEW i \in DOMAIN header, ~Parses(header[i])
  PROVE  ClientAddrFromForwardedFor(header) = Nothing
  BY DEF ClientAddrFromForwardedFor

(* A set of naturals with a bound has a greatest element.                  *)
LEMMA Greatest ==
  ASSUME NEW n \in Nat, NEW S \in SUBSET (1 .. n), S # {}
  PROVE  Max(S) \in S
  <1> DEFINE below == {n - i : i \in S}
             less  == OpToRel(<, Nat)
  <1>1. below \subseteq Nat /\ below # {}
    <2>1. PICK i \in S : n - i \in below
      OBVIOUS
    <2>2. \A s \in S : n - s \in Nat
      OBVIOUS
    <2> QED BY <2>1, <2>2
  <1>2. PICK d \in below : \A c \in below : <<c, d>> \notin less
    BY <1>1, NatLessThanWellFounded, WFMin
  <1>3. PICK q \in S : d = n - q
    OBVIOUS
  <1>4. ASSUME NEW i \in S PROVE q >= i
    <2>1. n - i \in below /\ n - i \in Nat /\ d \in Nat
      BY <1>1
    <2>2. ~(n - i < d)
      BY <1>2, <2>1 DEF OpToRel
    <2> QED BY <1>3, <2>1, <2>2
  <1> QED BY <1>4 DEF Max

(* What the header says is the first of its addresses, or one that is not  *)
(* a proxy's.                                                              *)
LEMMA OneOfThese ==
  ASSUME NEW header \in Seq(Addresses), header # <<>>
  PROVE  \E i \in DOMAIN header :
            /\ ClientAddrFromForwardedFor(header) = header[i]
            /\ i = 1 \/ header[i] \notin Proxies
  <1>1. DOMAIN header = 1 .. Len(header) /\ Len(header) \in Nat \ {0}
    BY LenProperties, EmptySeq
  <1>2. \A i \in DOMAIN header : Parses(header[i])
    BY <1>1, ElementOfSeq DEF Parses
  <1>3. CASE Others(header) = {}
    BY <1>1, <1>2, <1>3 DEF ClientAddrFromForwardedFor
  <1>4. CASE Others(header) # {}
    <2>1. Others(header) \in SUBSET (1 .. Len(header))
      BY <1>1 DEF Others
    <2>2. Max(Others(header)) \in Others(header)
      BY <1>1, <1>4, <2>1, Greatest
    <2> QED BY <1>2, <1>4, <2>2 DEF ClientAddrFromForwardedFor, Others
  <1> QED BY <1>3, <1>4

(* The way of a request: whose addresses the proxies on it add, and the    *)
(* address of the connection.                                              *)
LEMMA Way ==
  ASSUME NEW w \in Ways
  PROVE  LET n == Len(w.path)
             k == Len(w.before)
         IN  /\ n \in Nat /\ k \in Nat /\ w.folded \in 0 .. n
             /\ w.before \in Seq(Addresses \union {Garbage})
             /\ DOMAIN w.before = 1 .. k
             /\ w.origin \in Addresses \union {Nothing} /\ (n > 0 => w.origin \in Addresses)
             /\ \A i \in 1 .. n : w.path[i] \in Proxies
             /\ Hops(w) \in Seq(Addresses \union {Nothing}) /\ Len(Hops(w)) = n + 1
             /\ Hops(w)[1] = w.origin /\ \A i \in 2 .. n + 1 : Hops(w)[i] = w.path[i - 1]
             /\ Last(Hops(w)) = IF n = 0 THEN w.origin ELSE w.path[n]
  <1> DEFINE n == Len(w.path)
             k == Len(w.before)
             S == Addresses \union {Nothing}
  <1>1. /\ w.before \in Seq(Addresses \union {Garbage}) /\ w.path \in Seq(Proxies)
        /\ w.folded \in Nat /\ w.folded <= n /\ w.origin \in S
        /\ w.origin = Nothing => w.path = <<>>
    BY DEF Ways, BoundedSeq, SeqOf
  <1>2. /\ n \in Nat /\ k \in Nat /\ DOMAIN w.before = 1 .. k
        /\ \A i \in 1 .. n : w.path[i] \in Proxies
        /\ w.path = <<>> => n = 0
    BY <1>1, LenProperties, ElementOfSeq, EmptySeq
  <1>3. /\ <<w.origin>> \in Seq(S) /\ Len(<<w.origin>>) = 1 /\ <<w.origin>>[1] = w.origin
        /\ w.path \in Seq(S)
    BY <1>1, SeqMonotonic DEF Addresses
  <1>4. /\ Hops(w) \in Seq(S) /\ Len(Hops(w)) = 1 + n
        /\ \A i \in 1 .. 1 + n : Hops(w)[i] = IF i <= 1 THEN <<w.origin>>[i] ELSE w.path[i - 1]
    BY <1>3, ConcatProperties DEF Hops
  <1>5. Last(Hops(w)) = Hops(w)[n + 1]
    BY <1>2, <1>4 DEF Last
  <1> HIDE DEF n, k, S
  <1>6. /\ Hops(w)[1] = w.origin /\ \A i \in 2 .. n + 1 : Hops(w)[i] = w.path[i - 1]
    BY <1>2, <1>3, <1>4
  <1>7. Last(Hops(w)) = IF n = 0 THEN w.origin ELSE w.path[n]
    BY <1>2, <1>5, <1>6
  <1> QED BY <1>1, <1>2, <1>4, <1>6, <1>7 DEF n, k, S

(* The line that the server reads: what the client wrote and what the      *)
(* proxies folded into it, or the client's address if there is neither.    *)
LEMMA Line ==
  ASSUME NEW w \in Ways
  PROVE  LET n    == Len(w.path)
             k    == Len(w.before)
             line == Get(Lines(w))
         IN  /\ w.folded = 0 /\ k > 0 => line = w.before
             /\ k = 0 /\ n = 0 => line = <<>>
             /\ n > 0 /\ k + w.folded > 0 =>
                   /\ line \in Seq(Addresses \union {Garbage}) /\ Len(line) = k + w.folded
                   /\ \A i \in 1 .. k : line[i] = w.before[i]
                   /\ \A i \in k + 1 .. k + w.folded : line[i] = Hops(w)[i - k]
             /\ n > 0 /\ k + w.folded = 0 => line = <<w.origin>>
  <1> DEFINE n      == Len(w.path)
             k      == Len(w.before)
             f      == w.folded
             S      == Addresses \union {Garbage}
             folded == SubSeq(Hops(w), 1, f)
             first  == w.before \o folded
             rest   == [i \in 1 .. n - f |-> <<Hops(w)[f + i]>>]
             alone  == IF first = <<>> THEN <<>> ELSE <<first>>
             line   == Get(Lines(w))
  <1>1. /\ n \in Nat /\ k \in Nat /\ f \in 0 .. n /\ w.before \in Seq(S)
        /\ (n > 0 => w.origin \in Addresses)
        /\ \A i \in 1 .. n : w.path[i] \in Proxies
        /\ Hops(w)[1] = w.origin /\ \A i \in 2 .. n + 1 : Hops(w)[i] = w.path[i - 1]
    BY Way
  <1>2. Lines(w) = alone \o rest
    BY DEF Lines
  <1> HIDE DEF n, k, f
  <1>3. /\ folded \in Seq(S) /\ Len(folded) = f
        /\ \A i \in 1 .. f : folded[i] = Hops(w)[i]
    <2>1. \A i \in 1 .. f : Hops(w)[i] \in S
      <3> SUFFICES ASSUME NEW i \in 1 .. f PROVE Hops(w)[i] \in S
        OBVIOUS
      <3>1. CASE i = 1
        BY <1>1, <3>1
      <3>2. CASE i > 1
        <4>1. i \in 2 .. n + 1 /\ i - 1 \in 1 .. n
          BY <1>1, <3>2
        <4> QED BY <1>1, <4>1 DEF Addresses
      <3> QED BY <1>1, <3>1, <3>2
    <2>2. /\ folded \in Seq(S) /\ Len(folded) = IF 1 <= f THEN f - 1 + 1 ELSE 0
          /\ \A i \in 1 .. f - 1 + 1 : folded[i] = Hops(w)[1 + i - 1]
      BY <1>1, <2>1, SubSeqProperties
    <2> QED BY <1>1, <2>2
  <1> HIDE DEF folded, S
  <1>4. /\ first \in Seq(S) /\ Len(first) = k + f
        /\ \A i \in 1 .. k + f : first[i] = IF i <= k THEN w.before[i] ELSE folded[i - k]
    BY <1>1, <1>3, ConcatProperties DEF k
  <1>5. first = <<>> <=> k + f = 0
    BY <1>1, <1>4, EmptySeq
  <1>6. f = 0 => first = w.before
    <2>1. f = 0 => folded = <<>>
      BY <1>1, <1>3, EmptySeq
    <2> QED BY <1>1, <2>1, ConcatEmptySeq
  <1> HIDE DEF first
  <1>7. rest \in Seq(Seq(Addresses \union {Nothing})) /\ Len(rest) = n - f
    <2>1. \A i \in 1 .. n - f : Hops(w)[f + i] \in Addresses \union {Nothing}
      <3> SUFFICES ASSUME NEW i \in 1 .. n - f
                   PROVE  Hops(w)[f + i] \in Addresses \union {Nothing}
        OBVIOUS
      <3>1. f + i \in 1 .. Len(Hops(w)) /\ Hops(w) \in Seq(Addresses \union {Nothing})
        BY <1>1, Way DEF n
      <3> QED BY <3>1, ElementOfSeq
    <2> DEFINE T == Seq(Addresses \union {Nothing})
    <2>2. n - f \in Nat
      BY <1>1
    <2>3. ASSUME NEW i \in 1 .. n - f PROVE <<Hops(w)[f + i]>> \in T
      <3>1. ASSUME NEW a \in Addresses \union {Nothing} PROVE <<a>> \in T
        OBVIOUS
      <3> QED BY <2>1, <3>1
    <2> HIDE DEF T
    <2>4. rest \in [1 .. n - f -> T]
      BY <2>3
    <2> HIDE DEF rest
    <2>5. rest \in Seq(T) /\ DOMAIN rest = 1 .. n - f
      BY <2>2, <2>4, SeqDef
    <2>6. DOMAIN rest = 1 .. Len(rest) /\ Len(rest) \in Nat
      BY <2>5, LenProperties
    <2>7. Len(rest) = n - f
      BY <2>2, <2>5, <2>6
    <2> QED BY <2>5, <2>7 DEF T
  <1>8. CASE k + f > 0
    <2>1. Lines(w) = <<first>> \o rest
      <3>1. first # <<>>
        BY <1>1, <1>5, <1>8
      <3>2. alone = <<first>>
        BY <3>1
      <3> QED BY <1>2, <3>2
    <2>2. Lines(w) # <<>> /\ Head(Lines(w)) = first
      BY <1>7, <2>1
    <2>3. line = first
      BY <2>2 DEF Get
    <2>4. \A i \in 1 .. k : line[i] = w.before[i]
      BY <1>1, <1>4, <2>3
    <2>5. ASSUME NEW i \in k + 1 .. k + f PROVE line[i] = Hops(w)[i - k]
      <3>1. i \in 1 .. k + f /\ ~(i <= k) /\ i - k \in 1 .. f
        BY <1>1
      <3>2. first[i] = folded[i - k] /\ folded[i - k] = Hops(w)[i - k]
        BY <1>3, <1>4, <3>1
      <3> HIDE DEF line
      <3> QED BY <2>3, <3>2
    <2>6. f = 0 /\ k > 0 => line = w.before
      BY <1>6, <2>3
    <2> HIDE DEF line
    <2>7. line \in Seq(S) /\ Len(line) = k + f
      BY <1>4, <2>3
    <2> QED BY <1>1, <1>8, <2>4, <2>5, <2>6, <2>7 DEF n, k, f, S, line
  <1>9. CASE k + f = 0
    <2>1. k = 0 /\ f = 0 /\ Lines(w) = <<>> \o rest
      BY <1>1, <1>2, <1>5, <1>9
    <2>2. Lines(w) = rest
      BY <1>7, <2>1, ConcatEmptySeq
    <2>3. n = 0 => line = <<>>
      BY <1>1, <1>7, <2>1, <2>2, EmptySeq DEF Get
    <2>4. n > 0 => line = <<w.origin>>
      <3>1. n > 0 => rest # <<>> /\ rest[1] = <<Hops(w)[f + 1]>>
        <4>1. n > 0 => 1 \in 1 .. n - f
          BY <1>1, <2>1
        <4>2. n > 0 => rest[1] = <<Hops(w)[f + 1]>>
          BY <4>1
        <4> HIDE DEF rest
        <4>3. n > 0 => Len(rest) # 0
          BY <1>1, <1>7, <2>1
        <4>4. n > 0 => rest # <<>>
          BY <1>7, <4>3, EmptySeq
        <4> QED BY <4>2, <4>4
      <3>2. n > 0 => Head(rest) = rest[1]
        BY <1>7, <3>1
      <3>3. Hops(w)[f + 1] = w.origin
        BY <1>1, <2>1
      <3>4. rest # <<>> => line = Head(rest)
        BY <2>2 DEF Get
      <3> QED BY <3>1, <3>2, <3>3, <3>4
    <2> QED BY <1>1, <2>1, <2>3, <2>4 DEF n, k, f
  <1> QED BY <1>1, <1>8, <1>9

(* What the server makes of a request.                                     *)
LEMMA Arrival ==
  ASSUME NEW arrival \in Arrivals
  PROVE  /\ arrival.ip \in Addresses \union {Nothing} /\ arrival.ip \in arrival.due
         /\ arrival.due \subseteq Addresses \union {Nothing}
  <1> PICK w \in Ways : arrival = Seen(w)
    BY DEF Arrivals
  <1> DEFINE n         == Len(w.path)
             k         == Len(w.before)
             peer      == Last(Hops(w))
             line      == Get(Lines(w))
             said      == ClientAddrFromForwardedFor(line)
             wrote     == {w.before[i] : i \in DOMAIN w.before}
             malformed == \E part \in wrote : ~Parses(part)
             ip        == RealIP(peer, Lines(w), w.real)
  <1>1. /\ n \in Nat /\ k \in Nat /\ w.folded \in 0 .. n /\ DOMAIN w.before = 1 .. k
        /\ w.before \in Seq(Addresses \union {Garbage})
        /\ w.origin \in Addresses \union {Nothing} /\ (n > 0 => w.origin \in Addresses)
        /\ \A i \in 1 .. n : w.path[i] \in Proxies
        /\ \A i \in 2 .. n + 1 : Hops(w)[i] = w.path[i - 1]
        /\ Hops(w)[1] = w.origin /\ peer = IF n = 0 THEN w.origin ELSE w.path[n]
    BY Way
  <1>2. /\ w.folded = 0 /\ k > 0 => line = w.before
        /\ k = 0 /\ n = 0 => line = <<>>
        /\ n > 0 /\ k + w.folded > 0 =>
              /\ line \in Seq(Addresses \union {Garbage}) /\ Len(line) = k + w.folded
              /\ \A i \in 1 .. k : line[i] = w.before[i]
              /\ \A i \in k + 1 .. k + w.folded : line[i] = Hops(w)[i - k]
        /\ n > 0 /\ k + w.folded = 0 => line = <<w.origin>>
    BY Line
  <1>3. arrival.ip = ip /\ arrival.due = Due(w)
    BY DEF Seen
  <1>4. /\ Nothing \notin Addresses /\ Proxies \subseteq Addresses
        /\ w.real \in Addresses \union {Nothing}
        /\ wrote = {} <=> k = 0
        /\ w.path = <<>> <=> n = 0
    <2>1. w.real \in Clients \union {Nothing} /\ w.path \in Seq(Proxies)
      BY DEF Ways, BoundedSeq, SeqOf
    <2>2. w.path = <<>> <=> n = 0
      BY <2>1, EmptySeq
    <2>3. wrote = {} <=> k = 0
      <3>1. k > 0 => 1 \in DOMAIN w.before
        BY <1>1
      <3>2. k = 0 => DOMAIN w.before = {}
        BY <1>1
      <3> HIDE DEF k
      <3>3. CASE k = 0
        BY <3>2, <3>3
      <3>4. CASE k > 0
        <4>1. 1 \in DOMAIN w.before
          BY <3>1, <3>4
        <4>2. w.before[1] \in wrote
          BY <4>1
        <4> HIDE DEF wrote
        <4>3. wrote # {}
          BY <4>2
        <4>4. k # 0
          BY <1>1, <3>4
        <4> QED BY <4>3, <4>4
      <3> HIDE DEF wrote
      <3>5. k = 0 \/ k > 0
        BY <1>1
      <3> QED BY <3>3, <3>4, <3>5
    <2>4. Nothing \notin Addresses /\ Proxies \subseteq Addresses /\ Clients \subseteq Addresses
      BY RateAssumption DEF Addresses
    <2> QED BY <2>1, <2>2, <2>3, <2>4
  <1> HIDE DEF n, k, line, wrote, peer
  <1>5. SUFFICES /\ ip \in Addresses \union {Nothing} /\ ip \in Due(w)
                 /\ Due(w) \subseteq Addresses \union {Nothing}
    BY <1>3
  <1>6. CASE peer \notin Proxies
    <2>1. n = 0 /\ peer = w.origin
      BY <1>1, <1>6
    <2>2. ip = w.origin /\ Due(w) = {w.origin}
      BY <1>6, <2>1 DEF RealIP, Due, peer
    <2> QED BY <1>1, <2>2
  <1>7. CASE peer \in Proxies
    <2> DEFINE other == IF Parses(w.real) THEN w.real ELSE peer
    <2>1. other \in Addresses
      BY <1>4, <1>7 DEF Parses
    <2>2. said = Nothing => ip = other
      BY <1>7 DEF RealIP, line
    <2>3. said # Nothing => ip = said
      BY <1>7 DEF RealIP, line
    <2>4. w.origin \in Addresses
      BY <1>1, <1>4, <1>7
    <2>5. CASE malformed
      <3>1. PICK i \in 1 .. k : ~Parses(w.before[i])
        BY <1>1, <2>5 DEF wrote
      <3>2. i \in DOMAIN line /\ line[i] = w.before[i]
        <4>1. CASE w.folded = 0
          BY <1>1, <1>2, <3>1, <4>1
        <4>2. CASE w.folded > 0
          <5>1. /\ line \in Seq(Addresses \union {Garbage}) /\ Len(line) = k + w.folded
                /\ line[i] = w.before[i]
            BY <1>1, <1>2, <3>1, <4>2
          <5>2. DOMAIN line = 1 .. Len(line)
            BY <5>1, LenProperties
          <5> QED BY <1>1, <4>2, <5>1, <5>2
        <4> QED BY <1>1, <4>1, <4>2
      <3>3. said = Nothing
        BY <3>1, <3>2, Unreadable
      <3>4. Due(w) = {other}
        BY <1>7, <2>5 DEF Due, wrote, peer
      <3> QED BY <2>1, <2>2, <3>3, <3>4
    <2>6. CASE ~malformed /\ k = 0 /\ n = 0
      <3>1. said = Nothing
        BY <1>2, <2>6 DEF ClientAddrFromForwardedFor
      <3>2. Due(w) = {other}
        BY <1>4, <1>7, <2>6 DEF Due, wrote, peer
      <3> QED BY <2>1, <2>2, <3>1, <3>2
    <2>7. CASE ~malformed /\ (k > 0 \/ n > 0)
      <3>1. \A i \in 1 .. k : w.before[i] \in Addresses /\ w.before[i] \in wrote
        BY <1>1, <2>7 DEF wrote, Parses
      <3>2. wrote \subseteq Addresses
        BY <1>1, <3>1 DEF wrote
      <3>3. /\ line \in Seq(Addresses) /\ line # <<>>
            /\ \A i \in DOMAIN line :
                 \/ i <= k /\ line[i] \in wrote
                 \/ i = k + 1 /\ line[i] = w.origin /\ (w.folded > 0 \/ k = 0)
                 \/ i > k + 1 /\ line[i] \in Proxies
            /\ DOMAIN line = 1 .. Len(line)
            /\ w.folded > 0 => k + 1 \in DOMAIN line
        <4>1. CASE w.folded = 0 /\ k > 0
          <5>1. line = w.before
            BY <1>2, <4>1
          <5>2. w.before \in [1 .. k -> Addresses] /\ Len(w.before) = k
            BY <1>1, <3>1, LenProperties DEF k
          <5>3. w.before \in Seq(Addresses) /\ w.before # <<>>
            BY <1>1, <4>1, <5>2, SeqDef, EmptySeq
          <5> QED BY <1>1, <3>1, <4>1, <5>1, <5>2, <5>3
        <4>2. CASE w.folded = 0 /\ k = 0
          <5>1. line = <<w.origin>>
            BY <1>1, <1>2, <2>7, <4>2
          <5> QED BY <1>1, <2>4, <4>2, <5>1
        <4>3. CASE w.folded > 0
          <5>1. /\ n > 0 /\ line \in Seq(Addresses \union {Garbage}) /\ Len(line) = k + w.folded
                /\ \A i \in 1 .. k : line[i] = w.before[i]
                /\ \A i \in k + 1 .. k + w.folded : line[i] = Hops(w)[i - k]
            BY <1>1, <1>2, <4>3
          <5>2. DOMAIN line = 1 .. Len(line) /\ line \in [1 .. Len(line) -> Addresses \union {Garbage}]
            BY <5>1, LenProperties
          <5>3. ASSUME NEW i \in DOMAIN line
                PROVE  \/ i <= k /\ line[i] \in wrote
                       \/ i = k + 1 /\ line[i] = w.origin
                       \/ i > k + 1 /\ line[i] \in Proxies
            <6>1. i \in 1 .. k + w.folded
              BY <5>1, <5>2, <5>3
            <6>2. CASE i <= k
              BY <1>1, <3>1, <5>1, <6>1, <6>2
            <6>3. CASE i = k + 1
              BY <1>1, <5>1, <6>1, <6>3
            <6>4. CASE i > k + 1
              <7>1. PICK j \in 2 .. n : j = i - k
                BY <1>1, <6>1, <6>4
              <7>2. i \in k + 1 .. k + w.folded /\ j \in 2 .. n + 1 /\ j - 1 \in 1 .. n
                BY <1>1, <6>1, <6>4
              <7>3. line[i] = Hops(w)[j] /\ Hops(w)[j] = w.path[j - 1]
                BY <1>1, <5>1, <7>1, <7>2
              <7> QED BY <1>1, <6>4, <7>2, <7>3
            <6> QED BY <1>1, <6>1, <6>2, <6>3, <6>4
          <5>4. \A i \in DOMAIN line : line[i] \in Addresses
            BY <1>4, <2>4, <3>2, <5>3
          <5>5. line \in Seq(Addresses)
            <6>1. line \in [1 .. Len(line) -> Addresses] /\ Len(line) \in Nat
              BY <1>1, <5>1, <5>2, <5>4
            <6> QED BY <6>1, SeqDef
          <5>6. line # <<>>
            BY <1>1, <4>3, <5>1, EmptySeq
          <5>7. k + 1 \in DOMAIN line
            BY <1>1, <4>3, <5>1, <5>2
          <5> QED BY <4>3, <5>2, <5>3, <5>5, <5>6, <5>7
        <4> QED BY <1>1, <4>1, <4>2, <4>3
      <3> HIDE DEF malformed
      <3>4. PICK i \in DOMAIN line : said = line[i] /\ (i = 1 \/ line[i] \notin Proxies)
        BY <3>3, OneOfThese
      <3>5. said \in Addresses /\ said # Nothing
        BY <1>4, <3>3, <3>4, ElementOfSeq
      <3>6. ip = said
        BY <2>3, <3>5
      <3>7. CASE k = 0
        <4>1. said = w.origin
          BY <3>3, <3>4, <3>7
        <4>2. Due(w) = {w.origin}
          BY <1>1, <1>4, <1>7, <2>7, <3>7 DEF Due, wrote, peer, malformed
        <4> QED BY <2>4, <3>6, <4>1, <4>2
      <3>8. CASE k > 0 /\ w.folded = 0
        <4>1. said \in wrote
          BY <1>1, <1>2, <3>1, <3>4, <3>8
        <4>2. Due(w) = wrote
          <5>1. wrote # {} /\ \A part \in wrote : Parses(part)
            BY <1>1, <1>4, <2>7, <3>8 DEF malformed
          <5>2. w.folded = 0 /\ ~(w.folded > 0)
            BY <3>8
          <5> QED BY <1>7, <5>1, <5>2 DEF Due, wrote, peer
        <4> QED BY <3>2, <3>6, <4>1, <4>2
      <3>9. CASE k > 0 /\ w.folded > 0
        <4>1. Due(w) = IF w.origin \in Proxies THEN wrote \union {w.origin} ELSE {w.origin}
          BY <1>1, <1>4, <1>7, <2>7, <3>9 DEF Due, wrote, peer, malformed
        <4>2. CASE w.origin \in Proxies
          <5>1. said \in wrote \union {w.origin}
            BY <1>1, <3>3, <3>4, <3>9
          <5> QED BY <2>4, <3>2, <3>6, <4>1, <4>2, <5>1
        <4>3. CASE w.origin \notin Proxies
          <5>1. /\ k + 1 \in DOMAIN line /\ line[k + 1] = w.origin
                /\ \A j \in DOMAIN line : j > k + 1 => line[j] \in Proxies
            <6>1. k + 1 \in DOMAIN line /\ ~(k + 1 <= k) /\ ~(k + 1 > k + 1)
              BY <1>1, <3>3, <3>9
            <6>2. line[k + 1] = w.origin
              BY <3>3, <6>1
            <6>3. ASSUME NEW j \in DOMAIN line, j > k + 1 PROVE line[j] \in Proxies
              <7>1. j \in Nat /\ ~(j <= k) /\ j # k + 1
                BY <1>1, <3>3, <6>3
              <7> QED BY <3>3, <7>1
            <6> QED BY <6>1, <6>2, <6>3
          <5>2. said = w.origin
            BY <3>3, <4>3, <5>1, Rightmost
          <5> QED BY <2>4, <3>6, <4>1, <4>3, <5>2
        <4> QED BY <4>2, <4>3
      <3> QED BY <1>1, <3>7, <3>8, <3>9
    <2> QED BY <1>1, <2>5, <2>6, <2>7
  <1> QED BY <1>6, <1>7

-----------------------------------------------------------------------------
(* What is in a bucket. *)

(* Products of naturals.                                                   *)
LEMMA Products ==
  /\ \A x, y \in Nat : x * y \in Nat
  /\ \A c, x, y \in Nat : x <= y => c * x <= c * y /\ x * c <= y * c
  /\ \A c, x, y \in Nat : (x + y) * c = x * c + y * c /\ c * (x + y) = c * x + c * y
  <1>1. \A x, y \in Nat : x * y \in Nat
    OBVIOUS
  <1>2. \A c, x, y \in Nat : (x + y) * c = x * c + y * c /\ c * (x + y) = c * x + c * y
    OBVIOUS
  <1>3. ASSUME NEW c \in Nat, NEW x \in Nat, NEW y \in Nat, x <= y
        PROVE  c * x <= c * y /\ x * c <= y * c
    <2>1. y - x \in Nat /\ y = x + (y - x)
      BY <1>3
    <2>2. c * y = c * x + c * (y - x) /\ y * c = x * c + (y - x) * c
      BY <1>2, <2>1
    <2>3. c * x \in Nat /\ x * c \in Nat /\ c * (y - x) \in Nat /\ (y - x) * c \in Nat
      BY <1>1, <2>1
    <2> QED BY <2>2, <2>3
  <1> QED BY <1>1, <1>2, <1>3

(* The keys of emails are not those of addresses, capacities are positive, *)
(* and a bucket is not full again before Refill is over.                   *)
LEMMA Capacities ==
  /\ Threshold \in Nat /\ IPCapacity \in Nat /\ Window \in Nat \ {0}
  /\ Refill \in Nat \ {0} /\ Refill <= Window /\ Refill <= StaleAfter + 1
  /\ Unit \in Nat /\ \A capacity \in Nat : Full(capacity) \in Nat
  /\ \A e \in Emails : e \in Keys /\ e \notin Addresses
  /\ \A a \in Addresses : a \in Keys /\ a \notin Emails
  /\ Nothing \notin Keys
  <1>1. Refill \in Nat \ {0} /\ Refill <= Window /\ Refill <= StaleAfter + 1
    BY RateAssumption DEF Refill
  <1>2. Unit \in Nat /\ \A capacity \in Nat : Full(capacity) \in Nat
    BY <1>1, RateAssumption, Products DEF Unit, Full
  <1> QED BY <1>1, <1>2, RateAssumption, Products DEF IPCapacity, Keys, Addresses

(* How many have paid is a number, and no more when fewer have.            *)
LEMMA PaidFinite ==
  ASSUME NEW e
  PROVE  IsFiniteSet(Paid(e)) /\ Cardinality(Paid(e)) \in Nat
  <1>1. Paid(e) \subseteq Logins
    BY DEF Paid
  <1> QED BY <1>1, RateAssumption, FS_Subset, FS_CardinalityType

LEMMA Fewer ==
  ASSUME RateIInv, NEW k \in Keys, NEW capacity \in Nat, NEW m \in Nat, NEW n \in Nat,
         m <= n, Within(k, capacity, n)
  PROVE  Within(k, capacity, m)
  <1> DEFINE p == passed[k]
  <1>1. p \in Nat /\ bucket[k].level \in Nat /\ bucket[k].at \in Nat /\ now \in Nat
    BY DEF RateIInv
  <1>2. (p + m) * Unit <= (p + n) * Unit
    <2>1. p + m \in Nat /\ p + n \in Nat /\ p + m <= p + n /\ Unit \in Nat
      BY <1>1, Capacities
    <2> HIDE DEF p
    <2> QED BY <2>1, Products
  <1>3. /\ (p + m) * Unit \in Nat /\ (p + n) * Unit \in Nat
        /\ bucket[k].level * Refill \in Nat
        /\ Full(capacity) * (Refill + bucket[k].at) \in Nat /\ Full(capacity) * now \in Nat
    BY <1>1, Products, Capacities
  <1> QED BY <1>1, <1>2, <1>3 DEF Within

(* What flows into a bucket in d, at its rate, is no more than what a full *)
(* bucket for each Refill makes.                                           *)
LEMMA Inflow ==
  ASSUME NEW capacity \in Nat, NEW d \in Nat
  PROVE  d * capacity * Refill <= Full(capacity) * d
  <1>1. Refill \in Nat /\ Window \in Nat /\ Refill <= Window
    BY Capacities
  <1>2. d * capacity \in Nat
    BY Products
  <1>3. d * capacity * Refill <= d * capacity * Window
    BY <1>1, <1>2, Products
  <1>4. d * capacity * Window = capacity * Window * d
    BY <1>1
  <1> QED BY <1>3, <1>4 DEF Full

(* What is in a bucket now, with what passed, is no more than the limit.   *)
LEMMA Available ==
  ASSUME RateIInv, NEW k \in Keys, NEW capacity \in Nat, NEW paid \in Nat,
         Within(k, capacity, paid)
  PROVE  /\ Level(k, capacity) \in Nat
         /\ (passed[k] + paid) * Unit + Level(k, capacity) * Refill
                <= Full(capacity) * (Refill + now)
  <1> DEFINE b    == bucket[k]
             d    == now - b.at
             full == Full(capacity)
             gain == b.level + d * capacity
             used == (passed[k] + paid) * Unit
  <1>1. /\ b.level \in Nat /\ b.at \in Nat /\ now \in Nat /\ b.at <= now /\ passed[k] \in Nat
        /\ d \in Nat /\ now = b.at + d /\ Refill \in Nat
    BY Capacities DEF RateIInv
  <1>2. /\ full \in Nat /\ used \in Nat /\ d * capacity \in Nat /\ d * capacity * Refill \in Nat
        /\ full * (Refill + b.at) \in Nat /\ full * now \in Nat /\ full * d \in Nat
        /\ b.level * Refill \in Nat /\ full * Refill \in Nat
    <2>1. full \in Nat /\ Unit \in Nat
      BY Capacities
    <2>2. passed[k] + paid \in Nat /\ Refill + b.at \in Nat
      BY <1>1
    <2> HIDE DEF full, d, b
    <2> QED BY <1>1, <2>1, <2>2, Products
  <1>3. full * (Refill + now) = full * Refill + full * now
    <2> HIDE DEF full, d, b
    <2> QED BY <1>1, <1>2, Products
  <1>4. full * (Refill + now) = full * (Refill + b.at) + full * d
    <2> HIDE DEF full, d, b
    <2>1. Refill + now = (Refill + b.at) + d /\ Refill + b.at \in Nat
      BY <1>1
    <2> QED BY <1>1, <1>2, <2>1, Products
  <1>5. Level(k, capacity) = IF ~b.there \/ gain > full THEN full ELSE gain
    BY DEF Level, Full
  <1>6. CASE ~b.there
    <2>1. used <= full * now
      BY <1>6 DEF Within
    <2> HIDE DEF b, d, full, gain, used
    <2>2. Level(k, capacity) = full
      BY <1>5, <1>6
    <2>3. used + full * Refill <= full * (Refill + now)
      BY <1>2, <1>3, <2>1
    <2> QED BY <1>2, <2>2, <2>3 DEF used, full
  <1>7. CASE b.there
    <2>1. used + b.level * Refill <= full * (Refill + b.at)
      BY <1>7 DEF Within
    <2>2. d * capacity * Refill <= full * d
      BY <1>1, Inflow
    <2>3. gain = b.level + d * capacity
      OBVIOUS
    <2> HIDE DEF b, d, full, gain, used
    <2>4. gain \in Nat /\ gain * Refill = b.level * Refill + d * capacity * Refill
      BY <1>1, <1>2, <2>3, Products
    <2>5. used + gain * Refill <= full * (Refill + now)
      BY <1>2, <1>4, <2>1, <2>2, <2>4
    <2>6. Level(k, capacity) \in Nat /\ Level(k, capacity) <= gain
      BY <1>2, <1>5, <1>7, <2>4
    <2>7. /\ Level(k, capacity) * Refill <= gain * Refill
          /\ Level(k, capacity) * Refill \in Nat /\ gain * Refill \in Nat
      BY <1>1, <2>4, <2>6, Products
    <2>8. full * (Refill + now) \in Nat
      BY <1>2, <1>3
    <2> QED BY <1>2, <2>5, <2>6, <2>7, <2>8 DEF used, full
  <1> QED BY <1>6, <1>7

(* A token is taken out of a bucket if it is allowed.                      *)
LEMMA Charged ==
  ASSUME RateIInv, NEW k \in Keys, NEW capacity \in Nat, NEW paid \in Nat,
         Within(k, capacity, paid), Charge(k, capacity)
  PROVE  /\ bucket' \in [Keys -> [level : Nat, at : Nat, there : BOOLEAN]]
         /\ \A j \in Keys : j # k => bucket'[j] = bucket[j]
         /\ bucket'[k].at = now /\ bucket'[k].there
         /\ (passed[k] + paid + IF Allowed(k, capacity) THEN 1 ELSE 0) * Unit
                + bucket'[k].level * Refill <= Full(capacity) * (Refill + now)
  <1> DEFINE level == Level(k, capacity)
             left  == IF level >= Window THEN level - Window ELSE level
             used  == passed[k] + paid
             bound == Full(capacity) * (Refill + now)
  <1>1. level \in Nat /\ used * Unit + level * Refill <= bound
    BY Available
  <1>2. bucket' = [bucket EXCEPT ![k] = [there |-> TRUE, at |-> now, level |-> left]]
    BY DEF Charge
  <1>3. /\ used \in Nat /\ Window \in Nat /\ now \in Nat /\ Refill \in Nat /\ Unit \in Nat
        /\ Full(capacity) \in Nat
    BY Capacities DEF RateIInv
  <1>4. Allowed(k, capacity) <=> level >= Window
    BY DEF Allowed
  <1> HIDE DEF level, used
  <1>5. left \in Nat
    BY <1>1, <1>3
  <1>6. /\ used * Unit \in Nat /\ level * Refill \in Nat /\ bound \in Nat
        /\ (used + 1) * Unit = used * Unit + Unit
        /\ (used + 0) * Unit = used * Unit
    BY <1>1, <1>3, Products
  <1> HIDE DEF bound
  <1>7. (used + IF Allowed(k, capacity) THEN 1 ELSE 0) * Unit + left * Refill <= bound
    <2>1. CASE Allowed(k, capacity)
      <3>1. left \in Nat /\ level = left + Window
        BY <1>1, <1>3, <1>4, <1>5, <2>1
      <3> HIDE DEF left
      <3>2. level * Refill = left * Refill + Unit /\ left * Refill \in Nat
        BY <1>3, <3>1, Products DEF Unit
      <3> QED BY <1>1, <1>3, <1>6, <2>1, <3>2
    <2>2. CASE ~Allowed(k, capacity)
      <3>1. left = level
        BY <1>4, <2>2
      <3> QED BY <1>1, <1>6, <2>2, <3>1
    <2> QED BY <2>1, <2>2
  <1> HIDE DEF left
  <1>8. bucket' \in [Keys -> [level : Nat, at : Nat, there : BOOLEAN]]
    BY <1>2, <1>3, <1>5 DEF RateIInv
  <1>9. /\ bucket'[k] = [there |-> TRUE, at |-> now, level |-> left]
        /\ \A j \in Keys : j # k => bucket'[j] = bucket[j]
    BY <1>2 DEF RateIInv
  <1> QED BY <1>7, <1>8, <1>9 DEF used, bound

-----------------------------------------------------------------------------
(* The steps. *)

(* The initial states satisfy the inductive invariant.                     *)
LEMMA InitRateIInv == RateInit => RateIInv
  <1> SUFFICES ASSUME RateInit PROVE RateIInv
    OBVIOUS
  <1>1. /\ now = 0
        /\ \A k \in Keys : passed[k] = 0 /\ bucket[k] = NoBucket
        /\ \A l \in Logins : login[l] = NoLogin
    BY DEF RateInit
  <1>2. /\ bucket \in [Keys -> [level : Nat, at : Nat, there : BOOLEAN]]
        /\ passed \in [Keys -> Nat]
        /\ login \in [Logins -> Login \union {NoLogin}]
    BY DEF RateInit, NoBucket
  <1>3. \A e : Paid(e) = {}
    BY <1>1 DEF Paid, NoLogin
  <1>4. ASSUME NEW k \in Keys, NEW capacity \in Nat
        PROVE  Within(k, capacity, 0)
    BY <1>1, <1>4, Capacities DEF Within, NoBucket
  <1>5. \A k \in Keys : bucket[k].at <= now
    BY <1>1 DEF NoBucket
  <1>6. ChargedToOrigin
    BY <1>1 DEF ChargedToOrigin, NoLogin
  <1> QED BY <1>1, <1>2, <1>3, <1>4, <1>5, <1>6, Capacities, FS_EmptySet DEF RateIInv

(* A step that touches no bucket, and after which no more have paid.       *)
LEMMA QuietRateIInv ==
  ASSUME RateIInv, UNCHANGED <<now, bucket, passed>>,
         login' \in [Logins -> Login \union {NoLogin}],
         \A e \in Emails : Paid(e)' \subseteq Paid(e),
         ChargedToOrigin'
  PROVE  RateIInv'
  <1>1. ASSUME NEW e \in Emails PROVE Within(e, Threshold, Cardinality(Paid(e)'))
    <2>1. /\ IsFiniteSet(Paid(e)) /\ Cardinality(Paid(e)) \in Nat
          /\ Paid(e)' \in SUBSET Paid(e)
      BY PaidFinite
    <2>2. IsFiniteSet(Paid(e)') /\ Cardinality(Paid(e)') <= Cardinality(Paid(e))
      BY <2>1, FS_Subset
    <2>3. Cardinality(Paid(e)') \in Nat
      BY <2>2, FS_CardinalityType
    <2> QED BY <2>1, <2>2, <2>3, Fewer, Capacities DEF RateIInv
  <1>2. \A k, capacity, n : Within(k, capacity, n) <=> Within(k, capacity, n)'
    BY DEF Within
  <1> QED BY <1>1, <1>2 DEF RateIInv

(* What arrives is charged to whom it is due, and has not paid.            *)
LEMMA ArriveIInv ==
  ASSUME RateIInv, NEW l \in Logins, NEW e \in Emails, NEW arrival \in Arrivals,
         Arrive(l, e, arrival)
  PROVE  RateIInv'
  <1>1. /\ arrival.ip \in Addresses \union {Nothing} /\ arrival.ip \in arrival.due
        /\ arrival.due \subseteq Addresses \union {Nothing}
    BY Arrival
  <1> DEFINE q == [step |-> "email", email |-> e, ip |-> arrival.ip, due |-> arrival.due]
  <1>2. q \in Login /\ q.step = "email" /\ q.ip \in q.due
    BY <1>1 DEF Login
  <1>3. /\ login' = [login EXCEPT ![l] = q]
        /\ UNCHANGED <<now, bucket, passed>>
    BY DEF Arrive
  <1> HIDE DEF q
  <1>5. \A m \in Logins : login'[m] = IF m = l THEN q ELSE login[m]
    BY <1>3 DEF RateIInv
  <1>6. login' \in [Logins -> Login \union {NoLogin}]
    BY <1>2, <1>3 DEF RateIInv
  <1>7. \A f \in Emails : Paid(f)' \subseteq Paid(f)
    BY <1>2, <1>5 DEF Paid
  <1>8. ChargedToOrigin'
    BY <1>2, <1>5 DEF RateIInv, ChargedToOrigin
  <1> QED BY <1>3, <1>6, <1>7, <1>8, QuietRateIInv

(* A login that is gone has nothing more to pay or to pass.                *)
LEMMA GiveUpIInv == ASSUME RateIInv, NEW l \in Logins, GiveUp(l) PROVE RateIInv'
  <1>1. login' = [login EXCEPT ![l] = NoLogin] /\ UNCHANGED <<now, bucket, passed>>
    BY DEF GiveUp
  <1>2. \A m \in Logins : login'[m] = IF m = l THEN NoLogin ELSE login[m]
    BY <1>1 DEF RateIInv
  <1>3. NoLogin.step # "ip"
    BY DEF NoLogin
  <1>4. login' \in [Logins -> Login \union {NoLogin}]
    BY <1>1 DEF RateIInv
  <1>5. \A e \in Emails : Paid(e)' \subseteq Paid(e)
    BY <1>2, <1>3 DEF Paid
  <1>6. ChargedToOrigin'
    BY <1>2, <1>3 DEF RateIInv, ChargedToOrigin
  <1> QED BY <1>1, <1>4, <1>5, <1>6, QuietRateIInv

(* What a login that is past a step holds.                                 *)
LEMMA Asked ==
  ASSUME RateIInv, NEW l \in Logins, login[l].step \in {"email", "ip"}
  PROVE  /\ login[l] \in Login /\ login[l].email \in Emails
         /\ login[l].ip \in Addresses \union {Nothing}
  BY DEF RateIInv, NoLogin, Login

(* The email's bucket is charged; what it gave is with the login.          *)
LEMMA ChargeEmailIInv ==
  ASSUME RateIInv, NEW l \in Logins, NEW e, e = login[l].email, ChargeEmail(l)
  PROVE  RateIInv'
  <1> DEFINE n == Cardinality(Paid(e))
             allowed == Allowed(e, Threshold)
  <1>1. login[l].step = "email" /\ login[l] \in Login /\ e \in Emails /\ e \in Keys
    BY Asked, Capacities DEF ChargeEmail
  <1>2. /\ Charge(e, Threshold) /\ UNCHANGED <<now, passed>>
        /\ login' = IF allowed THEN [login EXCEPT ![l].step = "ip"] ELSE [login EXCEPT ![l] = NoLogin]
    BY DEF ChargeEmail
  <1>3. n \in Nat /\ IsFiniteSet(Paid(e)) /\ Within(e, Threshold, n)
    BY <1>1, PaidFinite DEF RateIInv
  <1>4. /\ bucket' \in [Keys -> [level : Nat, at : Nat, there : BOOLEAN]]
        /\ \A j \in Keys : j # e => bucket'[j] = bucket[j]
        /\ bucket'[e].at = now /\ bucket'[e].there
        /\ (passed[e] + n + IF allowed THEN 1 ELSE 0) * Unit
               + bucket'[e].level * Refill <= Full(Threshold) * (Refill + now)
    <2> HIDE DEF n
    <2> QED BY <1>1, <1>2, <1>3, Charged, Capacities
  <1>5. PICK q \in Login \union {NoLogin} :
          /\ login' = [login EXCEPT ![l] = q]
          /\ allowed => q.step = "ip" /\ q.email = e /\ q.due = login[l].due /\ q.ip = login[l].ip
          /\ ~allowed => q = NoLogin
    <2>1. CASE allowed
      <3> DEFINE q == [login[l] EXCEPT !.step = "ip"]
      <3>1. q \in Login /\ q.step = "ip" /\ q.email = e /\ q.due = login[l].due /\ q.ip = login[l].ip
        BY <1>1 DEF Login
      <3>2. login' = [login EXCEPT ![l] = q]
        BY <1>2, <2>1
      <3> HIDE DEF q
      <3> QED BY <2>1, <3>1, <3>2
    <2>2. CASE ~allowed
      BY <1>2, <2>2
    <2> QED BY <2>1, <2>2
  <1>6. NoLogin.step # "ip"
    BY DEF NoLogin
  <1>7. \A m \in Logins : login'[m] = IF m = l THEN q ELSE login[m]
    BY <1>5 DEF RateIInv
  <1>8. login' \in [Logins -> Login \union {NoLogin}] /\ ChargedToOrigin'
    <2>1. login[l] # NoLogin
      BY <1>1 DEF NoLogin
    <2>2. ChargedToOrigin /\ login[l].ip \in login[l].due
      BY <2>1 DEF RateIInv, ChargedToOrigin
    <2>3. login' \in [Logins -> Login \union {NoLogin}]
      BY <1>5 DEF RateIInv
    <2> HIDE DEF allowed
    <2>4. q = NoLogin \/ q.ip \in q.due
      BY <1>5, <2>2
    <2>5. ASSUME NEW m \in Logins, login'[m] # NoLogin
          PROVE  login'[m].ip \in login'[m].due
      BY <1>7, <2>2, <2>4, <2>5 DEF ChargedToOrigin
    <2> QED BY <2>3, <2>5 DEF ChargedToOrigin
  <1>9. \A f \in Emails : f # e => Paid(f)' = Paid(f)
    BY <1>1, <1>5, <1>6, <1>7 DEF Paid
  <1>10. Cardinality(Paid(e)') = n + IF allowed THEN 1 ELSE 0
    <2>1. CASE allowed
      <3>1. Paid(e)' = Paid(e) \union {l} /\ l \notin Paid(e)
        BY <1>1, <1>5, <1>7, <2>1 DEF Paid
      <3> QED BY <1>3, <2>1, <3>1, FS_AddElement
    <2>2. CASE ~allowed
      <3>1. Paid(e)' = Paid(e)
        BY <1>1, <1>5, <1>6, <1>7, <2>2 DEF Paid
      <3> QED BY <1>3, <2>2, <3>1
    <2> QED BY <2>1, <2>2
  <1> HIDE DEF allowed
  <1>11. \A f \in Emails : Within(f, Threshold, Cardinality(Paid(f)))'
    <2>1. ASSUME NEW f \in Emails, f # e PROVE Within(f, Threshold, Cardinality(Paid(f)))'
      BY <1>2, <1>4, <1>9, <2>1, Capacities DEF RateIInv, Within
    <2>2. Within(e, Threshold, Cardinality(Paid(e)))'
      <3>1. passed[e] \in Nat
        BY <1>1 DEF RateIInv
      <3>2. passed[e] + n + (IF allowed THEN 1 ELSE 0) = passed[e] + (n + IF allowed THEN 1 ELSE 0)
        BY <1>3, <3>1
      <3>3. (passed'[e] + Cardinality(Paid(e)')) * Unit + bucket'[e].level * Refill
                <= Full(Threshold) * (Refill + bucket'[e].at)
        BY <1>2, <1>4, <1>10, <3>2
      <3> QED BY <1>4, <3>3 DEF Within
    <2> QED BY <2>1, <2>2 DEF Within
  <1>12. \A a \in Addresses : Within(a, IPCapacity, 0)'
    BY <1>1, <1>2, <1>4, Capacities DEF RateIInv, Within
  <1>13. \A k \in Keys : bucket'[k].at <= now'
    BY <1>2, <1>4 DEF RateIInv
  <1> QED BY <1>2, <1>4, <1>8, <1>11, <1>12, <1>13 DEF RateIInv

(* The address's bucket is charged, and what passes had paid for its       *)
(* email.                                                                  *)
LEMMA ChargeIPIInv ==
  ASSUME RateIInv, NEW l \in Logins, NEW e, e = login[l].email, NEW a, a = login[l].ip,
         ChargeIP(l)
  PROVE  RateIInv'
  <1> DEFINE n == Cardinality(Paid(e))
             allowed == a = Nothing \/ Allowed(a, IPCapacity)
  <1>1. /\ login[l].step = "ip" /\ login[l] \in Login
        /\ e \in Emails /\ e \in Keys /\ a \in Addresses \union {Nothing} /\ e # a
        /\ a # Nothing => a \in Addresses /\ a \in Keys
    BY Asked, Capacities DEF ChargeIP
  <1>2. /\ a # Nothing => Charge(a, IPCapacity)
        /\ a = Nothing => bucket' = bucket
        /\ UNCHANGED now
        /\ login' = [login EXCEPT ![l] = NoLogin]
        /\ passed' = IF allowed
                     THEN [k \in Keys |-> passed[k] + IF k \in {e, a} THEN 1 ELSE 0]
                     ELSE passed
    BY DEF ChargeIP
  <1>3. /\ n \in Nat /\ IsFiniteSet(Paid(e)) /\ Within(e, Threshold, n)
        /\ \A b \in Addresses : Within(b, IPCapacity, 0)
    BY <1>1, PaidFinite DEF RateIInv
  <1>4. /\ bucket' \in [Keys -> [level : Nat, at : Nat, there : BOOLEAN]]
        /\ \A j \in Keys : j # a => bucket'[j] = bucket[j]
        /\ a # Nothing =>
              /\ bucket'[a].at = now /\ bucket'[a].there
              /\ (passed[a] + 0 + IF allowed THEN 1 ELSE 0) * Unit
                     + bucket'[a].level * Refill <= Full(IPCapacity) * (Refill + now)
    <2>1. CASE a = Nothing
      BY <1>2, <2>1 DEF RateIInv
    <2>2. CASE a # Nothing
      <3>1. allowed <=> Allowed(a, IPCapacity)
        BY <2>2
      <3> HIDE DEF allowed
      <3> QED BY <1>1, <1>2, <1>3, <2>2, <3>1, Charged, Capacities
    <2> QED BY <2>1, <2>2
  <1>5. NoLogin.step # "ip"
    BY DEF NoLogin
  <1>6. \A m \in Logins : login'[m] = IF m = l THEN NoLogin ELSE login[m]
    BY <1>2 DEF RateIInv
  <1>7. login' \in [Logins -> Login \union {NoLogin}] /\ ChargedToOrigin'
    BY <1>2, <1>5, <1>6 DEF RateIInv, ChargedToOrigin
  <1>8. \A f \in Emails : f # e => Paid(f)' = Paid(f)
    BY <1>1, <1>5, <1>6 DEF Paid
  <1>9. Cardinality(Paid(e)') = n - 1 /\ n - 1 \in Nat
    <2>1. Paid(e)' = Paid(e) \ {l} /\ l \in Paid(e)
      BY <1>1, <1>5, <1>6 DEF Paid
    <2>2. IsFiniteSet(Paid(e)') /\ Cardinality(Paid(e)') = n - 1
      BY <1>3, <2>1, FS_RemoveElement
    <2>3. Cardinality(Paid(e)') \in Nat
      BY <2>2, FS_CardinalityType
    <2> QED BY <2>2, <2>3
  <1> HIDE DEF n, allowed
  <1>10. /\ passed \in [Keys -> Nat] /\ passed' \in [Keys -> Nat]
         /\ \A k \in Keys : passed'[k] = passed[k] + IF allowed /\ k \in {e, a} THEN 1 ELSE 0
    <2>1. passed \in [Keys -> Nat]
      BY DEF RateIInv
    <2>2. CASE allowed
      BY <1>2, <2>1, <2>2
    <2>3. CASE ~allowed
      BY <1>2, <2>1, <2>3
    <2> QED BY <2>1, <2>2, <2>3
  <1>11. \A f \in Emails : Within(f, Threshold, Cardinality(Paid(f)))'
    <2>1. ASSUME NEW f \in Emails, f # e PROVE Within(f, Threshold, Cardinality(Paid(f)))'
      <3>1. f \in Keys /\ f # a
        BY <1>1, Capacities
      <3>2. passed'[f] = passed[f] /\ bucket'[f] = bucket[f] /\ Paid(f)' = Paid(f)
        BY <1>4, <1>8, <1>10, <2>1, <3>1
      <3> QED BY <1>2, <3>2 DEF RateIInv, Within
    <2>2. Within(e, Threshold, Cardinality(Paid(e)))'
      <3>1. bucket'[e] = bucket[e] /\ passed[e] \in Nat
        BY <1>1, <1>4, <1>10
      <3>2. CASE allowed
        <4>1. passed'[e] + (n - 1) = passed[e] + n
          BY <1>1, <1>3, <1>10, <3>1, <3>2
        <4> QED BY <1>2, <1>3, <1>9, <3>1, <4>1 DEF Within
      <3>3. CASE ~allowed
        <4>1. passed'[e] = passed[e]
          BY <1>1, <1>10, <3>1, <3>3
        <4>2. Within(e, Threshold, n - 1)
          BY <1>1, <1>3, <1>9, Fewer, Capacities
        <4> QED BY <1>2, <1>9, <3>1, <4>1, <4>2 DEF Within
      <3> QED BY <3>2, <3>3
    <2> QED BY <2>1, <2>2 DEF Within
  <1>12. \A b \in Addresses : Within(b, IPCapacity, 0)'
    <2>1. ASSUME NEW b \in Addresses, b # a PROVE Within(b, IPCapacity, 0)'
      <3>1. b \in Keys /\ b # e
        BY <1>1, Capacities
      <3>2. passed'[b] = passed[b] /\ bucket'[b] = bucket[b]
        BY <1>4, <1>10, <2>1, <3>1
      <3> QED BY <1>2, <3>2 DEF RateIInv, Within
    <2>2. ASSUME a \in Addresses PROVE Within(a, IPCapacity, 0)'
      <3>1. a # Nothing /\ a \in Keys
        BY <2>2, Capacities
      <3>2. passed'[a] + 0 = passed[a] + 0 + IF allowed THEN 1 ELSE 0
        BY <1>1, <1>10, <3>1
      <3> QED BY <1>2, <1>4, <3>1, <3>2 DEF Within
    <2> QED BY <2>1, <2>2
  <1>13. \A k \in Keys : bucket'[k].at <= now'
    <2>1. ASSUME NEW k \in Keys PROVE bucket'[k].at <= now
      <3>1. CASE k = a
        BY <1>4, <2>1, <3>1, Capacities DEF RateIInv
      <3>2. CASE k # a
        BY <1>4, <2>1, <3>2 DEF RateIInv
      <3> QED BY <3>1, <3>2
    <2> QED BY <1>2, <2>1
  <1> QED BY <1>2, <1>4, <1>7, <1>10, <1>11, <1>12, <1>13 DEF RateIInv

(* A bucket that is removed was due to be full again.                      *)
LEMMA DeleteStaleBucketsIInv == ASSUME RateIInv, DeleteStaleBuckets PROVE RateIInv'
  <1> DEFINE stale == {k \in Keys : bucket[k].there /\ now - bucket[k].at > StaleAfter}
  <1>1. /\ bucket' = [k \in Keys |-> IF k \in stale THEN NoBucket ELSE bucket[k]]
        /\ UNCHANGED <<now, login, passed>>
    BY DEF DeleteStaleBuckets
  <1>2. ASSUME NEW k \in Keys, NEW capacity \in Nat, NEW n \in Nat, Within(k, capacity, n)
        PROVE  Within(k, capacity, n)'
    <2>1. CASE k \in stale
      <3>1. /\ (passed[k] + n) * Unit + bucket[k].level * Refill
                   <= Full(capacity) * (Refill + bucket[k].at)
            /\ passed[k] \in Nat /\ bucket[k].level \in Nat /\ bucket[k].at \in Nat /\ now \in Nat
            /\ now - bucket[k].at > StaleAfter
        BY <1>2, <2>1 DEF Within, RateIInv
      <3>2. Refill + bucket[k].at \in Nat /\ Refill + bucket[k].at <= now
        BY <3>1, RateAssumption, Capacities
      <3>3. Full(capacity) * (Refill + bucket[k].at) <= Full(capacity) * now
        BY <3>1, <3>2, Products, Capacities
      <3>4. /\ (passed[k] + n) * Unit \in Nat /\ Full(capacity) * now \in Nat
            /\ bucket[k].level * Refill \in Nat
            /\ Full(capacity) * (Refill + bucket[k].at) \in Nat
        BY <3>1, <3>2, Products, Capacities
      <3>5. (passed[k] + n) * Unit <= Full(capacity) * now
        BY <3>1, <3>3, <3>4
      <3>6. bucket'[k] = NoBucket
        BY <1>1, <2>1
      <3> QED BY <1>1, <3>5, <3>6 DEF Within, NoBucket
    <2>2. CASE k \notin stale
      BY <1>1, <1>2, <2>2 DEF Within
    <2> QED BY <2>1, <2>2
  <1>3. \A e : Paid(e)' = Paid(e)
    BY <1>1 DEF Paid
  <1>4. bucket' \in [Keys -> [level : Nat, at : Nat, there : BOOLEAN]]
    BY <1>1 DEF RateIInv, NoBucket
  <1>5. \A k \in Keys : bucket'[k].at <= now
    BY <1>1 DEF RateIInv, NoBucket
  <1>6. \A e \in Emails : Within(e, Threshold, Cardinality(Paid(e)))'
    <2> SUFFICES ASSUME NEW e \in Emails PROVE Within(e, Threshold, Cardinality(Paid(e)))'
      OBVIOUS
    <2>1. PICK n \in Nat : n = Cardinality(Paid(e))
      BY PaidFinite
    <2>2. Within(e, Threshold, n)'
      BY <1>2, <2>1, Capacities DEF RateIInv
    <2> QED BY <1>3, <2>1, <2>2 DEF Within
  <1>7. \A a \in Addresses : Within(a, IPCapacity, 0)'
    BY <1>2, Capacities DEF RateIInv
  <1> QED BY <1>1, <1>4, <1>5, <1>6, <1>7 DEF RateIInv, ChargedToOrigin

(* Time only adds to what may pass.                                        *)
LEMMA TickIInv == ASSUME RateIInv, Tick PROVE RateIInv'
  <1>1. now' = now + 1 /\ now \in Nat /\ UNCHANGED <<bucket, login, passed>>
    BY DEF Tick, RateIInv
  <1>2. ASSUME NEW k \in Keys, NEW capacity \in Nat, NEW n \in Nat, Within(k, capacity, n)
        PROVE  Within(k, capacity, n)'
    <2>1. /\ passed[k] \in Nat /\ now + 1 \in Nat
          /\ (passed[k] + n) * Unit \in Nat /\ Full(capacity) \in Nat
      BY <1>1, Products, Capacities DEF RateIInv
    <2>2. /\ Full(capacity) * now \in Nat /\ Full(capacity) * (now + 1) \in Nat
          /\ Full(capacity) * now <= Full(capacity) * (now + 1)
      BY <1>1, <2>1, Products
    <2> QED BY <1>1, <1>2, <2>1, <2>2 DEF Within
  <1>3. \A e : Paid(e)' = Paid(e)
    BY <1>1 DEF Paid
  <1>4. \A k \in Keys : bucket'[k].at <= now'
    BY <1>1 DEF RateIInv
  <1>5. \A e \in Emails : Within(e, Threshold, Cardinality(Paid(e)))'
    <2> SUFFICES ASSUME NEW e \in Emails PROVE Within(e, Threshold, Cardinality(Paid(e)))'
      OBVIOUS
    <2>1. PICK n \in Nat : n = Cardinality(Paid(e))
      BY PaidFinite
    <2>2. Within(e, Threshold, n)'
      BY <1>2, <2>1, Capacities DEF RateIInv
    <2> QED BY <1>3, <2>1, <2>2 DEF Within
  <1>6. \A a \in Addresses : Within(a, IPCapacity, 0)'
    BY <1>2, Capacities DEF RateIInv
  <1> QED BY <1>1, <1>4, <1>5, <1>6 DEF RateIInv, ChargedToOrigin

-----------------------------------------------------------------------------
(* The theorems. *)

(* Every step preserves the inductive invariant.                           *)
LEMMA RateNextIInv == ASSUME RateIInv, [RateNext]_RateVars PROVE RateIInv'
  <1>1. CASE UNCHANGED RateVars
    BY <1>1, QuietRateIInv DEF RateVars, RateIInv, Paid, ChargedToOrigin
  <1>2. ASSUME NEW l \in Logins, ChargeEmail(l) \/ ChargeIP(l) \/ GiveUp(l) PROVE RateIInv'
    BY <1>2, ChargeEmailIInv, ChargeIPIInv, GiveUpIInv
  <1> QED
    BY <1>1, <1>2, ArriveIInv, DeleteStaleBucketsIInv, TickIInv DEF RateNext

(* The inductive invariant holds throughout.                               *)
THEOREM RateInvariance == RateSpec => []RateIInv
  <1>1. RateIInv /\ [RateNext]_RateVars => RateIInv'
    BY RateNextIInv
  <1> QED BY InitRateIInv, <1>1, PTL DEF RateSpec

(* A login is charged to whom it is due by what became of it on its way:   *)
(* whatever the client wrote, whatever proxies it passed, and whichever of *)
(* them put the lines of X-Forwarded-For in one (RealIP, clientIP).        *)
THEOREM Charging == RateSpec => []ChargedToOrigin
  <1>1. RateIInv => ChargedToOrigin
    BY DEF RateIInv
  <1> QED BY <1>1, RateInvariance, PTL

(* No more pass than a full bucket and one more for each Refill, whether   *)
(* the cleanup removes a bucket before or after the window is over         *)
(* (enforceRateLimit, CleanupWorker.Work).                                 *)
THEOREM Limiting == RateSpec => []LimitsHold
  <1>1. ASSUME RateIInv, NEW k \in Keys, NEW capacity \in Nat, NEW n \in Nat,
               Within(k, capacity, n)
        PROVE  passed[k] * Refill <= capacity * (Refill + now)
    <2>1. Within(k, capacity, 0) /\ passed[k] \in Nat /\ now \in Nat /\ 0 \in Nat
      BY <1>1, Fewer DEF RateIInv
    <2>2. /\ Level(k, capacity) \in Nat
          /\ (passed[k] + 0) * Unit + Level(k, capacity) * Refill
                 <= Full(capacity) * (Refill + now)
      BY <1>1, <2>1, Available
    <2> DEFINE x == passed[k] * Refill
               y == capacity * (Refill + now)
    <2>3. x \in Nat /\ y \in Nat /\ Window \in Nat \ {0}
      <3>1. Refill \in Nat /\ Refill + now \in Nat
        BY <2>1, Capacities
      <3> QED BY <1>1, <2>1, <3>1, Products, Capacities
    <2>4. (passed[k] + 0) * Unit = x * Window /\ Full(capacity) * (Refill + now) = y * Window
      <3>1. Refill \in Nat /\ passed[k] \in Nat /\ Refill + now \in Nat /\ Window \in Nat
        BY <2>1, Capacities
      <3>2. (passed[k] + 0) * (Window * Refill) = passed[k] * Refill * Window
        BY <3>1
      <3>3. capacity * Window * (Refill + now) = capacity * (Refill + now) * Window
        BY <3>1
      <3> QED BY <3>2, <3>3 DEF Unit, Full
    <2>5. x * Window <= y * Window
      <3>1. Level(k, capacity) * Refill \in Nat
        BY <2>2, Products, Capacities
      <3> HIDE DEF x, y
      <3>2. x * Window \in Nat /\ y * Window \in Nat
        BY <2>3, Products
      <3> QED BY <2>2, <2>4, <3>1, <3>2
    <2> HIDE DEF x, y
    <2>6. ~(y + 1 <= x)
      <3> SUFFICES ASSUME y + 1 <= x PROVE FALSE
        OBVIOUS
      <3>1. (y + 1) * Window <= x * Window /\ (y + 1) * Window = y * Window + 1 * Window
        BY <2>3, Products
      <3>2. y * Window \in Nat /\ x * Window \in Nat /\ 1 * Window = Window
        BY <2>3, Products
      <3> QED BY <2>3, <2>5, <3>1, <3>2
    <2> QED BY <2>3, <2>6 DEF x, y
  <1>2. RateIInv => LimitsHold
    <2> SUFFICES ASSUME RateIInv PROVE LimitsHold
      OBVIOUS
    <2>1. ASSUME NEW e \in Emails PROVE passed[e] * Refill <= Threshold * (Refill + now)
      <3>1. Within(e, Threshold, Cardinality(Paid(e))) /\ Cardinality(Paid(e)) \in Nat
        BY PaidFinite DEF RateIInv
      <3> QED BY <1>1, <3>1, Capacities
    <2>2. ASSUME NEW a \in Addresses PROVE passed[a] * Refill <= IPCapacity * (Refill + now)
      <3>1. Within(a, IPCapacity, 0)
        BY DEF RateIInv
      <3> QED BY <1>1, <3>1, Capacities
    <2> QED BY <2>1, <2>2 DEF LimitsHold
  <1> QED BY <1>2, RateInvariance, PTL

-----------------------------------------------------------------------------
(* Passkeys. *)

(* No row and no request.                                                  *)
LEMMA Blank ==
  /\ NoRow \in Row /\ NoRow.user = Nobody /\ NoRow.count = 0 /\ ~NoRow.warned
  /\ Idle \in Request /\ Idle.step = "idle" /\ Idle.data = {}
  BY PasskeyAssumption DEF NoRow, Row, Idle, Request

(* The library's arithmetic stays within a row.                            *)
LEMMA Advanced ==
  ASSUME NEW rw \in Row, NEW n \in 0..MaxCount
  PROVE  UpdateCounter(CredentialFromRow(rw), n) \in Row
  BY DEF UpdateCounter, CredentialFromRow, Row

(* The initial states satisfy the inductive invariant.                     *)
LEMMA InitIInv == Init => IInv
  <1> SUFFICES ASSUME Init PROVE IInv
    OBVIOUS
  <1>1. Unseen \in [top : 0..MaxCount, reused : BOOLEAN, overlapped : BOOLEAN]
    BY PasskeyAssumption DEF Unseen
  <1>2. TypeOK
    BY <1>1, Blank DEF Init, TypeOK, Registered
  <1> QED BY <1>2, Blank DEF Init, IInv, Carries, Tracked, Registered

-----------------------------------------------------------------------------
(* A request that goes on without touching a row. *)

(* It is enough to look at its own record, if no login begins.             *)
LEMMA OwnRequest ==
  ASSUME IInv, NEW r \in Requests, NEW q \in Request, Carries(q),
         q.data # {} => q.step \in {"insert", "answer"}, q.step # "update",
         req' = [req EXCEPT ![r] = q], UNCHANGED <<row, maker, seen>>,
         current' \in Users \union {Nobody}, ceremony' \in SUBSET Credentials
  PROVE  IInv'
  <1>1. \A s \in Requests : req'[s] = IF s = r THEN q ELSE req[s]
    BY DEF IInv, TypeOK
  <1>2. TypeOK'
    BY <1>1 DEF IInv, TypeOK, Registered
  <1>3. ASSUME NEW s \in Requests
        PROVE  Carries(req[s])'
    BY <1>1 DEF IInv, Carries
  <1>4. ASSUME NEW c \in Credentials
        PROVE  Tracked(c)'
    BY <1>1 DEF IInv, Tracked, Registered, LoginPending
  <1> QED BY <1>2, <1>3, <1>4 DEF IInv

(* It is over.                                                             *)
LEMMA AbortIInv ==
  ASSUME IInv, NEW r \in Requests, Abort(r)
  PROVE  IInv'
  <1>1. Carries(Idle)
    BY Blank DEF Carries
  <1>2. current \in Users \union {Nobody} /\ ceremony \in SUBSET Credentials
    BY DEF IInv, TypeOK
  <1> QED BY <1>1, <1>2, Blank, OwnRequest DEF Abort

(* ... with its session saved, or not.                                     *)
LEMMA AnswerIInv ==
  ASSUME IInv, NEW r \in Requests, Answer(r)
  PROVE  IInv'
  <1>1. Carries(Idle)
    BY Blank DEF Carries
  <1>2. /\ current \in Users \union {Nobody} /\ ceremony \in SUBSET Credentials
        /\ req[r] \in Request
    BY DEF IInv, TypeOK
  <1>3. current' \in Users \union {Nobody} /\ ceremony' \in SUBSET Credentials
    BY <1>2 DEF Answer, Request
  <1> QED BY <1>1, <1>3, Blank, OwnRequest DEF Answer

(* A registration begins to write the credential of its user.              *)
LEMMA FinishPasskeyRegistrationIInv ==
  ASSUME IInv, NEW r \in Requests, NEW c \in Credentials, NEW n \in 0..MaxCount,
         FinishPasskeyRegistration(r, c, n)
  PROVE  IInv'
  <1> DEFINE q == [Idle EXCEPT !.step = "insert", !.creds = {c}, !.count = n,
                               !.user = current, !.data = ceremony]
  <1>1. /\ current \in Users \union {Nobody} /\ ceremony \in SUBSET Credentials
        /\ current # Nobody /\ current = maker[c]
    BY DEF IInv, TypeOK, FinishPasskeyRegistration
  <1>2. /\ q \in Request
        /\ q.step = "insert" /\ q.creds = {c} /\ q.user = current
    BY <1>1, Blank DEF Request, Idle
  <1>3. Carries(q)
    BY <1>1, <1>2 DEF Carries
  <1> QED BY <1>1, <1>2, <1>3, OwnRequest DEF FinishPasskeyRegistration

-----------------------------------------------------------------------------
(* The statements that write a row. *)

(* The credential is inserted, or is there already.                        *)
LEMMA PersistPasskeyCredentialIInv ==
  ASSUME IInv, NEW r \in Requests, NEW c \in Credentials,
         PersistPasskeyCredential(r, c)
  PROVE  IInv'
  <1> DEFINE q == req[r]
             a == [q EXCEPT !.step = "answer", !.count = 0]
             b == [q EXCEPT !.step = "answer", !.count = 0, !.data = {}]
  <1>1. /\ q \in Request
        /\ q.step = "insert" /\ q.creds = {c}
        /\ q.user \in Users /\ q.user # Nobody
    BY PasskeyAssumption DEF IInv, TypeOK, Carries, PersistPasskeyCredential
  <1>2. a \in Request /\ a.step = "answer" /\ b \in Request /\ b.step = "answer" /\ b.data = {}
    <2>1. 0 \in 0..MaxCount
      BY PasskeyAssumption
    <2>2. a \in Request /\ a.step = "answer"
      BY <1>1, <2>1 DEF Request
    <2>3. b = [a EXCEPT !.data = {}]
      OBVIOUS
    <2> HIDE DEF a
    <2>4. b \in Request /\ b.step = "answer" /\ b.data = {}
      BY <2>2, <2>3 DEF Request
    <2> QED BY <2>2, <2>4
  <1>3. Carries(a) /\ Carries(b)
    BY <1>2 DEF Carries
  <1>4. CASE Registered(c)
    <2>1. /\ req' = [req EXCEPT ![r] = a]
          /\ UNCHANGED <<row, maker, seen, current, ceremony>>
      BY <1>4 DEF PersistPasskeyCredential
    <2>2. current \in Users \union {Nobody} /\ ceremony \in SUBSET Credentials
      BY DEF IInv, TypeOK
    <2> HIDE DEF a
    <2> QED BY <1>2, <1>3, <2>1, <2>2, OwnRequest
  <1>5. CASE ~Registered(c)
    <2> DEFINE new == [NoRow EXCEPT !.user = q.user, !.count = q.count]
               h   == [Unseen EXCEPT !.top = q.count,
                         !.overlapped = \E s \in Requests : LoginPending(s, c)]
    <2>1. /\ req' = [req EXCEPT ![r] = b]
          /\ row' = [row EXCEPT ![c] = new]
          /\ seen' = [seen EXCEPT ![c] = h]
          /\ UNCHANGED <<maker, current, ceremony>>
      BY <1>5 DEF PersistPasskeyCredential
    <2>2. new \in Row /\ new.user = q.user /\ new.count = q.count /\ ~new.warned
      BY <1>1 DEF Row, NoRow, Request
    <2>3. /\ h \in [top : 0..MaxCount, reused : BOOLEAN, overlapped : BOOLEAN]
          /\ h.top = q.count /\ ~h.reused
          /\ ~h.overlapped => \A s \in Requests : ~LoginPending(s, c)
      BY <1>1 DEF Unseen, Request
    <2> HIDE DEF b, new, h
    <2>4. \A s \in Requests : req'[s] = IF s = r THEN b ELSE req[s]
      BY <2>1 DEF IInv, TypeOK
    <2>5. \A d \in Credentials : /\ row'[d] = IF d = c THEN new ELSE row[d]
                                 /\ seen'[d] = IF d = c THEN h ELSE seen[d]
      BY <2>1 DEF IInv, TypeOK
    <2>6. TypeOK'
      BY <1>1, <1>2, <2>1, <2>2, <2>3, <2>4, <2>5 DEF IInv, TypeOK, Registered
    <2>7. ASSUME NEW s \in Requests
          PROVE  Carries(req[s])'
      BY <1>3, <2>1, <2>4 DEF IInv, Carries
    <2>8. \A s \in Requests, d \in Credentials : LoginPending(s, d)' => LoginPending(s, d) /\ req'[s] = req[s]
      BY <1>2, <2>4 DEF LoginPending
    <2>9. ASSUME NEW d \in Credentials
          PROVE  Tracked(d)'
      <3>1. CASE d = c
        BY <3>1, <2>2, <2>3, <2>5, <2>8 DEF Tracked
      <3>2. CASE d # c
        BY <3>2, <2>5, <2>8 DEF IInv, Tracked, Registered
      <3> QED BY <3>1, <3>2
    <2> QED BY <2>6, <2>7, <2>9 DEF IInv
  <1> QED BY <1>4, <1>5

(* A login reads the row.                                                  *)
LEMMA FinishPasskeyLoginIInv ==
  ASSUME IInv, NEW r \in Requests, NEW c \in Credentials, NEW n \in 0..MaxCount,
         FinishPasskeyLogin(r, c, n)
  PROVE  IInv'
  <1> DEFINE next == UpdateCounter(CredentialFromRow(row[c]), n)
             q == [Idle EXCEPT !.step = "update", !.creds = {c}, !.read = row[c],
                               !.count = n, !.next = next]
             h == [seen[c] EXCEPT !.overlapped = @ \/ \E s \in Requests : LoginPending(s, c)]
  <1>1. /\ row[c] \in Row /\ next \in Row
        /\ seen[c] \in [top : 0..MaxCount, reused : BOOLEAN, overlapped : BOOLEAN]
    BY Advanced DEF IInv, TypeOK
  <1>2. /\ req' = [req EXCEPT ![r] = q]
        /\ seen' = [seen EXCEPT ![c] = h]
        /\ UNCHANGED <<row, maker, current, ceremony>>
    BY DEF FinishPasskeyLogin
  <1> HIDE DEF next
  <1>3. /\ q \in Request /\ q.step = "update" /\ q.creds = {c} /\ q.read = row[c]
        /\ q.count = n /\ q.next = next /\ q.data = {}
    BY <1>1, Blank DEF Request, Idle
  <1>4. /\ h \in [top : 0..MaxCount, reused : BOOLEAN, overlapped : BOOLEAN]
        /\ h.top = seen[c].top /\ h.reused = seen[c].reused
        /\ ~h.overlapped => /\ ~seen[c].overlapped
                            /\ \A s \in Requests : ~LoginPending(s, c)
    BY <1>1
  <1> HIDE DEF q, h
  <1>5. \A s \in Requests : req'[s] = IF s = r THEN q ELSE req[s]
    BY <1>2 DEF IInv, TypeOK
  <1>6. \A d \in Credentials : row'[d] = row[d] /\ seen'[d] = IF d = c THEN h ELSE seen[d]
    BY <1>2 DEF IInv, TypeOK
  <1>7. TypeOK'
    BY <1>2, <1>3, <1>4, <1>5, <1>6 DEF IInv, TypeOK, Registered
  <1>8. ASSUME NEW s \in Requests
        PROVE  Carries(req[s])'
    <2>1. Carries(q)
      BY <1>3 DEF Carries, next
    <2> QED BY <1>2, <1>5, <2>1 DEF IInv, Carries
  <1>9. ASSUME NEW d \in Credentials
        PROVE  Tracked(d)'
    <2>1. CASE d = c
      BY <2>1, <1>3, <1>4, <1>5, <1>6 DEF IInv, Tracked, Registered, LoginPending
    <2>2. CASE d # c
      <3>1. \A s \in Requests : LoginPending(s, d)' => LoginPending(s, d) /\ req'[s] = req[s]
        BY <2>2, <1>3, <1>5 DEF LoginPending
      <3> QED BY <2>2, <3>1, <1>6 DEF IInv, Tracked, Registered
    <2> QED BY <2>1, <2>2
  <1> QED BY <1>7, <1>8, <1>9 DEF IInv

(* ... and writes what it made of it, if the row is there.                 *)
LEMMA FinishLoginIInv ==
  ASSUME IInv, NEW r \in Requests, NEW c \in Credentials, FinishLogin(r, c)
  PROVE  IInv'
  <1> DEFINE q == req[r]
             h == seen[c]
             new == IF Registered(c)
                    THEN [row[c] EXCEPT !.count = q.next.count, !.warned = q.next.warned]
                    ELSE row[c]
             top == IF Registered(c) /\ q.count > h.top THEN q.count ELSE h.top
             reused == \/ h.reused
                       \/ Registered(c) /\ q.count <= h.top /\ (q.count # 0 \/ h.top # 0)
             k == [h EXCEPT !.top = top, !.reused = reused]
  <1>1. /\ q \in Request /\ row[c] \in Row /\ LoginPending(r, c)
        /\ h \in [top : 0..MaxCount, reused : BOOLEAN, overlapped : BOOLEAN]
        /\ q.step = "update"
        /\ q.next = UpdateCounter(CredentialFromRow(q.read), q.count)
    BY DEF IInv, TypeOK, Carries, FinishLogin, LoginPending
  <1>2. /\ req' = [req EXCEPT ![r] = Idle]
        /\ row' = [row EXCEPT ![c] = new]
        /\ seen' = [seen EXCEPT ![c] = k]
        /\ UNCHANGED <<maker, current, ceremony>>
    <2>1. row' = [row EXCEPT ![c] = new]
      BY DEF IInv, TypeOK, FinishLogin, UpdatePasskeyCredential, Write
    <2> QED BY <2>1 DEF FinishLogin
  <1>3. /\ new \in Row /\ new.user = row[c].user
        /\ ~Registered(c) => new = row[c]
        /\ Registered(c) => new.count = q.next.count /\ new.warned = q.next.warned
    BY <1>1 DEF Row, Request
  <1>4. /\ k \in [top : 0..MaxCount, reused : BOOLEAN, overlapped : BOOLEAN]
        /\ k.top = top /\ k.reused = reused /\ k.overlapped = h.overlapped
    BY <1>1 DEF Request
  <1>5. Registered(c) /\ ~h.overlapped => new.count = top /\ (reused => new.warned)
    <2> SUFFICES ASSUME Registered(c), ~h.overlapped
                 PROVE  new.count = top /\ (reused => new.warned)
      OBVIOUS
    <2>1. q.read = row[c] /\ row[c].count = h.top /\ (h.reused => row[c].warned)
      BY <1>1 DEF IInv, Tracked
    <2>2. q.count \in Nat /\ h.top \in Nat /\ row[c] \in Row
      BY <1>1, PasskeyAssumption DEF Request
    <2>3. CASE q.count <= h.top /\ (q.count # 0 \/ h.top # 0)
      <3>1. q.next = [row[c] EXCEPT !.warned = TRUE]
        BY <1>1, <2>1, <2>3 DEF UpdateCounter, CredentialFromRow
      <3> QED BY <1>3, <2>1, <2>2, <2>3, <3>1 DEF Row
    <2>4. CASE ~(q.count <= h.top /\ (q.count # 0 \/ h.top # 0))
      <3>1. q.next = [row[c] EXCEPT !.count = q.count]
        BY <1>1, <2>1, <2>4 DEF UpdateCounter, CredentialFromRow
      <3> QED BY <1>3, <2>1, <2>2, <2>4, <3>1 DEF Row
    <2> QED BY <2>3, <2>4
  <1> HIDE DEF new, k
  <1>6. \A s \in Requests : req'[s] = IF s = r THEN Idle ELSE req[s]
    BY <1>2 DEF IInv, TypeOK
  <1>7. \A d \in Credentials : /\ row'[d] = IF d = c THEN new ELSE row[d]
                               /\ seen'[d] = IF d = c THEN k ELSE seen[d]
    BY <1>2 DEF IInv, TypeOK
  <1>8. TypeOK'
    BY <1>2, <1>3, <1>4, <1>6, <1>7, Blank DEF IInv, TypeOK, Registered
  <1>9. ASSUME NEW s \in Requests
        PROVE  Carries(req[s])'
    BY <1>2, <1>6, Blank DEF IInv, Carries
  <1>10. \A s \in Requests, d \in Credentials :
            LoginPending(s, d)' => s # r /\ LoginPending(s, d) /\ req'[s] = req[s]
    BY <1>6, Blank DEF LoginPending
  <1>11. ASSUME NEW d \in Credentials
         PROVE  Tracked(d)'
    <2>1. CASE d = c
      <3>1. Registered(c) /\ ~h.overlapped => \A s \in Requests : ~LoginPending(s, c)'
        BY <1>1, <1>10 DEF IInv, Tracked
      <3>2. Registered(c)' <=> Registered(c)
        BY <1>3, <1>7 DEF Registered
      <3> QED BY <2>1, <3>1, <3>2, <1>4, <1>5, <1>7 DEF Tracked
    <2>2. CASE d # c
      BY <2>2, <1>7, <1>10 DEF IInv, Tracked, Registered
    <2> QED BY <2>1, <2>2
  <1> QED BY <1>8, <1>9, <1>11 DEF IInv

(* The row goes.                                                           *)
LEMMA DeletePasskeyIInv ==
  ASSUME IInv, NEW u \in Users, NEW c \in Credentials, DeletePasskey(u, c)
  PROVE  IInv'
  <1>1. \A d \in Credentials : row'[d] = IF d = c THEN NoRow ELSE row[d]
    BY DEF IInv, TypeOK, DeletePasskey
  <1>2. TypeOK'
    BY <1>1, Blank DEF IInv, TypeOK, DeletePasskey, Registered
  <1>3. ASSUME NEW s \in Requests
        PROVE  Carries(req[s])'
    BY DEF IInv, Carries, DeletePasskey
  <1>4. ASSUME NEW d \in Credentials
        PROVE  Tracked(d)'
    BY <1>1, Blank DEF IInv, Tracked, Registered, LoginPending, DeletePasskey
  <1> QED BY <1>2, <1>3, <1>4 DEF IInv

(* A challenge goes out, and the authenticator makes a credential.         *)
LEMMA BeginPasskeyRegistrationIInv ==
  ASSUME IInv, NEW c \in Credentials, BeginPasskeyRegistration(c)
  PROVE  IInv'
  <1>1. TypeOK'
    BY DEF IInv, TypeOK, BeginPasskeyRegistration, Registered
  <1>2. ASSUME NEW s \in Requests
        PROVE  Carries(req[s])'
    BY PasskeyAssumption DEF IInv, TypeOK, Carries, BeginPasskeyRegistration
  <1>3. ASSUME NEW d \in Credentials
        PROVE  Tracked(d)'
    BY DEF IInv, Tracked, Registered, LoginPending, BeginPasskeyRegistration
  <1> QED BY <1>1, <1>2, <1>3 DEF IInv

(* Every step preserves the inductive invariant.                           *)
LEMMA NextIInv == IInv /\ [Next]_vars => IInv'
  <1> SUFFICES ASSUME IInv, [Next]_vars
               PROVE  IInv'
    OBVIOUS
  <1>1. ASSUME UNCHANGED <<row, maker, req, seen>>,
               current' \in Users \union {Nobody}, ceremony' \in SUBSET Credentials
        PROVE  IInv'
    BY <1>1 DEF IInv, TypeOK, Carries, Tracked, Registered, LoginPending
  <1>2. current \in Users \union {Nobody} /\ ceremony \in SUBSET Credentials
    BY DEF IInv, TypeOK
  <1>3. ASSUME NEW u \in Users, SignIn(u)
        PROVE  IInv'
    BY <1>1, <1>2, <1>3 DEF SignIn
  <1>4. CASE Logout
    BY <1>1, <1>4 DEF Logout
  <1>5. CASE UNCHANGED vars
    BY <1>1, <1>2, <1>5 DEF vars
  <1> QED
    BY <1>3, <1>4, <1>5, BeginPasskeyRegistrationIInv, FinishPasskeyRegistrationIInv,
       FinishPasskeyLoginIInv, PersistPasskeyCredentialIInv, FinishLoginIInv,
       AnswerIInv, AbortIInv, DeletePasskeyIInv DEF Next

(* IInv holds throughout.                                                  *)
THEOREM Invariance == Spec => []IInv
  BY InitIInv, NextIInv, PTL DEF Spec

(* Every reachable state is well typed, and a deleted credential leaves    *)
(* nothing in its row (DeletePasskey).                                     *)
THEOREM Types == Spec => []TypeOK
  <1>1. IInv => TypeOK
    BY DEF IInv
  <1> QED BY <1>1, Invariance, PTL

(* Without overlapping logins a counter that comes again is warned of      *)
(* (FinishPasskeyLogin, updatePasskeyCredential).                          *)
THEOREM Warning == Spec => []CloneWarned
  <1>1. IInv => CloneWarned
    BY DEF IInv, Tracked, CloneWarned
  <1> QED BY <1>1, Invariance, PTL

-----------------------------------------------------------------------------
(* Who writes a row. *)

(* A row is written by a registration, a login, or its deletion.           *)
LEMMA Written ==
  ASSUME IInv, [Next]_vars, NEW c \in Credentials, row'[c] # row[c]
  PROVE  \/ \E r \in Requests : PersistPasskeyCredential(r, c)
         \/ \E r \in Requests : FinishLogin(r, c)
         \/ \E u \in Users : DeletePasskey(u, c)
  <1>1. ASSUME NEW r \in Requests, NEW d \in Credentials,
               PersistPasskeyCredential(r, d) \/ FinishLogin(r, d)
        PROVE  d = c
    BY <1>1 DEF IInv, TypeOK, PersistPasskeyCredential, FinishLogin, UpdatePasskeyCredential, Write
  <1>2. ASSUME NEW u \in Users, NEW d \in Credentials, DeletePasskey(u, d)
        PROVE  d = c
    BY <1>2 DEF IInv, TypeOK, DeletePasskey
  <1> QED
    BY <1>1, <1>2 DEF Next, vars, SignIn, Logout, BeginPasskeyRegistration,
       FinishPasskeyRegistration, FinishPasskeyLogin, Answer, Abort

(* A counter goes back, or a warning away, only by a login that read the   *)
(* row before another wrote it (updatePasskeyCredential).                  *)
THEOREM Reverting == Spec => RevertedOnlyByOverlap
  <1>1. ASSUME IInv, [Next]_vars, NEW c \in Credentials,
               Registered(c), row'[c].user = row[c].user,
               row'[c].count < row[c].count \/ (row[c].warned /\ ~row'[c].warned)
        PROVE  \E r \in Requests : LoginPending(r, c) /\ req[r].read # row[c]
    <2>1. row[c] \in Row
      BY <1>1 DEF IInv, TypeOK
    <2>2. row'[c] # row[c]
      BY <1>1, <2>1, PasskeyAssumption DEF Row
    <2>3. PICK r \in Requests : FinishLogin(r, c)
      <3>1. ASSUME NEW r \in Requests, PersistPasskeyCredential(r, c)
            PROVE  FALSE
        BY <1>1, <2>2, <3>1 DEF PersistPasskeyCredential
      <3>2. ASSUME NEW u \in Users, DeletePasskey(u, c)
            PROVE  FALSE
        BY <1>1, <3>2, Blank DEF IInv, TypeOK, DeletePasskey, Registered
      <3> QED BY <1>1, <2>2, <3>1, <3>2, Written
    <2>4. /\ LoginPending(r, c)
          /\ row'[c].count = req[r].next.count /\ row'[c].warned = req[r].next.warned
      BY <1>1, <2>1, <2>3 DEF IInv, TypeOK, FinishLogin, UpdatePasskeyCredential, Write, Row
    <2>5. /\ req[r].next = UpdateCounter(CredentialFromRow(req[r].read), req[r].count)
          /\ req[r].count \in 0..MaxCount
      BY <1>1, <2>4 DEF IInv, TypeOK, Carries, LoginPending, Request
    <2>6. ASSUME req[r].read = row[c]
          PROVE  FALSE
      <3>1. \/ req[r].next = [row[c] EXCEPT !.warned = TRUE]
            \/ /\ req[r].next = [row[c] EXCEPT !.count = req[r].count]
               /\ ~(req[r].count <= row[c].count /\ (req[r].count # 0 \/ row[c].count # 0))
        BY <2>5, <2>6 DEF UpdateCounter, CredentialFromRow
      <3>2. /\ req[r].next.count >= row[c].count
            /\ row[c].warned => req[r].next.warned
        BY <2>1, <2>5, <3>1, PasskeyAssumption DEF Row
      <3>3. req[r].next \in Row
        BY <1>1 DEF IInv, TypeOK, Request
      <3>4. ~(req[r].next.count < row[c].count)
        BY <2>1, <3>2, <3>3, PasskeyAssumption DEF Row
      <3> QED BY <1>1, <2>4, <3>2, <3>4
    <2> QED BY <2>4, <2>6
  <1>2. IInv /\ [Next]_vars
          => [\A c \in Credentials :
                /\ Registered(c) /\ row'[c].user = row[c].user
                /\ row'[c].count < row[c].count \/ (row[c].warned /\ ~row'[c].warned)
                => \E r \in Requests : LoginPending(r, c) /\ req[r].read # row[c]]_vars
    BY <1>1
  <1> QED BY <1>2, Invariance, PTL DEF Spec, RevertedOnlyByOverlap

(* A deleted credential returns by a registration only, as that of the     *)
(* user it was made for (FinishPasskeyRegistration).                       *)
THEOREM Returning == Spec => ReturnsByRegistrationOnly
  <1>1. ASSUME IInv, [Next]_vars, NEW c \in Credentials, ~Registered(c), row'[c] # row[c]
        PROVE  \E r \in Requests : /\ req[r].step = "insert"
                                   /\ req[r].creds = {c}
                                   /\ row'[c].user = maker[c]
    <2>1. PICK r \in Requests : PersistPasskeyCredential(r, c)
      <3>1. ASSUME NEW r \in Requests, FinishLogin(r, c)
            PROVE  FALSE
        BY <1>1, <3>1 DEF FinishLogin, UpdatePasskeyCredential
      <3>2. ASSUME NEW u \in Users, DeletePasskey(u, c)
            PROVE  FALSE
        BY <1>1, <3>2 DEF DeletePasskey
      <3> QED BY <1>1, <3>1, <3>2, Written
    <2>2. req[r].step = "insert" /\ req[r].creds = {c} /\ req[r].user = maker[c]
      BY <1>1, <2>1 DEF IInv, Carries, PersistPasskeyCredential
    <2>3. row'[c].user = req[r].user
      <3> DEFINE new == [NoRow EXCEPT !.user = req[r].user, !.count = req[r].count]
      <3>1. new.user = req[r].user
        BY DEF NoRow
      <3>2. row' = [row EXCEPT ![c] = new]
        BY <1>1, <2>1 DEF PersistPasskeyCredential
      <3> QED BY <1>1, <3>1, <3>2 DEF IInv, TypeOK
    <2> QED BY <2>2, <2>3
  <1>2. IInv /\ [Next]_vars
          => [\A c \in Credentials :
                ~Registered(c) /\ row'[c] # row[c] =>
                    \E r \in Requests : /\ req[r].step = "insert"
                                        /\ req[r].creds = {c}
                                        /\ row'[c].user = maker[c]]_vars
    BY <1>1
  <1> QED BY <1>2, Invariance, PTL DEF Spec, ReturnsByRegistrationOnly
=============================================================================
