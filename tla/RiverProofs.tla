----------------------------- MODULE RiverProofs -----------------------------
(***************************************************************************)
(* Proofs about what River runs: EmailOutbox, its job that sends the       *)
(* mails, and AppLifecycle, the process that starts and stops it.  They    *)
(* hold for any number of mails, workers and crashes, any faults, and any  *)
(* number of handlers and jobs, and need no fairness: that the mails are   *)
(* delivered and that the process ends is left to the model checker.       *)
(***************************************************************************)
EXTENDS EmailOutbox, AppLifecycle, TLAPS

-----------------------------------------------------------------------------
(* EmailOutbox: rows, jobs and batches. *)

(* The records of an idle worker and of a row that is not there.           *)
LEMMA Blank ==
  /\ Idle \in Job /\ Idle.step = "idle" /\ Idle.batch = <<>> /\ IsInjective(Idle.batch)
  /\ Idle.left = 0 /\ Idle.cancelled = FALSE
  /\ NoRow.state = "absent" /\ Deleted.state = "deleted"
  BY OutboxAssumption DEF Idle, Job, IsInjective, NoRow, Deleted

(* The state of a row.                                                     *)
LEMMA States ==
  ASSUME IInv, NEW m \in Mails
  PROVE  /\ Unsent(m) => mail[m] \in Row
         /\ mail[m].state = "sent" => mail[m] \in Sent
         /\ mail[m] = Deleted => mail[m].state = "deleted"
         /\ mail[m].state \in {"new", "failed", "sent", "absent", "deleted"}
  BY Blank DEF IInv, TypeOK, Unsent, Row, Sent, NoRow, Deleted

(* What is left of a batch, and its first mail.                            *)
LEMMA Batch ==
  ASSUME NEW s \in Seq(Mails), IsInjective(s), s # <<>>
  PROVE  /\ Head(s) = s[1] /\ Head(s) \in Mails /\ 1 \in DOMAIN s
         /\ \A i \in DOMAIN s : i \in Nat /\ (i > 1 => s[i] # Head(s))
         /\ Tail(s) \in Seq(Mails) /\ IsInjective(Tail(s))
         /\ Len(s) > 1 => Tail(s) # <<>>
         /\ \A i \in DOMAIN Tail(s) : i + 1 \in DOMAIN s /\ i + 1 > 1 /\ Tail(s)[i] = s[i + 1]
  <1>1. /\ Len(s) \in Nat /\ Len(s) >= 1 /\ DOMAIN s = 1 .. Len(s)
        /\ Head(s) = s[1] /\ Tail(s) \in Seq(Mails)
        /\ Len(Tail(s)) = Len(s) - 1 /\ DOMAIN Tail(s) = 1 .. Len(s) - 1
        /\ \A i \in 1 .. Len(s) - 1 : Tail(s)[i] = s[i + 1]
    OBVIOUS
  <1>2. \A i, j \in DOMAIN s : s[i] = s[j] => i = j
    BY DEF IsInjective
  <1>3. \A i \in DOMAIN Tail(s) : i + 1 \in DOMAIN s /\ i + 1 > 1 /\ Tail(s)[i] = s[i + 1]
    BY <1>1
  <1>4. IsInjective(Tail(s))
    <2>1. ASSUME NEW i \in DOMAIN Tail(s), NEW j \in DOMAIN Tail(s), Tail(s)[i] = Tail(s)[j]
          PROVE  i = j
      <3>1. i + 1 = j + 1
        BY <1>2, <1>3, <2>1
      <3> QED BY <1>1, <3>1
    <2> QED BY <2>1 DEF IsInjective
  <1>5. \A i \in DOMAIN s : i \in Nat /\ (i > 1 => s[i] # Head(s))
    BY <1>1, <1>2
  <1>6. Head(s) \in Mails /\ 1 \in DOMAIN s
    BY <1>1
  <1>7. Len(s) > 1 => Tail(s) # <<>>
    <2>1. Len(s) > 1 => Len(Tail(s)) # 0
      BY <1>1
    <2>2. Len(<<>>) = 0
      OBVIOUS
    <2> QED BY <2>1, <2>2
  <1> QED BY <1>1, <1>3, <1>4, <1>5, <1>6, <1>7

(* The initial states satisfy the inductive invariant.                     *)
LEMMA InitIInv == Init => IInv
  <1> SUFFICES ASSUME Init PROVE IInv
    OBVIOUS
  <1>1. TypeOK
    BY Blank, OutboxAssumption DEF Init, TypeOK
  <1>2. \A w \in Workers : worker[w] = Idle
    BY DEF Init
  <1>3. OneJob
    BY <1>2, Blank DEF Init, OneJob, Busy
  <1>4. \A m \in Mails : Recorded(m)
    BY <1>2, Blank DEF Init, Recorded, JustSent
  <1> QED BY <1>1, <1>3, <1>4, Blank DEF IInv, Init, AgainOnlyIfBlind, SentWasDelivered

-----------------------------------------------------------------------------
(* The steps of a job. *)

(* A worker that has a job is the only one, and the job is nowhere else.   *)
LEMMA Alone ==
  ASSUME IInv, NEW w \in Workers, worker[w].step # "idle"
  PROVE  /\ w \in Busy /\ queued = 0 /\ stuck = {}
         /\ worker[w] \in Job /\ IsInjective(worker[w].batch)
         /\ worker[w].batch = <<>> <=> worker[w].step \in {"idle", "list"}
         /\ \A v \in Workers \ {w} :
               /\ worker[v].step = "idle" /\ worker[v].batch = <<>>
               /\ \A m \in Mails : ~ToSend(worker[v], m) /\ ~JustSent(worker[v], m)
  <1>1. w \in Busy /\ queued = 0 /\ stuck = {}
    BY DEF IInv, OneJob, Busy
  <1>2. \A v \in Workers \ {w} : worker[v].step = "idle" /\ worker[v].batch = <<>>
    BY <1>1 DEF IInv, TypeOK, OneJob, Busy
  <1> QED BY <1>1, <1>2 DEF IInv, TypeOK, ToSend, JustSent

(* Where the job is after a step of its worker: it goes on, is over, or    *)
(* waits for another worker, which is a retry or, after a crash, a rescue. *)
Passed(x) ==
    \/ UNCHANGED <<queued, stuck>>
    \/ x.step = "idle" /\ queued' = queued + 1 /\ stuck' = stuck
    \/ x.step = "idle" /\ queued' = queued /\ \E a \in 0 .. RescueAfter : stuck' = stuck \union {a}

(* A step of a worker with a job makes x of its record: it has no mail     *)
(* more to send, but those of the list, and what it has sent is recorded,  *)
(* about to be recorded, or known to be lost.                              *)
LEMMA WorkIInv ==
  ASSUME IInv, NEW w \in Workers, worker[w].step # "idle",
         NEW x \in Job, IsInjective(x.batch),
         x.batch = <<>> <=> x.step \in {"idle", "list"},
         worker' = [worker EXCEPT ![w] = x],
         Passed(x),
         mail' \in [Mails -> Row \union Sent \union {NoRow, Deleted}],
         delivered' \in [Mails -> {"never", "once", "again"}],
         blind \subseteq blind', blind' \subseteq Mails,
         crashes' \in 0 .. MaxCrashes,
         \A m \in Mails :
            ToSend(x, m) => \/ ToSend(worker[w], m) /\ (delivered'[m] = delivered[m] \/ m \in blind')
                            \/ Unsent(m) /\ worker[w].step = "list" /\ delivered'[m] = delivered[m],
         \A m \in Mails :
            \/ delivered'[m] = delivered[m]
            \/ /\ ToSend(worker[w], m) /\ delivered'[m] # "never"
               /\ delivered'[m] = "again" => delivered[m] # "never"
               /\ JustSent(x, m) \/ m \in blind',
         \A m \in Mails : JustSent(x, m) => JustSent(worker[w], m) \/ delivered'[m] # "never",
         \A m \in Mails : JustSent(worker[w], m) =>
                             JustSent(x, m) \/ m \in blind' \/ mail'[m].state \in {"sent", "deleted"},
         \A m \in Mails : mail[m].state \in {"sent", "deleted"} =>
                             mail'[m].state \in {"sent", "deleted"},
         \A m \in Mails : mail'[m].state = "sent" => mail[m].state = "sent" \/ JustSent(worker[w], m)
  PROVE  IInv'
  <1>1. /\ queued = 0 /\ stuck = {} /\ worker[w] \in Job
        /\ \A v \in Workers \ {w} :
              /\ worker[v].step = "idle" /\ worker[v].batch = <<>>
              /\ \A m \in Mails : ~ToSend(worker[v], m) /\ ~JustSent(worker[v], m)
    BY Alone
  <1>2. \A v \in Workers : worker'[v] = IF v = w THEN x ELSE worker[v]
    BY DEF IInv, TypeOK
  <1>3. TypeOK'
    <2>1. worker' \in [Workers -> Job]
      BY DEF IInv, TypeOK
    <2>2. ASSUME NEW v \in Workers
          PROVE  /\ IsInjective(worker'[v].batch)
                 /\ worker'[v].batch = <<>> <=> worker'[v].step \in {"idle", "list"}
      BY <1>2 DEF IInv, TypeOK
    <2>3. queued' \in Nat /\ stuck' \subseteq 0 .. RescueAfter
      BY <1>1 DEF Passed
    <2> QED BY <2>1, <2>2, <2>3 DEF TypeOK
  <1>4. OneJob'
    <2>1. \A v \in Workers : v # w => worker'[v].step = "idle"
      BY <1>1, <1>2
    <2>2. Busy' \subseteq {w} /\ (x.step = "idle" => Busy' = {})
      BY <1>2, <2>1 DEF Busy
    <2> QED BY <1>1, <2>2 DEF OneJob, Passed
  <1>5. ASSUME NEW m \in Mails
        PROVE  /\ Recorded(m)'
               /\ delivered'[m] = "again" => m \in blind'
               /\ mail'[m].state = "sent" => delivered'[m] # "never"
    <2>1. /\ Recorded(m)
          /\ delivered[m] = "again" => m \in blind
          /\ mail[m].state = "sent" => delivered[m] # "never"
      BY DEF IInv, AgainOnlyIfBlind, SentWasDelivered
    <2>2. delivered[m] # "never" => delivered'[m] # "never"
      OBVIOUS
    <2>3. \A v \in Workers \ {w} : ~ToSend(worker'[v], m) /\ ~JustSent(worker'[v], m)
      BY <1>1, <1>2
    <2>4. worker'[w] = x
      BY <1>2
    <2>5. ASSUME delivered'[m] # "never", m \notin blind'
          PROVE  /\ ~ToSend(x, m)
                 /\ mail'[m].state \in {"sent", "deleted"} \/ JustSent(x, m)
      <3>1. m \notin blind
        BY <2>5
      <3>2. CASE delivered[m] # "never"
        <4>1. /\ ~ToSend(worker[w], m)
              /\ mail[m].state \in {"sent", "deleted"} \/ JustSent(worker[w], m)
          BY <1>1, <2>1, <3>1, <3>2 DEF Recorded
        <4>2. ~(Unsent(m) /\ worker[w].step = "list")
          BY <4>1 DEF Unsent, JustSent
        <4> QED BY <2>5, <4>1, <4>2
      <3>3. CASE delivered[m] = "never"
        <4>1. ToSend(worker[w], m) /\ JustSent(x, m)
          BY <2>5, <3>3
        <4>2. ~ToSend(x, m)
          BY <2>5, <3>3
        <4> QED BY <4>1, <4>2
      <3> QED BY <3>2, <3>3
    <2>6. delivered'[m] = "never" => ~JustSent(x, m)
      BY <2>1, <2>2 DEF Recorded
    <2>7. Recorded(m)'
      <3> SUFFICES /\ delivered'[m] # "never" /\ m \notin blind' =>
                         /\ \A v \in Workers : ~ToSend(worker'[v], m)
                         /\ \/ mail'[m].state \in {"sent", "deleted"}
                            \/ \E v \in Workers : JustSent(worker'[v], m)
                   /\ delivered'[m] = "never" => \A v \in Workers : ~JustSent(worker'[v], m)
        BY DEF Recorded, ToSend, JustSent
      <3> QED BY <2>3, <2>4, <2>5, <2>6
    <2>8. delivered'[m] = "again" => m \in blind'
      <3>1. delivered[m] # "never" /\ ToSend(worker[w], m) => m \in blind
        BY <2>1 DEF Recorded
      <3> QED BY <2>1, <3>1
    <2>9. mail'[m].state = "sent" => delivered'[m] # "never"
      BY <2>1, <2>2 DEF Recorded
    <2> QED BY <2>7, <2>8, <2>9
  <1> QED BY <1>3, <1>4, <1>5 DEF IInv, AgainOnlyIfBlind, SentWasDelivered

(* The record of a worker that goes on with the same batch.                *)
LEMMA Stepped ==
  ASSUME IInv, NEW w \in Workers, worker[w].step \in {"send", "sent", "failed"},
         NEW step \in {"send", "sent", "failed"}, Goto(w, step)
  PROVE  \E x \in Job :
            /\ worker' = [worker EXCEPT ![w] = x]
            /\ x.step = step /\ x.batch = worker[w].batch
            /\ IsInjective(x.batch) /\ x.batch # <<>>
  <1> DEFINE x == [worker[w] EXCEPT !.step = step]
  <1>1. worker[w] \in Job /\ IsInjective(worker[w].batch) /\ worker[w].batch # <<>>
    BY Alone
  <1>2. x \in Job /\ x.step = step /\ x.batch = worker[w].batch
    BY <1>1 DEF Job
  <1>3. worker' = [worker EXCEPT ![w] = x]
    BY DEF Goto
  <1> QED BY <1>1, <1>2, <1>3

(* The loop of Work: the mail it is at is not taken up again.              *)
LEMMA Onward ==
  ASSUME IInv, NEW w \in Workers, worker[w].step \in {"sent", "failed"}, NextMail(w)
  PROVE  \E x \in Job :
            /\ worker' = [worker EXCEPT ![w] = x]
            /\ x.step \in {"idle", "send"}
            /\ IsInjective(x.batch)
            /\ x.batch = <<>> <=> x.step \in {"idle", "list"}
            /\ \A m \in Mails : ToSend(x, m) => ToSend(worker[w], m) /\ m # Head1(w)
  <1> DEFINE b == worker[w].batch
             x == IF Len(b) > 1 THEN [worker[w] EXCEPT !.step = "send", !.batch = Tail(b)]
                                ELSE Idle
  <1>1. worker[w] \in Job /\ IsInjective(b) /\ b # <<>> /\ b \in Seq(Mails)
    BY Alone DEF Job
  <1>2. worker' = [worker EXCEPT ![w] = x]
    BY DEF NextMail
  <1>3. CASE Len(b) > 1
    <2>1. /\ Tail(b) \in Seq(Mails) /\ IsInjective(Tail(b)) /\ Tail(b) # <<>>
          /\ \A i \in DOMAIN Tail(b) : i + 1 \in DOMAIN b /\ i + 1 > 1 /\ Tail(b)[i] = b[i + 1]
          /\ \A i \in DOMAIN b : i > 1 => b[i] # Head(b)
      BY <1>1, <1>3, Batch
    <2>2. x \in Job /\ x.step = "send" /\ x.batch = Tail(b)
      BY <1>1, <1>3, <2>1 DEF Job
    <2>3. ASSUME NEW m \in Mails, ToSend(x, m)
          PROVE  ToSend(worker[w], m) /\ m # Head1(w)
      <3>1. PICK i \in DOMAIN Tail(b) : Tail(b)[i] = m
        BY <2>2, <2>3 DEF ToSend
      <3>2. i + 1 \in DOMAIN b /\ i + 1 > 1 /\ b[i + 1] = m
        BY <2>1, <3>1
      <3> QED BY <2>1, <3>2 DEF ToSend, Head1
    <2> QED BY <1>2, <2>1, <2>2, <2>3
  <1>4. CASE ~(Len(b) > 1)
    <2>1. worker' = [worker EXCEPT ![w] = Idle]
      BY <1>2, <1>4
    <2>2. \A m \in Mails : ~ToSend(Idle, m)
      BY Blank DEF ToSend
    <2> QED BY <2>1, <2>2, Blank
  <1> QED BY <1>3, <1>4

(* ListPendingEmails gives mails that are not sent, each once.             *)
LEMMA ListIInv == ASSUME IInv, NEW w \in Workers, List(w) PROVE IInv'
  <1>1. worker[w] \in Job /\ worker[w].step = "list"
    BY Alone DEF List
  <1>2. PICK b \in Batches :
          worker' = [worker EXCEPT ![w] = IF b = <<>> THEN Idle
                                          ELSE [worker[w] EXCEPT !.step = "send", !.batch = b]]
    BY DEF List
  <1>3. /\ b \in Seq(Mails) /\ IsInjective(b)
        /\ \A i \in DOMAIN b : Unsent(b[i])
    <2>1. PICK n \in 0 .. Limit : b \in [1 .. n -> Pending]
      BY DEF Batches
    <2>2. Pending \subseteq Mails /\ \A m \in Pending : Unsent(m)
      BY DEF Pending
    <2>3. n \in Nat
      BY <2>1, OutboxAssumption
    <2> QED BY <2>1, <2>2, <2>3 DEF Batches
  <1> DEFINE x == IF b = <<>> THEN Idle ELSE [worker[w] EXCEPT !.step = "send", !.batch = b]
  <1>4. /\ x \in Job /\ IsInjective(x.batch)
        /\ x.batch = <<>> <=> x.step \in {"idle", "list"}
        /\ x.batch = b /\ x.step # "sent"
    BY <1>1, <1>3, Blank DEF Job
  <1>5. /\ worker' = [worker EXCEPT ![w] = x]
        /\ UNCHANGED <<mail, queued, stuck, crashes, delivered, blind>>
    BY <1>2 DEF List
  <1>6. \A m \in Mails : ToSend(x, m) => Unsent(m)
    BY <1>3, <1>4 DEF ToSend
  <1>7. \A m \in Mails : ~JustSent(x, m) /\ ~JustSent(worker[w], m)
    BY <1>1, <1>4 DEF JustSent
  <1> HIDE DEF x
  <1> QED
    BY <1>1, <1>4, <1>5, <1>6, <1>7, WorkIInv DEF Passed, IInv, TypeOK

(* A list that fails is asked for again by another job.                    *)
LEMMA ListFailsIInv == ASSUME IInv, NEW w \in Workers, ListFails(w) PROVE IInv'
  <1>1. worker[w].step = "list"
    BY DEF ListFails
  <1>2. \A m \in Mails : ~ToSend(Idle, m) /\ ~JustSent(Idle, m) /\ ~JustSent(worker[w], m)
    BY <1>1, Blank DEF ToSend, JustSent
  <1>3. /\ worker' = [worker EXCEPT ![w] = Idle] /\ Passed(Idle)
        /\ UNCHANGED <<mail, crashes, delivered, blind>>
    BY Blank DEF ListFails, Passed
  <1> QED BY <1>1, <1>2, <1>3, Blank, WorkIInv DEF IInv, TypeOK

(* The mail of a job that is past the list.                                *)
LEMMA First ==
  ASSUME IInv, NEW w \in Workers, worker[w].step \in {"send", "sent", "failed"}
  PROVE  /\ Head1(w) \in Mails
         /\ worker[w].step # "sent" => ToSend(worker[w], Head1(w))
         /\ \A m \in Mails : JustSent(worker[w], m) <=> worker[w].step = "sent" /\ m = Head1(w)
         /\ \A x, m : x.batch = worker[w].batch /\ x.step = "sent" /\ ToSend(x, m) =>
               ToSend(worker[w], m) /\ m # Head1(w)
         /\ \A x, m : x.batch = worker[w].batch /\ worker[w].step # "sent" /\ ToSend(x, m) =>
               ToSend(worker[w], m)
         /\ \A x : x.batch = worker[w].batch /\ x.step = "sent" => JustSent(x, Head1(w))
  <1> DEFINE b == worker[w].batch
  <1>1. b \in Seq(Mails) /\ IsInjective(b) /\ b # <<>>
    BY Alone DEF Job
  <1>2. /\ Head(b) = b[1] /\ Head(b) \in Mails /\ 1 \in DOMAIN b
        /\ \A i \in DOMAIN b : i \in Nat /\ (i > 1 => b[i] # Head(b))
    BY <1>1, Batch
  <1> QED BY <1>2 DEF Head1, ToSend, JustSent

(* The first statement after a send that the server has accepted is the    *)
(* one that records it.                                                    *)
LEMMA SendAcceptedIInv == ASSUME IInv, NEW w \in Workers, SendAccepted(w) PROVE IInv'
  <1>1. worker[w].step = "send"
    BY DEF SendAccepted
  <1>2. PICK x \in Job :
          /\ worker' = [worker EXCEPT ![w] = x]
          /\ x.step = "sent" /\ x.batch = worker[w].batch
          /\ IsInjective(x.batch) /\ x.batch # <<>>
    BY <1>1, Stepped DEF SendAccepted
  <1> DEFINE h == Head1(w)
  <1>3. /\ h \in Mails /\ ToSend(worker[w], h) /\ JustSent(x, h)
        /\ \A m \in Mails : ToSend(x, m) => ToSend(worker[w], m) /\ m # h
        /\ \A m \in Mails : ~JustSent(worker[w], m)
        /\ \A m \in Mails : JustSent(x, m) => m = h
    BY <1>1, <1>2, First DEF JustSent, Head1
  <1>4. /\ delivered' = [delivered EXCEPT ![h] = IF @ = "never" THEN "once" ELSE "again"]
        /\ UNCHANGED <<mail, queued, stuck, crashes, blind>>
    BY DEF SendAccepted, Deliver
  <1>5. /\ delivered' \in [Mails -> {"never", "once", "again"}]
        /\ \A m \in Mails : m # h => delivered'[m] = delivered[m]
        /\ delivered'[h] # "never" /\ (delivered'[h] = "again" => delivered[h] # "never")
    BY <1>3, <1>4 DEF IInv, TypeOK
  <1>6. \A m \in Mails :
          \/ delivered'[m] = delivered[m]
          \/ /\ ToSend(worker[w], m) /\ delivered'[m] # "never"
             /\ delivered'[m] = "again" => delivered[m] # "never"
             /\ JustSent(x, m) \/ m \in blind'
    BY <1>3, <1>4, <1>5
  <1>7. \A m \in Mails :
          ToSend(x, m) => ToSend(worker[w], m) /\ (delivered'[m] = delivered[m] \/ m \in blind')
    BY <1>3, <1>4, <1>5
  <1>8. \A m \in Mails : JustSent(x, m) => delivered'[m] # "never"
    BY <1>3, <1>5
  <1>9. mail' \in [Mails -> Row \union Sent \union {NoRow, Deleted}] /\ mail' = mail
    BY <1>4 DEF IInv, TypeOK
  <1>10. blind \subseteq blind' /\ blind' \subseteq Mails /\ crashes' \in 0 .. MaxCrashes /\ Passed(x)
    BY <1>3, <1>4 DEF IInv, TypeOK, Passed
  <1>11. x.batch = <<>> <=> x.step \in {"idle", "list"}
    BY <1>2
  <1> HIDE DEF h
  <1> QED
    BY <1>1, <1>2, <1>3, <1>5, <1>6, <1>7, <1>8, <1>9, <1>10, <1>11, WorkIInv

(* A send that is not confirmed is known as such.                          *)
LEMMA SendUnconfirmedIInv == ASSUME IInv, NEW w \in Workers, SendUnconfirmed(w) PROVE IInv'
  <1>1. worker[w].step = "send"
    BY DEF SendUnconfirmed
  <1>2. PICK x \in Job :
          /\ worker' = [worker EXCEPT ![w] = x]
          /\ x.step = "failed" /\ x.batch = worker[w].batch
          /\ IsInjective(x.batch) /\ x.batch # <<>>
    BY <1>1, Stepped DEF SendUnconfirmed
  <1> DEFINE h == Head1(w)
  <1>3. /\ h \in Mails /\ ToSend(worker[w], h)
        /\ \A m \in Mails : ToSend(x, m) => ToSend(worker[w], m)
        /\ \A m \in Mails : ~JustSent(worker[w], m) /\ ~JustSent(x, m)
    BY <1>1, <1>2, First DEF JustSent
  <1>4. /\ delivered' = [delivered EXCEPT ![h] = IF @ = "never" THEN "once" ELSE "again"]
        /\ blind' = blind \union {h}
        /\ UNCHANGED <<mail, queued, stuck, crashes>>
    BY DEF SendUnconfirmed, Deliver
  <1>5. /\ delivered' \in [Mails -> {"never", "once", "again"}]
        /\ \A m \in Mails : m # h => delivered'[m] = delivered[m]
        /\ delivered'[h] # "never" /\ (delivered'[h] = "again" => delivered[h] # "never")
    BY <1>3, <1>4 DEF IInv, TypeOK
  <1>6. \A m \in Mails :
          \/ delivered'[m] = delivered[m]
          \/ /\ ToSend(worker[w], m) /\ delivered'[m] # "never"
             /\ delivered'[m] = "again" => delivered[m] # "never"
             /\ JustSent(x, m) \/ m \in blind'
    BY <1>3, <1>4, <1>5
  <1>7. \A m \in Mails :
          ToSend(x, m) => ToSend(worker[w], m) /\ (delivered'[m] = delivered[m] \/ m \in blind')
    BY <1>3, <1>4, <1>5
  <1>8. \A m \in Mails : JustSent(x, m) => delivered'[m] # "never"
    BY <1>3, <1>5
  <1>9. mail' \in [Mails -> Row \union Sent \union {NoRow, Deleted}] /\ mail' = mail
    BY <1>4 DEF IInv, TypeOK
  <1>10. blind \subseteq blind' /\ blind' \subseteq Mails /\ crashes' \in 0 .. MaxCrashes /\ Passed(x)
    BY <1>3, <1>4 DEF IInv, TypeOK, Passed
  <1>11. x.batch = <<>> <=> x.step \in {"idle", "list"}
    BY <1>2
  <1> HIDE DEF h
  <1> QED
    BY <1>1, <1>2, <1>3, <1>5, <1>6, <1>7, <1>8, <1>9, <1>10, <1>11, WorkIInv

(* A send that fails leaves everything as it was.                          *)
LEMMA SendFailsIInv == ASSUME IInv, NEW w \in Workers, SendFails(w) PROVE IInv'
  <1>1. worker[w].step = "send"
    BY DEF SendFails
  <1>2. PICK x \in Job :
          /\ worker' = [worker EXCEPT ![w] = x]
          /\ x.step = "failed" /\ x.batch = worker[w].batch
          /\ IsInjective(x.batch) /\ x.batch # <<>>
    BY <1>1, Stepped DEF SendFails
  <1>3. /\ \A m \in Mails : ToSend(x, m) => ToSend(worker[w], m)
        /\ \A m \in Mails : ~JustSent(worker[w], m) /\ ~JustSent(x, m)
    BY <1>1, <1>2, First DEF JustSent
  <1>4. UNCHANGED <<mail, queued, stuck, crashes, delivered, blind>>
    BY DEF SendFails
  <1> QED
    BY <1>1, <1>2, <1>3, <1>4, WorkIInv DEF Passed, IInv, TypeOK

(* A step that takes up the next mail, when what was sent is in its row or *)
(* known to be lost.                                                       *)
LEMMA OnwardIInv ==
  ASSUME IInv, NEW w \in Workers, worker[w].step \in {"sent", "failed"}, NextMail(w),
         UNCHANGED <<queued, stuck, crashes, delivered>>,
         mail' \in [Mails -> Row \union Sent \union {NoRow, Deleted}],
         blind \subseteq blind', blind' \subseteq Mails,
         worker[w].step = "sent" =>
            Head1(w) \in blind' \/ mail'[Head1(w)].state \in {"sent", "deleted"},
         \A m \in Mails : mail[m].state \in {"sent", "deleted"} =>
                             mail'[m].state \in {"sent", "deleted"},
         \A m \in Mails : mail'[m].state = "sent" =>
                             mail[m].state = "sent" \/ (worker[w].step = "sent" /\ m = Head1(w))
  PROVE  IInv'
  <1>1. PICK x \in Job :
          /\ worker' = [worker EXCEPT ![w] = x]
          /\ x.step \in {"idle", "send"}
          /\ IsInjective(x.batch)
          /\ x.batch = <<>> <=> x.step \in {"idle", "list"}
          /\ \A m \in Mails : ToSend(x, m) => ToSend(worker[w], m) /\ m # Head1(w)
    BY Onward
  <1>2. \A m \in Mails : JustSent(worker[w], m) <=> worker[w].step = "sent" /\ m = Head1(w)
    BY First
  <1>3. \A m \in Mails : ~JustSent(x, m)
    BY <1>1 DEF JustSent
  <1>4. Passed(x) /\ crashes' \in 0 .. MaxCrashes /\ delivered' \in [Mails -> {"never", "once", "again"}]
    BY DEF Passed, IInv, TypeOK
  <1> QED BY <1>1, <1>2, <1>3, <1>4, WorkIInv

(* A mail is marked as sent by the worker that has just sent it.           *)
LEMMA MarkEmailSentIInv == ASSUME IInv, NEW w \in Workers, MarkEmailSent(w) PROVE IInv'
  <1> DEFINE h == Head1(w)
  <1>1. worker[w].step = "sent" /\ h \in Mails
    BY First DEF MarkEmailSent
  <1>2. /\ mail' = [mail EXCEPT ![h] = IF @ = Deleted THEN @ ELSE [state |-> "sent", sentFor |-> 0]]
        /\ UNCHANGED <<queued, stuck, crashes, delivered, blind>>
        /\ NextMail(w)
    BY DEF MarkEmailSent
  <1>3. [state |-> "sent", sentFor |-> 0] \in Sent
    BY OutboxAssumption DEF Sent
  <1>4. /\ mail' \in [Mails -> Row \union Sent \union {NoRow, Deleted}]
        /\ \A m \in Mails : m # h => mail'[m] = mail[m]
        /\ mail'[h].state \in {"sent", "deleted"}
    BY <1>1, <1>2, <1>3, Blank DEF IInv, TypeOK
  <1>5. /\ blind \subseteq blind' /\ blind' \subseteq Mails
        /\ worker[w].step = "sent" =>
              Head1(w) \in blind' \/ mail'[Head1(w)].state \in {"sent", "deleted"}
    BY <1>1, <1>2, <1>4 DEF IInv, TypeOK
  <1>6. /\ \A m \in Mails : mail[m].state \in {"sent", "deleted"} =>
                               mail'[m].state \in {"sent", "deleted"}
        /\ \A m \in Mails : mail'[m].state = "sent" =>
                               mail[m].state = "sent" \/ (worker[w].step = "sent" /\ m = Head1(w))
    BY <1>1, <1>4
  <1> QED BY <1>1, <1>2, <1>4, <1>5, <1>6, OnwardIInv

(* A mail that failed is marked if it is there and not marked as sent.     *)
LEMMA MarkEmailFailedIInv == ASSUME IInv, NEW w \in Workers, MarkEmailFailed(w) PROVE IInv'
  <1> DEFINE h == Head1(w)
  <1>1. worker[w].step = "failed" /\ h \in Mails
    BY First DEF MarkEmailFailed
  <1>2. /\ mail' = [mail EXCEPT ![h] =
                      IF Unsent(h) THEN [state |-> "failed", due |-> RetryDelay] ELSE @]
        /\ UNCHANGED <<queued, stuck, crashes, delivered, blind>>
        /\ NextMail(w)
    BY DEF MarkEmailFailed
  <1>3. [state |-> "failed", due |-> RetryDelay] \in Row
    BY OutboxAssumption DEF Row
  <1>4. /\ mail' \in [Mails -> Row \union Sent \union {NoRow, Deleted}]
        /\ \A m \in Mails : \/ mail'[m] = mail[m]
                            \/ Unsent(m) /\ mail'[m].state = "failed"
    BY <1>1, <1>2, <1>3 DEF IInv, TypeOK
  <1>5. /\ blind \subseteq blind' /\ blind' \subseteq Mails
        /\ worker[w].step = "sent" =>
              Head1(w) \in blind' \/ mail'[Head1(w)].state \in {"sent", "deleted"}
    BY <1>1, <1>2 DEF IInv, TypeOK
  <1>6. /\ \A m \in Mails : mail[m].state \in {"sent", "deleted"} =>
                               mail'[m].state \in {"sent", "deleted"}
        /\ \A m \in Mails : mail'[m].state = "sent" =>
                               mail[m].state = "sent" \/ (worker[w].step = "sent" /\ m = Head1(w))
    BY <1>4 DEF Unsent
  <1> QED BY <1>1, <1>2, <1>4, <1>5, <1>6, OnwardIInv

(* A mark that fails after a delivery is known as such.                    *)
LEMMA MarkFailsIInv == ASSUME IInv, NEW w \in Workers, MarkFails(w) PROVE IInv'
  <1>1. worker[w].step \in {"sent", "failed"} /\ Head1(w) \in Mails
    BY First DEF MarkFails
  <1>2. /\ blind' = IF worker[w].step = "sent" THEN blind \union {Head1(w)} ELSE blind
        /\ UNCHANGED <<mail, queued, stuck, crashes, delivered>>
        /\ NextMail(w)
    BY DEF MarkFails
  <1>3. mail' \in [Mails -> Row \union Sent \union {NoRow, Deleted}] /\ blind \subseteq Mails
    BY <1>2 DEF IInv, TypeOK
  <1>4. blind \subseteq blind' /\ blind' \subseteq Mails
    BY <1>1, <1>2, <1>3
  <1>5. worker[w].step = "sent" => Head1(w) \in blind'
    BY <1>2
  <1> QED BY <1>1, <1>2, <1>3, <1>4, <1>5, OnwardIInv

(* The end of the context takes nothing from the batch.                    *)
LEMMA CancelIInv == ASSUME IInv, NEW w \in Workers, Cancel(w) PROVE IInv'
  <1> DEFINE x == [worker[w] EXCEPT !.cancelled = TRUE]
  <1>1. worker[w].step # "idle"
    BY DEF Cancel, Busy
  <1>2. worker[w] \in Job /\ IsInjective(worker[w].batch)
        /\ (worker[w].batch = <<>> <=> worker[w].step \in {"idle", "list"})
    BY <1>1, Alone
  <1>3. x \in Job /\ x.step = worker[w].step /\ x.batch = worker[w].batch
    BY <1>2 DEF Job
  <1>4. /\ worker' = [worker EXCEPT ![w] = x]
        /\ UNCHANGED <<mail, queued, stuck, crashes, delivered, blind>>
    BY DEF Cancel
  <1>5. \A m \in Mails : /\ ToSend(x, m) <=> ToSend(worker[w], m)
                         /\ JustSent(x, m) <=> JustSent(worker[w], m)
    BY <1>3 DEF ToSend, JustSent
  <1>6. Passed(x)
    BY <1>4 DEF Passed
  <1> HIDE DEF x
  <1> QED
    BY <1>1, <1>2, <1>3, <1>4, <1>5, <1>6, WorkIInv DEF IInv, TypeOK

(* A crash between a delivery and its mark is known as such; the job is    *)
(* stuck until it is rescued.                                              *)
LEMMA CrashIInv == ASSUME IInv, NEW w \in Workers, Crash(w) PROVE IInv'
  <1>1. worker[w].step # "idle" /\ worker[w] \in Job
    BY Alone DEF Crash, Busy
  <1>2. /\ worker' = [worker EXCEPT ![w] = Idle]
        /\ stuck' = stuck \union {JobTimeout - worker[w].left}
        /\ blind' = IF worker[w].step = "sent" THEN blind \union {Head1(w)} ELSE blind
        /\ crashes' = crashes + 1 /\ crashes < MaxCrashes
        /\ UNCHANGED <<mail, queued, delivered>>
    BY DEF Crash
  <1>3. JobTimeout - worker[w].left \in 0 .. RescueAfter
    BY <1>1, OutboxAssumption DEF Job
  <1>4. Passed(Idle)
    BY <1>2, <1>3, Blank DEF Passed
  <1>5. crashes' \in 0 .. MaxCrashes
    BY <1>2, OutboxAssumption DEF IInv, TypeOK
  <1>6. \A m \in Mails : ~ToSend(Idle, m) /\ ~JustSent(Idle, m)
    BY Blank DEF ToSend, JustSent
  <1>7. /\ \A m \in Mails : JustSent(worker[w], m) => m \in blind'
        /\ blind \subseteq blind' /\ blind' \subseteq Mails
    BY <1>1, <1>2, First DEF JustSent, IInv, TypeOK, Head1
  <1> QED BY <1>1, <1>2, <1>4, <1>5, <1>6, <1>7, Blank, WorkIInv DEF IInv, TypeOK

-----------------------------------------------------------------------------
(* The other steps. *)

(* A step that delivers nothing and touches no batch: no row is taken for  *)
(* sent, and none that was sent is taken for new.                          *)
LEMMA RestIInv ==
  ASSUME IInv, TypeOK', OneJob', UNCHANGED <<delivered, blind>>,
         \A w \in Workers : /\ worker'[w].batch = worker[w].batch
                            /\ \/ worker'[w].step = worker[w].step
                               \/ worker[w].step = "idle" /\ worker'[w].step = "list",
         \A m \in Mails : mail[m].state \in {"sent", "deleted"} =>
                             mail'[m].state \in {"sent", "deleted"},
         \A m \in Mails : mail'[m].state = "sent" => mail[m].state = "sent"
  PROVE  IInv'
  <1>1. ASSUME NEW m \in Mails PROVE Recorded(m)'
    <2>1. Recorded(m)
      BY DEF IInv
    <2>2. \A w \in Workers : /\ ToSend(worker'[w], m) => ToSend(worker[w], m)
                             /\ JustSent(worker'[w], m) <=> JustSent(worker[w], m)
      BY DEF ToSend, JustSent
    <2>3. SUFFICES /\ delivered[m] # "never" /\ m \notin blind =>
                         /\ \A w \in Workers : ~ToSend(worker'[w], m)
                         /\ \/ mail'[m].state \in {"sent", "deleted"}
                            \/ \E w \in Workers : JustSent(worker'[w], m)
                   /\ delivered[m] = "never" => \A w \in Workers : ~JustSent(worker'[w], m)
      BY DEF Recorded, ToSend, JustSent
    <2> QED BY <2>1, <2>2 DEF Recorded
  <1> QED BY <1>1 DEF IInv, AgainOnlyIfBlind, SentWasDelivered

(* A new row is that of a mail that no worker has seen.                    *)
LEMMA EnqueueEmailIInv == ASSUME IInv, NEW m \in Mails, EnqueueEmail(m) PROVE IInv'
  <1>1. [state |-> "new", due |-> 0] \in Row
    BY OutboxAssumption DEF Row
  <1>2. /\ mail' = [mail EXCEPT ![m] = [state |-> "new", due |-> 0]] /\ mail[m] = NoRow
        /\ UNCHANGED <<queued, stuck, worker, crashes, delivered, blind>>
    BY DEF EnqueueEmail
  <1>3. TypeOK'
    BY <1>1, <1>2 DEF IInv, TypeOK
  <1>4. OneJob'
    BY <1>2 DEF IInv, OneJob, Busy
  <1>5. \A n \in Mails : \/ mail'[n] = mail[n]
                         \/ mail[n].state = "absent" /\ mail'[n].state = "new"
    BY <1>2, Blank DEF IInv, TypeOK
  <1> QED BY <1>2, <1>3, <1>4, <1>5, RestIInv

(* A job is inserted when there is none.                                   *)
LEMMA InsertJobIInv == ASSUME IInv, InsertJob PROVE IInv'
  <1>1. /\ queued' = 1 /\ Busy = {} /\ stuck = {}
        /\ UNCHANGED <<mail, stuck, worker, crashes, delivered, blind>>
    BY DEF InsertJob
  <1>2. TypeOK' /\ OneJob'
    BY <1>1 DEF IInv, TypeOK, OneJob, Busy
  <1> QED BY <1>1, <1>2, RestIInv

(* The job that is rescued is the only one.                                *)
LEMMA RescueJobIInv == ASSUME IInv, RescueJob PROVE IInv'
  <1>1. PICK age \in stuck : stuck' = stuck \ {age}
    BY DEF RescueJob
  <1>2. queued = 0 /\ Busy = {} /\ stuck' = {}
    BY <1>1 DEF IInv, TypeOK, OneJob
  <1>3. queued' = 1 /\ UNCHANGED <<mail, worker, crashes, delivered, blind>>
    BY <1>2 DEF RescueJob
  <1>4. TypeOK' /\ OneJob'
    BY <1>2, <1>3 DEF IInv, TypeOK, OneJob, Busy
  <1> QED BY <1>3, <1>4, RestIInv

(* The worker that takes the job has no batch yet.                         *)
LEMMA StartJobIInv == ASSUME IInv, NEW w \in Workers, StartJob(w) PROVE IInv'
  <1> DEFINE x == [Idle EXCEPT !.step = "list", !.left = JobTimeout]
  <1>1. /\ queued' = queued - 1 /\ queued > 0 /\ worker[w].step = "idle"
        /\ worker' = [worker EXCEPT ![w] = x]
        /\ UNCHANGED <<mail, stuck, crashes, delivered, blind>>
    BY DEF StartJob
  <1>2. queued = 1 /\ Busy = {} /\ stuck = {}
    BY <1>1 DEF IInv, OneJob
  <1>3. x \in Job /\ x.step = "list" /\ x.batch = <<>> /\ IsInjective(x.batch)
    <2>1. x.step = "list" /\ x.batch = <<>>
      BY DEF Idle
    <2>2. IsInjective(<<>>)
      BY DEF IsInjective
    <2>3. x \in Job
      <3>1. Idle \in Job /\ JobTimeout \in 0 .. JobTimeout
        BY Blank, OutboxAssumption
      <3> QED BY <3>1 DEF Job
    <2> HIDE DEF x
    <2> QED BY <2>1, <2>2, <2>3
  <1> HIDE DEF x
  <1>4. \A v \in Workers : worker'[v] = IF v = w THEN x ELSE worker[v]
    BY <1>1 DEF IInv, TypeOK
  <1>5. TypeOK'
    <2>1. worker' \in [Workers -> Job]
      BY <1>1, <1>3 DEF IInv, TypeOK
    <2>2. ASSUME NEW v \in Workers
          PROVE  /\ IsInjective(worker'[v].batch)
                 /\ worker'[v].batch = <<>> <=> worker'[v].step \in {"idle", "list"}
      BY <1>3, <1>4 DEF IInv, TypeOK
    <2>3. queued' \in Nat
      BY <1>1, <1>2
    <2> QED BY <1>1, <2>1, <2>2, <2>3 DEF IInv, TypeOK
  <1>6. OneJob'
    <2>1. Busy' \subseteq {w}
      BY <1>2, <1>4 DEF Busy
    <2> QED BY <1>1, <1>2, <2>1 DEF OneJob
  <1>7. \A v \in Workers : /\ worker'[v].batch = worker[v].batch
                           /\ \/ worker'[v].step = worker[v].step
                              \/ worker[v].step = "idle" /\ worker'[v].step = "list"
    BY <1>1, <1>3, <1>4 DEF IInv, TypeOK
  <1> QED BY <1>1, <1>5, <1>6, <1>7, RestIInv

(* The cleanup takes rows away.                                            *)
LEMMA DeleteRowsIInv == ASSUME IInv, NEW M, DeleteRows(M) PROVE IInv'
  <1>1. /\ mail' = [m \in Mails |-> IF m \in M THEN Deleted ELSE mail[m]]
        /\ UNCHANGED <<queued, stuck, worker, crashes, delivered, blind>>
    BY DEF DeleteRows
  <1>2. TypeOK'
    BY <1>1 DEF IInv, TypeOK
  <1>3. OneJob'
    BY <1>1 DEF IInv, OneJob, Busy
  <1>4. \A m \in Mails : mail'[m] = mail[m] \/ mail'[m].state = "deleted"
    BY <1>1, Blank
  <1> QED BY <1>1, <1>2, <1>3, <1>4, RestIInv

(* The passing of time moves what is counted, and nothing else.            *)
LEMMA TickIInv == ASSUME IInv, Tick PROVE IInv'
  <1>1. UNCHANGED <<queued, crashes, delivered, blind>>
    BY DEF Tick
  <1>2. ASSUME NEW m \in Mails
        PROVE  /\ mail'[m] \in Row \union Sent \union {NoRow, Deleted}
               /\ mail'[m].state = mail[m].state
    <2>1. /\ Unsent(m) => mail[m] \in Row
          /\ mail[m].state = "sent" => mail[m] \in Sent
      BY States
    <2>2. CASE Unsent(m)
      <3>1. mail'[m] = [mail[m] EXCEPT !.due = IF @ < 0 - Retention THEN @ ELSE @ - 1]
        BY <2>2 DEF Tick, Unsent
      <3> QED BY <2>1, <2>2, <3>1, OutboxAssumption DEF Row
    <2>3. CASE ~Unsent(m) /\ mail[m].state = "sent"
      <3>1. mail'[m] = [mail[m] EXCEPT !.sentFor = IF @ > Retention THEN @ ELSE @ + 1]
        BY <2>3 DEF Tick
      <3> QED BY <2>1, <2>3, <3>1, OutboxAssumption DEF Sent
    <2>4. CASE ~Unsent(m) /\ mail[m].state # "sent"
      <3>1. mail'[m] = mail[m]
        BY <2>4 DEF Tick
      <3> QED BY <3>1 DEF IInv, TypeOK
    <2> QED BY <2>2, <2>3, <2>4
  <1>3. ASSUME NEW w \in Workers
        PROVE  /\ worker'[w] \in Job
               /\ worker'[w].step = worker[w].step /\ worker'[w].batch = worker[w].batch
    <2>1. worker[w] \in Job
      BY DEF IInv, TypeOK
    <2>2. CASE w \in Busy
      <3>1. worker'[w] = [worker[w] EXCEPT !.left = @ - 1] /\ worker[w].left > 0
        BY <2>2 DEF Tick, Alive
      <3> QED BY <2>1, <3>1, OutboxAssumption DEF Job
    <2>3. CASE w \notin Busy
      <3>1. worker'[w] = worker[w]
        BY <2>3 DEF Tick
      <3> QED BY <2>1, <3>1
    <2> QED BY <2>2, <2>3
  <1>4. stuck' \subseteq 0 .. RescueAfter /\ (stuck = {} => stuck' = {}) /\ \A a, b \in stuck' : a = b
    BY OutboxAssumption DEF Tick, IInv, TypeOK, OneJob
  <1>5. DOMAIN mail' = Mails /\ mail' = [m \in Mails |-> mail'[m]]
        /\ worker' = [w \in Workers |-> worker'[w]]
    BY DEF Tick
  <1>6. TypeOK'
    <2>1. mail' \in [Mails -> Row \union Sent \union {NoRow, Deleted}]
      BY <1>2, <1>5
    <2>2. worker' \in [Workers -> Job]
      BY <1>3, <1>5
    <2>3. \A w \in Workers :
             /\ IsInjective(worker'[w].batch)
             /\ worker'[w].batch = <<>> <=> worker'[w].step \in {"idle", "list"}
      BY <1>3 DEF IInv, TypeOK
    <2> QED BY <1>1, <1>4, <2>1, <2>2, <2>3 DEF IInv, TypeOK
  <1>7. OneJob'
    <2>1. Busy' = Busy
      BY <1>3 DEF Busy
    <2> QED BY <1>1, <1>4, <2>1 DEF IInv, OneJob
  <1> QED BY <1>1, <1>2, <1>3, <1>6, <1>7, RestIInv

-----------------------------------------------------------------------------
(* The theorems. *)

(* Every step preserves the inductive invariant.                           *)
LEMMA NextIInv == ASSUME IInv, [Next]_vars PROVE IInv'
  <1>1. ASSUME NEW m \in Mails, EnqueueEmail(m) PROVE IInv'
    BY <1>1, EnqueueEmailIInv
  <1>2. ASSUME NEW w \in Workers, StartJob(w) PROVE IInv'
    BY <1>2, StartJobIInv
  <1>3. ASSUME NEW w \in Workers, Work(w) PROVE IInv'
    BY <1>3, ListIInv, ListFailsIInv, SendAcceptedIInv, SendUnconfirmedIInv, SendFailsIInv,
       MarkEmailSentIInv, MarkEmailFailedIInv, MarkFailsIInv DEF Work
  <1>4. ASSUME NEW w \in Workers, Cancel(w) \/ Crash(w) PROVE IInv'
    BY <1>4, CancelIInv, CrashIInv
  <1>5. ASSUME DeleteSentEmails \/ DeleteFailedEmails PROVE IInv'
    BY <1>5, DeleteRowsIInv DEF DeleteSentEmails, DeleteFailedEmails
  <1>6. CASE UNCHANGED vars
    BY <1>6 DEF vars, IInv, TypeOK, OneJob, Busy, Recorded, ToSend, JustSent,
                AgainOnlyIfBlind, SentWasDelivered
  <1> QED
    BY <1>1, <1>2, <1>3, <1>4, <1>5, <1>6, InsertJobIInv, RescueJobIInv, TickIInv DEF Next

(* The inductive invariant holds throughout.                               *)
THEOREM Invariance == Spec => []IInv
  <1>1. IInv /\ [Next]_vars => IInv'
    BY NextIInv
  <1> QED BY InitIInv, <1>1, PTL DEF Spec

(* Rows, jobs and workers keep their types (EmailOutboxWorker.Work).       *)
THEOREM Types == Spec => []TypeOK
  <1>1. IInv => TypeOK
    BY DEF IInv
  <1> QED BY <1>1, Invariance, PTL

(* "avoids overlapping email sends" (README): a mail is delivered again    *)
(* only if its row could not record the delivery before.                   *)
THEOREM NoOverlap == Spec => []AgainOnlyIfBlind
  <1>1. IInv => AgainOnlyIfBlind
    BY DEF IInv
  <1> QED BY <1>1, Invariance, PTL

(* A row with sent_at set stands for a mail the server has accepted.       *)
THEOREM SentIsTrue == Spec => []SentWasDelivered
  <1>1. IInv => SentWasDelivered
    BY DEF IInv
  <1> QED BY <1>1, Invariance, PTL

-----------------------------------------------------------------------------
(* AppLifecycle. *)

(* The initial states satisfy the inductive invariant.                     *)
LEMMA InitAppIInv == AppInit => AppIInv
  BY DEF AppInit, AppIInv, Running, Leaving, NothingLeft, ClosedAfterUse

(* A step of New, or its way out, preserves it.                            *)
LEMMA NewIInv ==
  ASSUME AppIInv, main # "returned", New
  PROVE  AppIInv'
  <1> USE DEF AppIInv, Running, Leaving, NothingLeft, ClosedAfterUse, Proceed, RiverCancelled,
              http, work, context, resources
  <1>1. CASE OpenDatabase
    BY <1>1 DEF OpenDatabase
  <1>2. CASE OpenPgxPool
    BY <1>2 DEF OpenPgxPool
  <1>3. CASE RunMigrations
    BY <1>3 DEF RunMigrations, Fail
  <1>4. CASE NewService
    BY <1>4 DEF NewService, Fail
  <1>5. CASE NewRiver
    BY <1>5 DEF NewRiver, Fail
  <1> QED BY <1>1, <1>2, <1>3, <1>4, <1>5 DEF New

(* A step of Run preserves it.                                             *)
LEMMA RunIInv ==
  ASSUME AppIInv, main # "returned", Run
  PROVE  AppIInv'
  <1> USE DEF AppIInv, Running, Leaving, NothingLeft, ClosedAfterUse, Proceed, RiverCancelled,
              http, work, context, resources
  <1>1. CASE Listen
    BY <1>1 DEF Listen
  <1>2. CASE Select
    BY <1>2 DEF Select
  <1>3. CASE Shutdown
    BY <1>3 DEF Shutdown
  <1>4. CASE StopRiver
    BY <1>4 DEF StopRiver
  <1>5. CASE RiverStopped
    BY <1>5 DEF RiverStopped
  <1>6. CASE Close
    BY <1>6 DEF Close
  <1> QED BY <1>1, <1>2, <1>3, <1>4, <1>5, <1>6 DEF Run

(* What the handlers, River, its jobs, the signal and the clock do         *)
(* preserves it.                                                           *)
LEMMA OthersIInv ==
  ASSUME AppIInv, main # "returned",
         \/ Request \/ Answer
         \/ RiverStart \/ JobBegin \/ JobEnd \/ RiverStops
         \/ Signal \/ Expire
  PROVE  AppIInv'
  <1> USE DEF AppIInv, Running, Leaving, NothingLeft, ClosedAfterUse, RiverCancelled,
              http, work, context, resources
  <1>1. CASE Request
    BY <1>1 DEF Request
  <1>2. CASE Answer
    BY <1>2 DEF Answer
  <1>3. CASE RiverStart
    BY <1>3 DEF RiverStart
  <1>4. CASE JobBegin
    BY <1>4 DEF JobBegin
  <1>5. CASE JobEnd
    BY <1>5 DEF JobEnd
  <1>6. CASE RiverStops
    BY <1>6 DEF RiverStops
  <1>7. CASE Signal
    BY <1>7 DEF Signal
  <1>8. CASE Expire
    BY <1>8 DEF Expire
  <1> QED BY <1>1, <1>2, <1>3, <1>4, <1>5, <1>6, <1>7, <1>8

(* AppIInv holds throughout.                                               *)
THEOREM LifecycleInvariance == AppSpec => []AppIInv
  <1>1. AppIInv /\ UNCHANGED AppVars => AppIInv'
    BY DEF AppVars, AppIInv, Running, Leaving, NothingLeft, ClosedAfterUse, RiverCancelled
  <1>2. AppIInv /\ [AppNext]_AppVars => AppIInv'
    BY <1>1, NewIInv, RunIInv, OthersIInv DEF AppNext
  <1> QED BY InitAppIInv, <1>2, PTL DEF AppSpec

(* When main returns no pool is open, no cleaner runs and neither does     *)
(* River or a job, but after a Shutdown that failed, a failure of New once *)
(* the store is made (the cleaner), a Stop that ran out of time or one     *)
(* that came before River had started (River and jobs, their context       *)
(* done): New, Run, Stop.                                                  *)
THEOREM Closing == AppSpec => []NothingLeft
  <1>1. AppIInv => NothingLeft
    BY DEF AppIInv
  <1> QED BY <1>1, LifecycleInvariance, PTL

(* The pools outlive the jobs that Stop waits for, and the handlers that   *)
(* were there at the signal (Run).                                         *)
THEOREM Outliving == AppSpec => []ClosedAfterUse
  <1>1. AppIInv => ClosedAfterUse
    BY DEF AppIInv
  <1> QED BY <1>1, LifecycleInvariance, PTL
=============================================================================
