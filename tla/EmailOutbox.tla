---------------------------- MODULE EmailOutbox ----------------------------
(***************************************************************************)
(* The email outbox: the table email_outbox, the River job that sends what *)
(* is in it (EmailOutboxWorker), the mailer, and the cleanup job.          *)
(*                                                                         *)
(* There is no clock.  A row holds how long it still has to wait, or how   *)
(* long it has been there, and Tick moves all of these.  A worker runs its *)
(* statements one by one; the context of its job ends at a deadline, and   *)
(* with it every send and every statement that is left fails.              *)
(*                                                                         *)
(* River itself is external: a job of this kind is inserted when none is   *)
(* queued or running, is given to one worker, is over when Work returns,   *)
(* and is rescued when its worker has died.                                *)
(*                                                                         *)
(* Definition_Change is Definition with a plausible mistake made in it; no *)
(* specification uses it.                                                  *)
(***************************************************************************)
EXTENDS Integers, Sequences, FiniteSets, Functions

CONSTANTS
    Mails,          \* the rows there may be
    Workers,        \* River's workers, of all processes
    Stalling,       \* the mails the SMTP server never answers for
    Refused,        \* the mails the SMTP server always refuses
    Faults,         \* what may go wrong, of "crash", "cancel", "database", "quit", "slow"
    Limit,          \* how many rows a sweep lists
    RetryDelay,     \* how long a mail that failed waits
    Retention,      \* river.email_outbox_retention
    JobTimeout,     \* River: the deadline of a job
    RescueAfter,    \* River: a job running for longer is rescued
    MaxCrashes      \* bound: no more crashes than this

ASSUME OutboxAssumption ==
    /\ Limit \in Nat \ {0}
    /\ RetryDelay \in Nat \ {0}
    /\ Retention \in Nat \ {0}
    /\ JobTimeout \in Nat \ {0}
    /\ RescueAfter \in Nat /\ RescueAfter > JobTimeout
    /\ MaxCrashes \in Nat
    /\ Stalling \union Refused \subseteq Mails

VARIABLES
    mail,       \* email_outbox, by mail
    queued,     \* the jobs of this kind that wait for a worker
    stuck,      \* how long ago the jobs whose worker died were started
    worker,     \* where each worker stands
    crashes,    \* how many crashes there were
    delivered,  \* history: the mails delivered, once or more often
    blind       \* history: those delivered while the row could not say so

vars == <<mail, queued, stuck, worker, crashes, delivered, blind>>

-----------------------------------------------------------------------------
(* Rows and workers. *)

\* sent_at IS NULL and last_error IS NULL of a row that is there; due is
\* available_at - NOW(), and sentFor is NOW() - sent_at
Row == [state   : {"new", "failed"}, due : (0 - Retention - 1) .. RetryDelay]
Sent == [state : {"sent"}, sentFor : 0 .. Retention + 1]
NoRow == [state |-> "absent"]     \* not written yet
Deleted == [state |-> "deleted"]  \* not any more

\* left is the time to the deadline of the job
Job == [step : {"idle", "list", "send", "sent", "failed"}, batch : Seq(Mails),
        left : 0 .. JobTimeout, cancelled : BOOLEAN]

Idle == [step |-> "idle", batch |-> <<>>, left |-> 0, cancelled |-> FALSE]

Unsent(m) == mail[m].state \in {"new", "failed"}

Busy == {w \in Workers : worker[w].step # "idle"}

Head1(w) == Head(worker[w].batch)

\* ListPendingEmails: the rows due longest, in their order
Pending == {m \in Mails : Unsent(m) /\ mail[m].due <= 0}

Batches ==
    {b \in UNION {[1 .. n -> Pending] : n \in 0 .. Limit} :
        /\ IsInjective(b)
        /\ \A i, j \in DOMAIN b : i < j => mail[b[i]].due <= mail[b[j]].due
        /\ \A m \in Pending \ Range(b) :
              /\ Len(b) = Limit
              /\ \A i \in DOMAIN b : mail[b[i]].due <= mail[m].due}

-----------------------------------------------------------------------------
(* Those who write the rows, and River. *)

\* EnqueueEmail, in the transaction of Register or requestTokenEmail
EnqueueEmail(m) ==
    /\ mail[m] = NoRow
    /\ mail' = [mail EXCEPT ![m] = [state |-> "new", due |-> 0]]
    /\ UNCHANGED <<queued, stuck, worker, crashes, delivered, blind>>

\* The periodic job and its InsertOpts: none if one is in one of these states
InsertJob_QueuedOnly ==
    /\ queued = 0
    /\ queued' = 1
    /\ UNCHANGED <<mail, stuck, worker, crashes, delivered, blind>>
InsertJob ==
    /\ queued = 0
    /\ Busy = {}
    /\ stuck = {}
    /\ queued' = 1
    /\ UNCHANGED <<mail, stuck, worker, crashes, delivered, blind>>

StartJob(w) ==
    /\ queued > 0
    /\ worker[w].step = "idle"
    /\ queued' = queued - 1
    /\ worker' = [worker EXCEPT ![w] = [Idle EXCEPT !.step = "list", !.left = JobTimeout]]
    /\ UNCHANGED <<mail, stuck, crashes, delivered, blind>>

\* The job of a worker that died is given to another
RescueJob ==
    /\ \E age \in stuck : age >= RescueAfter /\ stuck' = stuck \ {age}
    /\ queued' = queued + 1
    /\ UNCHANGED <<mail, worker, crashes, delivered, blind>>

-----------------------------------------------------------------------------
(* EmailOutboxWorker.Work *)

\* The context of the job is not over
Alive(w) == worker[w].left > 0 /\ ~worker[w].cancelled

Goto(w, step) == worker' = [worker EXCEPT ![w].step = step]

\* The loop goes on, or Work returns nil and the job is completed
NextMail_PastTheEnd(w) ==
    worker' = [worker EXCEPT ![w] =
                 IF Len(worker[w].batch) > 0
                 THEN [worker[w] EXCEPT !.step = "send", !.batch = Tail(@)]
                 ELSE Idle]
NextMail(w) ==
    worker' = [worker EXCEPT ![w] =
                 IF Len(worker[w].batch) > 1
                 THEN [worker[w] EXCEPT !.step = "send", !.batch = Tail(@)]
                 ELSE Idle]

List(w) ==
    /\ worker[w].step = "list"
    /\ Alive(w)
    /\ \E b \in Batches :
          worker' = [worker EXCEPT ![w] = IF b = <<>> THEN Idle
                                          ELSE [@ EXCEPT !.step = "send", !.batch = b]]
    /\ UNCHANGED <<mail, queued, stuck, crashes, delivered, blind>>

\* Work returns the error of the query: River tries the job again later
ListFails(w) ==
    /\ worker[w].step = "list"
    /\ ~Alive(w) \/ "database" \in Faults
    /\ worker' = [worker EXCEPT ![w] = Idle]
    /\ queued' = queued + 1
    /\ UNCHANGED <<mail, stuck, crashes, delivered, blind>>

Deliver(m) ==
    delivered' = [delivered EXCEPT ![m] = IF @ = "never" THEN "once" ELSE "again"]

\* Send returns nil
SendAccepted(w) ==
    /\ worker[w].step = "send"
    /\ Alive(w)
    /\ Head1(w) \notin Stalling \union Refused
    /\ Deliver(Head1(w))
    /\ Goto(w, "sent")
    /\ UNCHANGED <<mail, queued, stuck, crashes, blind>>

\* The server has taken the message, and Quit fails: Send returns an error
SendUnconfirmed(w) ==
    /\ "quit" \in Faults
    /\ worker[w].step = "send"
    /\ Alive(w)
    /\ Head1(w) \notin Stalling \union Refused
    /\ Deliver(Head1(w))
    /\ blind' = blind \union {Head1(w)}
    /\ Goto(w, "failed")
    /\ UNCHANGED <<mail, queued, stuck, crashes>>

\* The server refuses the message, or the context is over
SendFails(w) ==
    /\ worker[w].step = "send"
    /\ Alive(w) => Head1(w) \notin Stalling
    /\ Goto(w, "failed")
    /\ UNCHANGED <<mail, queued, stuck, crashes, delivered, blind>>

\* An UPDATE of a row that is not there any more changes nothing
MarkEmailSent(w) ==
    /\ worker[w].step = "sent"
    /\ Alive(w)
    /\ mail' = [mail EXCEPT ![Head1(w)] =
                  IF @ = Deleted THEN @ ELSE [state |-> "sent", sentFor |-> 0]]
    /\ NextMail(w)
    /\ UNCHANGED <<queued, stuck, crashes, delivered, blind>>

MarkEmailFailed_FallsThrough(w) ==
    /\ worker[w].step = "failed"
    /\ Alive(w)
    /\ mail' = [mail EXCEPT ![Head1(w)] =
                  IF @ = Deleted THEN @ ELSE [state |-> "sent", sentFor |-> 0]]
    /\ NextMail(w)
    /\ UNCHANGED <<queued, stuck, crashes, delivered, blind>>
MarkEmailFailed(w) ==
    /\ worker[w].step = "failed"
    /\ Alive(w)
    /\ mail' = [mail EXCEPT ![Head1(w)] =
                  IF Unsent(Head1(w)) THEN [state |-> "failed", due |-> RetryDelay] ELSE @]
    /\ NextMail(w)
    /\ UNCHANGED <<queued, stuck, crashes, delivered, blind>>

\* The error of either statement is logged, and the loop goes on
MarkFails(w) ==
    /\ worker[w].step \in {"sent", "failed"}
    /\ ~Alive(w) \/ "database" \in Faults
    /\ blind' = IF worker[w].step = "sent" THEN blind \union {Head1(w)} ELSE blind
    /\ NextMail(w)
    /\ UNCHANGED <<mail, queued, stuck, crashes, delivered>>

\* Client.Stop: the context of the job is cancelled
Cancel(w) ==
    /\ "cancel" \in Faults
    /\ w \in Busy
    /\ Alive(w)
    /\ worker' = [worker EXCEPT ![w].cancelled = TRUE]
    /\ UNCHANGED <<mail, queued, stuck, crashes, delivered, blind>>

\* The process dies.  To River the job is still running.
Crash(w) ==
    /\ "crash" \in Faults
    /\ crashes < MaxCrashes
    /\ w \in Busy
    /\ crashes' = crashes + 1
    /\ worker' = [worker EXCEPT ![w] = Idle]
    /\ stuck' = stuck \union {JobTimeout - worker[w].left}
    /\ blind' = IF worker[w].step = "sent" THEN blind \union {Head1(w)} ELSE blind
    /\ UNCHANGED <<mail, queued, delivered>>

-----------------------------------------------------------------------------
(* CleanupWorker.Work, its two statements about mails. *)

DeleteRows(M) ==
    /\ M # {}
    /\ mail' = [m \in Mails |-> IF m \in M THEN Deleted ELSE mail[m]]
    /\ UNCHANGED <<queued, stuck, worker, crashes, delivered, blind>>

DeleteSentEmails ==
    DeleteRows({m \in Mails : mail[m].state = "sent" /\ mail[m].sentFor > Retention})

DeleteFailedEmails_AnyUnsent ==
    DeleteRows({m \in Mails : Unsent(m) /\ mail[m].due < 0})
DeleteFailedEmails ==
    DeleteRows({m \in Mails : mail[m].state = "failed" /\ mail[m].due < 0 - Retention})

-----------------------------------------------------------------------------

\* A worker waits for a server that stalls or is slow, or for the database
Waits(w) ==
    \/ worker[w].step = "send" /\ (Head1(w) \in Stalling \/ "slow" \in Faults)
    \/ "database" \in Faults

\* Time passes.  A worker that waits does so until its context is over.  The
\* unit of time is no shorter than river.email_outbox_every: a mail that is
\* due is not left alone that long while a job could be run, nor a job that
\* could be rescued.
Tick ==
    /\ \A w \in Busy : Alive(w) /\ Waits(w)
    /\ Pending # {} => Busy # {} \/ stuck # {}
    /\ \A age \in stuck : age < RescueAfter
    /\ mail' = [m \in Mails |->
                  CASE Unsent(m) ->
                         [mail[m] EXCEPT !.due = IF @ < 0 - Retention THEN @ ELSE @ - 1]
                    [] mail[m].state = "sent" ->
                         [mail[m] EXCEPT !.sentFor = IF @ > Retention THEN @ ELSE @ + 1]
                    [] OTHER -> mail[m]]
    /\ worker' = [w \in Workers |->
                    IF w \in Busy THEN [worker[w] EXCEPT !.left = @ - 1] ELSE worker[w]]
    /\ stuck' = {age + 1 : age \in stuck}
    /\ UNCHANGED <<queued, crashes, delivered, blind>>

Init ==
    /\ mail = [m \in Mails |-> NoRow]
    /\ queued = 0
    /\ stuck = {}
    /\ worker = [w \in Workers |-> Idle]
    /\ crashes = 0
    /\ delivered = [m \in Mails |-> "never"]
    /\ blind = {}

Work(w) ==
    \/ List(w)
    \/ ListFails(w)
    \/ SendAccepted(w)
    \/ SendUnconfirmed(w)
    \/ SendFails(w)
    \/ MarkEmailSent(w)
    \/ MarkEmailFailed(w)
    \/ MarkFails(w)

Next ==
    \/ \E m \in Mails : EnqueueEmail(m)
    \/ InsertJob
    \/ RescueJob
    \/ \E w \in Workers : StartJob(w) \/ Work(w) \/ Cancel(w) \/ Crash(w)
    \/ DeleteSentEmails
    \/ DeleteFailedEmails
    \/ Tick

Spec == Init /\ [][Next]_vars

\* River inserts, starts and rescues jobs, workers run, the cleanup job runs,
\* and time passes
Jobs ==
    /\ WF_vars(InsertJob)
    /\ WF_vars(RescueJob)
    /\ \A w \in Workers : WF_vars(StartJob(w)) /\ WF_vars(Work(w))
    /\ WF_vars(DeleteSentEmails)
    /\ WF_vars(DeleteFailedEmails)
    /\ SF_vars(Tick)

JobsSpec == Spec /\ Jobs

\* The SMTP server accepts in the end what it is offered again and again
Accepting == \A m \in Mails : SF_vars(\E w \in Workers : SendAccepted(w) /\ Head1(w) = m)

AcceptingSpec == JobsSpec /\ Accepting

-----------------------------------------------------------------------------
(* Properties. *)

(* The rows are those of email_outbox; a worker that is past the list has  *)
(* mails, each of them once, and a deadline (EmailOutboxWorker.Work).      *)
TypeOK ==
    /\ mail \in [Mails -> Row \union Sent \union {NoRow, Deleted}]
    /\ queued \in Nat
    /\ stuck \subseteq 0 .. RescueAfter
    /\ worker \in [Workers -> Job]
    /\ \A w \in Workers :
          /\ IsInjective(worker[w].batch)
          /\ worker[w].batch = <<>> <=> worker[w].step \in {"idle", "list"}
    /\ crashes \in 0 .. MaxCrashes
    /\ delivered \in [Mails -> {"never", "once", "again"}]
    /\ blind \subseteq Mails

(* No mail is sent twice by sweeps that overlap ("which avoids overlapping *)
(* email sends", README): a second delivery takes a first one that the row *)
(* could not record, because of a crash, of Quit, or of the statement.     *)
AgainOnlyIfBlind == \A m \in Mails : delivered[m] = "again" => m \in blind

(* A row with sent_at set stands for a mail the server has accepted,       *)
(* whatever failed, crashed or was retried before (EmailOutboxWorker).     *)
SentWasDelivered == \A m \in Mails : mail[m].state = "sent" => delivered[m] # "never"

(* Every mail that is enqueued is delivered, whatever crashes and refusals *)
(* come before, if the server takes it in the end: "asynchronous email     *)
(* delivery with retry" (README, Email Outbox).                            *)
EveryMailDelivered ==
    \A m \in Mails \ (Stalling \union Refused) : mail[m] # NoRow ~> delivered[m] # "never"

(* "email_outbox_retention controls how long sent/failed emails are kept   *)
(* before deletion" (GOING_PROD): a mail that failed is not kept for ever. *)
FailedNotKept ==
    \A m \in Mails : mail[m].state = "failed" ~> mail[m].state \in {"sent", "deleted"}

-----------------------------------------------------------------------------
(* The inductive invariant. *)

\* One job is queued, running or stuck at a time
OneJob ==
    /\ queued \in {0, 1}
    /\ queued = 1 => Busy = {} /\ stuck = {}
    /\ stuck # {} => Busy = {}
    /\ \A w, v \in Busy : w = v
    /\ \A a, b \in stuck : a = b

\* x is the record of a worker: m is still to be sent by it, or was not taken
\* for sent; m has just been sent by it
ToSend(x, m) ==
    \E i \in DOMAIN x.batch : x.batch[i] = m /\ (i > 1 \/ x.step \in {"send", "failed"})

JustSent(x, m) == x.step = "sent" /\ Head(x.batch) = m

\* A mail that was delivered is to be sent again only if its row could not
\* say so; any other has its row marked, or gone, or about to be marked
Recorded(m) ==
    /\ delivered[m] # "never" /\ m \notin blind =>
          /\ \A w \in Workers : ~ToSend(worker[w], m)
          /\ \/ mail[m].state \in {"sent", "deleted"}
             \/ \E w \in Workers : JustSent(worker[w], m)
    /\ delivered[m] = "never" => \A w \in Workers : ~JustSent(worker[w], m)

IInv ==
    /\ TypeOK
    /\ OneJob
    /\ \A m \in Mails : Recorded(m)
    /\ AgainOnlyIfBlind
    /\ SentWasDelivered
=============================================================================
