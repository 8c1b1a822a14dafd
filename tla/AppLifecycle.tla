---------------------------- MODULE AppLifecycle ----------------------------
(***************************************************************************)
(* One life of the process: New with its early returns, Run with its two   *)
(* ways out, the HTTP server with its handlers, and River with its jobs.   *)
(*                                                                         *)
(* net/http, pgx and River are external.  Shutdown takes no new request    *)
(* and waits for those there are; River's jobs inherit the context given   *)
(* to Start, which is that of the signal: its cancellation cancels them    *)
(* and stops River by itself; closing a pool waits for statements only.    *)
(*                                                                         *)
(* The names that every module has start with App here, as the proofs are  *)
(* in one module with those of EmailOutbox, River's job (RiverProofs).     *)
(*                                                                         *)
(* Definition_Change is Definition with a plausible mistake made in it; no *)
(* specification uses it.                                                  *)
(***************************************************************************)
EXTENDS Naturals

CONSTANTS
    MaxHandlers,    \* bound: the requests in flight
    MaxJobs         \* river.max_workers

ASSUME LifecycleAssumption == MaxHandlers \in Nat /\ MaxJobs \in Nat

VARIABLES
    main,       \* where New and Run stand
    way,        \* how it ends: what failed in New, the case taken in Run
    signal,     \* the context of main is done
    expired,    \* shutdownCtx is done
    db, pool,   \* the two connection pools: "none", "open", "closed"
    cleaner,    \* the goroutine that removes expired sessions runs
    server,     \* "off", "starting", "listening", "failed", "closed"
    handlers,
    river,      \* "none", "starting", "running", "stopping", "stopped"
    cancelled,  \* Stop has cancelled River's context
    waits,      \* Stop found River started, and waits for it
    jobs

AppVars == <<main, way, signal, expired, db, pool, cleaner, server, handlers, river,
             cancelled, waits, jobs>>

resources == <<db, pool, cleaner>>
http      == <<server, handlers>>
work      == <<river, cancelled, waits, jobs>>
context   == <<signal, expired>>

Proceed(from, to) == main = from /\ main' = to

RiverCancelled == signal \/ cancelled

-----------------------------------------------------------------------------
(* New: each step goes on or returns with what it closes. *)

OpenDatabase ==
    /\ \/ Proceed("open", "pgx") /\ db' = "open" /\ UNCHANGED way
       \/ Proceed("open", "returned") /\ way' = "database" /\ UNCHANGED db
    /\ UNCHANGED <<pool, cleaner, http, work, context>>

OpenPgxPool ==
    /\ \/ Proceed("pgx", "migrate") /\ pool' = "open" /\ UNCHANGED <<db, way>>
       \/ Proceed("pgx", "returned") /\ way' = "pgx" /\ db' = "closed" /\ UNCHANGED pool
    /\ UNCHANGED <<cleaner, http, work, context>>

\* The way out of New once there are two pools
Fail(from) ==
    /\ Proceed(from, "returned")
    /\ way' = from
    /\ db' = "closed" /\ pool' = "closed"
    /\ UNCHANGED <<cleaner, work>>

\* newSessionManager starts the cleaner as it makes the store
RunMigrations ==
    /\ \/ Fail("migrate")
       \/ /\ Proceed("migrate", "service")
          /\ cleaner' = TRUE
          /\ UNCHANGED <<db, pool, way, work>>
    /\ UNCHANGED <<http, context>>

NewService ==
    /\ \/ Fail("service")
       \/ Proceed("service", "river") /\ UNCHANGED <<resources, way, work>>
    /\ UNCHANGED <<http, context>>

\* River may be disabled; the goroutine that starts it goes on by itself
NewRiver ==
    /\ \/ Fail("river")
       \/ /\ Proceed("river", "serve")
          /\ river' \in {"none", "starting"}
          /\ UNCHANGED <<resources, way, cancelled, waits, jobs>>
    /\ UNCHANGED <<http, context>>

-----------------------------------------------------------------------------
(* The server, River, the signal. *)

\* Run's goroutine listens; the address may be taken, Accept may fail later
Listen ==
    /\ main = "serve"
    /\ \/ server = "off" /\ server' \in {"listening", "failed"}
       \/ server = "listening" /\ server' = "failed"
    /\ UNCHANGED <<main, way, context, resources, handlers, work>>

Request ==
    /\ server = "listening"
    /\ handlers < MaxHandlers
    /\ handlers' = handlers + 1
    /\ UNCHANGED <<main, way, context, resources, server, work>>

Answer ==
    /\ handlers > 0
    /\ handlers' = handlers - 1
    /\ UNCHANGED <<main, way, context, resources, server, work>>

\* Start returns, with an error or with River running
RiverStart ==
    /\ river = "starting"
    /\ river' \in {"running", "stopped"}
    /\ UNCHANGED <<main, way, context, resources, http, cancelled, waits, jobs>>

JobBegin ==
    /\ river = "running" /\ ~RiverCancelled
    /\ jobs < MaxJobs
    /\ jobs' = jobs + 1
    /\ UNCHANGED <<main, way, context, resources, http, river, cancelled, waits>>

JobEnd ==
    /\ jobs > 0
    /\ jobs' = jobs - 1
    /\ UNCHANGED <<main, way, context, resources, http, river, cancelled, waits>>

\* ... because its context is done: every statement and every dial fails
JobCancelled == RiverCancelled /\ JobEnd

RiverStops ==
    /\ \/ river = "running" /\ (RiverCancelled \/ waits) /\ river' = "stopping"
       \/ river = "stopping" /\ jobs = 0 /\ river' = "stopped"
    /\ UNCHANGED <<main, way, context, resources, http, cancelled, waits, jobs>>

Signal ==
    /\ ~signal
    /\ signal' = TRUE
    /\ UNCHANGED <<main, way, expired, resources, http, work>>

\* shutdownCtx has a timeout; that of the other way out has none
Expire ==
    /\ way = "signal" /\ main # "returned"
    /\ ~expired
    /\ expired' = TRUE
    /\ UNCHANGED <<main, way, signal, resources, http, work>>

-----------------------------------------------------------------------------
(* Run. *)

\* The select: when both are ready, either
Select ==
    /\ \/ Proceed("serve", "shutdown") /\ signal /\ way' = "signal" /\ server' = "closed"
       \/ Proceed("serve", "stop") /\ server = "failed" /\ way' = "listen" /\ UNCHANGED server
    /\ UNCHANGED <<context, resources, handlers, work>>

\* Shutdown; Run returns at once when it fails: it is out of time, or the
\* listener could not be closed, which it says when it has waited
Shutdown_NoWait ==
    /\ \/ Proceed("shutdown", "stop") /\ UNCHANGED way
       \/ Proceed("shutdown", "returned") /\ way' = "shutdown"
    /\ UNCHANGED <<context, resources, http, work>>
Shutdown ==
    /\ handlers = 0 \/ expired
    /\ \/ handlers = 0 /\ Proceed("shutdown", "stop") /\ UNCHANGED way
       \/ Proceed("shutdown", "returned") /\ way' = "shutdown"
    /\ UNCHANGED <<context, resources, http, work>>

\* Stop cancels the context; it waits for River if that had started, as long
\* as its own context lasts ...
StopRiver_NotCancelled ==
    /\ Proceed("stop", "stopping")
    /\ waits' = (river \notin {"none", "starting"})
    /\ UNCHANGED <<way, context, resources, http, river, cancelled, jobs>>
StopRiver ==
    /\ Proceed("stop", "stopping")
    /\ cancelled' = TRUE
    /\ waits' = (river \notin {"none", "starting"})
    /\ UNCHANGED <<way, context, resources, http, river, jobs>>

\* ... and in any case for the goroutine that called Start
RiverStopped_NoWait ==
    /\ Proceed("stopping", "close")
    /\ river # "starting"
    /\ UNCHANGED <<way, context, resources, http, work>>
RiverStopped ==
    /\ Proceed("stopping", "close")
    /\ river # "starting"
    /\ waits => river = "stopped" \/ expired
    /\ UNCHANGED <<way, context, resources, http, work>>

\* StopCleanup, and the two pools
Close ==
    /\ Proceed("close", "returned")
    /\ cleaner' = FALSE
    /\ pool' = "closed" /\ db' = "closed"
    /\ UNCHANGED <<way, context, http, work>>

-----------------------------------------------------------------------------

AppInit ==
    /\ main = "open" /\ way = "none"
    /\ signal = FALSE /\ expired = FALSE
    /\ db = "none" /\ pool = "none" /\ cleaner = FALSE
    /\ server = "off" /\ handlers = 0
    /\ river = "none" /\ cancelled = FALSE /\ waits = FALSE /\ jobs = 0

New == OpenDatabase \/ OpenPgxPool \/ RunMigrations \/ NewService \/ NewRiver

Run == Listen \/ Select \/ Shutdown \/ StopRiver \/ RiverStopped \/ Close

\* Nothing runs on when main has returned: the process is gone
AppNext ==
    /\ main # "returned"
    /\ \/ New \/ Run
       \/ Request \/ Answer
       \/ RiverStart \/ JobBegin \/ JobEnd \/ RiverStops
       \/ Signal \/ Expire

AppSpec == AppInit /\ [][AppNext]_AppVars

\* The steps of main and of River, the end of a deadline, and a job's end once
\* its context is done.  Nothing is assumed of handlers, of jobs that are not
\* cancelled, or of the signal.
AppFairSpec ==
    /\ AppSpec
    /\ WF_AppVars(main # "returned" /\ (New \/ Select \/ Shutdown \/ StopRiver \/ RiverStopped \/ Close))
    /\ WF_AppVars(main # "returned" /\ (RiverStart \/ RiverStops))
    /\ WF_AppVars(main # "returned" /\ JobCancelled)
    /\ WF_AppVars(Expire)

-----------------------------------------------------------------------------
(* Properties. *)

(* What main leaves behind when it returns.  No pool is open, except after *)
(* a Shutdown that failed.  No cleaner, except then, and on a closed pool  *)
(* when New fails after it made the store.  No River and no job, except    *)
(* after a Shutdown that failed, after a Stop that ran out of time, and    *)
(* after one that came before River had started and so does not wait for   *)
(* it; and its context is then done in each case (New, Run, Stop).         *)
NothingLeft ==
    main = "returned" =>
        /\ "open" \in {db, pool} => way = "shutdown"
        /\ cleaner => way \in {"shutdown", "service", "river"}
        /\ river \notin {"none", "stopped"} \/ jobs > 0 =>
              /\ RiverCancelled
              /\ \/ way = "shutdown"
                 \/ waits /\ expired
                 \/ ~waits /\ river # "starting"

(* The pools are closed under a job only if Stop ran out of time or came   *)
(* before River had started, and under a handler only if the server failed *)
(* by itself: a request that was accepted before the signal is answered.   *)
ClosedAfterUse ==
    /\ pool = "closed" /\ jobs > 0 => expired \/ ~waits
    /\ pool = "closed" /\ handlers > 0 => way = "listen"

(* Once there is a signal, or the server has failed, the process ends,     *)
(* whatever the handlers and the jobs do, and wherever in New or in Run it *)
(* is.                                                                     *)
RunEnds == signal \/ server = "failed" ~> main = "returned"

-----------------------------------------------------------------------------
(* The inductive invariant. *)

\* New has returned the application, and the way out of Run once it stops River
Running == {"serve", "shutdown", "stop", "stopping", "close", "returned"}
Leaving == {"stop", "stopping", "close"}

\* What is not there before the step of New that makes it, and what the
\* steps of Run have seen to
AppIInv ==
    /\ handlers \in Nat /\ jobs \in Nat
    /\ river # "none" \/ server # "off" => main \in Running
    /\ handlers > 0 => server # "off"
    /\ jobs > 0 => river \in {"running", "stopping"}
    /\ main = "open" => db = "none"
    /\ main \in {"open", "pgx"} => pool = "none"
    /\ main \in {"open", "pgx", "migrate"} => ~cleaner
    /\ pool = "closed" => main = "returned"
    /\ main = "shutdown" => server = "closed" /\ signal
    /\ main \in Leaving => way = "listen" \/ (handlers = 0 /\ server = "closed")
    /\ main \in {"stopping", "close"} => cancelled
    /\ main = "close" => river # "starting" /\ (waits => river = "stopped" \/ expired)
    /\ NothingLeft /\ ClosedAfterUse
=============================================================================
