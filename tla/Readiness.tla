------------------------------ MODULE Readiness ------------------------------
(* GET /health/ready and the System page: three probes, one after the other,  *)
(* of services that come and go meanwhile.  The database session of the       *)
(* request stays open from the first probe to the commit behind the last.     *)
EXTENDS QueueMonitor

CONSTANT MaxOutages   \* bound on the times a service goes down or comes back

ASSUME ReadinessAssumption == MaxOutages \in Nat

VARIABLES
    alive,      \* the services that run, without the workers
    outages,
    request     \* the request of the System page

readyVars == <<alive, outages, request>>
readyAll  == <<vars, readyVars>>

Services == {"database", "redis", "broker"}

\* inspect().ping() is None when no worker answers, so "broker" stands for the
\* workers too.
Answering == alive \cup {s \in {"broker"} : up # {}}

\* `up`, `down` and `beside` are history: the services that were seen up, and
\* down, during the request, and those seen up together with the database.
NoRequest == [stage |-> "idle", session |-> "none", checks |-> {},
              up |-> {}, down |-> {}, beside |-> {}]

ReadyInit ==
    /\ Init
    /\ alive = Services \ {"broker"}
    /\ outages = 0
    /\ request = NoRequest

Seen(r, now) ==
    [r EXCEPT !.up = @ \cup now, !.down = @ \cup (Services \ now),
              !.beside = IF "database" \in now THEN @ \cup now ELSE @]

----------------------------------------------------------------------------
(* The services.                                                             *)

\* The System page is opened in place of the queue monitor, before that has shown
\* anything; the services are watched while it is open.
OnSystemPage ==
    cancelled /\ status = NoStatus /\ ~error /\ \A p \in Polls : poll[p].stage = "idle"

\* A session that holds a connection to a database that goes down is broken.
Outage(s) ==
    /\ outages < MaxOutages
    /\ outages' = outages + 1
    /\ alive' = IF s \in alive THEN alive \ {s} ELSE alive \cup {s}
    /\ UNCHANGED vars

Noticed ==
    request' = IF request.stage \in {"idle", "answered", "failed"} THEN request
               ELSE Seen([request EXCEPT !.session =
                             IF @ = "open" /\ "database" \notin alive' THEN "broken" ELSE @],
                         Answering')

\* What happens beside the request.
Meanwhile ==
    /\ OnSystemPage
    /\ \/ \E s \in Services \ {"broker"} : Outage(s)
       \/ WorkerStep /\ UNCHANGED <<alive, outages>>
    /\ Noticed

----------------------------------------------------------------------------
(* readiness                                                                 *)

Step(from, r) ==
    /\ OnSystemPage
    /\ request.stage = from
    /\ request' = r
    /\ UNCHANGED <<vars, alive, outages>>

\* The page asks; get_db makes a session, which connects to nothing yet.
AskReady == Step("idle", Seen([NoRequest EXCEPT !.stage = "database"], Answering))

Found(s) == request.checks \cup ({s} \cap Answering)

\* The statement opens a transaction.  When it fails, the connection could not be
\* made or was lost under it.
CheckDatabase ==
    \E s \in IF "database" \in alive THEN {"open"} ELSE {"none", "broken"} :
        Step("database", [request EXCEPT !.stage = "redis", !.session = s,
                                         !.checks = Found("database")])

PingRedis == Step("redis", [request EXCEPT !.stage = "broker", !.checks = Found("redis")])

\* Bug: an answer of no worker is taken for an answer.
PingNobody == Step("broker", [request EXCEPT !.stage = "commit", !.checks = @ \cup {"broker"}])

PingWorkers == Step("broker", [request EXCEPT !.stage = "commit", !.checks = Found("broker")])

\* Bug: the session is given back without a commit.
AnswerAsIs == Step("commit", [request EXCEPT !.stage = "answered"])

\* get_db commits before the answer is sent; the commit of a broken session
\* raises, and the page gets an error for an answer.
CommitAndAnswer ==
    Step("commit", [request EXCEPT !.stage = IF request.session = "broken"
                                             THEN "failed" ELSE "answered"])

\* The page is left, or loaded again.
LeaveSystem == request.stage \in {"answered", "failed"} /\ Step(request.stage, NoRequest)

\* The badge of SystemHealthPage.
Badge ==
    CASE request.stage = "answered" -> IF request.checks = Services THEN "ok" ELSE "degraded"
      [] request.stage = "failed"   -> "error"
      [] OTHER                      -> "none"

ReadyNext ==
    \/ Next /\ request.stage = "idle" /\ UNCHANGED readyVars
    \/ Meanwhile
    \/ AskReady \/ CheckDatabase \/ PingRedis \/ PingWorkers \/ CommitAndAnswer \/ LeaveSystem

ReadySpec == ReadyInit /\ [][ReadyNext]_readyAll

\* The interval of the queue monitor ticks while its page is open, the server
\* handles requests, and what it answers arrives.
FairReadySpec ==
    /\ ReadySpec
    /\ \A p \in Polls :
          /\ WF_readyAll(Poll(p) /\ UNCHANGED readyVars)
          /\ WF_readyAll(Handle(p) /\ UNCHANGED readyVars)
          /\ WF_readyAll(Answer(p) /\ UNCHANGED readyVars)
          /\ WF_readyAll(Caught(p) /\ UNCHANGED readyVars)

----------------------------------------------------------------------------
(* Properties.                                                               *)

\* Each line of the System page was true at some moment of its request, and "ok"
\* says more: although the probes are made one after the other, the database was
\* up together with each of the other two, for its session lasted until the
\* answer.
ReadinessWitnessed ==
    /\ Badge \in {"ok", "degraded"} =>
          /\ request.checks \subseteq request.up
          /\ Services \ request.checks \subseteq request.down
    /\ Badge = "ok" => request.beside = Services
=============================================================================
