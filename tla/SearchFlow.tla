------------------------------ MODULE SearchFlow ------------------------------
(***************************************************************************)
(* The search stage from end to end: the API (QueryService) publishes      *)
(* search requests, the search workers (WorkerRuntime) take them off       *)
(* face.search.request and start a spider process for each, and the        *)
(* process (SearchPipeline) writes to the same database as the API.  API   *)
(* and process share the row of face_jobs, and nothing orders their writes.*)
(*                                                                         *)
(* A step of the composition is a step of the API, of the broker and a     *)
(* worker, or of a spider process; a publication, the start and the end of *)
(* a process are steps of two components at once.                          *)
(***************************************************************************)
EXTENDS Naturals, Sequences, FiniteSets

CONSTANTS Queries, Handlers,                \* as in QueryService
          MaxRaises,
          Sends,                            \* the body of each handler's request
          Workers, NoWorker,                \* as in WorkerRuntime
          MaxLosses, MaxFaults,
          Urls, NoQuery,                    \* as in SearchPipeline
          DbMayFail                           \* bound: repository calls may raise in a spider

\* Every request is about one query, so a handler sends one search at most.
ASSUME SearchFlowAssumption ==
  /\ \A h \in Handlers : /\ Sends[h].kind \in {"create", "retry_search"}
                         /\ Sends[h].batch \in Seq(Queries) /\ Len(Sends[h].batch) = 1
  /\ IsFiniteSet(Handlers) /\ IsFiniteSet(Urls)
  /\ NoWorker \notin Workers /\ NoQuery \notin Queries
  /\ MaxRaises \in Nat /\ MaxLosses \in Nat /\ MaxFaults \in Nat
  /\ DbMayFail \in BOOLEAN

NumMessages == Cardinality(Handlers)

VARIABLES
  job,                                                    \* face_jobs
  notes, exports, published, api, input, todo, row, answer, seen, raised, \* QueryService
  sent, mstate, owner, pc, holds, running, finished, losses, faults,  \* WorkerRuntime
  sender,                                                 \* the handler of each message
  events, records, forwarded, run, query, found, blocked, tasks, dbFailed, runs, \* SearchPipeline
  logged       \* for the properties only: messages whose own run has logged its outcome

API == INSTANCE QueryService WITH
         pc <- api, events <- notes,
         Inputs <- {Sends[h] : h \in Handlers},
         records <- [q \in Queries |-> Cardinality(records[q])],
         MaxRecords <- [q \in Queries |-> Cardinality(Urls)],
         Uncategorised <- {}
Queue == INSTANCE WorkerRuntime WITH job <- holds, Poison <- {}
Spider == INSTANCE SearchPipeline WITH
            Runners <- Workers, MaxRuns <- NumMessages + MaxLosses + MaxFaults

apiVars == <<notes, exports, published, api, input, todo, row, answer, seen, raised>>
queueVars == <<sent, mstate, owner, pc, holds, running, finished, losses, faults, sender>>
spiderVars == <<events, records, forwarded, run, query, found, blocked, tasks, dbFailed, runs,
                logged>>
vars == <<job, apiVars, queueVars, spiderVars>>

\* The query a message is about: every message carries that of its request.
Topic(m) == Sends[sender[m]].batch[1]

TypeOK ==
  /\ Queue!TypeOK
  /\ job \in [Queries -> API!JobStatus \cup Spider!JobStatus]
  /\ sender \in [1..sent -> Handlers]
  /\ logged \subseteq 1..sent
  /\ \A w \in Workers : pc[w] = "child" <=> run[w] # "off"
  /\ \A w \in Workers : run[w] # "off" => query[w] = Topic(holds[w])

Init ==
  /\ records = [q \in Queries |-> {}]
  /\ API!Init
  /\ Queue!Init
  /\ sender = <<>>
  /\ events = [q \in Queries |-> {}]
  /\ forwarded = {}
  /\ run = [w \in Workers |-> "off"]
  /\ query = [w \in Workers |-> NoQuery]
  /\ found = [w \in Workers |-> {}]
  /\ blocked = [w \in Workers |-> FALSE]
  /\ tasks = [w \in Workers |-> {}]
  /\ dbFailed = FALSE
  /\ runs = 0
  /\ logged = {}

------------------------------------------------------------------------------
(* Steps of the API. *)

Begin(h) ==
  /\ UNCHANGED <<queueVars, spiderVars>>
  /\ \/ API!Create(h, Sends[h]) \/ API!RetrySearch(h, Sends[h])
     \/ API!BeginRaises(h, Sends[h])

\* A message that is published is in face.search.request.
Continue(h) ==
  /\ UNCHANGED spiderVars
  /\ API!Continue(h)
  /\ IF published' = published
     THEN UNCHANGED queueVars
     ELSE Queue!Publish /\ sender' = Append(sender, h)

Crash == UNCHANGED <<queueVars, spiderVars>> /\ API!Crash

------------------------------------------------------------------------------
(* Steps of a worker and of its spider process. *)

\* The worker passes the query of the message to the process it starts.
Deliver(w) ==
  /\ Queue!Get(w)
  /\ Spider!Start(w, Topic(holds'[w]))
  /\ UNCHANGED <<apiVars, sender, logged>>

\* The process exits with code 0 once the spider is closed.
ChildSucceeds(w) ==
  /\ run[w] = "exited"
  /\ Queue!ChildSucceeds(w)
  /\ Spider!Gone(w)
  /\ UNCHANGED <<apiVars, sender, logged>>

\* The process dies, or cannot start its spider.
ChildFails(w) ==
  /\ run[w] # "exited"
  /\ Queue!ChildFails(w)
  /\ Spider!Gone(w)
  /\ UNCHANGED <<apiVars, sender, logged>>

\* Mutant of Kill: the child outlives the worker.
KillLeavesChild(w) ==
  /\ Queue!Kill(w)
  /\ UNCHANGED <<job, apiVars, sender, spiderVars>>

\* The worker process is killed, with its child if there is one.
Kill(w) ==
  /\ Queue!Kill(w)
  /\ IF run[w] = "off" THEN UNCHANGED <<job, spiderVars>>
                      ELSE Spider!Gone(w) /\ UNCHANGED logged
  /\ UNCHANGED <<apiVars, sender>>

Settles(w) ==
  /\ Queue!Ack(w) \/ Queue!Reject(w) \/ Queue!Stop(w)
  /\ UNCHANGED <<job, apiVars, sender, spiderVars>>

Suffers(w) ==
  /\ \/ Queue!GetRaises(w) \/ Queue!SettleRaises(w) \/ Queue!LoseConnection(w)
     \/ Queue!Signal(w) \/ Queue!Restart(w)
  /\ UNCHANGED <<job, apiVars, sender, spiderVars>>

\* The run logs its outcome in close_spider only.
Crawl(w) ==
  /\ \/ Spider!Works(w) /\ (dbFailed' => DbMayFail) /\ UNCHANGED logged
     \/ Spider!CloseSpider(w) /\ logged' = logged \cup {holds[w]}
  /\ UNCHANGED <<apiVars, queueVars>>
CrawlEnds(w) == Spider!SpiderIdle(w) /\ UNCHANGED <<apiVars, queueVars, logged>>

WorkerStep(w) == Deliver(w) \/ ChildSucceeds(w) \/ ChildFails(w) \/ Settles(w)

Next ==
  \/ \E h \in Handlers : Begin(h) \/ Continue(h)
  \/ Crash
  \/ \E w \in Workers :
       \/ Deliver(w) \/ ChildSucceeds(w) \/ ChildFails(w) \/ Settles(w)
       \/ Kill(w) \/ Suffers(w)
       \/ Crawl(w)

Spec == Init /\ [][Next]_vars

\* As in the components: handlers and workers go on, a spider run ends.
FairSpec ==
  /\ Spec
  /\ \A h \in Handlers : WF_vars(Continue(h))
  /\ \A w \in Workers : WF_vars(WorkerStep(w)) /\ WF_vars(Crawl(w)) /\ WF_vars(CrawlEnds(w))

------------------------------------------------------------------------------
(* Properties. *)

\* A query that reads "search_in_progress" is being worked on, or a request for it
\* is still in the queue: whatever dies, nobody has to find it by hand.  A lost
\* connection is the exception: the request may be acked by another worker while
\* the first run is still writing.
InProgressIsLive ==
  \A q \in Queries : job[q] = "search_in_progress" =>
    \/ \E m \in 1..sent : Topic(m) = q /\ mstate[m] \in {"ready", "unacked"}
    \/ \E w \in Workers : query[w] = q
    \/ dbFailed \/ losses > 0

\* A request leaves the queue only when a run started for this very request has
\* logged its outcome, unless the database failed under a run.
AckedIsLogged ==
  \A m \in 1..sent : mstate[m] = "acked" => m \in logged \/ dbFailed

\* A search that was accepted is carried out: a run started for its own message logs
\* an outcome, whatever other searches of the query have logged, unless the database
\* fails under a run or every worker is down.
AcceptedSearchEnds ==
  \A h \in Handlers :
    answer[h] = 202 ~>
      \/ \E m \in logged : sender[m] = h
      \/ dbFailed
      \/ \A w \in Workers : pc[w] \in Queue!Down

(* What the documentation says and the code does not do. *)

\* "status_current e atualizado via pipeline de eventos" (docs/facebook_rebuild.md):
\* once a search was accepted and has run, its status is an outcome.
StatusTellsOutcome ==
  \A h \in Handlers :
    (/\ answer[h] = 202
     /\ \A g \in Handlers : api[g] \notin API!InFlight
     /\ \A m \in 1..sent : mstate[m] = "acked"
     /\ ~dbFailed /\ losses = 0)
    => job[Sends[h].batch[1]] \in Spider!Outcomes
==============================================================================
