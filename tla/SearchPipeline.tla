---------------------------- MODULE SearchPipeline ----------------------------
(***************************************************************************)
(* A run of the search spider as its item pipelines see it                 *)
(* (src/face/pipelines/persist.py and events.py): opening, one item per    *)
(* discovered URL, closing, and the end of the process.                    *)
(*                                                                         *)
(* PersistPipeline stores the record, EventsPipeline then announces it.    *)
(* While the reactor runs a publication is a task nobody awaits            *)
(* (_publish_json): it may fail, which is only logged, and a task that is  *)
(* pending when the reactor stops is dropped.  Every exception of the      *)
(* pipelines ends up in Scrapy's log; the process exits with code 0.       *)
(***************************************************************************)
EXTENDS Naturals, FiniteSets

CONSTANTS Runners,  \* processes that can run a spider, one run at a time each
          Queries,  \* values of id_query
          Urls,     \* normalized Facebook URLs a search can discover
          NoQuery,  \* a runner without a run
          MaxRuns   \* bound: runs started

ASSUME SearchPipelineAssumption == NoQuery \notin Queries /\ MaxRuns \in Nat

VARIABLES
  job,        \* face_jobs.status_current, per query
  events,     \* types of the events in face_job_events, per query
  records,    \* URLs stored in face_records, per query (an enrichment may rename one: RecordStore)
  forwarded,  \* <<query, url>> for which an enrich request is in the queue
  run,        \* where a runner's run is
  query,      \* the query of the run
  found,      \* the URLs counted by the run (discovered_count is their number)
  blocked,    \* the spider has set search_blocked_details
  tasks,      \* URLs whose enrich request is a task not yet run
  dbFailed,   \* some call of a repository has raised
  runs        \* number of runs started

dbVars == <<job, events, records>>
runVars == <<run, query, found, blocked, tasks>>
vars == <<dbVars, forwarded, runVars, dbFailed, runs>>

Outcomes == {"search_completed", "search_completed_empty", "search_blocked"}
JobStatus == {"search_requested", "search_in_progress"} \cup Outcomes
Event == {"search.started", "search.url_discovered", "search.completed", "search.blocked"}
Open == {"crawling", "closing", "closed"}

TypeOK ==
  /\ job \in [Queries -> JobStatus]
  /\ events \in [Queries -> SUBSET Event]
  /\ records \in [Queries -> SUBSET Urls]
  /\ forwarded \in SUBSET (Queries \X Urls)
  /\ run \in [Runners -> {"off", "boot", "exited"} \cup Open]
  /\ query \in [Runners -> Queries \cup {NoQuery}]
  /\ found \in [Runners -> SUBSET Urls]
  /\ blocked \in [Runners -> BOOLEAN]
  /\ tasks \in [Runners -> SUBSET Urls]
  /\ dbFailed \in BOOLEAN
  /\ runs \in 0..MaxRuns

Init ==
  /\ job = [q \in Queries |-> "search_requested"]
  /\ events = [q \in Queries |-> {}]
  /\ records = [q \in Queries |-> {}]
  /\ forwarded = {}
  /\ run = [w \in Runners |-> "off"]
  /\ query = [w \in Runners |-> NoQuery]
  /\ found = [w \in Runners |-> {}]
  /\ blocked = [w \in Runners |-> FALSE]
  /\ tasks = [w \in Runners |-> {}]
  /\ dbFailed = FALSE
  /\ runs = 0

SetJob(w, s) == job' = [job EXCEPT ![query[w]] = s]
AddEvent(w, e) == events' = [events EXCEPT ![query[w]] = @ \cup {e}]
GoTo(w, s) == run' = [run EXCEPT ![w] = s]
DbFails == dbFailed' = TRUE

------------------------------------------------------------------------------
(* The run. *)

\* The worker starts the process; it knows its query from its environment.
Start(w, q) ==
  /\ run[w] = "off"
  /\ runs < MaxRuns
  /\ runs' = runs + 1
  /\ GoTo(w, "boot")
  /\ query' = [query EXCEPT ![w] = q]
  /\ found' = [found EXCEPT ![w] = {}]
  /\ blocked' = [blocked EXCEPT ![w] = FALSE]
  /\ tasks' = [tasks EXCEPT ![w] = {}]
  /\ UNCHANGED <<dbVars, forwarded, dbFailed>>

OpenSpider(w) ==
  /\ run[w] = "boot"
  /\ SetJob(w, "search_in_progress")
  /\ AddEvent(w, "search.started")
  /\ GoTo(w, "crawling")
  /\ UNCHANGED <<records, forwarded, query, found, blocked, tasks, dbFailed, runs>>

\* open_spider raises: a repository call does, or the publication, which runs to
\* its end at this point if no event loop is running yet.  The engine then closes
\* the spider, whose pipelines have their repository already.
OpenSpiderRaises(w) ==
  /\ run[w] = "boot"
  /\ \/ UNCHANGED <<job, events>> /\ DbFails
     \/ SetJob(w, "search_in_progress") /\ UNCHANGED events /\ DbFails
     \/ SetJob(w, "search_in_progress") /\ AddEvent(w, "search.started") /\ UNCHANGED dbFailed
  /\ GoTo(w, "closing")
  /\ UNCHANGED <<records, forwarded, query, found, blocked, tasks, runs>>

\* Mutant of Item: the announcement does not depend on the record being stored.
ItemUnstored(w, u) ==
  /\ run[w] = "crawling"
  /\ u \notin found[w]
  /\ found' = [found EXCEPT ![w] = @ \cup {u}]
  /\ AddEvent(w, "search.url_discovered")
  /\ tasks' = [tasks EXCEPT ![w] = @ \cup {u}]
  /\ UNCHANGED <<job, records, forwarded, run, query, blocked, dbFailed, runs>>

\* The spider yields a URL it has not seen in this run: the record is stored, then
\* counted and announced, and its enrich request becomes a task.
Item(w, u) ==
  /\ run[w] = "crawling"
  /\ u \notin found[w]
  /\ records' = [records EXCEPT ![query[w]] = @ \cup {u}]
  /\ found' = [found EXCEPT ![w] = @ \cup {u}]
  /\ AddEvent(w, "search.url_discovered")
  /\ tasks' = [tasks EXCEPT ![w] = @ \cup {u}]
  /\ UNCHANGED <<job, forwarded, run, query, blocked, dbFailed, runs>>

\* Mutant of ItemRaises: EventsPipeline counts the item before it is persisted.
ItemCountedFirst(w, u) ==
  /\ run[w] = "crawling"
  /\ u \notin found[w]
  /\ DbFails
  /\ found' = [found EXCEPT ![w] = @ \cup {u}]
  /\ UNCHANGED <<job, events, records, forwarded, run, query, blocked, tasks, runs>>

\* A repository call raises on the item: either it is not stored, or it is stored
\* and counted but neither announced nor forwarded.
ItemRaises(w, u) ==
  /\ run[w] = "crawling"
  /\ u \notin found[w]
  /\ DbFails
  /\ \/ UNCHANGED <<records, found>>
     \/ /\ records' = [records EXCEPT ![query[w]] = @ \cup {u}]
        /\ found' = [found EXCEPT ![w] = @ \cup {u}]
  /\ UNCHANGED <<job, events, forwarded, run, query, blocked, tasks, runs>>

\* A task of the run ends: the request is in the queue, or the publication failed
\* and _log_publish_error logged it.
TaskEnds(w, u) ==
  /\ run[w] \in Open
  /\ u \in tasks[w]
  /\ tasks' = [tasks EXCEPT ![w] = @ \ {u}]
  /\ \/ forwarded' = forwarded \cup {<<query[w], u>>}
     \/ UNCHANGED forwarded
  /\ UNCHANGED <<dbVars, run, query, found, blocked, dbFailed, runs>>

\* The backend blocks the spider (GoogleSearchSpider._mark_search_blocked).
Block(w) ==
  /\ run[w] = "crawling"
  /\ ~blocked[w]
  /\ blocked' = [blocked EXCEPT ![w] = TRUE]
  /\ UNCHANGED <<dbVars, forwarded, run, query, found, tasks, dbFailed, runs>>

\* No request is left: the engine closes the spider.
SpiderIdle(w) ==
  /\ run[w] = "crawling"
  /\ GoTo(w, "closing")
  /\ UNCHANGED <<dbVars, forwarded, query, found, blocked, tasks, dbFailed, runs>>

Outcome(w) == CASE blocked[w] -> "search_blocked"
                [] ~blocked[w] /\ found[w] # {} -> "search_completed"
                [] OTHER -> "search_completed_empty"

\* Mutant of CloseSpider: a blocked search gets its event, not its status.
CloseOnlyLogsBlocked(w) ==
  /\ run[w] = "closing"
  /\ IF blocked[w] THEN UNCHANGED job ELSE SetJob(w, Outcome(w))
  /\ AddEvent(w, IF blocked[w] THEN "search.blocked" ELSE "search.completed")
  /\ GoTo(w, "closed")
  /\ UNCHANGED <<records, forwarded, query, found, blocked, tasks, dbFailed, runs>>

\* Mutant of CloseSpider: an unknown status.
CloseDone(w) ==
  /\ run[w] = "closing"
  /\ SetJob(w, "done")
  /\ GoTo(w, "closed")
  /\ UNCHANGED <<events, records, forwarded, query, found, blocked, tasks, dbFailed, runs>>

CloseSpider(w) ==
  /\ run[w] = "closing"
  /\ SetJob(w, Outcome(w))
  /\ AddEvent(w, IF blocked[w] THEN "search.blocked" ELSE "search.completed")
  /\ GoTo(w, "closed")
  /\ UNCHANGED <<records, forwarded, query, found, blocked, tasks, dbFailed, runs>>

CloseSpiderRaises(w) ==
  /\ run[w] = "closing"
  /\ \/ UNCHANGED job
     \/ SetJob(w, Outcome(w))
  /\ DbFails
  /\ GoTo(w, "closed")
  /\ UNCHANGED <<events, records, forwarded, query, found, blocked, tasks, runs>>

\* The reactor stops and the process exits; tasks that have not run are dropped.
Exit(w) ==
  /\ run[w] = "closed"
  /\ GoTo(w, "exited")
  /\ tasks' = [tasks EXCEPT ![w] = {}]
  /\ UNCHANGED <<dbVars, forwarded, query, found, blocked, dbFailed, runs>>

\* The process is gone: collected by the worker after its exit, or killed.
Gone(w) ==
  /\ run[w] # "off"
  /\ GoTo(w, "off")
  /\ query' = [query EXCEPT ![w] = NoQuery]
  /\ found' = [found EXCEPT ![w] = {}]
  /\ blocked' = [blocked EXCEPT ![w] = FALSE]
  /\ tasks' = [tasks EXCEPT ![w] = {}]
  /\ UNCHANGED <<dbVars, forwarded, dbFailed, runs>>

\* The steps of a run that need nobody else; CloseSpider logs its outcome.
Works(w) ==
  \/ OpenSpider(w) \/ OpenSpiderRaises(w)
  \/ \E u \in Urls : Item(w, u) \/ ItemRaises(w, u) \/ TaskEnds(w, u)
  \/ Block(w) \/ SpiderIdle(w) \/ CloseSpiderRaises(w) \/ Exit(w)
Inner(w) == Works(w) \/ CloseSpider(w)

Next == \E w \in Runners :
  \/ \E q \in Queries : Start(w, q)
  \/ OpenSpider(w) \/ OpenSpiderRaises(w)
  \/ \E u \in Urls : Item(w, u) \/ ItemRaises(w, u) \/ TaskEnds(w, u)
  \/ Block(w) \/ SpiderIdle(w) \/ CloseSpider(w) \/ CloseSpiderRaises(w) \/ Exit(w)
  \/ Gone(w)

Spec == Init /\ [][Next]_vars

\* A spider run comes to its end: a crawl is finite (GoogleSearchSpider) and the
\* engine closes an idle spider.
FairSpec ==
  /\ Spec
  /\ \A w \in Runners : WF_vars(Inner(w)) /\ WF_vars(SpiderIdle(w))

------------------------------------------------------------------------------
(* Properties. *)

\* No enrich request is ever about a URL that is not stored: the enrich worker
\* finds the record the request names, however runs of a query overlap.
ForwardedIsStored ==
  \A q \in Queries, u \in Urls : <<q, u>> \in forwarded => u \in records[q]

\* A query that reads "search_completed" has records, also when the run that
\* wrote it is not the one that found them, and when the database failed.
CompletedHasRecords ==
  \A q \in Queries : job[q] = "search_completed" => records[q] # {}

\* "search_in_progress" is not the last word on a query: a run that has begun to
\* crawl leads to an outcome in its query's row, unless the database fails or the
\* process is killed.  (A collected process is "off" as well, but nothing forces
\* the worker to collect it: the outcome must be there before.)
InProgressEnds ==
  \A w \in Runners, q \in Queries :
    (run[w] = "crawling" /\ query[w] = q) ~>
      (job[q] \in Outcomes \/ dbFailed \/ run[w] = "off")
==============================================================================
