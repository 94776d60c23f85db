----------------------------- MODULE QueryService -----------------------------
(***************************************************************************)
(* The write operations of the API (src/face/services.py, QueryService,    *)
(* behind src/face/api.py): create a batch of queries, ask for an export,  *)
(* retry a stage of a query.                                               *)
(*                                                                         *)
(* The handlers are coroutines of one event loop, so a handler runs alone  *)
(* from one await to the next: every action below is such a stretch.  The  *)
(* only awaits are the calls of publish_json.  A call that raises may have *)
(* delivered its message all the same: publish_json closes the channel and *)
(* the connection after the publication, and a lost confirmation raises    *)
(* too.                                                                    *)
(*                                                                         *)
(* A stretch makes several repository calls, each with a transaction of    *)
(* its own, and each may raise: before its commit, or after it (the row is *)
(* refreshed once it is committed).  What the calls before it wrote stays  *)
(* written; an except branch goes on with calls that may raise as well.    *)
(* The API process may die between two stretches, and every handler with   *)
(* it; a death within a stretch leaves the rows that a raising call leaves.*)
(***************************************************************************)
EXTENDS Naturals, Sequences, FiniteSets

CONSTANTS Queries,       \* values of id_query
          Handlers,      \* HTTP requests, each served once
          Inputs,        \* bodies the requests may have
          MaxRecords,    \* bound: records the searches of each query find
          MaxRaises,     \* bound: handlers that end with a raising repository call
          Uncategorised  \* ids of records without a category (the column is nullable)

Kinds == {"create", "export", "retry_search", "retry_enrich", "retry_export"}

ASSUME QueryServiceAssumption ==
  /\ MaxRecords \in [Queries -> Nat] /\ MaxRaises \in Nat
  /\ Uncategorised \subseteq Nat
  /\ \A in \in Inputs :
       /\ in.kind \in Kinds
       /\ in.batch \in Seq(Queries) /\ in.batch # <<>>
       /\ in.kind # "create" => Len(in.batch) = 1
       /\ in.ids \subseteq Nat                   \* {}: record_ids is None
       /\ in.format \in BOOLEAN                \* export_format is given
       /\ in.of \in Nat                        \* 0: export_id is None

VARIABLES
  job,        \* face_jobs: status_current, "none" for no row
  events,     \* face_job_events: the events of a query, with the handler that wrote them
  exports,    \* face_exports: the rows in the order of their ids
  records,    \* face_records: a query has the records 1..records[q]
  published,  \* messages in the stage queues, with the handler that sent them
  pc,         \* handler: where it is
  input,      \* handler: its request
  todo,       \* handler: what it still has to publish, this one first
  row,        \* handler: id of its row of face_exports, 0 for none
  answer,     \* handler: the HTTP status it answered with, 0 for none
  (* For the properties only. *)
  seen,       \* handler: records its query had when the request was received
  raised      \* handlers one of whose repository calls raised

dbVars == <<job, events, exports>>
history == <<seen, raised>>
vars == <<job, events, exports, records, published, pc, input, todo, row, answer, history>>

InFlight == {"stage", "event"}
JobStatus == {"none", "pending", "search_requested", "enqueue_failed",
              "search_retry_enqueue_failed", "enrich_requested",
              "enrich_retry_enqueue_failed", "export_requested",
              "export_retry_enqueue_failed"}
ExportStatus == {"pending", "requested", "enqueue_failed"}
NoInput == [kind |-> "none", batch |-> <<>>, ids |-> {}, format |-> FALSE, of |-> 0]

Kind(h) == input[h].kind
Query(h) == IF Kind(h) = "create" THEN Head(todo[h]) ELSE Head(input[h].batch)

TypeOK ==
  /\ job \in [Queries -> JobStatus]
  /\ DOMAIN events = Queries
  /\ exports \in Seq([q : Queries, status : ExportStatus])
  /\ \A q \in Queries : records[q] \in 0..MaxRecords[q]
  /\ \A p \in published : p.by \in Handlers /\ p.queue \in {"search", "enrich", "export"}
  /\ pc \in [Handlers -> InFlight \cup {"idle", "answered", "lost"}]
  /\ input \in [Handlers -> Inputs \cup {NoInput}]
  /\ row \in [Handlers -> 0..Len(exports)]
  /\ answer \in [Handlers -> {0, 202, 404, 409, 500}]
  /\ raised \subseteq Handlers
  /\ \A h \in Handlers : pc[h] \in InFlight => todo[h] # <<>>

Init ==
  /\ job = [q \in Queries |-> "none"]
  /\ events = [q \in Queries |-> {}]
  /\ exports = <<>>
  /\ records = [q \in Queries |-> 0]
  /\ published = {}
  /\ pc = [h \in Handlers |-> "idle"]
  /\ input = [h \in Handlers |-> NoInput]
  /\ todo = [h \in Handlers |-> <<>>]
  /\ row = [h \in Handlers |-> 0]
  /\ answer = [h \in Handlers |-> 0]
  /\ seen = [h \in Handlers |-> 0]
  /\ raised = {}

------------------------------------------------------------------------------
(* How a handler ends, and its repository calls. *)

Answer(h, code) ==
  /\ pc' = [pc EXCEPT ![h] = "answered"]
  /\ answer' = [answer EXCEPT ![h] = code]

Ends(h, code) == Answer(h, code) /\ UNCHANGED raised

\* A repository call raises, and no except branch answers anything else.
Raises(h) ==
  /\ Cardinality(raised) < MaxRaises
  /\ raised' = raised \cup {h}
  /\ Answer(h, 500)

\* The tables of the first calls of a sequence: those made before one raised.
Prefixes(calls) == {{calls[i] : i \in 1..n} : n \in 0..Len(calls)}
All(calls) == {calls[i] : i \in DOMAIN calls}

\* What a handler writes once its messages are out, and what its except branch
\* writes: the new status of the query ("none" for no such write), the event, the
\* tables in the order of the calls.  The status of an export is its outcome.
CreateWrites ==
  [success |-> [job |-> "search_requested", event |-> "search.requested",
                calls |-> <<"job", "event">>],
   failure |-> [job |-> "enqueue_failed", event |-> "search.enqueue_failed",
                calls |-> <<"job", "event">>]]

\* Mutant of ExportWrites: the handler re-raises without settling its row.
ExportWritesOnlyRaise ==
  [success |-> [job |-> "none", event |-> "export.requested",
                calls |-> <<"export", "event">>],
   failure |-> [job |-> "none", event |-> "export.enqueue_failed", calls |-> <<"event">>]]

ExportWrites ==
  [success |-> [job |-> "none", event |-> "export.requested",
                calls |-> <<"export", "event">>],
   failure |-> [job |-> "none", event |-> "export.enqueue_failed",
                calls |-> <<"export", "event">>]]

RetrySearchWrites ==
  [success |-> [job |-> "search_requested", event |-> "search.retry_requested",
                calls |-> <<"job", "event">>],
   failure |-> [job |-> "search_retry_enqueue_failed", event |-> "search.retry_enqueue_failed",
                calls |-> <<"job", "event">>]]

RetryEnrichWrites ==
  [success |-> [job |-> "enrich_requested", event |-> "enrich.retry_requested",
                calls |-> <<"job", "event">>],
   failure |-> [job |-> "enrich_retry_enqueue_failed", event |-> "enrich.retry_enqueue_failed",
                calls |-> <<"job", "event">>]]

RetryExportWrites ==
  [success |-> [job |-> "export_requested", event |-> "export.retry_requested",
                calls |-> <<"job", "event", "export">>],
   failure |-> [job |-> "export_retry_enqueue_failed", event |-> "export.retry_enqueue_failed",
                calls |-> <<"export", "job", "event">>]]

Writes(kind) ==
  CASE kind = "create"       -> CreateWrites
    [] kind = "export"       -> ExportWrites
    [] kind = "retry_search" -> RetrySearchWrites
    [] kind = "retry_enrich" -> RetryEnrichWrites
    [] OTHER                 -> RetryExportWrites

Success(h) == Writes(Kind(h)).success
Failure(h) == Writes(Kind(h)).failure

\* The rows after the writes of a success to the tables s, then of a failure to f.
JobAfter(h, s, f) ==
  [job EXCEPT ![Query(h)] = IF "job" \in f THEN Failure(h).job
                            ELSE IF "job" \in s THEN Success(h).job ELSE @]
EventsAfter(h, s, f) ==
  [events EXCEPT ![Query(h)] =
     @ \cup {[by |-> h, type |-> Success(h).event] : t \in s \cap {"event"}}
       \cup {[by |-> h, type |-> Failure(h).event] : t \in f \cap {"event"}}]
ExportsAfter(h, s, f) ==
  [e \in DOMAIN exports |->
     IF e # row[h] THEN exports[e]
     ELSE [exports[e] EXCEPT !.status = IF "export" \in f THEN "enqueue_failed"
                                        ELSE IF "export" \in s THEN "requested" ELSE @]]

Write(h, s, f) ==
  /\ job' = JobAfter(h, s, f)
  /\ events' = EventsAfter(h, s, f)
  /\ exports' = ExportsAfter(h, s, f)
  /\ UNCHANGED row

\* A query is inserted with its event: c are the calls that were made.
InsertCalls == <<"job", "event">>
Inserts(h, q, c, jobs, log) ==
  /\ job' = IF "job" \in c THEN [jobs EXCEPT ![q] = "pending"] ELSE jobs
  /\ events' = IF "event" \in c
               THEN [log EXCEPT ![q] = @ \cup {[by |-> h, type |-> "query.created"]}]
               ELSE log
  /\ UNCHANGED <<exports, row>>

------------------------------------------------------------------------------
(* Beginnings of handlers, up to their first await. *)

Receive(h, in) == pc[h] = "idle" /\ input' = [input EXCEPT ![h] = in]

\* The handler answers without having touched anything.
Refuse(h, code) == Ends(h, code) /\ UNCHANGED <<dbVars, published, todo, row, seen>>

\* The handler goes on to its next await.
GoesOn(h) == pc' = [pc EXCEPT ![h] = "stage"] /\ UNCHANGED <<answer, raised>>

\* The handler goes on to publish the messages with these keys.
Await(h, keys) ==
  /\ GoesOn(h)
  /\ todo' = [todo EXCEPT ![h] = keys]
  /\ UNCHANGED published

Duplicates(batch) == \E i, j \in DOMAIN batch : i # j /\ batch[i] = batch[j]

\* The first repository call of a handler raises, and has written nothing.
BeginRaises(h, in) ==
  /\ Receive(h, in)
  /\ ~Duplicates(in.batch)
  /\ Raises(h)
  /\ UNCHANGED <<dbVars, records, published, todo, row, seen>>

\* Mutant of NewExport: the id is taken before the row is inserted, off by one.
NewExportOffByOne(h, q) ==
  /\ exports' = Append(exports, [q |-> q, status |-> "pending"])
  /\ row' = [row EXCEPT ![h] = Len(exports) + 2]
  /\ Await(h, <<Len(exports) + 1>>)
  /\ UNCHANGED <<job, events, seen>>

\* Mutant of NewExport: a query's existing row is used again.
NewExportReuses(h, q) ==
  LET old == {e \in DOMAIN exports : exports[e].q = q}
      e == IF old = {} THEN Len(exports) + 1 ELSE CHOOSE x \in old : TRUE
  IN /\ exports' = IF old = {} THEN Append(exports, [q |-> q, status |-> "pending"])
                               ELSE [exports EXCEPT ![e].status = "pending"]
     /\ row' = [row EXCEPT ![h] = e]
     /\ Await(h, <<e>>)
     /\ UNCHANGED <<job, events, seen>>

\* A row of face_exports for q; its id is its place in the table.
NewExport(h, q) ==
  /\ exports' = Append(exports, [q |-> q, status |-> "pending"])
  /\ row' = [row EXCEPT ![h] = Len(exports) + 1]
  /\ todo' = [todo EXCEPT ![h] = <<Len(exports) + 1>>]
  /\ GoesOn(h) \/ Raises(h)
  /\ UNCHANGED <<job, events, published, seen>>

\* create_queries validates the batch, then inserts its first query.
Create(h, in) ==
  /\ in.kind = "create"
  /\ Receive(h, in)
  /\ \/ /\ Duplicates(in.batch) \/ \E i \in DOMAIN in.batch : job[in.batch[i]] # "none"
        /\ Refuse(h, 409)
     \/ /\ ~Duplicates(in.batch)
        /\ \A i \in DOMAIN in.batch : job[in.batch[i]] = "none"
        /\ todo' = [todo EXCEPT ![h] = in.batch]
        /\ \E c \in Prefixes(InsertCalls) :
             /\ Inserts(h, in.batch[1], c, job, events)
             /\ (c = All(InsertCalls) /\ GoesOn(h)) \/ Raises(h)
        /\ UNCHANGED <<published, seen>>
  /\ UNCHANGED records

Export(h, in) ==
  /\ in.kind = "export"
  /\ Receive(h, in)
  /\ IF job[in.batch[1]] = "none" THEN Refuse(h, 404) ELSE NewExport(h, in.batch[1])
  /\ UNCHANGED records

RetrySearch(h, in) ==
  /\ in.kind = "retry_search"
  /\ Receive(h, in)
  /\ IF job[in.batch[1]] = "none"
     THEN Refuse(h, 404)
     ELSE Await(h, in.batch) /\ UNCHANGED <<dbVars, row, seen>>
  /\ UNCHANGED records

\* Mutant of RecordsOf: the record found last is left out.
RecordsOfOffByOne(in) == 1..(records[in.batch[1]] - 1)

\* The records of the query, and those an enrich retry is about: the ones asked for,
\* or all of them.
RecordsOf(in) == 1..records[in.batch[1]]
Chosen(in) == IF in.ids = {} THEN RecordsOf(in) ELSE in.ids

\* The payloads are built before the first of them is published.
Enrichable(in) ==
  /\ Chosen(in) # {}
  /\ Chosen(in) \subseteq RecordsOf(in)
  /\ Chosen(in) \cap Uncategorised = {}

\* The ids in order: the i-th has i - 1 before it.
Ascending(S) ==
  [i \in 1..Cardinality(S) |-> CHOOSE x \in S : Cardinality({y \in S : y < x}) = i - 1]

\* Mutant of RetryEnrich: payloads are built one by one while publishing.
RetryEnrichLazily(h, in) ==
  /\ in.kind = "retry_enrich"
  /\ Receive(h, in)
  /\ seen' = [seen EXCEPT ![h] = records[in.batch[1]]]
  /\ IF ~Enrichable(in)
     THEN /\ Ends(h, 409)
          /\ published' = published \cup
               {[by |-> h, queue |-> "enrich", key |-> r] :
                  r \in (Chosen(in) \cap RecordsOf(in)) \ Uncategorised}
          /\ UNCHANGED <<dbVars, todo, row>>
     ELSE Await(h, Ascending(Chosen(in))) /\ UNCHANGED <<dbVars, row>>
  /\ UNCHANGED records

RetryEnrich(h, in) ==
  /\ in.kind = "retry_enrich"
  /\ Receive(h, in)
  /\ \/ job[in.batch[1]] = "none" /\ Refuse(h, 404)
     \/ job[in.batch[1]] # "none" /\ ~Enrichable(in) /\ Refuse(h, 409)
     \/ /\ Enrichable(in)
        /\ Await(h, Ascending(Chosen(in)))
        /\ seen' = [seen EXCEPT ![h] = records[in.batch[1]]]
        /\ UNCHANGED <<dbVars, row>>
  /\ UNCHANGED records

ExportsOf(q) == {e \in DOMAIN exports : exports[e].q = q}

\* The format comes from the request, the export it names, or the latest export.
FormatKnown(in) ==
  \/ in.format
  \/ in.of = 0 /\ ExportsOf(in.batch[1]) # {}
  \/ in.of \in ExportsOf(in.batch[1])

RetryExport(h, in) ==
  /\ in.kind = "retry_export"
  /\ Receive(h, in)
  /\ \/ job[in.batch[1]] = "none" /\ Refuse(h, 404)
     \/ job[in.batch[1]] # "none" /\ ~FormatKnown(in) /\ Refuse(h, 409)
     \/ job[in.batch[1]] # "none" /\ FormatKnown(in) /\ NewExport(h, in.batch[1])
  /\ UNCHANGED records
------------------------------------------------------------------------------
(* The publications, one await each, and the stretch after the last one. *)

StageQueue(h) == CASE Kind(h) \in {"create", "retry_search"} -> "search"
                   [] Kind(h) = "retry_enrich" -> "enrich"
                   [] OTHER -> "export"

Message(h) == [by |-> h, queue |-> StageQueue(h), key |-> Head(todo[h])]

\* A stage message is out; an enrich retry has one for each of its records.
PublishStage(h) ==
  /\ pc[h] = "stage"
  /\ published' = published \cup {Message(h)}
  /\ IF Kind(h) = "retry_enrich" /\ Len(todo[h]) > 1
     THEN todo' = [todo EXCEPT ![h] = Tail(@)] /\ UNCHANGED pc
     ELSE pc' = [pc EXCEPT ![h] = "event"] /\ UNCHANGED todo
  /\ UNCHANGED <<dbVars, records, input, row, answer, history>>

\* A publication raised: the except branch settles what the handler had begun,
\* unless one of its calls raises.
Fails(h) ==
  /\ \E f \in Prefixes(Failure(h).calls) :
       /\ Write(h, {}, f)
       /\ (f = All(Failure(h).calls) /\ Ends(h, 500)) \/ Raises(h)
  /\ UNCHANGED todo

\* Mutant of PublishStageRaises: the exception is only logged.
PublishStageSwallows(h) ==
  /\ pc[h] = "stage"
  /\ pc' = [pc EXCEPT ![h] = "event"]
  /\ UNCHANGED <<published, dbVars, records, input, todo, row, answer, history>>

\* The call raises: the message may be out or not.
PublishStageRaises(h) ==
  /\ pc[h] = "stage"
  /\ published' \in {published, published \cup {Message(h)}}
  /\ Fails(h)
  /\ UNCHANGED <<records, input, seen>>

\* Publishing the copy for face.job.events raises.
PublishEventRaises(h) ==
  /\ pc[h] = "event"
  /\ Fails(h)
  /\ UNCHANGED <<published, records, input, seen>>

\* The handler has written its success, and has nothing left to do.
Succeeds(h) ==
  /\ Kind(h) # "create" \/ Len(todo[h]) = 1
  /\ Write(h, All(Success(h).calls), {})
  /\ Ends(h, 202)
  /\ UNCHANGED todo

\* One of those calls raises.  The handler of an export makes them outside its try;
\* the others go on to their except branch, whose calls may raise too.
SuccessRaises(h) ==
  /\ \E s \in Prefixes(Success(h).calls),
        f \in IF Kind(h) = "export" THEN {{}} ELSE Prefixes(Failure(h).calls) :
       Write(h, s, f)
  /\ Raises(h)
  /\ UNCHANGED todo

\* Mutant of CreateGoesOn: create_job merges instead of inserting.
CreateMerges(h) ==
  LET all == All(Success(h).calls)
      next == Tail(todo[h])
  IN /\ Kind(h) = "create"
     /\ next # <<>>
     /\ Inserts(h, next[1], All(InsertCalls), JobAfter(h, all, {}), EventsAfter(h, all, {}))
     /\ todo' = [todo EXCEPT ![h] = next]
     /\ GoesOn(h)

\* Mutant of CreateGoesOn: the loop does not advance over the batch.
CreateNeverAdvances(h) ==
  /\ Kind(h) = "create"
  /\ Len(todo[h]) > 1
  /\ Write(h, All(Success(h).calls), {})
  /\ GoesOn(h)
  /\ UNCHANGED todo

\* The loop of create_queries goes on to the next query of the batch, which
\* another request may have created since the batch was validated: the insert
\* then fails and the request is answered 409.
CreateGoesOn(h) ==
  LET all == All(Success(h).calls)
      next == Tail(todo[h])
  IN /\ Kind(h) = "create"
     /\ next # <<>>
     /\ \/ /\ job[next[1]] # "none"
           /\ Write(h, all, {})
           /\ Ends(h, 409)
           /\ UNCHANGED todo
        \/ /\ job[next[1]] = "none"
           /\ \E c \in Prefixes(InsertCalls) :
                /\ Inserts(h, next[1], c, JobAfter(h, all, {}), EventsAfter(h, all, {}))
                /\ (c = All(InsertCalls) /\ GoesOn(h)) \/ Raises(h)
           /\ todo' = [todo EXCEPT ![h] = next]

\* The copy for face.job.events is out.
PublishEvent(h) ==
  /\ pc[h] = "event"
  /\ Succeeds(h) \/ CreateGoesOn(h) \/ SuccessRaises(h)
  /\ UNCHANGED <<published, records, input, seen>>

------------------------------------------------------------------------------
(* The surroundings. *)

\* The API process dies; the rows and the messages stay as they are.
Crash ==
  /\ \E h \in Handlers : pc[h] \in InFlight
  /\ pc' = [h \in Handlers |-> IF pc[h] \in InFlight THEN "lost" ELSE pc[h]]
  /\ UNCHANGED <<dbVars, records, published, input, todo, row, answer, history>>

\* A search worker stores a record for a query whose request it received.
SearchFinds(q) ==
  /\ \E p \in published : p.queue = "search" /\ p.key = q
  /\ records[q] < MaxRecords[q]
  /\ records' = [records EXCEPT ![q] = @ + 1]
  /\ UNCHANGED <<dbVars, published, pc, input, todo, row, answer, history>>

Begin(h) == \E in \in Inputs :
  \/ Create(h, in) \/ Export(h, in) \/ BeginRaises(h, in)
  \/ RetrySearch(h, in) \/ RetryEnrich(h, in) \/ RetryExport(h, in)

Continue(h) ==
  PublishStage(h) \/ PublishStageRaises(h) \/ PublishEvent(h) \/ PublishEventRaises(h)

Next ==
  \/ \E h \in Handlers, in \in Inputs :
       \/ Create(h, in) \/ Export(h, in) \/ BeginRaises(h, in)
       \/ RetrySearch(h, in) \/ RetryEnrich(h, in) \/ RetryExport(h, in)
  \/ \E h \in Handlers :
       PublishStage(h) \/ PublishStageRaises(h) \/ PublishEvent(h) \/ PublishEventRaises(h)
  \/ Crash
  \/ \E q \in Queries : SearchFinds(q)

Spec == Init /\ [][Next]_vars

\* A call of publish_json returns or raises; nothing else is promised.
FairSpec == Spec /\ \A h \in Handlers : WF_vars(Continue(h))

------------------------------------------------------------------------------
(* Properties. *)

Sent(h, queue, key) == [by |-> h, queue |-> queue, key |-> key] \in published

\* The messages a request stands for: a search for each query of a batch or for the
\* query retried, an enrichment for each record asked for or, without ids, for each
\* record the query had when the request was received, the request's own export.
StandsFor(h) ==
  LET in == input[h]
      Messages(queue, keys) == {[by |-> h, queue |-> queue, key |-> k] : k \in keys}
  IN CASE in.kind \in {"create", "retry_search"} -> Messages("search", All(in.batch))
       [] in.kind = "retry_enrich" ->
            Messages("enrich", IF in.ids = {} THEN 1..seen[h] ELSE in.ids)
       [] OTHER -> Messages("export", {row[h]})

\* The event that tells the log of an accepted request.
Announcement(kind) ==
  CASE kind = "create" -> "search.requested"
    [] kind = "export" -> "export.requested"
    [] kind = "retry_search" -> "search.retry_requested"
    [] kind = "retry_enrich" -> "enrich.retry_requested"
    [] OTHER -> "export.retry_requested"

\* A request answered 202 has put exactly the messages it stands for into the stage
\* queues, has told the event log of each of its queries so itself, and its export
\* reads "requested": nothing accepted is forgotten, left out or added, whatever
\* other handlers and searches did meanwhile.
AcceptedIsQueued ==
  \A h \in Handlers : answer[h] = 202 =>
    /\ {p \in published : p.by = h} = StandsFor(h)
    /\ \A q \in All(input[h].batch) :
         [by |-> h, type |-> Announcement(input[h].kind)] \in events[q]
    /\ row[h] # 0 => exports[row[h]].status = "requested"

\* A status that says a stage was requested is never ahead of the queue: what it
\* announces has been published, whichever handlers raced to write it.
RequestedHasMessage ==
  /\ \A q \in Queries :
       /\ job[q] = "search_requested" => \E h \in Handlers : Sent(h, "search", q)
       /\ job[q] = "enrich_requested" =>
            \E p \in published : p.queue = "enrich" /\ input[p.by].batch = <<q>>
       /\ job[q] = "export_requested" =>
            \E p \in published : p.queue = "export" /\ exports[p.key].q = q
  /\ \A e \in DOMAIN exports :
       exports[e].status = "requested" => \E h \in Handlers : Sent(h, "export", e)

\* A retry or an export that is refused (404, 409) has published nothing.
RefusedPublishesNothing ==
  \A h \in Handlers : (answer[h] \in {404, 409} /\ input[h].kind # "create") =>
    ~\E p \in published : p.by = h

\* Concurrent batches never create the same query twice: at most one create
\* request publishes a search for it.
OneCreator ==
  \A q \in Queries, g, h \in Handlers :
    (/\ Sent(g, "search", q) /\ input[g].kind = "create"
     /\ Sent(h, "search", q) /\ input[h].kind = "create") => g = h

\* A row is "pending" only while a handler is working on it, or because the API died
\* under its handler, or because a repository call of its handler raised: an exception
\* of the broker never leaves a row behind without its outcome.
PendingHasHandler ==
  /\ \A q \in Queries : job[q] = "pending" =>
       \E h \in Handlers : /\ pc[h] \in InFlight \cup {"lost"} \/ h \in raised
                           /\ input[h].kind = "create"
                           /\ todo[h] # <<>> /\ Head(todo[h]) = q
  /\ \A e \in DOMAIN exports : exports[e].status = "pending" =>
       \E h \in Handlers : (pc[h] \in InFlight \cup {"lost"} \/ h \in raised) /\ row[h] = e

\* A settled export keeps its outcome: a retry works on a row of its own.
SettledExportStays ==
  [][\A e \in DOMAIN exports :
       exports[e].status # "pending" => exports'[e] = exports[e]]_vars

\* Every request is answered, unless the API dies under it.
EveryRequestAnswered ==
  \A h \in Handlers : pc[h] \in InFlight ~> pc[h] \in {"answered", "lost"}

(* What tests and messages say and the code does not do. *)

\* "Failed to publish query for search" is what the log and the status
\* enqueue_failed say of a query: its search is not in the queue.
EnqueueFailedIsNotQueued ==
  \A q \in Queries, h \in Handlers : job[q] = "enqueue_failed" => ~Sent(h, "search", q)
==============================================================================
