------------------------------ MODULE RecordStore ------------------------------
(***************************************************************************)
(* The records of one query in face_records, as the spider processes write *)
(* them: upsert_discovered_record and upsert_enriched_record               *)
(* (src/face/repository.py), called by PersistPipeline for the items of    *)
(* GoogleSearchSpider and FacebookEnrichSpider, and the enrich requests    *)
(* that EventsPipeline publishes in between.                               *)
(*                                                                         *)
(* An upsert is a transaction of two statements: a SELECT, then an INSERT  *)
(* or an UPDATE.  PostgreSQL runs it at READ COMMITTED and no constraint   *)
(* makes (id_query, url_normalized) unique, so the transactions of several *)
(* processes interleave between the two.  SQLAlchemy's UPDATE sets only    *)
(* the columns whose value differs from the one that was read.             *)
(*                                                                         *)
(* A second search run of the query is a retry or a redelivered request.   *)
(* Rows of different queries never meet, except by a record id that        *)
(* belongs to the query of its request.                                    *)
(***************************************************************************)
EXTENDS Naturals, Sequences

CONSTANTS Searchers,   \* processes that run the search spider
          Enrichers,   \* processes that run the enrich spider
          Urls,        \* values of url_normalized
          Found,       \* those that a search can discover
          Places,      \* payloads of a search item: page, position, source
          Metadata,    \* payloads of an enriched item
          NoRow,       \* what a SELECT without a match returns
          MaxSearches, \* bound: search runs
          MaxByHand,   \* bound: enrich runs in one-shot mode, without a record id
          MaxFaults    \* bound: killed processes and lost connections

ASSUME RecordStoreAssumption ==
  /\ Searchers \cap Enrichers = {}
  /\ Found \subseteq Urls
  /\ Places \cap Metadata = {}
  /\ MaxSearches \in Nat /\ MaxByHand \in Nat /\ MaxFaults \in Nat

Processes == Searchers \cup Enrichers
Row == [url : Urls, status : {"discovered", "enriched"}, payload : Places \cup Metadata]

VARIABLES
  rows,      \* face_records: the rows in the order of their ids
  pending,   \* enrich requests in the queue, per record id
  at,        \* process: "off", "ready" for an item, "read" or "written" its record
  item,      \* process: the row the item asks for
  hit,       \* process: the id the SELECT found, 0 for none
  old,       \* process: the row as the SELECT returned it
  visited,   \* search run: seen_urls
  task,      \* enrich run: the record id of its request, 0 for none
  held,      \* enrich run: the broker still counts the request as delivered to it
  searches, byHand, faults,  \* what the bounds count
  forgotten, \* history: ids whose last enrich request was not published or gave no item
  contested  \* history: URLs two transactions at once found no row for, or an enrichment gave a row

txVars == <<at, item, hit, old>>
queueVars == <<pending, task, held>>
bounds == <<searches, byHand, faults>>
vars == <<rows, queueVars, txVars, visited, bounds, forgotten, contested>>

TypeOK ==
  /\ rows \in Seq(Row)
  /\ pending \in Seq(Nat) /\ Len(pending) = Len(rows)
  /\ at \in [Processes -> {"off", "ready", "read", "written"}]
  /\ item \in [Processes -> Row \cup {NoRow}]
  /\ hit \in [Processes -> 0..Len(rows)]
  /\ old \in [Processes -> Row \cup {NoRow}]
  /\ visited \in [Searchers -> SUBSET Found]
  /\ task \in [Enrichers -> 0..Len(rows)]
  /\ held \in [Enrichers -> BOOLEAN]
  /\ searches \in 0..MaxSearches /\ byHand \in 0..MaxByHand /\ faults \in 0..MaxFaults
  /\ forgotten \subseteq 1..Len(rows)
  /\ contested \subseteq Urls

Init ==
  /\ rows = <<>> /\ pending = <<>>
  /\ at = [p \in Processes |-> "off"]
  /\ item = [p \in Processes |-> NoRow]
  /\ hit = [p \in Processes |-> 0]
  /\ old = [p \in Processes |-> NoRow]
  /\ visited = [s \in Searchers |-> {}]
  /\ task = [e \in Enrichers |-> 0]
  /\ held = [e \in Enrichers |-> FALSE]
  /\ searches = 0 /\ byHand = 0 /\ faults = 0
  /\ forgotten = {} /\ contested = {}

------------------------------------------------------------------------------
(* The transaction of an upsert. *)

GoTo(p, place) == at' = [at EXCEPT ![p] = place]

\* Mutant of Matches: the lookup filters on the status as well.
DiscoveredMatches(u) == {r \in 1..Len(rows) : rows[r].url = u /\ rows[r].status = "discovered"}

\* The ids of the rows with url_normalized = u.
Matches(u) == {r \in 1..Len(rows) : rows[r].url = u}

\* Nothing of the transaction is left in the process.
Forget(p, place) ==
  /\ GoTo(p, place)
  /\ item' = [item EXCEPT ![p] = NoRow]
  /\ hit' = [hit EXCEPT ![p] = 0]
  /\ old' = [old EXCEPT ![p] = NoRow]

\* The SELECT of process p for the row its item asks for, and the id it finds.
Reads(p, row, r) ==
  /\ at[p] = "ready"
  /\ GoTo(p, "read")
  /\ item' = [item EXCEPT ![p] = row]
  /\ hit' = [hit EXCEPT ![p] = r]
  /\ old' = [old EXCEPT ![p] = IF r = 0 THEN NoRow ELSE rows[r]]
  /\ contested' = IF r = 0 /\ \E q \in Processes \ {p} :
                       at[q] = "read" /\ hit[q] = 0 /\ item[q].url = row.url
                  THEN contested \cup {row.url} ELSE contested

\* one_or_none(): no row gives 0, and a second match raises.
ReadsByUrl(p, row) ==
  \/ Matches(row.url) = {} /\ Reads(p, row, 0)
  \/ \E r \in Matches(row.url) : Matches(row.url) = {r} /\ Reads(p, row, r)

\* Mutant of Updated: a column that keeps its value is written as null.
UpdatedNulls(now, was, new) ==
  [url     |-> IF new.url # was.url THEN new.url ELSE NoRow,
   status  |-> new.status,
   payload |-> new.payload]

\* Mutant of Updated: the metadata of an enriched record are kept, its status is not.
UpdatedKeepsMetadata(now, was, new) ==
  [url     |-> new.url,
   status  |-> new.status,
   payload |-> IF was.status = "enriched" THEN now.payload ELSE new.payload]

\* What the UPDATE makes of the row, by now perhaps another than the one read.
Updated(now, was, new) ==
  [url     |-> IF new.url # was.url THEN new.url ELSE now.url,
   status  |-> IF new.status # was.status THEN new.status ELSE now.status,
   payload |-> IF new.payload # was.payload THEN new.payload ELSE now.payload]

\* The INSERT or UPDATE and the commit; the record's id is in the item.
Writes(p) ==
  /\ at[p] = "read"
  /\ GoTo(p, "written")
  /\ IF hit[p] = 0
     THEN /\ rows' = Append(rows, item[p])
          /\ pending' = Append(pending, 0)
          /\ hit' = [hit EXCEPT ![p] = Len(rows) + 1]
     ELSE /\ rows' = [rows EXCEPT ![hit[p]] = Updated(rows[hit[p]], old[p], item[p])]
          /\ UNCHANGED <<pending, hit>>
  /\ contested' = IF hit[p] # 0 /\ item[p].url # old[p].url
                  THEN contested \cup {item[p].url} ELSE contested
  /\ item' = [item EXCEPT ![p] = NoRow]
  /\ old' = [old EXCEPT ![p] = NoRow]

------------------------------------------------------------------------------
(* A run of the search spider. *)

StartSearch(s) ==
  /\ at[s] = "off" /\ searches < MaxSearches
  /\ GoTo(s, "ready")
  /\ searches' = searches + 1
  /\ UNCHANGED <<rows, queueVars, visited, item, hit, old, byHand, faults, forgotten, contested>>

\* parse_search yields a URL once per run; upsert_discovered_record looks it up.
LookUpDiscovered(s) ==
  /\ \E u \in Found \ visited[s], place \in Places :
       /\ visited' = [visited EXCEPT ![s] = @ \cup {u}]
       /\ ReadsByUrl(s, [url |-> u, status |-> "discovered", payload |-> place])
  /\ UNCHANGED <<rows, queueVars, bounds, forgotten>>

\* The lookup or the write raises (MultipleResultsFound, a database error): Scrapy
\* drops the item.
DropDiscovered(s) ==
  /\ \/ /\ at[s] = "ready"
        /\ \E u \in Found \ visited[s] : visited' = [visited EXCEPT ![s] = @ \cup {u}]
     \/ at[s] = "read" /\ UNCHANGED visited
  /\ Forget(s, "ready")
  /\ UNCHANGED <<rows, queueVars, bounds, forgotten, contested>>

WriteDiscovered(s) ==
  /\ Writes(s)
  /\ UNCHANGED <<visited, task, held, bounds, forgotten>>

\* EventsPipeline publishes the enrich request.
Announce(s) ==
  /\ at[s] = "written"
  /\ Forget(s, "ready")
  /\ pending' = [pending EXCEPT ![hit[s]] = @ + 1]
  /\ forgotten' = forgotten \ {hit[s]}
  /\ UNCHANGED <<rows, visited, task, held, bounds, contested>>

\* Mutant of AnnounceFails: nobody notices.
AnnounceFailsUnnoticed(s) ==
  /\ at[s] = "written"
  /\ Forget(s, "ready")
  /\ UNCHANGED <<rows, queueVars, visited, bounds, forgotten, contested>>

\* add_event raises, the publication fails, or its task is dropped with the reactor.
AnnounceFails(s) ==
  /\ at[s] = "written"
  /\ Forget(s, "ready")
  /\ forgotten' = forgotten \cup {hit[s]}
  /\ UNCHANGED <<rows, queueVars, visited, bounds, contested>>

EndSearch(s) ==
  /\ at[s] = "ready"
  /\ Forget(s, "off")
  /\ visited' = [visited EXCEPT ![s] = {}]
  /\ UNCHANGED <<rows, queueVars, bounds, forgotten, contested>>

\* The process dies; a transaction that is not committed is rolled back.
KillSearch(s) ==
  /\ at[s] # "off" /\ faults < MaxFaults
  /\ Forget(s, "off")
  /\ visited' = [visited EXCEPT ![s] = {}]
  /\ faults' = faults + 1
  /\ forgotten' = IF at[s] = "written" THEN forgotten \cup {hit[s]} ELSE forgotten
  /\ UNCHANGED <<rows, queueVars, searches, byHand, contested>>

------------------------------------------------------------------------------
(* A run of the enrich spider: one request, one page, at most one item. *)

\* A worker gets an enrich request and starts the spider for its record.
TakeRequest(e, r) ==
  /\ at[e] = "off" /\ pending[r] > 0
  /\ GoTo(e, "ready")
  /\ pending' = [pending EXCEPT ![r] = @ - 1]
  /\ task' = [task EXCEPT ![e] = r]
  /\ held' = [held EXCEPT ![e] = TRUE]
  /\ UNCHANGED <<rows, item, hit, old, visited, bounds, forgotten, contested>>

\* One-shot mode: FACE_ENRICH_JOB_JSON is set by hand, without record_id.
StartByHand(e) ==
  /\ at[e] = "off" /\ byHand < MaxByHand
  /\ GoTo(e, "ready")
  /\ byHand' = byHand + 1
  /\ UNCHANGED <<rows, queueVars, item, hit, old, visited, searches, faults, forgotten, contested>>

\* parse_facebook yields the item under the page's canonical URL, and
\* upsert_enriched_record looks its record up: by id, which always finds it because
\* rows are never deleted, or else by URL.
LookUpEnriched(e) ==
  /\ \E v \in Urls, m \in Metadata :
       LET row == [url |-> v, status |-> "enriched", payload |-> m]
       IN IF task[e] # 0 THEN Reads(e, row, task[e]) ELSE ReadsByUrl(e, row)
  /\ UNCHANGED <<rows, queueVars, visited, bounds, forgotten>>

WriteEnriched(e) ==
  /\ Writes(e)
  /\ UNCHANGED <<visited, task, held, bounds, forgotten>>

\* The process ends with code 0, and the worker acks the request if it still can.
EndEnrich(e) ==
  /\ Forget(e, "off")
  /\ task' = [task EXCEPT ![e] = 0]
  /\ held' = [held EXCEPT ![e] = FALSE]
  /\ UNCHANGED <<rows, pending, visited, bounds, contested>>

\* Whether add_event of "enrich.completed" succeeds or raises makes no difference.
EnrichEnds(e) == at[e] = "written" /\ EndEnrich(e) /\ UNCHANGED forgotten

\* The page does not load, the callback or the upsert raises: only Scrapy logs it.
EnrichGivesUp(e) ==
  /\ at[e] \in {"ready", "read"}
  /\ EndEnrich(e)
  /\ forgotten' = IF held[e] THEN forgotten \cup {task[e]} ELSE forgotten

\* Mutant of EnrichFails: the worker rejects without requeue.
EnrichFailsForGood(e) ==
  /\ at[e] # "off" /\ faults < MaxFaults
  /\ Forget(e, "off")
  /\ faults' = faults + 1
  /\ task' = [task EXCEPT ![e] = 0]
  /\ held' = [held EXCEPT ![e] = FALSE]
  /\ UNCHANGED <<rows, pending, visited, searches, byHand, forgotten, contested>>

\* The process or its worker dies: the broker requeues what it still had.
EnrichFails(e) ==
  /\ at[e] # "off" /\ faults < MaxFaults
  /\ Forget(e, "off")
  /\ faults' = faults + 1
  /\ task' = [task EXCEPT ![e] = 0]
  /\ held' = [held EXCEPT ![e] = FALSE]
  /\ pending' = IF held[e] THEN [pending EXCEPT ![task[e]] = @ + 1] ELSE pending
  /\ UNCHANGED <<rows, visited, searches, byHand, forgotten, contested>>

\* The connection of the worker is lost while its child runs on.
Redeliver(e) ==
  /\ held[e] /\ faults < MaxFaults
  /\ held' = [held EXCEPT ![e] = FALSE]
  /\ pending' = [pending EXCEPT ![task[e]] = @ + 1]
  /\ faults' = faults + 1
  /\ UNCHANGED <<rows, task, txVars, visited, searches, byHand, forgotten, contested>>

------------------------------------------------------------------------------
Search(s) ==
  \/ LookUpDiscovered(s) \/ DropDiscovered(s) \/ WriteDiscovered(s)
  \/ Announce(s) \/ AnnounceFails(s) \/ EndSearch(s)

Takes(e) == \E r \in 1..Len(rows) : TakeRequest(e, r)
Enrich(e) == LookUpEnriched(e) \/ WriteEnriched(e) \/ EnrichEnds(e) \/ EnrichGivesUp(e)

Next ==
  \/ \E s \in Searchers : StartSearch(s) \/ Search(s) \/ KillSearch(s)
  \/ \E e \in Enrichers :
       Takes(e) \/ StartByHand(e) \/ Enrich(e) \/ EnrichFails(e) \/ Redeliver(e)

Spec == Init /\ [][Next]_vars

\* Processes go on, and idle workers fetch; nobody has to start a search.
FairSpec ==
  /\ Spec
  /\ \A s \in Searchers : WF_vars(Search(s))
  /\ \A e \in Enrichers : WF_vars(Takes(e)) /\ WF_vars(Enrich(e))

------------------------------------------------------------------------------
(* Properties. *)

\* Two rows of the query share a URL only if two transactions at once found none, or
\* an enrichment gave the URL to a row: no sequence of complete upserts, retries,
\* redeliveries and crashes duplicates a record.
DuplicatesNeedOverlap ==
  \A r, t \in 1..Len(rows) : r # t /\ rows[r].url = rows[t].url => rows[r].url \in contested

\* A run that read the record when it was already enriched does not count: its UPDATE
\* leaves the status alone.
OnItsWay(r) ==
  \/ pending[r] > 0
  \/ \E e \in Enrichers : /\ held[e] /\ task[e] = r
                          /\ \/ at[e] = "ready"
                             \/ at[e] = "read" /\ old[e].status = "discovered"
  \/ \E s \in Searchers : at[s] = "written" /\ hit[s] = r

\* A record that reads "discovered" is on its way to the enrich spider, or its last
\* request was lost or gave no item: no interleaving of a retry, a redelivery and an
\* enrichment leaves it behind.
DiscoveredIsPending ==
  \A r \in 1..Len(rows) : rows[r].status = "discovered" => OnItsWay(r) \/ r \in forgotten

\* Status and payload of a row are of two different items.
Mixed(row) == (row.status = "enriched") # (row.payload \in Metadata)

\* Only a transaction whose row was changed after it had read it leaves a row that
\* reads "enriched" with the payload of a search, or "discovered" with metadata.
OnlyStaleWritesMix ==
  [][\A r \in 1..Len(rows) :
       ~Mixed(rows[r]) /\ Mixed(rows'[r]) =>
         \E p \in Processes : at[p] = "read" /\ hit[p] = r /\ old[p] # rows[r]]_vars

WithStatus(status) == {r \in 1..Len(rows) : rows[r].status = status}

\* A record (the first ones stand for all) does not stay "discovered" unless its request was lost or gave no item.
RecordSettles ==
  \A r \in 1..MaxSearches :
    (r \in WithStatus("discovered")) ~> (r \in WithStatus("enriched") \cup forgotten)

(* What the documentation says and the code does not do. *)

\* "Falhas temporarias sao reprocessadas sem duplicar registros" (docs/planejamento.md):
\* a URL has one record in its query.
NoDuplicateRecords ==
  \A r, t \in 1..Len(rows) : rows[r].url = rows[t].url => r = t
==============================================================================
