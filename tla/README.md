# Verification of GUAIA-Facebook

TLA+ models of the program under `src/`, the TLC runs that check them and the
TLAPS proofs about them. `PROJECT.json` is the machine-readable index: runs,
mutants, findings, hazards, theorems, and for every definition the lines of the
source it stands for.

## The system

GUAIA-Facebook finds Facebook URLs for a subject and enriches them. An HTTP API
writes queries to PostgreSQL and requests to RabbitMQ; worker processes take the
requests off the queues and run one Scrapy spider process per request; the
spiders' item pipelines write to the same database and publish the requests of
the next stage.

| component | source | state | operations | talks to |
|---|---|---|---|---|
| Query API | `face/api.py`, `face/services.py` | rows of `face_jobs`, `face_job_events`, `face_exports`; the local state of a handler between awaits | create a batch, export, retry search/enrich/export, four reads | database, queues |
| Queues | `face/queues.py` | messages of the durable queues, unacked deliveries per connection | `publish_json`, `get_json_message`, ack, reject, close | API, workers, spiders |
| Worker runtime | `face/worker_runtime.py`, `face/spiders/runner.py` | the loop, the message in hand, `running` | fetch, run child, ack/reject, stop on a signal | queues, spider processes |
| Search spider | `face/spiders/google_search.py` | the request in flight and its meta, items, `search_blocked_details` | `start_requests`, `parse_search`, `_resume_search_after_captcha` | SearXNG, 2Captcha, pipelines |
| 2Captcha client | `face/captcha.py` | attempted and used solves | detect, create a task, poll | the spider |
| Item pipelines | `face/pipelines/persist.py`, `events.py` | counters of a run, pending publication tasks | `open_spider`, `process_item`, `close_spider` | database, queues |
| Record store | `face/repository.py`, `db/models.py` | `face_records`; the transactions that write it | `upsert_discovered_record`, `upsert_enriched_record` | pipelines, API |
| Enrich spider | `face/spiders/facebook_enrich.py` | one request and its redirects, one item | `start_requests`, `parse_facebook` and the parsers below it | browser, pipelines |
| URL rules | `face/url_utils.py`, `url_classifier.py` | none | `normalize_url`, `strip_tracking_params`, `classify_url` | spiders |
| Migrations | `db/migration_runtime.py` | a retry counter | `connect_with_retry` | database |
| Stubs | `face/export_worker.py`, `captcha_solver.py`, `facebook_parser.py`, `middlewares/proxy.py`, `middlewares/retry.py`, `pipelines/cache.py` | none | none that changes state | |
| Browser, login, config, logging | `face/browser.py`, `login.py`, `config.py`, `common/` | none of interest | I/O | |

What is hard, and what makes each component correct:

- **The tables are shared without any order.** The API writes `search_requested`
  after it has published the request; the spider writes `search_in_progress` and
  the outcome; a retry or a redelivery starts a second run that writes the same
  row. Correct means: whatever the status says, no accepted search is forgotten,
  and its outcome is on record.
- **At-least-once delivery with a blocking worker.** `subprocess.run` blocks the
  event loop, so heartbeats are missed while a spider runs and the broker may
  deliver the request to somebody else. Most exceptions of the loop end the
  process. Correct means: a request leaves the queue only after a child exited
  with code 0 for it, no message stays with a process that will not settle it,
  and two workers share a request only after a lost connection.
- **Exceptions in the middle of a handler.** A publication may raise with the
  message delivered, a repository call with its row written, and an except branch
  makes calls that may raise too; an API crash leaves rows as they are. Correct
  means: an accepted request is queued, exactly and by itself, a refused one is
  not, and a status never runs ahead of the queue.
- **Fire-and-forget publications.** The events pipeline creates tasks nobody
  awaits. Correct means: an enrich request is only ever about a stored record.
- **Retries that interact.** HTTP retries, captcha retries, forms, the next page
  and the fallback share one chain of requests. Correct means: the chain ends,
  within its limits, and is empty only after both queries were tried.
- **Polling against a deadline inside a callback.** The 2Captcha client blocks the
  callback while it polls, looks at its deadline before each sleep only, and
  reports every failure alike. Correct means: a solve ends soon after the
  deadline, is counted once, and leads back into the chain of requests.
- **Upserts without a constraint.** An upsert is a SELECT and then an INSERT or an
  UPDATE of the columns that differ from what was read; searches, retries,
  redeliveries and enrichments of a query run them side by side. Correct means: a
  sequence of complete upserts never duplicates a record, nothing is left behind
  as `discovered`, and a row is a mixture of two items only after a stale read.
- **One page under many URLs.** The search and the enrichment compute the key of a
  record independently, from what the search engine and what Facebook call the
  page. Correct means: the two agree, or the record is renamed.
- **Numbers and dates read off a page of text.** Brazilian separators, words for
  thousands and millions, the posts of others on the same page, dates without a
  year. Correct means: a post's own counts, and a day that is not to come.

## Modules

`MC*.tla` and the `.cfg` files are instances for TLC, `*Proofs.tla` hold theorems.

### `AtLeastOnce`
What a stage queue promises its publisher: a message is pending until a process
has handled it to the end, and only then done. Abstract; nothing else is said.

### `WorkerRuntime`
The loop of `run_worker_loop` for any number of workers on one queue, and the
broker as `RabbitMQConsumer` uses it. `pc[w]` is the place in the loop (`polling`
is the head, `child` is `subprocess.run`, `succeeded` and `failed` wait for the
settlement) or how the process ended; `job[w]` the message in hand; `mstate` and
`owner` are the broker's view. One action per step: `Get`, `ChildSucceeds`,
`ChildFails`, `Ack`, `Reject`, `Stop`, and the faults `GetRaises`, `SettleRaises`
(only `CalledProcessError` is caught, so both end the worker), `LoseConnection`,
`Signal`, `Kill`, and `Restart` by an operator. A settlement on a connection the
broker has dropped has no effect (`Settle`). A requeued message returns to its
place, so `Get` always takes the oldest ready one.

### `QueryService`
The three write operations of the API. A handler is a coroutine and runs alone
between two awaits, and the only awaits are calls of `publish_json`, so an action
is the stretch from one publication to the next: `Create`, `Export`,
`RetrySearch`, `RetryEnrich`, `RetryExport` are the beginnings with all their
refusals, `PublishStage`/`PublishEvent` (and their `...Raises`) the rest. A
publication that raises may have delivered its message. Each repository call has a
transaction of its own and may raise before or after its commit (`Raises`, and for
a call that opens a handler `BeginRaises`), so that the calls of a stretch up to
any of them are written (`Prefixes`). `Writes` has, for each kind of request, the
calls after the last publication and those of the except branch, in their order: a
handler ends in `Succeeds`, `SuccessRaises` or `Fails`, or goes on to the next query
of its batch in `CreateGoesOn`. Some calls are made outside the `try`, so that no
except branch runs when they raise: `add_event` of `create_queries`
(`services.py:68`), and what `create_export_request` writes once its messages are
out (`services.py:225` and after). `raised` has the handlers that a raising call
ended; actions only count it against the bound `MaxRaises`. `todo[h]` is what the
handler still has to publish: the queries of a batch, the records of an enrich
retry, or its export. `Crash` is the death of the API process, `SearchFinds` a
search worker that stores a record meanwhile.

### `SearchPipeline`
A run of the search spider as `PersistPipeline` and `EventsPipeline` see it, with
any number of runs of the same or of other queries at once: open, items, close,
each with the ways in which its repository calls may raise, the publication tasks
(`tasks`), and the exit of the process, which drops the tasks that have not run.
`run[w]` is the phase of the run; `found[w]` the URLs it counted.

### `GoogleSearchSpider`
The chain of requests of a crawl. `request` names the callback of the request in
flight, `page`, `attempt`, `retries`, `solved` are its meta. One action per kind
of response: `Results`, `InvalidJson`, `HttpError`, `CaptchaNotSent`,
`CaptchaUnsolved`, `CaptchaSolved`, `ResumeSearch` (the form's answer),
`CallbackRaises`, `ClientRaises`, `DownloadFails`. A page of results is a pair of
counts. `ResultsPerPage` is what the backend is asked for and what decides whether
there is a next page; the backend may send more, up to `MaxResults`, and the
callback reads them all.
`dropped` stands for Scrapy's own error counters and is never read by an action.
A disabled 2Captcha client is `MaxSolves = 0`. `search_max_pages` is taken to be
at least 1; with 0 the code would still ask for page 1.

### `CaptchaSearch`
Extends `GoogleSearchSpider` with what its actions leave open: the response a
callback gets (`Responses`: status, HTML, JSON, challenge words, a site key, a
form), `is_suspected_challenge`, and the client at work inside the callback
(`client`). `TaskCreated`, `TaskRefused` are `_create_task`; `NotReady`,
`TokenReady`, `PollFails`, `TimedOut` are the turns of `_poll_for_result`, each of
which looks at the deadline, sleeps and asks; `AnswerUnusable` is an answer that
raises something else than `httpx.HTTPError`. `clock` is the time since the
deadline was set. `GoogleSearchSpider` is its abstract specification
(`ImplementsCrawl`): while the client creates and polls, the crawl stutters.

### `RecordStore`
The rows of one query in `face_records`, and everybody who writes them. An upsert
is two actions, as READ COMMITTED allows: `Reads` (the SELECT; `old` is the row as
it was returned) and `Writes` (INSERT, or the UPDATE `Updated` that sets only what
differs from `old`). A search run looks URLs up, writes them and announces them
(`Announce`, or `AnnounceFails`); an enrich run takes a request, writes the record
under the URL of its canonical link, and ends; runs may be killed, requests
redelivered while their run goes on, and an enrichment may be started by hand
without a record id. `forgotten` and `contested` are history variables: what was
lost on the way, and which URLs were looked up by two transactions at once or
given to a row by an enrichment. No action reads them.

### `FacebookUrls`, `EngagementText`, `FacebookEnrichSpider`
The enrich spider. `FacebookUrls` has the rewriting and the classification of
URLs, on structured URLs: a host, segments, parameters, one of which may be packed
into another's value under several layers of percent-encoding. `Unquote` takes a
layer off, as `unquote` does at every normalization. `parse_qsl` returns a list in
which a parameter may occur twice: what `strip_tracking_params` keeps is a function
from the places in it to parameters (`Cleaned`), and `Sorted` is `sorted()`, by the
rank of each. `EngagementText` reads counts
and dates off a text, which is a sequence of mentions (groups of digits, a
separator, a unit, a noun): what the regular expressions find in it, what
`_parse_count_token` makes of it (a set of two where the floating-point product
may fall short), which text is looked at first, and `_parse_published_at`. A page is
a text in document order; its elements, and the scope of the post that was asked
for, are intervals of it. `Engagement` looks for one element with both counts among
what lies within the scope, the main region and the document (`Candidates`: none of
the three roots is a candidate itself), and only then at a root that names one.
`FacebookEnrichSpider` is the run: `Redirect` (to another way of writing the same
URL), `RequestFails`, `ParseFacebook`. Of the category `page`, which is also what
a URL is taken for that is nothing else, no counts and no date are read
(`CommentsRead`, `ViewsRead`, `DateRead`). Another way of writing a URL has the same
parameters as often as the first one, in any order, with any tracking parameters
and under any encoding (`SamePage`).

### `SearchFlow`
The composition, by `INSTANCE` of the three components: a publication of the API
is a `Publish` of the queue; `Deliver` is a `Get` and the `Start` of a spider run;
`ChildSucceeds` needs a run that has exited; `ChildFails` and `Kill` end the run
where it stands. API and spider share `job`; both write the event log, the API's
events are `notes` and those of the runs `events`. `sender` is the handler that
published a message, whose query is in the message body (`Topic`); `logged` is a
history variable, the messages a run of their own has logged an outcome for. No
action reads it: it is what tells the outcome of a retry from that of the search
it repeats.

## Runs

| run | instance | what it shows |
|---|---|---|
| `search_flow` | 1 query, a create and a search retry, 1 worker, no URL, 1 fault, a raising repository call in the API and any number in the spiders | `AcceptedSearchEnds`: of each accepted search a run of its own logs an outcome |
| `search_flow_overlap` | the same with 2 workers, 1 lost connection, 1 fault, no database failure | `TypeOK`, `InProgressIsLive`, `AckedIsLogged` for overlapping runs |
| `worker_runtime` | 2 workers, 3 messages of which the second is poisoned, 1 lost connection, 2 faults | the queue implements `AtLeastOnce`, no orphaned delivery, duplicates need a loss, healthy messages settle, a signalled worker stops |
| `query_service` | 2 queries, 3 handlers, 9 bodies, at most 3 records of which one has no category, 1 raising repository call | eight properties of the handlers, see the module |
| `search_pipeline` | 2 runs of 1 query on 2 runners, 2 URLs | `ForwardedIsStored`, `CompletedHasRecords`, `InProgressEnds` |
| `google_search` | `CaptchaSearch`: 3 pages, 2 results asked for and up to 3 sent, 1 retry, 2 solves; a timeout of 3 with an interval of 2 and requests of 0 or 1 | limits, fallback, duplicate filter, termination of the crawl; `SolveInTime`; the crawl with its client is a crawl of `GoogleSearchSpider` |
| `record_store` | 2 search runs that can find 1 URL, 2 enrich workers, a second URL for canonical links, 1 run by hand, 1 fault | `DuplicatesNeedOverlap`, `DiscoveredIsPending`, `OnlyStaleWritesMix`, `RecordSettles` |
| `enrich_spider` | URLs of a post, a video (with a parameter given twice) and a login page; 2 redirects; posts with and without other posts around them, their counts in one element or in several; dates on three days | `RecordKeepsItsUrl`, `OwnCounts`, `PublishedInThePast` |
| `stale_status`, `worker_poison`, `enqueue_failed_but_queued`, `duplicate_records` | small instances of the same modules | each finds a documented claim that the code does not keep (`findings` in `PROJECT.json`) |

Why the bounds are enough. Two workers and two requests are what it takes for a
run to race a redelivery of the same request and for a retry to race the first
search; of the three messages of `worker_runtime` the poisoned one has an older and
a younger neighbour, so that it is requeued ahead of one that waits. One lost connection and one fault (two for the worker runtime) at every possible point are each
combined with every interleaving; a second of the same kind repeats the first.
Three handlers let two of them race on a row a third has created, and two queries
let batches overlap; one raising call at every possible point is combined with
every publication that raises and with a crash. Handlers that have not begun are
alike, so `query_service` lets them begin in their order (`OrderedSpec`); so are
workers, whose permutations `search_flow_overlap` identifies. In `search_flow` and
`search_flow_overlap` there are no URLs, because the properties of the flow do not
look at records; overlapping runs with records are what `search_pipeline` is for. In
the crawl, one retry and two solves tell the limit, the limit plus one, and a second
solve on another page apart, three pages have a first, a middle and a last one, and
a page has fewer results than were asked for, as many, or more. A timeout of 3 is no multiple of the
interval, so the last poll of a solve begins before the deadline and ends after
it. In `record_store` one URL is enough for two searches to collide and for a
search to meet an enrichment; the second one is what an enrichment renames the
record to, and what another record may be called already.

Bounds that are in guards: `NumMessages`, `MaxLosses`, `MaxFaults` (kills,
signals, failing calls), `MaxRecords`, `MaxRuns`, `MaxSearches`, `MaxByHand`,
`MaxLatency`, `MaxHops`, `MaxResults`, `MaxRaises`, `DbMayFail`. They limit the environment, never the
program: no action of the code is guarded by them, except that a run is started
only while `MaxRuns` or `MaxSearches` allows it, which in `SearchFlow` is large
enough for every delivery there can be.

Fairness. A handler whose publication is pending goes on (`Continue`): a call of
`publish_json` returns or raises. A live worker goes on (`Step`), which includes
that its child ends: the crawl is finite (`CrawlEnds`) and the engine closes an
idle spider (`SpiderIdle`, `Inner`). Scrapy answers every request, with a failure
if need be, since `DOWNLOAD_TIMEOUT` applies, and the client's own requests have a
timeout too (`WF_allVars(CrawlNext)`). In `RecordStore` a process that runs goes
on and an idle enrich worker fetches (`Search`, `Takes`, `Enrich`); nobody has to
start a search. No fairness is assumed for publications by others, restarts, kills
or signals; where they matter the liveness property says so ("or every worker is
down"; a healthy request may also wait for ever behind a poisoned one that was
published before it, which every fetch may find first). That the child of an enrich worker ends is an assumption on the browser,
which the code gives no timeout of its own.

Deadlock checking is off in all runs: every instance has finitely many requests
and may come to rest.

Every property of a passing run has a mutant of the code that violates it; the
mutants stand next to the definitions they change, marked "Mutant of".

## Proofs

For every value of the constants, under the assumptions that the modules name
(`WorkerRuntimeAssumption`, `QueryServiceAssumption`, `SearchPipelineAssumption`,
`GoogleSearchSpiderAssumption`, `CaptchaSearchAssumption`,
`RecordStoreAssumption`, `SearchFlowAssumption`, `FacebookEnrichSpiderAssumption`):

- `WorkerRuntimeProofs`: `TypeCorrect`, `NoOrphans`, `DuplicatesNeedLoss`,
  `QueueKeepsPromise`. The invariant is type correctness, `NoOrphanDelivery`, and
  what ties the three views of a message together: only published messages are in
  play, a worker has a message exactly when it is past the fetch, a worker that
  holds a message the broker does not count as its own has lost a connection, and
  a succeeded child's message is in `finished`. The last part is what the
  refinement needs: `Ack` maps to `Settle` only because the message was handled.
- `QueryServiceProofs`: `TypeCorrect`, `AcceptedQueued`, `RequestedPublished`,
  `RefusedSilent`, `CreatorUnique`, `PendingHandled`, `SettledStays`, for any
  bodies, any number of overlapping requests and of raising calls. The properties
  look at the ends of a handler; the invariant says what holds on the way. Until a
  handler is done, what it has sent and what it still has to send are together
  exactly what its request asks for (`Covers`, with `SentBy`, `Left` and `Asked`),
  and the log knows of every query it has left behind (`Told`), whence an accepted
  one has sent all of it and no more (`Accepted`). A row of `face_exports` belongs
  to one handler that is at work on it or that a call failed (`Holds`, `HasRow`),
  and no two handlers have inserted the same query or share a row (`Apart`). A step
  of one handler is shown to leave the others alone (`OthersKeep`), so that each
  action has to show its own handler only. All ends of a handler are one case: they
  write some calls of a success and some of a failure (`Outcome`), and
  `OutcomeKeepsIInv` needs of those only what `WritesTell` and `WritesOf` read off
  the table `Writes`.
- `SearchPipelineProofs`: `TypeCorrect`, `ForwardedStored`, `CompletedStored`. The
  properties are not inductive: a run may end with URLs it counted earlier, so
  `RunInv` says that what a run counted or queued is stored for its query, and
  records only grow.
- `GoogleSearchSpiderProofs`: `TypeCorrect`, `PageRetriesBounded`,
  `PageAttemptsBounded`, `ResultsBounded`, `FallbackBeforeEmpty`,
  `NoRequestFiltered`. `InFlight` strengthens the bounds for the page a request is
  on its way to: its items are not counted yet, and its solve is still free only
  if `solved` is false; a form request carries a retry, which is why resuming it
  does not meet the duplicate filter. The products in `ItemsWithinPages` are two
  lemmas.
- `CaptchaSearchProofs`: `CrawlRefines` (every step of the crawl with its client is
  a step of `GoogleSearchSpider` or a stutter), `CrawlTypeCorrect`, and
  `SolvesInTime` for any timeout, interval and latency. With `CrawlRefines` the
  bounds of `GoogleSearchSpiderProofs` hold of the detailed crawl too.
- `RecordStoreProofs`: `TypeCorrect`, `DuplicatesOnlyByOverlap`,
  `DiscoveredPending`, `MixNeedsStaleRead`, for any number of runs, URLs,
  redeliveries and kills. `TypeInv` adds to the types what a transaction knows
  between its two statements (which row it read, and what it is about to write).
  For the duplicates `LookupInv` says what a transaction that found no row may rely
  on: no row has its URL and no other such transaction is at work on it, unless the
  URL is in `contested`. `DiscoveredIsPending` is inductive over `TypeInv`; the
  case that needs care is a write whose row an enrichment has changed since it was
  read, which is why `OnItsWay` looks at `old`.
- `SearchFlowProofs`: `TypeCorrect`, `InProgressLive`, `AckedLogged`, and of the parts
  in the composition `FlowIsQueue`, `FlowKeepsPromise`, `DeliveriesSound`,
  `FlowKeepsRecords`, and `AcceptedKept`, the safety half of `AcceptedSearchEnds`. The queue of
  the composition is an instance of `WorkerRuntimeProofs`, whose invariant is taken
  over by name (`QueueKeeps`). On top of it `LogInv` says that a run that is closed
  has logged the outcome of the message it was started for, and so has every message
  a child finished; `LiveInv` says
  that for a query in progress there is a message that is ready, or held by a
  worker whose run has not written its outcome yet (`Ahead`). A message alone would
  not do: it may be acked by the next step. Steps of the API are reduced to what
  they do to the tables (`Tells`), steps of a worker to what they leave alone
  (`Local`). `QueuedInv` follows a request into the queue:
  a handler has no message before it publishes, so that its publication is one more
  message, and it goes on to its 202 only when there is a message of which it is the
  `sender`; with `LogInv` that very message is either still to be handled or its own
  run has logged an outcome. `StoredInv` is
  `RunInv` of `SearchPipelineProofs` with the API writing the same rows.
- `FacebookEnrichSpiderProofs`: `NormalizeSettles`, `OneUrlPerPage`, and of the run
  `TypeCorrect`, `UrlKept`, `CountsOwn`, `DatesInThePast`, for any search results,
  links, pages and clocks. The first two are about the functions alone: a
  normalized URL is left as it is by another normalization, and all ways of writing
  a URL are normalized to one. Both rest on what `sorted()` promises, that its
  result depends on the parameters and how often each occurs and on nothing else:
  `Sorted` puts exactly one parameter at each place (`SortedArranges`), and a
  bijection between the places of two lists takes ranks to ranks (`SortedSame`).
  The invariant of the run is that the task came from a normalized result, that
  the URL of the request is a way of writing it, and that an item is what the
  spider's functions make of that URL, the link, the page and the day; the
  properties of the item then follow from lemmas about `ParseCountToken`
  (`CountOfToken`, `LegibleCount`), `FirstOf` (`FirstOfCounts`, `FirstOfFirst`),
  `Engagement` (`EngagementOwn`: an element of the post that names both counts comes
  before every other, and alone on its page a post is all there is to read) and
  `PublishedAtText` (`DateOfLabel`, `LatestYear`).

Only model-checked: all liveness properties (`AcceptedSearchEnds`,
`HealthyMessageSettles`, `SignalledWorkerStops`, `EveryRequestAnswered`,
`InProgressEnds`, `CrawlEnds`, `RecordSettles` and the fairness in
`ImplementsCrawl`), since fairness and ENABLED are out of the prover's reach. Every
safety property of a passing run has a theorem.

## What the models say of the code

Beyond the findings, these are behaviours of the code that the modules describe
as they are; the properties are stated around them, and say so.

- After a solved captcha a page is asked for without looking at the retry limit,
  so it may be asked for once more than `SEARCH_BLOCK_RETRY_LIMIT` allows
  (`RetriesBounded`).
- The status of a query is written by the API after the request is published, and
  by every run of the query: it is a hint, and the event log is the record.
- An UPDATE after a stale read leaves a row with the status of one item and the
  payload of another (`OnlyStaleWritesMix`).
- An enrichment gives a record the URL of its canonical link, even if another
  record of the query has it (`DuplicatesNeedOverlap`).
- A parameter whose value is escaped twice gives another key at each normalization
  (`TwiceEscaped` in `RecordKeepsItsUrl` and in `NormalizeSettles`).
- A parameter that is given twice counts twice: `?v=1` and `?v=1&v=1` are two keys
  for one page (`SamePage`).
- The month with a cedilla is not read; 29 February is put into a year that does
  not have it, or not found (`PublishedInThePast`). Millions with an accent or
  followed by a preposition are not found as a count, "mi" without a space before
  it is no unit, of a number with three groups the last two are read, and decimal
  millions may be one short (`EngagementText`, `Legible`).
- A post without one element that names both of its counts, be it that it does not
  name them or that they are in elements of their own, gets those of another post on
  the page that has such an element: the roots themselves are never looked at for
  both (`Engagement`; `Alone` in `OwnCounts`).
- The category `page`, which includes `permalink.php`, `story.php` and every URL that
  is nothing else, gets no counts and no date (`CommentsRead`, `DateRead`).
- A database error at `services.py:68` or `:225` answers 500 and leaves a query or an
  export `pending` for good, the export with its message in the queue; a row is left
  so as well when a call of an except branch raises (`raised` in `PendingHasHandler`).
- A page of the backend is read to its end however many results it has, so
  `SEARCH_MAX_PAGES * SEARXNG_RESULTS_PER_PAGE`, which the repository's `README.md`
  calls the total limit, is one only as far as the backend keeps to what it is asked
  for (`ItemsWithinPages` counts `MaxResults` for a page).
- A poisoned request goes back to its place at the head and is fetched again before
  any younger one: with one worker those are never reached, with more of them
  nothing promises that they are (`HealthyMessageSettles`).
- A spider whose `open_spider` fails may leave `search_in_progress` behind
  (`InProgressEnds` excuses it), and a URL that two transactions looked up at once,
  or that an enrichment gave to a row, may end up in two (`contested`).

## Not modelled

- `connect_with_retry` and the migrations: a sequential loop of twenty lines
  without any interleaving, whose outcomes `tests/test_migration_runtime.py`
  reaches one by one.
- Of the enrich spider: names, verification, reactions, followers, bio and links,
  which are single lookups in the page, and the browser itself. Of the URL rules:
  `build_searxng_search_url` and `extract_facebook_urls_from_text` (formatting),
  Google's redirects and Facebook's external links.
- Of the 2Captcha client: the expressions that find site keys and forms, which are
  abstracted to what they find.
- The export worker, the middlewares and the cache pipeline (stubs), browser
  sessions, cookies, login, logging and configuration (I/O).
- The content of `face.job.events` and `face.url_discovered`: nothing in the
  repository consumes them. Payloads, headers, markers and log lines are
  abstracted to what the properties tell apart.
- A spider that hangs. The worker gives its child no timeout, so the message would
  be held forever; the fairness assumption excludes it.
- A worker killed outside its container, whose crawl would outlive it:
  `docker-compose.yml` runs the worker as the container's first process.

## What is left

The enrich stage has no counterpart of `SearchFlow`: a composition of
`RecordStore` with `WorkerRuntime` for the enrich queue would replace the copy of
the queue that `RecordStore` keeps. The single lookups of the enrich spider could
be added to `EngagementText` should they grow rules of their own.
