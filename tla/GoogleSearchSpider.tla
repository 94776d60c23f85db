--------------------------- MODULE GoogleSearchSpider ---------------------------
(***************************************************************************)
(* The crawl of a search run (src/face/spiders/google_search.py): one      *)
(* request is in flight at a time, and the callback of its response asks   *)
(* for the next page, retries, submits a solved captcha, falls back to the *)
(* relaxed query, or ends the crawl.                                       *)
(*                                                                         *)
(* The backend and 2Captcha may answer anything.  Scrapy's own retries     *)
(* (RETRY_TIMES) are inside the download: what is left of them is a        *)
(* response or a failed download, for which the requests have no errback.  *)
(***************************************************************************)
EXTENDS Naturals

CONSTANTS MaxPages,         \* SEARCH_MAX_PAGES
          MaxBlockRetries,  \* SEARCH_BLOCK_RETRY_LIMIT
          MaxSolves,        \* TWOCAPTCHA_MAX_SOLVES_PER_RUN, 0 if 2Captcha is disabled
          ResultsPerPage,   \* SEARXNG_RESULTS_PER_PAGE
          MaxResults        \* bound: results of a page, which may be more than asked for

ASSUME GoogleSearchSpiderAssumption ==
  /\ MaxPages \in Nat \ {0}
  /\ MaxBlockRetries \in Nat
  /\ MaxSolves \in Nat
  /\ ResultsPerPage \in Nat \ {0}
  /\ MaxResults \in Nat

VARIABLES
  request,    \* the request in flight: its callback, or "none" once the crawl is over
  page,       \* meta: page_number, of the last request
  attempt,    \* meta: search_attempt
  retries,    \* meta: search_retry_count
  solved,     \* meta: twocaptcha_solve_attempted
  items,      \* items_found
  attempted,  \* TwoCaptchaClient.attempted_solves
  used,       \* TwoCaptchaClient.used_solves
  blocked,    \* search_blocked_details is set
  dropped     \* a download failed or a callback raised (Scrapy's own counters)

meta == <<page, attempt, retries, solved>>
solver == <<attempted, used>>
vars == <<request, meta, items, solver, blocked, dropped>>

TypeOK ==
  /\ request \in {"search", "form", "none"}
  /\ page \in 1..MaxPages
  /\ attempt \in {1, 2}
  /\ retries \in Nat
  /\ solved \in BOOLEAN
  /\ items \in Nat
  /\ attempted \in Nat
  /\ used \in 0..MaxSolves
  /\ blocked \in BOOLEAN
  /\ dropped \in BOOLEAN

\* start_requests has asked for the first page.
Init ==
  /\ request = "search" /\ page = 1 /\ attempt = 1 /\ retries = 0 /\ solved = FALSE
  /\ items = 0
  /\ attempted = 0 /\ used = 0
  /\ blocked = FALSE /\ dropped = FALSE

------------------------------------------------------------------------------
(* What a callback does with the chain of requests. *)

\* A request for another page, or for the first one of another attempt, starts
\* without the retries and the solve of the one before.
Ask(p, a) ==
  /\ request' = "search"
  /\ page' = p /\ attempt' = a /\ retries' = 0 /\ solved' = FALSE

\* The same page once more.
Again(callback, n, s) ==
  /\ request' = callback /\ retries' = n /\ solved' = s
  /\ UNCHANGED <<page, attempt>>

End == request' = "none" /\ UNCHANGED meta

\* _build_retry_request, and _mark_search_blocked when it returns nothing.
RetryOrBlock(s) ==
  \/ /\ retries < MaxBlockRetries
     /\ Again("search", retries + 1, s)
     /\ UNCHANGED blocked
  \/ /\ retries >= MaxBlockRetries
     /\ End
     /\ blocked' = TRUE

------------------------------------------------------------------------------
(* The responses.  parse_search sees those of its own requests, and those of a
   captcha form that _resume_search_after_captcha hands over: JSON, no error
   status, no challenge. *)

\* Mutant of NextRequest: one page too many.
NextRequestOffByOne(n, k) ==
  \/ /\ page <= MaxPages /\ n >= ResultsPerPage
     /\ Ask(page + 1, attempt)
  \/ /\ ~(page <= MaxPages /\ n >= ResultsPerPage)
     /\ End

\* Mutant of NextRequest: the fallback looks at the last page only.
FallbackOnEmptyPage(n, k) ==
  \/ /\ page < MaxPages /\ n >= ResultsPerPage
     /\ Ask(page + 1, attempt)
  \/ /\ ~(page < MaxPages /\ n >= ResultsPerPage)
     /\ attempt = 1 /\ k = 0
     /\ Ask(1, 2)
  \/ /\ ~(page < MaxPages /\ n >= ResultsPerPage)
     /\ ~(attempt = 1 /\ k = 0)
     /\ End

\* Mutant of NextRequest: the fallback is for a search without any result.
FallbackOnNoResult(n, k) ==
  \/ /\ page < MaxPages /\ n >= ResultsPerPage
     /\ Ask(page + 1, attempt)
  \/ /\ ~(page < MaxPages /\ n >= ResultsPerPage)
     /\ attempt = 1 /\ n = 0
     /\ Ask(1, 2)
  \/ /\ ~(page < MaxPages /\ n >= ResultsPerPage)
     /\ ~(attempt = 1 /\ n = 0)
     /\ End

\* Mutant of NextRequest: the fallback does not look at the attempt.
FallbackForever(n, k) ==
  \/ /\ page < MaxPages /\ n >= ResultsPerPage
     /\ Ask(page + 1, attempt)
  \/ /\ ~(page < MaxPages /\ n >= ResultsPerPage)
     /\ items + k = 0
     /\ Ask(1, 2)
  \/ /\ ~(page < MaxPages /\ n >= ResultsPerPage)
     /\ items + k # 0
     /\ End

\* After a page of n results with k new items: the next page, the relaxed query,
\* or the end.
NextRequest(n, k) ==
  \/ /\ page < MaxPages /\ n >= ResultsPerPage
     /\ Ask(page + 1, attempt)
  \/ /\ ~(page < MaxPages /\ n >= ResultsPerPage)
     /\ attempt = 1 /\ items + k = 0
     /\ Ask(1, 2)
  \/ /\ ~(page < MaxPages /\ n >= ResultsPerPage)
     /\ ~(attempt = 1 /\ items + k = 0)
     /\ End

\* A page of n results, k of them Facebook URLs the run has not seen.  All of them are
\* read, also when the backend returns more than ResultsPerPage.
Results(n, k) ==
  /\ request # "none"
  /\ k <= n
  /\ items' = items + k
  /\ NextRequest(n, k)
  /\ UNCHANGED <<solver, blocked, dropped>>

\* The body is not JSON: blocked at once, without a retry.
InvalidJson ==
  /\ request # "none"
  /\ End
  /\ blocked' = TRUE
  /\ UNCHANGED <<items, solver, dropped>>

\* An error status, and nothing that looks like a challenge.
HttpError ==
  /\ request = "search"
  /\ RetryOrBlock(solved)
  /\ UNCHANGED <<items, solver, dropped>>

CanSolve == ~solved /\ used < MaxSolves

\* A challenge that is not sent to 2Captcha: a solve was tried for this page, the
\* limit is reached, or the page has no site key.
CaptchaNotSent ==
  /\ request = "search"
  /\ RetryOrBlock(solved)
  /\ UNCHANGED <<items, solver, dropped>>

\* Mutant of CaptchaUnsolved: the attempt is not noted in the request's meta.
CaptchaUnsolvedForgotten ==
  /\ request = "search"
  /\ CanSolve
  /\ attempted' = attempted + 1
  /\ RetryOrBlock(solved)
  /\ UNCHANGED <<items, used, dropped>>

\* 2Captcha gives no token: an error, a timeout, an HTTP failure.
CaptchaUnsolved ==
  /\ request = "search"
  /\ CanSolve
  /\ attempted' = attempted + 1
  /\ RetryOrBlock(TRUE)
  /\ UNCHANGED <<items, used, dropped>>

\* Mutant of CaptchaSolved: the retry does not say that a solve was attempted.
CaptchaSolvedForgotten ==
  /\ request = "search"
  /\ CanSolve
  /\ attempted' = attempted + 1
  /\ used' = used + 1
  /\ \E callback \in {"search", "form"} : Again(callback, retries + 1, FALSE)
  /\ UNCHANGED <<items, blocked, dropped>>

\* 2Captcha gives a token: the challenge's form is submitted if it has one, or the
\* page is asked for with the token.  MaxBlockRetries is not consulted.
CaptchaSolved ==
  /\ request = "search"
  /\ CanSolve
  /\ attempted' = attempted + 1
  /\ used' = used + 1
  /\ \E callback \in {"search", "form"} : Again(callback, retries + 1, TRUE)
  /\ UNCHANGED <<items, blocked, dropped>>

\* Mutant of ResumeSearch: the request is built with the default retry_count.
ResumeFromZero ==
  /\ request = "form"
  /\ Again("search", 0, TRUE)
  /\ UNCHANGED <<items, solver, blocked, dropped>>

\* The form is answered with anything else: the page is asked for with the token
\* and the form's cookies.
ResumeSearch ==
  /\ request = "form"
  /\ Again("search", retries, TRUE)
  /\ UNCHANGED <<items, solver, blocked, dropped>>

\* A callback raises, with k items already yielded.  Scrapy logs it; no request
\* follows.
CallbackRaises(k) ==
  /\ request # "none"
  /\ items' = items + k
  /\ End
  /\ dropped' = TRUE
  /\ UNCHANGED <<solver, blocked>>

\* The 2Captcha client raises out of the callback: only httpx.HTTPError is caught.
ClientRaises ==
  /\ request = "search"
  /\ CanSolve
  /\ attempted' = attempted + 1
  /\ End
  /\ dropped' = TRUE
  /\ UNCHANGED <<items, used, blocked>>

\* The download fails for good, or its status is an error the spider does not handle.
DownloadFails ==
  /\ request # "none"
  /\ End
  /\ dropped' = TRUE
  /\ UNCHANGED <<items, solver, blocked>>

Next ==
  \/ \E n, k \in 0..MaxResults : Results(n, k)
  \/ InvalidJson \/ HttpError
  \/ CaptchaNotSent \/ CaptchaUnsolved \/ CaptchaSolved
  \/ ResumeSearch
  \/ \E k \in 0..MaxResults : CallbackRaises(k)
  \/ ClientRaises
  \/ DownloadFails

Spec == Init /\ [][Next]_vars

\* Scrapy answers every request: DOWNLOAD_TIMEOUT ends those the backend does not.
FairSpec == Spec /\ WF_vars(Next)

------------------------------------------------------------------------------
(* Properties. *)

\* A page is asked for at most once more than the limit allows: a solved captcha
\* is retried without looking at the limit, but no second one is.
RetriesBounded ==
  /\ retries <= MaxBlockRetries + 1
  /\ retries > MaxBlockRetries => solved

\* Every challenge sent to 2Captcha is for another page: attempts that fail are
\* not counted against MaxSolves, yet they do not pile up on a page.
AttemptsWithinPages ==
  attempted <= (IF attempt = 1 THEN page ELSE MaxPages + page)

\* The relaxed query does not add to what the first one found: a search may visit
\* twice MaxPages pages, yet its items never exceed what the pages of its present
\* attempt hold.  (Only the number of results on a page bounds them: a page is read to
\* its end, so README.md's total of SEARCH_MAX_PAGES * SEARXNG_RESULTS_PER_PAGE holds
\* just for a backend that returns no more than it is asked for.)
ItemsWithinPages == items <= page * MaxResults

\* A search that ends with nothing found has tried the relaxed query as well,
\* unless it was blocked or lost a page.
EmptyMeansBothQueries ==
  (request = "none" /\ items = 0 /\ ~blocked /\ ~dropped) => attempt = 2

\* A request that the duplicate filter looks at (dont_filter is retry_count > 0)
\* is one it has not seen: the crawl does not end because a request is filtered.
FreshRequestsAreNew ==
  [][(request' # "none" /\ retries' = 0) =>
       \/ attempt' > attempt
       \/ attempt' = attempt /\ page' > page]_vars

\* The crawl ends, whatever the backend and 2Captcha answer.
CrawlEnds == <>(request = "none")
==============================================================================
