----------------------------- MODULE CaptchaSearch -----------------------------
(***************************************************************************)
(* The crawl of GoogleSearchSpider with what decides it spelled out: the   *)
(* response a callback gets, detect_captcha_challenge, and the calls of    *)
(* TwoCaptchaClient (src/face/captcha.py), which runs inside the callback  *)
(* and blocks it while it polls.                                           *)
(*                                                                         *)
(* A crawl of this module is a crawl of GoogleSearchSpider: ImplementsCrawl. *)
(***************************************************************************)
EXTENDS GoogleSearchSpider

CONSTANTS Timeout,      \* TWOCAPTCHA_REQUEST_TIMEOUT
          PollInterval, \* max(TWOCAPTCHA_POLL_INTERVAL, 1)
          MaxLatency    \* bound: the longest a poll's GET can take

ASSUME CaptchaSearchAssumption ==
  /\ Timeout \in Nat
  /\ PollInterval \in Nat \ {0}
  /\ MaxLatency \in Nat

VARIABLES
  client, \* TwoCaptchaClient: "idle", "creating" a task or "polling" its result
  form,   \* the challenge being solved has a form of its own to submit
  clock,  \* time since the deadline of the last task was set
  polls   \* GETs of the last task's result

clientVars == <<client, form, clock, polls>>
allVars == <<vars, clientVars>>

\* What the callbacks look at in a response: its status (200, one of 403 and 429,
\* another error), whether it is HTML, looks like JSON, has a word of
\* _CHALLENGE_KEYWORDS, a site key, a captcha form.
Responses ==
  [status : {"ok", "refused", "error"}, html : BOOLEAN, json : BOOLEAN,
   keyword : BOOLEAN, siteKey : BOOLEAN, form : BOOLEAN]

CrawlTypeOK ==
  /\ TypeOK
  /\ client \in {"idle", "creating", "polling"}
  /\ form \in BOOLEAN
  /\ clock \in Nat /\ polls \in Nat
  /\ client # "idle" => request = "search" /\ CanSolve

CrawlInit == Init /\ client = "idle" /\ form = FALSE /\ clock = 0 /\ polls = 0

------------------------------------------------------------------------------
(* The callback, up to the 2Captcha client. *)

\* is_suspected_challenge
Suspected(r) == r.status = "refused" \/ r.html \/ r.keyword \/ r.siteKey

IsError(r) == r.status # "ok"

\* parse_search is called, by the engine or by _resume_search_after_captcha.
Parses(r) ==
  /\ client = "idle"
  /\ \/ request = "search"
     \/ request = "form" /\ r.json /\ ~Suspected(r) /\ ~IsError(r)

\* The body of a response that is neither a challenge nor an error.
ReadBody(r) ==
  /\ Parses(r) /\ ~Suspected(r) /\ ~IsError(r)
  /\ \/ \E n, k \in 0..MaxResults : Results(n, k)
     \/ InvalidJson
  /\ UNCHANGED clientVars

ErrorResponse(r) ==
  /\ Parses(r) /\ ~Suspected(r) /\ IsError(r)
  /\ HttpError
  /\ UNCHANGED clientVars

ChallengeNotSent(r) ==
  /\ Parses(r) /\ Suspected(r)
  /\ ~CanSolve \/ ~r.siteKey
  /\ CaptchaNotSent
  /\ UNCHANGED clientVars

\* The challenge goes to 2Captcha; the callback waits for _create_task.
SendChallenge(r) ==
  /\ Parses(r) /\ Suspected(r) /\ request = "search"
  /\ CanSolve /\ r.siteKey
  /\ client' = "creating"
  /\ form' = r.form
  /\ UNCHANGED <<vars, clock, polls>>

FormAnswered(r) ==
  /\ client = "idle"
  /\ ~(r.json /\ ~Suspected(r) /\ ~IsError(r))
  /\ ResumeSearch
  /\ UNCHANGED clientVars

CallbackFails ==
  /\ client = "idle"
  /\ \/ \E k \in 0..MaxResults : CallbackRaises(k)
     \/ DownloadFails
  /\ UNCHANGED clientVars

------------------------------------------------------------------------------
(* The client. *)

\* in.php answers with a task: the deadline is set.
TaskCreated ==
  /\ client = "creating"
  /\ client' = "polling"
  /\ clock' = 0 /\ polls' = 0
  /\ UNCHANGED <<vars, form>>

\* in.php answers with an error, or the HTTP request fails.
TaskRefused ==
  /\ client = "creating"
  /\ client' = "idle"
  /\ CaptchaUnsolved
  /\ UNCHANGED <<form, clock, polls>>

\* An answer that is not JSON, not an object, or has a status that is no number:
\* what raises is not an httpx.HTTPError and leaves the callback.
AnswerUnusable ==
  /\ client # "idle"
  /\ client' = "idle"
  /\ ClientRaises
  /\ UNCHANGED <<form, clock, polls>>

\* Mutant of AsksForResult: the loop allows for one more interval.
AsksForResultLate ==
  /\ client = "polling" /\ clock <= Timeout + PollInterval
  /\ polls' = polls + 1
  /\ \E latency \in 0..MaxLatency : clock' = clock + PollInterval + latency

\* One turn of the loop: the deadline, the sleep, the GET.
AsksForResult ==
  /\ client = "polling" /\ clock < Timeout
  /\ polls' = polls + 1
  /\ \E latency \in 0..MaxLatency : clock' = clock + PollInterval + latency

NotReady == AsksForResult /\ UNCHANGED <<vars, client, form>>

\* Mutant of TokenReady: the token does not use up a solve of the run.
TokenReadyUncounted ==
  /\ AsksForResult
  /\ client' = "idle"
  /\ attempted' = attempted + 1
  /\ Again(IF form THEN "form" ELSE "search", retries + 1, TRUE)
  /\ UNCHANGED <<items, used, blocked, dropped, form>>

TokenReady ==
  /\ AsksForResult
  /\ client' = "idle"
  /\ CaptchaSolved
  /\ request' = IF form THEN "form" ELSE "search"
  /\ UNCHANGED form

\* A terminal error of 2Captcha, or an HTTP error.
PollFails ==
  /\ AsksForResult
  /\ client' = "idle"
  /\ CaptchaUnsolved
  /\ UNCHANGED form

TimedOut ==
  /\ client = "polling" /\ clock >= Timeout
  /\ client' = "idle"
  /\ CaptchaUnsolved
  /\ UNCHANGED <<form, clock, polls>>

Client == TaskCreated \/ TaskRefused \/ AnswerUnusable \/ NotReady \/ TokenReady \/ PollFails \/ TimedOut

Callback(r) ==
  ReadBody(r) \/ ErrorResponse(r) \/ ChallengeNotSent(r) \/ SendChallenge(r) \/ FormAnswered(r)

CrawlNext == (\E r \in Responses : Callback(r)) \/ CallbackFails \/ Client

CrawlSpec == CrawlInit /\ [][CrawlNext]_allVars

\* The engine answers every request, and the requests of the client have a timeout.
FairCrawlSpec == CrawlSpec /\ WF_allVars(CrawlNext)

------------------------------------------------------------------------------
(* Properties. *)

\* Whatever the responses are and however long 2Captcha takes, the crawl is one of
\* GoogleSearchSpider: a solve ends, and ends in one of its three ways.
ImplementsCrawl == FairSpec

\* The deadline is looked at before the sleep only, so a solve takes at most one
\* interval and one request longer than the timeout, and asks for the result at
\* most once per interval.
SolveInTime ==
  /\ clock < Timeout + PollInterval + MaxLatency \/ clock = 0
  /\ polls * PollInterval <= clock
==============================================================================
