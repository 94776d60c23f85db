-------------------------- MODULE CaptchaSearchProofs --------------------------
(***************************************************************************)
(* For any timeout, polling interval and latency: a crawl with its 2Captcha *)
(* client is one of GoogleSearchSpider, so what is proved of that one holds *)
(* of it, and a solve takes a bounded time.                                *)
(***************************************************************************)
EXTENDS CaptchaSearch, GoogleSearchSpiderProofs

\* While the client works, the callback that called it holds the search request and
\* a solve is still to be had.
ClientInv ==
  /\ client \in {"idle", "creating", "polling"}
  /\ form \in BOOLEAN
  /\ clock \in Nat /\ polls \in Nat
  /\ client # "idle" => request = "search" /\ CanSolve

------------------------------------------------------------------------------
(* The refinement. *)

\* The callback, a failure of it, and what the client returns to it are steps of the
\* crawl; what happens between a call and its return does not show.
LEMMA StepRefines == [CrawlNext]_allVars => [Next]_vars
<1> SUFFICES ASSUME [CrawlNext]_allVars PROVE [Next]_vars
  OBVIOUS
<1>1. ASSUME NEW r \in Responses, Callback(r) PROVE [Next]_vars
  <2>1. CASE ReadBody(r)
    BY <2>1 DEF ReadBody, Next
  <2>2. CASE ErrorResponse(r) \/ ChallengeNotSent(r) \/ FormAnswered(r)
    BY <2>2 DEF ErrorResponse, ChallengeNotSent, FormAnswered, Next
  <2>3. CASE SendChallenge(r)
    BY <2>3 DEF SendChallenge
  <2>4. QED
    BY <1>1, <2>1, <2>2, <2>3 DEF Callback
<1>2. CASE CallbackFails
  BY <1>2 DEF CallbackFails, Next
<1>3. CASE Client
  BY <1>3 DEF Client, TaskCreated, TaskRefused, AnswerUnusable, NotReady, TokenReady, PollFails,
              TimedOut, Next
<1>4. CASE UNCHANGED allVars
  BY <1>4 DEF allVars
<1>5. QED
  BY <1>1, <1>2, <1>3, <1>4 DEF CrawlNext

\* The safety part of ImplementsCrawl: every crawl with a client is a crawl.
THEOREM CrawlRefines == CrawlSpec => Spec
<1>1. CrawlInit => Init
  BY DEF CrawlInit
<1>2. QED
  BY <1>1, StepRefines, PTL DEF CrawlSpec, Spec

------------------------------------------------------------------------------
(* The client. *)

\* Every step keeps what the client relies on.
LEMMA NextClientInv == TypeOK /\ ClientInv /\ [CrawlNext]_allVars => ClientInv'
<1> SUFFICES ASSUME TypeOK, ClientInv, [CrawlNext]_allVars PROVE ClientInv'
  OBVIOUS
<1> USE CaptchaSearchAssumption DEF ClientInv
<1>1. ASSUME NEW r \in Responses, Callback(r) PROVE ClientInv'
  <2>1. CASE ReadBody(r) \/ ErrorResponse(r) \/ ChallengeNotSent(r) \/ FormAnswered(r)
    BY <2>1 DEF ReadBody, Parses, ErrorResponse, ChallengeNotSent, FormAnswered, clientVars
  <2>2. CASE SendChallenge(r)
    BY <2>2 DEF SendChallenge, Responses, CanSolve, vars, meta, solver
  <2>3. QED
    BY <1>1, <2>1, <2>2 DEF Callback
<1>2. CASE CallbackFails
  BY <1>2 DEF CallbackFails, clientVars
<1>3. CASE TaskCreated
  BY <1>3 DEF TaskCreated, CanSolve, vars, meta, solver
<1>4. CASE TaskRefused \/ AnswerUnusable \/ TimedOut
  BY <1>4 DEF TaskRefused, AnswerUnusable, TimedOut
<1>5. CASE NotReady
  BY <1>5 DEF NotReady, AsksForResult, CanSolve, vars, meta, solver
<1>6. CASE TokenReady \/ PollFails
  BY <1>6 DEF TokenReady, PollFails, AsksForResult
<1>7. CASE UNCHANGED allVars
  BY <1>7 DEF allVars, clientVars, CanSolve, vars, meta, solver
<1>8. QED
  BY <1>1, <1>2, <1>3, <1>4, <1>5, <1>6, <1>7 DEF CrawlNext, Client

\* What the client relies on holds throughout the crawl.
LEMMA ClientInvariance == CrawlSpec => []ClientInv
<1>1. CrawlInit => ClientInv
  <2>1. CrawlInit => form \in BOOLEAN
    BY Zenon DEF CrawlInit
  <2>2. CrawlInit => client = "idle" /\ clock \in Nat /\ polls \in Nat
    BY DEF CrawlInit
  <2>3. QED
    BY <2>1, <2>2 DEF ClientInv
<1>2. QED
  BY <1>1, NextClientInv, CrawlRefines, TypeCorrect, PTL DEF CrawlSpec

\* The variables keep their types, and the client is called only for a search
\* request that may still be solved.
THEOREM CrawlTypeCorrect == CrawlSpec => []CrawlTypeOK
<1>1. TypeOK /\ ClientInv => CrawlTypeOK
  BY DEF CrawlTypeOK, ClientInv
<1>2. QED
  BY <1>1, ClientInvariance, CrawlRefines, TypeCorrect, PTL

------------------------------------------------------------------------------
(* The deadline. *)

\* One more interval in the product.
LEMMA OneMorePoll ==
  ASSUME NEW n \in Nat, NEW i \in Nat
  PROVE  (n + 1) * i = n * i + i /\ n * i \in Nat
BY SMT

\* A poll keeps the bound: it starts before the deadline, and takes one interval and
\* one request.
LEMMA PollKeeps ==
  ASSUME ClientInv, SolveInTime, AsksForResult
  PROVE  SolveInTime'
<1> USE CaptchaSearchAssumption DEF ClientInv
<1>1. PICK latency \in 0..MaxLatency : clock' = clock + PollInterval + latency
  BY DEF AsksForResult
<1>2. /\ clock < Timeout /\ polls' = polls + 1
      /\ polls * PollInterval <= clock
  BY DEF AsksForResult, SolveInTime
<1>3. clock' < Timeout + PollInterval + MaxLatency
  BY <1>1, <1>2
<1>4. polls' * PollInterval = polls * PollInterval + PollInterval /\ polls * PollInterval \in Nat
  BY <1>2, OneMorePoll
<1>5. polls' * PollInterval <= clock'
  BY <1>1, <1>2, <1>4
<1>6. QED
  BY <1>3, <1>5 DEF SolveInTime

\* However slowly 2Captcha answers, a solve is over within one interval and one
\* request after its timeout, and polls at most once per interval.
THEOREM SolvesInTime == CrawlSpec => []SolveInTime
<1> USE CaptchaSearchAssumption
<1>1. CrawlInit => SolveInTime
  <2>1. 0 * PollInterval = 0
    BY OneMorePoll
  <2>2. QED
    BY <2>1 DEF CrawlInit, SolveInTime
<1>2. ASSUME ClientInv, SolveInTime, [CrawlNext]_allVars PROVE SolveInTime'
  <2>1. ASSUME AsksForResult PROVE SolveInTime'
    BY <1>2, <2>1, PollKeeps
  <2>2. ASSUME UNCHANGED <<clock, polls>> PROVE SolveInTime'
    BY <1>2, <2>2 DEF SolveInTime
  <2>3. CASE \E r \in Responses : Callback(r)
    BY <2>2, <2>3 DEF Callback, ReadBody, ErrorResponse, ChallengeNotSent, SendChallenge,
                      FormAnswered, clientVars
  <2>4. CASE CallbackFails \/ UNCHANGED allVars
    BY <2>2, <2>4 DEF CallbackFails, allVars, clientVars
  <2>5. CASE TaskCreated
    <3>1. 0 * PollInterval = 0
      BY OneMorePoll
    <3>2. QED
      BY <2>5, <3>1 DEF TaskCreated, SolveInTime
  <2>6. CASE TaskRefused \/ AnswerUnusable \/ TimedOut
    BY <2>2, <2>6 DEF TaskRefused, AnswerUnusable, TimedOut
  <2>7. CASE NotReady \/ TokenReady \/ PollFails
    BY <2>1, <2>7 DEF NotReady, TokenReady, PollFails
  <2>8. QED
    BY <1>2, <2>3, <2>4, <2>5, <2>6, <2>7 DEF CrawlNext, Client
<1>3. QED
  BY <1>1, <1>2, ClientInvariance, PTL DEF CrawlSpec
==============================================================================
