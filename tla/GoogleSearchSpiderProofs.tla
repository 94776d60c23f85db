------------------------ MODULE GoogleSearchSpiderProofs ------------------------
(***************************************************************************)
(* What holds of GoogleSearchSpider for any limits of pages, retries,      *)
(* solves and results.                                                     *)
(***************************************************************************)
EXTENDS GoogleSearchSpider, Integers, TLAPS

Limit == IF attempt = 1 THEN page ELSE MaxPages + page

\* While a request is in flight, the page it is for has not been counted yet, and
\* a solve is still open for it only if none was attempted.
InFlight ==
  /\ request # "none" => items <= (page - 1) * MaxResults
  /\ (request # "none" /\ ~solved) => attempted + 1 <= Limit
  /\ request = "form" => solved /\ retries > 0

IInv ==
  /\ TypeOK
  /\ InFlight
  /\ RetriesBounded
  /\ AttemptsWithinPages
  /\ ItemsWithinPages
  /\ EmptyMeansBothQueries

------------------------------------------------------------------------------
(* The products in the bound on the items. *)

\* The items of one more page fit under the next multiple.
LEMMA OneMorePage ==
  ASSUME NEW p \in Nat \ {0}, NEW r \in Nat, NEW i \in Nat, NEW k \in 0..r, i <= (p - 1) * r
  PROVE  i + k <= p * r
<1>1. (p - 1) * r + r = p * r
  BY SMT
<1>2. (p - 1) * r \in Int /\ p * r \in Int
  BY SMT
<1>3. QED
  BY <1>1, <1>2, SMT

------------------------------------------------------------------------------
(* What the chain of requests does to the invariant. *)

\* The initial states satisfy the invariant.
LEMMA InitIInv == Init => IInv
<1> SUFFICES ASSUME Init PROVE IInv
  OBVIOUS
<1> USE GoogleSearchSpiderAssumption
<1>1. 0 * MaxResults = 0 /\ 1 * MaxResults = MaxResults
  BY SMT
<1>2. TypeOK
  <2>1. solved \in BOOLEAN /\ blocked \in BOOLEAN /\ dropped \in BOOLEAN
    BY DEF Init
  <2>2. /\ request \in {"search", "form", "none"} /\ page \in 1..MaxPages /\ attempt \in {1, 2}
        /\ retries \in Nat /\ items \in Nat /\ attempted \in Nat /\ used \in 0..MaxSolves
    BY DEF Init
  <2>3. QED
    BY <2>1, <2>2 DEF TypeOK
<1>3. InFlight
  BY <1>1 DEF Init, InFlight, Limit
<1>4. RetriesBounded /\ AttemptsWithinPages /\ EmptyMeansBothQueries
  BY DEF Init, RetriesBounded, AttemptsWithinPages, EmptyMeansBothQueries
<1>5. ItemsWithinPages
  BY <1>1 DEF Init, ItemsWithinPages
<1>6. QED
  BY <1>2, <1>3, <1>4, <1>5 DEF IInv

\* A page adds at most MaxResults items, and the sum stays within the bound.
LEMMA PageFits ==
  ASSUME IInv, request # "none", NEW k \in 0..MaxResults
  PROVE  /\ items + k \in Nat
         /\ items + k <= page * MaxResults
<1> USE GoogleSearchSpiderAssumption
<1>1. items + k <= page * MaxResults
  BY OneMorePage DEF IInv, TypeOK, InFlight
<1>2. QED
  BY <1>1 DEF IInv, TypeOK

\* A retry or the end of the crawl preserves the invariant, whether the attempt
\* that precedes it is noted or there was none.
LEMMA RetryKeeps ==
  ASSUME IInv, request = "search", NEW s \in BOOLEAN, RetryOrBlock(s),
         items' = items, used' = used, dropped' = dropped,
         \/ attempted' = attempted /\ s = solved
         \/ attempted' = attempted + 1 /\ ~solved /\ s = TRUE
  PROVE  IInv'
<1> USE GoogleSearchSpiderAssumption DEF IInv, TypeOK, RetryOrBlock, Again, End, meta
<1>1. TypeOK'
  <2>1. /\ request' \in {"search", "form", "none"} /\ page' = page /\ attempt' = attempt
        /\ retries' \in Nat
    OBVIOUS
  <2>2. solved' \in BOOLEAN /\ blocked' \in BOOLEAN /\ dropped' \in BOOLEAN
    OBVIOUS
  <2>3. items' \in Nat /\ attempted' \in Nat /\ used' \in 0..MaxSolves
    OBVIOUS
  <2>4. QED
    BY <2>1, <2>2, <2>3
<1>2. InFlight'
  BY DEF InFlight, Limit
<1>3. RetriesBounded'
  BY DEF RetriesBounded
<1>4. AttemptsWithinPages'
  BY DEF AttemptsWithinPages, InFlight, Limit
<1>5. ItemsWithinPages'
  BY DEF ItemsWithinPages
<1>6. EmptyMeansBothQueries'
  BY DEF EmptyMeansBothQueries
<1>7. QED
  BY <1>1, <1>2, <1>3, <1>4, <1>5, <1>6

\* A page of results preserves it: the three outcomes of NextRequest.
LEMMA ResultsKeep ==
  ASSUME IInv, NEW n \in 0..MaxResults, NEW k \in 0..MaxResults, Results(n, k)
  PROVE  IInv'
<1> USE GoogleSearchSpiderAssumption
<1> DEFINE NextPage == page < MaxPages /\ n >= ResultsPerPage
<1>1. /\ request # "none" /\ items' = items + k
      /\ attempted' = attempted /\ used' = used /\ blocked' = blocked /\ dropped' = dropped
  BY DEF Results, solver
<1>2. items' \in Nat /\ items' <= page * MaxResults
  BY <1>1, PageFits
<1>3. ASSUME items' <= (page' - 1) * MaxResults, page' \in Nat \ {0} PROVE ItemsWithinPages'
  <2>1. PICK p \in Nat \ {0} : p = page'
    BY <1>3
  <2>2. PICK i \in Nat : i = items'
    BY <1>2
  <2>3. i + 0 <= p * MaxResults
    <3>1. i <= (p - 1) * MaxResults
      BY <1>3, <2>1, <2>2
    <3>2. MaxResults \in Nat /\ 0 \in 0..MaxResults
      OBVIOUS
    <3>3. QED
      BY <3>1, <3>2, OneMorePage
  <2>4. p * MaxResults \in Int /\ i + 0 = i
    BY SMT
  <2>5. i <= p * MaxResults
    BY <2>3, <2>4
  <2>6. items' <= page' * MaxResults
    BY <2>1, <2>2, <2>5
  <2>7. QED
    BY <2>6 DEF ItemsWithinPages
<1>4. CASE NextPage
  <2>1. Ask(page + 1, attempt)
    BY <1>4 DEF Results, NextRequest
  <2>2. TypeOK'
    <3>1. solved' \in BOOLEAN /\ blocked' \in BOOLEAN /\ dropped' \in BOOLEAN
      BY <1>1, <2>1 DEF Ask, IInv, TypeOK
    <3>2. /\ request' \in {"search", "form", "none"} /\ page' \in 1..MaxPages
          /\ attempt' \in {1, 2} /\ retries' \in Nat
      BY <1>4, <2>1 DEF Ask, IInv, TypeOK
    <3>3. QED
      BY <1>1, <1>2, <3>1, <3>2 DEF IInv, TypeOK
  <2>3. page' - 1 = page /\ request' = "search"
    BY <2>1 DEF Ask, IInv, TypeOK
  <2>4. InFlight' /\ AttemptsWithinPages' /\ ItemsWithinPages'
    <3>1. items' <= (page' - 1) * MaxResults
      BY <1>2, <2>3
    <3>2. attempted' + 1 <= Limit' /\ AttemptsWithinPages'
      BY <1>1, <2>1 DEF Ask, IInv, TypeOK, AttemptsWithinPages, Limit
    <3>3. ItemsWithinPages'
      BY <1>3, <2>2, <3>1 DEF TypeOK
    <3>4. QED
      BY <2>3, <3>1, <3>2, <3>3 DEF InFlight
  <2>5. RetriesBounded' /\ EmptyMeansBothQueries'
    BY <2>1 DEF Ask, RetriesBounded, EmptyMeansBothQueries
  <2>6. QED
    BY <2>2, <2>4, <2>5 DEF IInv
<1>5. CASE ~NextPage /\ attempt = 1 /\ items + k = 0
  <2>1. Ask(1, 2)
    BY <1>5 DEF Results, NextRequest, IInv, TypeOK
  <2>2. TypeOK'
    <3>1. solved' \in BOOLEAN /\ blocked' \in BOOLEAN /\ dropped' \in BOOLEAN
      BY <1>1, <2>1 DEF Ask, IInv, TypeOK
    <3>2. /\ request' \in {"search", "form", "none"} /\ page' \in 1..MaxPages
          /\ attempt' \in {1, 2} /\ retries' \in Nat
      BY <2>1 DEF Ask
    <3>3. QED
      BY <1>1, <1>2, <3>1, <3>2 DEF IInv, TypeOK
  <2>3. InFlight' /\ AttemptsWithinPages' /\ ItemsWithinPages'
    <3>1. items' <= (page' - 1) * MaxResults
      BY <1>1, <1>5, <2>1 DEF Ask, IInv, TypeOK
    <3>2. attempted' + 1 <= Limit' /\ AttemptsWithinPages'
      BY <1>1, <1>5, <2>1 DEF Ask, IInv, TypeOK, AttemptsWithinPages, Limit
    <3>3. ItemsWithinPages'
      BY <1>3, <2>2, <3>1 DEF TypeOK
    <3>4. QED
      BY <2>1, <3>1, <3>2, <3>3 DEF InFlight, Ask
  <2>4. RetriesBounded' /\ EmptyMeansBothQueries'
    BY <2>1 DEF Ask, RetriesBounded, EmptyMeansBothQueries
  <2>5. QED
    BY <2>2, <2>3, <2>4 DEF IInv
<1>6. CASE ~NextPage /\ ~(attempt = 1 /\ items + k = 0)
  <2>1. End
    BY <1>6 DEF Results, NextRequest
  <2>2. TypeOK' /\ InFlight' /\ RetriesBounded' /\ AttemptsWithinPages'
    BY <1>1, <1>2, <2>1 DEF End, meta, IInv, TypeOK, InFlight, RetriesBounded, AttemptsWithinPages
  <2>3. EmptyMeansBothQueries'
    BY <1>1, <1>6, <2>1 DEF End, meta, IInv, TypeOK, EmptyMeansBothQueries
  <2>4. ItemsWithinPages'
    BY <1>2, <2>1 DEF End, meta, ItemsWithinPages
  <2>5. QED
    BY <2>2, <2>3, <2>4 DEF IInv
<1>7. QED
  BY <1>4, <1>5, <1>6

\* Every step preserves the invariant.
LEMMA NextIInv == IInv /\ [Next]_vars => IInv'
<1> SUFFICES ASSUME IInv, [Next]_vars PROVE IInv'
  OBVIOUS
<1> USE GoogleSearchSpiderAssumption
<1>1. ASSUME NEW n \in 0..MaxResults, NEW k \in 0..MaxResults, Results(n, k) PROVE IInv'
  BY <1>1, ResultsKeep
<1>2. CASE InvalidJson
  BY <1>2 DEF InvalidJson, End, meta, solver, IInv, TypeOK, InFlight, RetriesBounded,
              AttemptsWithinPages, ItemsWithinPages, EmptyMeansBothQueries
<1>3. CASE HttpError
  BY <1>3, RetryKeeps DEF HttpError, solver, IInv, TypeOK
<1>4. CASE CaptchaNotSent
  BY <1>4, RetryKeeps DEF CaptchaNotSent, solver, IInv, TypeOK
<1>5. CASE CaptchaUnsolved
  BY <1>5, RetryKeeps DEF CaptchaUnsolved, CanSolve
<1>6. CASE CaptchaSolved
  <2> USE <1>6 DEF CaptchaSolved, CanSolve, Again, IInv, TypeOK
  <2>1. TypeOK'
    OBVIOUS
  <2>2. InFlight' /\ AttemptsWithinPages'
    BY DEF InFlight, AttemptsWithinPages, Limit
  <2>3. RetriesBounded'
    BY DEF RetriesBounded
  <2>4. ItemsWithinPages' /\ EmptyMeansBothQueries'
    BY DEF ItemsWithinPages, EmptyMeansBothQueries
  <2>5. QED
    BY <2>1, <2>2, <2>3, <2>4
<1>7. CASE ResumeSearch
  BY <1>7 DEF ResumeSearch, Again, meta, solver, IInv, TypeOK, InFlight, Limit, RetriesBounded,
              AttemptsWithinPages, ItemsWithinPages, EmptyMeansBothQueries
<1>8. ASSUME NEW k \in 0..MaxResults, CallbackRaises(k) PROVE IInv'
  <2>1. /\ items + k \in Nat
        /\ items + k <= page * MaxResults
    BY <1>8, PageFits DEF CallbackRaises
  <2>2. ItemsWithinPages'
    BY <1>8, <2>1 DEF CallbackRaises, End, meta, ItemsWithinPages
  <2>3. TypeOK'
    <3>1. blocked' \in BOOLEAN /\ dropped' \in BOOLEAN /\ solved' \in BOOLEAN
      BY <1>8 DEF CallbackRaises, End, meta, solver, IInv, TypeOK
    <3>2. /\ request' = "none" /\ page' = page /\ attempt' = attempt /\ retries' = retries
          /\ items' = items + k /\ attempted' = attempted /\ used' = used
      BY <1>8 DEF CallbackRaises, End, meta, solver
    <3>3. QED
      BY <2>1, <3>1, <3>2 DEF IInv, TypeOK
  <2>4. InFlight' /\ RetriesBounded' /\ EmptyMeansBothQueries'
    BY <1>8 DEF CallbackRaises, End, meta, IInv, TypeOK, InFlight, RetriesBounded,
                EmptyMeansBothQueries
  <2>5. AttemptsWithinPages'
    BY <1>8 DEF CallbackRaises, End, meta, solver, IInv, TypeOK, InFlight, Limit,
                AttemptsWithinPages
  <2>6. QED
    BY <2>2, <2>3, <2>4, <2>5 DEF IInv
<1>9. CASE DownloadFails
  BY <1>9 DEF DownloadFails, End, meta, solver, IInv, TypeOK, InFlight, RetriesBounded,
              AttemptsWithinPages, ItemsWithinPages, EmptyMeansBothQueries
<1>10. CASE ClientRaises
  BY <1>10 DEF ClientRaises, CanSolve, End, meta, IInv, TypeOK, InFlight, Limit, RetriesBounded,
               AttemptsWithinPages, ItemsWithinPages, EmptyMeansBothQueries
<1>11. CASE UNCHANGED vars
  BY <1>11 DEF vars, meta, solver, IInv, TypeOK, InFlight, Limit, RetriesBounded,
               AttemptsWithinPages, ItemsWithinPages, EmptyMeansBothQueries
<1>12. QED
  BY <1>1, <1>2, <1>3, <1>4, <1>5, <1>6, <1>7, <1>8, <1>9, <1>10, <1>11 DEF Next

LEMMA Invariance == Spec => []IInv
<1>1. QED
  BY InitIInv, NextIInv, PTL DEF Spec

------------------------------------------------------------------------------
(* The theorems. *)

\* The variables keep their types.
THEOREM TypeCorrect == Spec => []TypeOK
<1>1. IInv => TypeOK
  BY DEF IInv
<1>2. QED
  BY <1>1, Invariance, PTL

\* However the backend mixes errors, challenges and forms, a page is retried at
\* most MaxBlockRetries + 1 times.
THEOREM PageRetriesBounded == Spec => []RetriesBounded
<1>1. IInv => RetriesBounded
  BY DEF IInv
<1>2. QED
  BY <1>1, Invariance, PTL

\* No page sends a second challenge to 2Captcha.
THEOREM PageAttemptsBounded == Spec => []AttemptsWithinPages
<1>1. IInv => AttemptsWithinPages
  BY DEF IInv
<1>2. QED
  BY <1>1, Invariance, PTL

\* Whatever a page returns, the two queries together find no more than the pages of
\* the present one hold.
THEOREM ResultsBounded == Spec => []ItemsWithinPages
<1>1. IInv => ItemsWithinPages
  BY DEF IInv
<1>2. QED
  BY <1>1, Invariance, PTL

\* A search is given up as empty only after the relaxed query.
THEOREM FallbackBeforeEmpty == Spec => []EmptyMeansBothQueries
<1>1. IInv => EmptyMeansBothQueries
  BY DEF IInv
<1>2. QED
  BY <1>1, Invariance, PTL

\* No request of the crawl is taken for a duplicate.
THEOREM NoRequestFiltered == Spec => FreshRequestsAreNew
<1> DEFINE Fresh == (request' # "none" /\ retries' = 0) =>
                      \/ attempt' > attempt
                      \/ attempt' = attempt /\ page' > page
<1>1. ASSUME IInv, [Next]_vars PROVE [Fresh]_vars
  <2> USE <1>1 DEF IInv, TypeOK
  <2>1. ASSUME NEW n \in 0..MaxResults, NEW k \in 0..MaxResults, Results(n, k) PROVE Fresh
    BY <2>1 DEF Results, NextRequest, Ask, End
  <2>2. CASE InvalidJson \/ DownloadFails \/ ClientRaises
    BY <2>2 DEF InvalidJson, DownloadFails, ClientRaises, End
  <2>3. CASE HttpError \/ CaptchaNotSent \/ CaptchaUnsolved
    BY <2>3 DEF HttpError, CaptchaNotSent, CaptchaUnsolved, RetryOrBlock, Again, End
  <2>4. CASE CaptchaSolved
    BY <2>4 DEF CaptchaSolved, Again
  <2>5. CASE ResumeSearch
    BY <2>5 DEF ResumeSearch, Again, InFlight
  <2>6. ASSUME NEW k \in 0..MaxResults, CallbackRaises(k) PROVE Fresh
    BY <2>6 DEF CallbackRaises, End
  <2>7. QED
    BY <2>1, <2>2, <2>3, <2>4, <2>5, <2>6 DEF Next
<1>2. QED
  BY <1>1, Invariance, PTL DEF Spec, FreshRequestsAreNew
==============================================================================
