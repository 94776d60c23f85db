------------------------- MODULE SearchPipelineProofs -------------------------
(***************************************************************************)
(* What holds of SearchPipeline for any number of runners, queries, URLs   *)
(* and runs.                                                               *)
(***************************************************************************)
EXTENDS SearchPipeline, TLAPS

\* A run has a query, and whatever it has counted or queued is stored for it.
RunInv ==
  \A w \in Runners : run[w] # "off" =>
    /\ query[w] \in Queries
    /\ tasks[w] \subseteq records[query[w]]
    /\ found[w] \subseteq records[query[w]]

IInv == TypeOK /\ RunInv /\ ForwardedIsStored /\ CompletedHasRecords

------------------------------------------------------------------------------
LEMMA InitIInv == Init => IInv
<1> SUFFICES ASSUME Init PROVE IInv
  OBVIOUS
<1> USE SearchPipelineAssumption DEF Init, JobStatus, Outcomes, Event, Open
<1>1. TypeOK
  <2>1. job \in [Queries -> JobStatus] /\ events \in [Queries -> SUBSET Event]
    OBVIOUS
  <2>2. runs \in 0..MaxRuns
    OBVIOUS
  <2>3. run \in [Runners -> {"off", "boot", "exited"} \cup Open]
    OBVIOUS
  <2>4. dbFailed \in BOOLEAN
    OBVIOUS
  <2>5. QED
    BY <2>1, <2>2, <2>3, <2>4 DEF TypeOK
<1>2. RunInv /\ ForwardedIsStored /\ CompletedHasRecords
  BY DEF RunInv, ForwardedIsStored, CompletedHasRecords
<1>3. QED
  BY <1>1, <1>2 DEF IInv

\* Every step preserves the invariant: records only grow, and a run counts or
\* queues nothing that is not stored.
LEMMA NextIInv == IInv /\ [Next]_vars => IInv'
<1> SUFFICES ASSUME IInv, [Next]_vars PROVE IInv'
  OBVIOUS
<1> USE SearchPipelineAssumption
    DEF IInv, TypeOK, RunInv, JobStatus, Outcomes, Event, Open, dbVars, runVars
<1>1. ASSUME NEW w \in Runners, NEW q \in Queries, Start(w, q) PROVE IInv'
  <2>1. TypeOK'
    BY <1>1 DEF Start, SetJob, AddEvent, GoTo, DbFails
  <2>2. RunInv'
    BY <1>1 DEF Start, SetJob, AddEvent, GoTo, DbFails
  <2>3. ForwardedIsStored'
    BY <1>1 DEF Start, SetJob, AddEvent, GoTo, DbFails, ForwardedIsStored
  <2>4. CompletedHasRecords'
    BY <1>1 DEF Start, SetJob, AddEvent, GoTo, DbFails, CompletedHasRecords
  <2>5. QED
    BY <2>1, <2>2, <2>3, <2>4
<1>2. ASSUME NEW w \in Runners, OpenSpider(w) PROVE IInv'
  <2>1. TypeOK'
    BY <1>2 DEF OpenSpider, SetJob, AddEvent, GoTo, DbFails
  <2>2. RunInv'
    BY <1>2 DEF OpenSpider, SetJob, AddEvent, GoTo, DbFails
  <2>3. ForwardedIsStored'
    BY <1>2 DEF OpenSpider, SetJob, AddEvent, GoTo, DbFails, ForwardedIsStored
  <2>4. CompletedHasRecords'
    BY <1>2 DEF OpenSpider, SetJob, AddEvent, GoTo, DbFails, CompletedHasRecords
  <2>5. QED
    BY <2>1, <2>2, <2>3, <2>4
<1>3. ASSUME NEW w \in Runners, OpenSpiderRaises(w) PROVE IInv'
  <2>1. TypeOK'
    <3>1. dbFailed' \in BOOLEAN
      BY <1>3 DEF OpenSpiderRaises, DbFails
    <3>2. job' \in [Queries -> JobStatus] /\ events' \in [Queries -> SUBSET Event]
      BY <1>3 DEF OpenSpiderRaises, SetJob, AddEvent
    <3>3. run' \in [Runners -> {"off", "boot", "exited"} \cup Open]
      BY <1>3 DEF OpenSpiderRaises, GoTo
    <3>4. QED
      BY <1>3, <3>1, <3>2, <3>3 DEF OpenSpiderRaises
  <2>2. RunInv'
    BY <1>3 DEF OpenSpiderRaises, SetJob, AddEvent, GoTo, DbFails
  <2>3. ForwardedIsStored'
    BY <1>3 DEF OpenSpiderRaises, SetJob, AddEvent, GoTo, DbFails, ForwardedIsStored
  <2>4. CompletedHasRecords'
    BY <1>3 DEF OpenSpiderRaises, SetJob, AddEvent, GoTo, DbFails, CompletedHasRecords
  <2>5. QED
    BY <2>1, <2>2, <2>3, <2>4
<1>4. ASSUME NEW w \in Runners, NEW u \in Urls, Item(w, u) PROVE IInv'
  <2>1. TypeOK'
    BY <1>4 DEF Item, SetJob, AddEvent, GoTo, DbFails
  <2>2. RunInv'
    BY <1>4 DEF Item, SetJob, AddEvent, GoTo, DbFails
  <2>3. ForwardedIsStored'
    BY <1>4 DEF Item, SetJob, AddEvent, GoTo, DbFails, ForwardedIsStored
  <2>4. CompletedHasRecords'
    BY <1>4 DEF Item, SetJob, AddEvent, GoTo, DbFails, CompletedHasRecords
  <2>5. QED
    BY <2>1, <2>2, <2>3, <2>4
<1>5. ASSUME NEW w \in Runners, NEW u \in Urls, ItemRaises(w, u) PROVE IInv'
  <2>1. TypeOK'
    BY <1>5 DEF ItemRaises, SetJob, AddEvent, GoTo, DbFails
  <2>2. RunInv'
    BY <1>5 DEF ItemRaises, SetJob, AddEvent, GoTo, DbFails
  <2>3. ForwardedIsStored'
    BY <1>5 DEF ItemRaises, SetJob, AddEvent, GoTo, DbFails, ForwardedIsStored
  <2>4. CompletedHasRecords'
    BY <1>5 DEF ItemRaises, SetJob, AddEvent, GoTo, DbFails, CompletedHasRecords
  <2>5. QED
    BY <2>1, <2>2, <2>3, <2>4
<1>6. ASSUME NEW w \in Runners, NEW u \in Urls, TaskEnds(w, u) PROVE IInv'
  <2>1. TypeOK'
    BY <1>6 DEF TaskEnds, SetJob, AddEvent, GoTo, DbFails
  <2>2. RunInv'
    BY <1>6 DEF TaskEnds, SetJob, AddEvent, GoTo, DbFails
  <2>3. ForwardedIsStored'
    BY <1>6 DEF TaskEnds, SetJob, AddEvent, GoTo, DbFails, ForwardedIsStored
  <2>4. CompletedHasRecords'
    BY <1>6 DEF TaskEnds, SetJob, AddEvent, GoTo, DbFails, CompletedHasRecords
  <2>5. QED
    BY <2>1, <2>2, <2>3, <2>4
<1>7. ASSUME NEW w \in Runners, Block(w) PROVE IInv'
  <2>1. TypeOK'
    BY <1>7 DEF Block, SetJob, AddEvent, GoTo, DbFails
  <2>2. RunInv'
    BY <1>7 DEF Block, SetJob, AddEvent, GoTo, DbFails
  <2>3. ForwardedIsStored'
    BY <1>7 DEF Block, SetJob, AddEvent, GoTo, DbFails, ForwardedIsStored
  <2>4. CompletedHasRecords'
    BY <1>7 DEF Block, SetJob, AddEvent, GoTo, DbFails, CompletedHasRecords
  <2>5. QED
    BY <2>1, <2>2, <2>3, <2>4
<1>8. ASSUME NEW w \in Runners, SpiderIdle(w) PROVE IInv'
  <2>1. TypeOK'
    BY <1>8 DEF SpiderIdle, SetJob, AddEvent, GoTo, DbFails
  <2>2. RunInv'
    BY <1>8 DEF SpiderIdle, SetJob, AddEvent, GoTo, DbFails
  <2>3. ForwardedIsStored'
    BY <1>8 DEF SpiderIdle, SetJob, AddEvent, GoTo, DbFails, ForwardedIsStored
  <2>4. CompletedHasRecords'
    BY <1>8 DEF SpiderIdle, SetJob, AddEvent, GoTo, DbFails, CompletedHasRecords
  <2>5. QED
    BY <2>1, <2>2, <2>3, <2>4
<1>9. ASSUME NEW w \in Runners, CloseSpider(w) PROVE IInv'
  <2>1. TypeOK'
    BY <1>9 DEF CloseSpider, SetJob, AddEvent, GoTo, DbFails, Outcome
  <2>2. RunInv'
    BY <1>9 DEF CloseSpider, SetJob, AddEvent, GoTo, DbFails, Outcome
  <2>3. ForwardedIsStored'
    BY <1>9 DEF CloseSpider, SetJob, AddEvent, GoTo, DbFails, Outcome, ForwardedIsStored
  <2>4. CompletedHasRecords'
    BY <1>9 DEF CloseSpider, SetJob, AddEvent, GoTo, DbFails, Outcome, CompletedHasRecords
  <2>5. QED
    BY <2>1, <2>2, <2>3, <2>4
<1>10. ASSUME NEW w \in Runners, CloseSpiderRaises(w) PROVE IInv'
  <2>1. TypeOK'
    BY <1>10 DEF CloseSpiderRaises, SetJob, AddEvent, GoTo, DbFails, Outcome
  <2>2. RunInv'
    BY <1>10 DEF CloseSpiderRaises, SetJob, AddEvent, GoTo, DbFails, Outcome
  <2>3. ForwardedIsStored'
    BY <1>10 DEF CloseSpiderRaises, SetJob, AddEvent, GoTo, DbFails, Outcome, ForwardedIsStored
  <2>4. CompletedHasRecords'
    BY <1>10 DEF CloseSpiderRaises, SetJob, AddEvent, GoTo, DbFails, Outcome, CompletedHasRecords
  <2>5. QED
    BY <2>1, <2>2, <2>3, <2>4
<1>11. ASSUME NEW w \in Runners, Exit(w) PROVE IInv'
  <2>1. TypeOK'
    BY <1>11 DEF Exit, SetJob, AddEvent, GoTo, DbFails
  <2>2. RunInv'
    BY <1>11 DEF Exit, SetJob, AddEvent, GoTo, DbFails
  <2>3. ForwardedIsStored'
    BY <1>11 DEF Exit, SetJob, AddEvent, GoTo, DbFails, ForwardedIsStored
  <2>4. CompletedHasRecords'
    BY <1>11 DEF Exit, SetJob, AddEvent, GoTo, DbFails, CompletedHasRecords
  <2>5. QED
    BY <2>1, <2>2, <2>3, <2>4
<1>12. ASSUME NEW w \in Runners, Gone(w) PROVE IInv'
  <2>1. TypeOK'
    BY <1>12 DEF Gone, SetJob, AddEvent, GoTo, DbFails
  <2>2. RunInv'
    BY <1>12 DEF Gone, SetJob, AddEvent, GoTo, DbFails
  <2>3. ForwardedIsStored'
    BY <1>12 DEF Gone, SetJob, AddEvent, GoTo, DbFails, ForwardedIsStored
  <2>4. CompletedHasRecords'
    BY <1>12 DEF Gone, SetJob, AddEvent, GoTo, DbFails, CompletedHasRecords
  <2>5. QED
    BY <2>1, <2>2, <2>3, <2>4
<1>13. CASE UNCHANGED vars
  BY <1>13 DEF vars, ForwardedIsStored, CompletedHasRecords
<1>14. QED
  BY <1>1, <1>2, <1>3, <1>4, <1>5, <1>6, <1>7, <1>8, <1>9, <1>10, <1>11, <1>12, <1>13 DEF Next

------------------------------------------------------------------------------
(* Theorems. *)

LEMMA Invariance == Spec => []IInv
<1>1. QED
  BY InitIInv, NextIInv, PTL DEF Spec

\* The variables keep their types; a runner's job status is always a known one.
THEOREM TypeCorrect == Spec => []TypeOK
<1>1. IInv => TypeOK
  BY DEF IInv
<1>2. QED
  BY <1>1, Invariance, PTL

\* No enrich request is ever about a URL that is not stored.
THEOREM ForwardedStored == Spec => []ForwardedIsStored
<1>1. IInv => ForwardedIsStored
  BY DEF IInv
<1>2. QED
  BY <1>1, Invariance, PTL

\* A query that reads "search_completed" has records.
THEOREM CompletedStored == Spec => []CompletedHasRecords
<1>1. IInv => CompletedHasRecords
  BY DEF IInv
<1>2. QED
  BY <1>1, Invariance, PTL
==============================================================================
