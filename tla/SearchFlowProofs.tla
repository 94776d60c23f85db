---------------------------- MODULE SearchFlowProofs ----------------------------
(***************************************************************************)
(* What holds of the search stage as a whole, for any queries, requests,   *)
(* workers, losses and faults: no status and no acked message hides a      *)
(* search that nobody runs.                                                *)
(***************************************************************************)
EXTENDS SearchFlow, FiniteSetTheorems, SequenceTheorems, TLAPS

\* The queue's own proofs, for the queue of the composition.
QueueProofs == INSTANCE WorkerRuntimeProofs WITH job <- holds, Poison <- {}

\* A handler at work has its request, and one search to publish.
ApiInv ==
  /\ DOMAIN api = Handlers /\ DOMAIN input = Handlers /\ DOMAIN todo = Handlers
  /\ \A h \in Handlers : api[h] \in API!InFlight =>
       input[h] = Sends[h] /\ todo[h] = Sends[h].batch

\* The parts of the spider runs that the flow looks at.
RunInv ==
  /\ run \in [Workers -> {"off", "boot", "crawling", "closing", "closed", "exited"}]
  /\ query \in [Workers -> Queries \cup {NoQuery}]
  /\ dbFailed \in BOOLEAN

Logged(m) == m \in logged \/ dbFailed

\* A run that is closed has logged its outcome for its message, and so has the run of
\* a child that finished a message.
LogInv ==
  /\ \A w \in Workers : run[w] \in {"closed", "exited"} => Logged(holds[w])
  /\ \A m \in finished : m \in 1..sent /\ Logged(m)

\* The worker will have the message run once more, or is having it run: the run has
\* not yet written its outcome.
Unfinished(w) ==
  \/ pc[w] = "failed"
  \/ pc[w] = "child" /\ run[w] \in {"boot", "crawling", "closing"}

\* A message of the query whose outcome is still to come.
Ahead(m) == mstate[m] = "ready" \/ (mstate[m] = "unacked" /\ Unfinished(owner[m]))

LiveInv ==
  (losses = 0 /\ ~dbFailed) =>
    \A q \in Queries : job[q] = "search_in_progress" =>
      \E m \in 1..sent : Topic(m) = q /\ Ahead(m)

IInv == QueueProofs!IInv /\ TypeOK /\ RunInv /\ ApiInv /\ LogInv /\ LiveInv

------------------------------------------------------------------------------
(* The queue of the composition is a WorkerRuntime. *)

LEMMA QueueAssumption == QueueProofs!WorkerRuntimeAssumption
<1>1. NumMessages \in Nat
  BY SearchFlowAssumption, FS_CardinalityType DEF NumMessages
<1>2. QED
  BY <1>1, SearchFlowAssumption DEF QueueProofs!WorkerRuntimeAssumption

\* A step of a worker and its queue.
QueueMoves(w) ==
  \/ Queue!Get(w) \/ Queue!ChildSucceeds(w) \/ Queue!ChildFails(w)
  \/ Queue!Ack(w) \/ Queue!Reject(w) \/ Queue!Stop(w)
  \/ Queue!GetRaises(w) \/ Queue!SettleRaises(w) \/ Queue!LoseConnection(w)
  \/ Queue!Signal(w) \/ Queue!Kill(w) \/ Queue!Restart(w)

\* Those steps, as the queue's own proofs call them.
LEMMA SameQueue ==
  ASSUME NEW w \in Workers, QueueMoves(w)
  PROVE  QueueProofs!Next
<1> USE DEF Queue!Owns, QueueProofs!Owns, Queue!Settle, QueueProofs!Settle, Queue!Fault,
      QueueProofs!Fault, Queue!Loop, QueueProofs!Loop, Queue!Ready, QueueProofs!Ready,
      Queue!Messages, QueueProofs!Messages, Queue!NoMessage, QueueProofs!NoMessage,
      Queue!brokerVars, QueueProofs!brokerVars, Queue!Alive, QueueProofs!Alive,
      Queue!Down, QueueProofs!Down
<1>1. Queue!Get(w) => QueueProofs!Get(w)
  BY DEF Queue!Get, QueueProofs!Get
<1>2. Queue!ChildSucceeds(w) => QueueProofs!ChildSucceeds(w)
  BY DEF Queue!ChildSucceeds, QueueProofs!ChildSucceeds
<1>3. Queue!ChildFails(w) => QueueProofs!ChildFails(w)
  BY DEF Queue!ChildFails, QueueProofs!ChildFails
<1>4. Queue!Ack(w) => QueueProofs!Ack(w)
  BY DEF Queue!Ack, QueueProofs!Ack
<1>5. Queue!Reject(w) => QueueProofs!Reject(w)
  BY DEF Queue!Reject, QueueProofs!Reject
<1>6. Queue!Stop(w) => QueueProofs!Stop(w)
  BY DEF Queue!Stop, QueueProofs!Stop
<1>7. Queue!GetRaises(w) => QueueProofs!GetRaises(w)
  BY DEF Queue!GetRaises, QueueProofs!GetRaises
<1>8. Queue!SettleRaises(w) => QueueProofs!SettleRaises(w)
  BY DEF Queue!SettleRaises, QueueProofs!SettleRaises
<1>9. Queue!LoseConnection(w) => QueueProofs!LoseConnection(w)
  BY DEF Queue!LoseConnection, QueueProofs!LoseConnection
<1>10. Queue!Signal(w) => QueueProofs!Signal(w)
  BY DEF Queue!Signal, QueueProofs!Signal
<1>11. Queue!Kill(w) => QueueProofs!Kill(w)
  BY DEF Queue!Kill, QueueProofs!Kill
<1>12. Queue!Restart(w) => QueueProofs!Restart(w)
  BY DEF Queue!Restart, QueueProofs!Restart
<1>13. QED
  BY <1>1, <1>2, <1>3, <1>4, <1>5, <1>6, <1>7, <1>8, <1>9, <1>10, <1>11, <1>12
     DEF QueueMoves, QueueProofs!Next

LEMMA QueueKeeps ==
  ASSUME QueueProofs!IInv,
         \/ Queue!Publish
         \/ \E w \in Workers : QueueMoves(w)
         \/ UNCHANGED <<sent, mstate, owner, pc, holds, running, finished, losses, faults>>
  PROVE  QueueProofs!IInv' /\ Queue!TypeOK'
<1>1. ASSUME Queue!Publish PROVE QueueProofs!IInv'
  <2>1. QueueProofs!Publish
    BY <1>1 DEF Queue!Publish, QueueProofs!Publish
  <2>2. QED
    BY <2>1, QueueAssumption, QueueProofs!NextIInv DEF QueueProofs!Next
<1>2. ASSUME NEW w \in Workers, QueueMoves(w) PROVE QueueProofs!IInv'
  BY <1>2, SameQueue, QueueAssumption, QueueProofs!NextIInv
<1>3. ASSUME UNCHANGED <<sent, mstate, owner, pc, holds, running, finished, losses, faults>>
      PROVE  QueueProofs!IInv'
  <2>1. UNCHANGED QueueProofs!vars
    BY <1>3 DEF QueueProofs!vars
  <2>2. QED
    BY <2>1, QueueAssumption, QueueProofs!NextIInv
<1>4. QueueProofs!IInv'
  BY <1>1, <1>2, <1>3
<1>5. Queue!TypeOK'
  BY <1>4
     DEF QueueProofs!IInv, QueueProofs!TypeOK, Queue!TypeOK, Queue!Messages, QueueProofs!Messages,
         Queue!Alive, QueueProofs!Alive, Queue!Down, QueueProofs!Down,
         Queue!NoMessage, QueueProofs!NoMessage
<1>6. QED
  BY <1>4, <1>5

\* What the invariant of the queue says of messages and workers.
LEMMA AtQueue ==
  ASSUME QueueProofs!IInv
  PROVE  /\ sent \in Nat /\ 1..sent \subseteq 1..NumMessages /\ NoWorker \notin Workers
         /\ DOMAIN mstate = 1..NumMessages /\ DOMAIN owner = 1..NumMessages
         /\ \A m \in 1..NumMessages :
              /\ mstate[m] = "unacked" => owner[m] \in Workers /\ holds[owner[m]] = m
              /\ mstate[m] # "unacked" => owner[m] = NoWorker
              /\ mstate[m] = "acked" => m \in finished
              /\ mstate[m] = "ready" => m \in 1..sent
         /\ \A w \in Workers :
              /\ holds[w] # 0 <=> pc[w] \in {"child", "succeeded", "failed"}
              /\ holds[w] # 0 => holds[w] \in 1..sent
              /\ (losses = 0 /\ holds[w] # 0) => owner[holds[w]] = w /\ mstate[holds[w]] = "unacked"
  BY QueueAssumption
     DEF QueueProofs!IInv, QueueProofs!TypeOK, QueueProofs!JobInv, QueueProofs!OwnerInv,
         QueueProofs!SentInv, QueueProofs!AckedInv, QueueProofs!LossInv, QueueProofs!Messages,
         QueueProofs!NoMessage, QueueProofs!WorkerRuntimeAssumption

------------------------------------------------------------------------------
(* The API. *)

LEMMA OneSearch ==
  ASSUME NEW h \in Handlers
  PROVE  /\ Sends[h].kind \in {"create", "retry_search"}
         /\ Sends[h].batch[1] \in Queries
         /\ Head(Sends[h].batch) = Sends[h].batch[1]
         /\ Tail(Sends[h].batch) = <<>>
<1>1. Sends[h].batch \in Seq(Queries) /\ Len(Sends[h].batch) = 1
  BY SearchFlowAssumption
<1>2. Sends[h].batch # <<>> /\ Sends[h].batch[1] \in Queries
  BY <1>1
<1>3. Head(Sends[h].batch) = Sends[h].batch[1]
  BY <1>1, <1>2
<1>4. Len(Tail(Sends[h].batch)) = 0 /\ Tail(Sends[h].batch) \in Seq(Queries)
  BY <1>1, <1>2
<1>5. Tail(Sends[h].batch) = <<>>
  BY <1>4, EmptySeq
<1>6. QED
  BY <1>2, <1>3, <1>5, SearchFlowAssumption

\* What a step of the API does to the shared row: no status becomes
\* "search_in_progress" or "search_completed".
Tells ==
  /\ job' \in [Queries -> API!JobStatus \cup Spider!JobStatus]
  /\ \A q \in Queries : job'[q] \in {"search_in_progress", "search_completed"} => job[q] = job'[q]

\* A handler writes a status of its own to the row of its query.
LEMMA OneRowTells ==
  ASSUME job \in [Queries -> API!JobStatus \cup Spider!JobStatus], NEW q \in Queries,
         NEW s \in API!JobStatus, s \notin {"search_in_progress", "search_completed"},
         job' = [job EXCEPT ![q] = s] \/ job' = job
  PROVE  Tells
BY DEF Tells

\* A handler at work on its one query, and what its repository calls write.
LEMMA AtApi ==
  ASSUME ApiInv, NEW h \in Handlers, api[h] \in API!InFlight
  PROVE  /\ input[h] = Sends[h] /\ todo[h] = Sends[h].batch /\ Tail(todo[h]) = <<>>
         /\ API!Query(h) = Sends[h].batch[1] /\ API!Kind(h) = Sends[h].kind
         /\ API!Kind(h) \in {"create", "retry_search"}
<1>1. input[h] = Sends[h] /\ todo[h] = Sends[h].batch
  BY DEF ApiInv
<1>2. QED
  BY <1>1, OneSearch DEF API!Query, API!Kind

LEMMA WriteTells ==
  ASSUME job \in [Queries -> API!JobStatus \cup Spider!JobStatus], ApiInv,
         NEW h \in Handlers, api[h] \in API!InFlight, NEW s, NEW f, API!Write(h, s, f)
  PROVE  Tells
<1> DEFINE q == Sends[h].batch[1]
<1>1. q \in Queries /\ API!Query(h) = q /\ API!Kind(h) \in {"create", "retry_search"}
  BY AtApi, OneSearch
<1>2. /\ API!Success(h).job = "search_requested"
      /\ API!Failure(h).job \in {"enqueue_failed", "search_retry_enqueue_failed"}
  <2>1. CASE API!Kind(h) = "create"
    BY <2>1 DEF API!Success, API!Failure, API!Writes, API!CreateWrites
  <2>2. CASE API!Kind(h) = "retry_search"
    BY <2>2 DEF API!Success, API!Failure, API!Writes, API!RetrySearchWrites
  <2>3. QED
    BY <1>1, <2>1, <2>2
<1>3. \/ job' = [job EXCEPT ![q] = API!Success(h).job]
      \/ job' = [job EXCEPT ![q] = API!Failure(h).job]
      \/ job' = job
  BY <1>1 DEF API!Write, API!JobAfter
<1>4. QED
  BY <1>1, <1>2, <1>3, OneRowTells DEF API!JobStatus

\* How a step of a handler goes on: with its own request, or not at all.
Moves(h) ==
  \/ /\ input' = [input EXCEPT ![h] = Sends[h]]
     /\ \/ api' = [api EXCEPT ![h] = "stage"] /\ todo' = [todo EXCEPT ![h] = Sends[h].batch]
        \/ /\ api' = [api EXCEPT ![h] = "answered"]
           /\ todo' = todo \/ todo' = [todo EXCEPT ![h] = Sends[h].batch]
  \/ /\ input' = input /\ todo' = todo /\ api[h] \in API!InFlight
     /\ api' = [api EXCEPT ![h] = "event"] \/ api' = [api EXCEPT ![h] = "answered"]

LEMMA MovesKeep ==
  ASSUME ApiInv, NEW h \in Handlers, Moves(h)
  PROVE  ApiInv'
BY DEF ApiInv, Moves, API!InFlight

LEMMA BeginTells ==
  ASSUME job \in [Queries -> API!JobStatus \cup Spider!JobStatus], ApiInv, NEW h \in Handlers,
         \/ API!Create(h, Sends[h]) \/ API!RetrySearch(h, Sends[h])
         \/ API!BeginRaises(h, Sends[h])
  PROVE  /\ Tells /\ Moves(h) /\ api[h] = "idle" /\ published' = published
         /\ \/ answer' = answer
            \/ \E code : code # 202 /\ answer' = [answer EXCEPT ![h] = code]
<1> DEFINE q == Sends[h].batch[1]
<1>0. q \in Queries /\ "pending" \in API!JobStatus
  BY OneSearch DEF API!JobStatus
<1>1. PICK c404, c409, c500 : /\ c404 = 404 /\ c409 = 409 /\ c500 = 500
                              /\ c404 # 202 /\ c409 # 202 /\ c500 # 202
  OBVIOUS
<1>2. CASE API!Create(h, Sends[h])
  <2>1. /\ API!Receive(h, Sends[h])
        /\ \/ API!Answer(h, c409) /\ job' = job /\ published' = published /\ todo' = todo
           \/ /\ todo' = [todo EXCEPT ![h] = Sends[h].batch] /\ published' = published
              /\ job' = [job EXCEPT ![q] = "pending"] \/ job' = job
              /\ API!GoesOn(h) \/ API!Answer(h, c500)
    BY <1>1, <1>2
       DEF API!Create, API!Refuse, API!Ends, API!dbVars, API!Inserts, API!Raises
  <2>2. QED
    BY <1>0, <1>1, <2>1, OneRowTells DEF Moves, API!Receive, API!Answer, API!GoesOn
<1>3. CASE API!RetrySearch(h, Sends[h])
  <2>1. /\ API!Receive(h, Sends[h]) /\ job' = job /\ published' = published
        /\ \/ API!Answer(h, c404) /\ todo' = todo
           \/ todo' = [todo EXCEPT ![h] = Sends[h].batch] /\ API!GoesOn(h)
    BY <1>1, <1>3 DEF API!RetrySearch, API!Refuse, API!Ends, API!dbVars, API!Await
  <2>2. QED
    BY <1>0, <1>1, <2>1, OneRowTells DEF Moves, API!Receive, API!Answer, API!GoesOn
<1>4. CASE API!BeginRaises(h, Sends[h])
  <2>1. /\ API!Receive(h, Sends[h]) /\ job' = job /\ published' = published
        /\ API!Raises(h) /\ todo' = todo
    BY <1>4 DEF API!BeginRaises, API!dbVars
  <2>2. API!Answer(h, c500)
    BY <1>1, <2>1 DEF API!Raises
  <2>3. Tells
    BY <2>1 DEF Tells
  <2>4. /\ api[h] = "idle" /\ input' = [input EXCEPT ![h] = Sends[h]]
        /\ api' = [api EXCEPT ![h] = "answered"] /\ answer' = [answer EXCEPT ![h] = c500]
    BY <2>1, <2>2 DEF API!Receive, API!Answer
  <2>5. Moves(h)
    BY <2>1, <2>4 DEF Moves
  <2>6. \E code : code # 202 /\ answer' = [answer EXCEPT ![h] = code]
    <3> WITNESS c500
    <3> QED
      BY <1>1, <2>4
  <2>7. QED
    BY <2>1, <2>3, <2>4, <2>5, <2>6
<1>5. QED
  BY <1>2, <1>3, <1>4

\* A handler publishes its search, or it answers: 202 only once it has come to its event.
LEMMA ContinueTells ==
  ASSUME job \in [Queries -> API!JobStatus \cup Spider!JobStatus], ApiInv, NEW h \in Handlers,
         API!Continue(h)
  PROVE  /\ Tells /\ Moves(h) /\ api[h] \in API!InFlight
         /\ \/ /\ api[h] = "stage" /\ api' = [api EXCEPT ![h] = "event"] /\ answer' = answer
               /\ published' = published \cup {API!Message(h)}
            \/ /\ api' = [api EXCEPT ![h] = "answered"]
               /\ published' \in {published, published \cup {API!Message(h)}}
               /\ \E code : /\ answer' = [answer EXCEPT ![h] = code]
                            /\ code = 202 => api[h] = "event"
<1>1. api[h] \in API!InFlight
  BY DEF API!Continue, API!PublishStage, API!PublishStageRaises, API!PublishEvent,
         API!PublishEventRaises, API!InFlight
<1>2. API!Kind(h) \in {"create", "retry_search"} /\ Tail(todo[h]) = <<>>
  BY <1>1, AtApi
<1>3. PICK c500 : c500 = 500 /\ c500 # 202
  OBVIOUS
<1>4. CASE API!PublishStage(h)
  <2>1. /\ api[h] = "stage" /\ job' = job /\ input' = input /\ answer' = answer
        /\ api' = [api EXCEPT ![h] = "event"] /\ todo' = todo
        /\ published' = published \cup {API!Message(h)}
    BY <1>2, <1>4 DEF API!PublishStage, API!dbVars
  <2>2. QED
    BY <1>1, <2>1 DEF Tells, Moves
<1>5. ASSUME NEW s, NEW f, API!Write(h, s, f), NEW code, API!Answer(h, code),
             code = 202 => api[h] = "event", UNCHANGED <<input, todo>>,
             published' \in {published, published \cup {API!Message(h)}}
      PROVE  /\ Tells /\ Moves(h) /\ api' = [api EXCEPT ![h] = "answered"]
             /\ answer' = [answer EXCEPT ![h] = code]
  <2>1. Tells
    BY <1>1, <1>5, WriteTells
  <2>2. QED
    BY <1>1, <1>5, <2>1 DEF Moves, API!Answer
<1>6. CASE API!PublishStageRaises(h) \/ API!PublishEventRaises(h)
  <2>1. /\ API!Fails(h) /\ input' = input
        /\ published' \in {published, published \cup {API!Message(h)}}
    BY <1>6 DEF API!PublishStageRaises, API!PublishEventRaises
  <2>2. PICK f : API!Write(h, {}, f) /\ API!Answer(h, c500) /\ todo' = todo
    BY <1>3, <2>1 DEF API!Fails, API!Ends, API!Raises
  <2>3. QED
    BY <1>1, <1>3, <1>5, <2>1, <2>2
<1>7. CASE API!PublishEvent(h)
  <2>1. api[h] = "event" /\ UNCHANGED <<published, input>>
    BY <1>7 DEF API!PublishEvent
  <2>2. API!Succeeds(h) \/ API!SuccessRaises(h)
    BY <1>2, <1>7 DEF API!PublishEvent, API!CreateGoesOn
  <2>3. \E s, f, code : API!Write(h, s, f) /\ API!Answer(h, code) /\ todo' = todo
    <3>1. CASE API!Succeeds(h)
      BY <3>1 DEF API!Succeeds, API!Ends
    <3>2. CASE API!SuccessRaises(h)
      BY <3>2 DEF API!SuccessRaises, API!Raises
    <3>3. QED
      BY <2>2, <3>1, <3>2
  <2>4. QED
    BY <1>1, <1>5, <2>1, <2>3
<1>8. QED
  BY <1>4, <1>6, <1>7 DEF API!Continue

LEMMA CrashTells ==
  ASSUME job \in [Queries -> API!JobStatus \cup Spider!JobStatus], ApiInv, API!Crash
  PROVE  Tells /\ ApiInv'
<1>1. job' = job /\ input' = input /\ todo' = todo
  BY DEF API!Crash, API!dbVars
<1>2. Tells
  BY <1>1 DEF Tells
<1>3. DOMAIN api' = Handlers /\ \A h \in Handlers : api'[h] \notin API!InFlight
  BY DEF API!Crash, API!InFlight
<1>4. ApiInv'
  BY <1>1, <1>3 DEF ApiInv
<1>5. QED
  BY <1>2, <1>4

------------------------------------------------------------------------------
(* What every step has to show. *)

\* Where the parts of the flow meet.
LEMMA AtFlow ==
  ASSUME IInv
  PROVE  /\ sender \in [1..sent -> Handlers] /\ logged \subseteq 1..sent
         /\ \A m \in 1..sent : Topic(m) \in Queries
         /\ DOMAIN pc = Workers /\ DOMAIN holds = Workers
         /\ DOMAIN run = Workers /\ DOMAIN query = Workers
         /\ \A w \in Workers :
              /\ pc[w] = "child" <=> run[w] # "off"
              /\ run[w] # "off" => /\ holds[w] \in 1..sent /\ query[w] = Topic(holds[w])
                                   /\ query[w] \in Queries
<1>1. /\ sender \in [1..sent -> Handlers] /\ logged \subseteq 1..sent
      /\ \A w \in Workers : pc[w] = "child" <=> run[w] # "off"
      /\ \A w \in Workers : run[w] # "off" => query[w] = Topic(holds[w])
  BY DEF IInv, TypeOK
<1>2. DOMAIN pc = Workers /\ DOMAIN holds = Workers
  BY DEF IInv, TypeOK, Queue!TypeOK
<1>3. DOMAIN run = Workers /\ DOMAIN query = Workers
  BY DEF IInv, RunInv
<1>4. \A w \in Workers : pc[w] = "child" => holds[w] \in 1..sent
  BY AtQueue DEF IInv
<1>5. \A m \in 1..sent : Topic(m) \in Queries
  BY <1>1, OneSearch DEF Topic
<1>6. QED
  BY <1>1, <1>2, <1>3, <1>4, <1>5

\* LiveInv is kept by a step that keeps a message ahead of every query it leaves in
\* progress.
LEMMA LiveKeeps ==
  ASSUME LiveInv, sent \in Nat, sent' \in Nat, sent <= sent',
         (losses' = 0 /\ ~dbFailed') => (losses = 0 /\ ~dbFailed),
         \A m \in 1..sent : sender'[m] = sender[m],
         \A m \in 1..sent : (Ahead(m) /\ job'[Topic(m)] = "search_in_progress") => Ahead(m)',
         \A q \in Queries : (losses' = 0 /\ ~dbFailed' /\ job'[q] = "search_in_progress") =>
           \/ job[q] = "search_in_progress"
           \/ \E m \in 1..sent' : Topic(m)' = q /\ Ahead(m)'
  PROVE  LiveInv'
<1> SUFFICES ASSUME losses' = 0, ~dbFailed', NEW q \in Queries, job'[q] = "search_in_progress",
                    job[q] = "search_in_progress"
             PROVE  \E m \in 1..sent' : Topic(m)' = q /\ Ahead(m)'
  BY DEF LiveInv
<1>1. PICK m \in 1..sent : Topic(m) = q /\ Ahead(m)
  BY DEF LiveInv
<1>2. m \in 1..sent' /\ Topic(m)' = q /\ Ahead(m)'
  BY <1>1 DEF Topic
<1>3. QED
  BY <1>2

\* LogInv is kept by a step after which every run that is closed was closed before,
\* or is logged, and likewise every finished message.
LEMMA LogKeeps ==
  ASSUME LogInv, IInv, dbFailed => dbFailed', logged \subseteq logged',
         sent' \in Nat, sent <= sent',
         \A w \in Workers : run'[w] \in {"closed", "exited"} =>
           \/ run[w] \in {"closed", "exited"} /\ holds'[w] = holds[w]
           \/ Logged(holds[w])' ,
         \A m \in finished' : m \in finished \/ (m \in 1..sent' /\ Logged(m)')
  PROVE  LogInv'
<1> USE DEF Logged
<1>1. \A m : Logged(m) => Logged(m)'
  OBVIOUS
<1>2. ASSUME NEW w \in Workers, run'[w] \in {"closed", "exited"} PROVE Logged(holds[w])'
  BY <1>1, <1>2 DEF LogInv
<1>3. ASSUME NEW m \in finished' PROVE m \in 1..sent' /\ Logged(m)'
  <2>1. CASE m \in finished
    <3>1. m \in 1..sent /\ Logged(m) /\ sent \in Nat
      BY <2>1, AtQueue DEF LogInv, IInv
    <3>2. QED
      BY <1>1, <3>1
  <2>2. QED
    BY <1>3, <2>1
<1>4. QED
  BY <1>2, <1>3 DEF LogInv

------------------------------------------------------------------------------
(* Every step preserves the invariant. *)

\* The conjuncts of the invariant after a step.
LEMMA ToIInv ==
  ASSUME QueueProofs!IInv', Queue!TypeOK',
         job' \in [Queries -> API!JobStatus \cup Spider!JobStatus],
         sender' \in [1..sent' -> Handlers], logged' \subseteq 1..sent',
         \A w \in Workers : pc'[w] = "child" <=> run'[w] # "off",
         (\A w \in Workers : run[w] # "off" => query[w] = Topic(holds[w]))',
         RunInv', ApiInv', LogInv', LiveInv'
  PROVE  IInv'
BY DEF IInv, TypeOK, API!JobStatus, Spider!JobStatus, Spider!Outcomes

\* What one more message does to the senders.
LEMMA SenderGrows ==
  ASSUME IInv, Queue!Publish, NEW h \in Handlers, sender' = Append(sender, h)
  PROVE  /\ sent \in Nat /\ sent' = sent + 1 /\ sender'[sent'] = h
         /\ sender' \in [1..sent' -> Handlers] /\ \A m \in 1..sent : sender'[m] = sender[m]
<1>1. sent \in Nat /\ sender \in [1..sent -> Handlers]
  BY AtFlow, AtQueue DEF IInv
<1>2. sender \in Seq(Handlers) /\ Len(sender) = sent
  BY <1>1
<1>3. sent' = sent + 1
  BY DEF Queue!Publish
<1>4. sender' \in Seq(Handlers) /\ Len(sender') = sent + 1
  BY <1>2, AppendProperties
<1>5. sender' \in [1..sent' -> Handlers]
  BY <1>3, <1>4, LenProperties
<1>6. QED
  BY <1>1, <1>2, <1>3, <1>5, AppendProperties

\* A step of the API, with or without a publication.
LEMMA ApiKeeps ==
  ASSUME IInv, Tells, ApiInv', UNCHANGED spiderVars,
         \/ UNCHANGED queueVars
         \/ Queue!Publish /\ \E h \in Handlers : sender' = Append(sender, h)
  PROVE  IInv'
<1>0. UNCHANGED <<run, query, dbFailed, logged>>
  BY DEF spiderVars
<1>1. QueueProofs!IInv' /\ Queue!TypeOK'
  <2>1. QueueProofs!IInv
    BY DEF IInv
  <2>2. CASE UNCHANGED queueVars
    BY <2>1, <2>2, QueueKeeps DEF queueVars
  <2>3. CASE Queue!Publish
    BY <2>1, <2>3, QueueKeeps
  <2>4. QED
    BY <2>2, <2>3
<1>2. /\ sent \in Nat /\ sent' \in Nat /\ sent <= sent' /\ 1..sent \subseteq 1..sent'
      /\ sender' \in [1..sent' -> Handlers] /\ \A m \in 1..sent : sender'[m] = sender[m]
      /\ UNCHANGED <<owner, pc, holds, finished, losses>>
      /\ \A m \in 1..sent : mstate'[m] = mstate[m]
  <2>1. sent \in Nat /\ sender \in [1..sent -> Handlers] /\ DOMAIN mstate = 1..NumMessages
        /\ 1..sent \subseteq 1..NumMessages
    BY AtFlow, AtQueue DEF IInv
  <2>2. CASE UNCHANGED queueVars
    BY <2>1, <2>2 DEF queueVars
  <2>3. ASSUME Queue!Publish, NEW h \in Handlers, sender' = Append(sender, h)
        PROVE  /\ sent' \in Nat /\ sent <= sent' /\ 1..sent \subseteq 1..sent'
               /\ sender' \in [1..sent' -> Handlers] /\ \A m \in 1..sent : sender'[m] = sender[m]
               /\ UNCHANGED <<owner, pc, holds, finished, losses>>
               /\ \A m \in 1..sent : mstate'[m] = mstate[m]
    <3>1. sent' = sent + 1 /\ mstate' = [mstate EXCEPT ![sent + 1] = "ready"]
          /\ UNCHANGED <<owner, pc, holds, finished, losses>>
      BY <2>3 DEF Queue!Publish
    <3>2. sender' \in [1..sent' -> Handlers] /\ \A m \in 1..sent : sender'[m] = sender[m]
      BY <2>3, SenderGrows
    <3>3. \A m \in 1..sent : mstate'[m] = mstate[m]
      BY <2>1, <3>1
    <3>4. QED
      BY <2>1, <3>1, <3>2, <3>3
  <2>4. QED
    BY <2>1, <2>2, <2>3
<1>3. /\ \A w \in Workers : pc'[w] = "child" <=> run'[w] # "off"
      /\ (\A w \in Workers : run[w] # "off" => query[w] = Topic(holds[w]))'
  BY <1>0, <1>2, AtFlow DEF Topic
<1>4. RunInv' /\ logged' \subseteq 1..sent'
  BY <1>0, <1>2, AtFlow DEF IInv, RunInv
<1>5. LogInv'
  BY <1>0, <1>2, LogKeeps DEF IInv
<1>6. LiveInv'
  <2>1. \A m \in 1..sent : Ahead(m) => Ahead(m)'
    BY <1>0, <1>2 DEF Ahead, Unfinished
  <2>2. QED
    BY <1>0, <1>2, <2>1, LiveKeeps DEF Tells, IInv
<1>7. QED
  BY <1>1, <1>2, <1>3, <1>4, <1>5, <1>6, ToIInv DEF Tells

\* What a step of a worker that is not a step of its spider does: it changes what
\* the worker and its run are at and says nothing to the database, it has a run
\* exactly while it waits for a child, only an exited run finishes its message, and
\* no message of a query is behind that was ahead.
Local(w) ==
  /\ UNCHANGED <<job, dbFailed, apiVars, sender, sent, logged>>
  /\ losses' = 0 => losses = 0
  /\ run' \in [Workers -> {"off", "boot", "crawling", "closing", "closed", "exited"}]
  /\ query' \in [Workers -> Queries \cup {NoQuery}]
  /\ \A v \in Workers \ {w} : /\ pc'[v] = pc[v] /\ holds'[v] = holds[v]
                              /\ run'[v] = run[v] /\ query'[v] = query[v]
  /\ pc'[w] = "child" <=> run'[w] # "off"
  /\ run'[w] # "off" => query'[w] = Topic(holds'[w])
  /\ run'[w] \in {"closed", "exited"} => run'[w] = run[w] /\ holds'[w] = holds[w]
  /\ \A m \in finished' : m \in finished \/ (m = holds[w] /\ run[w] = "exited")
  /\ \A m \in 1..sent : Ahead(m) => Ahead(m)'

LEMMA LocalKeeps ==
  ASSUME IInv, NEW w \in Workers, QueueMoves(w), Local(w)
  PROVE  IInv'
<1>1. QueueProofs!IInv' /\ Queue!TypeOK'
  BY QueueKeeps DEF IInv
<1>2. /\ sent \in Nat /\ UNCHANGED <<job, dbFailed, sender, sent, logged, api, input, todo>>
      /\ sender \in [1..sent -> Handlers] /\ logged \subseteq 1..sent
  BY AtFlow, AtQueue DEF IInv, Local, apiVars
<1>3. /\ job' \in [Queries -> API!JobStatus \cup Spider!JobStatus]
      /\ sender' \in [1..sent' -> Handlers] /\ logged' \subseteq 1..sent'
  BY <1>2 DEF IInv, TypeOK
<1>4. /\ \A v \in Workers : pc'[v] = "child" <=> run'[v] # "off"
      /\ (\A v \in Workers : run[v] # "off" => query[v] = Topic(holds[v]))'
  <2>1. ASSUME NEW v \in Workers
        PROVE  /\ pc'[v] = "child" <=> run'[v] # "off"
               /\ (run[v] # "off" => query[v] = Topic(holds[v]))'
    <3>1. CASE v = w
      BY <1>2, <3>1 DEF Local, Topic
    <3>2. CASE v # w
      BY <1>2, <3>2, AtFlow DEF Local, Topic
    <3>3. QED
      BY <3>1, <3>2
  <2>2. QED
    BY <2>1
<1>5. RunInv'
  BY <1>2 DEF Local, IInv, RunInv
<1>6. ApiInv'
  BY <1>2 DEF IInv, ApiInv
<1>7. LogInv'
  <2>1. \A v \in Workers : run'[v] \in {"closed", "exited"} =>
          run[v] \in {"closed", "exited"} /\ holds'[v] = holds[v]
    BY DEF Local
  <2>2. ASSUME NEW m \in finished' PROVE m \in finished \/ (m \in 1..sent' /\ Logged(m)')
    <3>1. CASE m = holds[w] /\ run[w] = "exited"
      <4>1. m \in 1..sent /\ Logged(m)
        BY <3>1, AtFlow DEF IInv, LogInv
      <4>2. QED
        BY <1>2, <4>1 DEF Logged
    <3>2. QED
      BY <2>2, <3>1 DEF Local
  <2>3. QED
    BY <1>2, <2>1, <2>2, LogKeeps DEF IInv
<1>8. LiveInv'
  BY <1>2, LiveKeeps DEF Local, IInv
<1>9. QED
  BY <1>1, <1>3, <1>4, <1>5, <1>6, <1>7, <1>8, ToIInv

\* What a settlement does to the messages.
LEMMA SettleMoves ==
  ASSUME QueueProofs!IInv, NEW w \in Workers, NEW to \in {"ready", "acked"}, Queue!Settle(w, to)
  PROVE  \A m \in 1..sent : IF owner[m] = w THEN mstate'[m] = to
                                            ELSE mstate'[m] = mstate[m] /\ owner'[m] = owner[m]
<1>1. QueueProofs!TypeOK
  BY DEF QueueProofs!IInv
<1>2. QueueProofs!Settle(w, to)
  BY DEF Queue!Settle, QueueProofs!Settle, Queue!Owns, QueueProofs!Owns,
         Queue!NoMessage, QueueProofs!NoMessage
<1>3. /\ mstate' = [m \in QueueProofs!Messages |->
                      IF m = holds[w] /\ owner[m] = w THEN to ELSE mstate[m]]
      /\ owner' = [m \in QueueProofs!Messages |->
                      IF m = holds[w] /\ owner[m] = w THEN NoWorker ELSE owner[m]]
  BY <1>1, <1>2, QueueAssumption, QueueProofs!SettleEffect
<1>4. \A m \in 1..sent : m \in QueueProofs!Messages /\ (owner[m] = w => m = holds[w])
  BY AtQueue DEF QueueProofs!Messages
<1>5. QED
  BY <1>3, <1>4

\* Whatever a worker does, the messages that others own, and those that nobody has,
\* are where they were.
LEMMA OthersAhead ==
  ASSUME IInv, NEW w \in Workers, NEW m \in 1..sent, Ahead(m), owner[m] # w,
         mstate'[m] = mstate[m], owner'[m] = owner[m],
         \A v \in Workers \ {w} : pc'[v] = pc[v] /\ run'[v] = run[v]
  PROVE  Ahead(m)'
<1>1. CASE mstate[m] = "ready"
  BY <1>1 DEF Ahead
<1>2. CASE mstate[m] = "unacked" /\ Unfinished(owner[m])
  <2>1. owner[m] \in Workers \ {w}
    BY <1>2, AtQueue DEF IInv
  <2>2. Unfinished(owner[m])'
    BY <1>2, <2>1 DEF Unfinished
  <2>3. QED
    BY <1>2, <2>2 DEF Ahead
<1>3. QED
  BY <1>1, <1>2 DEF Ahead

\* The run of a worker is over: what Local says of it.
LEMMA GoneEffect ==
  ASSUME IInv, NEW w \in Workers, Spider!Gone(w)
  PROVE  /\ UNCHANGED <<job, dbFailed>>
         /\ run' = [run EXCEPT ![w] = "off"] /\ query' = [query EXCEPT ![w] = NoQuery]
         /\ run' \in [Workers -> {"off", "boot", "crawling", "closing", "closed", "exited"}]
         /\ query' \in [Workers -> Queries \cup {NoQuery}]
         /\ run'[w] = "off"
<1>1. /\ UNCHANGED <<job, dbFailed>>
      /\ run' = [run EXCEPT ![w] = "off"] /\ query' = [query EXCEPT ![w] = NoQuery]
  BY DEF Spider!Gone, Spider!GoTo, Spider!dbVars
<1>2. QED
  BY <1>1 DEF IInv, RunInv

LEMMA DeliverKeeps ==
  ASSUME IInv, NEW w \in Workers, Deliver(w)
  PROVE  IInv'
<1> DEFINE q == Topic(holds'[w])
<1>1. PICK m \in 1..NumMessages :
        /\ mstate[m] = "ready"
        /\ mstate' = [mstate EXCEPT ![m] = "unacked"]
        /\ owner' = [owner EXCEPT ![m] = w]
        /\ holds' = [holds EXCEPT ![w] = m]
  BY DEF Deliver, Queue!Get, Queue!Ready, Queue!Messages
<1>2. /\ pc[w] = "polling" /\ pc' = [pc EXCEPT ![w] = "child"]
      /\ UNCHANGED <<sent, finished, losses, sender, logged, apiVars>>
  BY DEF Deliver, Queue!Get
<1>3. /\ run' = [run EXCEPT ![w] = "boot"] /\ query' = [query EXCEPT ![w] = q]
      /\ UNCHANGED <<job, dbFailed>>
  BY DEF Deliver, Spider!Start, Spider!GoTo, Spider!dbVars
<1>4. /\ DOMAIN pc = Workers /\ DOMAIN holds = Workers
      /\ DOMAIN run = Workers /\ DOMAIN query = Workers
      /\ DOMAIN mstate = 1..NumMessages /\ DOMAIN owner = 1..NumMessages
      /\ 1..sent \subseteq 1..NumMessages
      /\ m \in 1..sent /\ holds'[w] = m /\ q = Topic(m) /\ Topic(m) \in Queries
  BY <1>1, AtFlow, AtQueue DEF IInv
<1>5. /\ run' \in [Workers -> {"off", "boot", "crawling", "closing", "closed", "exited"}]
      /\ query' \in [Workers -> Queries \cup {NoQuery}]
  BY <1>3, <1>4 DEF IInv, RunInv
<1>6. /\ \A v \in Workers \ {w} : /\ pc'[v] = pc[v] /\ holds'[v] = holds[v]
                                  /\ run'[v] = run[v] /\ query'[v] = query[v]
      /\ pc'[w] = "child" /\ run'[w] = "boot" /\ query'[w] = Topic(holds'[w])
  BY <1>1, <1>2, <1>3, <1>4
<1>7. ASSUME NEW n \in 1..sent, Ahead(n) PROVE Ahead(n)'
  <2>1. CASE n = m
    <3>1. mstate'[n] = "unacked" /\ owner'[n] = w
      BY <1>1, <1>4, <2>1
    <3>2. Unfinished(w)'
      BY <1>6 DEF Unfinished
    <3>3. QED
      BY <3>1, <3>2 DEF Ahead
  <2>2. CASE n # m
    <3>1. mstate'[n] = mstate[n] /\ owner'[n] = owner[n]
      BY <1>1, <1>4, <2>2
    <3>2. owner[n] # w
      BY <1>2, <1>4, AtQueue DEF IInv
    <3>3. QED
      BY <1>6, <1>7, <3>1, <3>2, OthersAhead
  <2>3. QED
    BY <2>1, <2>2
<1>8. Local(w)
  BY <1>2, <1>3, <1>5, <1>6, <1>7 DEF Local
<1>9. QueueMoves(w)
  BY DEF Deliver, QueueMoves
<1>10. QED
  BY <1>8, <1>9, LocalKeeps

\* The child ends, with exit code 0 or another.
LEMMA ChildKeeps ==
  ASSUME IInv, NEW w \in Workers, ChildSucceeds(w) \/ ChildFails(w)
  PROVE  IInv'
<1>1. /\ pc[w] = "child"
      /\ UNCHANGED <<sent, mstate, owner, holds, losses, sender, logged, apiVars>>
      /\ \/ /\ run[w] = "exited" /\ pc' = [pc EXCEPT ![w] = "succeeded"]
            /\ finished' = finished \cup {holds[w]}
         \/ pc' = [pc EXCEPT ![w] = "failed"] /\ finished' = finished
  BY DEF ChildSucceeds, ChildFails, Queue!ChildSucceeds, Queue!ChildFails, Queue!brokerVars
<1>2. Spider!Gone(w)
  BY DEF ChildSucceeds, ChildFails
<1>3. DOMAIN pc = Workers /\ DOMAIN run = Workers /\ DOMAIN query = Workers
  BY AtFlow
<1>4. /\ UNCHANGED <<job, dbFailed>>
      /\ run' = [run EXCEPT ![w] = "off"] /\ query' = [query EXCEPT ![w] = NoQuery]
      /\ run' \in [Workers -> {"off", "boot", "crawling", "closing", "closed", "exited"}]
      /\ query' \in [Workers -> Queries \cup {NoQuery}]
      /\ run'[w] = "off"
  BY <1>2, GoneEffect
<1>5. /\ \A v \in Workers \ {w} : /\ pc'[v] = pc[v] /\ holds'[v] = holds[v]
                                  /\ run'[v] = run[v] /\ query'[v] = query[v]
      /\ pc'[w] # "child"
  BY <1>1, <1>3, <1>4
<1>6. ASSUME NEW n \in 1..sent, Ahead(n) PROVE Ahead(n)'
  <2>1. CASE owner[n] = w
    <3>1. mstate[n] = "unacked" /\ Unfinished(w)
      BY <1>6, <2>1, AtQueue DEF Ahead, IInv
    <3>2. run[w] # "exited"
      BY <1>1, <3>1 DEF Unfinished
    <3>3. pc'[w] = "failed"
      BY <1>1, <1>3, <3>2
    <3>4. QED
      BY <1>1, <2>1, <3>1, <3>3 DEF Ahead, Unfinished
  <2>2. CASE owner[n] # w
    BY <1>1, <1>5, <1>6, <2>2, OthersAhead
  <2>3. QED
    BY <2>1, <2>2
<1>7. Local(w)
  BY <1>1, <1>4, <1>5, <1>6 DEF Local
<1>8. QueueMoves(w)
  BY DEF ChildSucceeds, ChildFails, QueueMoves
<1>9. QED
  BY <1>7, <1>8, LocalKeeps

\* A worker that is killed takes its run with it and leaves its message ready.
LEMMA KillKeeps ==
  ASSUME IInv, NEW w \in Workers, Kill(w)
  PROVE  IInv'
<1>1. /\ pc' = [pc EXCEPT ![w] = "killed"] /\ holds' = [holds EXCEPT ![w] = 0]
      /\ UNCHANGED <<sent, finished, losses, sender, logged, apiVars>>
      /\ Queue!Settle(w, "ready")
  <2>1. /\ Queue!Kill(w) /\ UNCHANGED <<sender, apiVars>>
        /\ UNCHANGED spiderVars \/ UNCHANGED logged
    BY DEF Kill
  <2>2. QED
    BY <2>1 DEF Queue!Kill, Queue!Loop, Queue!NoMessage, spiderVars
<1>2. /\ DOMAIN pc = Workers /\ DOMAIN holds = Workers
      /\ DOMAIN run = Workers /\ DOMAIN query = Workers
  BY AtFlow
<1>3. /\ UNCHANGED <<job, dbFailed>>
      /\ \A v \in Workers \ {w} : run'[v] = run[v] /\ query'[v] = query[v]
      /\ run' \in [Workers -> {"off", "boot", "crawling", "closing", "closed", "exited"}]
      /\ query' \in [Workers -> Queries \cup {NoQuery}]
      /\ run'[w] = "off"
  <2>1. CASE run[w] = "off"
    BY <2>1 DEF Kill, spiderVars, IInv, RunInv
  <2>2. CASE run[w] # "off"
    <3>1. Spider!Gone(w)
      BY <2>2 DEF Kill
    <3>2. QED
      BY <1>2, <3>1, GoneEffect
  <2>3. QED
    BY <2>1, <2>2
<1>4. /\ \A v \in Workers \ {w} : pc'[v] = pc[v] /\ holds'[v] = holds[v]
      /\ pc'[w] # "child"
  BY <1>1, <1>2
<1>5. ASSUME NEW n \in 1..sent, Ahead(n) PROVE Ahead(n)'
  <2>1. CASE owner[n] = w
    <3>1. mstate'[n] = "ready"
      BY <1>1, <2>1, SettleMoves DEF IInv
    <3>2. QED
      BY <3>1 DEF Ahead
  <2>2. CASE owner[n] # w
    <3>1. mstate'[n] = mstate[n] /\ owner'[n] = owner[n]
      BY <1>1, <2>2, SettleMoves DEF IInv
    <3>2. QED
      BY <1>3, <1>4, <1>5, <2>2, <3>1, OthersAhead
  <2>3. QED
    BY <2>1, <2>2
<1>6. Local(w)
  BY <1>1, <1>3, <1>4, <1>5 DEF Local
<1>7. QueueMoves(w)
  BY DEF Kill, QueueMoves
<1>8. QED
  BY <1>6, <1>7, LocalKeeps

\* The steps of a worker that leave the runs alone: either it settles a message whose
\* child has ended, or it has none, or only the broker or the flag changes.
LEMMA LoopEffect ==
  ASSUME IInv, NEW w \in Workers, Settles(w) \/ Suffers(w)
  PROVE  /\ UNCHANGED <<sent, finished, spiderVars, job, sender, logged, apiVars>>
         /\ QueueMoves(w) /\ (losses' = 0 => losses = 0)
         /\ \/ /\ pc[w] = "succeeded" /\ Queue!Settle(w, "acked")
               /\ \E next \in {"polling", "raised"} : Queue!Loop(w, next)
            \/ /\ pc[w] = "failed" /\ Queue!Settle(w, "ready")
               /\ \E next \in {"polling", "raised"} : Queue!Loop(w, next)
            \/ /\ pc[w] \in {"polling", "stopped", "raised", "killed"}
               /\ UNCHANGED <<mstate, owner>>
               /\ \E next \in {"polling", "raised", "stopped"} : Queue!Loop(w, next)
            \/ Queue!Settle(w, "ready") /\ UNCHANGED <<pc, holds>>
            \/ UNCHANGED <<mstate, owner, pc, holds>>
<1>1. UNCHANGED <<spiderVars, job, sender, logged, apiVars>> /\ QueueMoves(w)
  BY DEF Settles, Suffers, spiderVars, QueueMoves
<1>2. CASE Queue!Ack(w)
  BY <1>1, <1>2 DEF Queue!Ack
<1>3. CASE Queue!Reject(w)
  BY <1>1, <1>3 DEF Queue!Reject
<1>4. CASE Queue!Stop(w)
  BY <1>1, <1>4 DEF Queue!Stop, Queue!brokerVars
<1>5. CASE Queue!GetRaises(w)
  BY <1>1, <1>5 DEF Queue!GetRaises, Queue!brokerVars
<1>6. CASE Queue!SettleRaises(w)
  BY <1>1, <1>6 DEF Queue!SettleRaises
<1>7. CASE Queue!LoseConnection(w)
  <2>1. losses \in Nat /\ losses' = losses + 1
    BY <1>7 DEF Queue!LoseConnection, IInv, TypeOK, Queue!TypeOK
  <2>2. QED
    BY <1>1, <1>7, <2>1 DEF Queue!LoseConnection
<1>8. CASE Queue!Signal(w)
  BY <1>1, <1>8 DEF Queue!Signal, Queue!brokerVars
<1>9. CASE Queue!Restart(w)
  BY <1>1, <1>9 DEF Queue!Restart, Queue!brokerVars, Queue!Down
<1>10. QED
  BY <1>2, <1>3, <1>4, <1>5, <1>6, <1>7, <1>8, <1>9 DEF Settles, Suffers

LEMMA LoopKeeps ==
  ASSUME IInv, NEW w \in Workers, Settles(w) \/ Suffers(w)
  PROVE  IInv'
<1>1. /\ UNCHANGED <<sent, finished, spiderVars, job, sender, logged, apiVars>>
      /\ QueueMoves(w) /\ (losses' = 0 => losses = 0)
  BY LoopEffect
<1>2. UNCHANGED <<run, query, dbFailed>>
  BY <1>1 DEF spiderVars
<1>3. /\ DOMAIN pc = Workers /\ DOMAIN holds = Workers
      /\ run \in [Workers -> {"off", "boot", "crawling", "closing", "closed", "exited"}]
      /\ query \in [Workers -> Queries \cup {NoQuery}]
  BY AtFlow DEF IInv, RunInv
<1>4. \/ /\ UNCHANGED <<pc, holds>>
         /\ Queue!Settle(w, "ready") \/ UNCHANGED <<mstate, owner>>
      \/ /\ pc[w] # "child" /\ pc'[w] # "child"
         /\ \A v \in Workers \ {w} : pc'[v] = pc[v] /\ holds'[v] = holds[v]
         /\ \/ pc[w] = "succeeded" /\ Queue!Settle(w, "acked")
            \/ pc[w] = "failed" /\ Queue!Settle(w, "ready")
            \/ /\ pc[w] \in {"polling", "stopped", "raised", "killed"}
               /\ UNCHANGED <<mstate, owner>>
  BY <1>3, LoopEffect DEF Queue!Loop
<1>5. /\ \A v \in Workers \ {w} : pc'[v] = pc[v] /\ holds'[v] = holds[v]
      /\ pc'[w] = "child" <=> run'[w] # "off"
      /\ run'[w] # "off" => query'[w] = Topic(holds'[w])
  BY <1>2, <1>4, AtFlow
<1>6. ASSUME NEW n \in 1..sent, Ahead(n) PROVE Ahead(n)'
  <2>1. CASE owner[n] # w
    <3>1. mstate'[n] = mstate[n] /\ owner'[n] = owner[n]
      BY <1>4, <2>1, SettleMoves DEF IInv
    <3>2. QED
      BY <1>2, <1>5, <1>6, <2>1, <3>1, OthersAhead
  <2>2. CASE owner[n] = w
    <3>1. mstate[n] = "unacked" /\ Unfinished(w) /\ holds[w] # 0
      BY <1>6, <2>2, AtQueue DEF Ahead, IInv
    <3>2. pc[w] \in {"child", "failed"}
      BY <3>1 DEF Unfinished
    <3>3. CASE Queue!Settle(w, "ready")
      <4>1. mstate'[n] = "ready"
        BY <2>2, <3>3, SettleMoves DEF IInv
      <4>2. QED
        BY <4>1 DEF Ahead
    <3>4. CASE UNCHANGED <<pc, holds, mstate, owner>>
      BY <1>2, <1>6, <3>4 DEF Ahead, Unfinished
    <3>5. QED
      BY <1>4, <3>2, <3>3, <3>4
  <2>3. QED
    BY <2>1, <2>2
<1>7. run[w] # "off" => holds'[w] = holds[w]
  BY <1>4, AtFlow
<1>8. Local(w)
  BY <1>1, <1>2, <1>3, <1>5, <1>6, <1>7 DEF Local
<1>9. QED
  BY <1>1, <1>8, LocalKeeps

\* What a step of a run does: the run writes to the row of its own query, it is closed
\* once it has logged its outcome (or the database has failed), and no later step touches
\* the status.
LEMMA CrawlEffect ==
  ASSUME IInv, NEW w \in Workers, Crawl(w)
  PROVE  /\ UNCHANGED <<query, queueVars, apiVars>> /\ dbFailed' \in {TRUE, dbFailed}
         /\ run[w] # "off" /\ run'[w] # "off"
         /\ run' \in [Workers -> {"off", "boot", "crawling", "closing", "closed", "exited"}]
         /\ \A v \in Workers \ {w} : run'[v] = run[v]
         /\ job' \in [Queries -> API!JobStatus \cup Spider!JobStatus]
         /\ \A p \in Queries \ {query[w]} : job'[p] = job[p]
         /\ logged' \in {logged, logged \cup {holds[w]}}
         /\ \/ run[w] \in {"boot", "crawling", "closing"} /\ run'[w] \in {"crawling", "closing"}
            \/ /\ run[w] = "closing" /\ run'[w] = "closed"
               /\ dbFailed' \/ (job'[query[w]] # "search_in_progress" /\ holds[w] \in logged')
            \/ run[w] = "closed" /\ run'[w] \in {"closed", "exited"} /\ job' = job
<1> DEFINE Status == API!JobStatus \cup Spider!JobStatus
           Run == {"off", "boot", "crawling", "closing", "closed", "exited"}
           q == query[w]
<1>1. /\ \/ Spider!Works(w) /\ logged' = logged
         \/ Spider!CloseSpider(w) /\ logged' = logged \cup {holds[w]}
      /\ UNCHANGED <<queueVars, apiVars>>
  BY DEF Crawl
<1>2. /\ run \in [Workers -> Run] /\ dbFailed \in BOOLEAN
      /\ job \in [Queries -> Status]
      /\ run[w] # "off" => q \in Queries
  BY AtFlow DEF IInv, RunInv, TypeOK
<1>3. ASSUME NEW s \in Run, run' = [run EXCEPT ![w] = s] \/ (run' = run /\ s = run[w])
      PROVE  run' \in [Workers -> Run] /\ run'[w] = s /\ \A v \in Workers \ {w} : run'[v] = run[v]
  BY <1>2, <1>3
<1>4. ASSUME NEW j \in Status, q \in Queries, job' = [job EXCEPT ![q] = j] \/ job' = job
      PROVE  /\ job' \in [Queries -> Status] /\ \A p \in Queries \ {q} : job'[p] = job[p]
             /\ job' = [job EXCEPT ![q] = j] => job'[q] = j
  BY <1>2, <1>4
<1>5. logged' \in {logged, logged \cup {holds[w]}}
  BY <1>1
<1>6. "search_in_progress" \in Status
  BY DEF Spider!JobStatus
<1> HIDE DEF Status
<1> USE DEF Spider!SetJob, Spider!AddEvent, Spider!GoTo, Spider!DbFails, Spider!dbVars
<1>7. CASE Spider!OpenSpider(w)
  <2>1. /\ run[w] = "boot" /\ run' = [run EXCEPT ![w] = "crawling"]
        /\ job' = [job EXCEPT ![q] = "search_in_progress"]
        /\ UNCHANGED <<query, dbFailed>>
    BY <1>7 DEF Spider!OpenSpider
  <2>2. QED
    BY <1>1, <1>2, <1>3, <1>4, <1>5, <1>6, <2>1 DEF Status
<1>8. CASE Spider!OpenSpiderRaises(w)
  <2>1. /\ run[w] = "boot" /\ run' = [run EXCEPT ![w] = "closing"]
        /\ job' = [job EXCEPT ![q] = "search_in_progress"] \/ job' = job
        /\ query' = query /\ dbFailed' \in {TRUE, dbFailed}
    BY <1>8 DEF Spider!OpenSpiderRaises
  <2>2. QED
    BY <1>1, <1>2, <1>3, <1>4, <1>5, <1>6, <2>1 DEF Status
<1>9. ASSUME NEW u \in Urls, Spider!Item(w, u) \/ Spider!ItemRaises(w, u) \/ Spider!TaskEnds(w, u)
      PROVE  /\ run[w] \in {"crawling", "closing", "closed"} /\ run' = run /\ job' = job
             /\ query' = query /\ dbFailed' \in {TRUE, dbFailed}
  BY <1>9 DEF Spider!Item, Spider!ItemRaises, Spider!TaskEnds, Spider!Open
<1>10. Spider!Block(w) =>
         /\ run[w] = "crawling"
         /\ run' = run /\ job' = job /\ query' = query /\ dbFailed' = dbFailed
  BY DEF Spider!Block
<1>11. CASE /\ run[w] \in {"crawling", "closing", "closed"} /\ run' = run /\ job' = job
            /\ query' = query /\ dbFailed' \in {TRUE, dbFailed}
  BY <1>1, <1>2, <1>5, <1>11 DEF Status
<1>12. CASE Spider!SpiderIdle(w)
  <2>1. /\ run[w] = "crawling" /\ run' = [run EXCEPT ![w] = "closing"]
        /\ UNCHANGED <<job, query, dbFailed>>
    BY <1>12 DEF Spider!SpiderIdle
  <2>2. QED
    BY <1>1, <1>2, <1>3, <1>5, <2>1 DEF Status
<1>13. Spider!Outcome(w) \in Status /\ Spider!Outcome(w) # "search_in_progress"
  <2>1. \/ Spider!Outcome(w) = "search_blocked" \/ Spider!Outcome(w) = "search_completed"
        \/ Spider!Outcome(w) = "search_completed_empty"
    BY DEF Spider!Outcome
  <2>2. QED
    BY <2>1 DEF Spider!JobStatus, Spider!Outcomes, Status
<1>14. CASE Spider!CloseSpider(w) /\ logged' = logged \cup {holds[w]}
  <2>1. /\ run[w] = "closing" /\ run' = [run EXCEPT ![w] = "closed"]
        /\ job' = [job EXCEPT ![q] = Spider!Outcome(w)]
        /\ UNCHANGED <<query, dbFailed>> /\ holds[w] \in logged'
    BY <1>14 DEF Spider!CloseSpider
  <2>2. QED
    BY <1>1, <1>2, <1>3, <1>4, <1>5, <1>13, <2>1 DEF Status
<1>15. CASE Spider!CloseSpiderRaises(w)
  <2>1. /\ run[w] = "closing" /\ run' = [run EXCEPT ![w] = "closed"]
        /\ job' = [job EXCEPT ![q] = Spider!Outcome(w)] \/ job' = job
        /\ query' = query /\ dbFailed' = TRUE
    BY <1>15 DEF Spider!CloseSpiderRaises
  <2>2. QED
    BY <1>1, <1>2, <1>3, <1>4, <1>5, <1>13, <2>1 DEF Status
<1>16. CASE Spider!Exit(w)
  <2>1. /\ run[w] = "closed" /\ run' = [run EXCEPT ![w] = "exited"]
        /\ UNCHANGED <<job, query, dbFailed>>
    BY <1>16 DEF Spider!Exit
  <2>2. QED
    BY <1>1, <1>2, <1>3, <1>5, <2>1 DEF Status
<1>17. QED
  <2>1. CASE \E u \in Urls : Spider!Item(w, u) \/ Spider!ItemRaises(w, u) \/ Spider!TaskEnds(w, u)
    BY <1>9, <1>11, <2>1
  <2>2. CASE Spider!Block(w)
    BY <1>10, <1>11, <2>2
  <2>3. QED
    BY <1>1, <1>7, <1>8, <1>12, <1>14, <1>15, <1>16, <2>1, <2>2 DEF Spider!Works

LEMMA CrawlKeeps ==
  ASSUME IInv, NEW w \in Workers, Crawl(w)
  PROVE  IInv'
<1> DEFINE q == query[w]
           m == holds[w]
<1>1. /\ query' = query /\ dbFailed' \in {TRUE, dbFailed}
      /\ UNCHANGED <<sent, mstate, owner, pc, holds, running, finished, losses, faults, sender,
                     api, input, todo>>
      /\ run[w] # "off" /\ run'[w] # "off" /\ \A v \in Workers \ {w} : run'[v] = run[v]
      /\ logged' \in {logged, logged \cup {m}}
      /\ \A p \in Queries \ {q} : job'[p] = job[p]
  BY CrawlEffect DEF queueVars, apiVars
<1>2. /\ run' \in [Workers -> {"off", "boot", "crawling", "closing", "closed", "exited"}]
      /\ job' \in [Queries -> API!JobStatus \cup Spider!JobStatus]
  BY CrawlEffect
<1>3. \/ run[w] \in {"boot", "crawling", "closing"} /\ run'[w] \in {"crawling", "closing"}
      \/ /\ run[w] = "closing" /\ run'[w] = "closed"
         /\ dbFailed' \/ (job'[q] # "search_in_progress" /\ m \in logged')
      \/ run[w] = "closed" /\ run'[w] \in {"closed", "exited"} /\ job' = job
  BY CrawlEffect
<1>4. /\ sent \in Nat /\ sender \in [1..sent -> Handlers] /\ pc[w] = "child"
      /\ m \in 1..sent /\ Topic(m) = q /\ q \in Queries
  BY <1>1, AtFlow, AtQueue DEF IInv
<1>5. QueueProofs!IInv' /\ Queue!TypeOK'
  BY <1>1, QueueKeeps DEF IInv
<1>6. /\ sender' \in [1..sent' -> Handlers] /\ logged' \subseteq 1..sent'
      /\ \A v \in Workers : pc'[v] = "child" <=> run'[v] # "off"
      /\ (\A v \in Workers : run[v] # "off" => query[v] = Topic(holds[v]))'
  BY <1>1, <1>4, AtFlow DEF Topic
<1>7. RunInv' /\ ApiInv'
  BY <1>1, <1>2 DEF IInv, RunInv, ApiInv
<1>8. LogInv'
  <2>1. ASSUME NEW v \in Workers, run'[v] \in {"closed", "exited"}
        PROVE  \/ run[v] \in {"closed", "exited"} /\ holds'[v] = holds[v]
               \/ Logged(holds[v])'
    <3>1. CASE v = w
      BY <1>1, <1>3, <2>1, <3>1 DEF Logged
    <3>2. CASE v # w
      BY <1>1, <2>1, <3>2
    <3>3. QED
      BY <3>1, <3>2
  <2>2. (dbFailed => dbFailed') /\ logged \subseteq logged'
    <3>1. dbFailed => dbFailed'
      BY Zenon, <1>1 DEF IInv, RunInv
    <3>2. logged \subseteq logged'
      BY <1>1
    <3>3. QED
      BY <3>1, <3>2
  <2>3. /\ sent' \in Nat /\ sent <= sent' /\ finished' = finished
    BY <1>1, <1>4
  <2>4. LogInv
    BY DEF IInv
  <2>5. QED
    BY <1>1, <2>1, <2>2, <2>3, <2>4, LogKeeps
<1>9. LiveInv'
  <2>1. CASE dbFailed'
    BY <2>1 DEF LiveInv
  <2>2. CASE ~dbFailed'
    <3>1. ASSUME NEW n \in 1..sent, Ahead(n), job'[Topic(n)] = "search_in_progress"
          PROVE  Ahead(n)'
      <4>1. CASE owner[n] = w
        <5>1. mstate[n] = "unacked" /\ n = m /\ Unfinished(w)
          BY <3>1, <4>1, AtQueue DEF Ahead, IInv
        <5>2. run'[w] \in {"crawling", "closing"}
          BY <1>3, <1>4, <2>2, <3>1, <5>1 DEF Unfinished
        <5>3. QED
          BY <1>1, <1>4, <4>1, <5>1, <5>2 DEF Ahead, Unfinished
      <4>2. CASE owner[n] # w
        BY <1>1, <3>1, <4>2, OthersAhead
      <4>3. QED
        BY <4>1, <4>2
    <3>2. ASSUME NEW p \in Queries, losses' = 0, job'[p] = "search_in_progress"
          PROVE  \/ job[p] = "search_in_progress"
                 \/ \E n \in 1..sent' : Topic(n)' = p /\ Ahead(n)'
      <4>1. CASE job[p] = job'[p]
        BY <3>2, <4>1
      <4>2. CASE job[p] # job'[p]
        <5>1. p = q
          BY <1>1, <4>2
        <5>2. run'[w] \in {"crawling", "closing"}
          BY <1>3, <2>2, <3>2, <4>2, <5>1
        <5>3. owner[m] = w /\ mstate[m] = "unacked"
          BY <1>1, <1>4, <3>2, AtQueue DEF IInv
        <5>4. Ahead(holds[w])'
          BY <1>1, <1>4, <5>2, <5>3 DEF Ahead, Unfinished
        <5>5. m \in 1..sent' /\ (Topic(holds[w]))' = p /\ holds'[w] = m
          BY <1>1, <1>4, <5>1 DEF Topic
        <5>6. QED
          BY <5>4, <5>5
      <4>3. QED
        BY <4>1, <4>2
    <3>3. /\ sent' \in Nat /\ sent <= sent' /\ losses' = losses
          /\ \A n \in 1..sent : sender'[n] = sender[n]
      BY <1>1, <1>4
    <3>4. ~dbFailed
      BY <1>1, <2>2
    <3>5. LiveInv
      BY DEF IInv
    <3>6. \A n \in 1..sent : (Ahead(n) /\ job'[Topic(n)] = "search_in_progress") => Ahead(n)'
      BY <3>1
    <3>7. \A p \in Queries : (losses' = 0 /\ ~dbFailed' /\ job'[p] = "search_in_progress") =>
            \/ job[p] = "search_in_progress"
            \/ \E n \in 1..sent' : Topic(n)' = p /\ Ahead(n)'
      BY <3>2
    <3>8. QED
      BY <1>4, <3>3, <3>4, <3>5, <3>6, <3>7, LiveKeeps
  <2>3. QED
    BY <2>1, <2>2
<1>10. QED
  BY <1>2, <1>5, <1>6, <1>7, <1>8, <1>9, ToIInv

LEMMA InitIInv == Init => IInv
<1> SUFFICES ASSUME Init PROVE IInv
  OBVIOUS
<1>1. QueueProofs!IInv
  <2>1. QueueProofs!Init
    BY DEF Init, Queue!Init, QueueProofs!Init, Queue!Messages, QueueProofs!Messages,
           Queue!NoMessage, QueueProofs!NoMessage
  <2>2. QED
    BY <2>1, QueueAssumption, QueueProofs!InitIInv
<1>2. Queue!TypeOK
  BY <1>1
     DEF QueueProofs!IInv, QueueProofs!TypeOK, Queue!TypeOK, Queue!Messages, QueueProofs!Messages,
         Queue!Alive, QueueProofs!Alive, Queue!Down, QueueProofs!Down,
         Queue!NoMessage, QueueProofs!NoMessage
<1>3. /\ sent = 0 /\ sender = <<>> /\ logged = {} /\ finished = {}
      /\ \A w \in Workers : pc[w] = "polling" /\ run[w] = "off"
      /\ job = [p \in Queries |-> "none"]
  BY DEF Init, Queue!Init, API!Init
<1>4. TypeOK
  <2>1. job \in [Queries -> API!JobStatus \cup Spider!JobStatus]
    BY <1>3 DEF API!JobStatus
  <2>2. sender \in [1..sent -> Handlers] /\ logged \subseteq 1..sent
    BY <1>3
  <2>3. QED
    BY <1>2, <1>3, <2>1, <2>2 DEF TypeOK
<1>5. RunInv
  BY <1>3 DEF Init, RunInv
<1>6. ApiInv
  BY DEF Init, API!Init, ApiInv, API!InFlight
<1>7. LogInv /\ LiveInv
  BY <1>3 DEF LogInv, LiveInv
<1>8. QED
  BY <1>1, <1>4, <1>5, <1>6, <1>7 DEF IInv

LEMMA NextIInv == IInv /\ [Next]_vars => IInv'
<1> SUFFICES ASSUME IInv, [Next]_vars PROVE IInv'
  OBVIOUS
<1>1. job \in [Queries -> API!JobStatus \cup Spider!JobStatus] /\ ApiInv
  BY DEF IInv, TypeOK
<1>2. ASSUME NEW h \in Handlers, Begin(h) PROVE IInv'
  <2>1. Tells /\ ApiInv'
    BY <1>1, <1>2, BeginTells, MovesKeep DEF Begin
  <2>2. QED
    BY <1>2, <2>1, ApiKeeps DEF Begin
<1>3. ASSUME NEW h \in Handlers, Continue(h) PROVE IInv'
  <2>1. Tells /\ ApiInv'
    BY <1>1, <1>3, ContinueTells, MovesKeep DEF Continue
  <2>2. \/ UNCHANGED queueVars
        \/ Queue!Publish /\ \E g \in Handlers : sender' = Append(sender, g)
    BY <1>3 DEF Continue
  <2>3. QED
    BY <1>3, <2>1, <2>2, ApiKeeps DEF Continue
<1>4. CASE Crash
  <2>1. Tells /\ ApiInv'
    BY <1>1, <1>4, CrashTells DEF Crash
  <2>2. QED
    BY <1>4, <2>1, ApiKeeps DEF Crash
<1>5. ASSUME NEW w \in Workers,
             \/ Deliver(w) \/ ChildSucceeds(w) \/ ChildFails(w) \/ Settles(w)
             \/ Kill(w) \/ Suffers(w) \/ Crawl(w)
      PROVE  IInv'
  BY <1>5, DeliverKeeps, ChildKeeps, KillKeeps, LoopKeeps, CrawlKeeps
<1>6. CASE UNCHANGED vars
  <2>1. Tells
    BY <1>1, <1>6 DEF vars, Tells
  <2>2. ApiInv'
    BY <1>1, <1>6 DEF vars, apiVars, ApiInv
  <2>3. UNCHANGED <<queueVars, spiderVars>>
    BY <1>6 DEF vars
  <2>4. QED
    BY <2>1, <2>2, <2>3, ApiKeeps
<1>7. QED
  BY <1>2, <1>3, <1>4, <1>5, <1>6 DEF Next

LEMMA Invariance == Spec => []IInv
<1>1. QED
  BY InitIInv, NextIInv, PTL DEF Spec

------------------------------------------------------------------------------
(* The composition is a queue for its API and its workers. *)

\* Every step moves the queue as WorkerRuntime says, or leaves it alone.
LEMMA QueueStep == [Next]_vars => [Queue!Next]_Queue!vars
<1> SUFFICES ASSUME [Next]_vars PROVE [Queue!Next]_Queue!vars
  OBVIOUS
<1>1. UNCHANGED queueVars => UNCHANGED Queue!vars
  BY DEF queueVars, Queue!vars
<1>2. ASSUME NEW h \in Handlers, Begin(h) \/ Continue(h) PROVE [Queue!Next]_Queue!vars
  BY <1>1, <1>2 DEF Begin, Continue, Queue!Next
<1>3. CASE Crash
  BY <1>1, <1>3 DEF Crash
<1>4. ASSUME NEW w \in Workers,
             \/ Deliver(w) \/ ChildSucceeds(w) \/ ChildFails(w) \/ Settles(w)
             \/ Kill(w) \/ Suffers(w)
      PROVE  Queue!Next
  <2>1. QueueMoves(w)
    BY <1>4 DEF Deliver, ChildSucceeds, ChildFails, Settles, Kill, Suffers, QueueMoves
  <2>2. QED
    BY <2>1 DEF QueueMoves, Queue!Next
<1>5. ASSUME NEW w \in Workers, Crawl(w) PROVE UNCHANGED queueVars
  BY <1>5 DEF Crawl
<1>6. CASE UNCHANGED vars
  BY <1>1, <1>6 DEF vars
<1>7. QED
  BY <1>1, <1>2, <1>3, <1>4, <1>5, <1>6 DEF Next

------------------------------------------------------------------------------
(* What was accepted is in the queue. *)

\* A handler has a message in the queue only once it has published, and a handler that
\* has gone on from there, or has answered 202, has left a message of its own.
HasMessage(h) == \E m \in 1..sent : sender[m] = h
QueuedInv ==
  /\ DOMAIN answer = Handlers
  /\ \A p \in published : p.by \in Handlers /\ api[p.by] \notin {"idle", "stage"}
  /\ \A h \in Handlers : (api[h] = "event" \/ answer[h] = 202) => HasMessage(h)

\* A beginning publishes nothing and accepts nothing.
LEMMA BeginQueued ==
  ASSUME IInv, QueuedInv, NEW h \in Handlers, Begin(h)
  PROVE  QueuedInv'
<1>0. job \in [Queries -> API!JobStatus \cup Spider!JobStatus] /\ ApiInv /\ DOMAIN api = Handlers
  BY DEF IInv, TypeOK, ApiInv
<1>1. /\ api[h] = "idle" /\ published' = published
      /\ api' = [api EXCEPT ![h] = "answered"] \/ api' = [api EXCEPT ![h] = "stage"]
      /\ \/ answer' = answer
         \/ \E code : code # 202 /\ answer' = [answer EXCEPT ![h] = code]
  BY <1>0, BeginTells DEF Begin, Moves, API!InFlight
<1>2. UNCHANGED <<sent, sender>>
  BY DEF Begin, queueVars
<1>4. \A p \in published' : p.by \in Handlers /\ api'[p.by] \notin {"idle", "stage"}
  BY <1>0, <1>1 DEF QueuedInv
<1>5. ASSUME NEW g \in Handlers, api'[g] = "event" \/ answer'[g] = 202
      PROVE  api[g] = "event" \/ answer[g] = 202
  BY <1>0, <1>1, <1>5 DEF QueuedInv
<1>6. DOMAIN answer' = Handlers
  BY <1>1 DEF QueuedInv
<1>7. \A g \in Handlers : HasMessage(g) => HasMessage(g)'
  BY <1>2 DEF HasMessage
<1>8. QED
  BY <1>4, <1>5, <1>6, <1>7 DEF QueuedInv

\* A handler goes on to tell the event log only with its message in the queue, and says
\* 202 only after that.
LEMMA ContinueQueued ==
  ASSUME IInv, QueuedInv, NEW h \in Handlers, Continue(h)
  PROVE  QueuedInv'
<1>0. job \in [Queries -> API!JobStatus \cup Spider!JobStatus] /\ ApiInv /\ DOMAIN api = Handlers
  BY DEF IInv, TypeOK, ApiInv
<1>1. /\ api[h] \in API!InFlight
      /\ \/ /\ api[h] = "stage" /\ api' = [api EXCEPT ![h] = "event"] /\ answer' = answer
            /\ published' = published \cup {API!Message(h)}
         \/ /\ api' = [api EXCEPT ![h] = "answered"]
            /\ published' \in {published, published \cup {API!Message(h)}}
            /\ \E code : /\ answer' = [answer EXCEPT ![h] = code]
                         /\ code = 202 => api[h] = "event"
  BY <1>0, ContinueTells DEF Continue
<1>2. api[h] \notin {"idle", "answered"}
  BY <1>1 DEF API!InFlight
<1>3. API!Message(h).by = h
  BY DEF API!Message
<1>4. published' # published => Queue!Publish /\ sender' = Append(sender, h)
  BY DEF Continue
<1>5. published' = published => UNCHANGED <<sent, sender>>
  BY DEF Continue, queueVars
<1>6. \A g \in Handlers : HasMessage(g) => HasMessage(g)'
  <2>1. CASE published' = published
    BY <1>5, <2>1 DEF HasMessage
  <2>2. CASE published' # published
    <3>1. /\ sent \in Nat /\ sent' = sent + 1
          /\ \A m \in 1..sent : sender'[m] = sender[m]
      BY <1>4, <2>2, SenderGrows
    <3>2. \A m \in 1..sent : m \in 1..sent'
      BY <3>1
    <3>3. QED
      BY <3>1, <3>2 DEF HasMessage
  <2>3. QED
    BY <2>1, <2>2
<1>7. \A p \in published' : p.by \in Handlers /\ api'[p.by] \notin {"idle", "stage"}
  BY <1>0, <1>1, <1>3 DEF QueuedInv
<1>8. CASE /\ api[h] = "stage" /\ api' = [api EXCEPT ![h] = "event"] /\ answer' = answer
           /\ published' = published \cup {API!Message(h)}
  <2>1. published' # published
    BY <1>3, <1>8 DEF QueuedInv
  <2>2. HasMessage(h)'
    <3>1. sent \in Nat /\ sent' = sent + 1 /\ sender'[sent'] = h
      BY <1>4, <2>1, SenderGrows
    <3>2. sent' \in 1..sent'
      BY <3>1
    <3>3. QED
      BY <3>1, <3>2 DEF HasMessage
  <2>3. \A g \in Handlers : (api'[g] = "event" \/ answer'[g] = 202) => HasMessage(g)'
    BY <1>0, <1>6, <1>8, <2>2 DEF QueuedInv
  <2>4. QED
    BY <1>7, <1>8, <2>3 DEF QueuedInv
<1>9. ASSUME api' = [api EXCEPT ![h] = "answered"],
             NEW code, answer' = [answer EXCEPT ![h] = code], code = 202 => api[h] = "event"
      PROVE  QueuedInv'
  <2>1. \A g \in Handlers : (api'[g] = "event" \/ answer'[g] = 202) => HasMessage(g)'
    BY <1>0, <1>6, <1>9 DEF QueuedInv
  <2>2. DOMAIN answer' = Handlers
    BY <1>9 DEF QueuedInv
  <2>3. QED
    BY <1>7, <2>1, <2>2 DEF QueuedInv
<1>10. QED
  BY <1>1, <1>8, <1>9

\* Workers and their runs leave the API and its messages as they are.
LEMMA WorkersLeaveApi ==
  ASSUME NEW w \in Workers,
         \/ Deliver(w) \/ ChildSucceeds(w) \/ ChildFails(w) \/ Settles(w)
         \/ Kill(w) \/ Suffers(w) \/ Crawl(w)
  PROVE  UNCHANGED <<sent, sender, published, api, answer>>
<1> USE DEF apiVars, queueVars, Queue!brokerVars
<1>1. CASE Deliver(w) \/ Kill(w)
  BY <1>1 DEF Deliver, Kill, Queue!Get, Queue!Kill
<1>2. CASE ChildSucceeds(w) \/ ChildFails(w)
  BY <1>2 DEF ChildSucceeds, ChildFails, Queue!ChildSucceeds, Queue!ChildFails
<1>3. CASE Settles(w)
  BY <1>3 DEF Settles, Queue!Ack, Queue!Reject, Queue!Stop
<1>4. CASE Suffers(w)
  BY <1>4 DEF Suffers, Queue!GetRaises, Queue!SettleRaises, Queue!LoseConnection, Queue!Signal,
              Queue!Restart
<1>5. CASE Crawl(w)
  BY <1>5 DEF Crawl
<1>6. QED
  BY <1>1, <1>2, <1>3, <1>4, <1>5

LEMMA NextQueued == IInv /\ QueuedInv /\ [Next]_vars => QueuedInv'
<1> SUFFICES ASSUME IInv, QueuedInv, [Next]_vars PROVE QueuedInv'
  OBVIOUS
<1>1. ASSUME NEW h \in Handlers, Begin(h) \/ Continue(h) PROVE QueuedInv'
  BY <1>1, BeginQueued, ContinueQueued
<1>2. CASE Crash
  <2>1. /\ \A h \in Handlers : api'[h] = api[h] \/ api'[h] = "lost"
        /\ UNCHANGED <<sent, sender, published, answer>>
    BY <1>2 DEF Crash, API!Crash, queueVars
  <2>2. QED
    BY <2>1 DEF QueuedInv, HasMessage
<1>3. ASSUME NEW w \in Workers,
             \/ Deliver(w) \/ ChildSucceeds(w) \/ ChildFails(w) \/ Settles(w)
             \/ Kill(w) \/ Suffers(w) \/ Crawl(w)
      PROVE  QueuedInv'
  BY <1>3, WorkersLeaveApi DEF QueuedInv, HasMessage
<1>4. CASE UNCHANGED vars
  BY <1>4 DEF vars, apiVars, queueVars, QueuedInv, HasMessage
<1>5. QED
  BY <1>1, <1>2, <1>3, <1>4 DEF Next

------------------------------------------------------------------------------
(* The records of the runs. *)

\* What a run counted or queued is stored for its query.
StoredInv ==
  /\ DOMAIN records = Queries /\ DOMAIN tasks = Workers /\ DOMAIN found = Workers
  /\ \A w \in Workers : run[w] # "off" =>
       tasks[w] \subseteq records[query[w]] /\ found[w] \subseteq records[query[w]]
  /\ Spider!ForwardedIsStored
  /\ Spider!CompletedHasRecords

\* The steps of a run keep it: records only grow, and only a run that has counted
\* something ends as completed.
LEMMA RunStored ==
  ASSUME IInv, StoredInv, NEW w \in Workers,
         \/ \E q : Spider!Start(w, q)
         \/ Spider!Inner(w) \/ Spider!Gone(w)
  PROVE  StoredInv'
<1>1. /\ DOMAIN run = Workers /\ DOMAIN query = Workers /\ DOMAIN job = Queries
      /\ \A v \in Workers : run[v] # "off" => query[v] \in Queries
  BY AtFlow DEF IInv, TypeOK
<1> DEFINE q == query[w]
<1> USE DEF StoredInv, Spider!ForwardedIsStored, Spider!CompletedHasRecords, Spider!SetJob,
            Spider!GoTo, Spider!dbVars, Spider!Open
<1>2. ASSUME NEW p, Spider!Start(w, p) PROVE StoredInv'
  BY <1>1, <1>2 DEF Spider!Start
<1>3. CASE Spider!Gone(w)
  BY <1>1, <1>3 DEF Spider!Gone
<1>4. CASE Spider!OpenSpider(w)
  BY <1>1, <1>4 DEF Spider!OpenSpider
<1>5. CASE Spider!OpenSpiderRaises(w)
  BY <1>1, <1>5 DEF Spider!OpenSpiderRaises
<1>6. ASSUME NEW u \in Urls, Spider!Item(w, u) PROVE StoredInv'
  BY <1>1, <1>6 DEF Spider!Item
<1>7. ASSUME NEW u \in Urls, Spider!ItemRaises(w, u) PROVE StoredInv'
  BY <1>1, <1>7 DEF Spider!ItemRaises
<1>8. ASSUME NEW u \in Urls, Spider!TaskEnds(w, u) PROVE StoredInv'
  BY <1>1, <1>8 DEF Spider!TaskEnds
<1>9. CASE Spider!Block(w) \/ Spider!SpiderIdle(w) \/ Spider!Exit(w)
  BY <1>1, <1>9 DEF Spider!Block, Spider!SpiderIdle, Spider!Exit
<1>10. Spider!Outcome(w) = "search_completed" => found[w] # {}
  BY DEF Spider!Outcome
<1>11. CASE Spider!CloseSpider(w) \/ Spider!CloseSpiderRaises(w)
  BY <1>1, <1>10, <1>11 DEF Spider!CloseSpider, Spider!CloseSpiderRaises
<1>12. QED
  BY <1>2, <1>3, <1>4, <1>5, <1>6, <1>7, <1>8, <1>9, <1>11 DEF Spider!Works, Spider!Inner

\* A step that leaves the runs alone, and completes no query, keeps it too.
LEMMA OthersStored ==
  ASSUME StoredInv, UNCHANGED spiderVars,
         \A q \in Queries : job'[q] = "search_completed" => job[q] = "search_completed"
  PROVE  StoredInv'
BY DEF StoredInv, spiderVars, Spider!ForwardedIsStored, Spider!CompletedHasRecords

LEMMA NextStored == IInv /\ StoredInv /\ [Next]_vars => StoredInv'
<1> SUFFICES ASSUME IInv, StoredInv, [Next]_vars PROVE StoredInv'
  OBVIOUS
<1>1. job \in [Queries -> API!JobStatus \cup Spider!JobStatus] /\ ApiInv
  BY DEF IInv, TypeOK
<1>2. ASSUME NEW h \in Handlers, Begin(h) \/ Continue(h) PROVE StoredInv'
  <2>1. Tells
    BY <1>1, <1>2, BeginTells, ContinueTells DEF Begin, Continue
  <2>2. QED
    BY <1>2, <2>1, OthersStored DEF Begin, Continue, Tells
<1>3. CASE Crash
  <2>1. Tells
    BY <1>1, <1>3, CrashTells DEF Crash
  <2>2. QED
    BY <1>3, <2>1, OthersStored DEF Crash, Tells
<1>4. ASSUME NEW w \in Workers, Deliver(w) \/ ChildSucceeds(w) \/ ChildFails(w) \/ Crawl(w)
      PROVE  StoredInv'
  BY <1>4, RunStored DEF Deliver, ChildSucceeds, ChildFails, Crawl, Spider!Inner
<1>5. ASSUME NEW w \in Workers, Kill(w) PROVE StoredInv'
  <2>1. CASE run[w] = "off"
    BY <1>5, <2>1, OthersStored DEF Kill
  <2>2. CASE run[w] # "off"
    BY <1>5, <2>2, RunStored DEF Kill
  <2>3. QED
    BY <2>1, <2>2
<1>6. ASSUME NEW w \in Workers, Settles(w) \/ Suffers(w) PROVE StoredInv'
  BY <1>6, OthersStored DEF Settles, Suffers
<1>7. CASE UNCHANGED vars
  BY <1>7, OthersStored DEF vars
<1>8. QED
  BY <1>2, <1>3, <1>4, <1>5, <1>6, <1>7 DEF Next

LEMMA FlowInvariance == Spec => [](IInv /\ QueuedInv /\ StoredInv)
<1>1. Init => QueuedInv /\ StoredInv
  BY DEF Init, API!Init, QueuedInv, StoredInv, Spider!ForwardedIsStored, Spider!CompletedHasRecords
<1>2. QED
  BY <1>1, InitIInv, NextIInv, NextQueued, NextStored, PTL DEF Spec

------------------------------------------------------------------------------
(* The theorems. *)

\* A worker has a spider run exactly while it waits for its child, and the run is about
\* the query of the message it holds, whatever the database, the API and the broker do.
THEOREM TypeCorrect == Spec => []TypeOK
<1>1. IInv => TypeOK
  BY DEF IInv
<1>2. QED
  BY <1>1, Invariance, PTL

\* No query is left "search_in_progress" with nothing in the queue that will bring it to
\* an end: neither a crash of the API nor the death of a worker or of a spider does that.
THEOREM InProgressLive == Spec => []InProgressIsLive
<1>1. IInv => InProgressIsLive
  <2> SUFFICES ASSUME IInv, NEW q \in Queries, job[q] = "search_in_progress",
                      ~dbFailed, ~(losses > 0)
               PROVE  \E m \in 1..sent : Topic(m) = q /\ mstate[m] \in {"ready", "unacked"}
    BY DEF InProgressIsLive
  <2>1. losses = 0
    BY DEF IInv, TypeOK, Queue!TypeOK
  <2>2. PICK m \in 1..sent : Topic(m) = q /\ Ahead(m)
    BY <2>1 DEF IInv, LiveInv
  <2>3. QED
    BY <2>2 DEF Ahead
<1>2. QED
  BY <1>1, Invariance, PTL

\* A search request leaves the queue only after a run for this very request has logged
\* its outcome: the worker acks on the exit code alone, and the code is 0 only after the spider has closed.
THEOREM AckedLogged == Spec => []AckedIsLogged
<1>1. IInv => AckedIsLogged
  <2> SUFFICES ASSUME IInv, NEW m \in 1..sent, mstate[m] = "acked"
               PROVE  m \in logged \/ dbFailed
    BY DEF AckedIsLogged
  <2>1. m \in finished
    BY AtQueue DEF IInv
  <2>2. QED
    BY <2>1 DEF IInv, LogInv, Logged
<1>2. QED
  BY <1>1, Invariance, PTL

\* What the API was told is queued is not forgotten: a search that was answered 202 has a
\* message of its own that will be delivered (again), or a run for this very message has
\* logged its outcome, or the database failed under a run.  What other searches of the
\* query did does not count.  This is AcceptedSearchEnds without its "in the end".
AcceptedNotLost ==
  \A h \in Handlers : answer[h] = 202 =>
    \E m \in 1..sent : /\ sender[m] = h
                       /\ mstate[m] \in {"ready", "unacked"} \/ m \in logged \/ dbFailed

\* At every moment, whatever crashes, dies, disconnects or raises, the message of an
\* accepted search is still in the queue, or its own run has ended.
THEOREM AcceptedKept == Spec => []AcceptedNotLost
<1>1. IInv /\ QueuedInv => AcceptedNotLost
  <2> SUFFICES ASSUME IInv, QueuedInv, NEW h \in Handlers, answer[h] = 202
               PROVE  \E m \in 1..sent :
                        /\ sender[m] = h
                        /\ mstate[m] \in {"ready", "unacked"} \/ m \in logged \/ dbFailed
    BY DEF AcceptedNotLost
  <2>1. PICK m \in 1..sent : sender[m] = h
    BY DEF QueuedInv, HasMessage
  <2>2. m \in 1..NumMessages /\ sent \in Nat
    BY AtQueue DEF IInv
  <2>3. mstate[m] \in {"ready", "unacked", "acked"}
    BY <2>2
       DEF IInv, QueueProofs!IInv, QueueProofs!TypeOK, QueueProofs!SentInv, QueueProofs!Messages
  <2>4. mstate[m] = "acked" => m \in logged \/ dbFailed
    BY <2>2, AtQueue DEF IInv, LogInv, Logged
  <2>5. QED
    BY <2>1, <2>3, <2>4
<1>2. QED
  BY <1>1, FlowInvariance, PTL

\* What the API and the spider runs do to the queue is what WorkerRuntime allows: its
\* theorems hold of the queue of the search stage.
THEOREM FlowIsQueue == Spec => Queue!Spec
<1>1. Init => Queue!Init
  BY DEF Init
<1>2. QED
  BY <1>1, QueueStep, PTL DEF Spec, Queue!Spec

\* So the promise of AtLeastOnce reaches the API: a search request it has published is
\* pending until a child has exited with code 0 for it, and only then done.
THEOREM FlowKeepsPromise == Spec => QueueProofs!ImplementsAtLeastOnce
<1>1. Init => QueueProofs!Init
  BY DEF Init, Queue!Init, QueueProofs!Init, Queue!Messages, QueueProofs!Messages,
         Queue!NoMessage, QueueProofs!NoMessage
<1>2. [Next]_vars => [QueueProofs!Next]_QueueProofs!vars
  <2> SUFFICES ASSUME [Queue!Next]_Queue!vars PROVE [QueueProofs!Next]_QueueProofs!vars
    BY QueueStep
  <2>1. CASE Queue!Publish
    BY <2>1 DEF Queue!Publish, QueueProofs!Publish, QueueProofs!Next
  <2>2. ASSUME NEW w \in Workers, QueueMoves(w) PROVE QueueProofs!Next
    BY <2>2, SameQueue
  <2>3. CASE UNCHANGED Queue!vars
    BY <2>3 DEF Queue!vars, QueueProofs!vars
  <2>4. QED
    BY <2>1, <2>2, <2>3 DEF Queue!Next, QueueMoves
<1>3. Spec => QueueProofs!Spec
  BY <1>1, <1>2, PTL DEF Spec, QueueProofs!Spec
<1>4. QED
  BY <1>3, QueueAssumption, QueueProofs!QueueKeepsPromise

\* No search request is out for delivery to a worker that will not settle it, and two
\* workers search for the same request at once only after a lost connection, also when a
\* spider run dies with its worker or the API crashes in between.
THEOREM DeliveriesSound == Spec => [](Queue!NoOrphanDelivery /\ Queue!DuplicateRunNeedsLoss)
<1>1. QueueProofs!IInv => Queue!NoOrphanDelivery /\ Queue!DuplicateRunNeedsLoss
  BY QueueAssumption
     DEF QueueProofs!IInv, QueueProofs!TypeOK, QueueProofs!JobInv, QueueProofs!OwnerInv,
         QueueProofs!LossInv, QueueProofs!Messages, QueueProofs!NoMessage, QueueProofs!Alive,
         QueueProofs!Down, Queue!NoOrphanDelivery, Queue!DuplicateRunNeedsLoss, Queue!Messages,
         Queue!NoMessage, Queue!Alive
<1>2. IInv => QueueProofs!IInv
  BY DEF IInv
<1>3. QED
  BY <1>1, <1>2, Invariance, PTL

\* What SearchPipeline shows of runs alone holds with the API writing the same rows: an
\* enrich request is about a stored record, and a query that reads "search_completed" has
\* records, however retries, redeliveries and deaths mix.
THEOREM FlowKeepsRecords == Spec => [](Spider!ForwardedIsStored /\ Spider!CompletedHasRecords)
<1>1. StoredInv => Spider!ForwardedIsStored /\ Spider!CompletedHasRecords
  BY DEF StoredInv
<1>2. QED
  BY <1>1, FlowInvariance, PTL
==============================================================================
