---------------------------- MODULE WorkerRuntime ----------------------------
(***************************************************************************)
(* The worker processes of one stage queue (src/face/worker_runtime.py)    *)
(* and the broker as their consumer uses it (src/face/queues.py,           *)
(* RabbitMQConsumer).                                                      *)
(*                                                                         *)
(* A worker loops: it fetches one message on a connection of its own, runs *)
(* the spider in a child process and waits for it, then acks the message   *)
(* (exit code 0) or rejects it with requeue (any other exit code).  The    *)
(* wait blocks the worker's event loop, so nothing answers heartbeats while *)
(* the spider runs: the broker may drop the connection and hand the        *)
(* message to another worker although the child is still at work.          *)
(***************************************************************************)
EXTENDS Naturals

CONSTANTS Workers,     \* worker processes consuming this queue
          NoWorker,    \* owner of a message that is not out for delivery
          NumMessages, \* how many messages publishers send
          Poison,      \* messages whose spider process never exits with code 0
          MaxLosses,   \* bound: connections the broker drops under a worker
          MaxFaults    \* bound: failed fetches, children and closes, kills and signals

\* A message is named by its place in the order of publication.
Messages == 1..NumMessages
NoMessage == 0

ASSUME WorkerRuntimeAssumption ==
  /\ NumMessages \in Nat
  /\ Poison \subseteq Messages
  /\ NoWorker \notin Workers
  /\ MaxLosses \in Nat
  /\ MaxFaults \in Nat

VARIABLES
  sent,      \* number of messages published so far
  mstate,    \* broker: "unsent", "ready", "unacked" or "acked", per message
  owner,     \* broker: the worker on whose live channel the message is out
  pc,        \* worker: where its loop is, or how its process ended
  job,       \* worker: the message it is working on
  running,   \* worker: the module's flag `running`, cleared by a signal
  finished,  \* messages some child process finished with exit code 0
  losses,    \* connections the broker dropped so far
  faults     \* other faults so far

brokerVars == <<sent, mstate, owner>>
vars == <<sent, mstate, owner, pc, job, running, finished, losses, faults>>

Alive == {"polling", "child", "succeeded", "failed"}
Down == {"stopped", "raised", "killed"}

TypeOK ==
  /\ sent \in 0..NumMessages
  /\ mstate \in [Messages -> {"unsent", "ready", "unacked", "acked"}]
  /\ owner \in [Messages -> Workers \cup {NoWorker}]
  /\ pc \in [Workers -> Alive \cup Down]
  /\ job \in [Workers -> Messages \cup {NoMessage}]
  /\ running \in [Workers -> BOOLEAN]
  /\ finished \in SUBSET Messages
  /\ losses \in 0..MaxLosses
  /\ faults \in 0..MaxFaults

Init ==
  /\ sent = 0
  /\ mstate = [m \in Messages |-> "unsent"]
  /\ owner = [m \in Messages |-> NoWorker]
  /\ pc = [w \in Workers |-> "polling"]
  /\ job = [w \in Workers |-> NoMessage]
  /\ running = [w \in Workers |-> TRUE]
  /\ finished = {}
  /\ losses = 0
  /\ faults = 0

------------------------------------------------------------------------------
(* The broker. *)

Ready == {m \in Messages : mstate[m] = "ready"}

\* The broker still counts w's message as out for delivery to w.
Owns(w) == job[w] # NoMessage /\ owner[job[w]] = w

\* What w's channel does to its message when it settles it, or closes under it.
\* A settlement that arrives on a channel the broker has dropped changes nothing.
Settle(w, to) ==
  IF Owns(w)
  THEN /\ mstate' = [mstate EXCEPT ![job[w]] = to]
       /\ owner' = [owner EXCEPT ![job[w]] = NoWorker]
  ELSE UNCHANGED <<mstate, owner>>

Fault == faults < MaxFaults /\ faults' = faults + 1

\* A durable message reaches the queue.
Publish ==
  /\ sent < NumMessages
  /\ sent' = sent + 1
  /\ mstate' = [mstate EXCEPT ![sent + 1] = "ready"]
  /\ UNCHANGED <<owner, pc, job, running, finished, losses, faults>>

\* Missed heartbeats, or the network: the broker closes w's connection and puts
\* the message back at its place in the queue.  The worker does not notice.
LoseConnection(w) ==
  /\ Owns(w)
  /\ losses < MaxLosses
  /\ losses' = losses + 1
  /\ Settle(w, "ready")
  /\ UNCHANGED <<sent, pc, job, running, finished, faults>>

------------------------------------------------------------------------------
(* The worker loop. *)

Loop(w, next) ==
  /\ pc' = [pc EXCEPT ![w] = next]
  /\ job' = [job EXCEPT ![w] = NoMessage]

\* Mutant of Get: the fetch closes its connection before the loop has the message.
GetClosesEarly(w) ==
  /\ pc[w] = "polling"
  /\ running[w]
  /\ \E m \in Ready : (\A n \in Ready : m <= n) /\ job' = [job EXCEPT ![w] = m]
  /\ pc' = [pc EXCEPT ![w] = "child"]
  /\ UNCHANGED <<brokerVars, running, finished, losses, faults>>

\* basic.get hands out the oldest ready message; the loop starts the child.
Get(w) ==
  /\ pc[w] = "polling"
  /\ running[w]
  /\ \E m \in Ready :
       /\ \A n \in Ready : m <= n
       /\ mstate' = [mstate EXCEPT ![m] = "unacked"]
       /\ owner' = [owner EXCEPT ![m] = w]
       /\ job' = [job EXCEPT ![w] = m]
  /\ pc' = [pc EXCEPT ![w] = "child"]
  /\ UNCHANGED <<sent, running, finished, losses, faults>>

\* The fetch raises (no connection, undecodable body).  get_json_message closes
\* the connection, so a message it had received is ready again, and re-raises;
\* nothing in the loop catches it, so the worker process ends.
GetRaises(w) ==
  /\ pc[w] = "polling"
  /\ running[w]
  /\ Fault
  /\ Loop(w, "raised")
  /\ UNCHANGED <<brokerVars, running, finished, losses>>

ChildSucceeds(w) ==
  /\ pc[w] = "child"
  /\ job[w] \notin Poison
  /\ finished' = finished \cup {job[w]}
  /\ pc' = [pc EXCEPT ![w] = "succeeded"]
  /\ UNCHANGED <<brokerVars, job, running, losses, faults>>

\* A nonzero exit code, or death by a signal: CalledProcessError either way.
ChildFails(w) ==
  /\ pc[w] = "child"
  /\ IF job[w] \in Poison THEN UNCHANGED faults ELSE Fault
  /\ pc' = [pc EXCEPT ![w] = "failed"]
  /\ UNCHANGED <<brokerVars, job, running, finished, losses>>

Ack(w) ==
  /\ pc[w] = "succeeded"
  /\ Settle(w, "acked")
  /\ Loop(w, "polling")
  /\ UNCHANGED <<sent, running, finished, losses, faults>>

\* Mutant of Reject: the handler of CalledProcessError only logs.
RejectOnlyLogs(w) ==
  /\ pc[w] = "failed"
  /\ Loop(w, "polling")
  /\ UNCHANGED <<brokerVars, running, finished, losses, faults>>

\* Mutant of Reject: reject(requeue=False) on a queue without a dead-letter exchange.
RejectDrops(w) ==
  /\ pc[w] = "failed"
  /\ Settle(w, "dropped")
  /\ Loop(w, "polling")
  /\ UNCHANGED <<sent, running, finished, losses, faults>>

\* Mutant of Reject: the ack stands in a `finally`.
RejectAcks(w) ==
  /\ pc[w] = "failed"
  /\ Settle(w, "acked")
  /\ Loop(w, "polling")
  /\ UNCHANGED <<sent, running, finished, losses, faults>>

Reject(w) ==
  /\ pc[w] = "failed"
  /\ Settle(w, "ready")
  /\ Loop(w, "polling")
  /\ UNCHANGED <<sent, running, finished, losses, faults>>

\* The ack, the reject or the close that follows it raises: always possible when
\* the broker has dropped the connection, a fault otherwise.  No handler catches
\* it (only CalledProcessError is caught), so the worker process ends.
SettleRaises(w) ==
  /\ pc[w] \in {"succeeded", "failed"}
  /\ IF Owns(w) THEN Fault ELSE UNCHANGED faults
  /\ Settle(w, IF pc[w] = "succeeded" THEN "acked" ELSE "ready")
  /\ Loop(w, "raised")
  /\ UNCHANGED <<sent, running, finished, losses>>

\* SIGTERM or SIGINT: seen at the head of the loop only.  Counted as a fault so
\* that an operator does not stop and restart workers forever.
Signal(w) ==
  /\ pc[w] \in Alive
  /\ running[w]
  /\ Fault
  /\ running' = [running EXCEPT ![w] = FALSE]
  /\ UNCHANGED <<brokerVars, pc, job, finished, losses>>

\* Mutant of Stop: the flag is looked at only when the queue is empty.
StopWhenDrained(w) ==
  /\ pc[w] = "polling"
  /\ ~running[w] /\ Ready = {}
  /\ Loop(w, "stopped")
  /\ UNCHANGED <<brokerVars, running, finished, losses, faults>>

Stop(w) ==
  /\ pc[w] = "polling"
  /\ ~running[w]
  /\ Loop(w, "stopped")
  /\ UNCHANGED <<brokerVars, running, finished, losses, faults>>

\* The process dies where it stands, and its child with it (docker-compose.yml runs
\* the worker as the container's first process, so the container ends as a whole);
\* the broker sees the connection close.
Kill(w) ==
  /\ pc[w] \in Alive
  /\ Fault
  /\ Settle(w, "ready")
  /\ Loop(w, "killed")
  /\ UNCHANGED <<sent, running, finished, losses>>

\* An operator starts the worker again.  docker-compose.yml gives the spider
\* services no restart policy, so nothing promises that this happens.
Restart(w) ==
  /\ pc[w] \in Down
  /\ Loop(w, "polling")
  /\ running' = [running EXCEPT ![w] = TRUE]
  /\ UNCHANGED <<brokerVars, finished, losses, faults>>

Step(w) == Get(w) \/ ChildSucceeds(w) \/ ChildFails(w) \/ Ack(w) \/ Reject(w) \/ Stop(w)

Next ==
  \/ Publish
  \/ \E w \in Workers :
       \/ Get(w) \/ ChildSucceeds(w) \/ ChildFails(w) \/ Ack(w) \/ Reject(w) \/ Stop(w)
       \/ GetRaises(w) \/ SettleRaises(w) \/ LoseConnection(w)
       \/ Signal(w) \/ Kill(w) \/ Restart(w)

Spec == Init /\ [][Next]_vars

\* The loop runs whenever its process does and a spider run ends: nothing else is
\* promised, in particular neither publication nor the restart of a worker.
FairSpec == Spec /\ \A w \in Workers : WF_vars(Step(w))

------------------------------------------------------------------------------
(* Properties. *)

\* No message is stuck: one that is out for delivery belongs to a process that is
\* alive and still has its settlement (ack, reject or close) ahead of it, and a
\* ready or settled message belongs to nobody.
NoOrphanDelivery ==
  \A m \in Messages :
    IF mstate[m] = "unacked"
    THEN \E w \in Workers : owner[m] = w /\ job[w] = m /\ pc[w] \in Alive \ {"polling"}
    ELSE owner[m] = NoWorker

\* Two workers run the same request at the same time only after the broker has
\* dropped a connection: the loop itself never gives a message away while its
\* child may still be running.
DuplicateRunNeedsLoss ==
  (\E v, w \in Workers : v # w /\ job[v] = job[w] /\ job[v] # NoMessage) => losses > 0

\* What the publishing service sees of the queue.
QueueStatus ==
  [m \in Messages |-> CASE mstate[m] = "unsent" -> "unsent"
                        [] mstate[m] = "acked" -> "done"
                        [] OTHER -> "pending"]

Promise == INSTANCE AtLeastOnce WITH status <- QueueStatus, handled <- finished

\* The queue keeps the promise of AtLeastOnce: a message is acked only after a
\* child exited with code 0 for it, and a requeue never loses it.
ImplementsAtLeastOnce == Promise!Spec

\* A request whose spider can succeed is acked in the end, or every worker of the queue
\* is down, or it waits behind an older poisoned request, which goes back to its place
\* at the head after each attempt and is fetched again first.  A poisoned request never
\* delays an older one, however often either of them was requeued.
HealthyMessageSettles ==
  \A m \in Messages \ Poison :
    mstate[m] = "ready" ~>
      \/ mstate[m] = "acked"
      \/ \A w \in Workers : pc[w] \in Down
      \/ \E p \in Poison : p < m /\ mstate[p] \in {"ready", "unacked"}

\* A signalled worker finishes the message it holds and then leaves the loop.
SignalledWorkerStops ==
  \A w \in Workers : ~running[w] ~> pc[w] \in Down

(* What the documentation says and the code does not do. *)

\* docs/facebook_rebuild.md promises every queue a retry policy with a maximum
\* number of attempts and a dead-letter queue: no request is retried forever.
PoisonMessageLeavesQueue ==
  \A m \in Poison : mstate[m] = "ready" ~> mstate[m] \notin {"ready", "unacked"}
==============================================================================
