-------------------------- MODULE WorkerRuntimeProofs --------------------------
(***************************************************************************)
(* What holds of WorkerRuntime for every number of workers and messages,   *)
(* every set of poison messages and every bound on the faults.             *)
(***************************************************************************)
EXTENDS WorkerRuntime, TLAPS

\* A worker has a job exactly while it is between the fetch and the settlement,
\* and it is about to ack only what its child finished.
JobInv ==
  \A w \in Workers :
    /\ job[w] # NoMessage <=> pc[w] \in {"child", "succeeded", "failed"}
    /\ pc[w] = "succeeded" => job[w] \in finished

\* The broker and the worker agree on a message that is out for delivery.
OwnerInv ==
  \A m \in Messages :
    IF mstate[m] = "unacked" THEN owner[m] \in Workers /\ job[owner[m]] = m
                             ELSE owner[m] = NoWorker

\* Only published messages are worked on, finished or acked.
SentInv ==
  /\ \A m \in Messages : mstate[m] = "unsent" <=> m > sent
  /\ \A w \in Workers : job[w] # NoMessage => mstate[job[w]] # "unsent"

\* An acked message was finished.
AckedInv == \A m \in Messages : mstate[m] = "acked" => m \in finished

\* As long as the broker has dropped no connection, it agrees with every worker.
LossInv == losses = 0 => \A w \in Workers : job[w] # NoMessage => owner[job[w]] = w

IInv == TypeOK /\ JobInv /\ OwnerInv /\ SentInv /\ AckedInv /\ LossInv
------------------------------------------------------------------------------
LEMMA InitIInv == Init => IInv
<1> SUFFICES ASSUME Init PROVE IInv
  OBVIOUS
<1> USE WorkerRuntimeAssumption DEF Init, Messages, NoMessage
<1>1. TypeOK
  BY DEF TypeOK, Alive
<1>2. JobInv /\ OwnerInv /\ SentInv /\ AckedInv /\ LossInv
  BY DEF JobInv, OwnerInv, SentInv, AckedInv, LossInv
<1>3. QED
  BY <1>1, <1>2 DEF IInv

\* A settlement changes the message its worker owns, and no other.
LEMMA SettleEffect ==
  ASSUME TypeOK, NEW w \in Workers, NEW to \in {"ready", "acked"}, Settle(w, to)
  PROVE  /\ mstate' = [m \in Messages |->
                         IF m = job[w] /\ owner[m] = w THEN to ELSE mstate[m]]
         /\ owner' = [m \in Messages |->
                         IF m = job[w] /\ owner[m] = w THEN NoWorker ELSE owner[m]]
<1>1. CASE Owns(w)
  <2>1. job[w] \in Messages /\ owner[job[w]] = w
    BY <1>1 DEF Owns, TypeOK, Messages, NoMessage
  <2>2. mstate' = [mstate EXCEPT ![job[w]] = to] /\ owner' = [owner EXCEPT ![job[w]] = NoWorker]
    BY <1>1 DEF Settle
  <2>3. QED
    BY <2>1, <2>2 DEF TypeOK
<1>2. CASE ~Owns(w)
  <2>1. \A m \in Messages : ~(m = job[w] /\ owner[m] = w)
    BY <1>2 DEF Owns, TypeOK, Messages, NoMessage
  <2>2. mstate' = mstate /\ owner' = owner
    BY <1>2 DEF Settle
  <2>3. QED
    BY <2>1, <2>2 DEF TypeOK
<1>3. QED
  BY <1>1, <1>2

LEMMA NextIInv == IInv /\ [Next]_vars => IInv'
<1> SUFFICES ASSUME IInv, [Next]_vars PROVE IInv'
  OBVIOUS
<1> USE WorkerRuntimeAssumption
    DEF IInv, TypeOK, JobInv, OwnerInv, SentInv, AckedInv, LossInv,
        Messages, NoMessage, Alive, Down, brokerVars
<1>1. CASE Publish
  BY <1>1 DEF Publish
<1>2. ASSUME NEW w \in Workers, Get(w) PROVE IInv'
  BY <1>2 DEF Get, Ready
<1>3. ASSUME NEW w \in Workers, GetRaises(w) PROVE IInv'
  BY <1>3 DEF GetRaises, Fault, Loop
<1>4. ASSUME NEW w \in Workers, ChildSucceeds(w) PROVE IInv'
  <2>1. job[w] \in 1..NumMessages
    BY <1>4 DEF ChildSucceeds
  <2>2. finished' \in SUBSET (1..NumMessages)
    BY <1>4, <2>1 DEF ChildSucceeds
  <2>3. TypeOK'
    BY <1>4, <2>1, <2>2 DEF ChildSucceeds
  <2>4. JobInv'
    BY <1>4, <2>1, <2>2 DEF ChildSucceeds
  <2>5. OwnerInv'
    BY <1>4, <2>1, <2>2 DEF ChildSucceeds
  <2>6. SentInv'
    BY <1>4, <2>1, <2>2 DEF ChildSucceeds
  <2>7. AckedInv'
    BY <1>4, <2>1, <2>2 DEF ChildSucceeds
  <2>8. LossInv'
    BY <1>4, <2>1, <2>2 DEF ChildSucceeds
  <2>9. QED
    BY <2>3, <2>4, <2>5, <2>6, <2>7, <2>8
<1>5. ASSUME NEW w \in Workers, ChildFails(w) PROVE IInv'
  BY <1>5 DEF ChildFails, Fault
<1>6. ASSUME NEW w \in Workers, Ack(w) PROVE IInv'
  <2>1. /\ mstate' = [m \in Messages |->
                         IF m = job[w] /\ owner[m] = w THEN "acked" ELSE mstate[m]]
         /\ owner' = [m \in Messages |->
                         IF m = job[w] /\ owner[m] = w THEN NoWorker ELSE owner[m]]
    BY <1>6, SettleEffect DEF Ack
  <2>2. TypeOK'
    BY <1>6, <2>1 DEF Ack, Loop
  <2>3. JobInv'
    BY <1>6, <2>1 DEF Ack, Loop
  <2>4. OwnerInv'
    BY <1>6, <2>1 DEF Ack, Loop
  <2>5. SentInv'
    BY <1>6, <2>1 DEF Ack, Loop
  <2>6. AckedInv'
    BY <1>6, <2>1 DEF Ack, Loop
  <2>7. LossInv'
    BY <1>6, <2>1 DEF Ack, Loop
  <2>8. QED
    BY <2>2, <2>3, <2>4, <2>5, <2>6, <2>7
<1>7. ASSUME NEW w \in Workers, Reject(w) PROVE IInv'
  <2>1. /\ mstate' = [m \in Messages |->
                         IF m = job[w] /\ owner[m] = w THEN "ready" ELSE mstate[m]]
         /\ owner' = [m \in Messages |->
                         IF m = job[w] /\ owner[m] = w THEN NoWorker ELSE owner[m]]
    BY <1>7, SettleEffect DEF Reject
  <2>2. TypeOK'
    BY <1>7, <2>1 DEF Reject, Loop
  <2>3. JobInv'
    BY <1>7, <2>1 DEF Reject, Loop
  <2>4. OwnerInv'
    BY <1>7, <2>1 DEF Reject, Loop
  <2>5. SentInv'
    BY <1>7, <2>1 DEF Reject, Loop
  <2>6. AckedInv'
    BY <1>7, <2>1 DEF Reject, Loop
  <2>7. LossInv'
    BY <1>7, <2>1 DEF Reject, Loop
  <2>8. QED
    BY <2>2, <2>3, <2>4, <2>5, <2>6, <2>7
<1>8. ASSUME NEW w \in Workers, Stop(w) PROVE IInv'
  BY <1>8 DEF Stop, Loop
<1>9. ASSUME NEW w \in Workers, SettleRaises(w) PROVE IInv'
  <2>1. /\ mstate' = [m \in Messages |->
                         IF m = job[w] /\ owner[m] = w THEN IF pc[w] = "succeeded" THEN "acked" ELSE "ready" ELSE mstate[m]]
         /\ owner' = [m \in Messages |->
                         IF m = job[w] /\ owner[m] = w THEN NoWorker ELSE owner[m]]
    BY <1>9, SettleEffect DEF SettleRaises
  <2>2. TypeOK'
    BY <1>9, <2>1 DEF SettleRaises, Loop, Fault
  <2>3. JobInv'
    BY <1>9, <2>1 DEF SettleRaises, Loop, Fault
  <2>4. OwnerInv'
    BY <1>9, <2>1 DEF SettleRaises, Loop, Fault
  <2>5. SentInv'
    BY <1>9, <2>1 DEF SettleRaises, Loop, Fault
  <2>6. AckedInv'
    BY <1>9, <2>1 DEF SettleRaises, Loop, Fault
  <2>7. LossInv'
    BY <1>9, <2>1 DEF SettleRaises, Loop, Fault
  <2>8. QED
    BY <2>2, <2>3, <2>4, <2>5, <2>6, <2>7
<1>10. ASSUME NEW w \in Workers, LoseConnection(w) PROVE IInv'
  <2>1. /\ mstate' = [m \in Messages |->
                         IF m = job[w] /\ owner[m] = w THEN "ready" ELSE mstate[m]]
         /\ owner' = [m \in Messages |->
                         IF m = job[w] /\ owner[m] = w THEN NoWorker ELSE owner[m]]
    BY <1>10, SettleEffect DEF LoseConnection
  <2>2. TypeOK'
    BY <1>10, <2>1 DEF LoseConnection, Owns
  <2>3. JobInv'
    BY <1>10, <2>1 DEF LoseConnection, Owns
  <2>4. OwnerInv'
    BY <1>10, <2>1 DEF LoseConnection, Owns
  <2>5. SentInv'
    BY <1>10, <2>1 DEF LoseConnection, Owns
  <2>6. AckedInv'
    BY <1>10, <2>1 DEF LoseConnection, Owns
  <2>7. LossInv'
    BY <1>10, <2>1 DEF LoseConnection, Owns
  <2>8. QED
    BY <2>2, <2>3, <2>4, <2>5, <2>6, <2>7
<1>11. ASSUME NEW w \in Workers, Signal(w) PROVE IInv'
  BY <1>11 DEF Signal, Fault
<1>12. ASSUME NEW w \in Workers, Kill(w) PROVE IInv'
  <2>1. /\ mstate' = [m \in Messages |->
                         IF m = job[w] /\ owner[m] = w THEN "ready" ELSE mstate[m]]
         /\ owner' = [m \in Messages |->
                         IF m = job[w] /\ owner[m] = w THEN NoWorker ELSE owner[m]]
    BY <1>12, SettleEffect DEF Kill
  <2>2. TypeOK'
    BY <1>12, <2>1 DEF Kill, Loop, Fault
  <2>3. JobInv'
    BY <1>12, <2>1 DEF Kill, Loop, Fault
  <2>4. OwnerInv'
    BY <1>12, <2>1 DEF Kill, Loop, Fault
  <2>5. SentInv'
    BY <1>12, <2>1 DEF Kill, Loop, Fault
  <2>6. AckedInv'
    BY <1>12, <2>1 DEF Kill, Loop, Fault
  <2>7. LossInv'
    BY <1>12, <2>1 DEF Kill, Loop, Fault
  <2>8. QED
    BY <2>2, <2>3, <2>4, <2>5, <2>6, <2>7
<1>13. ASSUME NEW w \in Workers, Restart(w) PROVE IInv'
  BY <1>13 DEF Restart, Loop
<1>14. CASE UNCHANGED vars
  BY <1>14 DEF vars
<1>15. QED
  BY <1>1, <1>2, <1>3, <1>4, <1>5, <1>6, <1>7, <1>8, <1>9, <1>10, <1>11, <1>12, <1>13, <1>14 DEF Next

------------------------------------------------------------------------------
(* Theorems. *)

LEMMA Invariance == Spec => []IInv
<1>1. QED
  BY InitIInv, NextIInv, PTL DEF Spec

\* The variables keep their types, whatever the workers, messages and bounds.
THEOREM TypeCorrect == Spec => []TypeOK
<1>1. IInv => TypeOK
  BY DEF IInv
<1>2. QED
  BY <1>1, Invariance, PTL

\* No message is out for delivery to a worker that will not settle it: neither a
\* stop, a kill, an exception in the loop nor a dropped connection strands one.
THEOREM NoOrphans == Spec => []NoOrphanDelivery
<1>1. IInv => NoOrphanDelivery
  BY WorkerRuntimeAssumption
     DEF IInv, TypeOK, JobInv, OwnerInv, NoOrphanDelivery, Messages, NoMessage, Alive, Down
<1>2. QED
  BY <1>1, Invariance, PTL

\* Two workers run the same request at once only after a dropped connection.
THEOREM DuplicatesNeedLoss == Spec => []DuplicateRunNeedsLoss
<1>1. IInv => DuplicateRunNeedsLoss
  BY DEF IInv, TypeOK, LossInv, DuplicateRunNeedsLoss
<1>2. QED
  BY <1>1, Invariance, PTL

\* The workers and the broker together keep the promise of AtLeastOnce.
THEOREM QueueKeepsPromise == Spec => ImplementsAtLeastOnce
<1>1. Init => Promise!Init
  BY DEF Init, Promise!Init, QueueStatus
<1>2. IInv /\ [Next]_vars => [Promise!Next]_Promise!vars
  <2> SUFFICES ASSUME IInv, [Next]_vars PROVE [Promise!Next]_Promise!vars
    OBVIOUS
  <2> USE WorkerRuntimeAssumption
  <2> DEFINE SameStatus == QueueStatus' = QueueStatus
  <2> HIDE DEF SameStatus
  <2>1. ASSUME \A m \in Messages : /\ mstate'[m] = "unsent" <=> mstate[m] = "unsent"
                                   /\ mstate'[m] = "acked" <=> mstate[m] = "acked"
        PROVE  SameStatus
    BY <2>1 DEF SameStatus, QueueStatus
  <2>2. ASSUME SameStatus, finished' = finished PROVE [Promise!Next]_Promise!vars
    BY <2>2 DEF SameStatus, Promise!vars
  <2>3. CASE Publish
    <3> DEFINE m == sent + 1
    <3>1. m \in Messages /\ mstate[m] = "unsent"
      BY <2>3 DEF Publish, IInv, TypeOK, SentInv, Messages
    <3>2. QueueStatus' = [QueueStatus EXCEPT ![m] = "pending"]
      BY <2>3, <3>1 DEF Publish, QueueStatus, IInv, TypeOK
    <3>3. QueueStatus[m] = "unsent" /\ finished' = finished
      BY <2>3, <3>1 DEF Publish, QueueStatus
    <3>4. QED
      BY <3>1, <3>2, <3>3 DEF Promise!Next, Promise!Publish
  <2>4. ASSUME NEW w \in Workers, ChildSucceeds(w) PROVE [Promise!Next]_Promise!vars
    <3>1. job[w] \in Messages /\ mstate[job[w]] # "unsent"
      BY <2>4 DEF ChildSucceeds, IInv, TypeOK, JobInv, SentInv, Messages, NoMessage
    <3>2. SameStatus /\ finished' = finished \cup {job[w]}
      BY <2>4, <2>1 DEF ChildSucceeds, brokerVars
    <3>3. CASE mstate[job[w]] = "acked"
      <4>1. job[w] \in finished
        BY <3>1, <3>3 DEF IInv, AckedInv
      <4>2. QED
        BY <4>1, <3>2, <2>2
    <3>4. CASE mstate[job[w]] # "acked"
      <4>1. QueueStatus[job[w]] = "pending"
        BY <3>1, <3>4 DEF QueueStatus
      <4>2. QED
        BY <4>1, <3>1, <3>2 DEF SameStatus, Promise!Next, Promise!Handle
    <3>5. QED
      BY <3>3, <3>4
  <2>5. ASSUME NEW w \in Workers, pc[w] = "succeeded", Settle(w, "acked"), finished' = finished
        PROVE  [Promise!Next]_Promise!vars
    <3>1. job[w] \in Messages /\ job[w] \in finished
      BY <2>5 DEF IInv, TypeOK, JobInv, Messages, NoMessage
    <3>2. CASE Owns(w)
      <4>1. mstate[job[w]] = "unacked" /\ owner[job[w]] = w
        BY <3>1, <3>2 DEF Owns, IInv, OwnerInv
      <4>2. mstate' = [mstate EXCEPT ![job[w]] = "acked"]
        BY <2>5, <3>2 DEF Settle
      <4>3. QueueStatus' = [QueueStatus EXCEPT ![job[w]] = "done"]
        BY <3>1, <4>2 DEF QueueStatus, IInv, TypeOK
      <4>4. QueueStatus[job[w]] = "pending"
        BY <3>1, <4>1 DEF QueueStatus
      <4>5. QED
        BY <2>5, <3>1, <4>3, <4>4 DEF Promise!Next, Promise!Settle
    <3>3. CASE ~Owns(w)
      BY <2>5, <3>3, <2>1, <2>2 DEF Settle
    <3>4. QED
      BY <3>2, <3>3
  <2>6. ASSUME NEW w \in Workers, Settle(w, "ready"), finished' = finished
        PROVE  [Promise!Next]_Promise!vars
    <3>1. CASE Owns(w)
      <4>1. job[w] \in Messages /\ mstate[job[w]] = "unacked"
        BY <3>1 DEF Owns, IInv, TypeOK, OwnerInv, Messages, NoMessage
      <4>2. mstate' = [mstate EXCEPT ![job[w]] = "ready"]
        BY <2>6, <3>1 DEF Settle
      <4>3. QED
        BY <2>6, <4>1, <4>2, <2>1, <2>2 DEF IInv, TypeOK
    <3>2. CASE ~Owns(w)
      BY <2>6, <3>2, <2>1, <2>2 DEF Settle
    <3>3. QED
      BY <3>1, <3>2
  <2>7. ASSUME NEW w \in Workers, Get(w) PROVE [Promise!Next]_Promise!vars
    BY <2>7, <2>1, <2>2 DEF Get, Ready, IInv, TypeOK
  <2>8. ASSUME NEW w \in Workers, Ack(w) \/ Reject(w) \/ SettleRaises(w)
        PROVE  [Promise!Next]_Promise!vars
    BY <2>8, <2>5, <2>6 DEF Ack, Reject, SettleRaises
  <2>9. ASSUME NEW w \in Workers, LoseConnection(w) \/ Kill(w)
        PROVE  [Promise!Next]_Promise!vars
    BY <2>9, <2>6 DEF LoseConnection, Kill
  <2>10. ASSUME NEW w \in Workers,
                \/ GetRaises(w) \/ ChildFails(w) \/ Stop(w) \/ Signal(w) \/ Restart(w)
         PROVE  [Promise!Next]_Promise!vars
    BY <2>10, <2>1, <2>2 DEF GetRaises, ChildFails, Stop, Signal, Restart, brokerVars
  <2>11. CASE UNCHANGED vars
    BY <2>11, <2>1, <2>2 DEF vars
  <2>12. QED
    BY <2>3, <2>4, <2>7, <2>8, <2>9, <2>10, <2>11 DEF Next
<1>3. QED
  BY <1>1, <1>2, Invariance, PTL DEF Spec, ImplementsAtLeastOnce, Promise!Spec
==============================================================================
