--------------------------- MODULE QueryServiceProofs ---------------------------
(***************************************************************************)
(* What holds of the API's write operations for any queries, any number of *)
(* concurrent requests and any bodies, with publications and repository    *)
(* calls that raise and a crash of the API at every await.                 *)
(***************************************************************************)
EXTENDS QueryService, Integers, FiniteSetTheorems, FunctionTheorems, SequenceTheorems, TLAPS

Busy == InFlight \cup {"lost"}
ExportKinds == {"export", "retry_export"}

\* A row may be pending for this handler.
Holds(h) == pc[h] \in Busy \/ h \in raised

\* What a handler still has to publish, as a set, and all it was asked to publish.
Left(h) == All(todo[h])
Asked(h) ==
  LET in == input[h] IN
  IF in.kind \in {"create", "retry_search"} THEN All(in.batch)
  ELSE IF in.kind = "retry_enrich" THEN (IF in.ids = {} THEN 1..seen[h] ELSE in.ids)
  ELSE {row[h]}

SentBy(h) == {p \in published : p.by = h}

\* A handler has told the log of one of its queries.
Told(h, type, q) == [by |-> h, type |-> type] \in events[q]

\* Functions have their domains, messages their fields.
IsMessage(p) == p = [by |-> p.by, queue |-> p.queue, key |-> p.key]
Shape ==
  /\ TypeOK
  /\ \A p \in published : IsMessage(p)
  /\ DOMAIN records = Queries /\ DOMAIN todo = Handlers /\ DOMAIN seen = Handlers
  /\ \A h \in Handlers : pc[h] \in InFlight => \E K : todo[h] \in Seq(K)

\* A request that has not been received has done nothing, one that has is in Inputs,
\* only an answered one has an answer, and one whose call raised is answered.
Received(h) ==
  /\ pc[h] = "idle" => /\ input[h] = NoInput /\ row[h] = 0
                       /\ \A p \in published : p.by # h
  /\ pc[h] # "idle" => input[h] \in Inputs
  /\ pc[h] # "answered" => answer[h] = 0 /\ h \notin raised

\* A handler has a row exactly for an export, of the query it was asked for, and the
\* row is pending as long as the handler is at work.
HasRow(h) ==
  /\ row[h] # 0 => /\ Kind(h) \in ExportKinds
                   /\ exports[row[h]].q = input[h].batch[1]
  /\ (pc[h] \in InFlight /\ Kind(h) \in ExportKinds) =>
       /\ row[h] # 0 /\ todo[h] = <<row[h]>>
       /\ exports[row[h]].status = "pending"

\* A handler publishes only what it was asked for, and each part of that is published
\* or still to do; before it ends, only one message is left and that is out.
Covers(h) ==
  /\ \A p \in published : p.by = h =>
       /\ p.queue = StageQueue(h) /\ p.key \in Asked(h)
       /\ Kind(h) \in ExportKinds => row[h] # 0
  /\ pc[h] \in InFlight =>
       /\ Left(h) \subseteq Asked(h)
       /\ \A k \in Asked(h) : k \in Left(h) \/ Sent(h, StageQueue(h), k)
       /\ Kind(h) \notin {"create", "retry_enrich"} => Len(todo[h]) = 1
  /\ (pc[h] \in InFlight /\ Kind(h) = "create") =>
       /\ todo[h] \in Seq(Queries)
       /\ \A q \in Asked(h) : q \in Left(h) \/ Told(h, "search.requested", q)
  /\ pc[h] = "event" => /\ Sent(h, StageQueue(h), Head(todo[h]))
                        /\ Kind(h) # "create" => Len(todo[h]) = 1

\* The queries that a create request has inserted and may have published.
Made(h) ==
  IF Kind(h) # "create" THEN {}
  ELSE {q \in Queries : Sent(h, "search", q)} \cup (IF pc[h] \in Busy THEN {Head(todo[h])} ELSE {})

\* Nobody else has inserted them, and nobody shares a row.
Apart ==
  /\ \A h \in Handlers : \A q \in Made(h) : q \in Queries /\ job[q] # "none"
  /\ \A g, h \in Handlers : g # h =>
       /\ \A q \in Made(g) : q \notin Made(h)
       /\ row[g] # 0 => row[g] # row[h]

\* AcceptedIsQueued and RefusedPublishesNothing of one handler.
Accepted(h) ==
  answer[h] = 202 =>
    /\ SentBy(h) = StandsFor(h)
    /\ \A q \in All(input[h].batch) : Told(h, Announcement(input[h].kind), q)
    /\ row[h] # 0 => exports[row[h]].status = "requested"

Refused(h) ==
  (answer[h] \in {404, 409} /\ input[h].kind # "create") => ~\E p \in published : p.by = h

HandlerInv(h) == Received(h) /\ HasRow(h) /\ Covers(h) /\ Accepted(h) /\ Refused(h)

IInv ==
  /\ Shape
  /\ \A h \in Handlers : HandlerInv(h)
  /\ Apart
  /\ RequestedHasMessage
  /\ PendingHasHandler

------------------------------------------------------------------------------
(* The ids of an enrich retry. *)

\* The elements of the sequence are those of the set.
LEMMA AscendingCovers ==
  ASSUME NEW S \in SUBSET Nat, IsFiniteSet(S), S # {}
  PROVE  /\ Ascending(S) # <<>>
         /\ \E K : Ascending(S) \in Seq(K)
         /\ All(Ascending(S)) = S
<1> DEFINE below(x) == {y \in S : y < x}
<1>1. Cardinality(S) \in Nat \ {0}
  BY FS_CardinalityType, FS_EmptySet
<1>2. ASSUME NEW x \in S
      PROVE  /\ IsFiniteSet(below(x)) /\ Cardinality(below(x)) \in Nat
             /\ Cardinality(below(x)) < Cardinality(S)
  <2>1. below(x) \in SUBSET S /\ x \notin below(x)
    OBVIOUS
  <2>2. /\ IsFiniteSet(below(x)) /\ Cardinality(below(x)) <= Cardinality(S)
        /\ Cardinality(below(x)) # Cardinality(S)
    BY <2>1, FS_Subset
  <2>3. QED
    BY <1>1, <2>2, FS_CardinalityType
<1>3. ASSUME NEW x \in S, NEW z \in S, x < z
      PROVE  Cardinality(below(x)) < Cardinality(below(z))
  <2> x \in Nat /\ z \in Nat
    OBVIOUS
  <2>0. ASSUME NEW y \in below(x) PROVE y \in below(z)
    <3>1. y \in Nat /\ y < x
      OBVIOUS
    <3>2. y < z
      BY <1>3, <3>1
    <3>3. QED
      BY <3>2
  <2>1. below(x) \in SUBSET below(z) /\ x \in below(z) /\ x \notin below(x)
    <3>1. x \in below(z)
      BY <1>3
    <3>2. x \notin below(x)
      OBVIOUS
    <3> HIDE DEF below
    <3>3. QED
      BY <2>0, <3>1, <3>2
  <2>2. /\ Cardinality(below(x)) <= Cardinality(below(z))
        /\ Cardinality(below(x)) # Cardinality(below(z))
    BY <1>2, <2>1, FS_Subset
  <2>3. QED
    BY <1>2, <2>2
<1>4. ASSUME NEW x \in S, NEW z \in S, Cardinality(below(x)) = Cardinality(below(z))
      PROVE  x = z
  <2>1. ~(x < z) /\ ~(z < x)
    BY <1>2, <1>3, <1>4
  <2>2. QED
    BY <2>1
<1>5. ASSUME NEW r \in S PROVE \E i \in DOMAIN Ascending(S) : Ascending(S)[i] = r
  <2> DEFINE i == Cardinality(below(r)) + 1
  <2>1. i \in 1..Cardinality(S)
    BY <1>1, <1>2
  <2>2. i - 1 = Cardinality(below(r))
    BY <1>2
  <2>3. (CHOOSE x \in S : Cardinality(below(x)) = i - 1) = r
    BY <1>4, <2>2
  <2>4. QED
    BY <2>1, <2>3 DEF Ascending
<1>6. \E K : Ascending(S) \in Seq(K)
  <2> DEFINE K == {Ascending(S)[i] : i \in 1..Cardinality(S)}
  <2>1. Ascending(S) \in [1..Cardinality(S) -> K]
    BY DEF Ascending
  <2>2. Ascending(S) \in Seq(K)
    <3> DEFINE n == Cardinality(S)
    <3>1. n \in Nat
      BY <1>1
    <3>2. Ascending(S) \in [1..n -> K]
      BY <2>1
    <3> HIDE DEF n, K
    <3>3. QED
      BY <3>1, <3>2
  <2>3. QED
    BY <2>2
<1>7. Ascending(S) # <<>>
  <2>1. DOMAIN Ascending(S) # {}
    BY <1>5
  <2>2. DOMAIN <<>> = {}
    OBVIOUS
  <2>3. QED
    BY <2>1, <2>2
<1>8. ASSUME NEW i \in DOMAIN Ascending(S) PROVE Ascending(S)[i] \in S
  <2> DEFINE n == Cardinality(S)  T == 1..n  f == [x \in S |-> Cardinality(below(x)) + 1]
  <2>1. n \in Nat
    BY <1>1
  <2>2. IsFiniteSet(T) /\ Cardinality(T) = n
    <3>1. IsFiniteSet(1..n) /\ Cardinality(1..n) = IF 1 > n THEN 0 ELSE n - 1 + 1
      BY <2>1, FS_Interval
    <3>2. QED
      BY <1>1, <3>1
  <2>3. f \in [S -> T]
    <3>1. ASSUME NEW x \in S PROVE Cardinality(below(x)) + 1 \in T
      BY <1>2, <2>1
    <3>2. QED
      BY <3>1
  <2>4. \A x, z \in S : f[x] = f[z] => x = z
    BY <1>2, <1>4
  <2>5. f \in Injection(S, T)
    BY <2>3, <2>4, Fun_IsInj
  <2>6. f \in Surjection(S, T)
    BY <2>2, <2>5, FS_Injection
  <2>7. i \in T /\ i \in Nat
    <3>1. DOMAIN Ascending(S) = T
      BY DEF Ascending
    <3>2. QED
      BY <2>1, <3>1
  <2>8. PICK x \in S : f[x] = i
    <3> HIDE DEF f, T
    <3>1. QED
      BY <2>6, <2>7 DEF Surjection
  <2>9. Cardinality(below(x)) = i - 1
    BY <1>2, <2>7, <2>8
  <2>10. Ascending(S)[i] = CHOOSE z \in S : Cardinality(below(z)) = i - 1
    BY <2>7 DEF Ascending
  <2>11. QED
    BY <2>9, <2>10
<1>9. All(Ascending(S)) = S
  BY <1>5, <1>8 DEF All
<1>10. QED
  BY <1>6, <1>7, <1>9

\* What an enrich retry publishes is not empty, and is what it was asked for.
LEMMA EnrichKeys ==
  ASSUME IInv, NEW in \in Inputs, in.kind = "retry_enrich", Enrichable(in)
  PROVE  LET keys == Ascending(Chosen(in)) IN
         /\ keys # <<>>
         /\ \E K : keys \in Seq(K)
         /\ All(keys) = IF in.ids = {} THEN 1..records[in.batch[1]] ELSE in.ids
<1>1. in.batch \in Seq(Queries) /\ Len(in.batch) = 1 /\ in.batch[1] \in Queries
  BY QueryServiceAssumption
<1>2. records[in.batch[1]] \in Nat
  BY <1>1, QueryServiceAssumption DEF IInv, Shape, TypeOK
<1>3. RecordsOf(in) \in SUBSET Nat /\ IsFiniteSet(RecordsOf(in))
  BY <1>2, FS_Interval DEF RecordsOf
<1>4. Chosen(in) \in SUBSET Nat /\ IsFiniteSet(Chosen(in)) /\ Chosen(in) # {}
  BY <1>3, FS_Subset DEF Enrichable
<1>5. QED
  BY <1>4, AscendingCovers DEF Chosen, RecordsOf

------------------------------------------------------------------------------
(* What a step of one handler leaves alone, and what it owes. *)

\* The other handlers stay where they are; messages, events and rows are only added,
\* and of the exports only the handler's own changes its status.
Frame(h) ==
  /\ \A g \in Handlers \ {h} :
       /\ pc'[g] = pc[g] /\ input'[g] = input[g] /\ todo'[g] = todo[g]
       /\ row'[g] = row[g] /\ answer'[g] = answer[g] /\ seen'[g] = seen[g]
  /\ raised \subseteq raised' /\ raised' \subseteq raised \cup {h}
  /\ pc[h] # "idle" => input'[h] = input[h]
  /\ published \subseteq published' /\ \A p \in published' : p \in published \/ p.by = h
  /\ \A q \in Queries : events[q] \subseteq events'[q]
  /\ \A q \in Queries : job[q] # "none" => job'[q] # "none"
  /\ \A e \in DOMAIN exports :
       /\ e \in DOMAIN exports' /\ exports'[e].q = exports[e].q
       /\ e # row[h] => exports'[e] = exports[e]
  /\ row'[h] = row[h] \/ (row'[h] \notin DOMAIN exports)

\* A query it creates was not there.
MakesNew(h) ==
  \A q \in Made(h)' : q \in Queries /\ job'[q] # "none" /\ (q \in Made(h) \/ job[q] = "none")

\* A status it writes tells what it has published, or that it holds the row.
JobOwed(h) ==
  \A q \in Queries : job'[q] # job[q] =>
    /\ job'[q] = "search_requested" => Sent(h, "search", q)'
    /\ job'[q] = "enrich_requested" =>
         \E p \in published' : p.queue = "enrich" /\ p.by = h /\ input'[h].batch = <<q>>
    /\ job'[q] = "export_requested" =>
         \E p \in published' : p.queue = "export" /\ exports'[p.key].q = q
    /\ job'[q] = "pending" =>
         Holds(h)' /\ input'[h].kind = "create" /\ todo'[h] # <<>> /\ Head(todo'[h]) = q

ExportOwed(h) ==
  \A e \in DOMAIN exports' : (e \notin DOMAIN exports \/ exports'[e] # exports[e]) =>
    /\ exports'[e].status = "requested" => Sent(h, "export", e)'
    /\ exports'[e].status = "pending" => Holds(h)' /\ row'[h] = e

\* What was pending for it is settled when it lets go of it.
Settled(h) ==
  Holds(h) =>
    /\ \A q \in Queries : (/\ job'[q] = "pending" /\ job[q] = "pending"
                           /\ input[h].kind = "create" /\ todo[h] # <<>> /\ Head(todo[h]) = q) =>
         Holds(h)' /\ todo'[h] # <<>> /\ Head(todo'[h]) = q
    /\ (row[h] # 0 /\ exports'[row[h]].status = "pending") => Holds(h)' /\ row'[h] = row[h]

Owed(h) == MakesNew(h) /\ JobOwed(h) /\ ExportOwed(h) /\ Settled(h)

\* The other handlers keep their parts of the invariant.
LEMMA OthersKeep ==
  ASSUME IInv, Shape', NEW h \in Handlers, Frame(h), NEW g \in Handlers, g # h
  PROVE  HandlerInv(g)'
<1>1. /\ pc'[g] = pc[g] /\ input'[g] = input[g] /\ todo'[g] = todo[g]
      /\ row'[g] = row[g] /\ answer'[g] = answer[g] /\ seen'[g] = seen[g]
      /\ g \in raised' <=> g \in raised
  BY DEF Frame
<1>2. published \subseteq published' /\ \A p \in published' : p.by = g => p \in published
  BY DEF Frame
<1>3. HandlerInv(g)
  BY DEF IInv
<1>4. row[g] # 0 => /\ row[g] \in DOMAIN exports
                    /\ exports'[row[g]] = exports[row[g]]
  <2>1. row[g] \in 0..Len(exports) /\ DOMAIN exports = 1..Len(exports) /\ Len(exports) \in Nat
    BY DEF IInv, Shape, TypeOK
  <2>2. row[g] # 0 => row[g] # row[h]
    BY DEF IInv, Apart
  <2>3. QED
    BY <2>1, <2>2 DEF Frame
<1>5. \A q \in Queries : events[q] \subseteq events'[q]
  BY DEF Frame
<1>6. Left(g)' = Left(g) /\ Asked(g)' = Asked(g)
  BY <1>1 DEF Left, Asked, All
<1>7. Kind(g)' = Kind(g) /\ StageQueue(g)' = StageQueue(g) /\ StandsFor(g)' = StandsFor(g)
  BY <1>1 DEF Kind, StageQueue, StandsFor
<1>8. \A queue, key : Sent(g, queue, key) => Sent(g, queue, key)'
  BY <1>2 DEF Sent
<1>9. \A type : \A q \in Queries : Told(g, type, q) => Told(g, type, q)'
  BY <1>5 DEF Told
<1>10. pc[g] # "idle" => /\ All(input[g].batch) \subseteq Queries
                         /\ Kind(g) = "create" => Asked(g) = All(input[g].batch)
  BY <1>3, QueryServiceAssumption DEF HandlerInv, Received, All, Asked, Kind
<1>11. Received(g)'
  BY <1>1, <1>2, <1>3 DEF HandlerInv, Received
<1>12. HasRow(g)'
  BY <1>1, <1>3, <1>4, <1>7 DEF HandlerInv, HasRow
<1>13. Covers(g)'
  <2>1. Covers(g)
    BY <1>3 DEF HandlerInv
  <2>2. \A p \in published' : p.by = g =>
          /\ p.queue = StageQueue(g)' /\ p.key \in Asked(g)'
          /\ Kind(g)' \in ExportKinds => row'[g] # 0
    BY <1>1, <1>2, <1>6, <1>7, <2>1 DEF Covers
  <2>3. pc'[g] \in InFlight =>
          /\ Left(g)' \subseteq Asked(g)'
          /\ \A k \in Asked(g)' : k \in Left(g)' \/ Sent(g, StageQueue(g), k)'
          /\ Kind(g)' \notin {"create", "retry_enrich"} => Len(todo'[g]) = 1
    <3>1. \A k : Sent(g, StageQueue(g), k) => Sent(g, StageQueue(g), k)'
      BY <1>2, <1>7 DEF Sent
    <3>2. QED
      BY <1>1, <1>6, <1>7, <2>1, <3>1 DEF Covers
  <2>4. (pc'[g] \in InFlight /\ Kind(g)' = "create") =>
          /\ todo'[g] \in Seq(Queries)
          /\ \A q \in Asked(g)' : q \in Left(g)' \/ Told(g, "search.requested", q)'
    <3>1. pc[g] \in InFlight => pc[g] # "idle"
      BY DEF InFlight
    <3>2. QED
      BY <1>1, <1>6, <1>7, <1>9, <1>10, <2>1, <3>1 DEF Covers
  <2>5. pc'[g] = "event" => /\ Sent(g, StageQueue(g), Head(todo[g]))'
                            /\ Kind(g)' # "create" => Len(todo'[g]) = 1
    <3>1. \A k : Sent(g, StageQueue(g), k) => Sent(g, StageQueue(g), k)'
      BY <1>2, <1>7 DEF Sent
    <3>2. Sent(g, StageQueue(g), Head(todo[g])) => Sent(g, StageQueue(g), Head(todo[g]))'
      BY <1>1, <1>2, <1>7 DEF Sent
    <3>3. QED
      BY <1>1, <1>7, <2>1, <3>2 DEF Covers
  <2>6. QED
    BY <1>1, <1>7, <2>2, <2>3, <2>4, <2>5 DEF Covers, Sent
<1>14. Accepted(g)'
  <2>1. SUFFICES ASSUME answer[g] = 202 PROVE Accepted(g)'
    BY <1>1 DEF Accepted
  <2>2. pc[g] # "idle"
    BY <1>3, <2>1 DEF HandlerInv, Received
  <2>3. Accepted(g)
    BY <1>3 DEF HandlerInv
  <2>4. SentBy(g)' = SentBy(g)
    BY <1>2 DEF SentBy
  <2>5. ASSUME NEW q \in All(input[g].batch)
        PROVE  [by |-> g, type |-> Announcement(input[g].kind)] \in events'[q]
    BY <1>5, <1>10, <2>1, <2>2, <2>3 DEF Accepted, Told
  <2>6. SentBy(g)' = StandsFor(g)'
    BY <1>7, <2>1, <2>3, <2>4 DEF Accepted
  <2>7. (\A q \in All(input[g].batch) : Told(g, Announcement(input[g].kind), q))'
    BY <1>1, <2>5 DEF Told
  <2>8. row'[g] # 0 => exports'[row'[g]].status = "requested"
    BY <1>1, <1>4, <2>1, <2>3 DEF Accepted
  <2>9. QED
    BY <2>6, <2>7, <2>8 DEF Accepted
<1>15. Refused(g)'
  BY <1>1, <1>2, <1>3 DEF HandlerInv, Refused
<1>16. QED
  BY <1>11, <1>12, <1>13, <1>14, <1>15 DEF HandlerInv

\* What a step owes is enough for the parts of the invariant that relate handlers.
LEMMA StepKeepsApart ==
  ASSUME IInv, Shape', NEW h \in Handlers, Frame(h), Owed(h)
  PROVE  Apart'
<1>1. ASSUME NEW g \in Handlers, g # h PROVE Made(g)' = Made(g)
  <2>1. pc'[g] = pc[g] /\ input'[g] = input[g] /\ todo'[g] = todo[g]
    BY <1>1 DEF Frame
  <2>2. \A q \in Queries : Sent(g, "search", q)' <=> Sent(g, "search", q)
    BY <1>1 DEF Frame, Sent
  <2>3. QED
    BY <2>1, <2>2 DEF Made, Kind
<1>2. ASSUME NEW g \in Handlers, NEW q \in Made(g)'
      PROVE  q \in Queries /\ job'[q] # "none"
  <2>1. CASE g = h
    BY <2>1, <1>2 DEF Owed, MakesNew
  <2>2. CASE g # h
    <3>1. q \in Made(g)
      BY <1>1, <1>2, <2>2
    <3>2. q \in Queries /\ job[q] # "none"
      BY <3>1 DEF IInv, Apart
    <3>3. QED
      BY <3>2 DEF Frame
  <2>3. QED
    BY <2>1, <2>2
<1>3. ASSUME NEW g \in Handlers, g # h, NEW q \in Made(g)' PROVE q \notin Made(h)'
  <2>1. q \in Made(g) /\ q \notin Made(h) /\ job[q] # "none"
    BY <1>1, <1>3 DEF IInv, Apart
  <2>2. QED
    BY <2>1 DEF Owed, MakesNew
<1>4. ASSUME NEW f \in Handlers, NEW g \in Handlers, f # g, NEW q \in Made(f)'
      PROVE  q \notin Made(g)'
  <2>1. CASE g = h
    BY <1>3, <1>4, <2>1
  <2>2. CASE f = h
    BY <1>3, <1>4, <2>2
  <2>3. CASE f # h /\ g # h
    BY <1>1, <1>4, <2>3 DEF IInv, Apart
  <2>4. QED
    BY <2>1, <2>2, <2>3
<1>5. ASSUME NEW g \in Handlers PROVE row[g] # 0 => row[g] \in DOMAIN exports
  <2>1. row[g] \in 0..Len(exports) /\ DOMAIN exports = 1..Len(exports) /\ Len(exports) \in Nat
    BY DEF IInv, Shape, TypeOK
  <2>2. QED
    BY <2>1
<1>6. ASSUME NEW f \in Handlers, NEW g \in Handlers, f # g, row'[f] # 0
      PROVE  row'[f] # row'[g]
  <2>1. \A k \in Handlers : k # h => row'[k] = row[k]
    BY DEF Frame
  <2>2. row'[h] = row[h] \/ row'[h] \notin DOMAIN exports
    BY DEF Frame
  <2>3. \A k \in Handlers \ {f} : row[f] # 0 => row[f] # row[k]
    BY DEF IInv, Apart
  <2>4. \A k \in Handlers \ {g} : row[g] # 0 => row[g] # row[k]
    BY DEF IInv, Apart
  <2>5. QED
    BY <1>5, <1>6, <2>1, <2>2, <2>3, <2>4
<1>7. QED
  BY <1>2, <1>4, <1>6 DEF Apart

LEMMA StepKeepsRequested ==
  ASSUME IInv, Shape', NEW h \in Handlers, Frame(h), Owed(h)
  PROVE  RequestedHasMessage'
<1>1. ASSUME NEW p \in published
      PROVE  /\ p.by \in Handlers /\ p \in published'
             /\ input'[p.by] = input[p.by]
             /\ p.queue = "export" => /\ p.key \in DOMAIN exports
                                      /\ p.key \in DOMAIN exports'
                                      /\ exports'[p.key].q = exports[p.key].q
  <2>1. p.by \in Handlers
    BY DEF IInv, Shape, TypeOK
  <2>2. HandlerInv(p.by)
    BY <2>1 DEF IInv
  <2>3. pc[p.by] # "idle" /\ input[p.by] \in Inputs
    BY <2>2 DEF HandlerInv, Received
  <2>4. input'[p.by] = input[p.by]
    BY <2>1, <2>3 DEF Frame
  <2>5. ASSUME p.queue = "export" PROVE p.key \in DOMAIN exports
    <3>1. Kind(p.by) \in Kinds
      BY <2>3, QueryServiceAssumption DEF Kind
    <3>2. p.queue = StageQueue(p.by)
      BY <2>2 DEF HandlerInv, Covers
    <3>3. Kind(p.by) \in ExportKinds
      BY <2>5, <3>1, <3>2 DEF Kinds, StageQueue, ExportKinds
    <3>4. row[p.by] # 0 /\ p.key = row[p.by]
      BY <2>2, <3>3 DEF HandlerInv, Covers, Asked, Kind, ExportKinds
    <3>5. row[p.by] \in 0..Len(exports) /\ DOMAIN exports = 1..Len(exports) /\ Len(exports) \in Nat
      BY <2>1 DEF IInv, Shape, TypeOK
    <3>6. QED
      BY <3>4, <3>5
  <2>6. QED
    BY <2>1, <2>4, <2>5 DEF Frame
<1>2. ASSUME NEW q \in Queries PROVE
       /\ job'[q] = "search_requested" => \E g \in Handlers : Sent(g, "search", q)'
       /\ job'[q] = "enrich_requested" =>
            \E p \in published' : p.queue = "enrich" /\ input'[p.by].batch = <<q>>
       /\ job'[q] = "export_requested" =>
            \E p \in published' : p.queue = "export" /\ exports'[p.key].q = q
  <2>1. CASE job'[q] # job[q]
    BY <2>1 DEF Owed, JobOwed
  <2>2. CASE job'[q] = job[q]
    <3>1. ASSUME job[q] = "search_requested" PROVE \E g \in Handlers : Sent(g, "search", q)'
      <4>1. PICK g \in Handlers : Sent(g, "search", q)
        BY <3>1 DEF IInv, RequestedHasMessage
      <4>2. Sent(g, "search", q)'
        BY <1>1, <4>1 DEF Sent
      <4>3. QED
        BY <4>2
    <3>2. ASSUME job[q] = "enrich_requested"
          PROVE  \E p \in published' : p.queue = "enrich" /\ input'[p.by].batch = <<q>>
      <4>1. PICK p \in published : p.queue = "enrich" /\ input[p.by].batch = <<q>>
        BY <3>2 DEF IInv, RequestedHasMessage
      <4>2. QED
        BY <1>1, <4>1
    <3>3. ASSUME job[q] = "export_requested"
          PROVE  \E p \in published' : p.queue = "export" /\ exports'[p.key].q = q
      <4>1. PICK p \in published : p.queue = "export" /\ exports[p.key].q = q
        BY <3>3 DEF IInv, RequestedHasMessage
      <4>2. QED
        BY <1>1, <4>1
    <3>4. QED
      BY <2>2, <3>1, <3>2, <3>3
  <2>3. QED
    BY <2>1, <2>2
<1>3. ASSUME NEW e \in DOMAIN exports', exports'[e].status = "requested"
      PROVE  \E g \in Handlers : Sent(g, "export", e)'
  <2>1. CASE e \notin DOMAIN exports \/ exports'[e] # exports[e]
    BY <1>3, <2>1 DEF Owed, ExportOwed
  <2>2. CASE e \in DOMAIN exports /\ exports'[e] = exports[e]
    <3>1. PICK g \in Handlers : Sent(g, "export", e)
      BY <1>3, <2>2 DEF IInv, RequestedHasMessage
    <3>2. Sent(g, "export", e)'
      BY <1>1, <3>1 DEF Sent
    <3>3. QED
      BY <3>2
  <2>3. QED
    BY <2>1, <2>2
<1>4. QED
  BY <1>2, <1>3 DEF RequestedHasMessage

LEMMA StepKeepsPending ==
  ASSUME IInv, Shape', NEW h \in Handlers, Frame(h), Owed(h)
  PROVE  PendingHasHandler'
<1>0. /\ InFlight \cup {"lost"} = Busy
      /\ \A g \in Handlers : g # h => (Holds(g) <=> Holds(g)')
  BY DEF Busy, Holds, Frame
<1>1. ASSUME NEW q \in Queries, job'[q] = "pending"
      PROVE  \E g \in Handlers : /\ Holds(g)' /\ input'[g].kind = "create"
                                 /\ todo'[g] # <<>> /\ Head(todo'[g]) = q
  <2>1. CASE job'[q] # job[q]
    BY <1>1, <2>1 DEF Owed, JobOwed
  <2>2. CASE job'[q] = job[q]
    <3>1. PICK g \in Handlers : /\ Holds(g) /\ input[g].kind = "create"
                                /\ todo[g] # <<>> /\ Head(todo[g]) = q
      BY <1>0, <1>1, <2>2 DEF IInv, PendingHasHandler, Holds
    <3>2. CASE g = h
      <4>1. pc[h] # "idle"
        <5>1. pc[h] # "idle" \/ input[h] = NoInput
          BY DEF IInv, HandlerInv, Received
        <5>2. QED
          BY <3>1, <3>2, <5>1 DEF NoInput
      <4>2. input'[h] = input[h]
        BY <4>1 DEF Frame
      <4>3. QED
        BY <1>1, <2>2, <3>1, <3>2, <4>2 DEF Owed, Settled
    <3>3. CASE g # h
      <4>1. Holds(g)'
        BY <1>0, <3>1, <3>3
      <4>2. QED
        BY <3>1, <3>3, <4>1 DEF Frame
    <3>4. QED
      BY <3>2, <3>3
  <2>3. QED
    BY <2>1, <2>2
<1>2. ASSUME NEW e \in DOMAIN exports', exports'[e].status = "pending"
      PROVE  \E g \in Handlers : Holds(g)' /\ row'[g] = e
  <2>1. CASE e \notin DOMAIN exports \/ exports'[e] # exports[e]
    BY <1>2, <2>1 DEF Owed, ExportOwed
  <2>2. CASE e \in DOMAIN exports /\ exports'[e] = exports[e]
    <3>0. e # 0
      BY <2>2 DEF IInv, Shape, TypeOK
    <3>1. PICK g \in Handlers : Holds(g) /\ row[g] = e
      BY <1>0, <1>2, <2>2 DEF IInv, PendingHasHandler, Holds
    <3>2. CASE g = h
      BY <1>2, <3>0, <3>1, <3>2 DEF Owed, Settled
    <3>3. CASE g # h
      <4>1. Holds(g)'
        BY <1>0, <3>1, <3>3
      <4>2. QED
        BY <3>1, <3>3, <4>1 DEF Frame
    <3>4. QED
      BY <3>2, <3>3
  <2>3. QED
    BY <2>1, <2>2
<1>3. QED
  BY <1>0, <1>1, <1>2 DEF PendingHasHandler, Holds

LEMMA StepKeepsIInv ==
  ASSUME IInv, Shape', NEW h \in Handlers, Frame(h), Owed(h), HandlerInv(h)'
  PROVE  IInv'
<1>1. \A g \in Handlers : HandlerInv(g)'
  BY OthersKeep
<1>2. QED
  BY <1>1, StepKeepsApart, StepKeepsRequested, StepKeepsPending DEF IInv

------------------------------------------------------------------------------
(* A handler at work. *)

LEMMA AtWork ==
  ASSUME IInv, NEW h \in Handlers, pc[h] \in InFlight
  PROVE  /\ input[h] \in Inputs /\ Kind(h) \in Kinds
         /\ pc[h] # "idle" /\ answer[h] = 0 /\ h \notin raised
         /\ input[h].batch \in Seq(Queries) /\ input[h].batch[1] \in Queries
         /\ Kind(h) # "create" => input[h].batch = <<Query(h)>> /\ Query(h) = input[h].batch[1]
         /\ todo[h] # <<>> /\ 1 \in DOMAIN todo[h] /\ Head(todo[h]) = todo[h][1]
         /\ Kind(h) = "create" => Query(h) = Head(todo[h])
         /\ Query(h) \in Queries
         /\ Kind(h) \in ExportKinds => row[h] \in DOMAIN exports /\ Head(todo[h]) = row[h]
         /\ Kind(h) \notin ExportKinds => row[h] = 0
         /\ row[h] # 0 => exports[row[h]].q = Query(h)
<1>0. HandlerInv(h)
  BY DEF IInv
<1>1. pc[h] # "idle" /\ pc[h] # "answered"
  BY DEF InFlight
<1>2. input[h] \in Inputs /\ answer[h] = 0 /\ h \notin raised
  BY <1>0, <1>1 DEF HandlerInv, Received
<1>3. /\ input[h].batch \in Seq(Queries) /\ input[h].batch # <<>> /\ Kind(h) \in Kinds
      /\ Kind(h) # "create" => Len(input[h].batch) = 1
  BY <1>2, QueryServiceAssumption DEF Kind
<1>4. input[h].batch[1] \in Queries
  BY <1>3
<1>5. todo[h] # <<>> /\ 1 \in DOMAIN todo[h] /\ Head(todo[h]) = todo[h][1]
  <2>1. PICK K : todo[h] \in Seq(K)
    BY DEF IInv, Shape
  <2>2. todo[h] # <<>>
    BY DEF IInv, Shape, TypeOK
  <2>3. QED
    BY <2>1, <2>2
<1>6. Kind(h) = "create" => Query(h) = Head(todo[h]) /\ Query(h) \in Queries
  <2>1. SUFFICES ASSUME Kind(h) = "create" PROVE Query(h) = Head(todo[h]) /\ Query(h) \in Queries
    OBVIOUS
  <2>2. todo[h] \in Seq(Queries)
    BY <1>0, <2>1 DEF HandlerInv, Covers
  <2>3. QED
    BY <1>5, <2>1, <2>2 DEF Query
<1>7. Kind(h) # "create" => input[h].batch = <<Query(h)>> /\ Query(h) = input[h].batch[1]
  <2>1. SUFFICES ASSUME Kind(h) # "create"
                 PROVE  input[h].batch = <<Query(h)>> /\ Query(h) = input[h].batch[1]
    OBVIOUS
  <2>2. Query(h) = Head(input[h].batch)
    BY <2>1 DEF Query
  <2>3. QED
    BY <1>3, <2>1, <2>2
<1>8. row[h] \in 0..Len(exports) /\ DOMAIN exports = 1..Len(exports) /\ Len(exports) \in Nat
  BY DEF IInv, Shape, TypeOK
<1>9. Kind(h) \in ExportKinds => row[h] \in DOMAIN exports /\ Head(todo[h]) = row[h]
  BY <1>0, <1>8 DEF HandlerInv, HasRow
<1>10. Kind(h) \notin ExportKinds => row[h] = 0
  BY <1>0 DEF HandlerInv, HasRow
<1>11. row[h] # 0 => exports[row[h]].q = Query(h)
  BY <1>0, <1>7, <1>10 DEF HandlerInv, HasRow, ExportKinds
<1>12. QED
  BY <1>1, <1>2, <1>3, <1>4, <1>5, <1>6, <1>7, <1>9, <1>10, <1>11

ExportRow == [q : Queries, status : ExportStatus]

\* What the handler sends is its own.
LEMMA OwnMessage ==
  ASSUME IInv, NEW h \in Handlers, pc[h] \in InFlight,
         published' \in {published, published \cup {Message(h)}},
         UNCHANGED <<input, row>>
  PROVE  /\ published \subseteq published'
         /\ \A p \in published' : p \in published \/ p.by = h
         /\ \A p \in published' : /\ p.by \in Handlers /\ p.queue \in {"search", "enrich", "export"}
                                  /\ IsMessage(p)
         /\ \A p \in published' : p.by = h =>
              /\ p.queue = StageQueue(h) /\ p.key \in Asked(h)
              /\ Kind(h) \in ExportKinds => row[h] # 0
         /\ \A q : Sent(h, "search", q)' => Sent(h, "search", q) \/ (q = Head(todo[h]))
<1>1. /\ Message(h).by = h /\ Message(h).queue = StageQueue(h) /\ Message(h).key = Head(todo[h])
      /\ IsMessage(Message(h))
  BY DEF Message, IsMessage
<1>2. StageQueue(h) \in {"search", "enrich", "export"}
  BY DEF StageQueue
<1>3. \A p \in published : /\ p.by \in Handlers /\ p.queue \in {"search", "enrich", "export"}
                           /\ IsMessage(p)
  BY DEF IInv, Shape, TypeOK
<1>4. \A p \in published : p.by = h =>
        /\ p.queue = StageQueue(h) /\ p.key \in Asked(h)
        /\ Kind(h) \in ExportKinds => row[h] # 0
  BY DEF IInv, HandlerInv, Covers
<1>5. Message(h).key \in Asked(h) /\ (Kind(h) \in ExportKinds => row[h] # 0)
  <2>1. Left(h) \subseteq Asked(h) /\ (Kind(h) \in ExportKinds => row[h] # 0)
    BY DEF IInv, HandlerInv, Covers, HasRow
  <2>2. Head(todo[h]) \in Left(h)
    BY AtWork DEF Left, All
  <2>3. QED
    BY <1>1, <2>1, <2>2
<1>6. \A q : [by |-> h, queue |-> "search", key |-> q] = Message(h) => q = Head(todo[h])
  BY <1>1
<1>7. QED
  BY <1>1, <1>2, <1>3, <1>4, <1>5, <1>6 DEF Sent

Tables == {"job", "event", "export"}

\* The tables of a handler's calls, and what it writes there.
LEMMA Calls ==
  /\ All(<<"job", "event">>) = {"job", "event"}
  /\ All(<<"export", "event">>) = {"export", "event"}
  /\ All(<<"job", "event", "export">>) = {"job", "event", "export"}
  /\ All(<<"export", "job", "event">>) = {"job", "event", "export"}
<1>1. All(<<"job", "event">>) = {"job", "event"}
  <2>1. DOMAIN <<"job", "event">> = {1, 2}
    OBVIOUS
  <2>2. QED
    BY <2>1 DEF All
<1>2. All(<<"export", "event">>) = {"export", "event"}
  <2>1. DOMAIN <<"export", "event">> = {1, 2}
    OBVIOUS
  <2>2. QED
    BY <2>1 DEF All
<1>3. All(<<"job", "event", "export">>) = {"job", "event", "export"}
  <2>1. DOMAIN <<"job", "event", "export">> = {1, 2, 3}
    OBVIOUS
  <2>2. QED
    BY <2>1 DEF All
<1>4. All(<<"export", "job", "event">>) = {"job", "event", "export"}
  <2>1. DOMAIN <<"export", "job", "event">> = {1, 2, 3}
    OBVIOUS
  <2>2. QED
    BY <2>1 DEF All
<1>5. QED
  BY <1>1, <1>2, <1>3, <1>4

\* What the statuses of a success and of a failure are, by the kind of the request.
Requested(kind) == CASE kind \in {"create", "retry_search"} -> "search_requested"
                     [] kind = "retry_enrich" -> "enrich_requested"
                     [] OTHER -> "export_requested"

LEMMA WritesTell ==
  ASSUME NEW h, Kind(h) \in Kinds
  PROVE  /\ "job" \in All(Success(h).calls) => Success(h).job = Requested(Kind(h))
         /\ "job" \in All(Failure(h).calls) =>
              Failure(h).job \in {"enqueue_failed", "search_retry_enqueue_failed",
                                  "enrich_retry_enqueue_failed", "export_retry_enqueue_failed"}
         /\ Success(h).event = Announcement(Kind(h)) /\ "event" \in All(Success(h).calls)
         /\ "export" \in All(Success(h).calls) <=> Kind(h) \in ExportKinds
         /\ "export" \in All(Failure(h).calls) <=> Kind(h) \in ExportKinds
         /\ Kind(h) = "create" => /\ "job" \in All(Success(h).calls)
                                  /\ "job" \in All(Failure(h).calls)
                                  /\ Success(h).job = "search_requested"
                                  /\ Success(h).event = "search.requested"
         /\ Success(h).calls \in Seq(Tables) /\ Failure(h).calls \in Seq(Tables)
<1>1. CASE Kind(h) = "create"
  <2>1. Success(h) = CreateWrites.success /\ Failure(h) = CreateWrites.failure
    BY <1>1 DEF Success, Failure, Writes
  <2>2. /\ Success(h).job = "search_requested" /\ Success(h).event = "search.requested"
        /\ Success(h).calls = <<"job", "event">>
        /\ Failure(h).job = "enqueue_failed" /\ Failure(h).calls = <<"job", "event">>
    BY <2>1 DEF CreateWrites
  <2>3. All(Success(h).calls) = {"job", "event"} /\ All(Failure(h).calls) = {"job", "event"}
    BY <2>2, Calls
  <2>4. /\ Requested(Kind(h)) = "search_requested" /\ Announcement(Kind(h)) = "search.requested"
        /\ Kind(h) \notin ExportKinds
    BY <1>1 DEF Requested, Announcement, ExportKinds
  <2>5. Success(h).calls \in Seq(Tables) /\ Failure(h).calls \in Seq(Tables)
    BY <2>2 DEF Tables
  <2>6. QED
    BY <1>1, <2>2, <2>3, <2>4, <2>5
<1>2. CASE Kind(h) = "export"
  <2>1. Success(h) = ExportWrites.success /\ Failure(h) = ExportWrites.failure
    BY <1>2 DEF Success, Failure, Writes
  <2>2. /\ Success(h).job = "none" /\ Success(h).event = "export.requested"
        /\ Success(h).calls = <<"export", "event">>
        /\ Failure(h).job = "none" /\ Failure(h).calls = <<"export", "event">>
    BY <2>1 DEF ExportWrites
  <2>3. All(Success(h).calls) = {"export", "event"} /\ All(Failure(h).calls) = {"export", "event"}
    BY <2>2, Calls
  <2>4. /\ Requested(Kind(h)) = "export_requested" /\ Announcement(Kind(h)) = "export.requested"
        /\ Kind(h) \in ExportKinds
    BY <1>2 DEF Requested, Announcement, ExportKinds
  <2>5. Success(h).calls \in Seq(Tables) /\ Failure(h).calls \in Seq(Tables)
    BY <2>2 DEF Tables
  <2>6. QED
    BY <1>2, <2>2, <2>3, <2>4, <2>5
<1>3. CASE Kind(h) = "retry_search"
  <2>1. Success(h) = RetrySearchWrites.success /\ Failure(h) = RetrySearchWrites.failure
    BY <1>3 DEF Success, Failure, Writes
  <2>2. /\ Success(h).job = "search_requested" /\ Success(h).event = "search.retry_requested"
        /\ Success(h).calls = <<"job", "event">>
        /\ Failure(h).job = "search_retry_enqueue_failed" /\ Failure(h).calls = <<"job", "event">>
    BY <2>1 DEF RetrySearchWrites
  <2>3. All(Success(h).calls) = {"job", "event"} /\ All(Failure(h).calls) = {"job", "event"}
    BY <2>2, Calls
  <2>4. /\ Requested(Kind(h)) = "search_requested" /\ Announcement(Kind(h)) = "search.retry_requested"
        /\ Kind(h) \notin ExportKinds
    BY <1>3 DEF Requested, Announcement, ExportKinds
  <2>5. Success(h).calls \in Seq(Tables) /\ Failure(h).calls \in Seq(Tables)
    BY <2>2 DEF Tables
  <2>6. QED
    BY <1>3, <2>2, <2>3, <2>4, <2>5
<1>4. CASE Kind(h) = "retry_enrich"
  <2>1. Success(h) = RetryEnrichWrites.success /\ Failure(h) = RetryEnrichWrites.failure
    BY <1>4 DEF Success, Failure, Writes
  <2>2. /\ Success(h).job = "enrich_requested" /\ Success(h).event = "enrich.retry_requested"
        /\ Success(h).calls = <<"job", "event">>
        /\ Failure(h).job = "enrich_retry_enqueue_failed" /\ Failure(h).calls = <<"job", "event">>
    BY <2>1 DEF RetryEnrichWrites
  <2>3. All(Success(h).calls) = {"job", "event"} /\ All(Failure(h).calls) = {"job", "event"}
    BY <2>2, Calls
  <2>4. /\ Requested(Kind(h)) = "enrich_requested" /\ Announcement(Kind(h)) = "enrich.retry_requested"
        /\ Kind(h) \notin ExportKinds
    BY <1>4 DEF Requested, Announcement, ExportKinds
  <2>5. Success(h).calls \in Seq(Tables) /\ Failure(h).calls \in Seq(Tables)
    BY <2>2 DEF Tables
  <2>6. QED
    BY <1>4, <2>2, <2>3, <2>4, <2>5
<1>5. CASE Kind(h) = "retry_export"
  <2>1. Success(h) = RetryExportWrites.success /\ Failure(h) = RetryExportWrites.failure
    BY <1>5 DEF Success, Failure, Writes
  <2>2. /\ Success(h).job = "export_requested" /\ Success(h).event = "export.retry_requested"
        /\ Success(h).calls = <<"job", "event", "export">>
        /\ Failure(h).job = "export_retry_enqueue_failed" /\ Failure(h).calls = <<"export", "job", "event">>
    BY <2>1 DEF RetryExportWrites
  <2>3. All(Success(h).calls) = {"job", "event", "export"} /\ All(Failure(h).calls) = {"job", "event", "export"}
    BY <2>2, Calls
  <2>4. /\ Requested(Kind(h)) = "export_requested" /\ Announcement(Kind(h)) = "export.retry_requested"
        /\ Kind(h) \in ExportKinds
    BY <1>5 DEF Requested, Announcement, ExportKinds
  <2>5. Success(h).calls \in Seq(Tables) /\ Failure(h).calls \in Seq(Tables)
    BY <2>2 DEF Tables
  <2>6. QED
    BY <1>5, <2>2, <2>3, <2>4, <2>5
<1>6. QED
  BY <1>1, <1>2, <1>3, <1>4, <1>5 DEF Kinds

LEMMA PrefixOfAll ==
  ASSUME NEW K, NEW calls \in Seq(K), NEW X \in Prefixes(calls)
  PROVE  X \subseteq All(calls)
<1>1. PICK n \in 0..Len(calls) : X = {calls[i] : i \in 1..n}
  BY DEF Prefixes
<1>2. DOMAIN calls = 1..Len(calls) /\ Len(calls) \in Nat
  OBVIOUS
<1>3. \A i \in 1..n : i \in DOMAIN calls
  BY <1>2
<1>4. QED
  BY <1>1, <1>3 DEF All

------------------------------------------------------------------------------
(* A handler that writes and answers. *)

\* The writes of a success to the tables s, then of a failure to f, and the answer.
Outcome(h, s, f, code) ==
  /\ s \subseteq All(Success(h).calls) /\ f \subseteq All(Failure(h).calls)
  /\ s # {} => pc[h] = "event"
  /\ Write(h, s, f) /\ Answer(h, code) /\ code \in {202, 409, 500}
  /\ \/ raised' = raised \cup {h}
     \/ raised' = raised /\ (s = All(Success(h).calls) \/ f = All(Failure(h).calls))
  /\ published' \in {published, published \cup {Message(h)}}
  /\ UNCHANGED <<records, input, todo, seen>>
  /\ code = 202 => /\ s = All(Success(h).calls) /\ f = {} /\ published' = published
                   /\ Kind(h) = "create" => Len(todo[h]) = 1
  /\ code = 409 => Kind(h) = "create"

FailedStatus == {"enqueue_failed", "search_retry_enqueue_failed",
                 "enrich_retry_enqueue_failed", "export_retry_enqueue_failed"}

\* The rows and the events after those writes.
LEMMA WritesOf ==
  ASSUME IInv, NEW h \in Handlers, pc[h] \in InFlight, NEW s, NEW f, NEW code,
         Outcome(h, s, f, code)
  PROVE  /\ job' \in [Queries -> JobStatus]
         /\ \A q \in Queries : job'[q] # job[q] =>
              /\ q = Query(h)
              /\ job'[q] \in FailedStatus \/ (s # {} /\ job'[q] = Requested(Kind(h)))
         /\ (Kind(h) = "create" /\ job'[Query(h)] = "pending") => h \in raised'
         /\ DOMAIN events' = Queries /\ \A q \in Queries : events[q] \subseteq events'[q]
         /\ s = All(Success(h).calls) =>
              [by |-> h, type |-> Announcement(Kind(h))] \in events'[Query(h)]
         /\ exports' \in Seq(ExportRow) /\ Len(exports') = Len(exports)
         /\ DOMAIN exports' = DOMAIN exports
         /\ \A e \in DOMAIN exports : /\ exports'[e].q = exports[e].q
                                      /\ e # row[h] => exports'[e] = exports[e]
         /\ Kind(h) \notin ExportKinds => exports' = exports
         /\ Kind(h) \in ExportKinds =>
              /\ exports'[row[h]].status = "requested" => s # {}
              /\ exports'[row[h]].status = "pending" => h \in raised'
              /\ (s = All(Success(h).calls) /\ f = {}) => exports'[row[h]].status = "requested"
<1> DEFINE succ == Success(h)  fail == Failure(h)
<1>1. /\ job' = JobAfter(h, s, f) /\ events' = EventsAfter(h, s, f)
      /\ exports' = ExportsAfter(h, s, f) /\ row' = row
      /\ s \subseteq All(succ.calls) /\ f \subseteq All(fail.calls)
      /\ h \in raised' \/ s = All(succ.calls) \/ f = All(fail.calls)
  BY DEF Outcome, Write
<1>2. Query(h) \in Queries /\ Kind(h) \in Kinds
  BY AtWork
<1>3. /\ "job" \in All(succ.calls) => succ.job = Requested(Kind(h))
      /\ "job" \in All(fail.calls) => fail.job \in FailedStatus
      /\ succ.event = Announcement(Kind(h)) /\ "event" \in All(succ.calls)
      /\ "export" \in All(succ.calls) <=> Kind(h) \in ExportKinds
      /\ "export" \in All(fail.calls) <=> Kind(h) \in ExportKinds
      /\ Kind(h) = "create" => "job" \in All(succ.calls) /\ "job" \in All(fail.calls)
  BY <1>2, WritesTell DEF FailedStatus
<1>4. /\ Requested(Kind(h)) \in {"search_requested", "enrich_requested", "export_requested"}
      /\ FailedStatus \subseteq JobStatus /\ Requested(Kind(h)) \in JobStatus
      /\ "pending" \notin FailedStatus /\ Requested(Kind(h)) # "pending"
  BY DEF Requested, FailedStatus, JobStatus
<1>5. /\ job \in [Queries -> JobStatus] /\ DOMAIN events = Queries
      /\ exports \in Seq(ExportRow)
  BY DEF IInv, Shape, TypeOK, ExportRow
<1> DEFINE v == IF "job" \in f THEN fail.job ELSE IF "job" \in s THEN succ.job ELSE job[Query(h)]
<1>6. job' = [job EXCEPT ![Query(h)] = v]
  BY <1>1, <1>2, <1>5 DEF JobAfter
<1>7. /\ v \in JobStatus
      /\ v # job[Query(h)] => v \in FailedStatus \/ (s # {} /\ v = Requested(Kind(h)))
      /\ (Kind(h) = "create" /\ v = "pending") => h \in raised'
  <2> HIDE DEF succ, fail
  <2>1. CASE "job" \in f
    <3>1. v \in FailedStatus
      BY <1>1, <1>3, <2>1
    <3>2. QED
      BY <1>4, <3>1
  <2>2. CASE "job" \notin f /\ "job" \in s
    <3>1. v = Requested(Kind(h)) /\ s # {}
      BY <1>1, <1>3, <2>2
    <3>2. QED
      BY <1>4, <3>1
  <2>3. CASE "job" \notin f /\ "job" \notin s
    <3>1. v = job[Query(h)]
      BY <2>3
    <3>2. Kind(h) = "create" => h \in raised'
      BY <1>1, <1>3, <2>3
    <3>3. QED
      BY <1>2, <1>5, <3>1, <3>2
  <2>4. QED
    BY <2>1, <2>2, <2>3
<1>8. /\ job' \in [Queries -> JobStatus] /\ job'[Query(h)] = v
      /\ \A q \in Queries : q # Query(h) => job'[q] = job[q]
  <2> HIDE DEF v
  <2>1. QED
    BY <1>2, <1>5, <1>6, <1>7
<1>9. /\ \A q \in Queries : job'[q] # job[q] =>
           /\ q = Query(h)
           /\ job'[q] \in FailedStatus \/ (s # {} /\ job'[q] = Requested(Kind(h)))
      /\ (Kind(h) = "create" /\ job'[Query(h)] = "pending") => h \in raised'
  <2> HIDE DEF v
  <2>1. QED
    BY <1>7, <1>8
<1> HIDE DEF v
<1>10. /\ DOMAIN events' = Queries /\ \A q \in Queries : events[q] \subseteq events'[q]
       /\ "event" \in s => [by |-> h, type |-> succ.event] \in events'[Query(h)]
  <2> DEFINE told == {[by |-> h, type |-> Success(h).event] : t \in s \cap {"event"}}
             failed == {[by |-> h, type |-> Failure(h).event] : t \in f \cap {"event"}}
  <2>1. events' = [events EXCEPT ![Query(h)] = events[Query(h)] \cup told \cup failed]
    BY <1>1, <1>2, <1>5 DEF EventsAfter
  <2>2. "event" \in s => [by |-> h, type |-> succ.event] \in told
    OBVIOUS
  <2> HIDE DEF told, failed, succ
  <2>3. QED
    BY <1>2, <1>5, <2>1, <2>2
<1>11. s = All(succ.calls) => [by |-> h, type |-> Announcement(Kind(h))] \in events'[Query(h)]
  <2>1. SUFFICES ASSUME s = All(succ.calls)
                 PROVE  [by |-> h, type |-> Announcement(Kind(h))] \in events'[Query(h)]
    OBVIOUS
  <2>2. "event" \in s /\ succ.event = Announcement(Kind(h))
    BY <1>3, <2>1
  <2> HIDE DEF succ
  <2>3. QED
    BY <1>10, <2>2
<1> DEFINE w == IF "export" \in f THEN "enqueue_failed"
                ELSE IF "export" \in s THEN "requested" ELSE exports[row[h]].status
           n == Len(exports)
<1>12. n \in Nat /\ DOMAIN exports = 1..n /\ \A e \in 1..n : exports[e] \in ExportRow
  BY <1>5
<1>13. \A e \in 1..n : exports'[e] = IF e # row[h] THEN exports[e]
                                     ELSE [exports[e] EXCEPT !.status = w]
  <2>1. \A e \in DOMAIN exports :
          ExportsAfter(h, s, f)[e] = IF e # row[h] THEN exports[e]
                                     ELSE [exports[e] EXCEPT !.status = w]
    BY <1>12 DEF ExportsAfter, ExportRow
  <2> HIDE DEF w, n
  <2>2. QED
    BY <1>1, <1>12, <2>1
<1>14. row[h] \in 1..n => w \in ExportStatus
  BY <1>12 DEF ExportRow, ExportStatus
<1>15. ASSUME NEW e \in 1..n
       PROVE  /\ exports'[e] \in ExportRow /\ exports'[e].q = exports[e].q
              /\ e # row[h] => exports'[e] = exports[e]
              /\ e = row[h] => exports'[e].status = w
  <2> HIDE DEF w, n
  <2>1. CASE e # row[h]
    BY <1>12, <1>13, <2>1
  <2>2. CASE e = row[h]
    <3>1. exports'[e] = [exports[e] EXCEPT !.status = w] /\ w \in ExportStatus
          /\ exports[e] \in ExportRow
      BY <1>12, <1>13, <1>14, <2>2
    <3>2. QED
      BY <2>2, <3>1 DEF ExportRow
  <2>3. QED
    BY <2>1, <2>2
<1>16. DOMAIN exports' = 1..n
  BY <1>1, <1>12 DEF ExportsAfter
<1>17. exports' \in Seq(ExportRow) /\ Len(exports') = n
  <2>1. exports' = [e \in DOMAIN exports |-> exports'[e]]
    BY <1>1 DEF ExportsAfter
  <2> HIDE DEF w, n
  <2>2. exports' \in [1..n -> ExportRow]
    BY <1>12, <1>15, <1>16, <2>1
  <2> HIDE DEF ExportRow
  <2>3. exports' \in Seq(ExportRow)
    BY <1>12, <2>2
  <2>4. QED
    BY <1>12, <1>16, <2>3, LenProperties
<1>18. Kind(h) \notin ExportKinds => exports' = exports
  <2>1. SUFFICES ASSUME Kind(h) \notin ExportKinds PROVE exports' = exports
    OBVIOUS
  <2>2. row[h] = 0
    BY <2>1, AtWork
  <2>3. \A e \in 1..n : exports'[e] = exports[e]
    BY <1>12, <1>15, <2>2
  <2> HIDE DEF ExportRow
  <2>4. QED
    BY <1>5, <1>17, <2>3, SeqEqual
<1>19. Kind(h) \in ExportKinds =>
         /\ exports'[row[h]].status = "requested" => s # {}
         /\ exports'[row[h]].status = "pending" => h \in raised'
         /\ (s = All(succ.calls) /\ f = {}) => exports'[row[h]].status = "requested"
  <2>1. SUFFICES ASSUME Kind(h) \in ExportKinds
                 PROVE  /\ w = "requested" => s # {}
                        /\ w = "pending" => h \in raised'
                        /\ (s = All(succ.calls) /\ f = {}) => w = "requested"
    <3>1. Kind(h) \in ExportKinds => row[h] \in 1..n
      BY <1>12, AtWork
    <3> HIDE DEF w, n, succ
    <3>2. QED
      BY <1>15, <2>1, <3>1
  <2>2. exports[row[h]].status = "pending"
    BY <2>1 DEF IInv, HandlerInv, HasRow
  <2>3. "export" \in All(succ.calls) /\ "export" \in All(fail.calls)
    BY <1>3, <2>1
  <2> HIDE DEF succ, fail
  <2>4. QED
    BY <1>1, <2>2, <2>3
<1>20. QED
  BY <1>8, <1>9, <1>10, <1>11, <1>12, <1>15, <1>16, <1>17, <1>18, <1>19

\* What an answer 202 promises.
LEMMA AcceptedOutcome ==
  ASSUME IInv, NEW h \in Handlers, pc[h] \in InFlight, NEW s, NEW f, NEW code, code = 202,
         Outcome(h, s, f, code)
  PROVE  Accepted(h)'
<1>1. /\ s = All(Success(h).calls) /\ f = {} /\ published' = published
      /\ Kind(h) = "create" => Len(todo[h]) = 1
      /\ UNCHANGED <<input, todo, seen, row>>
  BY DEF Outcome, Write
<1>2. pc[h] = "event" /\ Kind(h) \in Kinds
  <2>1. Kind(h) \in Kinds /\ "event" \in All(Success(h).calls)
    BY AtWork, WritesTell
  <2>2. QED
    BY <1>1, <2>1 DEF Outcome
<1>3. Covers(h) /\ Sent(h, StageQueue(h), Head(todo[h])) /\ Len(todo[h]) = 1
  BY <1>1, <1>2 DEF IInv, HandlerInv, Covers
<1>4. Left(h) = {Head(todo[h])}
  <2>1. PICK K : todo[h] \in Seq(K)
    BY DEF IInv, Shape
  <2>2. DOMAIN todo[h] = {1} /\ Head(todo[h]) = todo[h][1]
    BY <1>3, <2>1
  <2>3. QED
    BY <2>2 DEF Left, All
<1>5. \A k \in Asked(h) : Sent(h, StageQueue(h), k)
  BY <1>3, <1>4 DEF Covers
<1>6. StandsFor(h) = {[by |-> h, queue |-> StageQueue(h), key |-> k] : k \in Asked(h)}
  <2>1. CASE Kind(h) \in {"create", "retry_search"}
    BY <2>1 DEF StandsFor, StageQueue, Asked, Kind
  <2>2. CASE Kind(h) = "retry_enrich"
    BY <2>2 DEF StandsFor, StageQueue, Asked, Kind
  <2>3. CASE Kind(h) \in {"export", "retry_export"}
    BY <2>3 DEF StandsFor, StageQueue, Asked, Kind
  <2>4. QED
    BY <1>2, <2>1, <2>2, <2>3 DEF Kinds
<1>7. SentBy(h) = StandsFor(h)
  <2>1. ASSUME NEW k \in Asked(h)
        PROVE  [by |-> h, queue |-> StageQueue(h), key |-> k] \in SentBy(h)
    BY <1>5 DEF Sent, SentBy
  <2>2. ASSUME NEW p \in SentBy(h)
        PROVE  p = [by |-> h, queue |-> StageQueue(h), key |-> p.key] /\ p.key \in Asked(h)
    <3>1. p.queue = StageQueue(h) /\ p.key \in Asked(h) /\ p.by = h
      BY <1>3 DEF SentBy, Covers
    <3>2. p = [by |-> p.by, queue |-> p.queue, key |-> p.key]
      BY DEF SentBy, IInv, Shape, IsMessage
    <3>3. QED
      BY <3>1, <3>2
  <2>3. QED
    BY <1>6, <2>1, <2>2
<1>8. /\ DOMAIN events' = Queries /\ \A q \in Queries : events[q] \subseteq events'[q]
      /\ [by |-> h, type |-> Announcement(Kind(h))] \in events'[Query(h)]
      /\ Kind(h) \in ExportKinds => exports'[row[h]].status = "requested"
  BY <1>1, WritesOf
<1>9. ASSUME NEW q \in All(input[h].batch)
      PROVE  [by |-> h, type |-> Announcement(Kind(h))] \in events'[q]
  <2>1. CASE Kind(h) = "create"
    <3>1. q \in Queries /\ q \in Asked(h) /\ Query(h) = Head(todo[h])
      BY <2>1, AtWork DEF Asked, All, Kind
    <3>2. q = Query(h) \/ Told(h, "search.requested", q)
      BY <1>3, <1>4, <2>1, <3>1 DEF Covers
    <3>3. Announcement(Kind(h)) = "search.requested"
      BY <2>1 DEF Announcement
    <3>4. QED
      BY <1>8, <3>1, <3>2, <3>3 DEF Told
  <2>2. CASE Kind(h) # "create"
    <3>1. input[h].batch = <<Query(h)>>
      BY <2>2, AtWork
    <3>2. q = Query(h)
      BY <3>1 DEF All
    <3>3. QED
      BY <1>8, <3>2
  <2>3. QED
    BY <2>1, <2>2
<1>10. row[h] # 0 => exports'[row[h]].status = "requested"
  BY <1>8, AtWork
<1>11. SentBy(h)' = StandsFor(h)'
  BY <1>1, <1>7 DEF SentBy, StandsFor
<1>12. (\A q \in All(input[h].batch) : Told(h, Announcement(input[h].kind), q))'
  BY <1>1, <1>9 DEF Told, Kind
<1>13. QED
  BY <1>1, <1>10, <1>11, <1>12 DEF Accepted

LEMMA OutcomeKeepsIInv ==
  ASSUME IInv, NEW h \in Handlers, pc[h] \in InFlight, NEW s, NEW f, NEW code,
         Outcome(h, s, f, code)
  PROVE  IInv'
<1>1. /\ Shape /\ TypeOK
      /\ UNCHANGED <<records, input, todo, seen, row>>
      /\ s # {} => pc[h] = "event"
      /\ raised' = raised \cup {h} \/ raised' = raised
      /\ published' \in {published, published \cup {Message(h)}}
      /\ code = 409 => Kind(h) = "create"
  BY DEF IInv, Shape, Outcome, Write
<1>2. /\ pc' = [pc EXCEPT ![h] = "answered"] /\ answer' = [answer EXCEPT ![h] = code]
      /\ pc' \in [Handlers -> InFlight \cup {"idle", "answered", "lost"}]
      /\ answer' \in [Handlers -> {0, 202, 404, 409, 500}]
      /\ pc'[h] = "answered" /\ answer'[h] = code
      /\ \A g \in Handlers \ {h} : pc'[g] = pc[g] /\ answer'[g] = answer[g]
  BY <1>1 DEF Answer, TypeOK, Outcome
<1>3. "answered" \notin Busy /\ "answered" \notin InFlight /\ pc[h] \in Busy
  BY DEF Busy, InFlight
<1>4. /\ Query(h) \in Queries /\ pc[h] # "idle" /\ Kind(h) \in Kinds
      /\ Kind(h) = "create" => Query(h) = Head(todo[h])
      /\ Kind(h) # "create" => input[h].batch = <<Query(h)>>
      /\ Kind(h) \in ExportKinds => row[h] \in DOMAIN exports /\ Head(todo[h]) = row[h]
      /\ row[h] # 0 => Kind(h) \in ExportKinds /\ exports[row[h]].q = Query(h)
      /\ input[h] \in Inputs
  BY AtWork
<1>5. /\ job' \in [Queries -> JobStatus]
      /\ \A q \in Queries : job'[q] # job[q] =>
           /\ q = Query(h)
           /\ job'[q] \in FailedStatus \/ (s # {} /\ job'[q] = Requested(Kind(h)))
      /\ (Kind(h) = "create" /\ job'[Query(h)] = "pending") => h \in raised'
      /\ DOMAIN events' = Queries /\ \A q \in Queries : events[q] \subseteq events'[q]
      /\ exports' \in Seq(ExportRow) /\ Len(exports') = Len(exports)
      /\ DOMAIN exports' = DOMAIN exports
      /\ \A e \in DOMAIN exports : /\ exports'[e].q = exports[e].q
                                   /\ e # row[h] => exports'[e] = exports[e]
      /\ Kind(h) \notin ExportKinds => exports' = exports
      /\ Kind(h) \in ExportKinds =>
           /\ exports'[row[h]].status = "requested" => s # {}
           /\ exports'[row[h]].status = "pending" => h \in raised'
  BY WritesOf
<1>6. s # {} => Sent(h, StageQueue(h), Head(todo[h]))
  BY <1>1 DEF IInv, HandlerInv, Covers
<1>7. /\ published \subseteq published'
      /\ \A p \in published' : p \in published \/ p.by = h
      /\ \A p \in published' : /\ p.by \in Handlers /\ p.queue \in {"search", "enrich", "export"}
                               /\ IsMessage(p)
      /\ \A p \in published' : p.by = h =>
           /\ p.queue = StageQueue(h) /\ p.key \in Asked(h)
           /\ Kind(h) \in ExportKinds => row[h] # 0
      /\ \A q : Sent(h, "search", q)' => Sent(h, "search", q) \/ (q = Head(todo[h]))
  BY <1>1, OwnMessage
<1>8. Shape'
  <2>1. TypeOK'
    <3>1. exports' \in Seq([q : Queries, status : ExportStatus])
      BY <1>5 DEF ExportRow
    <3>2. row' \in [Handlers -> 0..Len(exports')]
      BY <1>1, <1>5 DEF TypeOK
    <3>3. \A g \in Handlers : pc'[g] \in InFlight => todo'[g] # <<>>
      BY <1>1, <1>2, <1>3 DEF TypeOK
    <3>4. /\ \A q \in Queries : records'[q] \in 0..MaxRecords[q]
          /\ input' \in [Handlers -> Inputs \cup {NoInput}] /\ raised' \subseteq Handlers
      BY <1>1 DEF TypeOK
    <3>5. QED
      BY <1>2, <1>5, <1>7, <3>1, <3>2, <3>3, <3>4 DEF TypeOK
  <2>2. \A g \in Handlers : pc'[g] \in InFlight => \E K : todo'[g] \in Seq(K)
    BY <1>1, <1>2, <1>3 DEF Shape
  <2>3. \A p \in published' : IsMessage(p)
    BY <1>7
  <2>4. QED
    BY <1>1, <2>1, <2>2, <2>3 DEF Shape
<1>9. Frame(h)
  <2>1. \A q \in Queries : job[q] # "none" => job'[q] # "none"
    <3>1. "none" \notin FailedStatus /\ Requested(Kind(h)) # "none"
      BY DEF FailedStatus, Requested
    <3>2. QED
      BY <1>5, <3>1
  <2>2. QED
    BY <1>1, <1>2, <1>5, <1>7, <2>1 DEF Frame
<1>10. MakesNew(h)
  <2>1. ASSUME NEW q \in Made(h)' PROVE q \in Made(h)
    <3>1. Kind(h)' = Kind(h) /\ Kind(h) = "create"
      BY <1>1, <2>1 DEF Made, Kind
    <3>2. Made(h)' = {x \in Queries : Sent(h, "search", x)'}
      BY <1>2, <1>3, <3>1 DEF Made
    <3>3. Made(h) = {x \in Queries : Sent(h, "search", x)} \cup {Head(todo[h])}
      BY <1>3, <3>1 DEF Made
    <3>4. QED
      BY <1>7, <2>1, <3>2, <3>3
  <2>2. ASSUME NEW q \in Made(h) PROVE q \in Queries /\ job'[q] # "none"
    BY <1>9, <2>2 DEF IInv, Apart, Frame
  <2>3. QED
    BY <2>1, <2>2 DEF MakesNew
<1>11. JobOwed(h)
  <2>1. SUFFICES ASSUME NEW q \in Queries, job'[q] # job[q], job'[q] \notin FailedStatus
                 PROVE
       /\ job'[q] = "search_requested" => Sent(h, "search", q)'
       /\ job'[q] = "enrich_requested" =>
            \E p \in published' : p.queue = "enrich" /\ p.by = h /\ input'[h].batch = <<q>>
       /\ job'[q] = "export_requested" =>
            \E p \in published' : p.queue = "export" /\ exports'[p.key].q = q
       /\ job'[q] # "pending"
    BY DEF JobOwed, FailedStatus
  <2>2. /\ q = Query(h) /\ job'[q] = Requested(Kind(h))
        /\ [by |-> h, queue |-> StageQueue(h), key |-> Head(todo[h])] \in published'
    BY <1>5, <1>6, <1>7, <2>1 DEF Sent
  <2>3. CASE Kind(h) \in {"create", "retry_search"}
    <3>1. job'[q] = "search_requested" /\ StageQueue(h) = "search"
      BY <2>2, <2>3 DEF Requested, StageQueue
    <3>2. Head(todo[h]) = q
      <4>1. CASE Kind(h) = "create"
        BY <1>4, <2>2, <4>1
      <4>2. CASE Kind(h) = "retry_search"
        <5>1. Head(todo[h]) \in Left(h) /\ Left(h) \subseteq Asked(h)
          BY AtWork DEF Left, All, IInv, HandlerInv, Covers
        <5>2. Asked(h) = All(input[h].batch) /\ input[h].batch = <<q>>
          BY <1>4, <2>2, <4>2 DEF Asked, Kind
        <5>3. QED
          BY <5>1, <5>2 DEF All
      <4>3. QED
        BY <2>3, <4>1, <4>2
    <3>3. QED
      BY <2>2, <3>1, <3>2 DEF Sent
  <2>4. CASE Kind(h) = "retry_enrich"
    <3>1. job'[q] = "enrich_requested" /\ StageQueue(h) = "enrich" /\ input'[h].batch = <<q>>
      BY <1>1, <1>4, <2>2, <2>4 DEF Requested, StageQueue
    <3>2. QED
      BY <2>2, <3>1
  <2>5. CASE Kind(h) \in ExportKinds
    <3>1. job'[q] = "export_requested" /\ StageQueue(h) = "export"
      BY <2>2, <2>5 DEF Requested, StageQueue, ExportKinds
    <3>2. 0 \notin DOMAIN exports
      BY <1>1 DEF TypeOK
    <3>3. Head(todo[h]) \in DOMAIN exports /\ exports[Head(todo[h])].q = q
      BY <1>4, <2>2, <2>5, <3>2
    <3>4. exports'[Head(todo[h])].q = q
      BY <1>5, <3>3
    <3>5. QED
      BY <2>2, <3>1, <3>4
  <2>6. QED
    BY <1>4, <2>3, <2>4, <2>5 DEF Kinds, ExportKinds
<1>12. ExportOwed(h)
  <2>1. SUFFICES ASSUME NEW i \in DOMAIN exports', exports'[i] # exports[i]
                 PROVE  /\ exports'[i].status = "requested" => Sent(h, "export", i)'
                        /\ exports'[i].status = "pending" => h \in raised' /\ row'[h] = i
    BY <1>5 DEF ExportOwed, Holds
  <2>2. i = row[h] /\ Kind(h) \in ExportKinds
    BY <1>5, <2>1
  <2>3. exports'[i].status = "pending" => h \in raised' /\ row'[h] = i
    BY <1>1, <1>5, <2>2
  <2>4. ASSUME exports'[i].status = "requested" PROVE Sent(h, "export", i)'
    <3>1. Sent(h, StageQueue(h), Head(todo[h])) /\ Head(todo[h]) = i /\ StageQueue(h) = "export"
      BY <1>4, <1>5, <1>6, <2>2, <2>4 DEF StageQueue, ExportKinds
    <3>2. QED
      BY <1>7, <3>1 DEF Sent
  <2>5. QED
    BY <2>3, <2>4
<1>13. Settled(h)
  <2>1. ASSUME NEW q \in Queries, input[h].kind = "create", Head(todo[h]) = q,
               job'[q] = "pending"
        PROVE  h \in raised'
    BY <1>4, <1>5, <2>1 DEF Kind
  <2>2. ASSUME row[h] # 0, exports'[row[h]].status = "pending" PROVE h \in raised'
    BY <1>4, <1>5, <2>2
  <2>3. QED
    BY <1>1, <2>1, <2>2 DEF Settled, Holds
<1>14. HandlerInv(h)'
  <2>1. HandlerInv(h) /\ h \in Handlers
    BY DEF IInv
  <2>2. Received(h)'
    BY <1>2, <1>1, <1>4 DEF Received
  <2>3. HasRow(h)'
    <3>1. row[h] # 0 => row[h] \in DOMAIN exports
      BY <1>1 DEF TypeOK
    <3>2. QED
      BY <1>1, <1>2, <1>3, <1>5, <2>1, <3>1 DEF HandlerInv, HasRow, Kind
  <2>4. Covers(h)'
    <3>1. Kind(h)' = Kind(h) /\ StageQueue(h)' = StageQueue(h) /\ Asked(h)' = Asked(h)
      BY <1>1 DEF Kind, StageQueue, Asked
    <3>2. pc'[h] # "event"
      BY <1>2
    <3>3. QED
      BY <1>1, <1>2, <1>3, <1>7, <3>1, <3>2 DEF Covers
  <2>5. Refused(h)'
    BY <1>1, <1>2 DEF Refused, Kind, Outcome
  <2>6. Accepted(h)'
    <3>1. CASE code = 202
      BY <3>1, AcceptedOutcome
    <3>2. CASE code # 202
      BY <1>2, <3>2 DEF Accepted
    <3>3. QED
      BY <3>1, <3>2
  <2>7. QED
    BY <2>2, <2>3, <2>4, <2>5, <2>6 DEF HandlerInv
<1>15. QED
  BY <1>8, <1>9, <1>10, <1>11, <1>12, <1>13, <1>14, StepKeepsIInv DEF Owed

\* A publication raised: every handler settles what it had begun, or raises.
LEMMA FailsKeeps ==
  ASSUME IInv, NEW h \in Handlers, pc[h] \in InFlight,
         published' \in {published, published \cup {Message(h)}},
         Fails(h), UNCHANGED <<records, input, seen>>
  PROVE  IInv'
<1>1. Failure(h).calls \in Seq(Tables)
  BY AtWork, WritesTell
<1>2. PICK f \in Prefixes(Failure(h).calls) :
        /\ Write(h, {}, f)
        /\ (f = All(Failure(h).calls) /\ Ends(h, 500)) \/ Raises(h)
  BY DEF Fails
<1>3. f \subseteq All(Failure(h).calls)
  BY <1>1, <1>2, PrefixOfAll
<1>4. /\ Answer(h, 500) /\ todo' = todo
      /\ \/ raised' = raised \cup {h}
         \/ raised' = raised /\ f = All(Failure(h).calls)
  BY <1>2 DEF Ends, Raises, Fails
<1>5. Outcome(h, {}, f, 500)
  BY <1>2, <1>3, <1>4 DEF Outcome
<1>6. QED
  BY <1>5, OutcomeKeepsIInv

\* The messages are out, the success is written or one of its calls raises.
LEMMA SucceedsKeeps ==
  ASSUME IInv, NEW h \in Handlers, pc[h] = "event",
         Succeeds(h), UNCHANGED <<published, records, input, seen>>
  PROVE  IInv'
<1>1. /\ Kind(h) # "create" \/ Len(todo[h]) = 1
      /\ Write(h, All(Success(h).calls), {}) /\ Answer(h, 202) /\ raised' = raised /\ todo' = todo
  BY DEF Succeeds, Ends
<1>2. Outcome(h, All(Success(h).calls), {}, 202)
  BY <1>1 DEF Outcome
<1>3. QED
  BY <1>2, OutcomeKeepsIInv DEF InFlight

LEMMA SuccessRaisesKeeps ==
  ASSUME IInv, NEW h \in Handlers, pc[h] = "event",
         SuccessRaises(h), UNCHANGED <<published, records, input, seen>>
  PROVE  IInv'
<1>0. pc[h] \in InFlight
  BY DEF InFlight
<1>1. Failure(h).calls \in Seq(Tables) /\ Success(h).calls \in Seq(Tables)
  BY <1>0, AtWork, WritesTell
<1>2. PICK s \in Prefixes(Success(h).calls),
           f \in IF Kind(h) = "export" THEN {{}} ELSE Prefixes(Failure(h).calls) :
        Write(h, s, f)
  BY DEF SuccessRaises
<1>3. s \subseteq All(Success(h).calls)
  BY <1>1, PrefixOfAll
<1>4. f \subseteq All(Failure(h).calls)
  <2>1. CASE Kind(h) = "export"
    BY <2>1
  <2>2. CASE Kind(h) # "export"
    <3>1. f \in Prefixes(Failure(h).calls)
      BY <2>2
    <3>2. QED
      BY <1>1, <3>1, PrefixOfAll
  <2>3. QED
    BY <2>1, <2>2
<1>5. Answer(h, 500) /\ todo' = todo /\ raised' = raised \cup {h}
  BY DEF SuccessRaises, Raises
<1>6. Outcome(h, s, f, 500)
  BY <1>2, <1>3, <1>4, <1>5 DEF Outcome
<1>7. QED
  BY <1>0, <1>6, OutcomeKeepsIInv

\* create_queries finds its next query taken.
LEMMA CreateTakenKeeps ==
  ASSUME IInv, NEW h \in Handlers, pc[h] = "event", Kind(h) = "create",
         Write(h, All(Success(h).calls), {}), Ends(h, 409), UNCHANGED todo,
         UNCHANGED <<published, records, input, seen>>
  PROVE  IInv'
<1>1. Outcome(h, All(Success(h).calls), {}, 409)
  BY DEF Outcome, Ends
<1>2. QED
  BY <1>1, OutcomeKeepsIInv DEF InFlight

\* What is in a sequence is its head or in its tail.
LEMMA HeadOrTail ==
  ASSUME NEW K, NEW s \in Seq(K), s # <<>>
  PROVE  /\ Tail(s) \in Seq(K) /\ Len(s) \in Nat \ {0} /\ (Tail(s) = <<>> <=> Len(s) = 1)
         /\ All(s) = {Head(s)} \cup All(Tail(s))
         /\ Tail(s) # <<>> => Head(Tail(s)) = Tail(s)[1] /\ 1 \in DOMAIN Tail(s)
<1>1. Tail(s) \in Seq(K) /\ Len(s) \in Nat \ {0} /\ (Tail(s) = <<>> <=> Len(s) = 1)
  <2>1. Tail(s) \in Seq(K) /\ Len(s) \in Nat /\ Len(Tail(s)) = Len(s) - 1
    OBVIOUS
  <2>2. Len(s) # 0
    BY EmptySeq
  <2>3. Tail(s) = <<>> <=> Len(Tail(s)) = 0
    BY <2>1, EmptySeq
  <2>4. QED
    BY <2>1, <2>2, <2>3
<1>2. ASSUME NEW i \in DOMAIN s, i # 1 PROVE \E j \in DOMAIN Tail(s) : Tail(s)[j] = s[i]
  <2>1. i - 1 \in DOMAIN Tail(s) /\ Tail(s)[i - 1] = s[i]
    BY <1>2
  <2>2. QED
    BY <2>1
<1>3. ASSUME NEW j \in DOMAIN Tail(s) PROVE \E i \in DOMAIN s : s[i] = Tail(s)[j]
  <2>1. j + 1 \in DOMAIN s /\ Tail(s)[j] = s[j + 1]
    OBVIOUS
  <2>2. QED
    BY <2>1
<1>4. 1 \in DOMAIN s /\ Head(s) = s[1]
  BY <1>1
<1>5. Tail(s) # <<>> => Head(Tail(s)) = Tail(s)[1] /\ 1 \in DOMAIN Tail(s)
  <2>1. SUFFICES ASSUME Tail(s) # <<>> PROVE Head(Tail(s)) = Tail(s)[1] /\ 1 \in DOMAIN Tail(s)
    OBVIOUS
  <2>2. Tail(s) \in Seq(K) /\ Len(Tail(s)) \in Nat /\ Len(Tail(s)) # 0
    BY <1>1, <2>1, EmptySeq
  <2>3. \A t \in Seq(K) : Len(t) # 0 => Head(t) = t[1] /\ 1 \in DOMAIN t
    OBVIOUS
  <2>4. QED
    BY <2>2, <2>3
<1>6. All(s) = {Head(s)} \cup All(Tail(s))
  BY <1>2, <1>3, <1>4 DEF All
<1>7. QED
  BY <1>1, <1>5, <1>6

\* create_queries inserts the next query of its batch, and goes on or raises.
LEMMA CreateNextKeeps ==
  ASSUME IInv, NEW h \in Handlers, pc[h] = "event", Kind(h) = "create",
         NEW next, next = Tail(todo[h]), next # <<>>, job[next[1]] = "none",
         NEW c \in Prefixes(InsertCalls),
         Inserts(h, next[1], c, JobAfter(h, All(Success(h).calls), {}),
                                EventsAfter(h, All(Success(h).calls), {})),
         (c = All(InsertCalls) /\ GoesOn(h)) \/ Raises(h),
         todo' = [todo EXCEPT ![h] = next],
         UNCHANGED <<published, records, input, seen>>
  PROVE  IInv'
<1> DEFINE q == Head(todo[h])  r == next[1]
           told == [by |-> h, type |-> "search.requested"]
<1>0. pc[h] \in InFlight /\ Kind(h) \in Kinds
  BY DEF InFlight, Kinds
<1>1. /\ "job" \in All(Success(h).calls) /\ "event" \in All(Success(h).calls)
      /\ Success(h).job = "search_requested" /\ Success(h).event = "search.requested"
  BY <1>0, WritesTell
<1>2. Shape /\ TypeOK /\ HandlerInv(h)
  BY DEF IInv, Shape
<1>3. q \in Queries /\ Query(h) = q /\ todo[h] # <<>> /\ row[h] = 0 /\ answer[h] = 0
      /\ input[h] \in Inputs /\ input[h].batch \in Seq(Queries) /\ Kind(h) \notin ExportKinds
      /\ h \notin raised
  BY <1>0, AtWork DEF ExportKinds
<1>4. todo[h] \in Seq(Queries) /\ Covers(h) /\ StageQueue(h) = "search"
  BY <1>0, <1>2 DEF HandlerInv, Covers, StageQueue
<1>5. /\ next \in Seq(Queries) /\ next # <<>> /\ r = Head(next) /\ r \in Queries
      /\ Left(h) = {q} \cup All(next)
  BY <1>3, <1>4, HeadOrTail DEF Left
<1>6. Sent(h, "search", q)
  BY <1>4 DEF Covers
<1>7. q \in Made(h) /\ job[q] # "none" /\ q # r
  <2>1. q \in Made(h)
    BY <1>3, <1>6 DEF Made
  <2>2. QED
    BY <2>1 DEF IInv, Apart
<1>8. JobAfter(h, All(Success(h).calls), {}) = [job EXCEPT ![q] = "search_requested"]
  BY <1>1, <1>3 DEF JobAfter
<1>9. /\ job' \in [Queries -> JobStatus] /\ job'[q] = "search_requested"
      /\ job'[r] \in {"none", "pending"} /\ (c = All(InsertCalls) => job'[r] = "pending")
      /\ \A x \in Queries : x # q /\ x # r => job'[x] = job[x]
  <2>1. job \in [Queries -> JobStatus]
    BY <1>2 DEF TypeOK
  <2>2. "search_requested" \in JobStatus /\ "pending" \in JobStatus
    BY DEF JobStatus
  <2> DEFINE jobs == JobAfter(h, All(Success(h).calls), {})
  <2>3. /\ job' = IF "job" \in c THEN [jobs EXCEPT ![r] = "pending"] ELSE jobs
        /\ c = All(InsertCalls) => "job" \in c
    BY Calls DEF Inserts, InsertCalls
  <2> HIDE DEF q, r, jobs
  <2>4. /\ jobs \in [Queries -> JobStatus] /\ jobs[q] = "search_requested"
        /\ \A x \in Queries : x # q => jobs[x] = job[x]
    BY <1>3, <1>8, <2>1, <2>2 DEF jobs
  <2>5. job[r] = "none"
    BY DEF r
  <2>6. CASE "job" \in c
    BY <1>3, <1>5, <1>7, <2>2, <2>3, <2>4, <2>6
  <2>7. CASE "job" \notin c
    BY <1>3, <1>5, <1>7, <2>3, <2>4, <2>5, <2>7
  <2>8. QED
    BY <2>6, <2>7
<1>10. /\ DOMAIN events' = Queries /\ \A x \in Queries : events[x] \subseteq events'[x]
       /\ told \in events'[q]
  <2> DEFINE new == {[by |-> h, type |-> Success(h).event] :
                        t \in All(Success(h).calls) \cap {"event"}}
             log == EventsAfter(h, All(Success(h).calls), {})
  <2>1. DOMAIN events = Queries
    BY <1>2 DEF TypeOK
  <2>2. log = [events EXCEPT ![q] = events[q] \cup new]
    BY <1>3, <2>1 DEF EventsAfter
  <2>3. told \in new
    BY <1>1
  <2>4. \/ events' = [log EXCEPT ![r] = @ \cup {[by |-> h, type |-> "query.created"]}]
        \/ events' = log
    BY DEF Inserts
  <2> HIDE DEF new, log, told, q, r
  <2>5. DOMAIN log = Queries /\ told \in log[q] /\ \A x \in Queries : events[x] \subseteq log[x]
    BY <1>3, <2>1, <2>2, <2>3
  <2>6. CASE events' = log
    BY <1>3, <2>5, <2>6
  <2>7. CASE events' = [log EXCEPT ![r] = @ \cup {[by |-> h, type |-> "query.created"]}]
    <3>1. DOMAIN events' = Queries /\ \A x \in Queries : log[x] \subseteq events'[x]
      BY <1>5, <2>5, <2>7
    <3>2. QED
      BY <1>3, <2>5, <3>1
  <2>8. QED
    BY <2>4, <2>6, <2>7
<1>11. UNCHANGED <<exports, row>>
  BY DEF Inserts
<1>12. PICK code : code \notin {0, 202, 404, 409} /\ code = 500
  OBVIOUS
<1>13. /\ \/ pc'[h] = "stage" /\ answer'[h] = 0 /\ raised' = raised /\ job'[r] = "pending"
          \/ pc'[h] = "answered" /\ answer'[h] = code /\ raised' = raised \cup {h}
       /\ pc' \in [Handlers -> InFlight \cup {"idle", "answered", "lost"}]
       /\ answer' \in [Handlers -> {0, 202, 404, 409, 500}]
       /\ \A g \in Handlers \ {h} : pc'[g] = pc[g] /\ answer'[g] = answer[g]
  <2>1. /\ pc \in [Handlers -> InFlight \cup {"idle", "answered", "lost"}]
        /\ answer \in [Handlers -> {0, 202, 404, 409, 500}]
    BY <1>2 DEF TypeOK
  <2>2. CASE c = All(InsertCalls) /\ GoesOn(h)
    BY <1>3, <1>9, <2>1, <2>2 DEF GoesOn, InFlight
  <2>3. CASE Raises(h)
    BY <1>12, <2>1, <2>3 DEF Raises, Answer
  <2>4. QED
    BY <2>2, <2>3
<1>14. DOMAIN todo' = Handlers /\ todo'[h] = next /\ \A g \in Handlers \ {h} : todo'[g] = todo[g]
  BY <1>2 DEF Shape
<1> HIDE DEF q, r, told
<1>15. /\ "stage" \in InFlight /\ "stage" \in Busy /\ pc[h] \in Busy
       /\ "answered" \notin InFlight /\ "answered" \notin Busy
  BY <1>0 DEF InFlight, Busy
<1>16. \A queue, key : Sent(h, queue, key)' <=> Sent(h, queue, key)
  BY DEF Sent
<1>17. /\ Kind(h)' = Kind(h) /\ StageQueue(h)' = StageQueue(h) /\ Asked(h)' = Asked(h)
       /\ Asked(h) = All(input[h].batch) /\ Asked(h) \subseteq Queries
  BY <1>3, <1>11 DEF Kind, StageQueue, Asked, All
<1>18. Holds(h)'
  BY <1>13, <1>15 DEF Holds
<1>19. Shape'
  <2>1. ASSUME NEW g \in Handlers, pc'[g] \in InFlight
        PROVE  todo'[g] # <<>> /\ \E K : todo'[g] \in Seq(K)
    <3>1. CASE g = h
      BY <1>5, <1>14, <3>1
    <3>2. CASE g # h
      <4>1. pc[g] \in InFlight /\ todo'[g] = todo[g]
        BY <1>13, <1>14, <2>1, <3>2
      <4>2. QED
        BY <1>2, <4>1 DEF Shape, TypeOK
    <3>3. QED
      BY <3>1, <3>2
  <2>2. raised' \subseteq Handlers
    BY <1>2, <1>13 DEF TypeOK
  <2>3. TypeOK'
    BY <1>2, <1>9, <1>10, <1>11, <1>13, <2>1, <2>2 DEF TypeOK
  <2>4. QED
    BY <1>2, <1>14, <2>1, <2>3 DEF Shape
<1>20. Frame(h)
  <2>1. \A x \in Queries : job[x] # "none" => job'[x] # "none"
    <3>1. ASSUME NEW x \in Queries, job[x] # "none" PROVE job'[x] # "none"
      <4>1. x # r
        BY <3>1 DEF r
      <4>2. QED
        BY <1>9, <3>1, <4>1
    <3>2. QED
      BY <3>1
  <2>2. raised \subseteq raised' /\ raised' \subseteq raised \cup {h}
    BY <1>13
  <2>3. QED
    BY <1>10, <1>11, <1>13, <1>14, <2>1, <2>2 DEF Frame
<1>21. MakesNew(h)
  <2>1. ASSUME NEW x \in Made(h)'
        PROVE  (x \in Queries /\ Sent(h, "search", x)) \/ (x = r /\ job'[r] = "pending")
    BY <1>5, <1>13, <1>14, <1>15, <1>16, <1>17, <2>1 DEF Made
  <2>2. Made(h) = {x \in Queries : Sent(h, "search", x)} \cup {q}
    BY <1>15 DEF Made, q
  <2>3. \A x \in Made(h) : x \in Queries /\ job'[x] # "none"
    BY <1>20 DEF Frame, IInv, Apart
  <2>4. r \in Queries /\ job[r] = "none"
    BY <1>5 DEF r
  <2>5. QED
    BY <2>1, <2>2, <2>3, <2>4 DEF MakesNew
<1>22. JobOwed(h)
  <2>1. ASSUME NEW x \in Queries, job'[x] # job[x] PROVE x = q \/ x = r
    BY <1>9, <2>1
  <2>2. ASSUME NEW x \in Queries, x = q PROVE Sent(h, "search", x)'
    BY <1>6, <1>16, <2>2
  <2>3. Holds(h)' /\ input'[h].kind = "create" /\ todo'[h] # <<>> /\ Head(todo'[h]) = r
    BY <1>5, <1>14, <1>18 DEF Kind
  <2>4. QED
    BY <1>9, <2>1, <2>2, <2>3 DEF JobOwed
<1>23. ExportOwed(h)
  BY <1>11 DEF ExportOwed
<1>24. Settled(h)
  BY <1>3, <1>9 DEF Settled, q
<1>25. HandlerInv(h)'
  <2>1. Received(h)'
    BY <1>3, <1>13 DEF Received
  <2>2. HasRow(h)'
    BY <1>3, <1>11, <1>17 DEF HasRow
  <2>3. Covers(h)'
    <3>1. \A p \in published' : p.by = h =>
            /\ p.queue = StageQueue(h)' /\ p.key \in Asked(h)'
            /\ Kind(h)' \in ExportKinds => row'[h] # 0
      BY <1>3, <1>4, <1>17 DEF Covers
    <3>2. Left(h)' = All(next)
      BY <1>14 DEF Left
    <3>3. Left(h)' \subseteq Asked(h)'
      BY <1>0, <1>4, <1>5, <1>17, <3>2 DEF Covers
    <3>4. ASSUME NEW k \in Asked(h), k \notin All(next)
          PROVE  Sent(h, "search", k) /\ [by |-> h, type |-> "search.requested"] \in events'[k]
      <4>1. CASE k = q
        BY <1>6, <1>10, <4>1 DEF told
      <4>2. CASE k # q
        <5>1. Sent(h, "search", k) /\ Told(h, "search.requested", k) /\ k \in Queries
          BY <1>0, <1>4, <1>5, <1>17, <3>4, <4>2 DEF Covers
        <5>2. QED
          BY <1>10, <5>1 DEF Told
      <4>3. QED
        BY <4>1, <4>2
    <3>5. pc'[h] # "event" /\ todo'[h] \in Seq(Queries)
      BY <1>5, <1>13, <1>14
    <3>6. (\A k \in Asked(h) : k \in Left(h) \/ Sent(h, StageQueue(h), k))'
      BY <1>4, <1>17, <3>2, <3>4 DEF Sent
    <3>7. (\A k \in Asked(h) : k \in Left(h) \/ Told(h, "search.requested", k))'
      BY <1>17, <3>2, <3>4 DEF Told
    <3>8. QED
      BY <1>17, <3>1, <3>3, <3>5, <3>6, <3>7 DEF Covers
  <2>4. Accepted(h)' /\ Refused(h)'
    <3>1. answer'[h] \notin {202, 404, 409}
      BY <1>12, <1>13
    <3>2. QED
      BY <3>1 DEF Accepted, Refused
  <2>5. QED
    BY <2>1, <2>2, <2>3, <2>4 DEF HandlerInv
<1>26. QED
  BY <1>19, <1>20, <1>21, <1>22, <1>23, <1>24, <1>25, StepKeepsIInv DEF Owed

\* A stage message is out.
LEMMA PublishStageKeeps ==
  ASSUME IInv, NEW h \in Handlers, PublishStage(h)
  PROVE  IInv'
<1> DEFINE more == Kind(h) = "retry_enrich" /\ Len(todo[h]) > 1
<1>0. /\ pc[h] = "stage" /\ pc[h] \in InFlight /\ pc[h] \in Busy
      /\ pc[h] # "idle" /\ pc[h] # "answered"
  BY DEF PublishStage, InFlight, Busy
<1>1. /\ UNCHANGED <<job, events, exports, records, input, row, answer, seen, raised>>
      /\ published' = published \cup {Message(h)}
  BY DEF PublishStage, dbVars, history
<1>2. Shape /\ TypeOK /\ HandlerInv(h) /\ Covers(h)
  BY DEF IInv, Shape, HandlerInv
<1>3. \/ more /\ todo' = [todo EXCEPT ![h] = Tail(@)] /\ pc' = pc
      \/ ~more /\ todo' = todo /\ pc' = [pc EXCEPT ![h] = "event"]
  BY DEF PublishStage
<1>4. /\ pc' \in [Handlers -> InFlight \cup {"idle", "answered", "lost"}]
      /\ pc'[h] = IF more THEN "stage" ELSE "event"
      /\ \A g \in Handlers \ {h} : pc'[g] = pc[g]
  BY <1>0, <1>2, <1>3 DEF TypeOK, InFlight
<1>5. PICK K : todo[h] \in Seq(K) /\ todo[h] # <<>>
  BY <1>0, <1>2 DEF Shape, TypeOK
<1>6. /\ Tail(todo[h]) \in Seq(K) /\ Len(todo[h]) \in Nat \ {0}
      /\ (Tail(todo[h]) = <<>> <=> Len(todo[h]) = 1)
      /\ Left(h) = {Head(todo[h])} \cup All(Tail(todo[h]))
  BY <1>5, HeadOrTail DEF Left
<1>7. /\ DOMAIN todo' = Handlers /\ \A g \in Handlers \ {h} : todo'[g] = todo[g]
      /\ todo'[h] = IF more THEN Tail(todo[h]) ELSE todo[h]
  BY <1>2, <1>3 DEF Shape
<1>8. todo'[h] \in Seq(K) /\ todo'[h] # <<>>
  <2>1. CASE more
    <3>1. Len(todo[h]) > 1 /\ todo'[h] = Tail(todo[h])
      BY <1>7, <2>1
    <3>2. Len(todo[h]) \in Nat
      BY <1>6
    <3>3. Len(todo[h]) # 1
      <4>1. \A n \in Nat : n > 1 => n # 1
        OBVIOUS
      <4>2. QED
        BY <3>1, <3>2, <4>1, Zenon
    <3>4. QED
      BY <1>6, <3>1, <3>3
  <2>2. CASE ~more
    BY <1>5, <1>7, <2>2
  <2>3. QED
    BY <2>1, <2>2
<1>9. more => Kind(h) = "retry_enrich"
  OBVIOUS
<1>10. (Kind(h) = "retry_enrich" /\ ~more) => Len(todo[h]) = 1
  <2>1. SUFFICES ASSUME Kind(h) = "retry_enrich", ~more PROVE Len(todo[h]) = 1
    OBVIOUS
  <2>2. ~(Len(todo[h]) > 1)
    BY <2>1
  <2>3. QED
    BY <1>6, <2>2
<1> HIDE DEF more
<1>11. Shape'
  <2>1. ASSUME NEW g \in Handlers, pc'[g] \in InFlight
        PROVE  todo'[g] # <<>> /\ \E L : todo'[g] \in Seq(L)
    <3>1. CASE g = h
      BY <1>8, <3>1
    <3>2. CASE g # h
      <4>1. pc[g] \in InFlight /\ todo'[g] = todo[g]
        BY <1>4, <1>7, <2>1, <3>2
      <4>2. QED
        BY <1>2, <4>1 DEF Shape, TypeOK
    <3>3. QED
      BY <3>1, <3>2
  <2>2. \A p \in published' : /\ p.by \in Handlers /\ p.queue \in {"search", "enrich", "export"}
                              /\ IsMessage(p)
    BY <1>0, <1>1, OwnMessage
  <2>3. TypeOK'
    BY <1>1, <1>2, <1>4, <2>1, <2>2 DEF TypeOK
  <2>4. QED
    BY <1>1, <1>2, <1>7, <2>1, <2>2, <2>3 DEF Shape
<1>12. /\ published \subseteq published'
       /\ \A p \in published' : p \in published \/ p.by = h
       /\ \A p \in published' : p.by = h =>
            /\ p.queue = StageQueue(h) /\ p.key \in Asked(h)
            /\ Kind(h) \in ExportKinds => row[h] # 0
       /\ \A q : Sent(h, "search", q)' => Sent(h, "search", q) \/ (q = Head(todo[h]))
  BY <1>0, <1>1, OwnMessage
<1>13. /\ Kind(h)' = Kind(h) /\ StageQueue(h)' = StageQueue(h) /\ Kind(h) = input[h].kind
       /\ Asked(h)' = Asked(h)
  BY <1>1 DEF Kind, StageQueue, Asked
<1>14. [by |-> h, queue |-> StageQueue(h), key |-> Head(todo[h])] \in published'
  BY <1>1 DEF Message
<1>15. Frame(h)
  BY <1>1, <1>4, <1>7, <1>12 DEF Frame
<1>16. MakesNew(h)
  <2>1. ASSUME NEW q \in Made(h)' PROVE q \in Made(h)
    <3>1. Kind(h) = "create" /\ todo'[h] = todo[h]
      BY <1>7, <1>9, <1>13, <2>1 DEF Made
    <3>2. Made(h) = {x \in Queries : Sent(h, "search", x)} \cup {Head(todo[h])}
      BY <1>0, <3>1 DEF Made
    <3>3. (q \in Queries /\ Sent(h, "search", q)') \/ q = Head(todo'[h])
      BY <1>13, <2>1, <3>1 DEF Made
    <3>4. QED
      BY <1>12, <3>1, <3>2, <3>3
  <2>2. QED
    BY <1>1, <2>1 DEF MakesNew, IInv, Apart
<1>17. JobOwed(h) /\ ExportOwed(h)
  BY <1>1 DEF JobOwed, ExportOwed
<1>18. Settled(h)
  <2>1. Holds(h)'
    BY <1>4 DEF Busy, InFlight, Holds
  <2>2. input[h].kind = "create" => todo'[h] = todo[h]
    BY <1>7, <1>9, <1>13
  <2>3. QED
    BY <1>1, <2>1, <2>2 DEF Settled
<1>19. HandlerInv(h)'
  <2>1. input[h] \in Inputs /\ answer[h] = 0 /\ h \notin raised
    BY <1>0, AtWork
  <2>2. pc'[h] \in InFlight /\ pc'[h] # "idle" /\ pc'[h] # "answered"
    BY <1>4 DEF InFlight
  <2>3. Received(h)'
    BY <1>1, <2>1, <2>2 DEF Received
  <2>4. HasRow(h)'
    <3>1. Kind(h) \in ExportKinds => todo'[h] = todo[h]
      BY <1>7, <1>9 DEF ExportKinds
    <3>2. QED
      BY <1>0, <1>1, <1>2, <1>13, <3>1 DEF HandlerInv, HasRow
  <2>5. Covers(h)'
    <3>1. pc'[h] = "event" => /\ Sent(h, StageQueue(h), Head(todo[h]))' /\ todo'[h] = todo[h]
                              /\ Kind(h) # "create" => Len(todo[h]) = 1
      <4>1. SUFFICES ASSUME pc'[h] = "event"
                     PROVE  /\ Sent(h, StageQueue(h), Head(todo[h]))' /\ todo'[h] = todo[h]
                            /\ Kind(h) # "create" => Len(todo[h]) = 1
        OBVIOUS
      <4>2. todo'[h] = todo[h] /\ ~more
        BY <1>4, <1>7, <4>1
      <4>3. Kind(h) # "create" => Len(todo[h]) = 1
        BY <1>0, <1>2, <1>10, <4>2 DEF Covers
      <4>4. QED
        BY <1>13, <1>14, <4>2, <4>3 DEF Sent
    <3>2. Left(h)' \subseteq Left(h) /\ \A k \in Left(h) : k \in Left(h)' \/ k = Head(todo[h])
      BY <1>6, <1>7 DEF Left
    <3>3. Kind(h) # "retry_enrich" => todo'[h] = todo[h] /\ Left(h)' = Left(h)
      BY <1>7, <1>9 DEF Left
    <3>4. Left(h)' \subseteq Asked(h)' /\ (Kind(h)' \notin {"create", "retry_enrich"} => Len(todo'[h]) = 1)
      BY <1>0, <1>2, <1>13, <3>2, <3>3 DEF Covers
    <3>5. (\A k \in Asked(h) : k \in Left(h) \/ Sent(h, StageQueue(h), k))'
      <4>1. ASSUME NEW k \in Asked(h)
            PROVE  k \in Left(h)' \/ [by |-> h, queue |-> StageQueue(h), key |-> k] \in published'
        <5>1. k \in Left(h) \/ Sent(h, StageQueue(h), k)
          BY <1>0, <1>2 DEF Covers
        <5>2. QED
          BY <1>12, <1>14, <3>2, <5>1 DEF Sent
      <4>2. QED
        BY <1>13, <4>1 DEF Sent
    <3>6. Kind(h) = "create" =>
            /\ todo'[h] \in Seq(Queries)
            /\ (\A q \in Asked(h) : q \in Left(h) \/ Told(h, "search.requested", q))'
      <4>1. SUFFICES ASSUME Kind(h) = "create"
                     PROVE  /\ todo'[h] \in Seq(Queries)
                            /\ (\A q \in Asked(h) : q \in Left(h) \/ Told(h, "search.requested", q))'
        OBVIOUS
      <4>2. /\ todo[h] \in Seq(Queries) /\ todo'[h] = todo[h] /\ Left(h)' = Left(h)
            /\ \A q \in Asked(h) : q \in Left(h) \/ Told(h, "search.requested", q)
        BY <1>0, <1>2, <3>3, <4>1 DEF Covers
      <4>3. QED
        BY <1>1, <1>13, <4>2 DEF Told
    <3>7. \A p \in published' : p.by = h =>
            /\ p.queue = StageQueue(h)' /\ p.key \in Asked(h)'
            /\ Kind(h)' \in ExportKinds => row'[h] # 0
      BY <1>1, <1>12, <1>13
    <3>8. QED
      BY <1>13, <3>1, <3>4, <3>5, <3>6, <3>7 DEF Covers
  <2>6. Accepted(h)' /\ Refused(h)'
    BY <1>1, <2>1 DEF Accepted, Refused
  <2>7. QED
    BY <2>3, <2>4, <2>5, <2>6 DEF HandlerInv
<1>20. QED
  BY <1>11, <1>15, <1>16, <1>17, <1>18, <1>19, StepKeepsIInv DEF Owed

------------------------------------------------------------------------------
(* A request comes in. *)

\* A handler that has not begun.
LEMMA AtRest ==
  ASSUME IInv, NEW h \in Handlers, pc[h] = "idle"
  PROVE  /\ row[h] = 0 /\ answer[h] = 0 /\ h \notin raised /\ pc[h] \notin Busy /\ pc[h] \notin InFlight
         /\ Kind(h) = "none" /\ Made(h) = {}
         /\ \A p \in published : p.by # h
         /\ \A queue, key : ~Sent(h, queue, key)
<1>1. Received(h)
  BY DEF IInv, HandlerInv
<1>2. row[h] = 0 /\ answer[h] = 0 /\ h \notin raised /\ Kind(h) = "none" /\ \A p \in published : p.by # h
  BY <1>1 DEF Received, Kind, NoInput
<1>3. pc[h] \notin Busy /\ pc[h] \notin InFlight
  BY DEF Busy, InFlight
<1>4. \A queue, key : ~Sent(h, queue, key)
  BY <1>2 DEF Sent
<1>5. Made(h) = {}
  BY <1>2 DEF Made
<1>6. QED
  BY <1>2, <1>3, <1>4, <1>5

\* A handler that answers at once, with a refusal or because its first call raised.
LEMMA RefuseKeeps ==
  ASSUME IInv, NEW h \in Handlers, NEW in \in Inputs, Receive(h, in),
         NEW code \in {404, 409, 500}, Answer(h, code),
         raised' = raised \/ raised' = raised \cup {h},
         UNCHANGED <<dbVars, records, published, todo, row, seen>>
  PROVE  IInv'
<1>1. /\ pc[h] = "idle" /\ input' = [input EXCEPT ![h] = in]
      /\ pc' = [pc EXCEPT ![h] = "answered"] /\ answer' = [answer EXCEPT ![h] = code]
      /\ UNCHANGED <<job, events, exports, records, published, todo, row, seen>>
  BY DEF Receive, Answer, dbVars
<1>2. Shape /\ TypeOK
  BY DEF IInv, Shape
<1>3. /\ pc' \in [Handlers -> InFlight \cup {"idle", "answered", "lost"}] /\ pc'[h] = "answered"
      /\ answer' \in [Handlers -> {0, 202, 404, 409, 500}] /\ answer'[h] = code
      /\ input' \in [Handlers -> Inputs \cup {NoInput}] /\ input'[h] = in
      /\ raised' \subseteq Handlers
      /\ \A g \in Handlers \ {h} :
           pc'[g] = pc[g] /\ answer'[g] = answer[g] /\ input'[g] = input[g]
  BY <1>1, <1>2 DEF TypeOK
<1>4. "answered" \notin Busy /\ "answered" \notin InFlight
  BY DEF Busy, InFlight
<1>5. row[h] = 0 /\ pc[h] \notin Busy /\ h \notin raised /\ \A p \in published : p.by # h
  BY <1>1, AtRest
<1>6. Shape'
  <2>1. \A g \in Handlers : pc'[g] \in InFlight => todo'[g] # <<>> /\ \E K : todo'[g] \in Seq(K)
    BY <1>1, <1>2, <1>3, <1>4 DEF Shape, TypeOK
  <2>2. TypeOK'
    BY <1>1, <1>2, <1>3, <2>1 DEF TypeOK
  <2>3. QED
    BY <1>1, <1>2, <2>1, <2>2 DEF Shape
<1>7. Frame(h)
  BY <1>1, <1>3 DEF Frame
<1>8. Owed(h)
  <2>1. MakesNew(h)
    BY <1>1, <1>3, <1>4, <1>5 DEF MakesNew, Made, Sent
  <2>2. JobOwed(h) /\ ExportOwed(h) /\ Settled(h)
    BY <1>1, <1>5 DEF JobOwed, ExportOwed, Settled, Holds
  <2>3. QED
    BY <2>1, <2>2 DEF Owed
<1>9. HandlerInv(h)'
  <2>1. Received(h)' /\ HasRow(h)' /\ Covers(h)'
    BY <1>1, <1>3, <1>4, <1>5 DEF Received, HasRow, Covers
  <2>2. Accepted(h)' /\ Refused(h)'
    BY <1>1, <1>3, <1>5 DEF Accepted, Refused
  <2>3. QED
    BY <2>1, <2>2 DEF HandlerInv
<1>10. QED
  BY <1>6, <1>7, <1>8, <1>9, StepKeepsIInv

\* A handler that has begun: what it inserted, and what it is going to publish.  It goes
\* on, or the call that inserted its row raised.
LEMMA BeginKeeps ==
  ASSUME IInv, NEW h \in Handlers, NEW in \in Inputs, Receive(h, in),
         UNCHANGED <<records, published>>,
         NEW keys, keys # <<>>, NEW K, keys \in Seq(K), todo' = [todo EXCEPT ![h] = keys],
         DOMAIN seen' = Handlers, \A g \in Handlers \ {h} : seen'[g] = seen[g],
         GoesOn(h) \/ Raises(h),
         job' \in [Queries -> JobStatus],
         \A q \in Queries : job'[q] # job[q] =>
           /\ in.kind = "create" /\ q = in.batch[1] /\ job[q] = "none" /\ job'[q] = "pending",
         (in.kind = "create" /\ GoesOn(h)) => job'[in.batch[1]] # job[in.batch[1]],
         DOMAIN events' = Queries, \A q \in Queries : events[q] \subseteq events'[q],
         in.kind \in ExportKinds =>
           /\ exports' = Append(exports, [q |-> in.batch[1], status |-> "pending"])
           /\ row' = [row EXCEPT ![h] = Len(exports) + 1] /\ keys = <<Len(exports) + 1>>,
         in.kind \notin ExportKinds => UNCHANGED <<exports, row>>,
         in.kind \in {"create", "retry_search"} => keys = in.batch,
         in.kind = "retry_enrich" =>
           All(keys) = IF in.ids = {} THEN 1..seen'[h] ELSE in.ids
  PROVE  IInv'
<1> DEFINE q1 == in.batch[1]
<1>1. pc[h] = "idle" /\ input' = [input EXCEPT ![h] = in]
  BY DEF Receive
<1>2. Shape /\ TypeOK
  BY DEF IInv, Shape
<1>3. /\ in.batch \in Seq(Queries) /\ in.batch # <<>> /\ q1 \in Queries /\ Head(in.batch) = q1
      /\ in.kind # "create" => Len(in.batch) = 1
  BY QueryServiceAssumption
<1>4. /\ row[h] = 0 /\ answer[h] = 0 /\ h \notin raised /\ pc[h] \notin Busy /\ Made(h) = {}
      /\ (\A p \in published : p.by # h) /\ \A queue, key : ~Sent(h, queue, key)
  BY <1>1, AtRest
<1>5. PICK code : code \notin {0, 202, 404, 409} /\ code = 500
  OBVIOUS
<1>6. /\ \/ pc'[h] = "stage" /\ answer'[h] = 0 /\ raised' = raised /\ GoesOn(h)
         \/ pc'[h] = "answered" /\ answer'[h] = code /\ raised' = raised \cup {h}
      /\ pc' \in [Handlers -> InFlight \cup {"idle", "answered", "lost"}]
      /\ answer' \in [Handlers -> {0, 202, 404, 409, 500}]
      /\ \A g \in Handlers \ {h} : pc'[g] = pc[g] /\ answer'[g] = answer[g]
  <2>1. /\ pc \in [Handlers -> InFlight \cup {"idle", "answered", "lost"}]
        /\ answer \in [Handlers -> {0, 202, 404, 409, 500}]
    BY <1>2 DEF TypeOK
  <2>2. CASE GoesOn(h)
    BY <1>4, <2>1, <2>2 DEF GoesOn, InFlight
  <2>3. CASE Raises(h)
    BY <1>5, <2>1, <2>3 DEF Raises, Answer
  <2>4. QED
    BY <2>2, <2>3
<1>7. /\ input' \in [Handlers -> Inputs \cup {NoInput}] /\ input'[h] = in
      /\ DOMAIN todo' = Handlers /\ todo'[h] = keys
      /\ raised' \subseteq Handlers
      /\ \A g \in Handlers \ {h} : todo'[g] = todo[g] /\ input'[g] = input[g]
  BY <1>1, <1>2, <1>6 DEF TypeOK, Shape
<1>8. /\ "stage" \in Busy /\ "stage" \in InFlight
      /\ "answered" \notin Busy /\ "answered" \notin InFlight
  BY DEF Busy, InFlight
<1>9. Holds(h)'
  BY <1>6, <1>8 DEF Holds
<1> DEFINE new == Len(exports) + 1
<1>10. /\ exports' \in Seq(ExportRow) /\ row' \in [Handlers -> 0..Len(exports')]
       /\ DOMAIN exports \subseteq DOMAIN exports'
       /\ \A e \in DOMAIN exports : exports'[e] = exports[e]
       /\ \A g \in Handlers \ {h} : row'[g] = row[g]
       /\ in.kind \in ExportKinds =>
            /\ row'[h] = new /\ new # 0 /\ new \notin DOMAIN exports /\ keys = <<new>>
            /\ exports'[new] = [q |-> q1, status |-> "pending"]
            /\ \A e \in DOMAIN exports' : e \in DOMAIN exports \/ e = new
       /\ in.kind \notin ExportKinds => row'[h] = 0 /\ exports' = exports
  <2>1. exports \in Seq(ExportRow) /\ row \in [Handlers -> 0..Len(exports)] /\ Len(exports) \in Nat
    BY <1>2 DEF TypeOK, ExportRow
  <2>2. CASE in.kind \in ExportKinds
    <3> DEFINE x == [q |-> q1, status |-> "pending"]
    <3>1. exports' = Append(exports, x) /\ row' = [row EXCEPT ![h] = new] /\ keys = <<new>>
      BY <2>2
    <3>2. x \in ExportRow
      BY <1>3 DEF ExportRow, ExportStatus
    <3> HIDE DEF x
    <3>3. /\ exports' \in Seq(ExportRow) /\ Len(exports') = new /\ exports'[new] = x
          /\ \A e \in DOMAIN exports : exports'[e] = exports[e]
      BY <2>1, <3>1, <3>2
    <3>4. DOMAIN exports = 1..Len(exports) /\ DOMAIN exports' = 1..new
      BY <2>1, <3>3
    <3>5. row' \in [Handlers -> 0..Len(exports')] /\ row'[h] = new
      BY <2>1, <3>1, <3>3
    <3>6. /\ new # 0 /\ new \notin DOMAIN exports /\ DOMAIN exports \subseteq DOMAIN exports'
          /\ \A e \in DOMAIN exports' : e \in DOMAIN exports \/ e = new
      BY <2>1, <3>4
    <3>7. \A g \in Handlers \ {h} : row'[g] = row[g]
      BY <2>1, <3>1
    <3>8. exports'[new] = [q |-> q1, status |-> "pending"]
      BY <3>3 DEF x
    <3> HIDE DEF new, q1
    <3>9. QED
      BY <2>2, <3>1, <3>3, <3>5, <3>6, <3>7, <3>8
  <2>3. CASE in.kind \notin ExportKinds
    BY <1>4, <2>1, <2>3
  <2>4. QED
    BY <2>2, <2>3
<1> HIDE DEF new, q1
<1>11. Kind(h)' = in.kind /\ in.kind \in Kinds
  BY <1>7, QueryServiceAssumption DEF Kind
<1>12. \A queue, key : ~[by |-> h, queue |-> queue, key |-> key] \in published'
  BY <1>4 DEF Sent
<1>13. Shape'
  <2>1. ASSUME NEW g \in Handlers, pc'[g] \in InFlight
        PROVE  todo'[g] # <<>> /\ \E L : todo'[g] \in Seq(L)
    <3>1. CASE g = h
      BY <1>7, <3>1
    <3>2. CASE g # h
      <4>1. pc[g] \in InFlight /\ todo'[g] = todo[g]
        BY <1>6, <1>7, <2>1, <3>2
      <4>2. QED
        BY <1>2, <4>1 DEF Shape, TypeOK
    <3>3. QED
      BY <3>1, <3>2
  <2>2. exports' \in Seq([q : Queries, status : ExportStatus])
    BY <1>10 DEF ExportRow
  <2>3. TypeOK'
    BY <1>2, <1>6, <1>7, <1>10, <2>1, <2>2 DEF TypeOK
  <2>4. QED
    BY <1>2, <1>7, <2>1, <2>3 DEF Shape
<1>14. Frame(h)
  <2>1. \A q \in Queries : job[q] # "none" => job'[q] # "none"
    BY <1>8
  <2>2. row'[h] = row[h] \/ row'[h] \notin DOMAIN exports
    BY <1>4, <1>10
  <2>3. \A e \in DOMAIN exports : e \in DOMAIN exports' /\ exports'[e] = exports[e]
    BY <1>10
  <2>4. \A g \in Handlers \ {h} : row'[g] = row[g]
    BY <1>10
  <2>5. raised \subseteq raised' /\ raised' \subseteq raised \cup {h}
    BY <1>6
  <2>6. QED
    BY <1>1, <1>6, <1>7, <2>1, <2>2, <2>3, <2>4, <2>5 DEF Frame
<1>15. in.kind = "create" => Head(todo'[h]) = q1 /\ todo'[h] # <<>>
  BY <1>3, <1>7
<1>16. MakesNew(h)
  <2>1. CASE in.kind = "create" /\ pc'[h] = "stage"
    <3>1. ASSUME NEW q \in Made(h)' PROVE q = q1
      <4>1. ~Sent(h, "search", q)'
        BY <1>12 DEF Sent
      <4>2. QED
        BY <1>11, <1>15, <2>1, <3>1, <4>1 DEF Made
    <3>2. GoesOn(h)
      BY <1>6, <2>1
    <3>3. job[q1] = "none" /\ job'[q1] # "none"
      BY <1>3, <2>1, <3>2 DEF q1
    <3>4. QED
      BY <1>3, <3>1, <3>3 DEF MakesNew
  <2>2. CASE pc'[h] = "answered"
    BY <1>8, <1>12, <2>2 DEF MakesNew, Made, Sent
  <2>3. CASE in.kind # "create"
    BY <1>11, <2>3 DEF MakesNew, Made
  <2>4. QED
    BY <1>6, <2>1, <2>2, <2>3
<1>17. JobOwed(h)
  <2>1. SUFFICES ASSUME NEW q \in Queries, job'[q] # job[q]
                 PROVE  /\ job'[q] = "pending" /\ Holds(h)'
                        /\ input'[h].kind = "create" /\ todo'[h] # <<>> /\ Head(todo'[h]) = q
    BY DEF JobOwed
  <2>2. QED
    BY <1>7, <1>9, <1>15, <2>1 DEF q1
<1>18. ExportOwed(h)
  <2>1. SUFFICES ASSUME NEW e \in DOMAIN exports',
                        e \notin DOMAIN exports \/ exports'[e] # exports[e]
                 PROVE  /\ exports'[e].status # "requested"
                        /\ exports'[e].status = "pending" => Holds(h)' /\ row'[h] = e
    BY DEF ExportOwed
  <2>2. in.kind \in ExportKinds /\ e = new
    BY <1>10, <2>1
  <2>3. exports'[new].status = "pending" /\ row'[h] = new
    BY <1>10, <2>2
  <2>4. QED
    BY <1>9, <2>2, <2>3
<1>19. Settled(h)
  BY <1>4 DEF Settled, Holds
<1>20. HandlerInv(h)'
  <2>1. Received(h)'
    BY <1>4, <1>6, <1>7 DEF Received
  <2>2. HasRow(h)'
    <3>1. CASE in.kind \in ExportKinds
      <4>1. /\ row'[h] = new /\ new # 0 /\ todo'[h] = <<row'[h]>>
            /\ exports'[row'[h]].q = q1 /\ exports'[row'[h]].status = "pending"
        BY <1>7, <1>10, <3>1
      <4>2. QED
        BY <1>7, <1>11, <3>1, <4>1 DEF HasRow, q1
    <3>2. CASE in.kind \notin ExportKinds
      BY <1>10, <1>11, <3>2 DEF HasRow
    <3>3. QED
      BY <3>1, <3>2
  <2>3. Covers(h)'
    <3>1. Left(h)' = All(keys)
      BY <1>7 DEF Left
    <3>2. \A p \in published' : p.by # h
      BY <1>4
    <3>3. pc'[h] # "event"
      BY <1>6
    <3>4. Asked(h)' = All(keys)
      <4>1. CASE in.kind \in ExportKinds
        <5>1. Asked(h)' = {new}
          BY <1>7, <1>10, <4>1 DEF Asked, ExportKinds
        <5>2. All(keys) = {new}
          BY <1>10, <4>1 DEF All
        <5>3. QED
          BY <5>1, <5>2
      <4>2. CASE in.kind \in {"create", "retry_search"}
        BY <1>7, <4>2 DEF Asked
      <4>3. CASE in.kind = "retry_enrich"
        BY <1>7, <4>3 DEF Asked
      <4>4. QED
        BY <1>11, <4>1, <4>2, <4>3 DEF Kinds, ExportKinds
    <3>5. in.kind = "create" => todo'[h] \in Seq(Queries)
      BY <1>3, <1>7
    <3>6. in.kind \notin {"create", "retry_enrich"} => Len(todo'[h]) = 1
      <4>1. CASE in.kind \in ExportKinds
        BY <1>7, <1>10, <4>1
      <4>2. CASE in.kind = "retry_search"
        BY <1>3, <1>7, <4>2
      <4>3. QED
        BY <1>11, <4>1, <4>2 DEF Kinds, ExportKinds
    <3>7. QED
      BY <1>11, <3>1, <3>2, <3>3, <3>4, <3>5, <3>6 DEF Covers
  <2>4. Accepted(h)' /\ Refused(h)'
    <3>1. answer'[h] \notin {202, 404, 409}
      BY <1>5, <1>6
    <3>2. QED
      BY <3>1 DEF Accepted, Refused
  <2>5. QED
    BY <2>1, <2>2, <2>3, <2>4 DEF HandlerInv
<1>21. QED
  BY <1>13, <1>14, <1>16, <1>17, <1>18, <1>19, <1>20, StepKeepsIInv DEF Owed

\* create_queries inserts the first query of a batch that has passed its validation.
LEMMA CreateBegins ==
  ASSUME IInv, NEW h \in Handlers, NEW in \in Inputs, Create(h, in), ~Refuse(h, 409)
  PROVE  IInv'
<1>1. /\ in.kind = "create" /\ in.kind \notin ExportKinds /\ in.kind # "retry_enrich"
      /\ Receive(h, in) /\ UNCHANGED <<records, published, seen>>
      /\ \A i \in DOMAIN in.batch : job[in.batch[i]] = "none"
      /\ todo' = [todo EXCEPT ![h] = in.batch]
  BY DEF Create, ExportKinds
<1>2. PICK c \in Prefixes(InsertCalls) :
        /\ Inserts(h, in.batch[1], c, job, events)
        /\ (c = All(InsertCalls) /\ GoesOn(h)) \/ Raises(h)
  BY DEF Create
<1>3. /\ in.batch \in Seq(Queries) /\ in.batch # <<>> /\ in.batch[1] \in Queries
      /\ 1 \in DOMAIN in.batch
  <2>1. in.batch \in Seq(Queries) /\ in.batch # <<>>
    BY QueryServiceAssumption
  <2>2. QED
    BY <2>1
<1>4. "job" \in All(InsertCalls)
  BY Calls DEF InsertCalls
<1>5. /\ Shape /\ job \in [Queries -> JobStatus] /\ DOMAIN events = Queries
      /\ pc \in [Handlers -> InFlight \cup {"idle", "answered", "lost"}]
  BY DEF IInv, Shape, TypeOK
<1>6. GoesOn(h) => "job" \in c
  <2>1. ~(GoesOn(h) /\ Raises(h))
    BY <1>5 DEF GoesOn, Raises, Answer
  <2>2. QED
    BY <1>2, <1>4, <2>1
<1>7. /\ job' = IF "job" \in c THEN [job EXCEPT ![in.batch[1]] = "pending"] ELSE job
      /\ UNCHANGED <<exports, row>>
  BY <1>2 DEF Inserts
<1>8. /\ job' \in [Queries -> JobStatus]
      /\ \A q \in Queries : job'[q] # job[q] =>
           q = in.batch[1] /\ job[q] = "none" /\ job'[q] = "pending"
      /\ GoesOn(h) => job'[in.batch[1]] # job[in.batch[1]]
  <2>1. "pending" \in JobStatus /\ job[in.batch[1]] = "none"
    BY <1>1, <1>3 DEF JobStatus
  <2>2. QED
    BY <1>3, <1>5, <1>6, <1>7, <2>1
<1>9. DOMAIN events' = Queries /\ \A q \in Queries : events[q] \subseteq events'[q]
  BY <1>2, <1>5 DEF Inserts
<1>10. DOMAIN seen' = Handlers /\ \A g \in Handlers \ {h} : seen'[g] = seen[g]
  BY <1>1, <1>5 DEF Shape
<1>11. GoesOn(h) \/ Raises(h)
  BY <1>2
<1>12. /\ in.kind = "create" /\ in.kind \notin ExportKinds /\ in.kind # "retry_enrich"
       /\ Receive(h, in) /\ UNCHANGED <<records, published>> /\ UNCHANGED <<exports, row>>
       /\ todo' = [todo EXCEPT ![h] = in.batch] /\ in.batch # <<>> /\ in.batch \in Seq(Queries)
  BY <1>1, <1>3, <1>7
<1>13. QED
  BY <1>8, <1>9, <1>10, <1>11, <1>12, BeginKeeps

\* A row of face_exports is inserted, and the call returns or raises.
LEMMA NewExportKeeps ==
  ASSUME IInv, NEW h \in Handlers, NEW in \in Inputs, in.kind \in ExportKinds,
         Receive(h, in), NewExport(h, in.batch[1]), UNCHANGED records
  PROVE  IInv'
<1> DEFINE keys == <<Len(exports) + 1>>
<1>1. /\ UNCHANGED <<job, events, published, seen>> /\ todo' = [todo EXCEPT ![h] = keys]
      /\ exports' = Append(exports, [q |-> in.batch[1], status |-> "pending"])
      /\ row' = [row EXCEPT ![h] = Len(exports) + 1]
      /\ GoesOn(h) \/ Raises(h)
  BY DEF NewExport
<1>2. keys # <<>> /\ keys \in Seq({Len(exports) + 1}) /\ keys = <<Len(exports) + 1>>
  OBVIOUS
<1>3. in.kind \notin {"create", "retry_search", "retry_enrich"}
  BY DEF ExportKinds
<1>4. /\ job' \in [Queries -> JobStatus] /\ DOMAIN events' = Queries
      /\ DOMAIN seen' = Handlers /\ \A g \in Handlers \ {h} : seen'[g] = seen[g]
  BY <1>1 DEF IInv, Shape, TypeOK
<1> HIDE DEF keys
<1>5. QED
  BY <1>1, <1>2, <1>3, <1>4, BeginKeeps

\* A retry goes on to publish without having written anything.
LEMMA AwaitKeeps ==
  ASSUME IInv, NEW h \in Handlers, NEW in \in Inputs, Receive(h, in),
         in.kind \in {"retry_search", "retry_enrich"},
         NEW keys, keys # <<>>, NEW K, keys \in Seq(K), Await(h, keys),
         DOMAIN seen' = Handlers, \A g \in Handlers \ {h} : seen'[g] = seen[g],
         in.kind = "retry_search" => keys = in.batch,
         in.kind = "retry_enrich" => All(keys) = IF in.ids = {} THEN 1..seen'[h] ELSE in.ids,
         UNCHANGED <<dbVars, records, row>>
  PROVE  IInv'
<1>1. /\ UNCHANGED <<job, events, exports, published, records, row>>
      /\ GoesOn(h) /\ todo' = [todo EXCEPT ![h] = keys]
  BY DEF dbVars, Await
<1>2. job' \in [Queries -> JobStatus] /\ DOMAIN events' = Queries
  BY <1>1 DEF IInv, Shape, TypeOK
<1>3. in.kind \notin ExportKinds /\ in.kind # "create"
  BY DEF ExportKinds
<1>4. QED
  BY <1>1, <1>2, <1>3, BeginKeeps

------------------------------------------------------------------------------
(* The surroundings, and the theorems. *)

\* The API dies under its handlers, or a search finds a record.
LEMMA SurroundingsKeep ==
  ASSUME IInv, UNCHANGED <<job, events, exports, published, input, todo, row, answer, seen, raised>>,
         DOMAIN records' = Queries, \A q \in Queries : records'[q] \in 0..MaxRecords[q],
         pc' \in [Handlers -> InFlight \cup {"idle", "answered", "lost"}],
         \A h \in Handlers : pc'[h] = pc[h] \/ (pc[h] \in InFlight /\ pc'[h] = "lost")
  PROVE  IInv'
<1>2. Shape /\ TypeOK
  BY DEF IInv, Shape
<1>3. ASSUME NEW h \in Handlers
      PROVE  /\ pc'[h] \in InFlight => pc'[h] = pc[h]
             /\ pc'[h] \in Busy <=> pc[h] \in Busy
             /\ pc'[h] = "idle" <=> pc[h] = "idle"
             /\ pc'[h] = "answered" <=> pc[h] = "answered"
             /\ Holds(h)' <=> Holds(h)
  BY DEF Busy, InFlight, Holds
<1>4. Shape'
  BY <1>2, <1>3 DEF Shape, TypeOK
<1>5. ASSUME NEW h \in Handlers PROVE HandlerInv(h)'
  <2>1. HandlerInv(h)
    BY DEF IInv
  <2>2. Received(h)' /\ HasRow(h)'
    BY <1>3, <2>1 DEF HandlerInv, Received, HasRow, Kind
  <2>3. Covers(h)'
    <3>1. /\ Kind(h)' = Kind(h) /\ StageQueue(h)' = StageQueue(h)
          /\ Left(h)' = Left(h) /\ Asked(h)' = Asked(h)
      BY DEF Kind, StageQueue, Left, Asked
    <3>2. pc'[h] = "event" => pc[h] = "event"
      BY <1>3 DEF InFlight
    <3>3. QED
      BY <1>3, <2>1, <3>1, <3>2 DEF HandlerInv, Covers, Sent, Told
  <2>4. Accepted(h)' /\ Refused(h)'
    <3>1. /\ SentBy(h)' = SentBy(h) /\ StandsFor(h)' = StandsFor(h)
          /\ \A q, type : Told(h, type, q)' <=> Told(h, type, q)
      BY DEF SentBy, StandsFor, Told
    <3>2. QED
      BY <2>1, <3>1 DEF HandlerInv, Accepted, Refused, Told
  <2>5. QED
    BY <2>2, <2>3, <2>4 DEF HandlerInv
<1>6. Apart'
  <2>1. \A h \in Handlers : Made(h)' = Made(h)
    BY <1>3 DEF Made, Kind, Sent
  <2>2. QED
    BY <2>1 DEF IInv, Apart
<1>7. RequestedHasMessage'
  BY DEF IInv, RequestedHasMessage, Sent
<1>8. PendingHasHandler'
  <2>1. PendingHasHandler /\ InFlight \cup {"lost"} = Busy
    BY DEF IInv, Busy
  <2>2. QED
    BY <1>3, <2>1 DEF PendingHasHandler, Holds
<1>9. QED
  BY <1>4, <1>5, <1>6, <1>7, <1>8 DEF IInv

LEMMA InitIInv == Init => IInv
<1> SUFFICES ASSUME Init PROVE IInv
  OBVIOUS
<1>0. /\ job = [q \in Queries |-> "none"] /\ events = [q \in Queries |-> {}]
      /\ records = [q \in Queries |-> 0] /\ pc = [h \in Handlers |-> "idle"]
      /\ input = [h \in Handlers |-> NoInput] /\ todo = [h \in Handlers |-> <<>>]
      /\ row = [h \in Handlers |-> 0] /\ answer = [h \in Handlers |-> 0]
      /\ seen = [h \in Handlers |-> 0] /\ raised = {} /\ published = {} /\ exports = <<>>
  BY Zenon DEF Init
<1>2. /\ \A h \in Handlers : /\ pc[h] = "idle" /\ input[h] = NoInput /\ todo[h] = <<>>
                             /\ row[h] = 0 /\ answer[h] = 0 /\ h \notin raised
      /\ \A q \in Queries : job[q] = "none" /\ records[q] = 0
      /\ published = {} /\ exports = <<>>
  <2>1. \A h \in Handlers : pc[h] = "idle" /\ answer[h] = 0 /\ row[h] = 0
    BY <1>0
  <2>2. \A h \in Handlers : input[h] = NoInput
    BY <1>0, Zenon
  <2>3. \A h \in Handlers : todo[h] = <<>>
    BY <1>0, Zenon
  <2>4. \A q \in Queries : job[q] = "none" /\ records[q] = 0
    BY <1>0
  <2>5. QED
    BY <1>0, <2>1, <2>2, <2>3, <2>4
<1>3. "idle" \notin InFlight /\ "idle" \notin Busy
  BY DEF InFlight, Busy
<1>4. Shape
  <2>1. \A q \in Queries : records[q] \in 0..MaxRecords[q]
    BY <1>2, QueryServiceAssumption
  <2>2. exports \in Seq([q : Queries, status : ExportStatus]) /\ Len(exports) = 0
    BY <1>2
  <2>3. row \in [Handlers -> 0..Len(exports)]
    <3>1. row \in [Handlers -> 0..0]
      BY <1>0
    <3>2. QED
      BY <2>2, <3>1
  <2>4. job \in [Queries -> JobStatus] /\ DOMAIN events = Queries
        /\ pc \in [Handlers -> InFlight \cup {"idle", "answered", "lost"}]
        /\ answer \in [Handlers -> {0, 202, 404, 409, 500}]
    BY <1>0 DEF JobStatus
  <2>5. /\ input \in [Handlers -> Inputs \cup {NoInput}] /\ raised \subseteq Handlers
        /\ DOMAIN todo = Handlers /\ DOMAIN records = Queries /\ DOMAIN seen = Handlers
    BY <1>0, Zenon
  <2>6. TypeOK
    BY <1>2, <1>3, <2>1, <2>2, <2>3, <2>4, <2>5 DEF TypeOK
  <2>7. QED
    BY <1>2, <1>3, <2>5, <2>6 DEF Shape
<1>5. ASSUME NEW h \in Handlers PROVE HandlerInv(h) /\ Made(h) = {}
  <2>1. Received(h) /\ HasRow(h) /\ Covers(h) /\ Accepted(h) /\ Refused(h)
    BY <1>2, <1>3 DEF Received, HasRow, Covers, Accepted, Refused
  <2>2. Made(h) = {}
    BY <1>2 DEF Made, Kind, NoInput
  <2>3. QED
    BY <2>1, <2>2 DEF HandlerInv
<1>6. Apart
  BY <1>2, <1>5 DEF Apart
<1>7. RequestedHasMessage /\ PendingHasHandler
  <2>1. DOMAIN exports = {}
    BY <1>2
  <2>2. QED
    BY <1>2, <2>1 DEF RequestedHasMessage, PendingHasHandler
<1>8. QED
  BY <1>4, <1>5, <1>6, <1>7 DEF IInv

\* Every step keeps the invariant.
LEMMA NextIInv == IInv /\ [Next]_vars => IInv'
<1> SUFFICES ASSUME IInv, [Next]_vars PROVE IInv'
  OBVIOUS
<1>0. Shape /\ TypeOK
  BY DEF IInv, Shape
<1>1. ASSUME NEW h \in Handlers, NEW in \in Inputs, Create(h, in) PROVE IInv'
  <2>1. CASE Refuse(h, 409)
    <3>1. Receive(h, in) /\ UNCHANGED records /\ Answer(h, 409) /\ raised' = raised
          /\ UNCHANGED <<dbVars, published, todo, row, seen>>
      BY <1>1, <2>1 DEF Create, Refuse, Ends
    <3>2. QED
      BY <3>1, RefuseKeeps
  <2>2. QED
    BY <1>1, <2>1, CreateBegins
<1>2. ASSUME NEW h \in Handlers, NEW in \in Inputs, Receive(h, in), UNCHANGED records,
             Refuse(h, 404) \/ Refuse(h, 409)
      PROVE  IInv'
  <2>1. /\ \E code \in {404, 409} : Answer(h, code)
        /\ raised' = raised /\ UNCHANGED <<dbVars, published, todo, row, seen>>
    BY <1>2 DEF Refuse, Ends
  <2>2. QED
    BY <1>2, <2>1, RefuseKeeps
<1>3. ASSUME NEW h \in Handlers, NEW in \in Inputs, Export(h, in) PROVE IInv'
  <2>1. /\ Receive(h, in) /\ UNCHANGED records /\ in.kind \in ExportKinds
        /\ Refuse(h, 404) \/ NewExport(h, in.batch[1])
    BY <1>3 DEF Export, ExportKinds
  <2>2. QED
    BY <1>2, <2>1, NewExportKeeps
<1>4. ASSUME NEW h \in Handlers, NEW in \in Inputs, RetryExport(h, in) PROVE IInv'
  <2>1. /\ Receive(h, in) /\ UNCHANGED records /\ in.kind \in ExportKinds
        /\ Refuse(h, 404) \/ Refuse(h, 409) \/ NewExport(h, in.batch[1])
    BY <1>4 DEF RetryExport, ExportKinds
  <2>2. QED
    BY <1>2, <2>1, NewExportKeeps
<1>5. ASSUME NEW h \in Handlers, NEW in \in Inputs, RetrySearch(h, in) PROVE IInv'
  <2>1. in.kind = "retry_search" /\ Receive(h, in) /\ UNCHANGED records
    BY <1>5 DEF RetrySearch
  <2>2. CASE Refuse(h, 404)
    BY <1>2, <2>1, <2>2
  <2>3. CASE Await(h, in.batch) /\ UNCHANGED <<dbVars, row, seen>>
    <3>1. in.batch \in Seq(Queries) /\ in.batch # <<>>
          /\ in.kind \in {"retry_search", "retry_enrich"} /\ in.kind # "retry_enrich"
      BY <2>1, QueryServiceAssumption
    <3>2. DOMAIN seen' = Handlers /\ \A g \in Handlers \ {h} : seen'[g] = seen[g]
      BY <1>0, <2>3 DEF Shape
    <3>3. QED
      BY <2>1, <2>3, <3>1, <3>2, AwaitKeeps
  <2>4. QED
    BY <1>5, <2>2, <2>3 DEF RetrySearch
<1>6. ASSUME NEW h \in Handlers, NEW in \in Inputs, RetryEnrich(h, in) PROVE IInv'
  <2>1. in.kind = "retry_enrich" /\ Receive(h, in) /\ UNCHANGED records
    BY <1>6 DEF RetryEnrich
  <2>2. CASE Refuse(h, 404) \/ Refuse(h, 409)
    BY <1>2, <2>1, <2>2
  <2>3. CASE /\ Enrichable(in) /\ Await(h, Ascending(Chosen(in)))
             /\ seen' = [seen EXCEPT ![h] = records[in.batch[1]]]
             /\ UNCHANGED <<dbVars, row>>
    <3> DEFINE keys == Ascending(Chosen(in))
    <3>1. /\ keys # <<>> /\ \E K : keys \in Seq(K)
          /\ All(keys) = IF in.ids = {} THEN 1..records[in.batch[1]] ELSE in.ids
      BY <2>1, <2>3, EnrichKeys
    <3>2. in.kind \in {"retry_search", "retry_enrich"} /\ in.kind # "retry_search"
      BY <2>1
    <3>3. /\ DOMAIN seen' = Handlers /\ seen'[h] = records[in.batch[1]]
          /\ \A g \in Handlers \ {h} : seen'[g] = seen[g]
      BY <1>0, <2>3 DEF Shape
    <3>4. Await(h, keys)
      BY <2>3
    <3> HIDE DEF keys
    <3>5. PICK K : keys \in Seq(K)
      BY <3>1
    <3>6. All(keys) = IF in.ids = {} THEN 1..seen'[h] ELSE in.ids
      BY <3>1, <3>3
    <3>7. QED
      BY <2>1, <2>3, <3>1, <3>2, <3>3, <3>4, <3>5, <3>6, AwaitKeeps
  <2>4. QED
    BY <1>6, <2>2, <2>3 DEF RetryEnrich
<1>7. ASSUME NEW h \in Handlers, NEW in \in Inputs, BeginRaises(h, in) PROVE IInv'
  <2>1. /\ Receive(h, in) /\ Answer(h, 500) /\ raised' = raised \cup {h}
        /\ UNCHANGED <<dbVars, records, published, todo, row, seen>>
    BY <1>7 DEF BeginRaises, Raises
  <2>2. QED
    BY <2>1, RefuseKeeps
<1>8. ASSUME NEW h \in Handlers, PublishStageRaises(h) PROVE IInv'
  <2>1. pc[h] \in InFlight
    BY <1>8 DEF PublishStageRaises, InFlight
  <2>2. QED
    BY <1>8, <2>1, FailsKeeps DEF PublishStageRaises
<1>9. ASSUME NEW h \in Handlers, PublishEventRaises(h) PROVE IInv'
  <2>1. pc[h] \in InFlight /\ published' \in {published, published \cup {Message(h)}}
    BY <1>9 DEF PublishEventRaises, InFlight
  <2>2. QED
    BY <1>9, <2>1, FailsKeeps DEF PublishEventRaises
<1>10. ASSUME NEW h \in Handlers, PublishEvent(h) PROVE IInv'
  <2>1. pc[h] = "event" /\ UNCHANGED <<published, records, input, seen>>
    BY <1>10 DEF PublishEvent
  <2>2. CASE CreateGoesOn(h)
    <3> DEFINE all == All(Success(h).calls)  next == Tail(todo[h])
    <3>1. Kind(h) = "create" /\ next # <<>>
      BY <2>2 DEF CreateGoesOn
    <3>2. CASE Write(h, all, {}) /\ Ends(h, 409) /\ UNCHANGED todo
      BY <2>1, <3>1, <3>2, CreateTakenKeeps
    <3>3. CASE /\ job[next[1]] = "none" /\ todo' = [todo EXCEPT ![h] = next]
               /\ \E c \in Prefixes(InsertCalls) :
                    /\ Inserts(h, next[1], c, JobAfter(h, all, {}), EventsAfter(h, all, {}))
                    /\ (c = All(InsertCalls) /\ GoesOn(h)) \/ Raises(h)
      BY <2>1, <3>1, <3>3, CreateNextKeeps
    <3>4. QED
      BY <2>2, <3>2, <3>3 DEF CreateGoesOn
  <2>3. QED
    BY <1>10, <2>1, <2>2, SucceedsKeeps, SuccessRaisesKeeps DEF PublishEvent
<1>11. pc \in [Handlers -> InFlight \cup {"idle", "answered", "lost"}]
       /\ DOMAIN records = Queries /\ \A x \in Queries : records[x] \in 0..MaxRecords[x]
  BY <1>0 DEF Shape, TypeOK
<1>12. CASE Crash
  <2>1. /\ UNCHANGED <<job, events, exports, records, published, input, todo, row, answer, seen, raised>>
        /\ pc' = [h \in Handlers |-> IF pc[h] \in InFlight THEN "lost" ELSE pc[h]]
    BY <1>12 DEF Crash, dbVars, history
  <2>2. pc' \in [Handlers -> InFlight \cup {"idle", "answered", "lost"}]
    BY <1>11, <2>1
  <2>3. \A h \in Handlers : pc'[h] = pc[h] \/ (pc[h] \in InFlight /\ pc'[h] = "lost")
    BY <2>1
  <2>4. QED
    BY <1>11, <2>1, <2>2, <2>3, SurroundingsKeep
<1>13. ASSUME NEW q \in Queries, SearchFinds(q) PROVE IInv'
  <2>1. /\ records[q] \in 0..MaxRecords[q] /\ MaxRecords[q] \in Nat
        /\ records[q] < MaxRecords[q] /\ records' = [records EXCEPT ![q] = @ + 1]
    BY <1>11, <1>13, QueryServiceAssumption DEF SearchFinds
  <2>2. records'[q] \in 0..MaxRecords[q]
    BY <1>11, <2>1
  <2>3. DOMAIN records' = Queries /\ \A x \in Queries : records'[x] \in 0..MaxRecords[x]
    BY <1>11, <2>1, <2>2
  <2>4. UNCHANGED <<job, events, exports, published, pc, input, todo, row, answer, seen, raised>>
    BY <1>13 DEF SearchFinds, dbVars, history
  <2>5. QED
    BY <1>11, <2>3, <2>4, SurroundingsKeep
<1>14. CASE UNCHANGED vars
  <2>1. UNCHANGED <<job, events, exports, records, published, pc, input, todo, row, answer, seen, raised>>
    BY <1>14 DEF vars, history
  <2>2. QED
    BY <1>11, <2>1, SurroundingsKeep
<1>15. QED
  BY <1>1, <1>3, <1>4, <1>5, <1>6, <1>7, <1>8, <1>9, <1>10, <1>12, <1>13, <1>14, PublishStageKeeps
     DEF Next

\* The strengthened invariant holds of the specification.
THEOREM Invariant == Spec => []IInv
<1>1. QED
  BY InitIInv, NextIInv, PTL DEF Spec

\* The rows, the messages and the handlers keep their types, and a handler at work has
\* something to publish.
THEOREM TypeCorrect == Spec => []TypeOK
<1>1. IInv => TypeOK
  BY DEF IInv, Shape
<1>2. QED
  BY <1>1, Invariant, PTL

\* A request answered 202 has put exactly the messages it stands for into the stage
\* queues (an enrich retry without ids: one for each record the query had when it came
\* in) and its event into the log of each of its queries: create_queries,
\* request_export and the retries of services.py, with any publication or repository
\* call raising and any handlers and searches interleaved.
THEOREM AcceptedQueued == Spec => []AcceptedIsQueued
<1>1. IInv => AcceptedIsQueued
  BY DEF IInv, HandlerInv, Accepted, SentBy, Told, AcceptedIsQueued
<1>2. QED
  BY <1>1, Invariant, PTL

\* A status that announces a stage is written after a message of that stage is out,
\* whichever of the concurrent handlers of a query wrote last.
THEOREM RequestedPublished == Spec => []RequestedHasMessage
<1>1. IInv => RequestedHasMessage
  BY DEF IInv
<1>2. QED
  BY <1>1, Invariant, PTL

\* A retry or an export that is refused has published nothing: all payloads are built
\* before the first publication.
THEOREM RefusedSilent == Spec => []RefusedPublishesNothing
<1>1. IInv => RefusedPublishesNothing
  BY DEF IInv, HandlerInv, Refused, RefusedPublishesNothing
<1>2. QED
  BY <1>1, Invariant, PTL

\* Batches that overlap, in any interleaving of their loops, publish the search of a
\* query from one of them only: the insert of create_job is what decides.
THEOREM CreatorUnique == Spec => []OneCreator
<1>1. ASSUME IInv PROVE OneCreator
  <2>1. SUFFICES ASSUME NEW q \in Queries, NEW g \in Handlers, NEW h \in Handlers,
                        Sent(g, "search", q), input[g].kind = "create",
                        Sent(h, "search", q), input[h].kind = "create", g # h
                 PROVE  FALSE
    BY DEF OneCreator
  <2>2. q \in Made(g) /\ q \in Made(h)
    BY <2>1 DEF Made, Kind
  <2>3. QED
    BY <1>1, <2>1, <2>2 DEF IInv, Apart
<1>2. QED
  BY <1>1, Invariant, PTL

\* A query or an export is pending only for a handler that is at work on it, that died
\* with the API, or one of whose repository calls raised: whatever publication raises,
\* the except branch settles the row.
THEOREM PendingHandled == Spec => []PendingHasHandler
<1>1. IInv => PendingHasHandler
  BY DEF IInv
<1>2. QED
  BY <1>1, Invariant, PTL

\* A step of a handler at work changes no export but the handler's own, which is pending.
LEMMA SettledStep ==
  ASSUME IInv, [Next]_vars
  PROVE  \A e \in DOMAIN exports : exports[e].status # "pending" => exports'[e] = exports[e]
<1> SUFFICES ASSUME NEW e \in DOMAIN exports, exports[e].status # "pending"
             PROVE  exports'[e] = exports[e]
  OBVIOUS
<1>0. exports \in Seq(ExportRow)
  BY DEF IInv, Shape, TypeOK, ExportRow
<1>1. ASSUME NEW h \in Handlers, NEW q \in Queries, NewExport(h, q) PROVE exports'[e] = exports[e]
  <2> DEFINE x == [q |-> q, status |-> "pending"]
  <2>1. exports' = Append(exports, x)
    BY <1>1 DEF NewExport
  <2> HIDE DEF x
  <2>2. QED
    BY <1>0, <2>1
<1>2. ASSUME NEW h \in Handlers, pc[h] \in InFlight, NEW s, NEW f, Write(h, s, f)
      PROVE  exports'[e] = exports[e]
  <2>1. e # row[h]
    <3>1. CASE Kind(h) \in ExportKinds
      BY <1>2, <3>1 DEF IInv, HandlerInv, HasRow
    <3>2. CASE Kind(h) \notin ExportKinds
      <4>1. row[h] = 0
        BY <1>2, <3>2, AtWork
      <4>2. QED
        BY <1>0, <4>1
    <3>3. QED
      BY <3>1, <3>2
  <2>2. QED
    BY <1>2, <2>1 DEF Write, ExportsAfter
<1>3. ASSUME NEW h \in Handlers, NEW in \in Inputs,
             \/ Create(h, in) \/ Export(h, in) \/ BeginRaises(h, in)
             \/ RetrySearch(h, in) \/ RetryEnrich(h, in) \/ RetryExport(h, in)
      PROVE  exports'[e] = exports[e]
  <2>1. in.batch[1] \in Queries
    BY QueryServiceAssumption
  <2>2. UNCHANGED exports \/ NewExport(h, in.batch[1])
    BY <1>3 DEF Create, Inserts, Export, BeginRaises, RetrySearch, RetryEnrich, RetryExport,
                Refuse, dbVars
  <2>3. QED
    BY <1>1, <2>1, <2>2
<1>4. ASSUME NEW h \in Handlers, PublishStageRaises(h) \/ PublishEventRaises(h) \/ PublishEvent(h)
      PROVE  exports'[e] = exports[e]
  <2>1. pc[h] \in InFlight
    BY <1>4 DEF PublishStageRaises, PublishEventRaises, PublishEvent, InFlight
  <2>2. Fails(h) \/ Succeeds(h) \/ CreateGoesOn(h) \/ SuccessRaises(h)
    BY <1>4 DEF PublishStageRaises, PublishEventRaises, PublishEvent
  <2>3. UNCHANGED exports \/ \E s, f : Write(h, s, f)
    BY <2>2 DEF Fails, Succeeds, CreateGoesOn, SuccessRaises, Inserts
  <2>4. QED
    BY <1>2, <2>1, <2>3
<1>5. ASSUME \/ \E h \in Handlers : PublishStage(h)
             \/ Crash \/ (\E q \in Queries : SearchFinds(q)) \/ UNCHANGED vars
      PROVE  exports'[e] = exports[e]
  BY <1>5 DEF PublishStage, Crash, SearchFinds, vars, dbVars
<1>6. QED
  BY <1>3, <1>4, <1>5 DEF Next

\* An export that was requested or failed keeps its outcome: a retry of the export
\* stage inserts a row of its own instead of reusing one.
THEOREM SettledStays == Spec => SettledExportStays
<1>1. IInv /\ [Next]_vars =>
        [\A e \in DOMAIN exports :
           exports[e].status # "pending" => exports'[e] = exports[e]]_vars
  BY SettledStep
<1>2. QED
  BY <1>1, Invariant, PTL DEF Spec, SettledExportStays
==============================================================================
