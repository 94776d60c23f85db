--------------------------- MODULE RecordStoreProofs ---------------------------
(* Theorems about RecordStore, for every value of its constants. *)
EXTENDS RecordStore, SequenceTheorems, TLAPS

\* What a transaction knows between its SELECT and its commit, and after it.
TxInv ==
  /\ \A p \in Processes :
       /\ at[p] = "read" => /\ item[p] \in Row /\ ~Mixed(item[p])
                            /\ hit[p] # 0 => old[p] \in Row
       /\ at[p] = "written" => hit[p] # 0
  /\ \A e \in Enrichers :
       /\ at[e] = "read" => /\ item[e].status = "enriched"
                            /\ task[e] # 0 => hit[e] = task[e]
       /\ held[e] => task[e] # 0

TypeInv == TypeOK /\ TxInv

LEMMA RowFields ==
  ASSUME NEW row \in Row
  PROVE  /\ row.url \in Urls /\ row.status \in {"discovered", "enriched"}
         /\ row.payload \in Places \cup Metadata
  BY DEF Row

\* An UPDATE makes a row, and exactly the item if the row is as it was read.
LEMMA UpdatedRow ==
  ASSUME NEW now \in Row, NEW was \in Row, NEW new \in Row
  PROVE  /\ Updated(now, was, new) \in Row
         /\ now = was => Updated(now, was, new) = new
         /\ new.url = was.url => Updated(now, was, new).url = now.url
         /\ new.url # was.url => Updated(now, was, new).url = new.url
         /\ new.status # was.status => Updated(now, was, new).status = new.status
         /\ new.status = was.status => Updated(now, was, new).status = now.status
  BY DEF Updated, Row

LEMMA ItemRow ==
  ASSUME NEW u \in Urls, NEW place \in Places, NEW m \in Metadata, RecordStoreAssumption
  PROVE  LET d == [url |-> u, status |-> "discovered", payload |-> place]
             e == [url |-> u, status |-> "enriched", payload |-> m]
         IN d \in Row /\ ~Mixed(d) /\ e \in Row /\ ~Mixed(e) /\ e.status = "enriched"
  BY DEF Row, Mixed, RecordStoreAssumption

\* The process functions as functions, without the types of their values.
LEMMA TxFunctions ==
  ASSUME TypeInv
  PROVE  /\ at = [q \in Processes |-> at[q]] /\ item = [q \in Processes |-> item[q]]
         /\ hit = [q \in Processes |-> hit[q]] /\ old = [q \in Processes |-> old[q]]
<1>. DEFINE Values == Row \cup {NoRow}
            Ids == 0..Len(rows)
            Phases == {"off", "ready", "read", "written"}
<1>1. /\ at \in [Processes -> Phases] /\ item \in [Processes -> Values]
      /\ hit \in [Processes -> Ids] /\ old \in [Processes -> Values]
  BY DEF TypeInv, TypeOK
<1>. HIDE DEF Values, Ids, Phases
<1>. QED
  BY <1>1

\* A SELECT keeps the types, whichever spider issues it.
LEMMA ReadsKeepsTypes ==
  ASSUME TypeInv, NEW p \in Processes, NEW row \in Row, ~Mixed(row),
         NEW r \in 0..Len(rows), Reads(p, row, r),
         p \in Enrichers => row.status = "enriched" /\ (task[p] # 0 => r = task[p]),
         UNCHANGED <<rows, queueVars, bounds, forgotten>>,
         visited' \in [Searchers -> SUBSET Found]
  PROVE  TypeInv'
<1>1. at' = [at EXCEPT ![p] = "read"] /\ item' = [item EXCEPT ![p] = row]
      /\ hit' = [hit EXCEPT ![p] = r]
      /\ old' = [old EXCEPT ![p] = IF r = 0 THEN NoRow ELSE rows[r]]
  BY DEF Reads, GoTo
<1>2. r # 0 => rows[r] \in Row
  BY DEF TypeInv, TypeOK
<1>3. contested' \subseteq Urls
  BY RowFields DEF Reads, TypeInv, TypeOK
<1>4. TypeOK'
  BY <1>1, <1>2, <1>3 DEF TypeInv, TypeOK, queueVars, bounds
<1>5. TxInv'
  <2>1. ASSUME NEW q \in Processes, q # p
        PROVE  at'[q] = at[q] /\ item'[q] = item[q] /\ hit'[q] = hit[q] /\ old'[q] = old[q]
    BY <2>1, <1>1, TxFunctions
  <2>2. at'[p] = "read" /\ item'[p] = row /\ hit'[p] = r /\ (r # 0 => old'[p] \in Row)
    BY <1>1, <1>2, TxFunctions
  <2>3. task' = task /\ held' = held
    BY DEF queueVars
  <2>. QED
    BY <2>1, <2>2, <2>3 DEF TypeInv, TxInv, Processes, Mixed
<1>. QED
  BY <1>4, <1>5 DEF TypeInv

\* An INSERT or UPDATE keeps the types.
LEMMA WritesKeepsTypes ==
  ASSUME TypeInv, NEW p \in Processes, Writes(p),
         UNCHANGED <<visited, task, held, bounds, forgotten>>
  PROVE  TypeInv'
<1>1. at[p] = "read" /\ item[p] \in Row /\ (hit[p] # 0 => old[p] \in Row)
  BY DEF Writes, TypeInv, TxInv
<1>2. at' = [at EXCEPT ![p] = "written"] /\ item' = [item EXCEPT ![p] = NoRow]
      /\ old' = [old EXCEPT ![p] = NoRow]
  BY DEF Writes, GoTo
<1>3. contested' \subseteq Urls
  BY <1>1, RowFields DEF Writes, TypeInv, TypeOK
<1>0. /\ rows \in Seq(Row) /\ pending \in Seq(Nat) /\ Len(pending) = Len(rows)
      /\ Len(rows) \in Nat /\ hit \in [Processes -> 0..Len(rows)]
  BY DEF TypeInv, TypeOK
<1>4. /\ rows' \in Seq(Row) /\ pending' \in Seq(Nat) /\ Len(pending') = Len(rows')
      /\ Len(rows') >= Len(rows) /\ Len(rows') \in Nat
      /\ hit' \in [Processes -> 0..Len(rows')] /\ hit'[p] # 0
      /\ \A q \in Processes \ {p} : hit'[q] = hit[q]
  <2>1. CASE hit[p] = 0
    <3>1. rows' = Append(rows, item[p]) /\ pending' = Append(pending, 0)
          /\ hit' = [hit EXCEPT ![p] = Len(rows) + 1]
      BY <2>1 DEF Writes
    <3>2. rows' \in Seq(Row) /\ Len(rows') = Len(rows) + 1
      BY <3>1, <1>0, <1>1, AppendProperties
    <3>3. pending' \in Seq(Nat) /\ Len(pending') = Len(pending) + 1
      BY <3>1, <1>0, AppendProperties
    <3>4. hit' \in [Processes -> 0..Len(rows')]
      BY <3>1, <3>2, <1>0
    <3>. QED
      BY <3>1, <3>2, <3>3, <3>4, <1>0
  <2>2. CASE hit[p] # 0
    <3>1. hit[p] \in 1..Len(rows) /\ rows[hit[p]] \in Row
      BY <2>2, <1>0
    <3>2. Updated(rows[hit[p]], old[p], item[p]) \in Row
      BY <3>1, <2>2, <1>1, UpdatedRow
    <3>3. rows' = [rows EXCEPT ![hit[p]] = Updated(rows[hit[p]], old[p], item[p])]
          /\ pending' = pending /\ hit' = hit
      BY <2>2 DEF Writes
    <3>4. rows' \in Seq(Row) /\ Len(rows') = Len(rows)
      BY <3>1, <3>2, <3>3, <1>0, ExceptSeq
    <3>. QED
      BY <3>3, <3>4, <2>2, <1>0
  <2>. QED
    BY <2>1, <2>2
<1>5. TypeOK'
  <2>1. at' \in [Processes -> {"off", "ready", "read", "written"}]
    BY <1>2 DEF TypeInv, TypeOK
  <2>2. item' \in [Processes -> Row \cup {NoRow}] /\ old' \in [Processes -> Row \cup {NoRow}]
    BY <1>2 DEF TypeInv, TypeOK
  <2>3. task' \in [Enrichers -> 0..Len(rows')] /\ forgotten' \subseteq 1..Len(rows')
    BY <1>0, <1>4 DEF TypeInv, TypeOK
  <2>4. /\ visited' \in [Searchers -> SUBSET Found] /\ held' \in [Enrichers -> BOOLEAN]
        /\ searches' \in 0..MaxSearches /\ byHand' \in 0..MaxByHand /\ faults' \in 0..MaxFaults
    BY DEF TypeInv, TypeOK, bounds
  <2>. QED
    BY <1>3, <1>4, <2>1, <2>2, <2>3, <2>4 DEF TypeOK
<1>6. TxInv'
  <2>1. ASSUME NEW q \in Processes, q # p
        PROVE  at'[q] = at[q] /\ item'[q] = item[q] /\ hit'[q] = hit[q] /\ old'[q] = old[q]
    BY <2>1, <1>2, <1>4, TxFunctions
  <2>2. at'[p] = "written" /\ hit'[p] # 0
    BY <1>2, <1>4, TxFunctions
  <2>. QED
    BY <2>1, <2>2 DEF TypeInv, TxInv, Processes, Mixed
<1>. QED
  BY <1>5, <1>6 DEF TypeInv

\* A process that ends or returns to "ready" keeps the types.
LEMMA ForgetKeepsTypes ==
  ASSUME TypeInv, NEW p \in Processes, NEW place \in {"off", "ready"}, Forget(p, place),
         UNCHANGED <<rows, searches, byHand, contested>>,
         pending' \in Seq(Nat), Len(pending') = Len(pending),
         task' \in [Enrichers -> 0..Len(rows)], held' \in [Enrichers -> BOOLEAN],
         \A e \in Enrichers \ {p} : task'[e] = task[e] /\ held'[e] = held[e],
         p \in Enrichers => (held'[p] => task'[p] # 0),
         visited' \in [Searchers -> SUBSET Found],
         faults' \in 0..MaxFaults, forgotten' \subseteq 1..Len(rows)
  PROVE  TypeInv'
<1>1. at' = [at EXCEPT ![p] = place] /\ item' = [item EXCEPT ![p] = NoRow]
      /\ hit' = [hit EXCEPT ![p] = 0] /\ old' = [old EXCEPT ![p] = NoRow]
  BY DEF Forget, GoTo
<1>2. TypeOK'
  <2>1. at' \in [Processes -> {"off", "ready", "read", "written"}]
    BY <1>1 DEF TypeInv, TypeOK
  <2>2. /\ item' \in [Processes -> Row \cup {NoRow}] /\ old' \in [Processes -> Row \cup {NoRow}]
        /\ hit' \in [Processes -> 0..Len(rows)]
    BY <1>1 DEF TypeInv, TypeOK
  <2>3. /\ rows' = rows /\ rows \in Seq(Row) /\ Len(pending') = Len(rows)
        /\ searches' \in 0..MaxSearches /\ byHand' \in 0..MaxByHand /\ contested' \subseteq Urls
    BY DEF TypeInv, TypeOK
  <2>. QED
    BY <2>1, <2>2, <2>3 DEF TypeOK
<1>3. TxInv'
  <2>1. ASSUME NEW q \in Processes, q # p
        PROVE  at'[q] = at[q] /\ item'[q] = item[q] /\ hit'[q] = hit[q] /\ old'[q] = old[q]
    BY <2>1, <1>1, TxFunctions
  <2>2. at'[p] \notin {"read", "written"}
    BY <1>1, TxFunctions
  <2>3. \A q \in Processes :
          /\ at'[q] = "read" => /\ item'[q] \in Row /\ ~Mixed(item'[q])
                                /\ hit'[q] # 0 => old'[q] \in Row
          /\ at'[q] = "written" => hit'[q] # 0
    BY <2>1, <2>2 DEF TypeInv, TxInv, Mixed
  <2>4. \A e \in Enrichers :
          /\ at'[e] = "read" => /\ item'[e].status = "enriched"
                                /\ task'[e] # 0 => hit'[e] = task'[e]
          /\ held'[e] => task'[e] # 0
    <3> SUFFICES ASSUME NEW e \in Enrichers
                 PROVE  /\ at'[e] = "read" => /\ item'[e].status = "enriched"
                                              /\ task'[e] # 0 => hit'[e] = task'[e]
                        /\ held'[e] => task'[e] # 0
      OBVIOUS
    <3>1. CASE e = p
      BY <3>1, <2>2
    <3>2. CASE e # p
      BY <3>2, <2>1 DEF TypeInv, TxInv, Processes
    <3>. QED
      BY <3>1, <3>2
  <2>. QED
    BY <2>3, <2>4 DEF TxInv, Mixed
<1>. QED
  BY <1>2, <1>3 DEF TypeInv

------------------------------------------------------------------------------
LEMMA InitTypeInv == Init => TypeInv
  BY RecordStoreAssumption DEF Init, TypeInv, TypeOK, TxInv, Processes

LEMMA NextTypeInv == TypeInv /\ [Next]_vars => TypeInv'
<1> SUFFICES ASSUME TypeInv, [Next]_vars PROVE TypeInv'
  OBVIOUS
<1> USE RecordStoreAssumption
<1>f. /\ Len(rows) \in Nat /\ Len(pending) = Len(rows) /\ pending \in Seq(Nat)
      /\ task \in [Enrichers -> 0..Len(rows)] /\ held \in [Enrichers -> BOOLEAN]
      /\ hit \in [Processes -> 0..Len(rows)]
      /\ visited \in [Searchers -> SUBSET Found] /\ forgotten \subseteq 1..Len(rows)
      /\ searches \in 0..MaxSearches /\ byHand \in 0..MaxByHand /\ faults \in 0..MaxFaults
  BY DEF TypeInv, TypeOK
<1>h. \A e \in Enrichers : held[e] => task[e] \in 1..Len(rows)
  BY <1>f DEF TypeInv, TxInv
<1>1. ASSUME NEW s \in Searchers, StartSearch(s) PROVE TypeInv'
  BY <1>1 DEF StartSearch, TypeInv, TypeOK, TxInv, GoTo, Processes, queueVars, Mixed
<1>2. ASSUME NEW s \in Searchers, LookUpDiscovered(s) PROVE TypeInv'
  <2>1. PICK u \in Found \ visited[s], place \in Places :
          /\ visited' = [visited EXCEPT ![s] = @ \cup {u}]
          /\ ReadsByUrl(s, [url |-> u, status |-> "discovered", payload |-> place])
    BY <1>2 DEF LookUpDiscovered
  <2> DEFINE row == [url |-> u, status |-> "discovered", payload |-> place]
  <2>2. row \in Row /\ ~Mixed(row)
    BY DEF Row, Mixed
  <2>3. PICK r \in 0..Len(rows) : Reads(s, row, r)
    BY <2>1, <1>f DEF ReadsByUrl, Matches
  <2>4. visited' \in [Searchers -> SUBSET Found]
    BY <2>1, <1>f
  <2> HIDE DEF row
  <2>. QED
    BY <1>2, <2>2, <2>3, <2>4, ReadsKeepsTypes DEF LookUpDiscovered, Processes
<1>3. ASSUME NEW s \in Searchers, DropDiscovered(s) PROVE TypeInv'
  <2>1. visited' \in [Searchers -> SUBSET Found]
    BY <1>3, <1>f DEF DropDiscovered
  <2>. QED
    BY <1>3, <1>f, <2>1, ForgetKeepsTypes DEF DropDiscovered, Processes, queueVars, bounds
<1>4. ASSUME NEW s \in Searchers, WriteDiscovered(s) PROVE TypeInv'
  BY <1>4, WritesKeepsTypes DEF WriteDiscovered, Processes
<1>5. ASSUME NEW s \in Searchers, Announce(s) PROVE TypeInv'
  <2>1. hit[s] \in 1..Len(rows)
    BY <1>5, <1>f DEF Announce, TypeInv, TxInv, Processes
  <2>2. pending' \in Seq(Nat) /\ Len(pending') = Len(pending)
    BY <1>5, <1>f, <2>1, ExceptSeq DEF Announce
  <2>. QED
    BY <1>5, <1>f, <2>2, ForgetKeepsTypes DEF Announce, Processes, bounds
<1>6. ASSUME NEW s \in Searchers, AnnounceFails(s) PROVE TypeInv'
  <2>1. hit[s] \in 1..Len(rows)
    BY <1>6, <1>f DEF AnnounceFails, TypeInv, TxInv, Processes
  <2>. QED
    BY <1>6, <1>f, <2>1, ForgetKeepsTypes DEF AnnounceFails, Processes, bounds, queueVars
<1>7. ASSUME NEW s \in Searchers, EndSearch(s) PROVE TypeInv'
  <2>1. visited' \in [Searchers -> SUBSET Found]
    BY <1>7, <1>f DEF EndSearch
  <2>. QED
    BY <1>7, <1>f, <2>1, ForgetKeepsTypes DEF EndSearch, Processes, bounds, queueVars
<1>8. ASSUME NEW s \in Searchers, KillSearch(s) PROVE TypeInv'
  <2>1. visited' \in [Searchers -> SUBSET Found] /\ faults' \in 0..MaxFaults
    BY <1>8, <1>f DEF KillSearch
  <2>2. forgotten' \subseteq 1..Len(rows)
    <3>1. at[s] = "written" => hit[s] \in 1..Len(rows)
      BY <1>f DEF TypeInv, TxInv, Processes
    <3>. QED
      BY <1>8, <3>1, <1>f DEF KillSearch
  <2>. QED
    BY <1>8, <1>f, <2>1, <2>2, ForgetKeepsTypes DEF KillSearch, Processes, queueVars
<1>9. ASSUME NEW e \in Enrichers, NEW r \in 1..Len(rows), TakeRequest(e, r) PROVE TypeInv'
  <2>1. pending' \in Seq(Nat) /\ Len(pending') = Len(pending)
    BY <1>9, <1>f, ExceptSeq DEF TakeRequest
  <2>2. TypeOK'
    BY <1>9, <1>f, <2>1 DEF TakeRequest, TypeInv, TypeOK, GoTo, Processes, bounds
  <2>3. TxInv'
    BY <1>9, <1>f DEF TakeRequest, TypeInv, TypeOK, TxInv, GoTo, Processes, Mixed
  <2>. QED
    BY <2>2, <2>3 DEF TypeInv
<1>10. ASSUME NEW e \in Enrichers, StartByHand(e) PROVE TypeInv'
  BY <1>10 DEF StartByHand, TypeInv, TypeOK, TxInv, GoTo, Processes, queueVars, Mixed
<1>11. ASSUME NEW e \in Enrichers, LookUpEnriched(e) PROVE TypeInv'
  <2>1. PICK v \in Urls, m \in Metadata :
          LET row == [url |-> v, status |-> "enriched", payload |-> m]
          IN IF task[e] # 0 THEN Reads(e, row, task[e]) ELSE ReadsByUrl(e, row)
    BY <1>11 DEF LookUpEnriched
  <2> DEFINE row == [url |-> v, status |-> "enriched", payload |-> m]
  <2>2. row \in Row /\ ~Mixed(row) /\ row.status = "enriched"
    BY DEF Row, Mixed
  <2>3. PICK r \in 0..Len(rows) : Reads(e, row, r) /\ (task[e] # 0 => r = task[e])
    BY <2>1, <1>f DEF ReadsByUrl, Matches
  <2> HIDE DEF row
  <2>. QED
    BY <1>11, <1>f, <2>2, <2>3, ReadsKeepsTypes DEF LookUpEnriched, Processes
<1>12. ASSUME NEW e \in Enrichers, WriteEnriched(e) PROVE TypeInv'
  BY <1>12, WritesKeepsTypes DEF WriteEnriched, Processes
<1>13. ASSUME NEW e \in Enrichers, EndEnrich(e), forgotten' \subseteq 1..Len(rows) PROVE TypeInv'
  <2>1. /\ task' \in [Enrichers -> 0..Len(rows)] /\ held' \in [Enrichers -> BOOLEAN] /\ ~held'[e]
        /\ \A d \in Enrichers \ {e} : task'[d] = task[d] /\ held'[d] = held[d]
    BY <1>13, <1>f DEF EndEnrich
  <2>. QED
    BY <1>13, <1>f, <2>1, ForgetKeepsTypes DEF EndEnrich, Processes, bounds
<1>14. ASSUME NEW e \in Enrichers, EnrichEnds(e) \/ EnrichGivesUp(e) PROVE TypeInv'
  BY <1>13, <1>14, <1>f, <1>h DEF EnrichEnds, EnrichGivesUp
<1>15. ASSUME NEW e \in Enrichers, EnrichFails(e) PROVE TypeInv'
  <2>1. /\ task' \in [Enrichers -> 0..Len(rows)] /\ held' \in [Enrichers -> BOOLEAN] /\ ~held'[e]
        /\ \A d \in Enrichers \ {e} : task'[d] = task[d] /\ held'[d] = held[d]
    BY <1>15, <1>f DEF EnrichFails
  <2>2. pending' \in Seq(Nat) /\ Len(pending') = Len(pending)
    BY <1>15, <1>f, <1>h, ExceptSeq DEF EnrichFails
  <2>3. faults' \in 0..MaxFaults
    BY <1>15, <1>f DEF EnrichFails
  <2>. QED
    BY <1>15, <1>f, <2>1, <2>2, <2>3, ForgetKeepsTypes DEF EnrichFails, Processes
<1>16. ASSUME NEW e \in Enrichers, Redeliver(e) PROVE TypeInv'
  <2>1. pending' \in Seq(Nat) /\ Len(pending') = Len(pending)
    BY <1>16, <1>f, <1>h, ExceptSeq DEF Redeliver
  <2>2. TypeOK'
    BY <1>16, <1>f, <2>1 DEF Redeliver, TypeInv, TypeOK, txVars
  <2>3. TxInv'
    BY <1>16, <1>f DEF Redeliver, TypeInv, TxInv, txVars, Mixed
  <2>. QED
    BY <2>2, <2>3 DEF TypeInv
<1>17. CASE UNCHANGED vars
  BY <1>17 DEF vars, queueVars, txVars, bounds, TypeInv, TypeOK, TxInv, Mixed
<1>. QED
  BY <1>1, <1>2, <1>3, <1>4, <1>5, <1>6, <1>7, <1>8, <1>9, <1>10, <1>11, <1>12, <1>14, <1>15,
     <1>16, <1>17 DEF Next, Search, Takes, Enrich

\* The variables keep their types, for any processes, URLs and payloads: an upsert
\* always updates an existing row and the enrich queue only names existing records.
THEOREM TypeCorrect == Spec => []TypeOK
<1>1. TypeInv => TypeOK
  BY DEF TypeInv
<1>. QED
  BY InitTypeInv, NextTypeInv, <1>1, PTL DEF Spec

------------------------------------------------------------------------------
(* What a step does to the transactions and to the table: a SELECT, a commit, or nothing. *)

Selects(p, row, r) ==
  /\ Reads(p, row, r) /\ rows' = rows
  /\ r = 0 => Matches(row.url) = {}

Quiet ==
  /\ rows' = rows /\ contested' = contested
  /\ \A q \in Processes : at'[q] = "read" =>
       /\ at[q] = "read" /\ item'[q] = item[q] /\ hit'[q] = hit[q] /\ old'[q] = old[q]

LEMMA ForgetIsQuiet ==
  ASSUME TypeInv, NEW p \in Processes, NEW place \in {"off", "ready"}, Forget(p, place),
         UNCHANGED <<rows, contested>>
  PROVE  Quiet
<1>1. at' = [at EXCEPT ![p] = place] /\ item' = [item EXCEPT ![p] = NoRow]
      /\ hit' = [hit EXCEPT ![p] = 0] /\ old' = [old EXCEPT ![p] = NoRow]
  BY DEF Forget, GoTo
<1>. QED
  BY <1>1, TxFunctions DEF Quiet

LEMMA StepKinds ==
  ASSUME TypeInv, [Next]_vars
  PROVE  \/ \E p \in Processes, row \in Row, r \in 0..Len(rows) : Selects(p, row, r)
         \/ \E p \in Processes : Writes(p)
         \/ Quiet
<1> DEFINE Kinds == \/ \E p \in Processes, row \in Row, r \in 0..Len(rows) : Selects(p, row, r)
                    \/ \E p \in Processes : Writes(p)
                    \/ Quiet
<1>f. /\ Len(rows) \in Nat
      /\ task \in [Enrichers -> 0..Len(rows)]
  BY DEF TypeInv, TypeOK
<1>1. ASSUME NEW s \in Searchers, StartSearch(s) PROVE Quiet
  BY <1>1, TxFunctions DEF StartSearch, GoTo, Quiet, Processes
<1>2. ASSUME NEW s \in Searchers, LookUpDiscovered(s) PROVE Kinds
  <2>1. PICK u \in Found \ visited[s], place \in Places :
          ReadsByUrl(s, [url |-> u, status |-> "discovered", payload |-> place])
    BY <1>2 DEF LookUpDiscovered
  <2> DEFINE row == [url |-> u, status |-> "discovered", payload |-> place]
  <2>2. row \in Row
    BY RecordStoreAssumption DEF Row
  <2> HIDE DEF row
  <2>3. ReadsByUrl(s, row) /\ rows' = rows
    BY <2>1, <1>2 DEF row, LookUpDiscovered
  <2>4. PICK r \in 0..Len(rows) : Selects(s, row, r)
    BY <2>3, <1>f DEF ReadsByUrl, Matches, Selects
  <2>. QED
    BY <2>2, <2>4 DEF Processes
<1>3. ASSUME NEW s \in Searchers, DropDiscovered(s) PROVE Quiet
  BY <1>3, ForgetIsQuiet DEF DropDiscovered, Processes
<1>4. ASSUME NEW s \in Searchers, WriteDiscovered(s) PROVE Kinds
  BY <1>4 DEF WriteDiscovered, Processes
<1>5. ASSUME NEW s \in Searchers, Announce(s) \/ AnnounceFails(s) PROVE Quiet
  BY <1>5, ForgetIsQuiet DEF Announce, AnnounceFails, Processes
<1>6. ASSUME NEW s \in Searchers, EndSearch(s) \/ KillSearch(s) PROVE Quiet
  BY <1>6, ForgetIsQuiet DEF EndSearch, KillSearch, Processes
<1>7. ASSUME NEW e \in Enrichers, NEW r \in 1..Len(rows), TakeRequest(e, r) PROVE Quiet
  BY <1>7, TxFunctions DEF TakeRequest, GoTo, Quiet, Processes
<1>8. ASSUME NEW e \in Enrichers, StartByHand(e) PROVE Quiet
  BY <1>8, TxFunctions DEF StartByHand, GoTo, Quiet, Processes
<1>9. ASSUME NEW e \in Enrichers, LookUpEnriched(e) PROVE Kinds
  <2>1. PICK v \in Urls, m \in Metadata :
          LET row == [url |-> v, status |-> "enriched", payload |-> m]
          IN IF task[e] # 0 THEN Reads(e, row, task[e]) ELSE ReadsByUrl(e, row)
    BY <1>9 DEF LookUpEnriched
  <2> DEFINE row == [url |-> v, status |-> "enriched", payload |-> m]
  <2>2. row \in Row
    BY DEF Row
  <2> HIDE DEF row
  <2>3. (IF task[e] # 0 THEN Reads(e, row, task[e]) ELSE ReadsByUrl(e, row)) /\ rows' = rows
    BY <2>1, <1>9 DEF row, LookUpEnriched
  <2>4. PICK r \in 0..Len(rows) : Selects(e, row, r)
    BY <2>3, <1>f DEF ReadsByUrl, Matches, Selects
  <2>. QED
    BY <2>2, <2>4 DEF Processes
<1>10. ASSUME NEW e \in Enrichers, WriteEnriched(e) PROVE Kinds
  BY <1>10 DEF WriteEnriched, Processes
<1>11. ASSUME NEW e \in Enrichers, EnrichEnds(e) \/ EnrichGivesUp(e) \/ EnrichFails(e) PROVE Quiet
  BY <1>11, ForgetIsQuiet DEF EnrichEnds, EnrichGivesUp, EndEnrich, EnrichFails, Processes
<1>12. ASSUME NEW e \in Enrichers, Redeliver(e) PROVE Quiet
  BY <1>12 DEF Redeliver, Quiet, txVars
<1>13. CASE UNCHANGED vars
  BY <1>13 DEF vars, txVars, Quiet
<1>. QED
  BY <1>1, <1>2, <1>3, <1>4, <1>5, <1>6, <1>7, <1>8, <1>9, <1>10, <1>11, <1>12, <1>13
     DEF Next, Search, Takes, Enrich

------------------------------------------------------------------------------
(* Duplicates. *)

Inserts(p) == at[p] = "read" /\ hit[p] = 0

\* A transaction that found nothing may rely on it while its URL is not contested.
LookupInv ==
  /\ \A p \in Processes : Inserts(p) /\ item[p].url \notin contested =>
       \A r \in 1..Len(rows) : rows[r].url # item[p].url
  /\ \A p, q \in Processes :
       p # q /\ Inserts(p) /\ Inserts(q) /\ item[p].url = item[q].url => item[p].url \in contested

DupInv == LookupInv /\ DuplicatesNeedOverlap

LEMMA SelectsKeepsDupInv ==
  ASSUME TypeInv, DupInv, NEW p \in Processes, NEW row \in Row, NEW r \in 0..Len(rows),
         Selects(p, row, r)
  PROVE  DupInv'
<1>1. at' = [at EXCEPT ![p] = "read"] /\ item' = [item EXCEPT ![p] = row]
      /\ hit' = [hit EXCEPT ![p] = r] /\ rows' = rows
  BY DEF Selects, Reads, GoTo
<1>2. at'[p] = "read" /\ item'[p] = row /\ hit'[p] = r
  BY <1>1, TxFunctions
<1>3. ASSUME NEW q \in Processes, q # p
      PROVE  at'[q] = at[q] /\ item'[q] = item[q] /\ hit'[q] = hit[q]
  BY <1>3, <1>1, TxFunctions
<1>4. contested \subseteq contested'
  BY DEF Selects, Reads
<1>5. r = 0 => \A i \in 1..Len(rows) : rows[i].url # row.url
  BY DEF Selects, Matches
<1>6. ASSUME NEW q \in Processes, q # p, r = 0, Inserts(q), item[q].url = row.url
      PROVE  row.url \in contested'
  BY <1>6 DEF Selects, Reads, Inserts
<1>7. LookupInv'
  <2>1. ASSUME NEW q \in Processes, Inserts(q)', item'[q].url \notin contested',
               NEW i \in 1..Len(rows)
        PROVE  rows[i].url # item'[q].url
    <3>1. CASE q = p
      BY <3>1, <2>1, <1>2, <1>5 DEF Inserts
    <3>2. CASE q # p
      BY <3>2, <2>1, <1>3, <1>4 DEF Inserts, DupInv, LookupInv
    <3>. QED
      BY <3>1, <3>2
  <2>2. ASSUME NEW o \in Processes, NEW q \in Processes, o # q, Inserts(o)', Inserts(q)',
               item'[o].url = item'[q].url
        PROVE  item'[o].url \in contested'
    <3>1. CASE o = p
      BY <3>1, <2>2, <1>2, <1>3, <1>6 DEF Inserts
    <3>2. CASE q = p
      BY <3>2, <2>2, <1>2, <1>3, <1>6 DEF Inserts
    <3>3. CASE o # p /\ q # p
      BY <3>3, <2>2, <1>3, <1>4 DEF Inserts, DupInv, LookupInv
    <3>. QED
      BY <3>1, <3>2, <3>3
  <2>. QED
    BY <2>1, <2>2, <1>1 DEF LookupInv
<1>8. DuplicatesNeedOverlap'
  BY <1>1, <1>4 DEF DupInv, DuplicatesNeedOverlap
<1>. QED
  BY <1>7, <1>8 DEF DupInv

LEMMA WritesKeepsDupInv ==
  ASSUME TypeInv, DupInv, NEW p \in Processes, Writes(p)
  PROVE  DupInv'
<1>1. at[p] = "read" /\ item[p] \in Row /\ (hit[p] # 0 => old[p] \in Row)
  BY DEF Writes, TypeInv, TxInv
<1>2. at' = [at EXCEPT ![p] = "written"] /\ item' = [item EXCEPT ![p] = NoRow]
  BY DEF Writes, GoTo
<1>3. rows \in Seq(Row) /\ Len(rows) \in Nat /\ hit[p] \in 0..Len(rows)
  BY DEF TypeInv, TypeOK
<1>4. ASSUME NEW q \in Processes, Inserts(q)'
      PROVE  q # p /\ Inserts(q) /\ item'[q] = item[q]
  <2>1. at'[p] = "written" /\ q # p
    BY <1>4, <1>2, TxFunctions DEF Inserts
  <2>2. at'[q] = at[q] /\ item'[q] = item[q] /\ hit'[q] = hit[q]
    BY <2>1, <1>2, TxFunctions DEF Writes
  <2>. QED
    BY <1>4, <2>1, <2>2 DEF Inserts
<1>5. contested \subseteq contested'
  BY DEF Writes
<1>6. CASE hit[p] = 0
  <2>1. rows' = Append(rows, item[p]) /\ contested' = contested
    BY <1>6 DEF Writes
  <2>2. /\ Len(rows') = Len(rows) + 1 /\ rows'[Len(rows) + 1] = item[p]
        /\ \A i \in 1..Len(rows) : rows'[i] = rows[i]
    BY <2>1, <1>1, <1>3, AppendProperties
  <2>3. \A i \in 1..Len(rows') : i \in 1..Len(rows) \/ i = Len(rows) + 1
    BY <2>2, <1>3
  <2>4. Inserts(p)
    BY <1>1, <1>6 DEF Inserts
  <2>5. LookupInv'
    <3>1. ASSUME NEW q \in Processes, Inserts(q)', item'[q].url \notin contested',
                 NEW i \in 1..Len(rows')
          PROVE  rows'[i].url # item'[q].url
      <4>1. q # p /\ Inserts(q) /\ item'[q] = item[q] /\ item[q].url \notin contested
        BY <3>1, <1>4, <2>1
      <4>2. item[q].url # item[p].url
        BY <4>1, <2>4 DEF DupInv, LookupInv
      <4>. QED
        BY <4>1, <4>2, <2>2, <2>3 DEF DupInv, LookupInv
    <3>2. ASSUME NEW o \in Processes, NEW q \in Processes, o # q, Inserts(o)', Inserts(q)',
                 item'[o].url = item'[q].url
          PROVE  item'[o].url \in contested'
      BY <3>2, <1>4, <1>5 DEF DupInv, LookupInv
    <3>. QED
      BY <3>1, <3>2 DEF LookupInv
  <2>6. DuplicatesNeedOverlap'
    <3>1. item[p].url \notin contested => \A i \in 1..Len(rows) : rows[i].url # item[p].url
      BY <2>4 DEF DupInv, LookupInv
    <3>2. ASSUME NEW i \in 1..Len(rows'), NEW j \in 1..Len(rows'), i # j, rows'[i].url = rows'[j].url
          PROVE  rows'[i].url \in contested'
      BY <3>1, <3>2, <2>1, <2>2, <2>3 DEF DupInv, DuplicatesNeedOverlap
    <3>. QED
      BY <3>2 DEF DuplicatesNeedOverlap
  <2>. QED
    BY <2>5, <2>6 DEF DupInv
<1>7. CASE hit[p] # 0
  <2> DEFINE new == Updated(rows[hit[p]], old[p], item[p])
  <2>1. rows' = [rows EXCEPT ![hit[p]] = new]
    BY <1>7 DEF Writes
  <2>2. hit[p] \in 1..Len(rows) /\ rows[hit[p]] \in Row
    BY <1>7, <1>3
  <2>3. /\ new \in Row
        /\ item[p].url = old[p].url => new.url = rows[hit[p]].url
        /\ item[p].url # old[p].url => new.url = item[p].url /\ item[p].url \in contested'
    BY <2>2, <1>1, <1>7, UpdatedRow DEF Writes
  <2> HIDE DEF new
  <2>4. /\ Len(rows') = Len(rows) /\ rows'[hit[p]] = new
        /\ \A i \in 1..Len(rows) : i # hit[p] => rows'[i] = rows[i]
    BY <2>1, <2>2, <2>3, <1>3, ExceptSeq
  <2>5. \A i \in 1..Len(rows) : rows'[i].url = rows[i].url \/ rows'[i].url \in contested'
    BY <2>3, <2>4
  <2>6. LookupInv'
    BY <1>4, <1>5, <2>4, <2>5 DEF DupInv, LookupInv
  <2>7. DuplicatesNeedOverlap'
    BY <1>5, <2>4, <2>5 DEF DupInv, DuplicatesNeedOverlap
  <2>. QED
    BY <2>6, <2>7 DEF DupInv
<1>. QED
  BY <1>6, <1>7

LEMMA NextDupInv == TypeInv /\ DupInv /\ [Next]_vars => DupInv'
<1> SUFFICES ASSUME TypeInv, DupInv, [Next]_vars PROVE DupInv'
  OBVIOUS
<1>1. CASE Quiet
  BY <1>1 DEF Quiet, DupInv, LookupInv, DuplicatesNeedOverlap, Inserts
<1>. QED
  BY <1>1, StepKinds, SelectsKeepsDupInv, WritesKeepsDupInv

\* However many runs, redeliveries, crashes and enrichments there are, two records of
\* the query share a URL only after two transactions both found none, or after an
\* enrichment gave a record another URL (repository.py: nothing else inserts).
THEOREM DuplicatesOnlyByOverlap == Spec => []DuplicatesNeedOverlap
<1>1. Init => DupInv
  BY DEF Init, DupInv, LookupInv, DuplicatesNeedOverlap, Inserts
<1>2. DupInv => DuplicatesNeedOverlap
  BY DEF DupInv
<1>. QED
  BY <1>1, <1>2, InitTypeInv, NextTypeInv, NextDupInv, PTL DEF Spec

------------------------------------------------------------------------------
(* Discovered records. *)

\* A step that leaves the table alone has to keep every record on its way.
LEMMA StaysPending ==
  ASSUME DiscoveredIsPending, rows' = rows,
         \A r \in 1..Len(rows) : OnItsWay(r) \/ r \in forgotten => OnItsWay(r)' \/ r \in forgotten'
  PROVE  DiscoveredIsPending'
  BY DEF DiscoveredIsPending

LEMMA WritesKeepsPending ==
  ASSUME TypeInv, DiscoveredIsPending, NEW p \in Processes, Writes(p),
         UNCHANGED <<task, held, forgotten>>
  PROVE  DiscoveredIsPending'
<1>1. /\ at[p] = "read" /\ item[p] \in Row /\ (hit[p] # 0 => old[p] \in Row)
      /\ rows \in Seq(Row) /\ Len(rows) \in Nat /\ hit[p] \in 0..Len(rows)
      /\ pending \in Seq(Nat) /\ Len(pending) = Len(rows)
  BY DEF Writes, TypeInv, TypeOK, TxInv
<1>2. at'[p] = "written"
  BY TxFunctions DEF Writes, GoTo
<1>3. ASSUME NEW q \in Processes, q # p
      PROVE  at'[q] = at[q] /\ hit'[q] = hit[q] /\ old'[q] = old[q]
  BY <1>3, TxFunctions DEF Writes, GoTo
<1>4. \A i \in 1..Len(rows) : pending'[i] = pending[i]
  <2>1. pending' = pending \/ pending' = Append(pending, 0)
    BY DEF Writes
  <2>. QED
    BY <2>1, <1>1, AppendProperties
<1>5. ASSUME NEW i \in 1..Len(rows), OnItsWay(i),
             ~(p \in Enrichers /\ held[p] /\ task[p] = i /\ old[p].status = "discovered")
      PROVE  OnItsWay(i)'
  BY <1>1, <1>3, <1>4, <1>5 DEF OnItsWay, Processes
<1>6. ASSUME p \in Enrichers PROVE item[p].status = "enriched" /\ (task[p] # 0 => hit[p] = task[p])
  BY <1>1, <1>6 DEF TypeInv, TxInv
<1>7. CASE hit[p] = 0
  <2>1. rows' = Append(rows, item[p]) /\ hit'[p] = Len(rows) + 1
    BY <1>7, TxFunctions DEF Writes
  <2>2. /\ Len(rows') = Len(rows) + 1 /\ rows'[Len(rows) + 1] = item[p]
        /\ \A i \in 1..Len(rows) : rows'[i] = rows[i]
    BY <2>1, <1>1, AppendProperties
  <2>3. ASSUME NEW i \in 1..Len(rows), rows'[i].status = "discovered"
        PROVE  OnItsWay(i)' \/ i \in forgotten'
    BY <2>3, <2>2, <1>1, <1>5, <1>6, <1>7 DEF DiscoveredIsPending
  <2>4. ASSUME NEW i \in {Len(rows) + 1}, rows'[i].status = "discovered" PROVE OnItsWay(i)'
    <3>1. p \in Searchers
      BY <2>2, <2>4, <1>6 DEF Processes
    <3>2. at'[p] = "written" /\ hit'[p] = i
      BY <2>1, <1>2
    <3>. QED
      BY <3>1, <3>2 DEF OnItsWay
  <2>5. \A i \in 1..Len(rows') : i \in 1..Len(rows) \/ i \in {Len(rows) + 1}
    BY <2>2, <1>1
  <2>. QED
    BY <2>3, <2>4, <2>5 DEF DiscoveredIsPending
<1>8. CASE hit[p] # 0
  <2> DEFINE new == Updated(rows[hit[p]], old[p], item[p])
  <2>1. rows' = [rows EXCEPT ![hit[p]] = new] /\ hit' = hit
    BY <1>8 DEF Writes
  <2>2. hit[p] \in 1..Len(rows) /\ rows[hit[p]] \in Row
    BY <1>8, <1>1
  <2>3. /\ new \in Row
        /\ item[p].status # old[p].status => new.status = item[p].status
        /\ item[p].status = old[p].status => new.status = rows[hit[p]].status
    BY <2>2, <1>1, <1>8, UpdatedRow
  <2> HIDE DEF new
  <2>4. /\ Len(rows') = Len(rows) /\ rows'[hit[p]] = new
        /\ \A i \in 1..Len(rows) : i # hit[p] => rows'[i] = rows[i]
    BY <2>1, <2>2, <2>3, <1>1, ExceptSeq
  <2>5. CASE p \in Searchers
    <3>1. \A i \in 1..Len(rows) : i = hit[p] => OnItsWay(i)'
      BY <2>5, <2>1, <1>2 DEF OnItsWay
    <3>2. p \notin Enrichers
      BY <2>5, RecordStoreAssumption
    <3>3. \A i \in 1..Len(rows) : OnItsWay(i) => OnItsWay(i)'
      BY <3>2, <1>5
    <3>. QED
      BY <3>1, <3>3, <2>4 DEF DiscoveredIsPending
  <2>6. CASE p \in Enrichers
    <3>1. item[p].status = "enriched" /\ (task[p] # 0 => hit[p] = task[p])
      BY <2>6, <1>6
    <3>2. ASSUME NEW i \in 1..Len(rows), rows'[i].status = "discovered"
          PROVE  OnItsWay(i)' \/ i \in forgotten'
      <4>1. CASE i = hit[p]
        <5>1. item[p].status = old[p].status /\ rows[i].status = "discovered"
          BY <4>1, <3>2, <3>1, <2>3, <2>4
        <5>. QED
          BY <5>1, <3>1, <1>5 DEF DiscoveredIsPending
      <4>2. CASE i # hit[p]
        <5>1. rows[i].status = "discovered" /\ i # 0
          BY <4>2, <3>2, <2>4
        <5>. QED
          BY <5>1, <4>2, <3>1, <1>5 DEF DiscoveredIsPending
      <4>. QED
        BY <4>1, <4>2
    <3>. QED
      BY <3>2, <2>4 DEF DiscoveredIsPending
  <2>. QED
    BY <2>5, <2>6 DEF Processes
<1>. QED
  BY <1>7, <1>8

LEMMA NextPending == TypeInv /\ DiscoveredIsPending /\ [Next]_vars => DiscoveredIsPending'
<1> SUFFICES ASSUME TypeInv, DiscoveredIsPending, [Next]_vars PROVE DiscoveredIsPending'
  OBVIOUS
<1>f. /\ Len(rows) \in Nat /\ Len(pending) = Len(rows) /\ pending \in Seq(Nat)
      /\ task \in [Enrichers -> 0..Len(rows)] /\ held \in [Enrichers -> BOOLEAN]
      /\ hit \in [Processes -> 0..Len(rows)]
  BY DEF TypeInv, TypeOK
<1>h. /\ \A e \in Enrichers : held[e] => task[e] \in 1..Len(rows)
      /\ \A s \in Searchers : at[s] = "written" => hit[s] \in 1..Len(rows)
  BY <1>f DEF TypeInv, TxInv, Processes
<1>g. ASSUME NEW p \in Processes, NEW place \in {"off", "ready"}, Forget(p, place)
      PROVE  /\ at'[p] = place
             /\ \A q \in Processes \ {p} : at'[q] = at[q] /\ hit'[q] = hit[q] /\ old'[q] = old[q]
  BY <1>g, TxFunctions DEF Forget, GoTo
<1>1. ASSUME NEW s \in Searchers, StartSearch(s) PROVE DiscoveredIsPending'
  BY <1>1, TxFunctions, StaysPending, RecordStoreAssumption
     DEF StartSearch, GoTo, OnItsWay, Processes, queueVars
<1>2. ASSUME NEW p \in Processes, NEW row \in Row, NEW r \in 0..Len(rows), Reads(p, row, r),
             UNCHANGED <<rows, queueVars, forgotten>>,
             p \in Enrichers => (task[p] # 0 => r = task[p])
      PROVE  DiscoveredIsPending'
  <2>1. /\ at[p] = "ready" /\ at'[p] = "read" /\ (r # 0 => old'[p] = rows[r])
        /\ \A q \in Processes \ {p} : at'[q] = at[q] /\ hit'[q] = hit[q] /\ old'[q] = old[q]
    BY <1>2, TxFunctions DEF Reads, GoTo
  <2>2. UNCHANGED <<pending, task, held>>
    BY <1>2 DEF queueVars
  <2>3. ASSUME NEW i \in 1..Len(rows), rows[i].status = "discovered", OnItsWay(i) PROVE OnItsWay(i)'
    <3>1. CASE p \in Enrichers /\ held[p] /\ task[p] = i
      BY <3>1, <2>1, <2>2, <2>3, <1>2 DEF OnItsWay
    <3>2. CASE ~(p \in Enrichers /\ held[p] /\ task[p] = i)
      BY <3>2, <2>1, <2>2, <2>3 DEF OnItsWay, Processes
    <3>. QED
      BY <3>1, <3>2
  <2>. QED
    BY <2>3, <1>2 DEF DiscoveredIsPending
<1>3. ASSUME NEW s \in Searchers, LookUpDiscovered(s) PROVE DiscoveredIsPending'
  <2>1. PICK u \in Found \ visited[s], place \in Places :
          ReadsByUrl(s, [url |-> u, status |-> "discovered", payload |-> place])
    BY <1>3 DEF LookUpDiscovered
  <2> DEFINE row == [url |-> u, status |-> "discovered", payload |-> place]
  <2>2. row \in Row
    BY RecordStoreAssumption DEF Row
  <2> HIDE DEF row
  <2>3. PICK r \in 0..Len(rows) : Reads(s, row, r)
    BY <2>1, <1>f DEF row, ReadsByUrl, Matches
  <2>. QED
    BY <1>2, <1>3, <2>2, <2>3, RecordStoreAssumption DEF LookUpDiscovered, Processes
<1>4. ASSUME NEW s \in Searchers, DropDiscovered(s) \/ EndSearch(s) PROVE DiscoveredIsPending'
  <2>1. /\ at[s] # "written" /\ UNCHANGED <<rows, pending, task, held, forgotten>>
        /\ \E place \in {"off", "ready"} : Forget(s, place)
    BY <1>4 DEF DropDiscovered, EndSearch, queueVars
  <2>. QED
    BY <2>1, <1>g, StaysPending, RecordStoreAssumption DEF OnItsWay, Processes
<1>5. ASSUME NEW s \in Searchers, WriteDiscovered(s) PROVE DiscoveredIsPending'
  BY <1>5, WritesKeepsPending DEF WriteDiscovered, Processes
<1>6. ASSUME NEW s \in Searchers, Announce(s) PROVE DiscoveredIsPending'
  <2>1. /\ at[s] = "written" /\ Forget(s, "ready") /\ hit[s] \in 1..Len(rows)
        /\ UNCHANGED <<rows, task, held>> /\ forgotten' = forgotten \ {hit[s]}
        /\ pending' = [pending EXCEPT ![hit[s]] = @ + 1]
    BY <1>6, <1>h DEF Announce
  <2>2. pending'[hit[s]] > 0 /\ \A i \in 1..Len(rows) : i # hit[s] => pending'[i] = pending[i]
    BY <2>1, <1>f
  <2>. QED
    BY <2>1, <2>2, <1>g, StaysPending, RecordStoreAssumption DEF OnItsWay, Processes
<1>7. ASSUME NEW s \in Searchers, AnnounceFails(s) \/ KillSearch(s) PROVE DiscoveredIsPending'
  <2>1. /\ UNCHANGED <<rows, pending, task, held>> /\ forgotten \subseteq forgotten'
        /\ at[s] = "written" => hit[s] \in forgotten'
        /\ \E place \in {"off", "ready"} : Forget(s, place)
    BY <1>7 DEF AnnounceFails, KillSearch, queueVars
  <2>. QED
    BY <2>1, <1>g, StaysPending, RecordStoreAssumption DEF OnItsWay, Processes
<1>8. ASSUME NEW e \in Enrichers, NEW r \in 1..Len(rows), TakeRequest(e, r)
      PROVE  DiscoveredIsPending'
  <2>1. /\ at'[e] = "ready" /\ at[e] = "off" /\ hit' = hit /\ old' = old
        /\ \A q \in Processes \ {e} : at'[q] = at[q]
        /\ held'[e] /\ task'[e] = r /\ UNCHANGED <<rows, forgotten>>
        /\ \A d \in Enrichers \ {e} : held'[d] = held[d] /\ task'[d] = task[d]
    BY <1>8, <1>f, TxFunctions DEF TakeRequest, GoTo, Processes
  <2>2. \A i \in 1..Len(rows) : i # r => pending'[i] = pending[i]
    BY <1>8, <1>f DEF TakeRequest
  <2>3. ASSUME NEW i \in 1..Len(rows), OnItsWay(i) PROVE OnItsWay(i)'
    <3>1. CASE i = r
      BY <3>1, <2>1 DEF OnItsWay
    <3>2. CASE i # r
      BY <3>2, <2>1, <2>2, <2>3, RecordStoreAssumption DEF OnItsWay, Processes
    <3>. QED
      BY <3>1, <3>2
  <2>. QED
    BY <2>1, <2>3, StaysPending
<1>9. ASSUME NEW e \in Enrichers, StartByHand(e) PROVE DiscoveredIsPending'
  <2>1. /\ at[e] = "off" /\ hit' = hit /\ old' = old /\ \A q \in Processes \ {e} : at'[q] = at[q]
        /\ UNCHANGED <<rows, pending, task, held, forgotten>>
    BY <1>9, TxFunctions DEF StartByHand, GoTo, Processes, queueVars
  <2>. QED
    BY <2>1, StaysPending, RecordStoreAssumption DEF OnItsWay, Processes
<1>10. ASSUME NEW e \in Enrichers, LookUpEnriched(e) PROVE DiscoveredIsPending'
  <2>1. PICK v \in Urls, m \in Metadata :
          LET row == [url |-> v, status |-> "enriched", payload |-> m]
          IN IF task[e] # 0 THEN Reads(e, row, task[e]) ELSE ReadsByUrl(e, row)
    BY <1>10 DEF LookUpEnriched
  <2> DEFINE row == [url |-> v, status |-> "enriched", payload |-> m]
  <2>2. row \in Row
    BY DEF Row
  <2> HIDE DEF row
  <2>3. IF task[e] # 0 THEN Reads(e, row, task[e]) ELSE ReadsByUrl(e, row)
    BY <2>1 DEF row
  <2>4. PICK r \in 0..Len(rows) : Reads(e, row, r) /\ (task[e] # 0 => r = task[e])
    BY <2>3, <1>f DEF ReadsByUrl, Matches
  <2>. QED
    BY <1>2, <1>10, <2>2, <2>4 DEF LookUpEnriched, Processes
<1>11. ASSUME NEW e \in Enrichers, WriteEnriched(e) PROVE DiscoveredIsPending'
  BY <1>11, WritesKeepsPending DEF WriteEnriched, Processes
<1>12. ASSUME NEW e \in Enrichers, Forget(e, "off"), UNCHANGED rows,
              held' = [held EXCEPT ![e] = FALSE], task' = [task EXCEPT ![e] = 0],
              forgotten \subseteq forgotten',
              \A i \in 1..Len(rows) : pending[i] > 0 => pending'[i] > 0,
              held[e] => \/ task[e] \in forgotten'
                         \/ pending'[task[e]] > 0
                         \/ at[e] \notin {"ready", "read"}
       PROVE  DiscoveredIsPending'
  <2>1. /\ \A d \in Enrichers \ {e} : held'[d] = held[d] /\ task'[d] = task[d]
        /\ \A q \in Processes \ {e} : at'[q] = at[q] /\ hit'[q] = hit[q] /\ old'[q] = old[q]
    BY <1>12, <1>f, <1>g DEF Processes
  <2>2. ASSUME NEW i \in 1..Len(rows), OnItsWay(i) PROVE OnItsWay(i)' \/ i \in forgotten'
    BY <2>1, <2>2, <1>12, RecordStoreAssumption DEF OnItsWay, Processes
  <2>. QED
    BY <2>2, <1>12, StaysPending
<1>13. ASSUME NEW e \in Enrichers, EnrichEnds(e) \/ EnrichGivesUp(e) PROVE DiscoveredIsPending'
  BY <1>13, <1>12 DEF EnrichEnds, EnrichGivesUp, EndEnrich
<1>14. ASSUME NEW e \in Enrichers, EnrichFails(e) PROVE DiscoveredIsPending'
  <2>1. /\ \A i \in 1..Len(rows) : pending[i] > 0 => pending'[i] > 0
        /\ held[e] => pending'[task[e]] > 0
    BY <1>14, <1>f, <1>h DEF EnrichFails
  <2>. QED
    BY <2>1, <1>14, <1>12 DEF EnrichFails
<1>15. ASSUME NEW e \in Enrichers, Redeliver(e) PROVE DiscoveredIsPending'
  <2>1. /\ \A i \in 1..Len(rows) : pending[i] > 0 => pending'[i] > 0
        /\ pending'[task[e]] > 0
    BY <1>15, <1>f, <1>h DEF Redeliver
  <2>2. \A d \in Enrichers \ {e} : held'[d] = held[d]
    BY <1>15, <1>f DEF Redeliver
  <2>. QED
    BY <2>1, <2>2, <1>15, StaysPending DEF Redeliver, OnItsWay, txVars
<1>16. CASE UNCHANGED vars
  BY <1>16, StaysPending DEF vars, txVars, queueVars, OnItsWay
<1>. QED
  BY <1>1, <1>3, <1>4, <1>5, <1>6, <1>7, <1>8, <1>9, <1>10, <1>11, <1>13, <1>14, <1>15, <1>16
     DEF Next, Search, Takes, Enrich

\* A record that reads "discovered" always has an enrich request on its way, or its
\* last one was lost or gave no item.
THEOREM DiscoveredPending == Spec => []DiscoveredIsPending
<1>1. Init => DiscoveredIsPending
  BY DEF Init, DiscoveredIsPending
<1>. QED
  BY <1>1, InitTypeInv, NextTypeInv, NextPending, PTL DEF Spec

------------------------------------------------------------------------------
\* A record gets a status and a payload of two different items only from a
\* transaction that had read an older version of it (the UPDATE sets what changed).
THEOREM MixNeedsStaleRead == Spec => OnlyStaleWritesMix
<1> DEFINE A == \A r \in 1..Len(rows) :
                 ~Mixed(rows[r]) /\ Mixed(rows'[r]) =>
                   \E p \in Processes : at[p] = "read" /\ hit[p] = r /\ old[p] # rows[r]
<1>1. ASSUME TypeInv, [Next]_vars PROVE A
  <2>1. CASE rows' = rows
    BY <2>1 DEF Mixed
  <2>2. ASSUME NEW p \in Processes, Writes(p) PROVE A
    <3>1. /\ at[p] = "read" /\ item[p] \in Row /\ ~Mixed(item[p]) /\ (hit[p] # 0 => old[p] \in Row)
          /\ rows \in Seq(Row) /\ Len(rows) \in Nat /\ hit[p] \in 0..Len(rows)
      BY <1>1, <2>2 DEF Writes, TypeInv, TypeOK, TxInv
    <3>2. CASE hit[p] = 0
      <4>1. rows' = Append(rows, item[p])
        BY <3>2, <2>2 DEF Writes
      <4>2. \A i \in 1..Len(rows) : rows'[i] = rows[i]
        BY <4>1, <3>1, AppendProperties
      <4>. QED
        BY <4>2 DEF Mixed
    <3>3. CASE hit[p] # 0
      <4>1. hit[p] \in 1..Len(rows) /\ rows[hit[p]] \in Row
        BY <3>1, <3>3
      <4>2. Updated(rows[hit[p]], old[p], item[p]) \in Row
            /\ (rows[hit[p]] = old[p] => Updated(rows[hit[p]], old[p], item[p]) = item[p])
        BY <4>1, <3>1, <3>3, UpdatedRow
      <4>3. \A i \in 1..Len(rows) :
              rows'[i] = IF i = hit[p] THEN Updated(rows[hit[p]], old[p], item[p]) ELSE rows[i]
        BY <4>1, <4>2, <3>1, <3>3, <2>2, ExceptSeq DEF Writes
      <4>. QED
        BY <4>2, <4>3, <3>1, <4>1 DEF Mixed
    <3>. QED
      BY <3>2, <3>3
  <2>. QED
    BY <1>1, <2>1, <2>2, StepKinds DEF Selects, Quiet
<1>. QED
  BY <1>1, InitTypeInv, NextTypeInv, PTL DEF Spec, OnlyStaleWritesMix
==============================================================================
