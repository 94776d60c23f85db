---------------------------- MODULE MCQueryService ----------------------------
(* Two queries and three requests drawn from the bodies that tell the          *)
(* handlers' paths apart: batches that overlap, that repeat an id, exports and *)
(* retries of every stage, with and without explicit ids.                      *)
EXTENDS QueryService

CONSTANTS q1, q2

Body(kind, batch, ids, format, of) ==
  [kind |-> kind, batch |-> batch, ids |-> ids, format |-> format, of |-> of]

MCInputs == {
  Body("create", <<q1>>, {}, FALSE, 0),
  Body("create", <<q2, q1>>, {}, FALSE, 0),
  Body("create", <<q1, q1>>, {}, FALSE, 0),
  Body("export", <<q1>>, {}, TRUE, 0),
  Body("retry_search", <<q1>>, {}, FALSE, 0),
  Body("retry_enrich", <<q1>>, {}, FALSE, 0),
  Body("retry_enrich", <<q1>>, {2}, FALSE, 0),
  Body("retry_export", <<q1>>, {}, FALSE, 0),
  Body("retry_export", <<q1>>, {}, FALSE, 1)}

\* Two records can be enriched, the third has no category.
MCMaxRecords == [q \in Queries |-> IF q = q1 THEN 3 ELSE 0]

\* The handlers are interchangeable: it is enough that the i-th request to arrive is
\* served by the i-th of them.
InOrder == \A h \in Handlers : (h > 1 /\ pc[h] # "idle") => pc[h - 1] # "idle"

OrderedSpec ==
  /\ Init /\ [][Next /\ InOrder']_vars
  /\ \A h \in Handlers : WF_vars(Continue(h))
==============================================================================
