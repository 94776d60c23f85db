----------------------------- MODULE MCSearchFlow -----------------------------
(* One query, created by one request and retried by another, while its         *)
(* searches run.                                                               *)
EXTENDS SearchFlow, TLC

CONSTANTS q1, h1, h2

Body(kind) == [kind |-> kind, batch |-> <<q1>>, ids |-> {}, format |-> FALSE, of |-> 0]

MCSends == [h \in {h1, h2} |-> Body(IF h = h1 THEN "create" ELSE "retry_search")]

SymmetricWorkers == Permutations(Workers)
==============================================================================
