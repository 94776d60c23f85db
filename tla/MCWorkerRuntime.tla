--------------------------- MODULE MCWorkerRuntime ---------------------------
(* Two workers and three requests, with faults: small enough to enumerate,    *)
(* large enough for a redelivery that races the first run of a request.  The  *)
(* second request is poisoned: one healthy request is older, one is younger.  *)
EXTENDS WorkerRuntime
==============================================================================
