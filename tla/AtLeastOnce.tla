----------------------------- MODULE AtLeastOnce -----------------------------
(***************************************************************************)
(* What a stage queue (face.search.request, face.enrich.request) promises  *)
(* the service that publishes to it: a message leaves the queue only after *)
(* a spider process has handled it to the end at least once, and until     *)
(* then it stays pending, whatever happens to the workers.  The promise    *)
(* says nothing of how often a message is handled.                         *)
(***************************************************************************)
CONSTANT Messages      \* the messages the queue can carry

VARIABLES status,      \* status[m]: "unsent", "pending" or "done"
          handled      \* the messages a spider process handled to the end

vars == <<status, handled>>

TypeOK == /\ status \in [Messages -> {"unsent", "pending", "done"}]
          /\ handled \in SUBSET Messages

Init == /\ status = [m \in Messages |-> "unsent"]
        /\ handled = {}

Publish(m) == /\ status[m] = "unsent"
              /\ status' = [status EXCEPT ![m] = "pending"]
              /\ UNCHANGED handled

\* A message may be handled again: the delivery is at least once.
Handle(m) == /\ status[m] = "pending"
             /\ handled' = handled \cup {m}
             /\ UNCHANGED status

Settle(m) == /\ status[m] = "pending"
             /\ m \in handled
             /\ status' = [status EXCEPT ![m] = "done"]
             /\ UNCHANGED handled

Next == \E m \in Messages : Publish(m) \/ Handle(m) \/ Settle(m)

Spec == Init /\ [][Next]_vars
==============================================================================
