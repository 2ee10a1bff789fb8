-------------------------- MODULE RequestLifecycle --------------------------
(***************************************************************************)
(* What the agent promises about the change requests of the user: the     *)
(* queue is drained as a whole, what was drained goes into one phase or is *)
(* dropped as a whole, and the requests of one phase are implemented       *)
(* before those of another phase are planned.  Nothing is served twice and *)
(* nothing vanishes from the queue itself.                                 *)
(***************************************************************************)
CONSTANT Requests

VARIABLE status   \* where each request is

Statuses == {"unasked", "queued", "taken", "planned", "done", "dropped"}

With(s) == {r \in Requests : status[r] = s}

(* Every request of status s moves on to status t.                         *)
Move(s, t) == status' = [r \in Requests |-> IF status[r] = s THEN t ELSE status[r]]

Init == status = [r \in Requests |-> "unasked"]

Ask(r) == status[r] = "unasked" /\ status' = [status EXCEPT ![r] = "queued"]

Take == With("taken") = {} /\ With("planned") = {} /\ Move("queued", "taken")

Plan == With("planned") = {} /\ Move("taken", "planned")

Implement == Move("planned", "done")

Drop == Move("taken", "dropped")

Next == Take \/ Plan \/ Implement \/ Drop \/ \E r \in Requests : Ask(r)

Spec == Init /\ [][Next]_status
=============================================================================
