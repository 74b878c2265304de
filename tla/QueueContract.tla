--------------------------- MODULE QueueContract ----------------------------
(***************************************************************************)
(* The contract that the diagram in the docstring of aro_runtime/store.py  *)
(* states for one queue row: claim, success, retry below the attempt       *)
(* budget, dead letter at it.  It knows nothing of workers, of the runs    *)
(* table or of crashes.                                                    *)
(***************************************************************************)
EXTENDS Naturals, Sequences

CONSTANT MaxAttempts

VARIABLE rows            \* sequence of [status, attempts]

Init == rows = << >>

Enqueue == rows' = Append(rows, [status |-> "pending", attempts |-> 0])

Step(i, from, to, attempts) ==
  /\ rows[i].status = from
  /\ rows' = [rows EXCEPT ![i] = [status |-> to, attempts |-> attempts]]

Claim(i) == Step(i, "pending", "running", rows[i].attempts)

Succeed(i) == Step(i, "running", "done", rows[i].attempts)

Fail(i) ==
  LET attempts == rows[i].attempts + 1
  IN  Step(i, "running", IF attempts >= MaxAttempts THEN "dead" ELSE "pending", attempts)

Next == Enqueue \/ \E i \in 1..Len(rows) : Claim(i) \/ Succeed(i) \/ Fail(i)

Spec == Init /\ [][Next]_rows
=============================================================================
