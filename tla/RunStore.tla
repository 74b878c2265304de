------------------------------ MODULE RunStore ------------------------------
(***************************************************************************)
(* The three-table store behind the observatory (aro_runtime/store.py and  *)
(* aro_runtime/pg_store.py), as far as the runs and queue tables go; the   *)
(* attestations table is in ReviewDebt.  Every operator below is one store *)
(* call, which is one transaction.                                         *)
(*                                                                         *)
(* A stored run keeps its status and gen, the number of the execution that *)
(* produced the record (0 for the placeholder).  available_at is kept as   *)
(* the time still to wait: only its comparison with the clock is used.     *)
(***************************************************************************)
EXTENDS Naturals, Sequences

CONSTANTS RunIds,        \* run ids that uuid4 may hand out
          MaxAttempts,   \* ARO_MAX_ATTEMPTS
          Delay          \* backoff, in clock ticks, after the a-th failure

ASSUME MaxAttemptsAssumption == MaxAttempts \in Nat \ {0}
ASSUME DelayAssumption == Delay \in [1..MaxAttempts -> Nat]

VARIABLES runs,          \* the runs table
          queue          \* the queue table; a row's id is its position

storeVars == <<runs, queue>>

RunStatus == {"none", "pending", "completed", "failed"}
QueueStatus == {"pending", "running", "done", "dead"}

StoredRun == [status : RunStatus, gen : Nat]
Row == [run : RunIds, status : QueueStatus, attempts : Nat, wait : Nat]

NoRun == [status |-> "none", gen |-> 0]
Placeholder == [status |-> "pending", gen |-> 0]

StoreInit == /\ runs = [r \in RunIds |-> NoRun]
             /\ queue = << >>

\* INSERT OR REPLACE: the row of run r is overwritten, whatever it held.
save_run(r, record) == runs' = [runs EXCEPT ![r] = record]

save_placeholder(r) == save_run(r, Placeholder)

enqueue(r) ==
  queue' = Append(queue, [run |-> r, status |-> "pending", attempts |-> 0, wait |-> 0])

\* Mutants: the status test is lost; so is the disjunct for rows that were retried.
Claimable_AnyStatus(i) == queue[i].wait = 0
Claimable_NeverTried(i) == queue[i].status = "pending" /\ queue[i].attempts = 0

Claimable(i) == queue[i].status = "pending" /\ queue[i].wait = 0

\* ORDER BY id LIMIT 1 [FOR UPDATE SKIP LOCKED], locked being the rows to skip.
IsNextClaim(i, locked) == /\ Claimable(i) /\ i \notin locked
                          /\ \A j \in 1..(i - 1) : Claimable(j) => j \in locked

UpdateRow(i, status, attempts, wait) ==
  queue' = [queue EXCEPT ![i] = [run |-> queue[i].run, status |-> status,
                                 attempts |-> attempts, wait |-> wait]]

\* UPDATE ... SET status WHERE id: no test of the row's present status.
mark(i, status) == UpdateRow(i, status, queue[i].attempts, queue[i].wait)

\* Mutant: the last failure is not counted on the row.
mark_dead_Uncounted(i, attempts) == UpdateRow(i, "dead", queue[i].attempts, queue[i].wait)

retry(i, attempts) == UpdateRow(i, "pending", attempts, Delay[attempts])

mark_dead(i, attempts) == UpdateRow(i, "dead", attempts, queue[i].wait)

\* One clock tick brings every available_at one unit closer.
TickRows ==
  queue' = [i \in 1..Len(queue) |->
              [run |-> queue[i].run, status |-> queue[i].status,
               attempts |-> queue[i].attempts,
               wait |-> IF queue[i].wait > 0 THEN queue[i].wait - 1 ELSE 0]]
=============================================================================
