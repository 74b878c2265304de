-------------------------- MODULE RunServiceProofs --------------------------
(* Proofs about RunService, for any runs, clients, workers and attempts.   *)
EXTENDS RunService, TLAPS

\* What an UPDATE of one queue row leaves and changes.
LEMMA UpdateRowFacts ==
  ASSUME queue \in Seq(Row), NEW i \in RowIds, NEW s \in QueueStatus,
         NEW a \in Nat, NEW n \in Nat, UpdateRow(i, s, a, n)
  PROVE  /\ queue' \in Seq(Row)
         /\ Len(queue') = Len(queue)
         /\ queue'[i] = [run |-> queue[i].run, status |-> s, attempts |-> a, wait |-> n]
         /\ \A j \in RowIds : j # i => queue'[j] = queue[j]
<1> DEFINE new == [run |-> queue[i].run, status |-> s, attempts |-> a, wait |-> n]
<1>1. queue[i] \in Row
  BY DEF RowIds
<1>2. new \in Row
  BY <1>1 DEF Row
<1>3. queue' = [queue EXCEPT ![i] = new]
  BY DEF UpdateRow
<1> HIDE DEF new
<1>4. QED
  <2>1. queue' \in Seq(Row)
    BY <1>2, <1>3 DEF RowIds
  <2>2. Len(queue') = Len(queue)
    BY <1>3 DEF RowIds
  <2>3. queue'[i] = new /\ \A j \in RowIds : j # i => queue'[j] = queue[j]
    BY <1>3 DEF RowIds
  <2> QED BY <2>1, <2>2, <2>3 DEF new

\* What an INSERT into the queue leaves and changes.
LEMMA EnqueueFacts ==
  ASSUME queue \in Seq(Row), NEW r \in RunIds, enqueue(r)
  PROVE  /\ queue' \in Seq(Row)
         /\ Len(queue') = Len(queue) + 1
         /\ queue'[Len(queue) + 1]
              = [run |-> r, status |-> "pending", attempts |-> 0, wait |-> 0]
         /\ \A j \in RowIds : queue'[j] = queue[j]
<1> DEFINE new == [run |-> r, status |-> "pending", attempts |-> 0, wait |-> 0]
<1>1. new \in Row
  BY DEF Row, QueueStatus
<1>2. queue' = Append(queue, new)
  BY DEF enqueue
<1> HIDE DEF new
<1>3. QED
  <2>1. queue' \in Seq(Row) /\ Len(queue') = Len(queue) + 1
    BY <1>1, <1>2
  <2>2. queue'[Len(queue) + 1] = new /\ \A j \in RowIds : queue'[j] = queue[j]
    BY <1>1, <1>2 DEF RowIds
  <2> QED BY <2>1, <2>2 DEF new

\* A clock tick changes no row but for its waiting time.
LEMMA TickFacts ==
  ASSUME queue \in Seq(Row), TickRows
  PROVE  /\ queue' \in Seq(Row)
         /\ Len(queue') = Len(queue)
         /\ \A j \in RowIds : /\ queue'[j].run = queue[j].run
                              /\ queue'[j].status = queue[j].status
                              /\ queue'[j].attempts = queue[j].attempts
<1> DEFINE ticked(j) == [run |-> queue[j].run, status |-> queue[j].status,
                         attempts |-> queue[j].attempts,
                         wait |-> IF queue[j].wait > 0 THEN queue[j].wait - 1 ELSE 0]
<1>1. \A j \in RowIds : ticked(j) \in Row
  <2> SUFFICES ASSUME NEW j \in RowIds PROVE ticked(j) \in Row
    OBVIOUS
  <2>1. queue[j] \in Row
    BY DEF RowIds
  <2>2. QED BY <2>1 DEF Row
<1>2. queue' = [j \in 1..Len(queue) |-> ticked(j)]
  BY DEF TickRows
<1>3. \A j \in RowIds : queue'[j] = ticked(j)
  BY <1>2 DEF RowIds
<1>4. \A j \in RowIds : /\ ticked(j).run = queue[j].run
                        /\ ticked(j).status = queue[j].status
                        /\ ticked(j).attempts = queue[j].attempts
  OBVIOUS
<1> HIDE DEF ticked
<1>5. queue' \in Seq(Row) /\ Len(queue') = Len(queue)
  BY <1>1, <1>2 DEF RowIds
<1>6. QED BY <1>3, <1>4, <1>5

-----------------------------------------------------------------------------
\* The rows and the result that a worker's state refers to, spelled out.
LEMMA WorkerFacts ==
  ASSUME IInv, NEW w \in Workers
  PROVE  /\ wk[w].row \in Nat /\ wk[w].attempts \in Nat /\ wk[w].pc \in WorkerPc
         /\ wk[w].result \in StoredRun
         /\ wk[w].pc \in Engaged =>
              /\ wk[w].row \in RowIds
              /\ queue[wk[w].row] \in Row
              /\ RunOf(w) \in RunIds
              /\ trace[RunOf(w)] \in Nat
              /\ runs[RunOf(w)] \in StoredRun
              /\ queue[wk[w].row].wait \in Nat
              /\ queue[wk[w].row].attempts \in Nat
<1>1. wk[w] \in WorkerState
  BY DEF IInv, TypeOK
<1>2. ASSUME wk[w].pc \in Engaged
      PROVE  wk[w].row \in RowIds /\ queue[wk[w].row] \in Row
  BY <1>2 DEF IInv, TypeOK, ClaimCurrent, RowIds
<1>3. QED
  BY <1>1, <1>2 DEF WorkerState, Row, RunOf, IInv, TypeOK

THEOREM InitIInv == Init => IInv
<1> SUFFICES ASSUME Init PROVE IInv
  OBVIOUS
<1> USE DEF Init, StoreInit, AtRest, RowIds
<1>1. TypeOK
  BY MaxCrashesAssumption
  DEF TypeOK, NoRun, StoredRun, RunStatus, ApiPc, WorkerState, WorkerPc
<1>2. ExclusiveClaim /\ ClaimCurrent
  BY DEF ExclusiveClaim, ClaimCurrent, Engaged, Holding, Settling
<1>3. AttemptBudget /\ DoneIsRecorded /\ OneOwner
  BY DEF AttemptBudget, DoneIsRecorded, OneOwner
<1>4. ResultCurrent
  BY DEF ResultCurrent
<1>5. QED BY <1>1, <1>2, <1>3, <1>4 DEF IInv

-----------------------------------------------------------------------------
(* Steps that write nothing but the worker's own state.                    *)

LEMMA claim_select_IInv ==
  ASSUME IInv, NEW w \in Workers, claim_select(w)
  PROVE  IInv'
<1>1. PICK i \in 1..Len(queue) :
         /\ IsNextClaim(i, LockedRows)
         /\ wk' = [wk EXCEPT ![w] = [pc |-> "selected", row |-> i,
                                     attempts |-> queue[i].attempts, result |-> NoRun]]
  BY DEF claim_select
<1>2. /\ runs' = runs /\ queue' = queue /\ trace' = trace /\ api' = api
      /\ crashes' = crashes
  BY DEF claim_select
<1>3. /\ queue[i] \in Row /\ queue[i].status = "pending" /\ i \notin LockedRows
      /\ i \in RowIds
  BY <1>1 DEF IsNextClaim, Claimable, IInv, TypeOK, RowIds
<1>4. \A v \in Workers : v # w => wk'[v] = wk[v]
  BY <1>1 DEF IInv, TypeOK
<1>5. wk'[w] = [pc |-> "selected", row |-> i,
                attempts |-> queue[i].attempts, result |-> NoRun]
  BY <1>1 DEF IInv, TypeOK
<1>6. TypeOK'
  <2>1. wk'[w] \in WorkerState
    BY <1>3, <1>5 DEF WorkerState, WorkerPc, Row, NoRun, StoredRun, RunStatus, RowIds
  <2>2. QED BY <1>1, <1>2, <2>1 DEF IInv, TypeOK
<1>7. ExclusiveClaim'
  <2>1. \A v \in Workers : v # w /\ wk[v].pc \in Engaged => wk[v].row # i
    <3> SUFFICES ASSUME NEW v \in Workers, v # w, wk[v].pc \in Engaged, wk[v].row = i
                 PROVE FALSE
      OBVIOUS
    <3>1. wk[v].pc = "selected"
      BY <1>3 DEF IInv, ClaimCurrent, Engaged
    <3>2. QED
      BY <1>3, <3>1, ClaimAssumption DEF LockedRows
  <2>2. QED
    BY <1>4, <1>5, <2>1 DEF IInv, ExclusiveClaim
<1>8. ClaimCurrent'
  BY <1>2, <1>3, <1>4, <1>5 DEF IInv, ClaimCurrent, RowIds, Engaged, Holding, Settling
<1>9. AttemptBudget' /\ DoneIsRecorded' /\ OneOwner'
  BY <1>2 DEF IInv, AttemptBudget, DoneIsRecorded, OneOwner, RowIds
<1>10. ResultCurrent'
  BY <1>2, <1>4, <1>5 DEF IInv, ResultCurrent, RunOf
<1>11. QED
  BY <1>6, <1>7, <1>8, <1>9, <1>10 DEF IInv

\* A worker's step that writes nothing else and keeps its row, if it has one.
LEMMA WorkerMoves ==
  ASSUME IInv, NEW w \in Workers, NEW new \in WorkerState,
         wk' = [wk EXCEPT ![w] = new],
         UNCHANGED <<runs, queue, trace, api>>, crashes' \in 0..MaxCrashes,
         new.pc \notin {"selected", "claimed"},
         new.pc \in Engaged =>
           /\ new.row = wk[w].row /\ new.attempts = wk[w].attempts
           /\ \/ wk[w].pc \in Holding /\ new.pc \in Holding
              \/ wk[w].pc \in Settling /\ new.pc \in Settling
           /\ new.pc \in {"executing", "ran", "saved"} =>
                new.result.gen = trace[RunOf(w)] /\ trace[RunOf(w)] > 0
           /\ new.pc \in {"ran", "saved"} => new.result.status \in {"completed", "failed"}
           /\ new.pc = "saved" => runs[RunOf(w)] = new.result
  PROVE  IInv'
<1>1. wk'[w] = new /\ \A v \in Workers : v # w => wk'[v] = wk[v]
  BY DEF IInv, TypeOK
<1>2. TypeOK'
  BY DEF IInv, TypeOK
<1>3. ExclusiveClaim'
  BY <1>1 DEF IInv, ExclusiveClaim, Engaged
<1>4. ClaimCurrent'
  BY <1>1 DEF IInv, ClaimCurrent, RowIds, Engaged, Holding, Settling
<1>5. AttemptBudget' /\ DoneIsRecorded' /\ OneOwner'
  BY DEF IInv, AttemptBudget, DoneIsRecorded, OneOwner, RowIds
<1>6. ResultCurrent'
  BY <1>1 DEF IInv, ResultCurrent, RunOf, Engaged, Holding, Settling
<1>7. QED
  BY <1>2, <1>3, <1>4, <1>5, <1>6 DEF IInv

LEMMA RestIsState ==
  ASSUME NEW pc \in {"poll", "down"} PROVE AtRest(pc) \in WorkerState /\ AtRest(pc).pc = pc
BY DEF AtRest, WorkerState, WorkerPc, NoRun, StoredRun, RunStatus

LEMMA run_return_IInv ==
  ASSUME IInv, NEW w \in Workers, run_return(w) PROVE IInv'
<1>1. PICK s \in {"completed", "failed"} :
        WorkerGot(w, "ran", [status |-> s, gen |-> wk[w].result.gen])
  BY DEF run_return
<1> DEFINE new == [pc |-> "ran", row |-> wk[w].row, attempts |-> wk[w].attempts,
                   result |-> [status |-> s, gen |-> wk[w].result.gen]]
<1>2. new \in WorkerState
  BY WorkerFacts DEF WorkerState, WorkerPc, StoredRun, RunStatus
<1>3. wk' = [wk EXCEPT ![w] = new]
  BY <1>1 DEF WorkerGot
<1>4. wk[w].pc = "executing" /\ UNCHANGED <<runs, queue, trace, api, crashes>>
  BY DEF run_return
<1>5. new.result.gen = trace[RunOf(w)] /\ trace[RunOf(w)] > 0
  BY <1>4 DEF IInv, ResultCurrent
<1>6. QED
  BY <1>2, <1>3, <1>4, <1>5, WorkerMoves DEF IInv, TypeOK, Engaged, Holding, Settling

LEMMA Raise_IInv ==
  ASSUME IInv, NEW w \in Workers, Raise(w) PROVE IInv'
<1> DEFINE new == [pc |-> "failing", row |-> wk[w].row, attempts |-> wk[w].attempts,
                   result |-> wk[w].result]
<1>1. new \in WorkerState
  BY WorkerFacts DEF WorkerState, WorkerPc
<1>2. wk' = [wk EXCEPT ![w] = new] /\ wk[w].pc \in Holding
  BY DEF Raise, WorkerGo, Holding
<1>3. QED
  BY <1>1, <1>2, WorkerMoves DEF Raise, IInv, TypeOK, Engaged, Holding, Settling

LEMMA fail_placeholder_read_IInv ==
  ASSUME IInv, NEW w \in Workers, fail_placeholder_read(w) PROVE IInv'
<1>1. wk[w].pc = "dead" /\ UNCHANGED <<runs, queue, trace, api, crashes>>
  BY DEF fail_placeholder_read
<1>2. CASE WorkerRests(w, "poll")
  BY <1>1, <1>2, RestIsState, WorkerMoves DEF WorkerRests, IInv, TypeOK, Engaged, Holding, Settling
<1>3. CASE WorkerGot(w, "rewrite", runs[RunOf(w)])
  <2> DEFINE new == [pc |-> "rewrite", row |-> wk[w].row, attempts |-> wk[w].attempts,
                     result |-> runs[RunOf(w)]]
  <2>1. new \in WorkerState
    BY <1>1, WorkerFacts DEF WorkerState, WorkerPc, Engaged, Settling
  <2>2. wk' = [wk EXCEPT ![w] = new]
    BY <1>3 DEF WorkerGot
  <2>3. QED
    BY <1>1, <2>1, <2>2, WorkerMoves DEF IInv, TypeOK, Engaged, Holding, Settling
<1>4. QED
  BY <1>2, <1>3 DEF fail_placeholder_read

LEMMA WorkerCrash_IInv ==
  ASSUME IInv, NEW w \in Workers, WorkerCrash(w) PROVE IInv'
<1>1. crashes' \in 0..MaxCrashes
  BY MaxCrashesAssumption DEF WorkerCrash, IInv, TypeOK
<1>2. QED
  BY <1>1, RestIsState, WorkerMoves
  DEF WorkerCrash, WorkerRests, Engaged, Holding, Settling

LEMMA WorkerRestart_IInv ==
  ASSUME IInv, NEW w \in Workers, WorkerRestart(w) PROVE IInv'
BY RestIsState, WorkerMoves
DEF WorkerRestart, WorkerRests, IInv, TypeOK, Engaged, Holding, Settling

-----------------------------------------------------------------------------
(* Steps that update the worker's own queue row.                           *)

LEMMA RowMoves ==
  ASSUME IInv, NEW w \in Workers, wk[w].pc \in Engaged,
         NEW new \in WorkerState, wk' = [wk EXCEPT ![w] = new],
         NEW s \in QueueStatus, NEW a \in Nat, NEW n \in Nat,
         UpdateRow(wk[w].row, s, a, n),
         UNCHANGED <<runs, trace, api, crashes>>,
         \* the budget, for the row as it is now
         IF s = "dead" THEN a = MaxAttempts ELSE a < MaxAttempts,
         trace[RunOf(w)] <= IF s \in {"running", "done"} THEN a + 1 ELSE a,
         \* a row becomes done only with its run recorded
         s = "done" => /\ runs[RunOf(w)].status \in {"completed", "failed"}
                       /\ runs[RunOf(w)].gen = trace[RunOf(w)] /\ trace[RunOf(w)] > 0,
         \* and what the worker remembers agrees with it
         new.pc \in Engaged =>
           /\ new.row = wk[w].row
           /\ \/ new.pc = "claimed" /\ s = "running" /\ new.attempts = a
                 /\ trace[RunOf(w)] <= a
              \/ new.pc = "dead" /\ s = "dead"
  PROVE  IInv'
<1> DEFINE i == wk[w].row
<1>1. wk'[w] = new /\ \A v \in Workers : v # w => wk'[v] = wk[v]
  BY DEF IInv, TypeOK
<1>2. i \in RowIds /\ queue \in Seq(Row) /\ RunOf(w) = queue[i].run
  BY WorkerFacts DEF IInv, TypeOK, RunOf
<1>3. /\ queue' \in Seq(Row) /\ RowIds' = RowIds
      /\ queue'[i].run = queue[i].run /\ queue'[i].status = s /\ queue'[i].attempts = a
      /\ \A j \in RowIds : j # i => queue'[j] = queue[j]
  <2>1. UpdateRow(i, s, a, n)
    OBVIOUS
  <2> HIDE DEF i
  <2>2. /\ queue' \in Seq(Row) /\ Len(queue') = Len(queue)
        /\ queue'[i] = [run |-> queue[i].run, status |-> s, attempts |-> a, wait |-> n]
        /\ \A j \in RowIds : j # i => queue'[j] = queue[j]
    BY <1>2, <2>1, UpdateRowFacts
  <2>3. QED BY <2>2 DEF RowIds
<1>4. \A j \in RowIds : queue'[j].run = queue[j].run
  BY <1>3
<1>5. \A v \in Workers : v # w /\ wk[v].pc \in Engaged =>
        wk[v].row \in RowIds /\ wk[v].row # i
  BY WorkerFacts DEF IInv, ExclusiveClaim
<1> HIDE DEF i
<1>6. TypeOK'
  BY <1>3 DEF IInv, TypeOK
<1>7. ExclusiveClaim'
  BY <1>1 DEF IInv, ExclusiveClaim
<1>8. ClaimCurrent'
  <2> SUFFICES ASSUME NEW v \in Workers, (wk[v].pc \in Engaged)'
               PROVE ( /\ wk[v].row \in RowIds
                       /\ wk[v].pc = "selected" => queue[wk[v].row].status = "pending"
                       /\ wk[v].pc \in Holding => queue[wk[v].row].status = "running"
                       /\ wk[v].pc \in Settling => queue[wk[v].row].status = "dead"
                       /\ wk[v].pc \notin Settling => queue[wk[v].row].attempts = wk[v].attempts )'
    BY DEF ClaimCurrent
  <2>1. CASE v = w
    BY <1>1, <1>2, <1>3, <2>1 DEF Engaged, Holding, Settling, i
  <2>2. CASE v # w
    BY <1>1, <1>3, <1>5, <2>2 DEF IInv, ClaimCurrent, Engaged, Holding, Settling
  <2>3. QED BY <2>1, <2>2
<1>9. AttemptBudget'
  BY <1>2, <1>3 DEF IInv, AttemptBudget
<1>10. DoneIsRecorded'
  BY <1>2, <1>3 DEF IInv, DoneIsRecorded
<1>11. OneOwner'
  BY <1>3, <1>4 DEF IInv, OneOwner
<1>12. ResultCurrent'
  <2>1. \A v \in Workers : wk[v].pc \in Engaged => RunOf(v)' = RunOf(v) \/ v = w
    BY <1>1, <1>4, <1>5 DEF RunOf
  <2>2. RunOf(w)' = RunOf(w) \/ new.pc \notin Engaged
    BY <1>1, <1>2, <1>4 DEF RunOf, i
  <2>3. QED
    BY <1>1, <2>1, <2>2 DEF IInv, ResultCurrent, Engaged, Holding, Settling
<1>13. QED
  BY <1>6, <1>7, <1>8, <1>9, <1>10, <1>11, <1>12 DEF IInv

LEMMA claim_update_IInv ==
  ASSUME IInv, NEW w \in Workers, claim_update(w) PROVE IInv'
<1> DEFINE new == [pc |-> "claimed", row |-> wk[w].row, attempts |-> wk[w].attempts,
                   result |-> wk[w].result]
<1>1. new \in WorkerState
  BY WorkerFacts DEF WorkerState, WorkerPc
<1>2. wk' = [wk EXCEPT ![w] = new] /\ wk[w].pc = "selected" /\ wk[w].pc \in Engaged
  BY DEF claim_update, WorkerGo, Engaged
<1>3. /\ UNCHANGED <<runs, trace, api, crashes>>
      /\ UpdateRow(wk[w].row, "running", queue[wk[w].row].attempts, queue[wk[w].row].wait)
  BY DEF claim_update, mark
<1>4. /\ queue[wk[w].row].attempts = wk[w].attempts
      /\ queue[wk[w].row].status = "pending" /\ wk[w].row \in RowIds
  BY <1>2 DEF IInv, ClaimCurrent, Engaged, Settling
<1>5. trace[RunOf(w)] <= wk[w].attempts /\ wk[w].attempts < MaxAttempts
  BY <1>4 DEF IInv, AttemptBudget, RunOf
<1>6. trace[RunOf(w)] <= wk[w].attempts + 1
  BY <1>2, <1>5, WorkerFacts
<1>7. "running" \in QueueStatus
  BY DEF QueueStatus
<1>8. QED
  BY <1>1, <1>2, <1>3, <1>4, <1>5, <1>6, <1>7, WorkerFacts, RowMoves

LEMMA mark_done_IInv ==
  ASSUME IInv, NEW w \in Workers, mark_done(w) PROVE IInv'
<1>1. /\ wk[w].pc = "saved" /\ wk[w].pc \in Engaged
      /\ wk' = [wk EXCEPT ![w] = AtRest("poll")]
      /\ UNCHANGED <<runs, trace, api, crashes>>
      /\ UpdateRow(wk[w].row, "done", queue[wk[w].row].attempts, queue[wk[w].row].wait)
  BY DEF mark_done, WorkerRests, mark, Engaged, Holding
<1>2. queue[wk[w].row].status = "running" /\ wk[w].row \in RowIds
  BY <1>1 DEF IInv, ClaimCurrent, Engaged, Holding
<1>3. /\ queue[wk[w].row].attempts < MaxAttempts
      /\ trace[RunOf(w)] <= queue[wk[w].row].attempts + 1
  BY <1>2 DEF IInv, AttemptBudget, RunOf
<1>4. /\ runs[RunOf(w)].status \in {"completed", "failed"}
      /\ runs[RunOf(w)].gen = trace[RunOf(w)] /\ trace[RunOf(w)] > 0
  BY <1>1 DEF IInv, ResultCurrent
<1>5. "done" \in QueueStatus /\ "poll" \notin Engaged
  BY DEF QueueStatus, Engaged, Holding, Settling
<1>6. QED
  BY <1>1, <1>3, <1>4, <1>5, WorkerFacts, RestIsState, RowMoves

LEMMA handle_retry_IInv ==
  ASSUME IInv, NEW w \in Workers, handle_retry(w) PROVE IInv'
<1> DEFINE a == wk[w].attempts + 1
<1>1. /\ wk[w].pc = "failing" /\ wk[w].pc \in Engaged /\ a < MaxAttempts
      /\ wk' = [wk EXCEPT ![w] = AtRest("poll")]
      /\ UNCHANGED <<runs, trace, api, crashes>>
      /\ UpdateRow(wk[w].row, "pending", a, Delay[a])
  BY DEF handle_retry, WorkerRests, retry, Engaged, Holding
<1>2. a \in Nat /\ Delay[a] \in Nat
  BY <1>1, WorkerFacts, MaxAttemptsAssumption, DelayAssumption
<1>3. /\ queue[wk[w].row].status = "running" /\ wk[w].row \in RowIds
      /\ queue[wk[w].row].attempts = wk[w].attempts
  BY <1>1 DEF IInv, ClaimCurrent, Engaged, Holding, Settling
<1>4. trace[RunOf(w)] <= a
  BY <1>3 DEF IInv, AttemptBudget, RunOf
<1>5. "pending" \in QueueStatus /\ "poll" \notin Engaged
  BY DEF QueueStatus, Engaged, Holding, Settling
<1> HIDE DEF a
<1>6. QED
  BY <1>1, <1>2, <1>4, <1>5, RestIsState, RowMoves

LEMMA handle_dead_IInv ==
  ASSUME IInv, NEW w \in Workers, handle_dead(w) PROVE IInv'
<1> DEFINE a == wk[w].attempts + 1
           new == [pc |-> "dead", row |-> wk[w].row, attempts |-> wk[w].attempts,
                   result |-> wk[w].result]
<1>1. /\ wk[w].pc = "failing" /\ wk[w].pc \in Engaged /\ a >= MaxAttempts
      /\ wk' = [wk EXCEPT ![w] = new]
      /\ UNCHANGED <<runs, trace, api, crashes>>
      /\ UpdateRow(wk[w].row, "dead", a, queue[wk[w].row].wait)
  BY DEF handle_dead, WorkerGo, mark_dead, Engaged, Holding
<1>2. new \in WorkerState
  BY WorkerFacts DEF WorkerState, WorkerPc
<1>3. /\ queue[wk[w].row].status = "running" /\ wk[w].row \in RowIds
      /\ queue[wk[w].row].attempts = wk[w].attempts
  BY <1>1 DEF IInv, ClaimCurrent, Engaged, Holding, Settling
<1>4. trace[RunOf(w)] <= a /\ wk[w].attempts < MaxAttempts
  BY <1>3 DEF IInv, AttemptBudget, RunOf
<1>5. a = MaxAttempts /\ a \in Nat
  BY <1>1, <1>4, WorkerFacts, MaxAttemptsAssumption
<1>6. "dead" \in QueueStatus
  BY DEF QueueStatus
<1> HIDE DEF a
<1>7. QED
  BY <1>1, <1>2, <1>4, <1>5, <1>6, WorkerFacts, RowMoves

-----------------------------------------------------------------------------
(* Steps that write a run's record or its trace file.                      *)

LEMMA RowFacts ==
  ASSUME IInv PROVE \A i \in RowIds : queue[i].run \in RunIds /\ queue[i].attempts \in Nat
<1> SUFFICES ASSUME NEW i \in RowIds PROVE queue[i].run \in RunIds /\ queue[i].attempts \in Nat
  OBVIOUS
<1>1. queue[i] \in Row
  BY DEF IInv, TypeOK, RowIds
<1>2. QED BY <1>1 DEF Row

\* The run of a row that is not done is not the run of any done row, and no
\* other worker and no request owns it.
LEMMA SoleOwner ==
  ASSUME IInv, NEW w \in Workers, wk[w].pc \in Engaged
  PROVE  /\ \A i \in RowIds : queue[i].run = RunOf(w) => i = wk[w].row
         /\ \A v \in Workers : v # w /\ wk[v].pc \in Engaged => RunOf(v) # RunOf(w)
         /\ \A c \in Clients : RunOf(w) \notin api[c].runs
         /\ runs[RunOf(w)].status # "none"
<1>1. wk[w].row \in RowIds
  BY WorkerFacts
<1>2. \A v \in Workers : v # w /\ wk[v].pc \in Engaged =>
        wk[v].row \in RowIds /\ wk[v].row # wk[w].row
  BY WorkerFacts DEF IInv, ExclusiveClaim
<1>3. QED
  BY <1>1, <1>2 DEF IInv, OneOwner, RunOf

LEMMA run_start_IInv ==
  ASSUME IInv, NEW w \in Workers, run_start(w) PROVE IInv'
<1> DEFINE r == RunOf(w)
           n == trace[RunOf(w)] + 1
           new == [pc |-> "executing", row |-> wk[w].row, attempts |-> wk[w].attempts,
                   result |-> [status |-> "pending", gen |-> n]]
<1>1. /\ wk[w].pc = "claimed" /\ wk[w].pc \in Engaged
      /\ trace' = [trace EXCEPT ![r] = n]
      /\ wk' = [wk EXCEPT ![w] = new]
      /\ runs' = runs /\ queue' = queue /\ api' = api /\ crashes' = crashes
  BY DEF run_start, WorkerGot, Engaged, Holding
<1>2. r \in RunIds /\ n \in Nat /\ n > 0 /\ wk[w].row \in RowIds /\ r = queue[wk[w].row].run
  BY <1>1, WorkerFacts DEF RunOf
<1>3. new \in WorkerState
  BY <1>2, WorkerFacts DEF WorkerState, WorkerPc, StoredRun, RunStatus
<1>4. wk'[w] = new /\ \A v \in Workers : v # w => wk'[v] = wk[v]
  BY <1>1 DEF IInv, TypeOK
<1>5. trace'[r] = n /\ \A q \in RunIds : q # r => trace'[q] = trace[q]
  BY <1>1, <1>2 DEF IInv, TypeOK
<1>6. /\ queue[wk[w].row].status = "running"
      /\ queue[wk[w].row].attempts = wk[w].attempts
      /\ n <= wk[w].attempts + 1
  BY <1>1, <1>2, WorkerFacts DEF IInv, ClaimCurrent, ResultCurrent, Holding, Settling
<1>7. \A i \in RowIds : queue[i].run \in RunIds /\ (queue[i].run = r => i = wk[w].row)
  <2>1. \A i \in RowIds : queue[i].run = RunOf(w) => i = wk[w].row
    BY <1>1, SoleOwner
  <2>2. QED BY <2>1, RowFacts
<1>8. TypeOK'
  BY <1>1, <1>2, <1>3 DEF IInv, TypeOK
<1>9. ExclusiveClaim' /\ ClaimCurrent'
  <2>1. wk'[w].pc \in Engaged \cap Holding /\ wk'[w].pc \notin Settling
        /\ wk'[w].pc # "selected"
    BY <1>4 DEF Engaged, Holding, Settling
  <2>2. wk'[w].row = wk[w].row /\ wk'[w].attempts = wk[w].attempts
    BY <1>4
  <2>3. ExclusiveClaim'
    BY <1>1, <1>4, <2>2 DEF IInv, ExclusiveClaim
  <2> HIDE DEF r, n, new
  <2>4. ClaimCurrent'
    BY <1>1, <1>2, <1>4, <1>6, <2>1, <2>2 DEF IInv, ClaimCurrent, RowIds
  <2>5. QED BY <2>3, <2>4
<1> HIDE DEF r, n
<1>10. AttemptBudget'
  BY <1>1, <1>5, <1>6, <1>7 DEF IInv, AttemptBudget, RowIds
<1>11. DoneIsRecorded'
  BY <1>1, <1>5, <1>6, <1>7 DEF IInv, DoneIsRecorded, RowIds
<1>12. OneOwner'
  <2>1. \A c \in Clients : r \notin api[c].runs /\ api[c].runs \subseteq RunIds
    BY <1>1, SoleOwner DEF r, IInv, TypeOK
  <2>2. QED
    BY <1>1, <1>5, <2>1 DEF IInv, OneOwner, RowIds
<1>13. ResultCurrent'
  <2>1. RunOf(w)' = r /\ \A v \in Workers : v # w => RunOf(v)' = RunOf(v)
    BY <1>1, <1>4 DEF RunOf, r
  <2>2. \A v \in Workers : v # w /\ wk[v].pc \in Engaged =>
          RunOf(v) \in RunIds /\ RunOf(v) # r
    BY <1>1, WorkerFacts, SoleOwner DEF r
  <2>3. \A v \in Workers : v # w /\ wk[v].pc \in Engaged => trace'[RunOf(v)] = trace[RunOf(v)]
    BY <1>5, <2>2
  <2>4. QED
    BY <1>1, <1>2, <1>4, <1>5, <2>1, <2>3 DEF IInv, ResultCurrent, Engaged, Holding
<1>14. QED
  BY <1>8, <1>9, <1>10, <1>11, <1>12, <1>13 DEF IInv

\* A worker that owns the run of a row that is not done overwrites its record.
LEMMA RecordWritten ==
  ASSUME IInv, NEW w \in Workers, wk[w].pc \in Engaged,
         queue[wk[w].row].status # "done",
         NEW rec \in StoredRun, rec.status # "none",
         runs' = [runs EXCEPT ![RunOf(w)] = rec],
         NEW new \in WorkerState, wk' = [wk EXCEPT ![w] = new],
         queue' = queue, trace' = trace, api' = api, crashes' = crashes,
         \/ new.pc \notin Engaged
         \/ /\ wk[w].pc = "ran" /\ new.pc = "saved" /\ new.row = wk[w].row
            /\ new.attempts = wk[w].attempts /\ new.result = wk[w].result
            /\ rec = wk[w].result
  PROVE  IInv'
<1> DEFINE r == RunOf(w)
<1>1. r \in RunIds /\ wk[w].row \in RowIds /\ r = queue[wk[w].row].run
  BY WorkerFacts DEF RunOf
<1>2. wk'[w] = new /\ \A v \in Workers : v # w => wk'[v] = wk[v]
  BY DEF IInv, TypeOK
<1>3. runs'[r] = rec /\ \A q \in RunIds : q # r => runs'[q] = runs[q]
  BY <1>1 DEF IInv, TypeOK
<1>4. \A i \in RowIds : queue[i].run = r => i = wk[w].row
  BY SoleOwner
<1> HIDE DEF r
<1>5. TypeOK'
  BY DEF IInv, TypeOK
<1>6. ExclusiveClaim'
  BY <1>2 DEF IInv, ExclusiveClaim, Engaged, Holding
<1>7. ClaimCurrent'
  BY <1>2 DEF IInv, ClaimCurrent, RowIds, Engaged, Holding, Settling
<1>8. AttemptBudget'
  BY DEF IInv, AttemptBudget, RowIds
<1>9. DoneIsRecorded'
  BY <1>3, <1>4, RowFacts DEF IInv, DoneIsRecorded, RowIds
<1>10. OneOwner'
  <2>1. \A c \in Clients : r \notin api[c].runs /\ api[c].runs \subseteq RunIds
    BY SoleOwner DEF r, IInv, TypeOK
  <2>2. QED
    BY <1>3, <2>1, RowFacts DEF IInv, OneOwner, RowIds
<1>11. ResultCurrent'
  <2>1. \A v \in Workers : v # w => RunOf(v)' = RunOf(v)
    BY <1>2 DEF RunOf
  <2>2. \A v \in Workers : v # w /\ wk[v].pc \in Engaged =>
          RunOf(v) \in RunIds /\ RunOf(v) # r
    BY WorkerFacts, SoleOwner DEF r
  <2>3. \A v \in Workers : v # w /\ wk[v].pc \in Engaged => runs'[RunOf(v)] = runs[RunOf(v)]
    BY <1>3, <2>2
  <2>4. new.pc \in Engaged => RunOf(w)' = r /\ RunOf(w) = r
    BY <1>2 DEF RunOf, r
  <2>5. QED
    BY <1>2, <1>3, <2>1, <2>3, <2>4 DEF IInv, ResultCurrent, Engaged, Holding
<1>12. QED
  BY <1>5, <1>6, <1>7, <1>8, <1>9, <1>10, <1>11 DEF IInv

LEMMA run_save_IInv ==
  ASSUME IInv, NEW w \in Workers, run_save(w) PROVE IInv'
<1> DEFINE new == [pc |-> "saved", row |-> wk[w].row, attempts |-> wk[w].attempts,
                   result |-> wk[w].result]
<1>1. /\ wk[w].pc = "ran" /\ wk[w].pc \in Engaged
      /\ wk' = [wk EXCEPT ![w] = new]
      /\ runs' = [runs EXCEPT ![RunOf(w)] = wk[w].result]
      /\ queue' = queue /\ trace' = trace /\ api' = api /\ crashes' = crashes
  BY DEF run_save, save_run, WorkerGo, Engaged, Holding
<1>2. new \in WorkerState /\ wk[w].result \in StoredRun
  BY WorkerFacts DEF WorkerState, WorkerPc
<1>3. queue[wk[w].row].status # "done" /\ wk[w].result.status # "none"
  BY <1>1 DEF IInv, ClaimCurrent, ResultCurrent, Engaged, Holding
<1>4. QED
  BY <1>1, <1>2, <1>3, RecordWritten

LEMMA fail_placeholder_save_IInv ==
  ASSUME IInv, NEW w \in Workers, fail_placeholder_save(w) PROVE IInv'
<1> DEFINE rec == [status |-> "failed", gen |-> wk[w].result.gen]
<1>1. /\ wk[w].pc = "rewrite" /\ wk[w].pc \in Engaged
      /\ wk' = [wk EXCEPT ![w] = AtRest("poll")]
      /\ runs' = [runs EXCEPT ![RunOf(w)] = rec]
      /\ queue' = queue /\ trace' = trace /\ api' = api /\ crashes' = crashes
  BY DEF fail_placeholder_save, save_run, WorkerRests, Engaged, Settling
<1>2. rec \in StoredRun
  BY WorkerFacts DEF StoredRun, RunStatus
<1>3. queue[wk[w].row].status # "done" /\ "poll" \notin Engaged
  BY <1>1 DEF IInv, ClaimCurrent, Engaged, Holding, Settling
<1>4. QED
  BY <1>1, <1>2, <1>3, RestIsState, RecordWritten

-----------------------------------------------------------------------------
(* The clock and the API.                                                  *)

LEMMA Tick_IInv ==
  ASSUME IInv, Tick PROVE IInv'
<1>1. /\ runs' = runs /\ trace' = trace /\ api' = api /\ wk' = wk /\ crashes' = crashes
  BY DEF Tick
<1>2. /\ queue' \in Seq(Row) /\ Len(queue') = Len(queue)
      /\ \A j \in RowIds : /\ queue'[j].run = queue[j].run
                           /\ queue'[j].status = queue[j].status
                           /\ queue'[j].attempts = queue[j].attempts
  BY TickFacts DEF Tick, IInv, TypeOK
<1>3. RowIds' = RowIds
  BY <1>2 DEF RowIds
<1>4. TypeOK'
  BY <1>1, <1>2 DEF IInv, TypeOK
<1>5. ExclusiveClaim' /\ ClaimCurrent'
  BY <1>1, <1>2, <1>3 DEF IInv, ExclusiveClaim, ClaimCurrent
<1>6. AttemptBudget' /\ DoneIsRecorded' /\ OneOwner'
  BY <1>1, <1>2, <1>3 DEF IInv, AttemptBudget, DoneIsRecorded, OneOwner
<1>7. ResultCurrent'
  <2>1. \A w \in Workers : wk[w].pc \in Engaged => RunOf(w)' = RunOf(w)
    BY <1>1, <1>2, WorkerFacts DEF RunOf
  <2>2. QED
    BY <1>1, <2>1 DEF IInv, ResultCurrent, Engaged, Holding
<1>8. QED
  BY <1>4, <1>5, <1>6, <1>7 DEF IInv

\* An id uuid4 has just drawn belongs to no row and to no other request.
LEMMA FreshFacts ==
  ASSUME IInv, NEW r \in RunIds, Fresh(r)
  PROVE  /\ \A i \in RowIds : queue[i].run # r
         /\ \A c \in Clients : r \notin api[c].runs
<1>1. \A c \in Clients : api[c].pc \in ApiPc
  BY DEF IInv, TypeOK
<1>2. QED
  BY <1>1 DEF IInv, OneOwner, Fresh, ApiPc

\* A request's write that reaches only runs of its own: the workers' and the
\* rows' part of the invariant is as before.
LEMMA RequestStep ==
  ASSUME IInv, NEW pc \in ApiPc, NEW rs \in SUBSET RunIds, NEW c \in Clients,
         ApiGo(c, pc, rs), runs' \in [RunIds -> StoredRun], trace' \in [RunIds -> Nat],
         queue' = queue, wk' = wk, crashes' \in 0..MaxCrashes,
         \A i \in RowIds : /\ runs'[queue[i].run] = runs[queue[i].run]
                           /\ trace'[queue[i].run] = trace[queue[i].run],
         \A d \in Clients : d # c =>
           /\ api[d].runs \cap rs = {}
           /\ \A r \in api[d].runs : runs'[r] = runs[r] /\ trace'[r] = trace[r],
         pc = "idle" => rs = {},
         \A r \in rs :
           /\ \A i \in RowIds : queue[i].run # r
           /\ pc = "placed" => runs'[r].status = "pending" /\ trace'[r] = 0
           /\ pc = "executing" => runs'[r].status = "none" /\ trace'[r] = 1
  PROVE  IInv'
<1>1. /\ api' = [api EXCEPT ![c] = [pc |-> pc, runs |-> rs]]
      /\ api'[c].pc = pc /\ api'[c].runs = rs
      /\ \A d \in Clients : d # c => api'[d] = api[d]
  BY DEF ApiGo, IInv, TypeOK
<1>2. RowIds' = RowIds
  BY DEF RowIds
<1>3. TypeOK'
  BY <1>1 DEF IInv, TypeOK
<1>4. ExclusiveClaim' /\ ClaimCurrent'
  BY <1>2 DEF IInv, ExclusiveClaim, ClaimCurrent
<1>5. AttemptBudget' /\ DoneIsRecorded'
  BY <1>2 DEF IInv, AttemptBudget, DoneIsRecorded
<1>6. OneOwner'
  BY <1>1, <1>2 DEF IInv, OneOwner
<1>7. ResultCurrent'
  <2>1. \A w \in Workers : RunOf(w)' = RunOf(w)
    BY DEF RunOf
  <2>2. \A w \in Workers : wk[w].pc \in Engaged =>
          runs'[RunOf(w)] = runs[RunOf(w)] /\ trace'[RunOf(w)] = trace[RunOf(w)]
    BY WorkerFacts DEF RunOf
  <2>3. QED
    BY <2>1, <2>2 DEF IInv, ResultCurrent, Engaged, Holding
<1>8. QED
  BY <1>3, <1>4, <1>5, <1>6, <1>7 DEF IInv

LEMMA create_run_queued_IInv ==
  ASSUME IInv, NEW c \in Clients, create_run_queued(c) PROVE IInv'
<1>1. PICK r \in RunIds : Fresh(r) /\ save_placeholder(r) /\ ApiGo(c, "placed", {r})
  BY DEF create_run_queued
<1>2. queue' = queue /\ trace' = trace /\ wk' = wk /\ crashes' = crashes
  BY DEF create_run_queued
<1>3. /\ runs' \in [RunIds -> StoredRun] /\ runs'[r] = Placeholder
      /\ \A q \in RunIds : q # r => runs'[q] = runs[q]
  BY <1>1 DEF save_placeholder, save_run, Placeholder, StoredRun, RunStatus, IInv, TypeOK
<1>4. /\ \A i \in RowIds : queue[i].run # r
      /\ \A d \in Clients : r \notin api[d].runs
  BY <1>1, FreshFacts
<1>5. \A d \in Clients : api[d].runs \subseteq RunIds
  BY DEF IInv, TypeOK
<1>6. \A i \in RowIds : runs'[queue[i].run] = runs[queue[i].run]
  BY <1>3, <1>4, RowFacts
<1>7. \A d \in Clients : \A q \in api[d].runs : runs'[q] = runs[q]
  BY <1>3, <1>4, <1>5
<1>8. runs'[r].status = "pending" /\ trace'[r] = 0
  BY <1>1, <1>2, <1>3 DEF Fresh, Placeholder
<1>9. "placed" \in ApiPc /\ {r} \in SUBSET RunIds /\ trace' \in [RunIds -> Nat]
      /\ crashes' \in 0..MaxCrashes
  BY <1>2 DEF ApiPc, IInv, TypeOK
<1>10. QED
  BY <1>1, <1>2, <1>3, <1>4, <1>6, <1>7, <1>8, <1>9, RequestStep

LEMMA create_run_sync_IInv ==
  ASSUME IInv, NEW c \in Clients, create_run_sync(c) PROVE IInv'
<1>1. PICK r \in RunIds : /\ Fresh(r)
                          /\ trace' = [trace EXCEPT ![r] = 1]
                          /\ ApiGo(c, "executing", {r})
  BY DEF create_run_sync
<1>2. queue' = queue /\ runs' = runs /\ wk' = wk /\ crashes' = crashes
  BY DEF create_run_sync
<1>3. /\ trace' \in [RunIds -> Nat] /\ trace'[r] = 1
      /\ \A q \in RunIds : q # r => trace'[q] = trace[q]
  BY <1>1 DEF IInv, TypeOK
<1>4. /\ \A i \in RowIds : queue[i].run # r
      /\ \A d \in Clients : r \notin api[d].runs
  BY <1>1, FreshFacts
<1>5. \A d \in Clients : api[d].runs \subseteq RunIds
  BY DEF IInv, TypeOK
<1>6. \A i \in RowIds : trace'[queue[i].run] = trace[queue[i].run]
  BY <1>3, <1>4, RowFacts
<1>7. \A d \in Clients : \A q \in api[d].runs : trace'[q] = trace[q]
  BY <1>3, <1>4, <1>5
<1>8. runs'[r].status = "none"
  BY <1>1, <1>2 DEF Fresh
<1>9. "executing" \in ApiPc /\ {r} \in SUBSET RunIds /\ runs' \in [RunIds -> StoredRun]
      /\ crashes' \in 0..MaxCrashes
  BY <1>2 DEF ApiPc, IInv, TypeOK
<1>10. QED
  BY <1>1, <1>2, <1>3, <1>4, <1>6, <1>7, <1>8, <1>9, RequestStep

LEMMA create_run_save_IInv ==
  ASSUME IInv, NEW c \in Clients, create_run_save(c) PROVE IInv'
<1>1. PICK r \in api[c].runs, s \in {"completed", "failed"} :
        save_run(r, [status |-> s, gen |-> trace[r]])
  BY DEF create_run_save
<1>2. /\ queue' = queue /\ trace' = trace /\ wk' = wk /\ crashes' = crashes
      /\ ApiGo(c, "idle", {})
  BY DEF create_run_save
<1>3. r \in RunIds /\ \A d \in Clients : api[d].runs \subseteq RunIds
  BY DEF IInv, TypeOK
<1>4. /\ runs' \in [RunIds -> StoredRun]
      /\ \A q \in RunIds : q # r => runs'[q] = runs[q]
  <2>1. [status |-> s, gen |-> trace[r]] \in StoredRun
    BY <1>3 DEF StoredRun, RunStatus, IInv, TypeOK
  <2>2. QED BY <1>1, <1>3, <2>1 DEF save_run, IInv, TypeOK
<1>5. /\ \A i \in RowIds : queue[i].run # r
      /\ \A d \in Clients : d # c => r \notin api[d].runs
  BY DEF IInv, OneOwner
<1>6. \A i \in RowIds : runs'[queue[i].run] = runs[queue[i].run]
  BY <1>4, <1>5, RowFacts
<1>7. \A d \in Clients : d # c => \A q \in api[d].runs : runs'[q] = runs[q]
  BY <1>3, <1>4, <1>5
<1>8. "idle" \in ApiPc /\ trace' \in [RunIds -> Nat] /\ crashes' \in 0..MaxCrashes
  BY <1>2 DEF ApiPc, IInv, TypeOK
<1>9. QED
  BY <1>2, <1>4, <1>6, <1>7, <1>8, RequestStep

LEMMA ApiCrash_IInv ==
  ASSUME IInv, NEW c \in Clients, ApiCrash(c) PROVE IInv'
<1>1. /\ queue' = queue /\ trace' = trace /\ wk' = wk /\ runs' = runs
      /\ ApiGo(c, "idle", {})
  BY DEF ApiCrash
<1>2. crashes' \in 0..MaxCrashes
  BY MaxCrashesAssumption DEF ApiCrash, IInv, TypeOK
<1>3. "idle" \in ApiPc /\ trace' \in [RunIds -> Nat] /\ runs' \in [RunIds -> StoredRun]
  BY <1>1 DEF ApiPc, IInv, TypeOK
<1>4. QED
  BY <1>1, <1>2, <1>3, RequestStep

\* The placeholder's row enters the queue, and the request lets go of the run.
LEMMA create_run_enqueue_IInv ==
  ASSUME IInv, NEW c \in Clients, create_run_enqueue(c) PROVE IInv'
<1>1. PICK r \in api[c].runs : enqueue(r)
  BY DEF create_run_enqueue
<1>2. /\ runs' = runs /\ trace' = trace /\ wk' = wk /\ crashes' = crashes
      /\ api[c].pc = "placed" /\ ApiGo(c, "idle", {})
  BY DEF create_run_enqueue
<1>3. r \in RunIds
  BY DEF IInv, TypeOK
<1>4. /\ queue' \in Seq(Row) /\ Len(queue') = Len(queue) + 1
      /\ queue'[Len(queue) + 1] = [run |-> r, status |-> "pending", attempts |-> 0, wait |-> 0]
      /\ \A j \in RowIds : queue'[j] = queue[j]
  BY <1>1, <1>3, EnqueueFacts DEF IInv, TypeOK
<1> DEFINE new == Len(queue) + 1
<1>5. /\ RowIds' = RowIds \cup {new} /\ new \notin RowIds
      /\ queue'[new].run = r /\ queue'[new].status = "pending" /\ queue'[new].attempts = 0
  BY <1>4 DEF IInv, TypeOK, RowIds
<1> HIDE DEF new
<1>6. /\ \A i \in RowIds : queue[i].run # r
      /\ \A d \in Clients : d # c => r \notin api[d].runs
      /\ runs[r].status = "pending" /\ trace[r] = 0
  BY <1>2 DEF IInv, OneOwner
<1>7. /\ api' = [api EXCEPT ![c] = [pc |-> "idle", runs |-> {}]]
      /\ api'[c].pc = "idle" /\ api'[c].runs = {}
      /\ \A d \in Clients : d # c => api'[d] = api[d]
  BY <1>2 DEF ApiGo, IInv, TypeOK
<1>8. TypeOK'
  BY <1>2, <1>4, <1>7 DEF IInv, TypeOK, ApiPc
<1>9. ExclusiveClaim' /\ ClaimCurrent'
  BY <1>2, <1>4, <1>5 DEF IInv, ExclusiveClaim, ClaimCurrent
<1>10. AttemptBudget'
  BY <1>2, <1>4, <1>5, <1>6, MaxAttemptsAssumption DEF IInv, AttemptBudget
<1>11. DoneIsRecorded'
  BY <1>2, <1>4, <1>5 DEF IInv, DoneIsRecorded
<1>12. OneOwner'
  BY <1>2, <1>4, <1>5, <1>6, <1>7 DEF IInv, OneOwner
<1>13. ResultCurrent'
  <2>1. \A w \in Workers : wk[w].pc \in Engaged => RunOf(w)' = RunOf(w)
    BY <1>2, <1>4, WorkerFacts DEF RunOf
  <2>2. QED
    BY <1>2, <2>1 DEF IInv, ResultCurrent, Engaged, Holding
<1>14. QED
  BY <1>8, <1>9, <1>10, <1>11, <1>12, <1>13 DEF IInv

-----------------------------------------------------------------------------
LEMMA StutterIInv == ASSUME IInv, UNCHANGED vars PROVE IInv'
<1> USE DEF vars, IInv
<1>1. RowIds' = RowIds
  BY DEF RowIds
<1>2. TypeOK' /\ ExclusiveClaim' /\ ClaimCurrent'
  BY <1>1 DEF TypeOK, ExclusiveClaim, ClaimCurrent
<1>3. AttemptBudget' /\ DoneIsRecorded' /\ OneOwner'
  BY <1>1 DEF AttemptBudget, DoneIsRecorded, OneOwner
<1>4. ResultCurrent'
  BY DEF ResultCurrent, RunOf
<1>5. QED BY <1>2, <1>3, <1>4

THEOREM NextIInv == IInv /\ [Next]_vars => IInv'
<1> SUFFICES ASSUME IInv, [Next]_vars PROVE IInv'
  OBVIOUS
<1>1. ASSUME NEW c \in Clients, ApiStep(c) \/ ApiCrash(c) PROVE IInv'
  BY <1>1, create_run_queued_IInv, create_run_enqueue_IInv, create_run_sync_IInv,
     create_run_save_IInv, ApiCrash_IInv DEF ApiStep
<1>2. ASSUME NEW w \in Workers, WorkerStep(w) PROVE IInv'
  <2>1. CASE claim_none(w)
    BY <2>1, StutterIInv DEF claim_none
  <2>2. CASE claim_select(w) \/ claim_update(w) \/ run_start(w) \/ run_return(w)
    BY <2>2, claim_select_IInv, claim_update_IInv, run_start_IInv, run_return_IInv
  <2>3. CASE run_save(w) \/ mark_done(w) \/ Raise(w) \/ handle_retry(w)
    BY <2>3, run_save_IInv, mark_done_IInv, Raise_IInv, handle_retry_IInv
  <2>4. CASE handle_dead(w) \/ fail_placeholder_read(w) \/ fail_placeholder_save(w)
    BY <2>4, handle_dead_IInv, fail_placeholder_read_IInv, fail_placeholder_save_IInv
  <2>5. QED
    BY <1>2, <2>1, <2>2, <2>3, <2>4 DEF WorkerStep
<1>3. ASSUME NEW w \in Workers, WorkerCrash(w) \/ WorkerRestart(w) PROVE IInv'
  BY <1>3, WorkerCrash_IInv, WorkerRestart_IInv
<1>4. QED
  BY <1>1, <1>2, <1>3, Tick_IInv, StutterIInv DEF Next

\* The invariant of the run service holds in every reachable state.
THEOREM Invariance == Spec => []IInv
BY InitIInv, NextIInv, PTL DEF Spec

\* Every variable keeps its type, whatever the workers, requests and crashes.
THEOREM TypeCorrect == Spec => []TypeOK
<1>1. IInv => TypeOK
  BY DEF IInv
<1>2. QED BY <1>1, Invariance, PTL

\* No two workers are ever engaged on one queue row (pg_store.claim_next).
THEOREM ClaimsAreExclusive == Spec => []ExclusiveClaim
<1>1. IInv => ExclusiveClaim
  BY DEF IInv
<1>2. QED BY <1>1, Invariance, PTL

\* The row dict a worker holds agrees with the row it will update by id.
THEOREM ClaimsAreCurrent == Spec => []ClaimCurrent
<1>1. IInv => ClaimCurrent
  BY DEF IInv
<1>2. QED BY <1>1, Invariance, PTL

\* A row is dead-lettered at exactly MaxAttempts failures, and its run is
\* executed at most MaxAttempts times.
THEOREM BudgetIsKept == Spec => []AttemptBudget
<1>1. IInv => AttemptBudget
  BY DEF IInv
<1>2. QED BY <1>1, Invariance, PTL

\* A done row has the record of its last execution.
THEOREM DoneHasRecord == Spec => []DoneIsRecorded
<1>1. IInv => DoneIsRecorded
  BY DEF IInv
<1>2. QED BY <1>1, Invariance, PTL

-----------------------------------------------------------------------------
\* A step leaves the record and the trace of every done row's run alone.
Frozen == \A i \in RowIds : queue[i].status = "done" =>
            /\ runs'[queue[i].run] = runs[queue[i].run]
            /\ trace'[queue[i].run] = trace[queue[i].run]

LEMMA WorkerLeavesOthers ==
  ASSUME IInv, NEW w \in Workers, wk[w].pc \in Engaged, queue[wk[w].row].status # "done",
         NEW i \in RowIds, queue[i].status = "done"
  PROVE  queue[i].run # RunOf(w) /\ queue[i].run \in RunIds
BY SoleOwner, RowFacts

LEMMA StepIsFrozen == IInv /\ [Next]_vars => Frozen
<1> SUFFICES ASSUME IInv, [Next]_vars, NEW i \in RowIds, queue[i].status = "done"
             PROVE  /\ runs'[queue[i].run] = runs[queue[i].run]
                    /\ trace'[queue[i].run] = trace[queue[i].run]
  BY DEF Frozen
<1> DEFINE q == queue[i].run
<1>0. q \in RunIds /\ runs \in [RunIds -> StoredRun] /\ trace \in [RunIds -> Nat]
  BY RowFacts DEF IInv, TypeOK
<1>1. ASSUME runs' = runs, trace' = trace PROVE runs'[q] = runs[q] /\ trace'[q] = trace[q]
  BY <1>1
<1>2. ASSUME NEW c \in Clients, create_run_queued(c) \/ create_run_sync(c)
      PROVE  runs'[q] = runs[q] /\ trace'[q] = trace[q]
  <2>1. PICK r \in RunIds :
          /\ Fresh(r)
          /\ \/ runs' = [runs EXCEPT ![r] = Placeholder] /\ trace' = trace
             \/ trace' = [trace EXCEPT ![r] = 1] /\ runs' = runs
    BY <1>2 DEF create_run_queued, create_run_sync, save_placeholder, save_run
  <2>2. q # r
    BY <2>1, FreshFacts
  <2>3. QED BY <1>0, <2>1, <2>2
<1>3. ASSUME NEW c \in Clients, create_run_save(c)
      PROVE  runs'[q] = runs[q] /\ trace'[q] = trace[q]
  <2>1. PICK r \in api[c].runs, s \in {"completed", "failed"} :
          runs' = [runs EXCEPT ![r] = [status |-> s, gen |-> trace[r]]]
    BY <1>3 DEF create_run_save, save_run
  <2>2. q # r /\ trace' = trace
    BY <1>3 DEF IInv, OneOwner, create_run_save
  <2>3. QED BY <1>0, <2>1, <2>2
<1>4. ASSUME NEW w \in Workers, run_start(w) \/ run_save(w) \/ fail_placeholder_save(w)
      PROVE  runs'[q] = runs[q] /\ trace'[q] = trace[q]
  <2>1. wk[w].pc \in Engaged /\ queue[wk[w].row].status # "done"
    BY <1>4 DEF run_start, run_save, fail_placeholder_save, IInv, ClaimCurrent,
                Engaged, Holding, Settling
  <2>2. q # RunOf(w)
    BY <2>1, WorkerLeavesOthers
  <2>3. \E rec, n :
          /\ runs' = [runs EXCEPT ![RunOf(w)] = rec] \/ runs' = runs
          /\ trace' = [trace EXCEPT ![RunOf(w)] = n] \/ trace' = trace
    <3>1. CASE run_start(w)
      BY <3>1 DEF run_start
    <3>2. CASE run_save(w)
      BY <3>2 DEF run_save, save_run
    <3>3. CASE fail_placeholder_save(w)
      BY <3>3 DEF fail_placeholder_save, save_run
    <3>4. QED BY <1>4, <3>1, <3>2, <3>3
  <2>4. QED BY <1>0, <2>2, <2>3
<1> HIDE DEF q
<1>5. ASSUME Next PROVE runs'[q] = runs[q] /\ trace'[q] = trace[q]
  <2>1. ASSUME NEW c \in Clients, create_run_enqueue(c) \/ ApiCrash(c)
        PROVE  runs'[q] = runs[q] /\ trace'[q] = trace[q]
    BY <1>1, <2>1 DEF create_run_enqueue, ApiCrash
  <2>2. ASSUME NEW w \in Workers,
               \/ claim_select(w) \/ claim_none(w) \/ claim_update(w) \/ run_return(w)
               \/ mark_done(w) \/ Raise(w) \/ handle_retry(w) \/ handle_dead(w)
               \/ fail_placeholder_read(w) \/ WorkerCrash(w) \/ WorkerRestart(w)
        PROVE  runs'[q] = runs[q] /\ trace'[q] = trace[q]
    <3>1. runs' = runs /\ trace' = trace
      BY <2>2 DEF claim_select, claim_none, claim_update, run_return, mark_done, Raise,
         handle_retry, handle_dead, fail_placeholder_read, WorkerCrash, WorkerRestart, vars
    <3>2. QED BY <1>1, <3>1
  <2>3. ASSUME Tick PROVE runs'[q] = runs[q] /\ trace'[q] = trace[q]
    BY <1>1, <2>3 DEF Tick
  <2>4. QED
    BY <1>2, <1>3, <1>4, <1>5, <2>1, <2>2, <2>3 DEF Next, ApiStep, WorkerStep
<1>6. QED
  BY <1>1, <1>5 DEF vars, q

\* No worker or request writes the record or the trace of a run whose row is done.
THEOREM DoneIsFrozen == Spec => DoneRecordFrozen
<1>1. IInv /\ [Next]_vars => [Frozen]_vars
  BY StepIsFrozen
<1>2. Spec => [][Frozen]_vars
  BY <1>1, Invariance, PTL DEF Spec
<1>3. QED BY <1>2 DEF DoneRecordFrozen, Frozen

-----------------------------------------------------------------------------
(* Refinement: the queue rows, seen as [status, attempts], obey QueueContract. *)

\* The row that a worker is engaged on, as its action found it.
LEMMA EngagedRow ==
  ASSUME IInv, NEW w \in Workers, wk[w].pc \in Engaged
  PROVE  LET i == wk[w].row IN
         /\ i \in RowIds /\ RowsView[i] = [status |-> queue[i].status, attempts |-> queue[i].attempts]
         /\ queue[i].status = IF wk[w].pc = "selected" THEN "pending"
                              ELSE IF wk[w].pc \in Holding THEN "running" ELSE "dead"
         /\ wk[w].pc \in Holding => queue[i].attempts = wk[w].attempts
         /\ queue[i].attempts \in Nat /\ queue[i].wait \in Nat
BY WorkerFacts DEF RowsView, IInv, ClaimCurrent, Engaged, Holding, Settling

LEMMA RowStep ==
  ASSUME IInv, NEW i \in RowIds, Contract!Claim(i) \/ Contract!Succeed(i) \/ Contract!Fail(i)
  PROVE  Contract!Next
<1>1. 1..Len(RowsView) = RowIds
  BY DEF RowsView, RowIds, IInv, TypeOK
<1>2. QED BY <1>1 DEF Contract!Next

\* An UPDATE of one row is a step of the contract on that row.
LEMMA UpdateIsContractStep ==
  ASSUME queue \in Seq(Row), NEW i \in RowIds, NEW s \in QueueStatus, NEW a \in Nat,
         NEW n \in Nat, UpdateRow(i, s, a, n)
  PROVE  RowsView' = [RowsView EXCEPT ![i] = [status |-> s, attempts |-> a]]
<1>1. /\ Len(queue') = Len(queue)
      /\ queue'[i] = [run |-> queue[i].run, status |-> s, attempts |-> a, wait |-> n]
      /\ \A j \in RowIds : j # i => queue'[j] = queue[j]
  BY UpdateRowFacts
<1>2. RowIds' = RowIds /\ queue'[i].status = s /\ queue'[i].attempts = a
  BY <1>1 DEF RowIds
<1>3. QED BY <1>1, <1>2 DEF RowsView

LEMMA InitContract == Init => Contract!Init
<1> SUFFICES ASSUME Init PROVE RowsView = << >>
  BY DEF Contract!Init
<1>1. RowIds = 1..0
  BY DEF Init, StoreInit, RowIds
<1>2. QED BY <1>1 DEF RowsView

LEMMA NextContract == IInv /\ [Next]_vars => [Contract!Next]_RowsView
<1> SUFFICES ASSUME IInv, [Next]_vars PROVE Contract!Next \/ RowsView' = RowsView
  OBVIOUS
<1>0. queue \in Seq(Row)
  BY DEF IInv, TypeOK
<1>1. ASSUME queue' = queue PROVE RowsView' = RowsView
  BY <1>1 DEF RowsView, RowIds
<1>2. ASSUME NEW c \in Clients, create_run_enqueue(c) PROVE Contract!Next
  <2>1. PICK r \in api[c].runs : enqueue(r)
    BY <1>2 DEF create_run_enqueue
  <2>2. r \in RunIds
    BY DEF IInv, TypeOK
  <2>3. /\ Len(queue') = Len(queue) + 1
        /\ queue'[Len(queue) + 1] = [run |-> r, status |-> "pending", attempts |-> 0, wait |-> 0]
        /\ \A j \in RowIds : queue'[j] = queue[j]
    BY <1>0, <2>1, <2>2, EnqueueFacts
  <2>4. /\ RowIds' = 1..(Len(queue) + 1)
        /\ queue'[Len(queue) + 1].status = "pending" /\ queue'[Len(queue) + 1].attempts = 0
    BY <2>3 DEF RowIds
  <2>5. RowsView' = Append(RowsView, [status |-> "pending", attempts |-> 0])
    BY <1>0, <2>3, <2>4 DEF RowsView, RowIds
  <2>6. QED BY <2>5 DEF Contract!Next, Contract!Enqueue
<1>3. ASSUME NEW w \in Workers, claim_update(w) PROVE Contract!Next
  <2> DEFINE i == wk[w].row
  <2>1. wk[w].pc = "selected" /\ wk[w].pc \in Engaged
        /\ UpdateRow(i, "running", queue[i].attempts, queue[i].wait)
    BY <1>3 DEF claim_update, mark, Engaged
  <2>2. /\ i \in RowIds /\ queue[i].attempts \in Nat /\ queue[i].wait \in Nat
        /\ RowsView[i] = [status |-> "pending", attempts |-> queue[i].attempts]
    BY <2>1, EngagedRow
  <2> HIDE DEF i
  <2>3. RowsView' = [RowsView EXCEPT ![i] = [status |-> "running", attempts |-> queue[i].attempts]]
    BY <1>0, <2>1, <2>2, UpdateIsContractStep DEF QueueStatus
  <2>4. Contract!Claim(i)
    BY <2>2, <2>3 DEF Contract!Claim, Contract!Step
  <2>5. QED BY <2>2, <2>4, RowStep
<1>4. ASSUME NEW w \in Workers, mark_done(w) PROVE Contract!Next
  <2> DEFINE i == wk[w].row
  <2>1. wk[w].pc # "selected" /\ wk[w].pc \in Holding /\ wk[w].pc \in Engaged
        /\ UpdateRow(i, "done", queue[i].attempts, queue[i].wait)
    BY <1>4 DEF mark_done, mark, Engaged, Holding
  <2>2. /\ i \in RowIds /\ queue[i].attempts \in Nat /\ queue[i].wait \in Nat
        /\ RowsView[i] = [status |-> "running", attempts |-> queue[i].attempts]
    BY <2>1, EngagedRow
  <2> HIDE DEF i
  <2>3. RowsView' = [RowsView EXCEPT ![i] = [status |-> "done", attempts |-> queue[i].attempts]]
    BY <1>0, <2>1, <2>2, UpdateIsContractStep DEF QueueStatus
  <2>4. Contract!Succeed(i)
    BY <2>2, <2>3 DEF Contract!Succeed, Contract!Step
  <2>5. QED BY <2>2, <2>4, RowStep
<1>5. ASSUME NEW w \in Workers, handle_retry(w) \/ handle_dead(w) PROVE Contract!Next
  <2> DEFINE i == wk[w].row
             a == wk[w].attempts + 1
             to == IF a >= MaxAttempts THEN "dead" ELSE "pending"
             n == IF a >= MaxAttempts THEN queue[i].wait ELSE Delay[a]
  <2>1. wk[w].pc # "selected" /\ wk[w].pc \in Holding /\ wk[w].pc \in Engaged
    BY <1>5 DEF handle_retry, handle_dead, Engaged, Holding
  <2>2. /\ i \in RowIds /\ queue[i].attempts = wk[w].attempts
        /\ queue[i].attempts \in Nat /\ queue[i].wait \in Nat
        /\ RowsView[i] = [status |-> "running", attempts |-> wk[w].attempts]
    BY <2>1, EngagedRow
  <2>3. a \in Nat /\ n \in Nat /\ to \in QueueStatus
    BY <2>2, MaxAttemptsAssumption, DelayAssumption DEF QueueStatus
  <2>4. UpdateRow(i, to, a, n)
    BY <1>5, <2>2, MaxAttemptsAssumption DEF handle_retry, handle_dead, retry, mark_dead
  <2>5. RowsView[i].status = "running" /\ RowsView[i].attempts + 1 = a
    BY <2>2
  <2> HIDE DEF i, a, n
  <2>6. RowsView' = [RowsView EXCEPT ![i] = [status |-> to, attempts |-> a]]
    BY <1>0, <2>2, <2>3, <2>4, UpdateIsContractStep
  <2>7. Contract!Fail(i)
    BY <2>5, <2>6 DEF Contract!Fail, Contract!Step
  <2>8. QED BY <2>2, <2>7, RowStep
<1>6. ASSUME Tick PROVE RowsView' = RowsView
  <2>1. /\ Len(queue') = Len(queue)
        /\ \A j \in RowIds : /\ queue'[j].status = queue[j].status
                             /\ queue'[j].attempts = queue[j].attempts
    BY <1>0, <1>6, TickFacts DEF Tick
  <2>2. QED BY <2>1 DEF RowsView, RowIds
<1>7. ASSUME NEW c \in Clients, ApiStep(c) \/ ApiCrash(c), ~create_run_enqueue(c)
      PROVE  queue' = queue
  BY <1>7 DEF ApiStep, create_run_queued, create_run_sync, create_run_save, ApiCrash
<1>8. ASSUME NEW w \in Workers,
             \/ claim_select(w) \/ claim_none(w) \/ run_start(w) \/ run_return(w) \/ run_save(w)
             \/ Raise(w) \/ fail_placeholder_read(w) \/ fail_placeholder_save(w)
             \/ WorkerCrash(w) \/ WorkerRestart(w)
      PROVE  queue' = queue
  BY <1>8 DEF claim_select, claim_none, run_start, run_return, run_save, Raise,
     fail_placeholder_read, fail_placeholder_save, WorkerCrash, WorkerRestart, vars
<1>9. QED
  BY <1>1, <1>2, <1>3, <1>4, <1>5, <1>6, <1>7, <1>8 DEF Next, WorkerStep, vars

\* Claims, successes, retries and dead letters of the workers, crashes included,
\* are steps of the contract that store.py's docstring draws.
THEOREM RefinesContract == Spec => ImplementsContract
BY InitContract, NextContract, Invariance, PTL DEF Spec, ImplementsContract, Contract!Spec

-----------------------------------------------------------------------------
(* NothingForgotten, which is inductive with IInv and the shape of a       *)
(* request that has placed its run.                                        *)

OneDraw == \A c \in Clients : api[c].pc = "placed" => \E r \in RunIds : api[c].runs = {r}

\* Whose dead row the worker has still to settle.
Settles(w, i) == wk[w].pc \in Settling /\ wk[w].row = i

\* A step that kills no process, touches no request and moves at most worker w:
\* the rows that are dead after it are settled, or w's, or were dead before it.
LEMMA WorkerForgetsNothing ==
  ASSUME IInv, OneDraw, NothingForgotten, NEW w \in Workers,
         api' = api, crashes' = crashes, RowIds' = RowIds,
         \A v \in Workers : v # w => wk'[v] = wk[v],
         \A j \in RowIds : queue'[j].run = queue[j].run,
         \A r \in RunIds : runs'[r].status = "pending" => runs[r].status = "pending",
         \A j \in RowIds : queue'[j].status = "dead" =>
            \/ runs'[queue[j].run].status = "failed"
            \/ Settles(w, j)'
            \/ /\ queue[j].status = "dead" /\ ~Settles(w, j)
               /\ runs'[queue[j].run] = runs[queue[j].run]
  PROVE  OneDraw' /\ NothingForgotten'
<1>1. OneDraw'
  BY DEF OneDraw
<1>2. ASSUME crashes = 0, NEW i \in RowIds, queue'[i].status = "dead"
      PROVE  \/ runs'[queue'[i].run].status = "failed"
             \/ \E v \in Workers : Settles(v, i)'
  BY <1>2 DEF NothingForgotten, Settles
<1>3. ASSUME crashes = 0, NEW r \in RunIds, runs'[r].status = "pending"
      PROVE  \/ \E i \in RowIds : queue'[i].run = r
             \/ \E c \in Clients : api[c].pc = "placed" /\ r \in api[c].runs
  BY <1>3 DEF NothingForgotten
<1>4. QED
  BY <1>1, <1>2, <1>3 DEF NothingForgotten, Settles

\* The other runs when the run of w's row is written.
LEMMA RunWritten ==
  ASSUME IInv, NEW w \in Workers, wk[w].pc \in Engaged,
         NEW rec, runs' = [runs EXCEPT ![RunOf(w)] = rec]
  PROVE  /\ RunOf(w) \in RunIds /\ runs'[RunOf(w)] = rec
         /\ \A q \in RunIds : q # RunOf(w) => runs'[q] = runs[q]
         /\ \A j \in RowIds : j # wk[w].row => runs'[queue[j].run] = runs[queue[j].run]
<1>1. RunOf(w) \in RunIds /\ runs \in [RunIds -> StoredRun]
  BY WorkerFacts DEF IInv, TypeOK
<1>2. \A j \in RowIds : queue[j].run \in RunIds /\ (j # wk[w].row => queue[j].run # RunOf(w))
  BY RowFacts, SoleOwner
<1>3. QED BY <1>1, <1>2

LEMMA WorkerStepForgetsNothing ==
  ASSUME IInv, OneDraw, NothingForgotten, NEW w \in Workers,
         WorkerStep(w) \/ WorkerRestart(w)
  PROVE  OneDraw' /\ NothingForgotten'
<1>0. /\ runs \in [RunIds -> StoredRun] /\ queue \in Seq(Row)
      /\ \A v \in Workers : \A new : wk' = [wk EXCEPT ![w] = new] =>
            wk'[w] = new /\ (v # w => wk'[v] = wk[v])
  BY DEF IInv, TypeOK
\* Steps that leave the records and the queue alone.
<1>1. ASSUME \/ claim_select(w) \/ run_start(w) \/ run_return(w) \/ Raise(w)
             \/ WorkerRestart(w)
      PROVE  OneDraw' /\ NothingForgotten'
  <2>1. runs' = runs /\ queue' = queue /\ api' = api /\ crashes' = crashes
    BY <1>1 DEF claim_select, run_start, run_return, Raise, WorkerRestart
  <2>2. wk[w].pc \notin Settling /\ \E new : wk' = [wk EXCEPT ![w] = new]
    BY <1>1 DEF claim_select, run_start, run_return, Raise, WorkerRestart, Settling,
                WorkerGo, WorkerGot, WorkerRests
  <2>3. QED
    BY <1>0, <2>1, <2>2, WorkerForgetsNothing DEF RowIds, Settles
<1>2. CASE claim_none(w)
  BY <1>2, WorkerForgetsNothing DEF claim_none, vars, NothingForgotten, OneDraw, RowIds
\* UPDATEs that do not make the row dead.
<1>3. ASSUME claim_update(w) \/ mark_done(w) \/ handle_retry(w)
      PROVE  OneDraw' /\ NothingForgotten'
  <2>1. /\ runs' = runs /\ api' = api /\ crashes' = crashes
        /\ wk[w].pc \in Engaged /\ wk[w].pc \notin Settling
        /\ \E new : wk' = [wk EXCEPT ![w] = new]
    BY <1>3 DEF claim_update, mark_done, handle_retry, Engaged, Holding, Settling,
                WorkerGo, WorkerRests
  <2>2. \E s \in {"running", "done", "pending"}, a \in Nat, n \in Nat :
           UpdateRow(wk[w].row, s, a, n)
    <3>1. CASE claim_update(w)
      BY <2>1, <3>1, WorkerFacts DEF claim_update, mark
    <3>2. CASE mark_done(w)
      BY <2>1, <3>2, WorkerFacts DEF mark_done, mark
    <3>3. CASE handle_retry(w)
      <4> DEFINE a == wk[w].attempts + 1
      <4>1. a \in Nat /\ Delay[a] \in Nat
        BY <3>3, WorkerFacts, MaxAttemptsAssumption, DelayAssumption DEF handle_retry
      <4>2. UpdateRow(wk[w].row, "pending", a, Delay[a])
        BY <3>3 DEF handle_retry, retry
      <4>3. QED BY <4>1, <4>2
    <3>4. QED BY <1>3, <3>1, <3>2, <3>3
  <2>3. /\ RowIds' = RowIds
        /\ \A j \in RowIds : /\ queue'[j].run = queue[j].run
                             /\ queue'[j].status = "dead" => queue[j].status = "dead"
    <3>1. PICK s \in {"running", "done", "pending"}, a \in Nat, n \in Nat :
             UpdateRow(wk[w].row, s, a, n)
      BY <2>2
    <3>2. s \in QueueStatus /\ wk[w].row \in RowIds
      BY <2>1, WorkerFacts DEF QueueStatus
    <3>3. /\ Len(queue') = Len(queue)
          /\ queue'[wk[w].row] = [run |-> queue[wk[w].row].run, status |-> s,
                                  attempts |-> a, wait |-> n]
          /\ \A j \in RowIds : j # wk[w].row => queue'[j] = queue[j]
      <4>1. queue \in Seq(Row)
        BY <1>0
      <4> DEFINE i == wk[w].row
      <4>2. i \in RowIds /\ UpdateRow(i, s, a, n)
        BY <3>1, <3>2
      <4> HIDE DEF i
      <4>3. /\ Len(queue') = Len(queue)
            /\ queue'[i] = [run |-> queue[i].run, status |-> s, attempts |-> a, wait |-> n]
            /\ \A j \in RowIds : j # i => queue'[j] = queue[j]
        BY <3>2, <4>1, <4>2, UpdateRowFacts
      <4>4. QED BY <4>3 DEF i
    <3>4. queue'[wk[w].row].run = queue[wk[w].row].run /\ queue'[wk[w].row].status # "dead"
      BY <3>3
    <3>5. QED BY <3>3, <3>4 DEF RowIds
  <2>4. QED
    BY <1>0, <2>1, <2>3, WorkerForgetsNothing DEF Settles
<1>4. CASE run_save(w)
  <2>1. /\ wk[w].pc \in Engaged /\ wk[w].pc \notin Settling /\ wk[w].pc = "ran"
        /\ queue' = queue /\ api' = api /\ crashes' = crashes
        /\ runs' = [runs EXCEPT ![RunOf(w)] = wk[w].result]
        /\ \E new : wk' = [wk EXCEPT ![w] = new]
    BY <1>4 DEF run_save, save_run, Engaged, Holding, Settling, WorkerGo
  <2>2. wk[w].result.status # "pending" /\ queue[wk[w].row].status = "running"
    BY <2>1 DEF IInv, ResultCurrent, ClaimCurrent, Holding
  <2>3. /\ \A j \in RowIds : j # wk[w].row => runs'[queue[j].run] = runs[queue[j].run]
        /\ \A r \in RunIds : runs'[r].status = "pending" => runs[r].status = "pending"
    <3> DEFINE rec == wk[w].result
    <3>1. rec.status # "pending" /\ runs' = [runs EXCEPT ![RunOf(w)] = rec]
      BY <2>1, <2>2
    <3> HIDE DEF rec
    <3>2. wk[w].pc \in Engaged /\ runs' = [runs EXCEPT ![RunOf(w)] = rec]
      BY <2>1, <3>1
    <3>3. /\ runs'[RunOf(w)] = rec /\ \A q \in RunIds : q # RunOf(w) => runs'[q] = runs[q]
          /\ \A j \in RowIds : j # wk[w].row => runs'[queue[j].run] = runs[queue[j].run]
      BY <3>2, RunWritten
    <3>4. QED BY <3>1, <3>3
  <2>4. RowIds' = RowIds /\ \A v \in Workers : v # w => wk'[v] = wk[v]
    BY <1>0, <2>1 DEF RowIds
  <2>5. QED
    BY <2>1, <2>2, <2>3, <2>4, WorkerForgetsNothing DEF Settles
<1>5. CASE handle_dead(w)
  <2>1. /\ wk[w].pc \in Engaged /\ wk[w].pc \notin Settling
        /\ runs' = runs /\ api' = api /\ crashes' = crashes
        /\ UpdateRow(wk[w].row, "dead", wk[w].attempts + 1, queue[wk[w].row].wait)
        /\ wk' = [wk EXCEPT ![w] = [pc |-> "dead", row |-> wk[w].row,
                                    attempts |-> wk[w].attempts, result |-> wk[w].result]]
    BY <1>5 DEF handle_dead, mark_dead, Engaged, Holding, Settling, WorkerGo
  <2>2. /\ RowIds' = RowIds
        /\ \A j \in RowIds : queue'[j].run = queue[j].run
        /\ \A j \in RowIds : j # wk[w].row => queue'[j].status = queue[j].status
    <3>1. /\ "dead" \in QueueStatus /\ wk[w].row \in RowIds
          /\ wk[w].attempts + 1 \in Nat /\ queue[wk[w].row].wait \in Nat
      BY <2>1, WorkerFacts DEF QueueStatus
    <3>2. /\ Len(queue') = Len(queue)
          /\ queue'[wk[w].row] = [run |-> queue[wk[w].row].run, status |-> "dead",
                      attempts |-> wk[w].attempts + 1, wait |-> queue[wk[w].row].wait]
          /\ \A j \in RowIds : j # wk[w].row => queue'[j] = queue[j]
      BY <1>0, <2>1, <3>1, UpdateRowFacts
    <3>3. queue'[wk[w].row].run = queue[wk[w].row].run
      BY <3>2
    <3>4. QED BY <3>2, <3>3 DEF RowIds
  <2>3. Settles(w, wk[w].row)'
    BY <1>0, <2>1 DEF Settles, Settling
  <2>4. QED
    BY <1>0, <2>1, <2>2, <2>3, WorkerForgetsNothing DEF Settles
<1>6. CASE fail_placeholder_read(w)
  <2>1. wk[w].pc \in Engaged /\ runs[RunOf(w)].status # "none"
    BY <1>6, SoleOwner DEF fail_placeholder_read, Engaged, Settling
  <2>2. /\ runs' = runs /\ queue' = queue /\ api' = api /\ crashes' = crashes
        /\ wk' = [wk EXCEPT ![w] = [pc |-> "rewrite", row |-> wk[w].row,
                       attempts |-> wk[w].attempts, result |-> runs[RunOf(w)]]]
    BY <1>6, <2>1 DEF fail_placeholder_read, WorkerGot
  <2>3. Settles(w, wk[w].row)'
    BY <1>0, <2>2 DEF Settles, Settling
  <2>4. QED
    BY <1>0, <2>2, <2>3, WorkerForgetsNothing DEF RowIds, Settles
<1>7. CASE fail_placeholder_save(w)
  <2>1. /\ wk[w].pc \in Engaged
        /\ queue' = queue /\ api' = api /\ crashes' = crashes
        /\ runs' = [runs EXCEPT ![RunOf(w)] = [status |-> "failed", gen |-> wk[w].result.gen]]
        /\ \E new : wk' = [wk EXCEPT ![w] = new]
    BY <1>7 DEF fail_placeholder_save, save_run, Engaged, Settling, WorkerRests
  <2>2. /\ runs'[queue[wk[w].row].run].status = "failed"
        /\ \A j \in RowIds : j # wk[w].row => runs'[queue[j].run] = runs[queue[j].run]
        /\ \A r \in RunIds : runs'[r].status = "pending" => runs[r].status = "pending"
    <3>1. /\ runs'[RunOf(w)].status = "failed"
          /\ \A j \in RowIds : j # wk[w].row => runs'[queue[j].run] = runs[queue[j].run]
          /\ \A q \in RunIds : q # RunOf(w) => runs'[q] = runs[q]
      <4> DEFINE rec == [status |-> "failed", gen |-> wk[w].result.gen]
      <4>1. rec.status = "failed" /\ runs' = [runs EXCEPT ![RunOf(w)] = rec]
        BY <2>1
      <4> HIDE DEF rec
      <4>2. wk[w].pc \in Engaged /\ runs' = [runs EXCEPT ![RunOf(w)] = rec]
        BY <2>1, <4>1
      <4>3. /\ runs'[RunOf(w)] = rec /\ \A q \in RunIds : q # RunOf(w) => runs'[q] = runs[q]
            /\ \A j \in RowIds : j # wk[w].row => runs'[queue[j].run] = runs[queue[j].run]
        BY <4>2, RunWritten
      <4>4. QED BY <4>1, <4>3
    <3>2. QED BY <3>1 DEF RunOf
  <2>3. RowIds' = RowIds /\ \A v \in Workers : v # w => wk'[v] = wk[v]
    BY <1>0, <2>1 DEF RowIds
  <2>4. QED
    BY <2>1, <2>2, <2>3, WorkerForgetsNothing DEF Settles
<1>8. QED
  BY <1>1, <1>2, <1>3, <1>4, <1>5, <1>6, <1>7 DEF WorkerStep

LEMMA RequestForgetsNothing ==
  ASSUME IInv, OneDraw, NothingForgotten, NEW c \in Clients, ApiStep(c)
  PROVE  OneDraw' /\ NothingForgotten'
<1>0. /\ runs \in [RunIds -> StoredRun] /\ queue \in Seq(Row)
      /\ \A d \in Clients : \A new : api' = [api EXCEPT ![c] = new] =>
            api'[c] = new /\ (d # c => api'[d] = api[d])
      /\ \A i \in RowIds : queue[i].run \in RunIds
  BY RowFacts DEF IInv, TypeOK
<1>1. CASE create_run_queued(c)
  <2>1. PICK r \in RunIds : Fresh(r) /\ save_placeholder(r) /\ ApiGo(c, "placed", {r})
    BY <1>1 DEF create_run_queued
  <2>2. /\ queue' = queue /\ wk' = wk /\ crashes' = crashes /\ api[c].pc = "idle"
        /\ api'[c] = [pc |-> "placed", runs |-> {r}]
        /\ \A d \in Clients : d # c => api'[d] = api[d]
    BY <1>0, <1>1, <2>1 DEF create_run_queued, ApiGo
  <2>3. \A q \in RunIds : q # r => runs'[q] = runs[q]
    BY <1>0, <2>1 DEF save_placeholder, save_run
  <2>4. \A i \in RowIds : queue[i].run # r
    BY <2>1, FreshFacts
  <2>5. OneDraw'
    BY <2>2 DEF OneDraw
  <2>6. NothingForgotten'
    BY <1>0, <2>2, <2>3, <2>4 DEF NothingForgotten, RowIds
  <2>7. QED BY <2>5, <2>6
<1>2. CASE create_run_enqueue(c)
  <2>1. PICK r \in api[c].runs : enqueue(r)
    BY <1>2 DEF create_run_enqueue
  <2>2. /\ runs' = runs /\ wk' = wk /\ crashes' = crashes /\ api[c].pc = "placed"
        /\ api'[c] = [pc |-> "idle", runs |-> {}]
        /\ \A d \in Clients : d # c => api'[d] = api[d]
    BY <1>0, <1>2 DEF create_run_enqueue, ApiGo
  <2>3. r \in RunIds /\ api[c].runs = {r}
    BY <2>1, <2>2 DEF OneDraw
  <2>4. /\ RowIds' = RowIds \cup {Len(queue) + 1}
        /\ queue'[Len(queue) + 1].run = r /\ queue'[Len(queue) + 1].status = "pending"
        /\ \A j \in RowIds : queue'[j] = queue[j]
    <3>1. /\ Len(queue') = Len(queue) + 1
          /\ queue'[Len(queue) + 1]
               = [run |-> r, status |-> "pending", attempts |-> 0, wait |-> 0]
          /\ \A j \in RowIds : queue'[j] = queue[j]
      BY <1>0, <2>1, <2>3, EnqueueFacts
    <3>2. RowIds' = RowIds \cup {Len(queue) + 1}
      <4>1. Len(queue) \in Nat
        BY <1>0
      <4>2. QED BY <3>1, <4>1 DEF RowIds
    <3>3. QED BY <3>1, <3>2
  <2>5. OneDraw'
    BY <2>2 DEF OneDraw
  <2>6. NothingForgotten'
    BY <2>2, <2>3, <2>4 DEF NothingForgotten
  <2>7. QED BY <2>5, <2>6
<1>3. CASE create_run_sync(c)
  <2>1. /\ runs' = runs /\ queue' = queue /\ wk' = wk /\ crashes' = crashes
        /\ api[c].pc = "idle" /\ api'[c].pc = "executing"
        /\ \A d \in Clients : d # c => api'[d] = api[d]
    <3>1. PICK r \in RunIds : ApiGo(c, "executing", {r})
      BY <1>3 DEF create_run_sync
    <3>2. /\ api'[c] = [pc |-> "executing", runs |-> {r}]
          /\ \A d \in Clients : d # c => api'[d] = api[d]
      BY <1>0, <3>1 DEF ApiGo
    <3>3. QED BY <1>3, <3>2 DEF create_run_sync
  <2>2. QED BY <2>1 DEF NothingForgotten, OneDraw, RowIds
<1>4. CASE create_run_save(c)
  <2>1. PICK r \in api[c].runs, s \in {"completed", "failed"} :
          runs' = [runs EXCEPT ![r] = [status |-> s, gen |-> trace[r]]]
    BY <1>4 DEF create_run_save, save_run
  <2>2. /\ queue' = queue /\ wk' = wk /\ crashes' = crashes
        /\ api[c].pc = "executing" /\ api'[c].pc = "idle"
        /\ \A d \in Clients : d # c => api'[d] = api[d]
    BY <1>0, <1>4 DEF create_run_save, ApiGo
  <2>3. r \in RunIds /\ \A i \in RowIds : queue[i].run # r
    BY DEF IInv, TypeOK, OneOwner
  <2>4. /\ runs'[r].status # "pending"
        /\ \A q \in RunIds : q # r => runs'[q] = runs[q]
    BY <1>0, <2>1, <2>3
  <2>5. QED
    BY <1>0, <2>2, <2>3, <2>4 DEF NothingForgotten, OneDraw, RowIds
<1>5. QED
  BY <1>1, <1>2, <1>3, <1>4 DEF ApiStep

LEMMA NextForgetsNothing ==
  IInv /\ OneDraw /\ NothingForgotten /\ [Next]_vars => OneDraw' /\ NothingForgotten'
<1> SUFFICES ASSUME IInv, OneDraw, NothingForgotten, [Next]_vars
             PROVE  OneDraw' /\ NothingForgotten'
  OBVIOUS
\* After a crash the property says nothing.
<1>1. ASSUME NEW c \in Clients, ApiCrash(c) PROVE OneDraw' /\ NothingForgotten'
  BY <1>1 DEF ApiCrash, ApiGo, OneDraw, NothingForgotten, IInv, TypeOK
<1>2. ASSUME NEW w \in Workers, WorkerCrash(w) PROVE OneDraw' /\ NothingForgotten'
  BY <1>2 DEF WorkerCrash, OneDraw, NothingForgotten, IInv, TypeOK
<1>3. ASSUME Tick PROVE OneDraw' /\ NothingForgotten'
  <2>1. /\ runs' = runs /\ api' = api /\ wk' = wk /\ crashes' = crashes
        /\ RowIds' = RowIds
        /\ \A j \in RowIds : queue'[j].run = queue[j].run /\ queue'[j].status = queue[j].status
    BY <1>3, TickFacts DEF Tick, IInv, TypeOK, RowIds
  <2>2. QED BY <2>1 DEF OneDraw, NothingForgotten
<1>4. CASE UNCHANGED vars
  BY <1>4 DEF vars, OneDraw, NothingForgotten, RowIds
<1>5. QED
  BY <1>1, <1>2, <1>3, <1>4, WorkerStepForgetsNothing, RequestForgetsNothing DEF Next

\* While no process has died, a dead row's run becomes failed and a pending run
\* keeps its row or its request (process_once's handler, create_run).
THEOREM NoRunForgotten == Spec => []NothingForgotten
<1>1. Init => OneDraw /\ NothingForgotten
  BY DEF Init, StoreInit, OneDraw, NothingForgotten, NoRun, RowIds
<1>2. QED
  BY <1>1, NextForgetsNothing, Invariance, PTL DEF Spec
=============================================================================
