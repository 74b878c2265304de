----------------------------- MODULE RunService -----------------------------
(***************************************************************************)
(* The run service: API request threads (apps/api/aro_api/main.py,         *)
(* create_run), queue workers (apps/worker/aro_worker/main.py,             *)
(* process_once and the loop of main) and the store they share.  A step is *)
(* one store transaction or one stretch of code between two of them, so    *)
(* the threads and processes interleave where the program lets them.       *)
(*                                                                         *)
(* An exception inside process_once's try is Raise; one that escapes it    *)
(* (claim_next, or the handler's own store calls), a KeyboardInterrupt and *)
(* a killed process are all Crash.                                         *)
(***************************************************************************)
EXTENDS RunStore

CONSTANTS Clients,       \* API request threads
          Workers,       \* worker processes
          SkipLocked,    \* TRUE: Postgres, FOR UPDATE SKIP LOCKED; FALSE: SQLite
          MaxCrashes     \* bound on process deaths

ASSUME SkipLockedAssumption == SkipLocked \in BOOLEAN
ASSUME MaxCrashesAssumption == MaxCrashes \in Nat
\* pg_store.py: several workers are what the SQLite store cannot give.
ASSUME ClaimAssumption == SkipLocked \/ \A v, w \in Workers : v = w

VARIABLES trace,         \* executions that have opened (truncated) the run's trace file
          api,           \* what each request thread is doing
          wk,            \* what each worker is doing
          crashes

vars == <<runs, queue, trace, api, wk, crashes>>

ApiPc == {"idle", "placed", "executing"}
WorkerPc == {"poll", "selected", "claimed", "executing", "ran", "saved",
             "failing", "dead", "rewrite", "down"}

\* claim is the row dict that claim_next returned: it is not read again.
WorkerState == [pc : WorkerPc, row : Nat, attempts : Nat, result : StoredRun]

AtRest(pc) == [pc |-> pc, row |-> 0, attempts |-> 0, result |-> NoRun]

\* backoff_s * (2 ** (attempts - 1)), the value the configurations give Delay.
ExponentialBackoff(backoff_s) == [a \in 1..MaxAttempts |-> backoff_s * 2^(a - 1)]

Init == /\ StoreInit
        /\ trace = [r \in RunIds |-> 0]
        /\ api = [c \in Clients |-> [pc |-> "idle", runs |-> {}]]
        /\ wk = [w \in Workers |-> AtRest("poll")]
        /\ crashes = 0

-----------------------------------------------------------------------------
(* POST /api/runs.  runs is the singleton of the id this request drew.     *)

ApiGo(c, pc, rs) == api' = [api EXCEPT ![c] = [pc |-> pc, runs |-> rs]]

\* uuid4 is fresh: not stored, and not drawn by a request still executing.
Fresh(r) == runs[r].status = "none" /\ trace[r] = 0

create_run_queued(c) ==
  /\ api[c].pc = "idle"
  /\ \E r \in RunIds : Fresh(r) /\ save_placeholder(r) /\ ApiGo(c, "placed", {r})
  /\ UNCHANGED <<queue, trace, wk, crashes>>

create_run_enqueue(c) ==
  /\ api[c].pc = "placed"
  /\ \E r \in api[c].runs : enqueue(r)
  /\ ApiGo(c, "idle", {})
  /\ UNCHANGED <<runs, trace, wk, crashes>>

create_run_sync(c) ==
  /\ api[c].pc = "idle"
  /\ \E r \in RunIds : /\ Fresh(r)
                       /\ trace' = [trace EXCEPT ![r] = 1]
                       /\ ApiGo(c, "executing", {r})
  /\ UNCHANGED <<runs, queue, wk, crashes>>

create_run_save(c) ==
  /\ api[c].pc = "executing"
  /\ \E r \in api[c].runs, s \in {"completed", "failed"} :
        save_run(r, [status |-> s, gen |-> trace[r]])
  /\ ApiGo(c, "idle", {})
  /\ UNCHANGED <<queue, trace, wk, crashes>>

\* A request that dies between its two store calls (HTTP 500 or process death).
ApiCrash(c) ==
  /\ api[c].pc # "idle" /\ crashes < MaxCrashes
  /\ ApiGo(c, "idle", {})
  /\ crashes' = crashes + 1
  /\ UNCHANGED <<runs, queue, trace, wk>>

-----------------------------------------------------------------------------
(* process_once                                                            *)

WorkerGo(w, pc) == wk' = [wk EXCEPT ![w] =
  [pc |-> pc, row |-> wk[w].row, attempts |-> wk[w].attempts, result |-> wk[w].result]]

WorkerGot(w, pc, result) == wk' = [wk EXCEPT ![w] =
  [pc |-> pc, row |-> wk[w].row, attempts |-> wk[w].attempts, result |-> result]]

WorkerRests(w, pc) == wk' = [wk EXCEPT ![w] = AtRest(pc)]

RunOf(w) == queue[wk[w].row].run

\* Mutant: FOR UPDATE without SKIP LOCKED, each worker reading for itself.
LockedRows_None == {}

LockedRows == IF SkipLocked
              THEN {wk[w].row : w \in {v \in Workers : wk[v].pc = "selected"}}
              ELSE {}

\* claim_next: its SELECT ...
claim_select(w) ==
  /\ wk[w].pc = "poll"
  /\ \E i \in 1..Len(queue) :
        /\ IsNextClaim(i, LockedRows)
        /\ wk' = [wk EXCEPT ![w] = [pc |-> "selected", row |-> i,
                                    attempts |-> queue[i].attempts, result |-> NoRun]]
  /\ UNCHANGED <<runs, queue, trace, api, crashes>>

\* ... and its UPDATE, with the commit.
claim_update(w) ==
  /\ wk[w].pc = "selected"
  /\ mark(wk[w].row, "running")
  /\ WorkerGo(w, "claimed")
  /\ UNCHANGED <<runs, trace, api, crashes>>

\* claim_next returned None; main sleeps and polls again.
claim_none(w) ==
  /\ wk[w].pc = "poll"
  /\ \A i \in 1..Len(queue) : ~IsNextClaim(i, LockedRows)
  /\ UNCHANGED vars

\* Mutant: the row is acknowledged before the run is executed.
run_start_AckEarly(w) ==
  /\ wk[w].pc = "claimed"
  /\ mark(wk[w].row, "done")
  /\ trace' = [trace EXCEPT ![RunOf(w)] = trace[RunOf(w)] + 1]
  /\ WorkerGot(w, "executing", [status |-> "pending", gen |-> trace[RunOf(w)] + 1])
  /\ UNCHANGED <<runs, api, crashes>>

\* run_example opens the trace file with mode "w" before it does anything.
run_start(w) ==
  /\ wk[w].pc = "claimed"
  /\ trace' = [trace EXCEPT ![RunOf(w)] = trace[RunOf(w)] + 1]
  /\ WorkerGot(w, "executing", [status |-> "pending", gen |-> trace[RunOf(w)] + 1])
  /\ UNCHANGED <<runs, queue, api, crashes>>

run_return(w) ==
  /\ wk[w].pc = "executing"
  /\ \E s \in {"completed", "failed"} :
        WorkerGot(w, "ran", [status |-> s, gen |-> wk[w].result.gen])
  /\ UNCHANGED <<runs, queue, trace, api, crashes>>

\* Mutant: only a completed run is saved.
run_save_Completed(w) ==
  /\ wk[w].pc = "ran"
  /\ IF wk[w].result.status = "completed" THEN save_run(RunOf(w), wk[w].result)
                                          ELSE UNCHANGED runs
  /\ WorkerGo(w, "saved")
  /\ UNCHANGED <<queue, trace, api, crashes>>

run_save(w) ==
  /\ wk[w].pc = "ran"
  /\ save_run(RunOf(w), wk[w].result)
  /\ WorkerGo(w, "saved")
  /\ UNCHANGED <<queue, trace, api, crashes>>

\* Mutant: the run's status is written where the queue's belongs.
mark_done_RunStatus(w) ==
  /\ wk[w].pc = "saved"
  /\ mark(wk[w].row, wk[w].result.status)
  /\ WorkerRests(w, "poll")
  /\ UNCHANGED <<runs, trace, api, crashes>>

mark_done(w) ==
  /\ wk[w].pc = "saved"
  /\ mark(wk[w].row, "done")
  /\ WorkerRests(w, "poll")
  /\ UNCHANGED <<runs, trace, api, crashes>>

\* Injected failure, unknown example, tool crash, or a store call that raised.
Raise(w) ==
  /\ wk[w].pc \in {"claimed", "executing", "ran", "saved"}
  /\ WorkerGo(w, "failing")
  /\ UNCHANGED <<runs, queue, trace, api, crashes>>

\* Mutants: one attempt too many; a dead letter that leaves the placeholder alone.
handle_retry_OneMore(w) ==
  /\ wk[w].pc = "failing" /\ wk[w].attempts + 1 <= MaxAttempts
  /\ retry(wk[w].row, wk[w].attempts + 1)
  /\ WorkerRests(w, "poll")
  /\ UNCHANGED <<runs, trace, api, crashes>>

handle_dead_RowOnly(w) ==
  /\ wk[w].pc = "failing" /\ wk[w].attempts + 1 >= MaxAttempts
  /\ mark_dead(wk[w].row, wk[w].attempts + 1)
  /\ WorkerRests(w, "poll")
  /\ UNCHANGED <<runs, trace, api, crashes>>

\* The except clause.
handle_retry(w) ==
  /\ wk[w].pc = "failing" /\ wk[w].attempts + 1 < MaxAttempts
  /\ retry(wk[w].row, wk[w].attempts + 1)
  /\ WorkerRests(w, "poll")
  /\ UNCHANGED <<runs, trace, api, crashes>>

handle_dead(w) ==
  /\ wk[w].pc = "failing" /\ wk[w].attempts + 1 >= MaxAttempts
  /\ mark_dead(wk[w].row, wk[w].attempts + 1)
  /\ WorkerGo(w, "dead")
  /\ UNCHANGED <<runs, trace, api, crashes>>

\* _fail_placeholder: get_run ...
fail_placeholder_read(w) ==
  /\ wk[w].pc = "dead"
  /\ IF runs[RunOf(w)].status = "none"
     THEN WorkerRests(w, "poll")
     ELSE WorkerGot(w, "rewrite", runs[RunOf(w)])
  /\ UNCHANGED <<runs, queue, trace, api, crashes>>

\* ... then save_run of the record read, with status FAILED.
fail_placeholder_save(w) ==
  /\ wk[w].pc = "rewrite"
  /\ save_run(RunOf(w), [status |-> "failed", gen |-> wk[w].result.gen])
  /\ WorkerRests(w, "poll")
  /\ UNCHANGED <<queue, trace, api, crashes>>

WorkerCrash(w) ==
  /\ wk[w].pc # "down" /\ crashes < MaxCrashes
  /\ WorkerRests(w, "down")
  /\ crashes' = crashes + 1
  /\ UNCHANGED <<runs, queue, trace, api>>

WorkerRestart(w) ==
  /\ wk[w].pc = "down"
  /\ WorkerRests(w, "poll")
  /\ UNCHANGED <<runs, queue, trace, api, crashes>>

Tick == /\ \E i \in 1..Len(queue) : queue[i].wait > 0
        /\ TickRows
        /\ UNCHANGED <<runs, trace, api, wk, crashes>>
-----------------------------------------------------------------------------
ApiStep(c) == \/ create_run_queued(c) \/ create_run_enqueue(c)
              \/ create_run_sync(c) \/ create_run_save(c)

WorkerStep(w) == \/ claim_select(w) \/ claim_none(w) \/ claim_update(w)
                 \/ run_start(w) \/ run_return(w) \/ run_save(w) \/ mark_done(w)
                 \/ Raise(w) \/ handle_retry(w) \/ handle_dead(w)
                 \/ fail_placeholder_read(w) \/ fail_placeholder_save(w)

Next == \/ \E c \in Clients : ApiStep(c) \/ ApiCrash(c)
        \/ \E w \in Workers : WorkerStep(w) \/ WorkerCrash(w) \/ WorkerRestart(w)
        \/ Tick

Spec == Init /\ [][Next]_vars

\* main's loop keeps polling and nothing in it blocks; a worker that died is
\* restarted (the Deployment in infra/k8s); a request that has begun is run to
\* its end; the clock advances.  Nothing makes a client send a request.
Fairness == /\ \A w \in Workers : WF_vars(WorkerStep(w)) /\ WF_vars(WorkerRestart(w))
            /\ \A c \in Clients : WF_vars(create_run_enqueue(c) \/ create_run_save(c))
            /\ WF_vars(Tick)

FairSpec == Spec /\ Fairness
-----------------------------------------------------------------------------
(* Properties *)

TypeOK == /\ runs \in [RunIds -> StoredRun]
          /\ queue \in Seq(Row)
          /\ trace \in [RunIds -> Nat]
          /\ api \in [Clients -> [pc : ApiPc, runs : SUBSET RunIds]]
          /\ wk \in [Workers -> WorkerState]
          /\ crashes \in 0..MaxCrashes

RowIds == 1..Len(queue)

Holding == {"claimed", "executing", "ran", "saved", "failing"}
Settling == {"dead", "rewrite"}
Engaged == {"selected"} \cup Holding \cup Settling

\* No two workers ever work on the same queue row: what FOR UPDATE SKIP LOCKED
\* is for (pg_store.claim_next), and what SQLite gives one worker only.
ExclusiveClaim ==
  \A v, w \in Workers :
     v # w /\ wk[v].pc \in Engaged /\ wk[w].pc \in Engaged => wk[v].row # wk[w].row

\* The row dict a worker carries from claim_next to its last store call is never
\* stale: mark, retry and mark_dead update by id without testing the row again.
ClaimCurrent ==
  \A w \in Workers :
     wk[w].pc \in Engaged =>
        /\ wk[w].row \in RowIds
        /\ wk[w].pc = "selected" => queue[wk[w].row].status = "pending"
        /\ wk[w].pc \in Holding => queue[wk[w].row].status = "running"
        /\ wk[w].pc \in Settling => queue[wk[w].row].status = "dead"
        /\ wk[w].pc \notin Settling => queue[wk[w].row].attempts = wk[w].attempts

\* process_once's attempt budget: a row is dead-lettered at exactly MaxAttempts
\* failures, and no run is executed (its trace rewritten) more often than that,
\* crashes and failures after the run was saved included.
AttemptBudget ==
  \A i \in RowIds :
     /\ IF queue[i].status = "dead" THEN queue[i].attempts = MaxAttempts
                                    ELSE queue[i].attempts < MaxAttempts
     /\ trace[queue[i].run] <= IF queue[i].status \in {"running", "done"}
                               THEN queue[i].attempts + 1 ELSE queue[i].attempts

\* A row marked done has its run recorded with a final status, and the record
\* and the trace file are of the same, last execution: save_run comes before
\* mark, and a retry rewrites both.
DoneIsRecorded ==
  \A i \in RowIds :
     queue[i].status = "done" =>
        /\ runs[queue[i].run].status \in {"completed", "failed"}
        /\ runs[queue[i].run].gen = trace[queue[i].run]
        /\ trace[queue[i].run] > 0

\* While no process has died, every dead row's run is failed as soon as the
\* worker that dead-lettered it has finished _fail_placeholder, and every
\* pending run has its queue row or a request that is about to insert it.
NothingForgotten ==
  crashes = 0 =>
     /\ \A i \in RowIds :
           queue[i].status = "dead" =>
              \/ runs[queue[i].run].status = "failed"
              \/ \E w \in Workers : wk[w].pc \in Settling /\ wk[w].row = i
     /\ \A r \in RunIds :
           runs[r].status = "pending" =>
              \/ \E i \in RowIds : queue[i].run = r
              \/ \E c \in Clients : api[c].pc = "placed" /\ r \in api[c].runs

\* Once a row is done, neither its run's record nor its trace file is written
\* again, by any worker or request.
DoneRecordFrozen ==
  [][\A i \in RowIds :
        queue[i].status = "done" =>
           /\ runs'[queue[i].run] = runs[queue[i].run]
           /\ trace'[queue[i].run] = trace[queue[i].run]]_vars

\* The queue rows obey the contract of store.py's docstring.
RowsView == [i \in RowIds |-> [status |-> queue[i].status, attempts |-> queue[i].attempts]]

Contract == INSTANCE QueueContract WITH rows <- RowsView

ImplementsContract == Contract!Spec

\* A run that is queued is executed or dead-lettered in the end.
QueuedRunSettles ==
  \A r \in RunIds : runs[r].status = "pending" ~> runs[r].status \in {"completed", "failed"}

-----------------------------------------------------------------------------
(* The inductive invariant behind ExclusiveClaim, ClaimCurrent,            *)
(* AttemptBudget and DoneIsRecorded: who may still write a run's record    *)
(* and trace, and what a worker's local result says about them.            *)

\* At most one queue row and one unfinished request for every run id, and never
\* both; only a request that executes inline has opened the trace.
OneOwner ==
  /\ \A i, j \in RowIds : queue[i].run = queue[j].run => i = j
  /\ \A c, d \in Clients : c # d => api[c].runs \cap api[d].runs = {}
  /\ \A c \in Clients : api[c].pc = "idle" => api[c].runs = {}
  /\ \A c \in Clients : \A r \in api[c].runs :
        /\ \A i \in RowIds : queue[i].run # r
        /\ api[c].pc = "placed" => runs[r].status = "pending" /\ trace[r] = 0
        /\ api[c].pc = "executing" => runs[r].status = "none" /\ trace[r] = 1
  /\ \A i \in RowIds : runs[queue[i].run].status # "none"

\* What a worker knows of the execution it is recording.
ResultCurrent ==
  \A w \in Workers :
     /\ wk[w].pc = "claimed" => trace[RunOf(w)] <= wk[w].attempts
     /\ wk[w].pc \in {"executing", "ran", "saved"} =>
           wk[w].result.gen = trace[RunOf(w)] /\ trace[RunOf(w)] > 0
     /\ wk[w].pc \in {"ran", "saved"} => wk[w].result.status \in {"completed", "failed"}
     /\ wk[w].pc = "saved" => runs[RunOf(w)] = wk[w].result

IInv == /\ TypeOK /\ ExclusiveClaim /\ ClaimCurrent /\ AttemptBudget
        /\ DoneIsRecorded /\ OneOwner /\ ResultCurrent
=============================================================================
