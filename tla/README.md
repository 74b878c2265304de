# TLA+ models of the agent-runtime observatory

A specification of the parts of this repository whose correctness rests on more
than one step: the run service (API, queue, workers, store), the executor with
its traces, review debt and its gauges, and, in the clinic, the chains of stages
that prepare pairs, the live arms, the pairs of Protocol v1, v2 and Phase 6 with
their evaluations and outcomes, the evidence index, the protocol documents, the
Route B1 probe and the snapshots of agent state. The modules are translated from
the code, checked with TLC on small instances and, where it pays most, proved
with TLAPS for all instances.

`PROJECT.json` lists the components, the runs, the source lines of every
definition, the hazards that the properties are for, and, for each property, a
mutant of the code that breaks it. Mutants stand next to the definition they
change, named for it or with a leading `X_`; no specification uses them.

## 1. Inventory

### Observatory

| Part | Source | State | Operations | What is hard | What makes it correct |
|---|---|---|---|---|---|
| store | `packages/runtime/aro_runtime/store.py`, `pg_store.py` | tables `runs`, `queue`, `attestations` | `save_run`, `save_placeholder`, `enqueue`, `claim_next`, `mark`, `retry`, `mark_dead`, `save_attestation`, `get_run`, `list_*`, `all_runs` | each call is a transaction, sequences of calls are not; `save_run` overwrites | a row goes pending, running, done or back; a claim is exclusive |
| worker | `apps/worker/aro_worker/main.py` | the claimed row as a dict, the execution under way | `process_once`, `_fail_placeholder`, the polling loop | stale row dict, failure after the run was saved, death between any two calls | attempt budget, done has its record, nothing is forgotten |
| run creation | `apps/api/aro_api/main.py` | request threads | `create_run`, sync and queued | two store calls, death between them | every queued run settles |
| rate limiter | `apps/api/aro_api/main.py` | window start, count | `allow` | boundary of the window | at most n per window |
| executor | `executor.py`, `policy.py`, `tools.py`, `script.py` | locals of `execute_script`, workspace | the loop over steps | order of events, denied and failed steps that later ones refer to | the trace is the record; changes are accounted for |
| trace, replay | `trace.py`, `replay.py` | `data/traces/<run>.jsonl` | `event`, `load_trace`, `replay_trace` | a file cut off anywhere | what is cut is found, nothing else |
| attestations, review debt | `apps/api/aro_api/main.py`, `aro_schema/review_debt.py`, `digests.py` | `attestations`, the record they are about | `create_attestation`, `compute_review_debt` | check, then store, while the run is overwritten; old versions on the books | cleared only accountably; a lost clearing is flagged |
| gauges | `aro_telemetry/metrics.py` | module-level Prometheus gauges | `/metrics` | scrapes in a thread pool, clear and set without a lock | a quiet scrape is true |
| tracing, evals, schema, web, infra | `otel.py`, `aro_evals`, `models.py`, `apps/web`, `infra` | none of their own | export, comparison, rendering, configuration | - | - |

Processes share state through the store and the trace file of a run only, which
every execution of the run truncates. The API runs synchronous endpoints in a
thread pool, so that requests interleave in one process.

### Clinic (`packages/clinic/src/wutai_clinic`)

| Part | Source | State | Operations | What is hard | What makes it correct |
|---|---|---|---|---|---|
| live arm, v2 | `adapters/sweagent_protocol_v2_live.py`, `intervention/protocol_v2_hook.py`, `hybrid_runner.py` | replay position, hook state, audit events, report | gates, `query`, `before_action`, `after_action`, report | callbacks of an agent that asks again and may swallow exceptions | generation is constrained, an observed arm is not, only a clean arm is paired |
| pair pipeline, v2 | `orchestration/`, `adapters/sweagent_protocol_v2_pair.py`, `..._official_eval.py`, label of `protocol_v2_batch_outcomes.py` | the files under the evidence root | `advance_batch`, `infer_pair_state`, assembly, official evaluation, clearing | no state but files; processes die between and within writes; leftovers of earlier attempts | a label is earned; only a clearing takes a pair back |
| snapshots | `kernel/state_snapshot.py` | copies and manifest | `take_snapshot`, `verify_snapshot`, `restore_snapshot` | file by file, no lock, overwrites an older snapshot | a restore that returns is proved |
| preparation, v2 | `intervention/protocol_v2_fresh_candidates.py`, `..._pair_inputs.py`, `..._dry_run.py`, `..._planned_preflight.py` | pair inputs, reports and lists of each stage | one stage each, in any order, several writes each | a stage believes what earlier ones wrote; evaluations end meanwhile; deaths between writes | what is admitted was fresh, grounded and screened |
| preparation, v1 | `intervention/protocol_v1.py`, `..._dry_run.py`, `..._hook_preflight.py`, `..._fresh_candidates.py`, `adapters/sweagent_protocol_v1_preflight.py` | plan, reports | one stage each | plan edited between stages, counts over all rows | a passed plan is prepared; no stage refuses what another accepted |
| batch outcomes | `intervention/protocol_v1_batch_outcomes.py`, `..._v2_...` | none | rows, counts, gates, decision | two copies of one rule, order of branches | the copies agree; worse is never better |
| route B1 arm | `adapters/sweagent_b1_live.py`, `intervention/protocol_b1_hook.py` | hook state; patch and report of each arm | scan, run, capture at the first query, archive, report | the agent queries many times, may crash or raise; files of earlier executions stay | a leaking capture is void, an injection is made once |
| pair, v1 | `adapters/sweagent_protocol_v1_pair.py`, `..._official_eval.py` | the files of arms, pair and evaluation | commands of the operator | arms executed again over their files | a label is earned |
| pair, Phase 6 | `adapters/sweagent_live.py`, `..._live_pair.py`, `..._live_preflight.py`, `..._phase6_official_eval.py`, `..._official_pair.py`, `intervention/hybrid_runner.py`, `replay_protocol.py` | capsules, reports, patches, pair and evaluation directories | arms, audit, preflight, evaluation, official pair | requeries, repeated commands, deaths, one native output for both arms | injected at the fork only; a label compares like with like |
| protocol documents | `intervention/protocol_b1.py`, `protocol_v2.py`, `route_b1.py`, `b1_issue_repro.py`, `cli.py` | JSON files edited by hand | load, plan, preflight, live arm | no live command asks what the preflight decided | the agent is shown no piece of the answer |
| route B1 decision | `intervention/route_b1*.py`, `kernel/manipulation_checks.py` | none | cells, anchors, verdict | reports and labels of different executions, crashed runs, missing cells | the verdict is what the runs show |
| intervention package, Phase 3 | `intervention/planner.py`, `hooks.py`, `runner.py`, `evaluator.py`, `attribution.py`, `closed_loop.py`, `stability.py`, `batch_readiness.py` | package, arms done, pair summaries | planning, injection, resumption, evaluation, decisions | quotas and caps over two passes; requeries and reruns; one count against another | plans are fair, hooks fire on time, ready means treated |
| evidence index and harvest | `evidence/inventory.py`, `intervention/fresh_target_harvest.py` | evaluation reports in several trees, index, plan, harvest report | evaluation, indexing, planning, harvest | an index of an earlier day; torn and hidden reports | a harvested target is unseen |
| diagnosis and statistics | `engine/*.py`, `kernel/paired_stats.py` | none | scores over trajectories, exact tests | numerics | - |
| chain gates, manifests | `evidence/chain.py`, `registry.py`, `manifest_tool.py`, `workflow_doctor.py` | manifest | one pass over files | - | - |
| I/O, reports, CLI, scripts | `io/`, `schemas/`, `reporting/`, `cli.py`, `scripts/` | none | serialisation, rendering, dispatch | - | - |

The orchestrator never executes an arm: it prompts the operator, whose commands
run the live arm and the official evaluation as processes of their own. They
meet only in the files.

## 2. Modules

```
RunStore <--- RunService <--- RunServiceProofs          run service
                 |  INSTANCE QueueContract WITH rows <- RowsView
ReviewDebt <--- DebtGauges <--- ReviewDebtProofs        review debt and gauges
Executor <--- ExecutorProofs                            execution and replay
V2Pair <--- V1Pair <--- V2PairProofs                    pairs
LiveSingle, RouteB1 <--- ArmsProofs                     arms
Preparation, Evidence, V1Chain <--- PreparationProofs   chains of stages
Interventions <--- InterventionsProofs
StateSnapshot, CapsulePair, Protocols, Outcomes <--- RecordsProofs
                                                        what is recorded
```

`MCRunService`, `MCDebtGauges`, `MCExecutor`, `MCV2Pair` and `MCRouteB1` give one
module's constants their values. `MCReviewDebt` runs `MCDebtGauges` in two parts: requests
that interleave, or requests one at a time and a scrape. `MCArms` (RouteB1, LiveSingle, V1Pair),
`MCChains` (Preparation, V1Chain, Interventions) and `MCRecords` (Executor, StateSnapshot,
CapsulePair, Evidence, Outcomes, Protocols) hold several modules that share no
state: a behaviour chooses one of them at the start (`part`), and the others stay in
their initial state. Such a run is the union of the runs of its parts. The modules
are extended, so that the runs check the very definitions that the theorems name;
the definitions of a module that shares a run are therefore told apart by their names
(`LiveSpec`, `ExecSpec`, `CapsuleSpec`, `PrepSpec`, `EvidenceSpec`, `V1ChainSpec`, ...).

**RunStore** is the two tables of the queue: one operator per store call, with
`Claimable` and `IsNextClaim` for the SELECT of `claim_next` (`SkipLocked`
distinguishes Postgres from SQLite). Time is the ticks a row has to `wait`.
A run's record is its status and the number of the execution it is of.

**QueueContract** is the diagram in the docstring of `store.py`: what may happen
to a row. It is the abstract specification; `RunService` implements it under
`RowsView`.

**RunService** composes request threads, workers and store. A worker walks
through `process_once` one store call at a time (`claim_select`, `claim_update`,
`run_start`, `run_return`, `run_save`, `mark_done`); an exception inside the
`try` is `Raise` and leads to `handle_retry` or `handle_dead`, then
`fail_placeholder_read` and `_save`. What the row dict said at the claim is a
local of the worker (`attempts`), as in the code. `WorkerCrash` and `ApiCrash` are
deaths between any two steps.

**ReviewDebt** has the stored record and attestations of each run, reviewers
between the checks of `create_attestation` and its `save_attestation`, and the
overwriting of records. `canonical_subject` is the content a digest is of.
`save_attestation` is two steps: `created_at` is taken before the INSERT is executed
and outside any lock (`pg_store.py`; `store.py` takes it within its lock, so that there
the two steps are adjacent). The attestations of a run are therefore a function from
stamps, by which `list_attestations` orders them, and not a list in the order of the
inserts.
**DebtGauges** adds scrapes to it: the reads of runs and attestations, the three
`clear()`, the `set()` and the rendering are steps of their own.

**Executor** runs `execute_script` as a function from locals to locals
(`Iterate`), so that replay, which runs the same code again, is the same function
on a fresh workspace; between iterations the events go to the file one by one. The
loop (`Executed`) and the reading of a trace file (`Loaded`) are recursive functions of
the number of steps and lines.

**LiveSingle** is one arm of Protocol v1 or v2. Commands are classes (`Actions`),
one of which may satisfy several of the hook's token tests. The agent is external: it may query
again, run hooks or none, exit, or swallow what a hook raises (`Swallows`).

**V2Pair** is one pair. Every file that decides something is a field; where the
code stores contents or hashes, the model has the number of the execution the
content is of, so that a stale file is a file with an old number. A report may be
torn by the death of its writer.

**V1Pair** is the Protocol v1 pair as the v2 pair with other gates, decisions and
writes: every operation of v1 that differs is an operator `V1_...`, the rest is
taken from `V2Pair`. There is no orchestrator and no state inference; the operator
gives one command after the other, archives no patch under a pair report, assembles
nothing under an evaluation, and takes a pair back together with its evaluation.
The outcomes he supplies are modelled as sourced or unsourced.

**CapsulePair** is the Phase 6 pair: candidate with its protocol, arms that replay,
materialize a capsule at the fork, verify it against a reference and inject,
preflight, pair audit, evaluation and official pair. A capsule is the state it
fingerprints, every other file the execution it is of. Both arms run on one
configuration and write their patch to one native directory. All calls use one
candidate row; no file is torn; the message injected lives in the list of messages
given to one query.

**Preparation** has the stages of v2 as commands that read, then write file by file
(`stage.pc`), so that an evaluation may end, a trajectory be made again or the
process die in between. Its Init holds no report; candidate files give rows that
lack fields, compete for one identity, or for one task.

**V1Chain** has the stages of v1 as functions of the plan as it is and of the report
of the stage before, with a fault put into the plan by hand between them. The hook
goes through its harness action by action (`Hooked`); what it saw is the set of the flags
of its runtime state.

**Interventions** is Phase 3: `select_records`, whose passes take up one candidate after
the other, called for the eight slots in turn (recursive functions over the candidates
left and over the slots), both hooks with their dry runs, arms that are repeated after a death, summaries, and the
three decision reports evaluated on every prefix of the summary. Bridge plan,
schedule and pair summary are made outside `src/`; arms run and pairs are evaluated
in the order of the plan; quotas, caps and pair numbers are constants.

**Evidence** has evaluation reports in several trees (complete, torn, blocked), the
index of them, the harvest plan made of an index that may be old, and the harvest
that executes the plan instance by instance. What the root held when the index was
made is kept as history (`seen`, `known`).

**Outcomes** is pure: the evidence of each pair of a batch to rows, counts, gates,
decision and policy, for v1 and v2.

**Protocols** has the B1 and v2 documents as functions from fields to classes of
values (absent, null, right, other, a piece of the answer, ...), one edit by hand,
loading, the B1 plan, the anti-leak preflight, and the live arm with its extraction
and leak scan.

**RouteB1** is the probe: a process per cell that executes or only plans its arm,
the official evaluation of the patch in its directory, and cells and decision as
operators over the files (`assembled`, `anchor_verdict`, `route_b1_decision`). As
in `V2Pair` a patch and a label carry the number of the execution they are of.
`leaked` and `shown` are history: what the runs did, whatever was written of it.

**StateSnapshot** copies, hashes, verifies, restores and proves file by file
while the agent writes, copies get damaged and the process dies. A hash is the
content it is of. One call runs at a time, as a caller would have it.

## 3. Runs

| Run | Instance | Shows |
|---|---|---|
| `pg_workers` | 2 runs, 2 request threads, 2 workers, 3 attempts, 2 deaths | `ExclusiveClaim`, `ClaimCurrent` (the row dict is never stale), `AttemptBudget`, `DoneIsRecorded`, `NothingForgotten` (without deaths), `DoneRecordFrozen`, `ImplementsContract` |
| `queue_liveness` | 2 runs, 2 workers, 2 attempts, no death | `QueuedRunSettles` under fairness |
| `queue_crash` (violated) | 1 worker, 1 death | the same property once a process may die: a claimed row stays running for ever |
| `review_debt` | 1 run, 3 records, a revoked attestation, 2 overwrites, 2 requests at a time, 2 stamps | `ClearedIsAccountable`, `ClearingIsStable` (a clearing stands but for a request with an older stamp, and is never lost silently) |
| | the same with 1 scrape, 1 request at a time, 1 stamp | `QuietScrapeIsTrue`, `EachItemCountedOnce` |
| `two_scrapes` (violated) | 2 scrapes | `QuietScrapeIsTrue` fails: one scrape renders what the other has just cleared |
| `pairs` | v2: 4 executions, 5 outcomes of an arm, 2 deaths | `LabelIsEarned`, `ScorecardIsEvidenced`, `AssemblyIsDecided` (liveness) |
| `eval_complete` (violated) | 2 executions | an evaluation that was only planned is shown as complete |
| `arms` | B1: a control and a treatment, 3 executions, 1 death | `LeakIsVoid`, `VerdictIsOfTheRuns` |
| | one arm of v1 or v2: up to 5 queries over 7 classes of action, all gate flags | `GenerationIsConstrained`, `JudgedOnThePast`, `AssemblyIsSound` (what an arm allowed into assembly guarantees: the whole prefix was replayed, and a block it hides was the end of the run, its action not executed) |
| | v1 pair: 3 executions of 4 outcomes, 1 death | `V1LabelIsEarned` |
| `swallowed_block` (violated) | the same instance | `BlockIsReported` fails: an arm whose block SWE-agent swallowed is reported as completed |
| `b1_counted` (violated) | 1 execution | a rep counts as injected though its agent was shown nothing |
| `chains` | v2: 5 candidate files, 5 calls, 1 death, 1 evaluation or audit | `AdmittedWasFresh`, `AdmissionIsGrounded`, `AdmittedReplayIsScreened` |
| | v1: 3 pairs of 2 tasks, 2 diagnosed, 1 fault in the plan | `PassedChainIsPrepared`, `NoStageDisagrees` (a built plan passes the dry run; of a plan that did, the adapter preflight refuses for want of a config only; the hook preflight accepts what that accepted) |
| | Phase 3: 3 files of diagnosed rows, quotas 2 and 1, caps of 1, 1 death | `PlanIsFair`, `HooksFireOnTime`, `ReadyIsTreated` |
| `records` | traces: every script of up to 3 of 6 steps, 4 bundles (one denies by default), an unknown tool, a crash after any event | `TraceIsRecord`, `CutTraceIsSound`, `ReplayFindsTheCut`, `ChangesAreAccounted` |
| | snapshots: 2 files, 3 contents, 4 calls, 2 writes or damages | `RestoreIsProved` |
| | Phase 6 pair: 2 candidates, 2 states, 3 executions, 1 death, 1 evaluation | `InjectedAtTheFork`, `LabelIsComparable` |
| | evidence: 3 places, 3 tasks, 2 evaluations, 3 calls, 1 death | `HarvestIsUnseen` |
| | documents: 1 edit of any field of either | `LiveIsClean` (of the answer: without the task's gold row its words only) |
| | outcomes: batches of up to 3 of 16 kinds of pair | `BatchRuleHolds` (the two protocols agree on batches of fresh pairs in order; in any batch worse is never better) |

### Why these bounds are enough

* `pg_workers`: two of everything is what it takes for two workers to reach for
  one row, for a worker to hold a row while another settles one, and for two
  requests to interleave; three attempts have a first, a middle and a last. The
  theorems hold for any number.
* `review_debt`: an item can be cleared, lose its subject, be cleared again under
  the new one and get the old one back in two overwrites; two attestations and a
  legacy one compete for one item, and two requests at a time insert them in the
  other order than they were stamped in. There is one decision id: items are
  independent of each other in `compute_review_debt`. A scraped run has one stamp beside
  the legacy one: an item can be open, cleared and stale in turn, and what a scrape tells
  apart is whether anything was stored while it ran.
* `arms`: the repeated-failure constraint needs a streak of three and one more
  action; five queries give a prefix of one and that. Three B1 executions are a
  control and a treatment, one of them executed again; one anchor, because the
  decision looks at anchors one by one; arms run one at a time (`MaxParallel`),
  they share no file, and the theorem is for any number of both. Three executions of
  v1 arms are a pair and one arm executed over its own files.
* `pairs`: four executions are a pair and one more of each arm, or one arm executed
  three times; two deaths tear a report and interrupt a later step.
* `chains`: five calls are the four stages and one of them again at any place. Two
  tasks let rows compete for one task and leave one for the other. Two diagnosed v1
  pairs are what it takes for one row to make up for another in a sum. With caps of
  1 and quotas of 2 the first pass of `select_records` leaves room for the second.
* `records`: three steps hold a step, one that refers to it and one that refers
  to that one; steps may also refer ahead, or to a step that failed or was denied. Four calls are two snapshots into one directory and two restores. Three
  executions are a pair and one arm again between audit and evaluation. Two
  evaluations of one task give one report that hides the other; three calls are an
  index, a plan and a harvest. One edit suffices where each field is read by itself.
  Batches of three are one more than the target of two.

Deadlock is off where the program stops: a run that ended, an arm that reported,
a pair with its label, spent bounds. `RunService` and `DebtGauges` never stop.

### Fairness

* `RunService`: weak fairness of each worker's step and restart (the polling loop
  blocks nowhere, the Deployment restarts the container), of a request that has
  begun, and of the clock. None for clients, failures or deaths. A failure is
  bounded by the attempt budget, which is why `QueuedRunSettles` needs no fairness
  of success.
* `V2Pair`: weak fairness of the orchestrator, which is invoked again and again
  until the batch is complete. None for the operator or the evaluation.
* The other properties are safety properties.

## 4. Proofs

`RunServiceProofs` proves, for any sets of runs, clients and workers and any
`MaxAttempts` and `Delay`, that the run service keeps

    IInv == TypeOK /\ ExclusiveClaim /\ ClaimCurrent /\ AttemptBudget
            /\ DoneIsRecorded /\ OneOwner /\ ResultCurrent

The checked invariants are not inductive by themselves. `AttemptBudget` and
`DoneIsRecorded` speak of the trace file, which a request could truncate, or a
second row of the same run: `OneOwner` says that there is at most one row or one
unfinished request per run id. `mark` believes the worker's locals:
`ResultCurrent` says that the result a worker carries is of the execution that
wrote the trace last, and, once saved, is what is stored. There is one lemma per
group of actions, and the theorems `TypeCorrect`, `ClaimsAreExclusive`,
`ClaimsAreCurrent`, `BudgetIsKept`, `DoneHasRecord`, `DoneIsFrozen` (from `IInv`
before the step) and `RefinesContract` (each action is a step of `QueueContract`
or stutters). Assumptions: `MaxAttempts` is a positive number, `Delay` gives
numbers, and there are several workers only on the store that skips locked rows
(`ClaimAssumption`, as `pg_store.py` states). The last is used in one place:
the claim is exclusive because of it.

`NoRunForgotten` proves `NothingForgotten`, which is inductive beside `IInv` once it
is known that a request which has placed its run holds that run only (`OneDraw`). One
lemma covers every step of a worker: a row that is dead afterwards has a failed run,
or is this worker's to settle, or was dead before and is not this worker's.

`ReviewDebtProofs` proves, for any runs, records, reviewers and attestations on the
books, `DebtIsAccountable` (`ClearedIsAccountable`) and `ClearingStays`
(`ClearingIsStable`). `DebtInv` adds to the types that every attestation stored, or
accepted and not stored yet, is `Accountable`: if its digest is of version 2 and it
names items to clear, its seat is one of the seats of the subject it signed. The
record may be overwritten before the attestation is stored; what carries over is the
digest, which has to match the record as it is stored now, seats included. `ClearingStays`
says that, while the subject stays, the stamp that clears an item stays the same or gives
way to an older one whose insert was still on its way, and that a clearing that is lost is
flagged. It needs that a stamp is held by one request at most and is not on the books
before its insert (`StampsAreUnique`), that the attestations of a run only grow, by one
insert of a request on its way (`AttestationsGrow`), so that the clearing ones do while
the subject stays, and that the first of them exists (`LeastExists`, from the
well-foundedness of < on Nat). That inserts come in the order of their stamps is
assumed nowhere. Assumptions: the records are
records (`RecordsAssumption`), and what is on the books from before carries a digest
of version 1 (`LegacyAssumption`).

`V2PairProofs` proves `LabelsAreEarned` (`LabelIsEarned`) and
`ScorecardsAreEvidenced` (`ScorecardIsEvidenced`) for any executions of the arms, any
number of them and of deaths of processes, and assumes nothing of the constants. A
label is written by an evaluation that read the pair report, which was written by an
orchestrator that read the arms, which other commands write; `PairInv` says of each
of these files, and of what each process read and still uses, that it is of the same
executions: `ArmsAreWhole`, `LiveIsAlone` (while an arm runs nothing that comes after
it exists), `OrchIsCurrent` (the arms do not change under the orchestrator that read
them), `ArchiveIsOfArms`, `ReadyIsSound`, `EvalIsOfPair`, `CompletedIsLogged`. It
holds because the prompts keep the order (section 5).

`RecordsProofs` has four parts.

* Snapshots: `SnapshotTypeCorrect` and `RestoreProved`, for any files, contents and
  bounds. `IInv` adds `ManifestIsAMoment` (a manifest whose files the agent left alone is
  of one moment) and `ProofSoFar` (the files that the proof loop has been through are as
  the manifest has them; the hashes taken so far are of what the files were at the
  start). Nothing is assumed of the stored copies: the proof shows that verification
  before the restore is not needed for the property, only the proof after it is.
* Phase 6 pair: `RunsAreInjectedAtTheFork` and `LabelsAreComparable`, for any states,
  candidates, endings and numbers of executions, evaluations and deaths. `CInv` follows
  what an execution was (`RunsAreForked`) through the files of its arm
  (`FilesAreOfArm`), written one by one by a process that may die (`ProcIsForked`), to
  the pair (`PairIsComparable`) and the evaluation (`EvalIsComparable`). A file counts
  only while the execution it is of is that of the other files. Hypothesis `Recorded`:
  a missing capsule is no state, a recording has a length, an ending says whether it was
  an error.
* Protocol documents: `LiveArmsAreClean`, with no hypothesis, for any number of edits:
  whatever was edited, a live arm has a protocol that loads to itself with the template's
  guards and shows no word of the oracle; an injected payload holds no word that names
  the answer, and, if the arm was given the task's gold row, no official test id and no
  added line of test or fix but for a line the issue may share. Of an arm without that
  row nothing is said of ids and lines.
* Batch outcomes: `BatchRuleAlways`, for batches of any size and any target
  (`OfPairs` gives the evidence the fields of scorecards and summaries). That the two
  copies decide alike is stated for batches all of whose pairs are fresh, with replay and
  hook in order; on mixed ones they do not (section 6). That a worse outcome never opens
  what a better one had closed is stated for any evidence, in each copy. Counts are
  cardinalities; a label that ranks lower takes a row out of the positive ones
  or adds one to the negative ones (`WorseCounts`), and leaves gates and strata alone
  (`WorseV1`, `WorseV2`).

`ArmsProofs` has two parts. Of `RouteB1` it proves `B1TypeCorrect` and `LeaksAreVoid` for any cells and
bounds. The adapter does not read the findings of a run that raised, so that the
report of a leaking run may call itself clean; what keeps it from being valid is
its count of zero. `IInv` follows that count from the hook (`HookRemembers`) to
the locals (`LocalsRemember`) and the report (`ReportRemembers`); `HistoryIsPast`
says that a new execution has a number no file has.

`VerdictsAreOfTheRuns` (`VerdictIsOfTheRuns`) adds to `IInv` that only treatments leak
(`LeakedIsTreated`), that patches and labels are of executions of the past
(`OutcomesArePast`), and that report, patch and label of one execution agree on how it
ended (`OutcomesAgree`).

`ReviewDebtProofs` also covers `DebtGauges`: `QuietScrapesAreTrue` and
`ItemsAreCountedOnce`, for one scraper (`OneScraper`, with finitely many runs). What has
been read is what is stored as long as nothing was written since (`AsStored`); the
labels set so far are those of the items collected. The hypothesis is needed: with two
scrapers the run `two_scrapes` violates the property.

`ExecutorProofs` proves the four properties of `Executor` (`FinishedTraceIsRecord`,
`CutTracesAreSound`, `AllChangesAreAccounted`, `ReplayFindsOnlyTheCut`) for any scripts,
policies and workspaces, crashes at any event included. Hypothesis `Given`: scripts are
lists, workspaces are functions of paths. `EInv` says that the locals are what executing
the first steps gives (`InTheLoop`, `Executed`), or that the loop was left by an exception
after the policy's events of a step (`OutOfTheLoop`), and that the trace on disk together with the events
still to be written loads as the record so far. The facts about the two recursive
functions (executing k + 1 steps is one more iteration, loading a concatenation is
loading the rest after the first part) are by induction over the number of steps or
lines: `Induction` says that a set of numbers with 0 and every successor is all of Nat,
and follows from the least number (`LeastNumber`).

Of `LiveSingle`, `ArmsProofs` proves `FlagsSayThePast` (`JudgedOnThePast`),
`LiveActionsArePermitted` (`GenerationIsConstrained`) and `AssembledArmsAreSound`
(`AssemblyIsSound`) for any specs of the two protocols (`OfProtocols`): any replay, limit
and prescriptions. `LInv` says what the hook's flags remember of the actions so far
(`FlagsRemember`), that hook and model agree on where the replay ends (`ModelReplays`,
`HookCounts`), that a block ends the arm unless it is swallowed (`BlocksEnd`), and what
is reported (`Reported`). `AssembledArmsAreSound` does not say that no block was raised,
which is false: the run `swallowed_block` shows the arm that hides one. It says what
holds of such an arm all the same: the block was the last thing the hook saw, and the
action it forbade was not executed.

`V2PairProofs` also proves `V1LabelsAreEarned` (`V1LabelIsEarned`), along the same
argument for the writes of v1 (`V1Inv`): the premise `V1_whole` stands for what the
prompts do for v2.

`PreparationProofs` proves, for any candidate files, trajectories, outcomes and
directories, `AdmittedPairsWereFresh` (`AdmittedWasFresh`), `AdmissionsAreGrounded`
(`AdmissionIsGrounded`) and `AdmittedReplaysAreScreened` (`AdmittedReplayIsScreened`).
Hypothesis `Listable`: candidate files and directories are lists. `PInv` says of every
file of a stage, and of the record a stage carries between its writes, what the next
stage takes it for: rows of a list were sound for what was known when it was made
(`ListSound`), a dry run that passed is grounded, an admission is both. `SInv` adds that,
until a stage dies, a directory that no stage is writing holds the replay actions its
risk level is of; after a death this is false, as the property says. For `Evidence` it
proves `HarvestsAreUnseen`, for any places, dataset and labels (`Listings`: they are lists):
the index lists the task of every report, because the reports of one task and stratum
have a first one (`IndexListsAllSeen`), and a plan made of it holds no task it knew. For
`V1Chain` it proves `PassedChainsArePrepared` (`PassedChainIsPrepared`) and
`StagesNeverDisagree` (`NoStageDisagrees`), for any pairs, classes and number of rows, faults
and edits: `V1Inv` says that a report of the plan as it stands, that passed, tells that the
dry run would pass; the two harnesses, taken step by step (`TargetedIsBlocked`,
`RegressionIsBlocked`), block on every constraint of their prescription that can block, so
that every row counts once at least and the counts over all rows decide the same
(`CountAtLeast`, `DryRunIsEnough`). `StagesNeverDisagree` is about what is accepted: the
plan that was built passes the dry run; a plan that passed has every gate of the adapter
preflight but its config (`adapter.config`), so that this fails for want of the config and
for nothing else.

`InterventionsProofs` proves the three properties of `Interventions`, in three parts.

* The planner: `PlansAreFair` (`PlanIsFair`), for any lists of diagnosed rows and any
  quotas (`Plannable`), whatever the caps. Of the rows left one comes first
  (`FirstIsCandidate`: `_sort_key` is total and transitive). `Through` says of a pass at
  each candidate what it has added to the selection: rows of the slot, each once (in the
  first pass because a row taken is not left, in the second because its task is not
  used), no more than the quota, and, in the second pass, that the tasks passed over are
  used. Each step keeps it (`TakeNextGoesThrough`), so that the slot is filled
  (`SlotIsFilled`); `Fair` carries it over the slots (`SlotKeepsFair`): the rows of a slot
  are an interval of the selection, and no later slot takes its tasks.
* The hooks: `HooksAlwaysFireOnTime` (`HooksFireOnTime`), for any call limit and answers.
  `RunsAreTimely` says of the run under way, and of what each completed run left, that
  the hits are none or the one at the trigger, and are the one once the run is past it.
  A step costs a call at least (`Running`), so that a trigger that was met was within the
  limit. An arm that runs was not completed before, which is why what an arm left stays.
* The gates: `ReadyIsAlwaysTreated` (`ReadyIsTreated`), for any reports (`Reported`: a
  report says resolved, not resolved or nothing). `Summarized` says of each row of the
  summary which pair it is of and what the hits of its treated arm make of it. Main
  scope is then the treated pairs (`MainIsTreated`); if no row is invalid, the labels
  count the pairs lifted and harmed, and so does the difference of the resolved arms
  (`AttributionCounts`). For readiness: a row has one injection at most, so that as
  many injections as rows are one of each (`EveryHookFires`), and the derived step is in
  the window the hook is tried on (`DerivedStepIsInWindow`).

Only model-checked: liveness (`QueuedRunSettles`, `AssemblyIsDecided`). The prover does
no liveness under fairness. Every other property of a passing run is stated by a theorem.

## 5. What the models assume

* A store call is atomic (one statement or transaction in both stores). The reads
  of SELECT ... FOR UPDATE SKIP LOCKED and its UPDATE are two steps with the lock
  held between them.
* Run ids are fresh (`uuid4`).
* `ReviewDebt`: attestations on the books from earlier releases are of version 1
  (`LegacyAssumption`). Stamps are distinct and increase: API processes share a clock,
  and no two requests read it in one microsecond.
* `_fail_placeholder` is two steps in `RunService` and one in `ReviewDebt`:
  `RunService` shows that no other process writes the run meanwhile.
* A hash stands for the content: no collisions.
* `V2Pair`: the operator follows the prompts. An arm or an evaluation is
  started in the state that prompts for it, with any flags; the patch put into an
  arm's directory is that of the execution it reports; nothing is cleared while an
  evaluation runs; there is one orchestrator. `infer_pair_state` is read at once.
  The harness leaves a report, leaves none, or skips an instance it has a report of.
* `RouteB1`: one process per directory at a time. What a scan finds is a choice: a
  capture leaks or not, by the references it was given. An official evaluation
  reads the archived patch. `VerdictIsOfTheRuns` is stated for labels and reports of
  the same executions, which nothing in the code enforces (see the next section).
* `LiveSingle`: the arm runs hooks as SWE-agent does, before and after an action.
  `GenerationIsConstrained` is stated for runs in which every output so far held an
  action (see the next section).
* `V1Pair`, `CapsulePair`: the properties are stated for directories whose files are
  of one execution (`V1_whole`, `whole`). The code compares none of these, and
  without the premise TLC finds labels of arms that cannot be compared.
* `CapsulePair`: evaluation and audit are given directories that hold reports.
* `Preparation`: one command at a time. The properties name what they leave out: a
  row whose own risk level outranks that of its inputs, inputs written again after
  the selection.
* `Evidence`: `HarvestIsUnseen` is relative to the root as it was when the index of
  the plan was made. The task of a torn report is taken from its path
  (`inventory.py:288`): trees are laid out as `<tree>/<task>/`, as the code writes them.
* `Interventions`: SWE-agent's call limit ends a run at the call over the limit.
* `Protocols`: an issue or an output holds at most one piece of the answer. Fields are
  read one at a time: a second v2 prescription counts as right in the fields it
  replaces together.

## 6. Disagreements of code and documentation

Five runs show one each (`queue_crash`, `two_scrapes`, `eval_complete`,
`b1_counted`, `swallowed_block`); PROJECT.json quotes the lines. Others were met
while modelling and have no run:

* Under a bundle whose default is `deny` the first step that no rule matches raises
  `AttributeError` (`executor.py:175`) and ends the run; `docs/architecture.md` says
  that the run continues. In the model it is `escape`, as is a tool that does not exist, whose
  policy decision and risk signal are flushed before the exception.
* `created_at` of an attestation is taken before its INSERT and outside any lock
  (`pg_store.py:161`), so that of two requests the one that is stored later may sort
  earlier: an item that was shown as cleared by one person is then shown as cleared by
  another, although `compute_review_debt` has the first valid clearing win. Nothing is
  reopened by it. `ClearingIsStable` names the case (`TakenOver`).
* A B1 run that raises has no exit status and passes for a clean exit
  (`sweagent_b1_live.py:310`). With the label of an earlier execution it is counted,
  although `route_b1_decision.py:124` has crashed runs dropped.
* A B1 patch of an earlier execution stays when a later one submits nothing, and the
  join by anchor, arm and rep does not notice; nor does a missing label keep the
  decision from being taken.
* A run that was saved and whose row is retried because `mark` raised keeps its
  final status; `docs/error-taxonomy.md` says the placeholder stays pending. The
  models have it as the code has it.
* The digest of an attestation is of the record that POST reads, not of what the
  reviewer looked at (`main.py:240`).
* A bundle whose default is `needs_review` records neither decision nor signal
  (`policy.py:6` says it does).
* `trace.py` writes with `ensure_ascii=False` and reads with `splitlines()`, which
  also splits at characters that JSON leaves as they are (U+2028).
* The replayed prefix is counted in queries by the model and in actions by the
  hook; after a query without an action the hook exempts an action too many.
* The recheck flag of the v2 hook is never reset: one check after the first edit
  covers all later ones. `GenerationIsConstrained` states what is enforced.
* An evaluation that is started unprompted, of a pair that is then assembled
  again, leaves harness reports that a later evaluation imports.
* A torn pair report is inferred as `pair_assembled` and prompts for ever.
* The commands that the orchestrator prompts do not match the options of the CLI,
  and one of the arm directories that `state_inference.py` accepts is not found by
  `_find_arm_dirs`.
* `protocol_v2_batch_outcomes.py` counts scorecards of blocked evaluations, reports
  `underpowered_no_uplift_observed` with no fresh row at all, and decides on counts
  of fresh and reference pairs together although its docstring says "never mix layer
  counts". Two pairs of one task both count as fresh; running the fresh gate again
  after an evaluation turns evaluated pairs into reference pairs. The v1 report may
  allow a stability claim beside `negative_risk_review_required`, and takes the hook
  and replay facts of a row from the live summary as it is now.
* A Phase 6 arm executed again between a ready pair and its evaluation: the
  evaluation audits the pair again and blocks its own label, but still runs the
  official pair (`sweagent_phase6_official_eval.py`), whose gates ask for no state
  equivalence; `packages/clinic/README.md` calls positive labels conditional on it.
  A treatment that submits nothing archives the patch the control left in the native
  directory as its own.
* Preparation, v2: a stale fresh list lets a task that was evaluated since pass the
  preflight; inputs materialized again after the selection are never screened again;
  configurations are written before there is a verdict.
* Preparation, v1: no stage checks that the report it is given was made of the plan it
  is given; the fresh gate's policy allows a planned preflight although the gate
  failed, and excludes diagnosed pairs only; a guard regression seen once blocks every
  later submission; `materialize_prefix_observed_failure` is enforced by no hook.
* Index and harvest: `uplift_pair_count` looks for `"positive_uplift"` in labels that no
  evaluator writes, and is always 0; any report, blocked ones too, counts as a
  completed evaluation; the first report by path hides others of its task and
  stratum; a manifest all of whose files are missing is "unknown" rather than broken.
  The harvest executes a plan whatever it decided, and its rows (no pair id, no policy)
  cannot be materialized. `_load_lite300_ids` takes the first list that looks right.
* Documents: two pair ids that clean to one name overwrite each other's protocol file,
  which is written even when the preflight is blocked; a flag may be absent but not
  null; neither live command asks for the decision of plan or preflight. Without a
  gold row the B1 content scan compares with words only.
* Phase 3: the completion gate of the closed loop compares a length with itself; the
  first pass of the planner can take one task twice within a slot;
  `negative_risk_review_required` of `stability.py` cannot be reached; the 3.15 dry run
  refuses a trigger of 0 that the planner may give; the 3.16 live hook of the
  validation and error policies fires at step 1, before the derived trigger step.
* The v1 and v2 pair adapters never compare an archived patch with the execution that
  is reported beside it.

## 7. Not modelled

* `engine/`: text heuristics and floating-point scores over one trajectory, exact
  tests, power and sensitivity. They keep no state and call nothing that does; a
  finite instance would only repeat the arithmetic, and TLC has no reals.
* `kernel/manipulation_checks.py` and `paired_stats.py`: one-call functions of complete
  tables.
* `evidence/chain.py`, `registry.py`, `manifest_tool.py`, `workflow_doctor.py`: one pass over
  files that nothing writes meanwhile.
* `intervention/paired_fork.py`, `oracle_capsule.py`, the batch selection of `runner.py`,
  `sweagent_protocol_v1_runtime.py`: drivers around the calls that are modelled, and the
  contents of a capsule, which are a state here.
* `apps/web`, `otel.py`, `aro_evals`, `examples.py`, `hooks.py`, rendering, CLI parsing,
  configuration: no state of their own.
* The rate limiter: a counter called on the event loop only.
* Wording, counters and claims of reports that nothing reads back.

Every hazard listed in PROJECT.json has a property; where the property covers part of it only,
a note says what it leaves out. Four behaviours that section 6 states
have none, because they go wrong on every execution, so that no interleaving is needed to
see them, or are excluded by an assumption: a `needs_review` default records nothing
(`executor.py:148`); line ends inside an event (`trace.py:47`); one native patch directory for
both Phase 6 arms (`sweagent_live.py:219`); two orchestrators on one evidence root, which has
no lock (`batch_runner.py:129`).

Out of reach of proof: liveness under fairness. Folds of the community modules are opaque to
the prover; what is proved of lists is proved of recursive functions over numbers.
