# A TLA+ model of the Open Agent Memory Benchmark

The benchmark (`src/oamb`) runs datasets of questions against memory systems
(Hindsight, Mem0, OpenViking) and model suppliers, pays for every call, seals what
happened in *capsules*, saves the result of every question, and draws reports that
may name a leader. It has many ways to lose the truth on the way: processes that are
killed, calls whose answer is lost, stops that arrive between any two awaits, clients
that do not close, pages read while a store changes, files half written, and pieces
of code that derive the same fact separately and may disagree. This project models
those parts, checks them with TLC on small instances and proves the central ones with
TLAPS for every instance.

Paths below are relative to `src/oamb` unless they say otherwise.

## 1. Inventory

### The system

    run.sh ── oamb run / compare / report                              Study
       │          │
       │          └─ live.py ── one worker process per provider cell   LiveCells
       │                │
       │                └─ runtime/native_run.py: supervisor ⇄ child   NativeSupervisor
       │                      │                     │
       │                      │ lease               └─ histories and questions
       │                      │                         │              NativePipeline
       │                      │                         ├─ answer/judge stages
       │                      │                         │              ModelCompletion
       │                      │                         ├─ memory adapters
       │                      │                         │    over REST  MemoryAdapters, RestTransport
       │                      │                         │    captures   ProjectionCapture
       │                      │                         └─ every paid call
       │                      │                              │         NativeAttempt
       │                      │                              └─ ledger BudgetLedger
       │       runtime/provider_lifecycle.py ⇄ provider-services/lib/lifecycle.sh
       │                                                               ProviderLifecycle
       ├─ the capsule: what a run seals                                NativeCapsule, FakeCapsule
       │     and what validation accepts                               NativeValidation, FakeValidation
       ├─ result files of the questions                                QuestionResults
       ├─ comparison: summaries, tests, the leader                     ResultComparison
       └─ files, all through artifacts/atomic.py                       AtomicPublication
                                                          promises     DurableRegister

| Component | State | Operations | Hard behaviour | Correct when |
| --- | --- | --- | --- | --- |
| Budget ledger, `runtime/budget.py` | totals reserved and committed, per run and owner; each reservation | reserve, commit, cancel before dispatch, mark unknown | several owners of one reservation, holds that never end | no ceiling is exceeded; totals are the sum of the holds; a settlement is final |
| Lifecycle protocol, `runtime/provider_lifecycle.py`, `provider-services/lib/lifecycle.sh` | gate, domain locks, active-operation file, attempt pointers | acquire, mark, clear, release; `up`, `verify`, `prepare-new-run`, `stop` | two kinds of process that check and then act, both killable | no command changes the services under a run; what a live process took it gives back |
| Paid attempts, `runtime/native_run.py` | six kinds of record, pointer, ledger | reserve, seal, mark, call, settle, account, clear | kill or error between any two; lost answers | records, pointers and ledger never contradict what may have been sent |
| Model completion, `runtime/model_completion_retry.py` | two retry counters, messages, recorded calls | dispatch, record, retry, correct | two nested retry layers; a count and a chain that are inferred later | bounded calls; both inferences right |
| Pipeline, `runtime/native_run.py` | permits, tasks, the stop event | admit, call, retry a batch, settle, cancel | cancellation and failure meet at every await | permits conserved; failures drain and are reported; complete when it returns |
| Supervisor, `runtime/native_run.py` | child, pipe, close deadline, record, manifest, lease | execute, close clients, report, retire, seal, release | signals, hanging closes, kills of either process | the lease goes only with a terminal capsule; nothing is called clean that is not; both end |
| Live cells, `live.py` | worker list, stop event, outcomes | admit, wait, settle, conclude | workers that die before or after their message | limit held; outcomes true; nothing admitted past a failure |
| Atomic publication, `artifacts/atomic.py` | names, files, directories, and what of them is on the disk | create-only write, replace | loss of power between two flushes; concurrent writers | a durable register |
| REST transport, `memory_systems/rest.py` | accepting flag, active operations, what is closed, close lock | request, stop accepting, close | a close against calls and other closes, cancelled anywhere | closes after the last call; always ends |
| Memory adapters, `memory_systems/*/` | marks, ordinals, plan, allocation and probe locks | allocate, ingest, wait ready, retrieve, close | cancelled lock waits, lost answers, retries | nothing sent twice, sources in order, only what was sent is refused as a replay |
| Captures, `memory_systems/*/projection.py`, `provider-services/mem0/inspector.py` | pages read so far | bank inventory, document and memory listings, point pages | the store changes between two pages | what is accepted was there at one moment |
| Capsules, `runtime/native_run.py`, `runtime/fake_run.py`, `artifacts/store.py` | records, raw files, manifest | seal, finalize, validate | mixtures of retries, skips and failed stages; lost or crossed records | what is produced validates; what is damaged does not |
| Question results, `runtime/native_results.py`, `runtime/question_results.py` | one JSON file per provider | project, initialise, add, load | read-modify-write by the cells of several drivers | saved results stay |
| Study driver and reports, `run.sh`, `cli.py`, `reporting/` | plan, selector, report directories, stored analyses | start, resume, validate, compare, report | kills between two commands, two builders of one directory | the selector names whole studies; a marked report is whole; its leader is proven; both ways to it agree |
| Rendering, workloads, configuration, external evidence | none that outlives a call | functions over documents | – | – |

How they interact: cells share one stop event and report over pipes; a supervisor
and its child share a pipe, the capsule and the lifecycle files; runs and operator
commands share only directories made with `mkdir`; tasks of a run share one event
loop, two semaphores, the adapters, the ledger and the stop event; drivers of one
study share its directory and, for each provider, the lifecycle domain.

`PROJECT.json` lists all components, and under `hazards` the places where this code
is hard to test, each with the properties that watch it.

### Modules

| Module | Of | State and actions |
| --- | --- | --- |
| `BudgetLedger` | `runtime/budget.py` | totals as vectors; one action per public method; a refusal is a guard |
| `ProviderLifecycle` | the two lifecycle implementations | one action per file-system step: look at the gate, `mkdir`, look again, body, `rmdir`; the commands scan domain by domain, check by check, in any order of domains |
| `NativeAttempt` | `_prepare_live_native_attempt`, `_seal_native_*`, `_seal_live_native_attempt_accounting`, `_execute_ingestion_batch` | extends `BudgetLedger`; `step` says how far an attempt is; one action per seal, so that a kill or an error (`Raise`) may fall between any two |
| `ModelAttemptChain` | `_model_attempt_chain_closes` and its helpers | what validation accepts as the calls of one completion, an operator on sequences of calls |
| `ModelCompletion` | `execute_model_completion_retry`, `_execute_model_stage`, `_model_outer_attempt_count` | phase, the two indices and the sequence of recorded calls |
| `NativePipeline` | `_execute_history_question_pipeline`, `_settle_pipeline_operations`, `_execute_history`, `_execute_cases_serial` | what runs between two awaits is one action; an operation is queued, running, resting or over |
| `NativeSupervisor` | `_run_native_supervised`, `_run_native_vertical_slice`, `_close_ports`, `run_native_vertical_slice` | the child's steps, its messages in a FIFO pipe, the supervisor's steps |
| `LiveCells` | `_execute_parallel_live_cells`, `_execute_live_cell_worker` | coordinator phases and worker processes |
| `AtomicPublication` | `atomic_write_bytes`, `atomic_replace_bytes`, `_ensure_durable_directory` | one action per system call; seen and durable contents of every name |
| `DurableRegister` | what `artifacts/atomic.py` promises | one value per target, published or refused at once, kept once returned |
| `RestTransport` | `SealedRestClient` | operators on the record of one client: admit, release, end of a request, steps of a close |
| `MemoryAdapters` | the four REST adapters | a call is a script of requests (`Mem0Script`, `HindsightScript`, …); an action runs from one await to the next; `wire` is what the provider saw |
| `ProjectionCapture` | `hindsight/projection.py`, Hindsight's bank inventory, Mem0's capture and the inspector | one action per page, one for a change of the provider; a page is a set of items, picked by rank or from a cursor on |
| `CapsuleRecords` | `contracts/evidence.py` and `contracts/ids.py` for native runs, the routes of `live.py` | the records a run seals, with their own validators |
| `ProviderEvidence` | what adapters leave in a capsule, and `artifacts/validation/*_evidence.py` that reads it back | operators: the payloads of an ingest, a readiness check, a retrieval; the reconstruction from payloads alone |
| `NativeValidation` | `artifacts/validation/native.py` | every rule as a predicate on a snapshot of the files |
| `NativeCapsule` | what `runtime/native_run.py` seals | one history and one question; dispatches that fail, are retried or given up; calls that are repeated, corrected or fail; then one damage, the manifest and the verdict |
| `FakeRecords`, `FakeValidation`, `FakeCapsule` | `runtime/fake_run.py` with its scripted clients, `runtime/runner.py`, the second half of `runtime/shutdown.py`, `artifacts/validation/fake.py` | the same three parts for the fake run |
| `Capsules` | both kinds of run | they share the store, the manifest and the damage |
| `QuestionResults` | `runtime/native_results.py`, `runtime/question_results.py`, the summaries of `reporting/comparison_project.py` | operators; one that raises gives the empty set |
| `ResultComparison` | `reporting/comparison_project.py`, `reporting/saved_results.py` | the cell, pair and case documents and the decision, on both paths |
| `Study` | `run.sh`, `cli.py`, the cells of `live.py`, `artifacts/capsule.py`, `reporting/report_analysis.py` | drivers that start, resume, validate, compare, report and are killed |

Modules named `MC…` give the constants of a run their values; modules named
`…Proofs` hold theorems: `AccountingProofs` those of `BudgetLedger`, `NativeAttempt`
and `ModelCompletion`, `MemoryAdaptersProofs` those of `MemoryAdapters` and
`ProjectionCapture`.

Where models meet: `NativeAttempt` is written with the operations of `BudgetLedger`:
every step of an attempt is one of them or leaves the ledger alone, so what is proved
of the ledger holds of a run. `AtomicPublication` implements `DurableRegister` (`IsRegister`) under a
refinement mapping that reads the value of a target off its file. `NativeCapsule`
composes the records with the rules that judge them; `ModelCompletion` and
`NativeValidation` use the same `ModelAttemptChain`; `MemoryAdapters` runs the
operators of `RestTransport` on each client of an adapter; `Study` composes the cells,
the result files and both ways to a report. The other modules use each other's results
as assumptions: `LiveCells` lets a worker end because `NativeSupervisor` shows that it
does, `NativePipeline` takes a call as one step that `NativeAttempt`,
`ModelCompletion` and `MemoryAdapters` resolve, and all count on `AtomicPublication`
for a seal to be one step.

## 2. What the runs check

All bounds are in the `.cfg` files and the `MC` modules. Deadlock is not checked:
each of these systems comes to an end and may stop there; that it gets there is
what the liveness properties say.

| Run | Instance | Properties |
| --- | --- | --- |
| `lifecycle` | 2 domains, 2 runs contending in one and 1 in the other, a command of each kind, kills everywhere; `stop` issued when no run is alive, `prepare-new-run` when none is acquiring | `MutationExcludesRun`, `OwnersMarked`, `LockGivenBack` |
| `completion` | 3 outer attempts of 3 calls, every kind of result of a call | `AttemptsCounted`, `SealedChainsClose`, `CompletionEnds` |
| `attempt` | an ingest, a retrieval and an answer with a budget for two | `CeilingsHold`, `HoldsAddUp`, `SentIsAccountable`, `LedgerMatchesRecords` |
| `supervisor` | 2 clients, up to 3 signals | `TerminalIsTruthful`, `FailureAccounted`, `ProcessesEnd` |
| `pipeline` | 2 overlapping histories with 2 and 1 questions, 1 question permit, 1 batch sent at most twice | `FailuresKept`, `ReturnedIsComplete`, `NothingStartedAfterStop`, `PipelineEnds` |
| `publication` | 2 writers that create one file with different bytes, 1 that replaces a file in a directory it makes | `NoLitter`, `IsRegister` |
| `live_cells` | 4 cells, 2 at a time | `CellsSafe`, `NoAdmissionPastFailure`, `CellsEnd` |
| `memory` | each of the 4 adapters; 2 callers, 2 closes, 2 sources, 2 attempts of a batch, 2 writes of a Mem0 source; and each reader with 4 items, pages of 2, 3 changes during a capture | `NoReplay`, `InOrder`, `AttemptedWasSent`, `ReadyIsSettled`, `ClosedIsIdle`, `CloseReturns`, `AcceptedWasThere`, `StableIsAccepted` |
| `capsule` | each of the 5 adapters, 2 sources, 3 failures, 2 outer attempts; the 3 scenarios of the fake run; then every single file lost and every single field crossed | `ProducedValidates`, `LossDetected`, `CrossWiringDetected` |
| `study` | 2 drivers, 2 studies, 3 providers, 4 questions, 3 commands, 1 kill, 3 cases sealed; every table of right and wrong answers, one case of six other kinds where the other questions are answered alike; two direct reports at once | `SavedStays`, `SelectorNamesWhole`, `MarkedReportStands`, `LeaderIsProven`, `PathsAgree` |
| `completion_sealed` | as `completion` | `AllSealedChainsClose`, violated (below) |
| `prepare_while_starting` | as `lifecycle`, with `prepare-new-run` issued at any time | `MutationExcludesRun`, violated (below) |

Why these sizes. Three attempts of which two fit the budget: one that is refused may
reuse what another gave back. Two runs in a domain contend for it, a third elsewhere
shows that a command's scan of one domain says nothing of the next. Two clients give a
close that is active and one that is skipped; two signals force a stop and a third
arrives after it. Two histories whose questions share one permit are the smallest case
in which a question waits for another history. Four cells with two workers leave one
to be admitted after each of two wake-ups. One batch with two attempts has a retry and
a batch given up. Two callers and two closes of an adapter contend for each lock, and
two sources show an order. Four items in pages of two have a full last page and,
changed, one that is not; three changes move an item across a page, edit another and
add a third. Two sources with three failures have one given up and one retried, and
pages of one item make every listing several. Four questions with three providers
reach every verdict of the paired test at the threshold of one half, on both sides of
it; answers in another order of questions give the same table. The `study` run starts
from a study run in one piece, from the same with two report commands left, from one that
lacks results of one provider or two, and from one left by a killed start, because a whole history from nothing is beyond TLC;
these are states that runs of the code reach.

`MCMemoryAdapters` has the adapters and the readers of pages in one run: a behaviour is
of the calls or of the pages (`part`), because a reader meets the calls around it only
through the changes of the provider, which `ProjectionCapture` has at every moment.

None of the bounds cuts a behaviour off by a state constraint. Counters with a bound in
a guard: signals (`MaxSignals`), changes of a provider (`MaxChanges`), failures
(`TroubleLimit`), commands, kills and sealed cases (`MaxStarts`, `MaxKills`,
`MaxSeals`). The largest runs have about 1.2 million distinct states (`lifecycle`) and,
with liveness, 753 thousand (`pipeline`).

What the composed properties say: `OwnersMarked`, `AttemptsCounted`,
`SentIsAccountable`, `TerminalIsTruthful`, `FailureAccounted`, `ProcessesEnd`,
`FailuresKept` and `CellsSafe` are conjunctions of named parts, each stated and
commented in its module.

### Disagreements the runs show

`completion_sealed`: a response with status 200 that cannot be parsed
(`response_parse_error`), a redirection (3xx), or a response whose correction carries
no text because the content was null, ends a completion as an error case and the run goes on to the next question. The
validator's `_model_attempt_receipt_layers_close` knows as terminal failures only
contract errors, retryable statuses and 4xx, so that one such response makes the whole
capsule INVALID. The test of an exhausted judge
(`src/tests/e2e/test_partial_ingestion_vertical_slice.py:332`) expects a capsule with an
unjudged case to validate. `SealedChainsClose` shows that nothing else breaks a chain.

`prepare_while_starting`: `prepare-new-run` looks at the domain locks and later removes
whatever domain lock is there (`provider-services/lib/lifecycle.sh:51` and `:122`). A run
that passed its first look at the gate before `prepare` took it makes its lock after
`prepare` looked; `prepare` removes that lock and ends; the run takes its second look,
finds no gate and goes on without a lock. The next `up` or `verify` then finds nothing
and changes the services while the run is inside, although
`provider-services/README.md:118` says that it refuses an active run. In the same way
the run, if its second look does see the gate, removes with its `rmdir` the lock of
another run that came after `prepare` (`runtime/provider_lifecycle.py:418`). Nothing in
the code keeps an operator from issuing `prepare-new-run` while a run starts, so that
it is not done is an assumption (`PrepareWhileStarting = FALSE`) of the run `lifecycle`
and of the theorems, beside the one about `stop`.

### Met while modelling

These differ from what a reader would expect; the properties name them as exclusions
or the model states them as assumptions.

* A skipped source of the OpenViking session adapter: validation requires the failed
  attempt's error among the plan's readiness evidence, `wait_ready` returns only that
  of completed sessions, so such a finalized run never validates, although
  `src/configs/benchmark.yml:178` provides for skipping. Named in `NativeValidates`.
* An ingest cancelled before its request went out has been settled and its pointer
  cleared, but `_execute_ingestion_batch` finds a raw error without accounts, seals
  usage records for a call that was never made, and the ledger's refusal replaces the
  cancellation (`AccountAgain`).
* The child ignores SIGTERM and may still seal its aborted record while the supervisor
  gives up on its close; the second seal of that record then skips the manifest. Hence
  `FailureAccounted` asks for an account of the clients after a deadline, and for a
  manifest only after a lost child.
* A child killed while it writes a record leaves a temporary file, which
  `finalize_capsule` reads as if it were a record (`torn` in `NativeSupervisor`).
* A command of the operator that is killed leaves its gate, and every command after it,
  `stop` included, ends there (`lifecycle.sh:96`); the directory has to be removed by
  hand. `LockGivenBack` shows that nothing but a kill leaves a gate or a domain lock.
* A writer that finds its directory made by another takes it as durable and flushes only
  what is in it (`artifacts/atomic.py:207`). If the other has not flushed the parent
  yet, or was killed before it did, a loss of power takes the directory and the file
  whose writer has returned, although `atomic_write_bytes` says "Durably publish" (line
  118). The other may be a second driver, or the child of the supervisor that goes on in
  its directory. In the run `publication` every directory has one maker; with `DirOf`
  giving two targets of two writers the same directory, TLC breaks `Stays` in twelve
  states.
* If the wall-clock limit of a run passes while a stop by the watch is drained, the
  gather of the drain (`runtime/native_run.py:2334`) is itself cancelled: it waits for
  its tasks but drops their outcomes, and a failure among them is reported by nobody.
  `FailureReported` excludes this case (mode `"lost"`).
* Two commands that draw a report from saved results of one study write into the same
  `comparison` directory if neither finds it (`run.sh:375`), as do two that compare
  capsules; `MarkedReportStands` covers them.
* The session adapter has no lock around allocation: a registration of a user may be
  repeated, a mark is not taken back after a cancelled first read, and `close` raises
  if a client is bound meanwhile. `NoReplay`, `AttemptedWasSent` and `ClosedIsIdle`
  name these cases. The batch adapter never reports a settled transient failure.
* Hindsight: a bank whose creation has an unknown outcome makes later allocations fail.
* An offset listing of a provider that also *drops* items can deceive its reader;
  `AcceptedWasThere` holds while items are added and edited.
* The only history attempt of a run may be lost unnoticed, and the messages of a
  completion with one call are referenced by nothing; the ordinal of an attempt, the
  owner of a usage and the messages of a memory operation are compared with nothing.
  Of a fake run, a lost close error goes unnoticed if two clients failed with the same
  message, and the times of attempts, the intended count of a plan never ingested and
  the error stage of a case not run are compared with nothing.
* Reports: an unjudged question is shown as failed when drawn from capsules; recovered
  OpenViking tokens replace missing ones plan by plan when drawn from results and all
  or nothing when drawn from capsules (`OneUsageSource`); a case whose usage is partly
  measured and has no total cannot be projected and fails its cell; two builders of
  one directory, one with an analysis, may leave a stray `report-analysis.json`
  (`run.sh:658`); a resume does not validate the capsules it adds to.
* A second driver that selected a question before another saved it executes it again,
  pays for it, and its addition is refused: saved results stay (`SavedStays`), the
  money does not.

### Fairness

Safety is checked without fairness. Liveness assumes, by weak fairness:

* `completion`: a call ends, because every client has a total timeout; sleeps end; the
  event loop runs what is ready. Errors and stops need not happen.
* `pipeline`: each task goes on when it can, a semaphore serves its waiters in turn
  (asyncio's does), the poll of `_settle_pipeline_operations` repeats. Nothing makes a
  stop arrive.
* `supervisor`: the child's loop and its watch go on, the armed deadline
  (`_arm_shutdown_deadline`) kills, the supervisor's loop polls. **No** fairness on
  the end of a close: it may hang, and the deadline must do.
* `live_cells`: the coordinator's loop goes on and a worker ends, which is what
  `ProcessesEnd` shows. Faults have no fairness.
* `memory`: a request ends by its total timeout, asyncio's locks are FIFO, the event
  loop runs a close that can go on. Cancellations and failures have no fairness.

## 3. What is proved

For all constants that satisfy the named assumptions of each module.

* **`AccountingProofs`**, the ledger: `LedgerTypeCorrect`, `LedgerCeilings`,
  `LedgerSettlesOnce` (a settlement is final) and `LedgerHoldsAddUp`. `CeilingsHold`
  needs only that holds are given back for what was held and that a charge is within
  its hold; the invariant `LedgerInv` adds that an open reservation has a well-formed
  request. `HoldsAddUp` says that the running totals are *sums* over the open
  reservations: the module shows of `MapThenSumSet` that it takes a finite set apart in
  any order (`SumRemove`, `SumAdd`, `SumAgrees`), each by a least subset on which it
  would not be so, because an induction rule with a predicate as parameter is beyond
  the provers; an action then adds or removes one summand.
* **`AccountingProofs`**, the completion: `CompletionAttemptsCounted`. The recorded
  calls do not say which outer attempt they belong to; they are counted back by
  grouping them by their corrections and rounding each group up. The invariant says
  that no call was made with more corrections than there are now, that the group of the
  present number fills whole outer attempts up to the present transport retry
  (`GroupsFill`), and what the groups stand for together (`GroupsCount`).
* **`ProviderLifecycleProofs`**: `LifecycleExclusion`, `LifecycleOwnersMarked`,
  `LifecycleLockGivenBack` and what they rest on. The argument is that of a two-flag
  handshake: a command that has found a domain's lock absent can only meet a run that
  has not yet looked at the gate again, and that run will leave.
  The invariant `LifecycleInv` says what stays true of each check already made
  (`CheckedLocks`, `CheckedOperations`, `CheckedPointers`, and that they are made in
  order) while the command holds the gate. All but `LifecycleLockGivenBack` assume two
  things, stated in each theorem, of whoever issues the commands that remove markers.
  `StopWhileAlive = FALSE`: `stop` removes the markers of a run that is still alive, as
  `provider-services/README.md:118` says it may, and the next `up` then finds nothing
  to refuse; `run.sh` kills the runs first. `PrepareWhileStarting = FALSE`:
  `prepare-new-run` is not issued while a run is inside its first call, `acquire_run`;
  without it exclusion and ownership are false, as the run `prepare_while_starting`
  shows. A run that already holds its lease may be in any call, because `prepare` finds
  its operation file or its lock.
* **`AccountingProofs`**, the attempts: write-ahead order, visibility and budgeting, together
  `AttemptsAccountable`; agreement of ledger and records, no forgotten reservation; and,
  from `LedgerCeilings` and `LedgerHoldsAddUp`, that no interleaving of attempts exceeds
  a ceiling and that the totals are what open attempts hold. These two rest on the lemma
  `AttemptsUseLedger`, that every step is a step of the ledger or a stutter, which holds
  by the way `NativeAttempt` is written and says nothing more. The invariant `AttemptInv` says for each step which
  records, pointer and reservation exist.
* **`AtomicPublicationProofs`**: a target that is there is whole, a writer that has
  returned or refused has left no temporary name. What a writer has returned of stays
  (`PublicationAckedStays`) on the condition that its own directory was on the disk when
  it went on from it (`FoundOnDisk`), whatever the other writers do and wherever they
  are killed; if that holds of every writer (`DirectoriesOnDisk`), the steps implement
  `DurableRegister` (`PublicationIsRegister`). The condition is of the behaviour, not of
  the constants: it allows any number of writers in a directory, and it is exactly what
  the code does not establish when two writers find a directory missing (section 2). A writer whose directory was
  there at the start, or that nobody else uses, establishes it (`SoleMakerFinds`). The invariant says that a published file was
  flushed (`WholeInv`), which temporary names can be on the disk (`LitterInv`), that a
  writer past `_ensure_durable_directory` has its directory on the disk (`DirInv`),
  and that the durable value of an acknowledged target is its content (`AckedInv`).

* **`LiveCellsProofs`**: `CellsAreSafe` and `AdmissionStopsAtFailure`, for any number
  of cells and any limit. `CellsInv` keeps that a worker process that exists is in the
  coordinator's list (`Watched`), that an admitted cell is in the list or has its
  outcome (`Reported`), and that an outcome which is not a completion was collected as
  an error (`Believed`); without them the verdict at the end says nothing about cells
  settled before.
* **`NativeSupervisorProofs`**: `TerminalStatesAreTruthful` and `FailuresAreAccounted`,
  for any number of clients and signals. The supervisor acts on messages that are older
  than what the child has done. `SupervisorInv` says how far the two can be apart: the
  messages in the pipe alternate between a start and an end of a close
  (`PipeOrdered`) and lead to where the child is (`PipeLeadsToChild`), a report is the
  last, and each decision of the supervisor has a reason that is still so
  (`BossHasReason`).
* **`NativePipelineProofs`**: `FailuresAreKept`, `ReturnsAreComplete` and
  `StopStartsNothing`, for any finite histories and questions and any limits.
  `PipelineInv` counts the permits against the operations that hold them, says why a
  stop flag is set (`StopHasReason`) and how far a history is with its batches
  (`BatchesInOrder`). That a history which has not been admitted is at its first call
  is part of it: the completeness of what is returned does not follow without.
* **`MemoryAdaptersProofs`**: `NothingReplayed`, `SourcesInOrder`, `RefusedWasSent`,
  `ReadyStaysSettled` and `ClosesWhenIdle`, for the four adapters with any number of
  scopes, callers, closes, sources, message pairs and batch attempts. They follow from
  one invariant, `AdaptersInv`, because they need each other: a batch attempt is sent
  once because its key is marked before and its mark is taken back only if nothing was
  sent, which needs who holds which lock; that needs whose turn it is, which needs what
  is settled; and a client is used by nobody but those it has admitted. An action of
  the model runs from one await to the next through several operators, so the
  invariant is stated of a state as a record, `Sound(S, W)`, where `W` are the calls
  that wait for an answer. A caller whose answer is in and whose next request is not
  out yet is left out of `W`; `Held` says what it still has and `Ready` what it needs
  to send. Each operator (`Released`, `BindUser`, `Complete`, `Fail`, `Send`) has a
  lemma from one such state to the next, and the lemmas of the actions chain them.
  The proof needs the assumption that no scope is called `main` or `inspector`, the
  names the model gives to the shared clients (`AdaptersAssumption`).

* **`MemoryAdaptersProofs`**, the readers: `CaptureSound` (`AcceptedWasThere`) and
  `CaptureComplete` (`StableIsAccepted`), for stores, pages, page counts and numbers of
  changes of any size. A provider that drops nothing only grows (`Grew`), and a listing
  that ends where its total is reached, without duplicates, has read exactly the
  identifiers that were there at its end, though perhaps in older versions: `CaptureInv`
  keeps that what was read is in the store, in that version or a later one (`ReadBy`).
  A detail that later still agrees with its page closes the gap, since versions
  only grow: the page had what the provider held when the listing ended (`DetailsAt`).
  So do two equal captures by cursor: the first was read before the moment it ended,
  the second after it (`CapturedAt`, `ReadSince`). A refusal is justified by counting: `RankReached` and `LowCount` say
  that a page of `PageLimit` items at an offset moves the reader that much further or
  to the end, so that no provider at rest runs into the checks (`StableInv`).
  `ProjectionCapture` says what a page is by the rank of an item in its set, not by
  the place in a sequence, which is what makes the counting provable.
* **`StudyProofs`**: `SavedSound` (`SavedStays`), `SelectorSound`
  (`SelectorNamesWhole`), `MarkedReportSound` (`MarkedReportStands`) and
  `PublishedSound` (a published file stays what it is), for any number of drivers,
  studies, providers, questions, starts and kills. `StudyInvariant` ties the drivers'
  copies to the files: a cell at work holds its provider's domain alone, and what it is
  about to write is the file as it still is and one question more (`Adding`), which is
  why an addition that rewrites the file loses nothing; a report is built of complete
  files only, which nobody writes again (`BuildStays`), so it is still the study's
  report when it is published; and what is not left to publish is in the directory
  with the content of this build (`Published`), so that a marker, which is the last,
  stands for all files (`MarkerIsLast`). The theorems start from `Init`, where nothing
  was ever started; every initial state of the run `study`, which also has studies that
  are under way, satisfies `StudyInv` too, and TLC found it kept on that run. The
  invariant needs `Kill`'s assumption that no `stop` is issued while another driver has
  a cell at work.

Only model-checked:

* every liveness property, which needs fairness;
* `SealedChainsClose`: `ModelAttemptChain` reads a chain of calls recursively, and what
  it computes for chains of every length is an induction over sequences;
* `ProducedValidates`, `LossDetected` and `CrossWiringDetected`: the reconstruction of
  `ProviderEvidence` and the validators read sequences of records by folds and choices;
* `LeaderIsProven`, which compares a sum of binomial terms with a count of subsets, and
  `PathsAgree`, which compares two folds over the same results: both are inductions
  over the questions.

## 4. What is left out

* Contents: requests, answers, most record fields, hashes, names, times. A hash is
  injective, a time is an order. A seal succeeds, finds the same or another record, or
  raises.
* In the attempts: the fixture mode; the settlement after an exhausted infrastructure
  retry (`execute_with_infrastructure_retry` is called by nothing in the product).
* In the supervisor: errors of its own writes and a child that survives SIGKILL
  (`NativeRunProcessTerminationError`); progress messages, which change only what an
  abort record lists; clients not created after a factory error; close-error records
  that arrive after the manifest.
* In the live cells: the path of a single cell, which runs in the coordinator; the
  building of a cell from its configuration.
* In the lifecycle: refusals of unsafe paths and the legacy lease file.
* In the adapters: resumption of a scope (`adopt_ingestion_scope`), which `run.sh` does
  not use, and `Mem0ReferenceNegativeAdapter`, which refuses every call.
* In the capsules: several histories and questions in one run, metric values, and an
  aborted run's partial records; an error inside a task of the fake run, which its
  scripted clients do not raise.
* In the captures: changes of the four fields of a Hindsight memory that its detail is
  not compared in (`projection.py:338`: `updated_at`, `proof_count`, `consolidated_at`,
  `consolidation_failed_at`).
* In the reports: the wording of an error (unknown, timeout, blocked or unavailable
  instead of failed), plans that are neither ready nor sealed, and the mark
  `measured_partial` of a duration.
* In the attempts: a close beside a call of the same client, which a run does not make
  because it closes its clients when all calls are over; `MemoryAdapters` has it. So a
  call that fails as `"unsent"` has sent nothing.
* In the study: argument checks, the doctor, costs, intervals and rendering. A `stop` of
  the services is assumed not to be issued while another driver's cell is alive.
* Not modelled, because they are functions over documents without state: configuration,
  workloads other than the fake one, rendering, claims, the remaining validators,
  external evidence, timing and case selection. Containers are external.

## 5. Plan

What remains, in this order.

1. **More of a capsule**: two questions of one history and two histories, so that
   records of one may stand for those of the other; aborted runs.
2. **Functions**: `runtime/timing.py`, `runtime/case_selection.py` and
   `reporting/accounting.py` with reference definitions over bounded inputs.
3. **Composition**: `Study`'s publication over `DurableRegister`, so that a power loss
   may fall between the files of a report.

## 6. Running

    tlc -workers 2 -config MCNativeAttempt.cfg MCNativeAttempt
    tlapm AccountingProofs.tla

`PROJECT.json` names module and configuration of every run, the source lines of every
definition, and for each property a change of the code (an operator whose comment
begins "As a bug would have it") under which TLC finds it violated.
