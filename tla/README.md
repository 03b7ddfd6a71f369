# Cyrene Client in TLA+

A verification development of the control plane of this repository. TLC checks
the modules on small instances, and TLAPS proves the theorems for every value of
their constants. Paths are relative to `src/`.

| files | what they are |
|---|---|
| `RunCoordinator.tla` | one run of a pipeline: `packages/run-control/service.ts` with its execution providers |
| `ExecutionFence.tla` | what the coordinator promises about executions, without its machinery |
| `RunCoordinatorProofs`, `ExecutionProofs`, `FenceProofs` | theorems about `RunCoordinator` |
| `RunAdmission.tla`, `ServerControl.tla` | `runs.preflight` and `runs.start`, with the server a run is placed on: `packages/server-control/service.ts` |
| `AdmissionProofs` | theorems about `RunAdmission` |
| `BuildControl.tla` | node image builds: `packages/build-control/service.ts` with `github.ts` |
| `BuildProofs` | theorems about `BuildControl` |
| `ServiceUpdate.tla` | image updates on a Windows host: `main.rs` and `maintenance.rs` of `apps/win/crates/cyrene-installer` |
| `AtomicUpdate.tla` | what an update promises the tasks on the host |
| `UpdateProofs` | theorems about `ServiceUpdate` |
| `PipelineControl.tla` | the pipeline service: `packages/pipeline-control` |
| `PipelineEditor.tla` | the web client's editor on top of it: `apps/web/src/pipelines` |
| `PipelineProofs`, `EditorProofs` | theorems about `PipelineControl` and about `PipelineEditor` |
| `MC*.tla`, `*.cfg` | small instances for TLC |
| `PROJECT.json` | which definition models which lines, the runs, mutants, hazards, theorems |

Check a run with `tlc -config MCRunCoordinatorSafety.cfg MCRunCoordinator.tla`,
a proof with `tlapm RunCoordinatorProofs.tla`.

## 1. Inventory

The control service (`apps/control`) is one process with a store of one JSON
document per service. A transaction reads a document, changes it synchronously
and writes it back as a whole, in SQLite or PostgreSQL, or not at all. Commands
arrive over HTTP and MCP. A worker (`apps/control/main.ts:57-61`) ticks run
control and build control every second, and each of them awaits providers
between its transactions. The hard behaviours all come from that: whatever is
read before an await may be stale after it, calls may have happened although
they failed, and the process may end in between.

**run-control.** State: runs with a step per node (state, `attemptId`,
`generation`, `retries`, `config`, `actualConfig`, `change`, outputs, polling
times), their events, attempts and receipts. Operations: `runs.preflight`,
`start`, `stop`, `resume`, `preview_change`, `apply_change`, `observe`, and
`tick`/`advance`. It reads pipelines from pipeline-control, servers from
server-control and calls one `ExecutionAdapter` per node type. Hard: stops
between awaits, starts that time out after being accepted, observations
committed late, automatic retries, a failure that strands the steps behind it,
changes whose call is in doubt. Correct when every execution is accounted for
by one open step, a stop wins, ends are kept, and everything ends.

**build-control.** State: builds with profile, sources, state, `workflowRunId`,
result; events and receipts. Operations: `builds.start`, `cancel`, `reconcile`,
`get`, `tick`/`advance`. It calls GitHub, whose dispatch has no idempotency key.
Correct when a workflow is dispatched once, only verified results count, and a
cancellation is kept.

**control-storage** (with `tooling/*-store.ts`). State: documents. Correct when a
transaction is atomic and isolated; `reconciliation.ts` says which failures are
definitive and how long to wait.

**pipeline-control.** State: per pipeline a document with a graph and a layout
revision, a bounded history, redo entries, receipts, presence. Operations: save
(with a three-way merge of a stale graph), patch, layout, undo, redo,
collaborate. Hard: two revisions checked separately, merges against a history,
undo after someone else's edit, a layout computed before its transaction, writes
repeated after a lost answer. Correct when no write replaces what its author has
not seen or is applied twice, and an undo takes back its own change only.

**node-registry.** State: packages, versions, activations, and an in-memory
catalog installed after each commit. Hard: two commits installed in the other
order. Correct when the catalog equals the stored activation.

**server-control** and `placement.ts`. State: registrations, audit events,
receipts; observations are not stored. Hard: `servers.resolve` reads the
registration three times around the await of the observation. Correct when a
placement is given a node of the server's revision it names.

**team-control.** State: members, sessions, audit. Hard: the key derivation is
awaited before the transactions of bootstrap, new members and logins. Correct
when there is one bootstrap and one member of each name.

**control application and helpers** (`apps/control`). Routes, the event stream
`run-stream.ts` (cursor, last revision sent), the requests to the privileged
update and workload helpers. Correct when a client with the current revision
sees the run's state.

**Windows updater** (`apps/win/crates/cyrene-installer`). State: an update journal
for the Product containers and one for the Workspace group, stored plans, the
Compose files, the containers, the group's compatibility state; and, with the
runtime broker, the maintenance fence no task starts under. Operations: check,
stage and apply a plan, the command-line update, catalog import, and the recovery
every operation begins with. Hard: a crash between any two writes, a Begin or End
of the fence that is not answered, a recovery that is interrupted itself. Correct
when an interrupted update ends with the old or the new image, healthy, and to
the tasks on the host it was one step.

**Web client** (`apps/web`). The pipeline editor: the document on the canvas, the
server's record it is based on, local undo and redo, a request under way, a
background poll. Hard: edits made while an answer is on its way, answers and
polls in any order. Correct when an answer never overwrites unsaved edits and no
save overwrites a collaborator's. Besides: recovery drafts in IndexedDB, the
notification feed (cursor, gap recovery, deduplication), the training stream
(cursor, end frame, reconnection); the rest are views and thin HTTP clients.

**Without state of their own:** pipeline-model, workload-plan,
component-updates, service-settings, monitoring, control-client, `apps/mcp`,
proxies, deployment files and generated contracts.

`PROJECT.json` lists all components and, under `hazards`, what each is exposed
to, at its line, with the property that covers it or the reason none does.

## 2. RunCoordinator

One run with its steps (`Nodes`, `Edges`), the coordinator and the providers.

| in the module | in the code |
|---|---|
| `run`, `step` | the stored run and its steps, as far as the code tests them. `attempt` stands for `attemptId`, by its generation (0: absent); `note` for the message, as far as it is compared; `waits` for a `nextPollAt` in the future |
| `task`, `late` | the providers' records of each attempt, and starts still in the network |
| `co` | what `tick` and `advance` hold across awaits: snapshot, phase, observation, error |
| `seen`, `resumes`, `adapters` | whether the client's `expectedRevision` is current; resumes so far (bound); adapters this process has |
| `StopRun`, `ResumeRun`, `ChangeOnline` | `runs.stop`, `runs.resume`, `runs.apply_change` online |
| `TickBegin` to `PrepareOpen` | `tick` and the first transaction of `advance` |
| `StopAnswered` to `StartFails` | its awaited calls, each with an answer, a wrong answer and a failure |
| `CommitAbsent`, `CommitObservation`, `CommitDiscarded`, `RecordUnknown`, `RejectUnstarted` | its closing transactions |
| `Aggregate`, `Cascade` | `aggregate`: steps behind a failure are stopped, the run's verdict is drawn |
| `Elapse`, `Restart`, `StoreFails` | time, the end of the process, a transaction that throws |

Every transaction is one action, and everything that can happen between two
awaits happens between two actions. The providers are outside `src/`; the module
takes the contract of `adapter.ts` and the checks of the coordinator as their
behaviour. They deduplicate attempts, `absent` is authoritative, an observation
may come without `terminalAuthority`, for another attempt or without
`appliedConfig`, and a call may fail after it took effect. `LocalDiagnosticAdapter`
is one such provider. Two constants open what the contract leaves open:
`LateDelivery` (a start that timed out arrives afterwards) and `Silent`
(`appliedConfig` omitted). `Purges` lets a provider forget ended tasks.

`ExecutionFence` is the abstract specification: executions begin, live and end,
steps have verdicts, an execution begins only for an open step without a live
one, and a step is closed only when none lives. `KeepsFence` is its
specification under the refinement mapping (`begun`, `live` from the providers'
tasks, `verdict` from the steps).

| run | instance | shows |
|---|---|---|
| `safety` | two chained steps, one with automatic retries, one resume, restarts that may lose the adapters | `RunEndsWithSteps`, `NoOrphanExecution`, `ConfirmedInputs`, `ExecutionBudget`, `NoStrandedStep`, `StopSticks`, `VerdictStands`, `KeepsFence` |
| `change` | one changeable step, two configurations, no resume; starts given up arrive late, the provider may omit `appliedConfig` and forget ended tasks | `SettledConfig`, `ChangeKept`, `RevisionFencesSteps`, `RevisionFencesRun`; `OneExecution`: without a resume, late starts do no harm |
| `progress` | two chained steps, fair | `StopEnds`, `RunEnds` |
| `late_start` | one step, one retry and a resume, `LateDelivery` | `OneExecution` is violated |
| `silent_provider` | one step, `Silent` | `ReuseSound` is violated |

*Bounds.* `MaxGeneration` bounds the attempts of a step and is chosen above what
the other bounds allow (`(MaxRetries + 1) * (MaxResumes + 1)` is at most 4), so
that it never cuts a behaviour of any run. `MaxRetries` is 2 in
the code; 1 already has a first attempt, a retry and an exhausted budget, before
and after a resume. Two steps give the order between a predecessor and a
successor in every combination of phases; `NoStrandedStep`, about chains of any
length, is proved for every graph. `MaxResumes = 1` suffices to meet an attempt of before the resume
with one of after it.

*Fairness.* The worker calls `tick` every second, so `TickBegin` and the visit
of each step are weakly fair; an awaited call returns or runs into its timeout
(`http-adapter.ts:16-30`), so `Calls` and `Commits` are; `retryDelay` is bounded,
so `Elapse` is. That a provider asked for ever answers at last is strong
fairness of the answers. `StopEnds` and `RunEnds` further assume `OutagesEnd`
(restarts and store failures cease) and `RunEnds` that accepted tasks finish:
nothing in the code can end a run without them.

*Revisions.* `seen` says whether the revision a client holds is the current one.
Its commands need that, and `run-stream.ts:23` sends it nothing but heartbeats
while it stays, so `RevisionFencesSteps` and `RevisionFencesRun` say what such a
client still knows: all it sees of the steps, and whether the run is being stopped
or over. One difference is allowed, in section 7. The stream itself, its frames
and the cursor of its events, is not modelled.

*Ending.* The worker keeps visiting the store, so deadlock is checked in every
run, although nothing changes any more once the run has ended.

## 3. BuildControl

The builds of one workspace, profile and source SHA, which
`DUPLICATE_ACTIVE_BUILD` keeps apart, and the workflow runs GitHub has of them.

| in the module | in the code |
|---|---|
| `build` | the stored builds; `note` is the message as far as it is compared, `result` the run whose manifest is stored |
| `runs`, `late` | GitHub's runs (title, identity checks and manifest as bits), dispatches still in the network |
| `co`, `claim`, `seen` | what `advance` and `builds.reconcile` hold across awaits, and a client's revision |
| `Start`, `Cancel`, `ReconcileAsk`, `ReconcileCommit` | the commands; `builds.reconcile` is two actions, around its await |
| `PrepareDispatch`, `PrepareObserve` | the first transaction of `advance` |
| `Dispatch*`, `Observe*`, `Cancel*` | the calls to GitHub: answered, refused, failed with or without effect |
| `ReceiptCommit`, `ObservationCommit`, `CatchCommit` | the closing transactions |
| `ManualDispatch` | a person starts the workflow with a build's inputs |

| run | instance | shows |
|---|---|---|
| `builds` | two builds, two workflow runs | `DispatchOnce`, `VerifiedResult`, `OneWorkflow`, `CancelSticks`, `EndSticks`, `RevisionFencesBuilds` |
| `build_progress` | one build, two runs, one dispatched by hand, fair | `CancelEnds`, `BuildEnds`, `IdentityHeld` |

*Bounds.* Two builds are what `DUPLICATE_ACTIVE_BUILD` is about, and two runs
what a repeated title or a second identity needs; the proofs hold for any
number. *Fairness* is as for runs; the answers GitHub gives to a repeated
question are strongly fair, and a run that was asked to halt ends. A build of
which GitHub has no run may wait for ever: the code keeps it `unknown` on purpose
instead of dispatching it again, so the liveness properties speak only of builds
GitHub has a run of.

## 4. ServiceUpdate

One host, its two kinds of update (`product`, `group`) and the helper process
that carries them out under the update lock.

| in the module | in the code |
|---|---|
| `plan` | the stored plans' phases; a plan is bound to the catalog it was made from |
| `journal` | `ServiceUpdateJournal` and its group counterpart: phase, request id, previous and new image, the Compose file before |
| `compose`, `container`, `adopted` | the Compose file, what Docker runs and its health, the installed compatibility state |
| `request`, `busy`, `late` | the broker (external): what became of each `BeginMaintenance`, tasks running, calls given up that may still arrive |
| `h` | what the helper holds in memory: the point it has reached, and for whom |
| `RecoverGroup`, `RecoverProduct` | the recovery every operation starts with (`main.rs:4440`, `main.rs:4272`) |
| `Check`, `Stage`, `Apply`, `Update`, `Reject`, `ImportCatalog` | the operations, after it |
| `Prepare`, `Begin*`, `Token`, `Refusal*` | journal, `BeginMaintenance` with its answer, refusal or silence, the token stored |
| `WriteCompose`, `Up*`, `Healthy`, `Adopt`, `Recheck` | the new image |
| `RollbackBegins`, `Restore`, `ReUp*`, `Restored` | the old one |
| `End*`, `Record`, `Clear`, `Done` | `EndMaintenance`, then the journal and the plan |
| `StepFails`, `Crash` | a write or a query fails; the helper dies, its call still in the network |

Each action ends at one durable write, Docker command or answer, so a crash may
come between any two. `AtomicUpdate` is the abstract specification: an update
takes the fence while no task runs, no task starts under it, and it is released
with the new or the previous image and no other touched. Under the refinement
mapping (`ImageSeen`, `FenceSeen`) the image is the old one until the broker is
told of a success.

| run | instance | shows |
|---|---|---|
| `updates` | two images, both kinds, two requests for the fence, fair | `FenceJournaled`, `OneUpdate`, `Settled`, `FencedApply`, `PlanKept`, `OutcomeTrue`, `UpdatesAtomic`, `RecoveryEnds` |
| `unfenced` | the same with one request | `RestartsFenced` is violated |

*Bounds.* The only counter is `MaxRequests`; crashes, failures, recoveries and
late calls are unbounded. Two requests give an update, the recovery of an
interrupted one and the next update of either kind, with calls of the first
still in the network; two images a candidate and what it replaces.

*Fairness.* The helper is not a service that retries: it runs when an operator
asks. `RecoveryEnds` assumes that operators ask again (`Start`, `Recovery`,
`Operations`) and that a helper goes on once started (`Steps`), all weakly; and
`OutagesEnd`, that Docker, the disk, the broker and the helper fail only for a
time. It speaks of every journal that is not `Abandoned`; those are in section 7.

*Assumptions.* A definitive refusal of `BeginMaintenance` is final, and Begin and
End are idempotent by their request id (the code relies on both). Containers do
not fail by themselves while no update is at work. A `docker compose` that
outlives its killed helper is left out. Group members change together. Some
neighbouring writes are one: the journal's phase with the group's restored state,
and `ending_success` with `candidate_healthy`. Which operation was asked for is
chosen when the recovery is over, which changes nothing since the recovery does
not look at it. Plans of an earlier catalog, which are never applied, are `none`.

## 5. PipelineControl and PipelineEditor

`PipelineControl` is the service and one pipeline.

| in the module | in the code |
|---|---|
| `record`, `history`, `redo`, `receipts` | the stored pipeline with its two revisions, its history entries (an entry's id is its index), redo entries and receipts |
| `arranged` | layouts that were computed and are not stored yet |
| `Independent`, `MergedGraph`, `MergedLayout`, `Mergeable` | `mergeIndependentGraph` and the merge of documents |
| `SaveDocument`, `Patch`, `Arrange`/`LayoutDocument`, `UndoChange`, `RedoChange` | the commands; an automatic layout is computed before its transaction |
| `Accept`, `Replay`, `Refuse` | a write happens once per key, is answered from its receipt, or changes nothing |

`PipelineEditor` composes it with one editor and other clients.

| in the module | in the code |
|---|---|
| `doc`, `past`, `future` | the canvas and its local undo and redo (`usePipelineDocument.ts`) |
| `base`, `call`, `last`, `poll` | the record last applied, the request under way, the write and key sent last, a version the poll has read (`PipelineControls.tsx`) |
| `opening` | the `openServerPipeline` under way (`usePipelineDocument.ts:138`) |
| `late` | writes the editor gave up that are still in the network |
| `EditCanvas`, `UndoLocal`, `RedoLocal`, `Ask*` | what the person does |
| `Deliver`, `Fail`, `DeliverLate`, `OpenRead` | the network |
| `SaveAnswered`, `UndoAnswered`, `OpenAnswered`/`OpenDropped`, `PollRead`, `PollAnswered` | the handlers of the answers, with the merge of an acknowledgement and `Rebased` for the local history |
| `Tools` | other clients, which write with the revisions they have just read |

The menu's requests go one at a time (`inflight`, `PipelineControls.tsx:69-72`),
its openings included. The assistant's window opens a pipeline outside that guard
(`App.tsx:338`), so `AskOpen` may come at any time and `opening` runs beside a save,
an undo and the poll; what the menu's openings can do is among what it can do.
One at a time suffices: an opening that is applied replaces the canvas, and every
other one is then refused because it began on the canvas before. The code compares
that canvas by identity, `OpenAnswered` by content, so the model also lets through
an opening during which an edit was made and taken back.

| run | instance | shows |
|---|---|---|
| `pipelines` | two nodes with an edge to draw, an editor and one other client that edits, connects, removes, moves, undoes, redoes and arranges | `EditorTypeOK`, `HistorySound`, `NoBlindOverwrite`, `UndoOwn`, `LocalEditsKept` |
| `lost_edit` | each changes either node, to values of its own | `CollaboratorsKept` is violated |

*Bounds.* `MaxWork` counts edits, reads, requests given up, the editor's writes
and all stored writes together: 5 allow an edit, a save, another client's write
in between, an undo and its redo in every order, and 6 the four steps of the
counterexample with its reads. `MaxReceipts` is `STORE_LIMIT` (1000 in the code,
5 here, and reached); `MaxRedo` and `MaxPast` are 50 in the code and 2 and 1 here,
so that entries fall off. The proofs hold for every value.

*Left out:* the order of arrays, the name and pin, new, import and replace, the
repair of redo entries of an older format (`service.ts:195-210`), recovery drafts
(each tab writes records of its own), the preview of a layout, permissions. A
patch makes one edit; the keys of other clients are fresh.

Nothing in this part is scheduled by the program, so no liveness is stated, and
deadlock is not checked: when `MaxWork` is spent and no answer is due, all rest.

## 6. RunAdmission and ServerControl

`RunAdmission` is how a run comes to be, for clients that repeat a request whose
answer they did not get. It extends `ServerControl`, the registration of the one
server its one task is placed on.

| in the modules | in the code |
|---|---|
| `server`, `past`, `host` | the stored registration, what its earlier revisions named (for `TargetsTrue`), the hosts behind the connections (external) |
| `UpdateServer`, `ArchiveServer` | the commands of server-control, one transaction each |
| `graph`, `runs`, `receipts` | the pipeline's revision, the accepted runs with the plan of their `preflightFingerprint`, the receipts of `runs.start` |
| `plan`, `told` | by idempotency key, the preflight its client was shown and the run it was told of |
| `call` | the requests under way, with what they read before their awaits |
| `Replay`, `ReadGraph`, `Resolve`, `Status`, `Observe`, `Recheck` | `execute` up to its transaction: receipt, `pipelines.get`, and the three reads and the await of `servers.resolve` |
| `Accept` | the transaction: the receipt once more, the duplicate check, the new run |
| `Lost` | a refusal, a lost request or answer, the end of the process |
| `EndRun`, `Resume` | what `RunCoordinator` makes of a run, as far as the duplicate check looks at it |

| run | instance | shows |
|---|---|---|
| `admission` | two intentions of one person, two requests under way, two connections to a host, two revisions of graph and registration | `AdmissionTypeOK`, `StartsOnce`, `TargetsTrue` |

*Bounds.* Two requests are one that overtakes another, of the same intention or of
two; lost requests are replaced for ever, and runs end and are resumed without
bound. Two revisions give a change between any two reads; a second change could
only restore what the first one changed, under a revision that differs from both.
Keys, requests and connections are interchangeable and TLC treats them so.
Deadlock is checked: hosts always come and go.

*Abstractions.* A revision of the graph names one content (`HistorySound` of
section 5), a fingerprint is what it was computed from, and an idempotency key
stands for one request, as the web client makes them (`RunPanel.tsx:25`); its reuse
for another is refused by the code. What the adapter's own preflight answers is
left out; a plan that differs in it differs as one with another node does.

## 7. Where the code and its words differ

Four runs expect a violation of what a document or message says:

- **`late_start`.** `stop` answering `absent` closes the step
  (`packages/run-control/service.ts:347`). If the start that timed out before is
  still in the network, and the run is resumed, two executions run at once.
  `docs/distributed-control.md:80` excludes that. A provider that records stop
  intents for attempts it does not know would prevent it; `adapter.ts` does not
  ask for it and the bundled one does not do it.
- **`silent_provider`.** A provider that omits the optional `appliedConfig`
  leaves `actualConfig` at what an earlier attempt ran with; after changing the
  configuration and back, a result computed with another configuration counts
  as reusable (`service.ts:228`), shown to users as a confirmed result.
- **`unfenced`.** A recovery restores and recreates containers from a journal
  whose maintenance the broker may have ended before the crash (`main.rs:1718`,
  `main.rs:4406`): tasks may run by then. `main.rs:4532` refuses a recovery without
  a fence.
- **`lost_edit`.** A save is acknowledged with another client's node merged in.
  If the graph was edited meanwhile, the canvas keeps the local graph but the
  base becomes the acknowledged record (`PipelineControls.tsx:93-94`); the next
  save overwrites the other client's node with the value from before.
  `docs/distributed-control.md:13` says that conflicts are refused.

Other behaviours the modules contain, without a run of their own:

- The receipt of a dispatch, or the find of a search, overwrites an identity that
  `builds.reconcile` has confirmed meanwhile, when the build has a second genuine
  run, dispatched by hand (`packages/build-control/service.ts:116`). The error text
  at line 59 says that a confirmed identity cannot be replaced; `IdentityHeld` says
  what is true of it.
- With two steps at work at once, a dispatch may set the run to `running` and an
  unchanged observation of the other step back to `attention`, with neither a
  revision nor an event (`packages/run-control/service.ts:275`, `:394`). The stream
  sends heartbeats then (`run-stream.ts:23`), and a client holds the current
  revision with the other of the two states until the next change. `RevisionFencesRun`
  says that it is the only difference.
- `Abandoned` journals, which no later operation clears: a product update whose
  Begin stayed unanswered has its plan stored as `failed`, after which a refusal
  no longer cleans up (`main.rs:4091`); a group's refusal never does, and the
  recovery of a group whose plan is no longer `applying` stops at once. Every
  later operation stops there.
- A crash after the journal is removed and before the plan's outcome is stored
  leaves a plan `applying` for ever, which blocks catalog imports
  (`main.rs:2530`).
- An acknowledgement whose merge with the canvas is not a valid document throws,
  and the editor keeps its old base.
- The assistant's window opens the version of before a save that is under way. The
  save's answer then keeps the opened graph as if it were an edit made meanwhile
  (`merge.ts:8-14`) and takes its own record as the base, so the next save would
  take back the one before.

## 8. What is proved

All proofs assume only the named assumptions of the modules: finite sets,
natural bounds, edges between nodes, images, nodes and plans that are no
placeholders (`AbsentAssumption`), and an editor and clients that are actors and
ask for edits the service has (`EditorAssumption`).

**RunCoordinator.**

- `TypeCorrect`: `Spec => []TypeOK`. One lemma per group of actions; it also fixes
  which attempt the coordinator holds in each phase, which all later proofs use.
- `VerdictsAgree`, `VerdictsStand`, `StopIsFinal`: `RunEndsWithSteps`,
  `VerdictStands` and `StopSticks`. The first is inductive with the types,
  because every transaction that ends a step calls `aggregate`. The other two are
  facts about a single step of the specification in a well typed state, shown
  once for everything that writes the store (`Touches`, `Rules`).
- `NoneStranded`: `NoStrandedStep` for every graph. The invariant adds that a step
  never dispatched has no retries and no attempt (`Undispatched`); the core is
  `CascadeComplete`, that what `aggregate` closes is closed under `Edges`.
- `BudgetKept`: `ExecutionBudget`, from `WithinBudget`, which bounds each step's
  generation by the resumes so far and the retries it has left.
- `ChangesKept`, `RevisionsFenceSteps`: `ChangeKept` and `RevisionFencesSteps`.
  Both go through what a transaction of the coordinator writes to the step in
  hand (`StepsEdited`). The second needs two invariants besides: that a doubt
  recorded in a step is one a client can see (`DoubtHolds`), and
  `NoStrandedStep`, because of which `aggregate` closes no further step when the
  written one looks as it did before.
- `RevisionsFenceRun`: `RevisionFencesRun`, from the same two and two more: a run is
  over only with its steps, and queued only while none of its open steps has been
  dispatched (`QueuedIdle`), so an unchanged observation of an open step is made
  of a run that is running, in attention or stopping, and `aggregate` leaves it
  so.
- `InvariantHolds`, `NoOrphans`, `OneExecutionEach`: without late delivery, whatever
  a provider executes is the current attempt of an open step. `NoOrphanExecution`
  is not inductive. `ExecutionInvariant` adds that attempts are minted in order
  (`AttemptsMinted`), that no provider knows a future one (`FutureUnknown`), that
  the coordinator's call is about the attempt the store holds (`AttemptHeld`),
  and that an answer under way which would close the step is still true when it
  is committed (`ReadingsHold`).
- `AloneUntilResumed`: until the first resume, `OneExecution` whatever arrives late,
  which `late_start` shows to be all there is. `LateInvariant` keeps what of
  `ExecutionInvariant` survives a late start, and adds that nothing in the network
  is of an attempt to come (`Mailed`), that what was heard of the attempt in hand
  is of a task it has, and an end with authority of one that is over (`Told`),
  and, as long as nothing was resumed, that a new attempt is minted only when the
  one before is over at its provider (`Exhausted`): a late start cannot begin it
  again.
- `ConfigSettles`: `SettledConfig`, late starts included. `ConfigHeld` says that
  what the coordinator is about to send is the configuration the store holds, and
  that a configuration it was told of is the task's unless a change is still due;
  a change accepted while a call is under way is why the second half is needed.
  For late starts, `Going` says that a step that runs or has a change outstanding
  has a task, so that a start given up can only begin an attempt that was never
  offered for a change, and `MailFits` that such a start has its configuration.
- `InputsAreConfirmed`: `ConfirmedInputs`, late starts included. The invariant says
  that only a dispatched step has work, a start under way or one in the network
  (`Begun`), that only a step behind successes is dispatched (`Fed`), that a
  success about to be recorded is the task's (`Heard`), and that a step succeeded
  in its last attempt or in an earlier run (`Earned`).
- `ReuseIsSound`: `ReuseSound` where no provider omits `appliedConfig`, whatever
  arrives late. A success with authority comes with the configuration on record
  for its attempt (`Reported`), which nothing changes any more (`ConfigsLast`), and
  which is the one the store keeps for the step (`Recorded`). So the omission that
  `silent_provider` shows is the only way to reuse a wrong result. TLC checked
  the two invariants first, with one retry and with one resume.
- `FenceKept`: without late delivery `KeepsFence`, the refinement of
  `ExecutionFence`: every step of the coordinator, a provider or a client maps to
  one of the fence's actions or to a stutter (`FenceNext`). The mapping reads the
  store and the providers' records, never the coordinator's memory, so a restart
  is a stutter by construction and a call is the action of whoever it reaches.

**BuildControl.**

- `BuildsTyped`, `BuildsConsistent`, `NeverTwice`, `OnlyVerified`: `BuildInvariant`
  adds to `DispatchOnce` and `VerifiedResult` that a build not yet prepared was
  never sent (`UnsentIntents`), that builds with a call under way are open
  (`OpenInFlight`) and that a success about to be recorded is still a verified
  one (`ConfirmedReading`).
- `CancelIsKept`, `EndIsKept`, `RevisionsFence`: `CancelSticks`, `EndSticks` and
  `RevisionFencesBuilds`; the last because whatever writes a build announces it
  (`EveryAnnouncement`).
- `WorkflowAlone`: `OneWorkflow`, the claim behind `DUPLICATE_ACTIVE_BUILD`. Its
  invariant, `WorkflowInvariant`, says that every run is a build's, that a build
  with a run that works is open, that one build is open at most, that the run an
  observation holds is still there, and that a build about to be closed has no
  run at work. It was checked by TLC on the `builds` instance before.
- `IdentityIsHeld`: `IdentityHeld`. A reconciliation under way names no run but the
  confirmed one (`ClaimsAgree`), because everything that confirms a run announces
  it and so voids the claim.

**ServiceUpdate.** `UpdatesTyped`, `NoLostFence`, `OneAtATime`, `NothingHalfMade`,
`AppliesFenced`, `PlansKept`, `OutcomesTrue` and `ImplementsAtomicUpdate` prove
every safety property of `updates`, the refinement included, from one invariant:
the types, `JournalInv` (one journal, which the helper's step belongs to),
`PhaseInv` (which phases it is in at each step), `FenceInv` (what the broker makes
of the request it names), `HostInv` (what Compose file, container and
compatibility state hold at each step) and `PlanInv`. None of the properties but
the types is inductive: whether the fence may be released depends on the phase,
the phase on the step reached, the containers on both. TLC checked the invariant
on all 286,520 states of the instance first.

**PipelineControl.** `PipelineTyped`, `HistoryHolds`, `NothingOverwritten` and
`UndoneOwn`, from the types, `Told` (the history begins with the
creation, every later entry with a record), `Latest` (no record known is newer
than the stored one, and one of the same revision has its content),
`HistorySound` and `Stacked` (what an actor may undo is older than what it may
redo, and each redo entry takes back what its undo did). TLC checked it on the
`pipelines` instance first. `NothingOverwritten` also says that no write is stored
twice under one key of an actor, which the receipts are for. The theorems are
about the service under any requests.

**PipelineEditor.** `EditorImplements` is the composition's refinement: whatever
the editor and the other clients lose, repeat or have arrive late, every step is
one of `PipelineControl` or a stutter. So the theorems above hold with them:
`EditorHistory`, `EditorOverwritesNothing`, `EditorUndoesOwn`. It needs the types
of what the editor holds (`CanvasOK`, `WireOK`: the base, the answers and what the
poll has read were stored at some time), hence `EditorTyped`. `EditsKept` is
`LocalEditsKept`. The one recursion of the model, `Rebased` over the local
stack, is a recursive function; that it exists and yields documents is shown in
`ChainExists` from the least step at which it would not, since the library's
induction theorems cannot be used.

**RunAdmission.** `AdmissionHolds` is the inductive invariant: what a request has
read holds of the registration it first read as long as that is the current one
(`Requests`), the current registration's connection is on record (`Registered`),
no plan names a registration to come (`Registrations`), and receipts and runs name
each other (`Receipted`), which makes an answer the intention's own however often
it is asked for. From it `AdmissionTyped`, `StartedOnce` and `TargetsHold`, for any
number of keys, requests under way and revisions. TLC checked it on the
2,736,656 states of the instance first.

The type invariants of `RunCoordinator`, `BuildControl` and `ServiceUpdate`, and
`ExecutionInvariant` and `BuildInvariant`, are proved for every value of the
constants; TLC checked them on the instances first, and the runs leave them out.

Every safety property of the passing runs is proved, `NoOrphanExecution`,
`KeepsFence` and, beyond the first resume, `OneExecution` for providers without
late delivery: with it the first two are false, since a start that arrives after
its step was closed begins an execution nobody waits for, and `late_start`
violates the third. Only model-checked are the liveness properties, which are out
of the prover's reach as `ENABLED` is, and the four violations; what is true of two
of them is proved (`AloneUntilResumed`, `ReuseIsSound`).

Each property has a mutant in `PROJECT.json`: an operator `Faulty...` written
before the one it spoils, with a bug that code could plausibly have, under which
TLC finds the property violated. `Next` never uses one.

## 9. What is left out, and the plan

Left out of the modelled services: the event logs, scopes, lists and previews,
the text of messages beyond their comparison, and the content of outputs and
manifests beyond their validity; receipts, but for the pipeline service and
`runs.start`.

**Not modelled.** Views, parsers, schemas and HTTP forwarding, which keep no
state of their own and are most of the repository's lines; the host helpers and
the installer's downloads, signatures and settings, one bit each where
`ServiceUpdate` needs them; and the following, in order of importance:

1. `NodeRegistry` composed with `BuildControl`, and `TeamControl`: the order in
   which commits are installed in memory, checks after awaits, limits.
2. Branching by `runs.apply_change`, the frames and the cursor of `run-stream.ts`,
   placements on pools of servers.
3. `NotificationFeed` and `TrainingStream`: gaps, duplicates, reconnections,
   against the abstract promise that each event is shown once and in order.
