# Kernary in TLA+

Specifications of the parts of Kernary (the Rust workspace in `src/`) that decide what
happens, the TLC runs that check them on small instances, and theorems about them that the
TLA+ proof system has checked for every instance. The code is the reference: every definition
that models code has its lines in `PROJECT.json` under `map`, every property has a mutant
there (a plausible bug that breaks it), and `hazards` lists what is hard to test in this code
with the properties that watch it.

Contents: 1 the system · 2 the modules · 3 the runs · 4 the proofs · 5 what the runs found ·
6 what is not modelled, and the plan.

## 1. The system

Kernary is a coding-agent terminal. One process serves one project (a lock of the operating
system guards the project's state), keeps everything durable in SQLite files and a few text
files, and may be killed at any time.

| component | state it keeps | operations | talks to |
|---|---|---|---|
| **Mission kernel** `harness-kernel/mission*.rs` | status, nodes (the work graph), runs, approvals, version | 11 commands, decided purely into events and effects; events reduced into the state | its store, through events and effects committed together |
| **Outbox and fence** `sqlite_store.rs`, `fencing.rs` | one row per effect: pending, claimed (token, lease), completed, failed | list claimable, try to claim, complete under a fence | the drive loop and agent teams |
| **Event store** `sqlite_store.rs` | aggregate events, versions, snapshots | commit at an expected version, snapshot, recover | kernel, sessions |
| **Handles** `sqlite_store.rs` | a worker thread with the connection, its queue of commands | open, migrate, execute, answer, close | every port of the store |
| **Sessions and context** `session.rs`, `harness-context` | the session aggregate; series of context epochs with a head, checkpoints | goals, messages; append, compact, roll back, fork | application, models |
| **Application** `harness-application/lib.rs` | active mission, continuations kept for approvals, run controls | run a task; prepare, finalize, resume a team; drive effects; approve, deny, cancel | everything |
| **Terminal** `bins/harness/main.rs`, `harness-terminal` | the task or team in the background, the question that is open | keys, commands, polling | the application, which it lends to a thread |
| **Agents** `harness-agent` | profiles, sessions of runs, escrows, a pool of workers | plan, dispatch, execute, reserve, charge | models, tools |
| **Tool runtime, permissions** `harness-tool`, `harness-permission` | journal of invocations; requests, grants, rules | invoke, approve, deny, retry; decide, respond | application, user |
| **Patch stores** `harness-lsp-patch`, `harness-builtin-tools` | previews, one record per changed file | preview, apply, undo, reconcile | files, language servers |
| **Models** `harness-model`, `harness-provider-*` | registry, route, selection; one stream per turn | select, fail over, stream | providers |
| **Settings and keys** `harness-config`, `harness-auth`, `main.rs` | layers of settings; credential store, provider files | set, switch, wizards | sessions, models |
| **Servers and plugins** `harness-mcp`, `harness-lsp`, `harness-plugin`, `harness-skill` | configured and running servers, catalogue of tools, pending calls, tokens | connect, call, enable, log in | child processes, HTTP |
| **Memory** `harness-memory` | records, generations of vectors, the index of the repository | add, search, purge, update | embedding providers, language servers |
| **Browser** `harness-browser` | status, journal, a worker process | open, act, hand over, take back | the user |
| **Maintenance** `maintenance.rs` | journal of a restore, files set aside | back up, restore, recover | databases |

**What is hard.** A run passes through four stores that are written one after the other: the
kernel's events (with the outbox rows they add), the outbox completion, the agent session, the
tool journal. The process may die between any two writes. Claims on effects expire after 30 s
while a model call may take 120 s. The drive loop serves the oldest effect, whichever mission
it belongs to. A team runs in the background while the user cancels members, approves tools or
stops everything; what an approval needs in order to go on lives in memory only. Files are
replaced by two renames. Servers, workers and readers are threads and processes that answer
late, twice or never. A setting is copied into four places one after the other, each of which
may refuse.

**What makes each component correct.**
- *Kernel*: nodes, runs and approvals agree; dependencies are respected; no plan stalls;
  outcomes are final; a closed mission is quiet.
- *Outbox*: one holder at a time; who is told "recorded" finds it recorded; all is settled.
- *Store and handles*: recovery equals one session that takes one command at a time; the file
  has the schema of one version; a caller is told the truth, once.
- *Application*: work done for one mission never counts for another; the ledger is never ahead
  of the kernel; no running node is forgotten; every operation ends.
- *Tools*: the journal tells what happened; nothing that needs consent runs without it, and a
  consent for one use serves once; a call that may not be repeated starts once.
- *Agents*: a request answers every call it shows; limits hold through extensions, recoveries
  and expired reservations; dialogues and batches end.
- *Files, restores, settings, keys*: whole or not at all, whichever step fails.
- *Servers*: a call gets its own answer or an error and leaves nothing behind; the catalogue
  holds only tools whose owner is there; tokens stay with their server.
- *Terminal*: nobody uses the application while a thread has it; an answer goes to the question
  shown; who insists gets out.

## 2. The modules

`Faulty:` in a comment marks an operator that is part of no specification: a variant of the
definition after it, with a plausible mistake (`mutants` in `PROJECT.json`).

### Abstract specifications

| module | promises | implemented by |
|---|---|---|
| `DagExecution` | a client's view of a work graph: grow, begin, finish, abandon, complete | `Mission`; each mission of `TaskDrive` |
| `EffectLedger` | each effect is written down once, with a report that was made | `Outbox` |
| `Session` | one session, one command at a time | `EventStore` |
| `ToolLedger` | a call is decided, refused or started; touches the world at most once per start; ends with an entry that is true | `ToolApproval` |

### Kernel, delivery, application

| module | models | state → code | steps → code |
|---|---|---|---|
| `Mission` | `decide_mission` with `reduce_mission` | one function per field of `MissionNode`, `AgentRun`, `Approval`; `effects` are the `EffectIntent`s | one action per `MissionCommand` |
| `Outbox` | `list_claimable_effects`, `try_claim_effect`, `complete_effect`, `validate_completion_fence`, and a runner around them | rows, tokens, leases, results; the runner's step | one action per call and outcome of a call, lapse of a lease, crash |
| `TaskDrive` | the application and terminal over kernel, outbox, agent sessions, tool journal | see below | one action per transaction |
| `TeamPlan` | the plans of teams and the choice of each wave | dependencies, agents and status of the nodes, the wave out | `PrepareWave`, `TeamReturns`, `RaisePriority` |
| `SessionCommands`, `EventStore` | `decide_session`/`reduce_session`; commit, snapshot, recover | log, snapshot, what each caller has read | `LoadSnapshot`, `LoadTail`, `Replay`, `Commit`, `CommitFork`, `SaveSnapshot`, `Crash` |
| `StoreWorker` | the handles on one file: `open_with_options`, `run_worker`, `migrate` | schema, each handle's thread, queue, the callers' channels | the migration statement by statement, `Take`/`Execute`/`Answer`, `Send`/`Receive`, `Close`, `Panic`, `Kill` |

In `TaskDrive` the application is single-threaded: a command of the user or the result of a
background team starts an *operation*, a series of transactions. `script` is what remains of
it. An action does `Head(script)`; success goes on with the tail, and a refusal (the `?` of the
code) throws the rest away. So a crash between any two transactions, and the partial effects of
every error path, are explicit. `SubmitTask` is `run_fake_task`; `SubmitTeam` is
`prepare_parallel_agent_team`, or `prepare_review_agent`, which does not ask whether a team is
running, so that `LaunchTeam` may let it go; `DriveEffects`, `Service` and `Model*` are `drive_effects`;
`TeamReturns`, `Settle`, `TeamStops`, `RegroupTeam` are `finalize_parallel_agent_team_step` and
`poll_background_team`; `Resume` is `prepare_recovered_agent_team`; the commands of the user
have the names of the code. The kernel inside is `Mission` seen per *unit* (a run and the node
it was started for). `workedFor` and `promised` are history and guard nothing. Dependencies
inside a team, budgets, steering and contents are in the modules of those components.

### Context, settings, recovery

| module | models | notes |
|---|---|---|
| `ContextSeries` | series, heads, checkpoints, compaction, rollback, fork, reconciliation at start (`harness-context/store.rs`, `sqlite_store.rs`, application) | `op` is the transaction an operation still owes; the process may die before it |
| `ContextWindow` | which items a role is shown, what a compaction covers, the summary and its fallback (`context.rs`, `compaction.rs`) | an identifier is also the time of an item; tokens are small numbers |
| `StateRestore` | a restore, its journal, the swap, and the recovery by whoever takes the lock next (`maintenance.rs`) | each step is one change of the file system; a copy is torn before it is whole |
| `SessionSettings` | four copies of a decision (session events, configuration layer, tool runtime, model runtime), their update one by one and their undoing | a key of each kind: validated together, checked by the model runtime, setting the policy |
| `ProviderSetup` | the wizards that add, switch and remove providers and keys | the key goes into the store before anything is known to work |
| `VectorMemory` | records, generations of vectors, search, purge | calls one at a time, kills between transactions |
| `CodeFacts` | documents, index and edits of a language server against files that change | the server works on the text it was last sent |
| `OAuth` | start, listener, browser tabs, finish, exchange, refresh | a flow, its state and its verifier are one number |

### Tools, permissions, files, servers

| module | models | notes |
|---|---|---|
| `ToolApproval` | `harness-tool` with `harness-permission` and the application's approvals, with restarts | `op` is the operation under way and its step; history variables count effects and consents |
| `PermissionRules` | the rules in the engine, the console's table and the file replaced by two renames | a pattern is the set of paths it matches |
| `PatternMatch` | the two matching loops, step by step, against what a pattern means | all patterns up to `MaxPattern`, names up to `MaxValue` |
| `PatchSet` | previews of several files, applied and undone as wholes; reconciliation at start | a record is prepared before its file and marked after it |
| `ToolServers` | servers, plugins, skills, the catalogue and the allow list | connecting and enabling step by step, the rest one action per outcome |
| `Rpc` | calls over pipes: `transport.rs`, `stdio.rs`, `legacy.rs` | callers, reader, server, the lock of the input, close |
| `HttpSession` | calls over HTTP with resumed streams (`http.rs`) | stream 0 is the server's own; the last event is shared |
| `ModelTurn` | a run of the foreground's model over three streaming protocols | provider, parser, thread, channel, turn |
| `Browser` | the browser that agents and user share, its worker and journal | the worker may print noise, answer late, exit |

### Agents and terminal

| module | models | notes |
|---|---|---|
| `AgentDialogue` | an agent's conversation: turns, extensions, restarts, calls, approvals, steering | `talk` is the `AgentModelContinuation`; `shown` what a request shows |
| `AgentExecutor` | a batch on the bounded pool, the cancellation tokens, the gate that warms a provider's cache | every step between two locks is an action |
| `AgentBudget` | escrows: reserve, charge, release, expire (`budget.rs`) | `sealed` is history: the rows as they were closed |
| `Console` | the loop of the terminal and the backend that lends the application away | `panicked` would be a use of the application while it is away |

### Composition and instances

`MCMission`, `MCDelivery`, `MCTools`, `MCPersistence` and `MCAgents` each run several modules
that share no state: `part` names the one a behaviour moves, so that the state spaces add up
instead of multiplying. A property of a part reads `part = "..." => ...`. `MCTaskDrive`
gives `TaskDrive` its two tasks and the team. Components that do interact are modelled inside
one module: kernel, outbox, sessions and journal in `TaskDrive`; journal,
engine and application in `ToolApproval`; session and context in `ContextSeries`; table, engine
and file in `PermissionRules`; configuration, tool and model runtime in `SessionSettings`.

## 3. The runs

| run | instance | shows |
|---|---|---|
| `mission` | 3 tasks, 3 runs, 2 approvals; teams with every combination of five of the 18 features (full stack, frontend, localization, platform, release) in three modes under two limits; a browser with 3 actions | the kernel's seven invariants, final outcomes, `ImplementsDag`; `TeamHolds`: waves in the order of the gates, without a gap and without being stranded; the browser does nothing while the user has it, its journal claims nothing that was not done |
| `delivery` | 2 runners, 2 effects; 1 caller with 2 calls over a pipe; 2 posts, 2 messages over HTTP; a run of a model of 2 turns in 3 protocols | `OneHolder`, `AckMeansRecorded`, `ImplementsLedger`; `CallsHold`: an answer is one's own or an error, nothing is left behind, a model run acts on whole responses only; `DeliveryEnds` |
| `task_drive` | 2 plain tasks whose nodes have the same name, a team of two, a review | `OwnWorkOnly`, `DoneMeansMoved`, `RunningIsOwed`, `OperationsEnd`, `ImplementsDags` |
| `tools` | 2 calls (a tool that may not be repeated, a file write); 2 previews over 3 files; a server, 2 plugins, a skill; 2 rules; patterns up to 4, names up to 3; 2 sessions, 2 models; 2 providers, 2 keys | `JournalTellsTruth`, `ConsentHolds`, `UserDecides`, `ServersHold`, `ConfigurationHolds`, `ImplementsToolLedger`, `RefusedChangeIsUndone` |
| `persistence` | 2 callers of one aggregate; 3 handles in 2 programs; 4 series, 5 items; 3 files; 2 records; 2 servers | `RecoveryIsExact`, `KeptIsWhole`, `ImplementsSession`, `ProjectOpens` |
| `agents` | 4 requests with extensions; 2 workers, 2 runs in a batch; 4 runs of two missions; 1 source; a terminal | `ModelsAreToldRight`, `LimitsHold`, `ConsoleHolds`, `AgentsEnd` |
| `stale_result`, `resume_later`, `switch_back`, `queue_cancel` | `task_drive` with other bounds | **violated**: section 5 |
| `restore_twice_interrupted` | `StateRestore`, 1 restore, 2 faults | **violated**: section 5 |
| `dialogue_forgets` | `AgentDialogue` | **violated**: section 5 |

**Several components in a run.** Components that share no state sit side by side in an MC
module: a variable names the part that moves, so that their state spaces add up instead of
multiplying. A property of a run then joins what is asked of related parts; each name below is
defined, with its own comment, in the module of the part.

| property | joins |
|---|---|
| `TeamHolds` | `TeamPlan`: `GatesHold`, `WavesBegin`, `NothingStrands`; `Browser`: `HandsOff`, `JournalTellsTrue` |
| `CallsHold` | `Rpc`: `AnswersFit`, `NothingLeaks`, `NewestIsKept`; `HttpSession`: `AnswerIsOwn`; `ModelTurn`: `CallsAreWhole`, `TextIsWhole` |
| `DeliveryEnds` | `Outbox`: `EverythingSettles`; `Rpc`: `CallsReturn`; `ModelTurn`: `NobodyIsStuck` |
| `ConsentHolds` | `AskedOfUser`, `ConsentIsConserved` |
| `UserDecides` | `PatchSet`: `PatchIsWhole`; `PermissionRules`: `RulesAreOne`, `VerdictHolds`; `PatternMatch`: `MatchIsRight` |
| `ServersHold` | `ToolServers`: `CatalogIsOwned`, `PluginIsWhole`, `FileIsInForce` |
| `ConfigurationHolds` | `SessionSettings`: `InForce`; `ProviderSetup`: `KeysAreProven`, `ReadyIsUsable` |
| `KeptIsWhole` | `ContextSeries`: `GoalShown`, `ForkIsExact`; `ContextWindow`; `VectorMemory`; `StateRestore`: `OldOrNewSurvives`, `OpenIsWhole`; `OAuth`: `CodesStayHome`, `LoginIsRenewable`, `FlowIsReachable`, `ClientIsWhole`; `StoreWorker`: `SchemaIsWhole`, `OpenIsCurrent`, `AnswersAreTrue`, `NobodyIsForgotten` |
| `ModelsAreToldRight` | `AgentDialogue`: `CallsAnswered`, `TranscriptRemembers`; `CodeFacts`: `SymbolsFit`, `FoundFactsAreCurrent`, `EditFits`, `IndexCatchesUp` |
| `LimitsHold` | `AgentDialogue`: `BudgetHolds`; `AgentBudget`: `EscrowHolds` |
| `ConsoleHolds` | `LentIsUntouched`, `AnswersGoHome`, `ExitLosesNothing` |
| `AgentsEnd` | `DialogueEnds`, `BatchEnds`, `UserCanLeave` |

**Bounds and why they suffice.** Bounds limit the environment (commands, crashes, lapses,
faults, edits); no step of the program is cut short by one. In each part they are the least
with which the situation the property is about happens, and one more:
- *Kernel*: three tasks make a chain and a fork; with a third run a node is cancelled and its
  dependants with it; two approvals are one pending beside one resolved. `MaxVersion` cuts
  histories, not states: 18 events are more than three nodes need for their whole lives.
- *Outbox*: two runners are a holder and a usurper; two upsets allow a takeover of a takeover.
- *TaskDrive*: two commands cover each pair (submit and approve, deny, cancel, resume after the
  crash, a second task that finds the effects of the first). Without the review the
  invariants also hold with three commands and a crash (2.7 million states), too slow for a
  routine run. Teams are put into the order `SetToSeq` picks; every member meets every outcome.
- *Tools*: two rounds of asking and one retry let a consent meet the call that has used it; one
  change of a rule, of the mode or of a tool in each history, and one restart, at any moment.
- *Handles*: two programs on one file, one of them with two handles, are what the code opens;
  two versions are one migration from each to the next; one upset is a death or a panic.
- *Restores*: two restores and two faults; a fault is a kill or a failing operation.
- *Agents*: a dialogue of two turns, extended by one at a time up to four, passes each limit;
  escrows of one or two tokens in a mission of three collide.
- *Calls, models*: a queue and a channel of one place are full as often as they can be; two
  messages arrive in the wrong order; two parts cut a call in its middle.
- *Patterns*: all patterns up to four characters and names up to three over a letter and the
  separator: the shortest for which the matching goes back twice.

Symmetry is used where the specification treats the members alike and no liveness property is
checked: tasks, runs and approvals in `mission`, invocations of `PatchSet` in `tools`.

**Fairness.** It is stated for what the program or its libraries do by themselves, never for
the user, faults, crashes or the network.
- `Outbox`: a runner that can take a step takes it; a lease that is not renewed expires (there
  is no renewal in the code).
- `TaskDrive`: `Go`, the progress of the operation under way: it is the thread of the
  application, which nothing else holds up; the model call has a timeout of 120 s.
- `Rpc`: threads go on, a lock is not withheld for ever, a call times out, and the server reads
  its input (what happens if it does not is in section 5).
- `AgentDialogue`, `AgentExecutor`: the thread that has the dialogue, the workers of the pool,
  and the collector of results.
- `Console`: the thread that has the application ends and the loop polls, there are finitely
  many waves; `UserCanLeave` is about a user who insists, and assumes it.
- `StateRestore`: who owns or takes over a restore goes on with it.

The other parts are checked for safety only: they have no step of the program that would have
to be forced (`TeamPlan`, `PermissionRules`, `OAuth`, settings), or what drives them is the
provider or the user (`ModelTurn`, `Browser`, `CodeFacts`).

`CHECK_DEADLOCK FALSE` is given where the system really may stop: a closed mission, a settled
outbox, a dialogue at its end, a terminal with no command left. That nobody waits for ever is
said by properties (`NobodyIsStuck`, `NobodyIsForgotten`, the liveness properties).

## 4. The proofs

TLC shows a property on the instance of its run; the theorems state it for every value of the
constants that satisfies the modules' assumptions, and TLAPS has checked their proofs down to
the last leaf. `PROJECT.json` lists the ones a reader should know of.

| module | proves for all values of the constants | from |
|---|---|---|
| `MissionProofs` | all invariants of the kernel, `OutcomeIsFinal`, `ImplementsDag` | `MissionAssumption` |
| `DeliveryProofs` | `TypeOK`, `OneHolder`, `AckMeansRecorded`, `ImplementsLedger`, `CallsHold` | `OutboxAssumption`; for `CallsHold` `InstanceAssumption` of `MCDelivery` |
| `TaskDriveProofs` | `TypeOK`, `OwnWorkOnly`, `DoneMeansMoved`, `RunningIsOwed`, `ImplementsDags` | `TaskDriveAssumption` |
| `PersistenceProofs` | of `EventStore`: types, `RecoveryIsExact`, `ImplementsSession`; of the instance: `KeptIsWhole` | `EventStoreAssumption`; for `KeptIsWhole` `InstanceAssumption` of `MCPersistence` |
| `StoreWorkerProofs` | `SchemaIsWhole`, `OpenIsCurrent`, `AnswersAreTrue`, `NobodyIsForgotten` (the handles' part of `KeptIsWhole`, which takes them from here by `INSTANCE`) | `StoreAssumption` of `StoreWorker` |
| `AgentsProofs` | `LimitsHold`, `ConsoleHolds`, `ModelsAreToldRight` | `InstanceAssumption` of `MCAgents` |
| `DecisionProofs` | the lemmas on rules, patterns and edits of several files that `UserDecides` rests on | `InstanceAssumption` of `MCTools` |
| `ToolsProofs` | of `ToolApproval`: types, `JournalTellsTruth`, `ConsentHolds`, `ImplementsToolLedger`; of the instance: `UserDecides`, `ServersHold`, `ConfigurationHolds`, `RefusedChangeIsUndone` | `ToolAssumption`, `InstanceAssumption` of `MCTools` |

**The argument, module by module.** Each module defines an inductive invariant, proves
that it holds initially (`InitIInv`), is kept by every action (a lemma per action, and in the
larger modules per conjunct that the action can disturb) and implies the properties. TLC has
checked each of these invariants on the instance of the run before the proof was attempted.

- *Mission.* The type invariant with: runs and approvals mirror nodes; effects follow runs;
  started nodes have accepted dependencies; `PlanSound` (dependencies are nodes of the plan, and
  each non-empty set of nodes has one that depends on nothing in the set); a closed mission is
  quiet. `NoSilentStall` needs the well-foundedness, which the validation of a plan establishes
  and an extension must keep; `OutcomeIsFinal` and the refinement need that a pending approval
  belongs to a waiting node, for `ResolveApproval` looks only at the approval.
- *Outbox.* Bookkeeping: a runner's ticket is at most the number of claims made on its effect;
  what it reports was performed; a row is settled exactly when it has a result, and the result
  was performed. Only a completion under the token in force writes, and only once.
- *TaskDrive.* `Typed`, `Begun` and `Books`. `Begun(script)` says of each step that is still to
  be done what the steps before it have established (a submission has its session, a completion
  its report). The scripts are sequences of any length, so it is stated of every position and
  shown to survive `Head`, `Tail` and the appending of a tail. `Books` relates kernel, outbox and
  sessions per unit; it makes visible why `OwnWorkOnly` holds: the kernel compares the run of a
  submission with the run of the node, and a run is of one unit.
- *ToolApproval.* Journal, engine and continuation agree per call; consent is conserved
  (answers for one use = grants that can still be used + starts they allowed). The counting is
  by cardinalities of sets of pairs, not by sums. The refinement maps the journal's status to
  the stage of `ToolLedger`.
- *EventStore.* What a caller has read is the fold of a prefix of the log. As an induction over
  the log is out of reach, the fold is stated by the history the module keeps: the state at
  each version; a snapshot, a tail and a replay are shown to hit it exactly.
- *StoreWorker.* `Migrated` (which tables and which versions of the history exist at each
  statement of the migration, per handle that is in it) and `Kept` (whose answer is where: each
  order is in one queue, at one worker or in one channel).
- *AgentBudget, AgentDialogue, Console.* For the escrows: the sum over the active runs is at
  most what the policy has, stated as the cardinality of a set of units, so that no fold has to
  be expanded; a closed row stays as it was. For the dialogue: requests made are turns charged,
  results plus open calls are at most what is used, which is at most the profile's limit. For
  the console: what is lent is marked, and what is marked is polled.
- *What a model is told* (`TalkBooks`, `FactsInv`). A transcript has each call with its result.
  What was told in a chain lacks the results of the calls that are still open, and those are
  what `calls` holds, so that nothing is missing when the last has answered. A dialogue that is
  not in a chain sends its transcript as it is; restarting from it keeps the pairs but, for one
  that began in a chain, not what is known: why `TranscriptRemembers` has its condition. For the
  files: the text a server has newest is the file's unless the call knows that it was overtaken
  (`AskBooks`); a row whose stamp is the file's has the file's text, and so has what an update
  has read, because the time is taken before the text (`RowBooks`); an update nobody wrote
  during is right about every file it is done with (`UpdateBooks`).
- *Rpc, HttpSession, ModelTurn.* Three invariants, each kept by its own part and by the stutters
  of the others. Rpc (`CallInv`): a number is given
  to one caller only, so an entry under it belongs to the call that waits; an entry is left only
  for a call under way that has not got its answer; what is in a channel, or was taken from it,
  is the answer to that call or an error; every message in a pipe that bears a number is the
  request or the answer of that number. HttpSession (`HttpInv`): the answer held is
  nothing, an error, or that of the last call posted. ModelTurn (`ModelInv`): three books. Between
  the provider and the run, text taken + text in the channel + text queued = text said, each call
  is on its way or taken exactly once, and a completion is on its way only if all the calls that
  were begun are (`OutBooks`); what a parser holds is what was said and not handed on, which each
  of the three protocols does differently (`ParserBooks`); calls begin in the order of their index
  (`SaidBooks`). They hold until an error is on its way: from then on the turn cannot end well,
  and that is all `CallsAreWhole` and `TextIsWhole` need. The events are counted by the
  cardinality of sets of positions; `TakeOff` and `PutOn` say what `Head`, `Tail` and `Append` do
  to these.

- *ContextSeries* (`SeriesInv`). Heads, checkpoints and lineages lead to what there is (`Linked`).
  A goal may be unshown only while the transaction that shows it is still owed, or until a restart
  that is under way has come to it (`Shows`); `ForkIsExact` is inductive with these.
- *ContextWindow* (`WindowInv`). Every item has one identifier, which is also its time; what must
  not be lost is `wanted`, and a compaction keeps it; what was said is told by its own item or by a
  summary that covers it. What leaves the window leaves in one order (`RemovalIsOrder`), and as the
  excess is what a count of tokens says, it is the first of that order (`ExcessIsFirst`): hence the
  newest stay (`ShownIsRecent`). Costs are counted by pairs of an item and a token, for the sum
  over a set of items is a fold.
- *VectorMemory* (`MemoryInv`). A vector is of the profile of its generation, of a record that is
  kept, and the only one of its item there (`VectorsFit`); at most one generation is active, and
  in force only for the profile that is configured (`InForceFits`); what a call has not left to
  do, is done (`CallFits`); hence a search reaches every record but those of the call under way.
- *StateRestore* (`RestoreInv`). For each step of the swap, which files there are and where the
  journal leads back to, as long as nothing or one thing has gone wrong; what a second fault does
  is the subject of the run `restore_twice_interrupted`.
- *OAuth* (`LoginInv`). A flow is waited for by its own server, its client is credible for what the
  server asks for, the access token of a grant is written last: a grant whose access token is in
  the store has its refresh token there.

- *SessionSettings* (`SettingsInv`). Between commands the layer in memory is the one the session
  has saved, and policy, route and model follow from it, but a new session is filled one setting at
  a time. `Seeded` says of the time in between that each setting is either saved or still on
  the list, with the value memory has already: when the list is empty the two agree.
  `RefusedChangeIsUndone` is a property of one step under this invariant: an attempt to undo gets
  back to the state before only if memory and session agreed in that state. It is about the
  changes within a session; what a refused switch leaves is in section 5.
- *ProviderSetup* (`SetupInv`), proved once for any four sets of providers and used twice, for
  text and for embeddings. `Question` says for each question of a wizard whom it may be about and
  what has been stored when it is asked: the provider that is added is not in the catalogue yet,
  its new key is in the store, and the question bears the old one. With `Proven` (the key
  a provider was last set up with is the one stored, or the one the open wizard bears) every way
  out of a wizard leads back to what was there. `Usable` needs that a provider in use, whose
  key is put back, has the key it had.
- *ToolServers* (`ServersInv`). A connection, an activation or an extension goes tool by tool; the
  invariant says of the command under way that what it has done and what it has left make up
  what the plugin brings (`CommandTyped`), so that it can be taken back at any step. The
  catalogue is described per owner (`CatalogOwned`). `In` says who brought a skill or a server in:
  a plugin that is extended, or the one being extended; two never brought in the same server, which
  is why disabling one takes nothing from another (`PluginsWhole`). The file of servers turns
  out to be in force also within commands (`FileInForce`). The servers, the plugins and what
  each brings and needs are parameters of the instance.
- *PermissionRules* (`RulesInv`). Engine, table and file hold the same rules but for the one that
  is being added or removed; the change under way says which of them has it already, and what
  they held before, so that a failed save can put it back. Identifiers are unique in each, which is
  what makes "the most specific rule, the newer of two" one rule (`BestIsOne`): the verdict follows
  from the table alone.
- *PatternMatch* (`MatchInv`). What a pattern means is stated position by position (`Segment`: which
  part of a pattern stands for which part of a name). The table of the one loop holds that for all
  the characters it has gone over (`RowIs`). The other loop goes back to its last star only, and
  loses nothing by it: a match that uses an earlier star longer can be turned into one that uses
  the last star longer (`BackIs`). Both are inductions over lengths, done by a least counterexample.
- *PatchSet* (`PatchInv`). Previews are ranked, so that each was computed from texts of lower rank
  (`Ranked`). Under the text of every file lies a chain of the texts that undoing brings back, one
  after the other, each with the record that undoes it, or with a record that a kill has made away
  with (`ChainsFit`); the user's edit ends a chain. A record that counts as applied is of a preview
  nobody says was taken back, or of one that the operation under way still has to take back or
  has already reported as failed (`RecordsFit`, `WorkFits`); a prepared record whose file has its
  text exists only between the two replacements (`PreparedFits`). Hence `PatchIsWhole` for
  any files, previews and invocations.

The rules given, the paths, the letters and the files of the previews are parameters of the
instance (`Given`, `Path`, `Letter`, `FilesOf`), as are the bounds.

Inductions over lists and sets are done by a least counterexample in Nat (the lemmas `Least…`):
the library's induction theorems take an operator as parameter, which the provers at hand
cannot instantiate.

**Only model-checked**, and why:
- liveness (`OperationsEnd`, `DeliveryEnds`, `AgentsEnd`, `ProjectOpens`) and `NobodyIsStuck`,
  which is about ENABLED: out of the provers' reach;
- `TeamHolds`: `TeamPlan` is a computation over a list of members (waves, staffing, attempts), and
  what its folds return is an induction over that list;
- `AllTypeOK`, the types of all the parts of an instance; the invariants above contain most of
  them.

A proof that would not go through found an error in the model: a guard of a search that fails
(`SearchFails` in `VectorMemory`) had been written as one bullet and so read as an implication
that a busy memory satisfies too.

## 5. Where the code differs from what it says, or stops short

Six runs end in a violation: TLC finds a behaviour of the model, and of the code, that breaks what
a comment, an answer or a message of the program says. `PROJECT.json` quotes the sentences.

| run | what is said | what happens |
|---|---|---|
| `stale_result` | the result of an expired runtime cannot advance state | the node is submitted before the fence of the claim is looked at |
| `resume_later` | the lease may still be valid, try `/resume` later | a kill after the effect failed leaves a running session no later moment can resume |
| `switch_back` | switch back to the model and go on | the refusal to go on with another model has failed the node |
| `queue_cancel` | a cancelled member's final state follows | an error on one member loses what was promised about the others |
| `restore_twice_interrupted` | an interrupted restore is rolled back | killed between removing the copies and removing the journal, it removes the databases |
| `dialogue_forgets` | the checkpoint is kept, conclude from the evidence you have | the transcript that is sent again is only the first prompt |

Other behaviours are in the model and surprise, but contradict no sentence of the repository:

- **A refused switch of session is not undone.** `activate_session` sets the approval policy of the
  other session and then asks the model runtime for its route; if that refuses, the command ends
  with an error, the old session goes on, and the policy stays (`HalfSwitched`). A new session whose
  first writes fail, or whose model cannot be put in use (`Reconcile`), is an error too, with the
  application in that session. `RefusedChangeIsUndone` is therefore about changes within a session
  (a setting, the failover, the models, the model in use), for which the program promises to undo;
  `InForce` holds throughout, but for the copies `astray` names and a
  route that could not be put back after a failed write.
- **A review that finds a team running is let go** after it was prepared: its node is running and
  its effect claimed, with nobody at work. `RunningIsOwed` holds, since the claim lapses and another
  drive loop takes it.
- **A cancelled mission can be completed** (if all its nodes are accepted) or, if it has no nodes, be
  given a plan: `CompleteMission` and `InstallPlan` do not look at the status. `ClosedMissionQuiet`
  says that a closed mission has nothing under way, `ImplementsDag` that a completed one is done and
  stays an execution of its graph; neither says that a cancelled one stays cancelled.
- **An event cut off after its number** counts as read (`CutOff` in `HttpSession`): the stream is
  resumed after it. The call may then end with an error, but never with the answer to another.
- **A server that does not read its input** holds the lock of the input for as long, and with it
  every caller that wants to write: the time limit of a call begins once the request is written.

## 6. What is not modelled, and the plan

`PROJECT.json` gives status and reason for each component. Left out for good: wire formats,
rendering, sandboxing and child processes, similarity and ranking: input, output or data without
steps of their own; tables (profiles of roles, commands, languages); the TypeScript packages.
Left out so far: the message bus of the agents (its only consumer in production is steering,
which is in `AgentDialogue`), file leases, the cache, the event bus of the screen (bounded queues
that drop; no decision depends on it).

**Next.** Proofs of the types of the instances.
