# A TLA+ development of compuser-littleG

compuser-littleG lets a language model work on a Windows desktop: a turn engine
asks the model, runs the tools it calls under a permission policy, and reports;
capabilities chain desktop tools into whole tasks; a CLI and a web panel submit
tasks; daemons look after stored results. This directory holds TLA+ models of
its control, TLC configurations that check them on small instances, and TLAPS
proofs of the results that matter most.

All paths below are relative to `src/`.

## 1. Inventory

| Component (source) | State it keeps | Operations | What is hard | What makes it correct | Status |
|---|---|---|---|---|---|
| Turn engine (`packages/core/QueryEngine.ts`, `ExecutionControl.ts`) | history, discovered tools, routing attempts, the loop counter | `submitUserMessage`, `executeTool`, abort | aborts and failures at every await, the result order of parallel calls, the window over a long history | bounded rounds, paired history, an earned stop reason, every turn ends | modelled |
| Tool runtime (`packages/tools/runtime/ToolRuntime.ts`, `ToolOrchestration.ts`) | none across calls but the checker | `executeMany`, `execute` | batches run in parallel, each call may be refused or throw | serial tools alone and in order | partly (no hooks) |
| Permissions (`PolicyPermissionChecker` in `ToolRuntime.ts`, `packages/security/PermissionPolicy.ts`) | approved tools, approved risk levels, the CLI prompt's own memory | `canUseTool`, the user's answer | policy, reviewer, grants and prompt decide one after the other and override each other | no high-risk call without consent, asked once, ordered modes, the sandbox | partly (classification of texts is an input) |
| Web panel session (`apps/web-panel/sessionOrchestration.ts`, `sessionControlFlow.ts`, `permissionPrompt.ts`, `taskDecisionFlow.ts`, `templateLaunchFlow.ts`) | a map of session records that handlers read, replace and mutate across awaits | start, decide, launch, refresh, stop, answer; the run in the background | requests cross at awaits, a run outlives the request and the record that started it | one run per session, answers reach the run that asked, a stop finds its run, no session stays locked | modelled |
| Panel views (`panelState.ts`, `templateRecommendations.ts`, ...) | none | builders of what the page shows | views are read back by handlers | only what handlers read back matters | partly |
| Result GC daemon (`apps/cli/result-gc-daemon.ts`, `packages/tools/runtime/ResultGcScheduler.ts`) | shutdown flag, timer, run in flight | main, signals, heartbeat errors, ticks | several activities end the same process; the lock may be lost meanwhile | one collector at a time, no lock left behind, a displaced owner stops | modelled |
| Single instance lock (`packages/tools/runtime/SingleInstanceLock.ts`) | the lock file | acquire, refresh, release, heartbeat | other processes between a read and the write that rests on it, crashes, stalls | as above, a crashed owner is replaced | modelled |
| Tool result storage (`ToolResultStorage.ts`, `ResultPointerTools.ts`) | result files by session | persist, plan, cleanup, read | three rules that feed each other; several processes on one directory | pointers resolve, what is protected stays, no more is removed than the policy asks | modelled |
| Capability routing (`packages/capabilities/CapabilityRouting.ts`, `CapabilityCatalog.ts`) | attempts of a task | search, plan, record, exhaustion | retry policies, order of attempts, what a search reveals | hidden tools stay hidden, the two answers on exhaustion agree | modelled |
| Built-in capabilities (`packages/capabilities/BuiltinCapabilities.ts`) | none of their own; the desktop | 35 capabilities, nested up to four deep | every call of a chain may fail, do half or throw; recoveries insert again | text goes where it should and once, success was seen | modelled |
| Windows tools and adapter (`packages/adapters/windows-mcp/WindowsTools.ts`, `packages/adapters/windows-mcp/WindowsMcpAdapter.ts`) | the desktop's | one tool, several calls of the server; reading of observations | an observation is a score over a text | a remembered target was shown | partly (tools no capability calls are left out) |
| Windows MCP service and launcher (`packages/adapters/windows-mcp/*`) | status, the owned child process, the configuration file | ensureReady, restart, dispose | several clients share one endpoint; candidates fail halfway | no child is lost | partly (no bridge sessions) |
| Compaction (`packages/harness/compact/*`) | consecutive failures, paused | `compact` | degrees of compaction that fail | failures counted, what the next step needs is kept | modelled |
| Memory (`packages/harness/memory/*`) | the facts file | `appendFact`, `listFacts` | read-modify-write with a rename, crashes | an acknowledged fact is never lost | partly (one writer) |
| Model client (`packages/core/ModelClient.ts`) | none across requests | generate, retry, read the answer; the demo client's choices | answers whole, streamed, cut short or in text | bounded attempts, only prepared calls | partly |
| Product tables (`packages/product/*`) | none | support matrix, templates | - | constants | partly |
| CLI applications (`apps/cli/*`) | - | consoles, `capability-executor.ts`, the wiring of the engine | the executor holds a server it has to give back | the executor ends | partly |
| Panel server and page (`apps/web-panel/requestDispatcher.ts`, `public/*`) | - | routes, rendering | - | presentation | partly |
| Workspace tools (`packages/tools/WorkspaceTools.ts`) | none | single file operations | - | - | not modelled |

How they interact: the CLI or a panel run builds an engine with a tool runtime
and a permission checker of its own (`apps/cli/cliApp.ts`) and submits a message.
The engine assembles the context from the memory facts, compacts it, calls the
model client with the tools that are visible and the routing plan, and hands
each answer's calls to the runtime; the runtime asks the checker, the checker may
ask the prompt, and the panel's prompt parks the run in the session record until
an HTTP request resolves it. A capability calls Windows tools, which call the
adapter, which calls the desktop server that the service has launched or found.
The runtime persists large results and cleans up after each; the daemon, another
process, collects them too.

`PROJECT.json` lists every component with its status, and under `hazards` what
in this code is hard to test, with the property that covers it or the reason
why none does.

## 2. Modules

| Module | Models | Depends on |
|---|---|---|
| `Selection` | `Array.filter` with a set, as a recursive function | - |
| `TurnContract` | what `submitUserMessage` promises its caller | - |
| `AgentTurn` | one engine, its runtime's batches and the calls in them | `Selection`; implements `TurnContract` |
| `PermissionChecker` | who decides on a call | - |
| `TaskDecision` | what the panel makes of a text or a template before anything runs | - |
| `PanelSession` | one session of the web panel | `TaskDecision` |
| `SingleInstanceLock` | the lock file and the file operations on it | - |
| `ResultGcDaemon` | the daemons that share a lock | `SingleInstanceLock` |
| `ResultCollection` | stored results, their writers and all who collect them | `ResultGcDaemon`, `Selection` |
| `CallPrograms` | the form in which tools and capabilities are written | - |
| `WindowsTools` | the Windows tools over the calls of the server | `CallPrograms` |
| `CapabilityChains` | the 35 capabilities over tools and each other | `WindowsTools` |
| `CapabilityRuns` | a run of a capability on a desktop | `CapabilityChains` |
| `DesktopService` | the clients of the desktop server and the server processes | - |
| `CapabilityExecutor` | an executor that runs a capability on that server | `CapabilityRuns` and `DesktopService`, composed |
| `Routing` | attempt records, retry policies, exhaustion | - |
| `DemoClient` | the demo client's choice from a plan | `Routing` |
| `Compaction` | micro, session-memory and full compaction, its breaker | `Selection` |
| `MemoryFacts` | the facts file and the steps of an append | - |
| `TaskRounds` | the rounds of a task with any plan | `DemoClient`, `Compaction`, `MemoryFacts`, composed |
| `Catalogue` | the registered tools and capabilities | - |
| `RoutingPlan` | the plan and the searches over the catalogue | `Catalogue`, `Selection` |
| `Observation` | how a reply of the desktop is read and rated | `Selection` |
| `AnswerReading` | how the body of a chat completion becomes calls | `Catalogue` |
| `ToolDiscovery` | the rounds of a task over the real catalogue | `RoutingPlan`, `Observation`, `AnswerReading`, `DemoClient` |
| `RunInvariants` | what is known at each label of a capability's run, for the proofs | `CapabilityExecutor` |
| `MCAgentTurn`, `MCTaskRounds`, `MCToolDiscovery` | instances for TLC | their modules |
| `AgentTurnProofs`, `PermissionProofs`, `PanelProofs`, `TaskRoundsProofs`, `ExecutorProofs`, `CollectionProofs`, `ToolDiscoveryProofs` | proofs | their modules, TLAPS |
| `SelectionProofs` | lemmas about `Selection`, which five of these rest on | `Selection`, TLAPS |

`AgentTurn` takes the checker's verdict as an input (`DenyCall`, `PermitCall`),
`PermissionChecker` gives it; `PanelSession` takes a turn as a run that executes,
asks and ends, which is what `AgentTurn`'s `TurnEnds` says of it. `AgentTurn` has
answers with several calls, hidden names and aborts, `TaskRounds` and
`ToolDiscovery` have one call per round and everything around it.

### How state and actions correspond to the code

The grain is the same everywhere: what the event loop does between two awaits is
one action, and a file operation is one action. Definitions named `Broken...` are
plausible bugs of the code, kept as mutants that the properties have to catch.

*AgentTurn.* `pc` is the place in `submitUserMessage`: `ready` is the loop head,
`generating` the model request, `running` is `executeMany`, `recording` the loop
of `executeTools` that pushes results, `closing` the writes behind the last
message. `messages` keeps of a message its role, and how many calls an assistant
message has or which call a tool message answers. `slot` is the progress of each
call through `executeSingle`. `PlanBatches` is `planToolExecutionBatches` as it is
written, `SameBatch` the relation it is meant to compute, which the scheduling of
calls uses; `BatchPlanAgrees` holds them together. `aborted` is the signal, which
the code tests where `StopAborted` and `RecordResult` do. `Fail` is an error thrown to the
caller: of the model client, of a write, or of the permission checker, which is asked
outside the `try` of `executeSingle`. What runs beside the call that it was asked about
is then no longer followed.

*PermissionChecker.* A request is a tool with the risk its input is classified as
and, for files, access and place. `Evaluate` is the policy, `Review` the reviewer,
`Decide` their merger in `canUseTool`; `grants` are `approvedTools` and
`approvedRiskLevels`, `memory` the sets that the CLI prompt keeps to itself.
`consents` is a history variable: what the user has approved for later calls.

*TaskDecision, PanelSession.* Records live in a heap, because handlers hold records
across awaits while others replace them in the map (`current`). `request` holds a
handler at its await with the record it has seen. `run` is `runTask` in the
background. A text is the set of the rules' words that it mentions; `Readiness`,
`Check` and `Preflight` decide whether a template launch starts, asks or is
blocked.

*SingleInstanceLock, ResultGcDaemon, ResultCollection.* `handle` follows
`acquireSingleInstanceLock` and `release`, `hb` the heartbeat controller, whose
refresh is a read and a write. `main` and `down` are the two asynchronous functions
of the daemon that run side by side, `main` and `handleShutdown`; `timer`, `gc` are
the scheduler's interval and its run in flight. Time is a heartbeat that is fresh
or not. `dirs` are the session directories by time of change, `Candidates` is
`collectResultGcPlan`; `job` and `left` hold each collector between its listing,
its removals and, for a session, mkdir, write and return of the pointer. A listing or a
removal that fails ends the call or the run (`CleanupFails`, `EndRun`).

*Capabilities.* A tool or capability is a program (`CallPrograms`): a function from
labels to steps, each with a call and, for each answer its caller can tell apart
(`no`, `ok`, `yes`, `thrown`), the label that follows. `CapabilityRuns` interprets
them with a stack of frames over a desktop: the window in front, the clipboard,
copies of the text and Enters by window. A call reported as failed may have done
its work. `confirmed` and `doubted` are history variables.

*DesktopService, CapabilityExecutor.* `at` is how far a client is in ensureReady,
restart, launch, probe and stop; `child`, `parent`, `owned`, `current` are the server
processes and who holds them; `config` is the file that is rewritten in place. In the
composition a call of the server throws while no server listens.

*TaskRounds.* `stage` follows the steps of `appendFact` (read, write of the temporary
file, rename), `Compaction` works on the roles of the messages, `Routing` keeps
attempts and the record of each. Plans, results, whether a text fits and the facts that
come with a session's summary (`SummaryFacts`) are inputs. These facts are appended before
the request goes out; so is `compact.last_summary`, which no property reads, and which is
therefore only an append that may fail (`Appending`).

*ToolDiscovery.* The catalogue, the six tasks and the gateway's bodies are data in
the shape the code sees: words, fields, deltas, sections of a snapshot. `revealed`
and `discovered` are the sets of the engine (`revealedCapabilities`, `discoveredTools`),
from which `VisibleTools` is made. `target` is what `skill.desktop.observe` leaves behind:
a snapshot that can be relied on, else a screenshot, either of which may fail, or be too
large and not be read back. The targets that other capabilities leave are not followed.

## 3. Runs

| Run | Shows | Bounds |
|---|---|---|
| `agent_turn` | types, batches, history, window, `TurnContract`, termination | 2 submits, 2 rounds, answers of up to 3 calls over a search, a serial hidden tool and an unknown name, window of 2 |
| `permission` | consent, asked once, ordered modes | ten tools with every risk and place, all modes and prompts, unbounded calls |
| `permission_sandbox` (violated) | a grant opens the sandbox | as above |
| `panel_session` | one run, answers reach their run, a stop finds its run, no locked session, runs settle | 3 requests held at awaits of the default session, or 1 of a session without a record; 2 runs, 3 texts |
| `panel_stop` (violated) | a stopped run goes on | 1 request, 1 run |
| `gc_daemon` | one collector, no lock left, pointers resolve, policy kept | 2 daemons that may crash at any step, without stalls and signals, a writing session, three older ones, quotas of 2 directories and 3 results, 1 preserved, 2 results per session |
| `gc_takeover` | displaced owners stop, crashed ones are replaced | 2 daemons, stalls, crashes, signals, a forced takeover |
| `gc_signal` (violated) | a signal lets two daemons collect | 2 daemons, signals |
| `capability_executor` | text and Enter only where and in the order asked, success seen, repeats only in doubt, no child lost, the executor ends | 16 chains, one executor and one panel, both may crash, 3 children, 2 candidates, 1 restart, 1 repetition of a loop, counters up to 2 |
| `delivery_submitted` (violated) | a delivery reported as submitted was not | 2 chains |
| `task_rounds` | exhaustion agrees and is respected, facts durable, tasks end | 3 tools, 3 rounds, 2 tasks, 1 crash, 1 retry, context of 4 |
| `tool_discovery` | hidden stays hidden, calls prepared, targets shown | 6 tasks of which 2 run, 3 rounds, 2 searches, 9 replies of the desktop, the gateway's bodies whole, streamed, cut and in text |

Why the bounds are enough.
- *Turns.* Three calls over the three kinds make every pattern of batches (shared,
  alone, in front, behind, between). Two rounds reach the round limit and continue a
  history; two submits cover a turn that continues the history of an aborted, failed or
  finished one, and the direct call; a window of two is exceeded, cut inside a round
  and cut at its edge.
- *Panel.* Three requests at their awaits and two runs cross in every way a guard could
  miss: one request replaces the record, one starts on it, one holds the old one. The
  state after a second run is that after the first.
- *Daemons.* Two are an owner and a challenger. Four sessions are one that is
  protected, one preserved and two to choose from, so each of the three rules removes
  something and stops in time; results are of equal size.
- *Capabilities.* The sixteen chains run or nest all of them but three templates, each of
  which only verifies a chain that another one runs; the `Window` classes are what the
  programs tell apart. One repetition goes through each
  loop and out of it; a second copy is what a repetition would show. `Quiet` runs a
  capability only on the first server spawned, with the other clients still: servers
  that follow behave alike, and a death of the server is possible throughout. `Strays`
  is off: an element found by name is in the window it is looked for.
- *Task rounds.* Three tools are one that is retried, one that is not and a fallback;
  three rounds exhaust a tool, ask for it again and recover; two tasks show what the
  first leaves behind; the context of four is exceeded by one round.
- *Discovery.* The tasks make every intent, and one finds what another must not see. A
  search returns the best eight tools that are not core: the code also takes an empty
  query, a limit up to 20 and `includeCore`, which would add core tools, visible anyway, and
  more of the others, all of them counted as found (`FoundBySearch`).
- Grants are sets, so the checker needs no bound.

Deadlock checking is off where the system may rest: all submits are used, all runs
are started, every daemon, executor or task has ended. `PermissionChecker` always
takes calls.

What the violated runs mean is written in `findings`, with the line each contradicts:
the signal of a stop that goes nowhere (`panel_stop`), the lock released under a
run in flight (`gc_signal`), the grant before the sandbox (`permission_sandbox`), the
Enter that is dropped on the way (`delivery_submitted`).

What the passing runs leave out on purpose, with the reason:
- Two start requests of a session without a record both pass the guard of
  `startTask`, since each makes a placeholder of its own: with two clients in
  `FirstClient` `AtMostOneRun` fails (`sessionOrchestration.ts:72`). `PanelAssumption`
  names this as the precondition.
- With three daemons one may remove the lock another has just created
  (`SingleInstanceLock.ts:128`); `OneCollector` is a statement about two.
- With stalls two daemons may collect for a while: the lock is a lease.
- A status read that throws before `runTask`'s `try` leaves a view that says it
  executes; a template that needs attention hides a prompt. Both are in the model,
  and `RunsSettle` excepts a hidden prompt.
- A plan goes stale when a second session comes back to life between plan and removal
  (`ToolResultStorage.ts:152`): the runs have one writing session, the protected one.
- With `Strays` an element of another window takes the text (`WindowsTools.ts`,
  find by name has no window title).
- Two CLI processes share session and temporary file (`MemoryStore.ts:29`) and lose
  each other's facts: one engine writes in the model.

### Fairness

- `AgentTurn`, `TaskRounds`: weak fairness of the engine's steps
  together: the event loop runs every continuation that is due, a model request has a
  timeout, tools and prompts settle. New submits, aborts and crashes are not fair.
- `PanelSession`: the awaits of a run settle (weak), a run that is not kept waiting
  ends however often it asks (strong, since each prompt disables the end; this is
  `TurnEnds` of the engine), and the user answers a prompt that the panel shows.
- `ResultGcDaemon`: file operations, timers and GC runs do not hang (weak, per
  daemon), and a daemon that goes on after a signal is told again: a signal during
  its first run stops the heartbeat but not `main` (`result-gc-daemon.ts:129-153`).
  Starting, the first signal and stalls are free.
- `CapabilityExecutor`: the steps of a run and the failing calls together, dispose, and
  each client's own steps are weakly fair: the bridge sets no time limit, but its HTTP
  client has one, and the launcher's wait for a server has a deadline. Deaths, crashes,
  restarts and a server that comes up are free.
- The other specifications check safety only and assume no fairness that their
  properties would need.

## 4. Proofs

Each theorem holds for all constants that satisfy the named assumptions of its module;
what a theorem assumes beyond them is written in its statement and below. The invariants
behind them were checked by TLC on the runs' instances before they were proved.

`AgentTurnProofs` (`AgentTurnAssumption`: finite bounds, parallel-safe and discoverable
tools registered):
- `TypeCorrect`: `TypeOK`, including that a running round has `step < MaxTurns`.
- `RoundCorrect`: the inductive invariant of a round. The two scheduling properties
  are not inductive: that a serial call is alone follows from *when calls were
  started*, so `RoundInv` says that a started call found all batches before its own
  over, and that nothing of a round is left over outside it.
- `SerialAlone`, `SerialInOrder` follow from it by the shape of `SameBatch`.
- `BatchPlanHolds` ties `SameBatch` to the code's loop over the calls, by induction on the
  calls placed so far: what is pending is the longest run of parallel-safe calls at their
  end (`Pends`), so that a batch put behind the others never continues the last (`BatchAppended`).
- `HistoryPaired`: the results behind each asking message are those of its calls, in
  their order, in histories of any length. While results are pushed one is behind the
  other, so `HistoryInv` says how much of the round under way is in the history
  (`AskedAt`, `PairedTo`), and that all before it is complete.
- `LatestRoundShown`: where the window may cut. What is selected at the end of a history
  without system messages behind the cut is the end itself (`OnlyEnd`), and the latest
  round has none (`LatestInv`).
- `ContractKept`: `Spec => KeepsContract`, each action mapped to a step of
  `TurnContract` or a stutter; `RoundInv` gives the number of owed results.

An attempt at `LatestRoundShown` showed that the bound it had for the window's length
was true only of short histories: one that is not cut keeps its system messages, one for
each turn. The bound is on the other messages now.

`PermissionProofs`, for every registry over the tools whose classification is
modelled: `TypeCorrect`, `ConsentNeeded`, `ConsentKept`, `ModesAreOrdered`. The
invariant adds the bookkeeping that makes consent inductive: what the user has
approved is exactly what checker and CLI hold, a panel's prompt holds nothing, and
only a prompt asks. `HighRiskNotAllowed` is the lemma about the two rule sets.

`PanelProofs`, for any number of clients and runs: `PanelCorrect` and, from it,
`OneTaskRuns`, `StopReachesRun`, `AnswerReachesRun`, `SessionIsFreed`. That at most one
task runs is not inductive, since a request may hold a record that another has replaced
meanwhile, and start on it. `PanelInv` says why it is refused: a running task holds the
record in the map, a record that has left the map while a request holds it names a run, and a
record with a run refuses the start. The one request of a session without a record is an
assumption, for the reason given under Runs.

`TaskRoundsProofs`, for all tools, policies, plans, results and bounds:
- `TaskTypesHold`; `FactsDurableHolds`, from an invariant of the store alone (`AppendInv`:
  what a write has put down so far is what was acknowledged with the fact put in), which
  the engine's steps are shown to be steps of.
- `ExhaustionAgreesHolds`, by counting the failures of the attempt's tool before and after
  the record of it is appended (`RecordAgrees`).
- `ExhaustedLeftAloneHolds`: the demo client looks at the attempts only when the last
  message it is shown is a tool's result, so this is about what compaction leaves.
  `LastInvHolds` says that after an attempt its result is the last of the messages and of
  the request; `RecentEnd` and `CompactionEnd` that no window, summary or tail takes it
  away; `RecoveryLeaves` that each of the five ways to recover leaves used-up tools alone,
  of which trying the same tool again needs `ExhaustionAgrees`. `RoundTypesHold` is the
  rest of `RoundTypeOK` with it.

`ExecutorProofs`, of the service: `ServiceTypesHold` and `NoServerIsLost`, for any clients,
candidates and children. That no field which still names a living process is
overwritten follows from where a client is (`FieldsInUse`), that a process just spawned
is nobody's child yet from the order of spawning (`SpawnedInOrder`).
`ExecutorUsesService` (the composition takes no step of the service that it does not take
alone) gives `NoServerIsLostInRuns`.

And of the runs of capabilities, for any set of the 35, any number of attempts and any
history of the desktop: `ExecutorTypesHold`, and, under `~Strays`, `OnlyTargetsAreWritten`,
`StagingIsInOrder`, `SuccessHasBeenSeen`, `RepetitionIsInDoubt` and `EnterIsAskedFor`. With
`Strays` an element of another window takes the text, and TLC refutes the five. None of
these is inductive, nor is there one reason why it holds: what justifies a paste is which
checks its chain, and the chain that called it, went through. So `RunInvariants` annotates
the programs, as one would annotate them by hand, with six tables:
- `FrontAt`: from which labels the window of the frame is in front (`InFront`);
- `CleanAt`: where nothing has been put anywhere yet (`CleanBefore`);
- `FreshAt`, `FreshEnterAt`: where a text may be put in, or Enter pressed, without
  repeating what was known to be there (`FreshBefore`);
- `MayEnterAt`: where Enter has been asked for (`Asked`);
- `DeliveredAt` with `Done`: where the text has been put in, and what an answer "yes" of
  a program that delivers says (`DeliveredAfter`, `SeenAfter`, `Staged1`);
- `HaveTextAt`: where the file has been read (`TextRead`).

`Structure` says of the stack what makes a frame's window the one that the task named:
who may call whom (`Nested`, `OneCore`), and that programs of one window call only for
that window (`SameWindow`, `Aimed`). An assertion that a nested program could break is made
of the frames that no writing program runs above (`Settled`).

The proof has three parts. `Annotations` goes through the steps of the 69 programs and
shows that a label with an assertion is reached only from labels, and after answers, that
establish it (`Annotated`); it is a statement about data, without a state. Every action is
then shown to be of one of a few kinds, whatever its details: it calls a program
(`Invokes`), ends one (`Returns`, `Ends`), or answers a call that is none (`Ticks`) and
then touches no more than `Touches` allows. The rest takes the layers of `RunInv` one by
one, and uses of the 69 programs only what `Annotations` says. A change of a capability
that breaks a property breaks a step of `Annotations` that names the program and the label.

That a program ends with an answer other than "thrown" had to be added (`Reply`), and that
the capability which is run is a registered one: run by itself, a helper such as
`explorer_select` assumes a window that nobody has brought to the front.
TLC had checked the layers of `RunInv` before on all 35 capabilities, with one attempt.

`CollectionProofs`, of the daemons: `DaemonTypesHold` for any daemons; `OneDaemonCollects` and `NoLockIsLeft`
under `PlainDaemons`: at most two daemons, that may crash at any step, but none is told
to stop, takes the lock by force or stalls. Each of these breaks the property in the
code, as the runs and section 3 say: a third daemon removes a lock that was just created, a
signal releases the lock under a run in flight (`gc_signal`), a forced takeover and a
stalled owner share it for a while (`gc_takeover`). The file names the owner (`Named`), but
that is not inductive, for the other daemon may be between reading the file and
removing it: `Others` says that the daemon it has read of is by then past writing it.

And of the results: `CollectionUsesDaemons` takes these results to the composition
(`OneDaemonCollectsResults`, `NoLockIsLeftByCollectors`), and `CollectionTypesHold` the
types, for all constants. `PointersHold`, `OnlyExcessCollected` and `LatestKept` hold for any
number of daemons, with signals, stalls and several collectors at once, under `OneWriter`:
no session but the one of the command line runs turns. Another is protected by no plan but
its own (section 3). The last two are about plans that others have made out of date since.
A plan is a list of directories; what stays true of what is left of it is that it is
sorted from the oldest (`Sorted`), has all that are older than one of its own (`Closed`), and
that a directory in it which has not aged would still be over a quota, and behind enough
newer ones, if all older ones were gone (`Excess`, `Old`). Removing goes from the oldest, so
whatever others have removed meanwhile was as old, and `Keep` has not changed. That the
plan of `collectResultGcPlan` satisfies this when it is made is the larger part of the
proof.

`ToolDiscoveryProofs`, for any tasks, search words, bodies of the gateway, replies of the
desktop server and bounds, over the catalogue as it is:
- `OfferedRevealedHolds` and `CallsPreparedHolds`. A call is run after others of its answer
  that may search, and the demo client plans from all that is visible: `DiscoveryInv` says
  that what is visible only grows within a task and was searched for in it, and that the
  demo client, since its own calls never search, never sees more than what needs no search.
  `AnswerShape` is the reading of a body (a message's calls are numbered without gaps, in
  whatever deltas they came), `DemoAnswersPrepared` that each rule of the demo client
  chooses what it can fill the inputs of.
- `VerifiedNamesWindowHolds`: the larger part is arithmetic and order. Without a window and
  a page no confidence reaches 500 (`WindowNeeded`), and with one it comes first among all
  the names a target is taken from (`TargetShown`).

They assume what an array is in a gateway's JSON (`BodyAssumption`), that replies have the
types that `DesktopSnapshot` declares, with names for all windows (`ReplyAssumption`): for a
window without one the code would go on to the next name, which may be a control's. That
none of the tools that the demo client can call without a search is a search or of high
risk (`HarmlessAssumption`) is a fact about the catalogue, without constants, which TLC
evaluates.

`SelectionProofs`: what `Only` selects of a list, keeps in order, and leaves at its end. The
induction theorems of the library take the statement as an operator, which the provers
cannot instantiate. `SetInduction` gives it as the set of the numbers for which it holds, and
follows from the well-foundedness of `<`; with it a recursive function can be unfolded
(`OnlyUnfolds`) and reasoned about. `Array.filter` is therefore `Only`, and not the
library's `SelectSeq`, in every module that is proved about.

Model-checked only:
- Liveness (`TurnEnds`, `RunsSettle`, `DisplacedOwnerStops`, `CrashedOwnerReplaced`,
  `ExecutorEnds`, `TaskEnds`), which is out of the prover's reach.
- That the catalogue is scored and searched as in the code: `ToolDiscoveryProofs` needs of the
  orders only that they are lists.

## 5. Not modelled

- *Regression and smoke scripts* (`apps/cli/*-regression.ts`, `*-smoke.ts`), nearly half of
  the source lines: test code.
- *Workspace tools*: single file operations without state. Their risk is an input of
  `PermissionChecker`, their results are answers in `CapabilityChains`.
- *Texts and presentation*: prompts, summaries, evidence lists, timeline and route
  cards, consoles, option parsing, HTTP and DOM code.
- *Classification* of shell commands and paths into risks and places: string matching;
  its outcome is an input.
- *Sessions of the bridge* (`StreamableHttpWindowsMcpBridge.ts`): it initializes twice
  for two first calls and not again after the server was restarted; a server here
  listens or not. Two requests on one service object, which overwrite `ownedServer`
  (`systemProductFlow.ts:51`), and a server that ignores the signal to stop.
- *Tool hooks* (`ToolRuntime.ts:439`): those that the CLI installs (`cliApp.ts:128-156`)
  only log, so that none throws. An `afterToolCall` that did would run twice and turn a
  success into a failure.
- *Timeouts against aborts* (`ExecutionControl.ts:21`): no application gives its engine a
  signal.
- *The desktop server*, which is external.

Met while modelling, without a run of its own; each was read in the source and
none of them is contradicted by a model:

- Results: `artifacts.gc_results` deletes unless `dryRun` is given
  (`ResultPointerTools.ts:120`); a session's directory changes only with a new turn
  directory and turn ids restart with each process (`QueryEngine.ts:267`), so a busy
  session may look old; `resolveAllowedPointer` knows one path separator.
- Panel: a finished task is shown as not completed, since `buildResultView`
  (`panelState.ts:548`) expects `completed` or `success` and the engine returns
  `final`; no template launch ever starts directly, since every template has
  prerequisites (`LaunchAssumption`); the checks of several windows and of browser
  confidence never apply, since `windowCount` and `observationConfidence` are never set;
  two of the five suggestions fit two rules and are rejected when submitted; an
  attachment adds words that make a browser task fit several rules.
- Answers: deltas without an index become calls of their own; a stream that is cut is
  taken as complete, so a call without its arguments runs with none; calls in the text
  that do not validate are shown as the final answer.
- Routing: exhausted capabilities keep their places among the four that a plan
  recommends, `retryOn` is dropped when a policy is normalized, any low-risk capability
  scores for every task, and the demo client recovers from a failed observation by opening
  Notepad.
- Observation: the branch for low confidence in `desktopObserve` is never taken, and
  a window anchor falls back to a label, so a focus may name a button.
- Chains: Enter's result is ignored by the transfer (`BuiltinCapabilities.ts:4817`), the
  clipboard is pasted although it was not verified (4781), the explorer fallback reports
  a file as sent without looking (5482), and open-or-focus may launch twice (773).
- Windows adapter: elements without a window match any window title,
  `verifyFocusedWindow` is content with the title among all open windows, and any
  unrecognised reply object counts as success.
- Service: a restart launches although another client's server listens, the page says it
  restarted whatever came of it, a crash leaves children behind and may leave a torn
  configuration that makes each later start throw.
- Engine: the current target survives into the next task; a breaker of full compaction that
  session memory resets never pauses, and once paused it stays so; rounds with more than
  two large results are compacted before the model has seen them; a facts file that
  does not parse counts as empty.
