# Verification of the Borg kernel

TLA+ modules of the concurrent core of Borg Agent, the TLC configurations that
check them on small instances, and TLAPS proofs of the properties that should
hold for every instance.  Paths below are relative to the repository; `kernel/`
is short for `packages/kernel/src/`.

1. [The system](#the-system)
2. [The modules and the code](#the-modules-and-the-code)
3. [The runs](#the-runs)
4. [Fairness](#fairness)
5. [What is proved](#what-is-proved)
6. [Disagreements with docs and tests](#disagreements-with-docs-and-tests)
7. [What is not modelled](#what-is-not-modelled)
8. [Plan](#plan)

`PROJECT.json` lists the components, the runs, the definition-to-source map, a
defect for every checked property (`mutants`: the defect is put in the place of
the definition, and the run must then fail), the hazards and the theorems.

## The system

Borg Agent is a microkernel in one Node process.  Plugins (models, tools,
channels, graphs, bots, the chat) act only through the handles the kernel gives
them.  The kernel decides what may leave the machine: every model call, tool
call and outgoing message carries the *classification* of what it has seen, is
scanned, is compared with the capacity of where it goes, and may be put before a
person.  All kernel code runs on one event loop, so a piece of code between two
`await`s is atomic and any two pieces may interleave at an `await`.

| Component | State it keeps | Operations | What makes it correct |
|---|---|---|---|
| Execution security (`kernel/execution-security.ts`) | one durable context per execution: parent, classification, revision, open or closed; parent grants (memory) | `bind`, `createParentGrant`, `observe`, `close`, `importDetachedResult`, `commitIfCurrent` | classifications never fall; no result reaches a less classified parent; a grant starts one child; a closed context never changes |
| Model gateway (`kernel/model-gateway.ts`) | journal record per operation key (durable); provider registrations | `complete`, `registerProvider`, `removePlugin` | a request leaves at most once; what leaves and what is released was authorized at the classification of that moment; an answer that was handed over is the one in the journal |
| Tool service (`kernel/tool-service.ts`) | tools, providers, per run: policy, catalogs, classification mark | `register`, `registerProvider`, `registerRunPolicy`, `prepareRun`, `invoke`, `removePlugin` | no catalog leaks; no binding outlives its provider; a handler starts only as approved; a result is covered before it is handed over |
| Trust authorizer (`kernel/trust-authorizer.ts`, `approval-grants.ts`) | prompts in flight, session grants, stored grants | `authorize`, `remember` | nothing that needs a person passes without one; a shared prompt showed what each of its requests asks; everyone who shares a prompt gets an answer |
| Loop manager (`kernel/loop-manager.ts`) | runs: status, signal, pause request, execution, tool policy | `start`, `pause`, `resume`, `cancel`, interaction events | terminal is final; no lost wake-up; a run that has ended has let go of its execution and policy |
| Scheduler core (`kernel/scheduler-core.ts`) | waiting and running callbacks, timers | `schedule`, `scheduleCron`, `cancel`, `cancelOwned`, `shutdown` | never early, never lost, never after a cancel |
| Interaction service (`kernel/interaction-service.ts`) | pending interactions | `request*`, `respond`, `cancelAll` | settles once; every list is published |
| Plugin manager (`kernel/plugin-manager.ts`), command bus (`command-event-bus.ts`), process supervisor (`process-supervisor.ts`), start and stop (`create-kernel.ts`) | plugin records, activations in order, the disabled ones (memory and configuration); handlers and calls; child processes | `activateAll`, `setEnabled`, `deactivate`, `deactivateAll`; `handle`, `invoke`; `spawn`, `abortOwned`, `shutdown` | what is registered belongs to an active plugin; the stored choice is the one in force; a hook that ends a plugin runs alone; no child outlives who asked for it; stop ends |
| OAuth service (`kernel/oauth-service.ts`) | grants in the secret store and its write queue, generations, refreshes in flight | `connect`, `accessToken`, `disconnect`, `abortOwned`, `shutdown` | a disconnected grant stays away; everybody settles at shutdown |
| Communication service (`kernel/communication-service.ts`) | one record per outgoing idempotency key and per incoming message (durable), with a limit on the latter | `send`, `ingest`, `register`, `removePlugin` | a message is sent at most once; a redelivery is recognised |
| Websocket service (`kernel/websocket-service.ts`), Discord gateway (`plugins/channel-discord/src/`) | connections with their receive queues; a gateway's phase, generation, session, timers; the stored session | `connect`, frames, `teardown`, `abortOwned`; the reducer's events, `run`, `stop` | one connection per account; nothing is skipped by a resume; it recovers |
| Mail channels (`plugins/channel-google/src/`, `channel-m365`) | settings, sessions with their polling loop, seen ids (durable) | `connect`, `disconnect`, a save of the settings, `dispose`, the poll | what runs is what is set and connected; a seen message was delivered |
| Graph executor (`plugins/graphs/src/executor.ts`) | instances (durable), tasks, delays | `launch`, `cancel`, `dispose`, recovery | no step happens twice; a closed graph is stored as closed; a graph ends |
| Bots (`plugins/bots/src/runtime.ts`) | one record per bot (durable), the watched run | `start`, `stop`, `delete`, events of the run, recovery | the run of a bot can be reached; its executions are closed as they ended and descend from one another |

How they interact: the loop manager binds an execution, registers a run policy
with the tool service and calls `ModelGateway.complete` and `ToolService.invoke`
in turn; both ask the trust authorizer, which asks the interaction service,
whose published lists come back to the loop manager; both raise the execution.
The plugin manager removes what a plugin has registered from all of them, at any
moment.  Graphs and bots start loops and use the scheduler.  A channel registers
an adapter with the communication service, which starts it, takes what it
ingests and gives it what is to be sent; the Discord gateway reaches the network
through a connection of the websocket service, the mailboxes through tokens of
the OAuth service.

What is hard to test in this code, each at its line, is the list `hazards` of
`PROJECT.json`: state read before an `await` and used after it, two callers
whose steps nobody ordered, a crash between a send and its record, a catalog
that arrives after its run, a wake-up before the sleep.  The properties below
were chosen from that list.

## The modules and the code

Three conventions hold everywhere.  *An action is the code from one `await` to
the next*, with every state change and call in it.  *Whatever an `await` waits
for may also reject*, which is an action of its own (`Abandon`, `PrepareFails`,
`ListFails`) or an alternative inside one.  *Variables marked "history"* are not
in the code; they record what happened so that a property can refer to it, and
no guard reads them.

| Module | Models | Extends |
|---|---|---|
| `Classification` | the four levels, capacities and their comparison | - |
| `ExecutionSecurity` | `ExecutionSecurityService` | `Classification` |
| `ModelOperation` | abstract: one durable model operation | - |
| `ModelGateway` | `ModelGateway.complete` over its journal; refines `ModelOperation` | - |
| `ToolService` | `ToolService` | - |
| `TrustAuthorizer` | `TrustAuthorizer`, `ApprovalGrantStore` | `Classification` |
| `LoopRun` | one run of `LoopManager` | - |
| `SchedulerCore` | `SchedulerCore` | - |
| `CommandEventBus` | the commands of the bus | - |
| `ProcessSupervisor` | `ProcessSupervisor` and its children | - |
| `PluginLifecycle` | `PluginManager`, start and stop of the kernel | `CommandEventBus`, `ProcessSupervisor` |
| `OAuthGrants` | `OAuthService` for one grant key, with its store | - |
| `CommunicationService` | `CommunicationService` for one adapter | - |
| `WebSockets` | the connections of one plugin | - |
| `DiscordGateway` | the reducer, its runtime and the stored session | `WebSockets` |
| `MailChannel` | one account of a polled mailbox | - |
| `GraphInstance` | one graph instance of `GraphEngine` | - |
| `BotRuntime` | one bot of `BotRuntime` | - |
| `...Proofs` | the theorems about the module of that name | that module |
| `ChannelProofs` | the theorems about `CommunicationService` and `DiscordGateway` | both |
| `ServicesProofs` | the theorems about `OAuthGrants`, `SchedulerCore` and `GraphInstance` | all three |
| `PluginProofs` | the theorems about `PluginLifecycle`, `BotRuntime` and `MailChannel` | all three |
| `MC...` | a small instance | that module |

Three `MC` modules join components that share no state, so that a behaviour is
one of either: `MCServices` (OAuth and scheduler), `MCChannels` (communication
service and Discord gateway), `MCAgents` (a graph and a bot); and `MCPlugins`
joins the plugin host and a mailbox.  `MCGraphInstance` and `MCPluginLifecycle`
hold the instances that two runs use.  Whichever component is not the one of the
behaviour rests in a state where its fairness asks for nothing, or the liveness of
the other would hold for want of a fair behaviour.

**ExecutionSecurity.**  `contexts` is the store, `index` the subject keys in it and
`grants` the records of parent grants.  `Close` merges into the parent when the
child has finished with a result flow that says so, in the one step the code's
`#mutate` queue makes of it.  `Restart` loses the grants and keeps the store.
`commitIfCurrent` changes nothing in this module; its use is in `ModelGateway`.

**ModelGateway.**  All calls that name one operation key of one execution.
`calls[c].pc` is the `await` at which call `c` stands, the other fields are its
local variables.  The walk through `complete` is
`Start, Load, (Refuse | Replay | Enter), PrepareLoad, PrepareSave, AllowInput,
(permit: Recheck, AllowInputAgain, Commit, Dispatch), Send, Answer, ReviewOutput,
AllowOutput, Observe, Commit, Release, Released, (Withdraw | Deliver)`.  `lock` is
the execution queue that `commitIfCurrent` holds while its operation saves the
record.  The classification is represented by its revision, which
`RevisionsTrack` proves to move exactly when the classification does.
`Overlapping` says whether a caller may start a second attempt before the first
has ended; the loop and the graph executor derive keys from run and turn, node
and attempt, and do not.

**ModelOperation** is what a caller may rely on: a phase that only advances
(prepared, dispatched, output-pending, released, with denied and failed as other
ends), at most one send, and delivery only of a released answer.  `ModelGateway`
implements it when attempts do not overlap.

**ToolService.**  `policies[r]` is the entry of `#runPolicies` and the run's mark
in the classification service; `preparing[r]` the providers a pending
`#preparePolicy` still waits for.  `Unregister` is what the end of a registration
does everywhere at once.  An invocation walks
`invoke, Resolve, Allow, createParentGrant, Commit, Result, Observe, Return`; the
caller's `beforeAuthorization` and `beforeCommit` read the durable summary one
step before it is used, as in `kernel/plugin-manager.ts:919`.

**TrustAuthorizer.**  A request takes a snapshot of its run's level and compares the
higher of it and its own `payload` with the ceiling (`Effective`); its commitment
holds the snapshot alone.  `Key` is the identity under which requests share a prompt;
`Settle` gives one answer and the opener's commitment to all of them, so that a
request may be given the commitment of one with another payload at another level.
`CommitmentIsReviewed` relates the three: what the request carries, joined with the
level it is held to by the commitment it got, is above its ceiling only where a person
saw as high a classification in that prompt.  A message that has come in and the
review of a result name no capacity (`NoCapacity`), a request outside a run is
compared with none (`inRun`).  What scanners find is part of the asked operation
(`Ask`), because a scan has ended before `authorize` is called.

**LoopRun.**  `pc` is the `await` of `#execute`.  `Park` and `Pass` are
`waitAtSafePoint`; `published` holds the lists of pending interactions that the
interaction service has queued in microtasks and the subscriber (`Deliver`) has
not seen.  Model and tool calls are opaque: they may ask (`Ask`), end or throw.

**SchedulerCore.**  An entry of `entries` is one accepted registration, with the
ticks left to its deadline and to its timer; timers hold at most `MaxDelay`, as
`setTimeout` does, and `Fire` arms again what is early.  `EveryScheduleFires` asks that
a waiting registration is called or cancelled; the one way in which the code lets it be
neither, a cron armed again over it, is named (`Displaced`).

**CommandEventBus, ProcessSupervisor, PluginLifecycle.**  An *owner* is one
activation of a plugin with its abort signal.  `boot` is where `start` stands,
`tasks` where each `deactivate` of each caller stands (`operations`, `hook`,
`processes`, `disposing`), with the deadline having passed or not (`late`).  A
command call and its handler are two lives of one invocation: the caller gives up
and the handler runs on.  A child walks from its spawn, which `shutdown` and
`abort` may overtake, through the three ways of ending it.  A plugin stages what
it registers and a failed activation takes it back (`Conflict`, `Fail`).

**OAuthGrants.**  A call walks through `connect`, `accessToken` or `disconnect`;
`generation` is the counter that a disconnect and an abort advance, `refreshing`
the shared refresh.  The secret store is the one of `plugins/secrets-os`: a queue
of writes, each persisted before it can be read, and a failing one may or may not
have had its effect.

**CommunicationService.**  `locks` are the queues of `#withLock`.  A send walks `queued,
scanning, authorizing, recorded, publishing`, a delivery through review (for which it
has its number already), record, pruning and the emit.  `Stamp` gives each message the
time it claims to have been received at, which is what pruning goes by.

**WebSockets, DiscordGateway.**  `sockets` is the broker's side, with a queue of
what has arrived and not been handled; `gateway` is the reducer's state;
`cycle` is where `#openSocket` stands, `sending` where `#send` does.  The reducer's
functions are operators of the same names (`HandleHello`, `ClosedWith`, `Backoff`),
and each action is an event with all the effects `#apply` carries out.  The remote
end is external: it keeps sessions with logs, replays on a resume, and closes, falls
silent, forgets or demands a heartbeat at any moment, at a cost of one of `MaxFaults`.

**MailChannel.**  The queue of syncs is `syncs` with the place of the running one in
`syncing`; `reads` are the answers of the vault that syncs, new sessions and the
tools wait for, in the order they were asked.  A loop (`pollers`) lives on after its
signal has aborted, up to its next look at it, beside the one that replaces it, also
over a new activation of the plugin.  `behind` is history that says a failing
call has left a change without its sync, which the code leaves to the next sync.
An adapter whose registered destinations do not include the one that is polled for
(`Addressed`) refuses every message; `Hand` then lets the loop rest, as often as it
polls, and no bound is charged for it.
The Google runtime is the one translated; `channel-m365/src/runtime.ts` is the same
text over other endpoints.

**GraphInstance.**  `graph` is the definition, one of `Graphs`; `inst` the instance in
memory and `stored` the record.  `worker` is where each step of the current batch
stands, `settling` what closes the instance, which is done for each outcome by whoever
reached it.  A prompt that was sent before an end of the process may be one whose result
the gateway does not know: it ends the instance at once (`PromptUncertain`).  A stop of
the process loses all but `stored` and the execution; recovery reads them again.

**BotRuntime.**  `bot` and `storedBot` are the record in memory and in the store, `at`
where the operation under way stands and `queue` the events that wait for it
(`#serialize`); attempts are numbered, and `lineage` holds the execution of each with
its parent.

## The runs

Every run is exhaustive within its bounds.  Passing runs:

| Run | Instance | Why it is enough | What it shows |
|---|---|---|---|
| `execution_security` | 3 executions, 2 plugins, 2 subjects, 1 grant, 2 levels observed | a parent with two children, a grandchild and two unrelated trees all fit; a grant is spent and offered again | `ResultsAreCovered`, `ClosedIsFrozen` |
| `gateway_retries` | 3 attempts one after the other, 3 registrations (one with other egress), 2 requests, 2 revisions | first attempt, retry and a retry after the retry; replacement by a like and by an unlike provider | `AtMostOneSend`, and `ImplementsOperation` (refinement) |
| `gateway_overlap` | 2 overlapping calls, 3 revisions | two rises: one before each authorization of the permit's loop | `PassesAsAuthorized`, `EveryCallSettles` |
| `loop` | 2 turns of 2 tool calls, 2 undelivered lists | a turn with a successor and a last one, a call with a successor and a last one; two lists let an old one meet a newer run | `FinishedIsClosed`, `WaitingIsReal`, `CancelEnds`, `RunEnds` |
| `tools` | 1 static tool, 2 providers of one plugin, one of them offering the static tool's id, 1 run, 1 invocation, 2 levels | id conflicts, removal of one or both providers and every order of registry, run and invocation; invocations share state only through marks, which `Raise` moves for all others | `CatalogsAreAccountedFor`, `ResultsAreCovered`, `StartIsApproved`, `PreparationEnds` |
| `authorizer` | 2 requests, 2 chats, 1 tool, 3 levels of the run, 4 of what requests carry, 11 kinds of ask | sharing needs two; the asks differ in each reason for a prompt, and equal prompts are made of different payloads and levels | `ReviewedByAPerson`, `CommitmentIsReviewed`, `EveryRequestSettles` |
| `services` | 3 OAuth calls, 2 generations, 1 restart; or 3 registrations of 2 plugins with one id each, deadlines up to twice the timer | a call, one that joins its refresh and a disconnect; a running cron, what its callback registers, and a third of another plugin | `DisconnectedIsGone`, `ShutdownSettles`; `CancelledStaysCancelled`, `EveryScheduleFires` |
| `channels` | 3 sends of one key, or 3 deliveries of 2 messages with room for 1 record, 2 registrations, 1 restart; or 6 generations of a gateway, a queue of 2, 2 faults, 2 messages | a send, one that waits for its lock, and one after the restart; a message redelivered after another has pruned it; a fault in the answer to a fault | `SentAtMostOnce`, `EmittedOnce`; `OneSocket`, `NothingIsSkipped`, `Recovers` |
| `plugins` | a store and 2 plugins that claim one command, 5 activations, with 2 toggles one after the other, or with a call and a child; or a mailbox with 2 messages, 2 loops at a time and 2 events out of saves, connects, disconnects, failures and ends | an activation again after a deactivation, for both ordinary plugins; a page of which part is handed over, and a change during the sync of the one before | `RegisteredIsActive`, `EnabledIsActive`, `HookRunsAlone`, `SignalsAreHeard`, `StopEnds`; `RunsAsSet`, `SeenIsHeard`, `InboxIsHeard` |
| `agents` | 3 graphs (a tool beside a question, a branch with a prompt and a step that is skipped, a tool beside a delay) with 2 ends of the process; or a bot with 3 attempts, 3 requests, 2 restarts | the second end strikes the recovery from the first; three attempts make a grandchild, and a start that finds its predecessor unsettled | `StepsAreNotReplayed`, `ClosedIsStored`, `GraphEnds`; `RunIsReachable`, `ClosedAsItEnded`, `LineageIsKept` |

The bounds: `MaxRevision` and `MaxLevel` (how often a classification can rise),
`MaxTurns` (eight in the code), `MaxCalls` (tool calls of a completion),
`MaxPublished` (undelivered lists when another is published), `MaxWait` (ticks to
a deadline), `MaxGeneration` and `MaxBoots` (disconnects and aborts, restarts),
`MaxRegistrations`, `MaxRestarts`, `MaxQueued` (256 in the code), `MaxSockets`
(4; one account opens one), `MaxFaults`, `MaxMessages`, `PageSize` (25),
`MaxMailEvents`, `MaxStops`, `MaxAttempts`, `MaxRequests`.  A name of a registration in
`SchedulerCore` is used again once nothing refers to it, so three names are three
registrations *at a time*, and the run has no bound on their number.  Where the
names or bounds are used up, or the system stops for good, nothing more happens, and
deadlock checking is off: `channels`, `agents`, `graph_cancel`, `plugins`,
`kernel_stop`, `services`, `tools`.

The runs that look for a violation are described under
[Disagreements](#disagreements-with-docs-and-tests).

## Fairness

Fairness is stated only where a liveness property needs it.

* `gateway_overlap`: weak fairness of each call's steps.  The event loop runs
  every continuation; providers end their request when its signal aborts; an
  interaction of a model stage is answered or times out.
* `loop`: weak fairness of `#execute` as a whole, of delivery and of answers.
  Nothing makes anybody resume a paused run, so `RunEnds` excepts a run that stays
  paused.  `CancelEnds` needs no answer to arrive: cancel withdraws approvals.
* `services`: the clock goes on and due timers and settled callbacks are run;
  reads and writes of the secret store end, a wait whose signal has aborted rejects,
  and a revocation, which hears only the signal of the shutdown, then does.
* `authorizer`: each request's own steps, and answers.  Safety prompts have no
  timeout in the code, so without the second nothing settles; the property says
  that *nothing but* an unanswered prompt can hold up a request.
* `tools`: some provider that a preparation waits for answers.  This is an
  assumption about providers: their signal is aborted with the run and with the
  plugin, and the kernel has no timeout of its own here.
* `channels`: of the gateway, awaits end and timers fire.  Whether the remote end
  answers in time is not assumed of a connection it has left; of one it is attached
  to, a missing answer is a fault, and faults are bounded.
* `plugins`: the deadlines of a deactivation and of a command fire, spawns settle, a
  child that was sent SIGKILL exits.  Nothing makes a hook, a handler or an
  activation end.  Of the mailbox, calls return or fail, timers fire, and people answer
  a consent or close it.
* `agents`: the engine goes on with what it awaits, tools and persons answer, timers
  fire; no fairness for ends of the process or for cancel.

## What is proved

TLAPS checks the proofs for every value of the constants that satisfies the
assumptions named in the modules (`GatewayAssumption`, `SchedulerAssumption` and
so on: bounds are positive, "no value" constants are not values).  TLC evaluates
the same assumptions in every run.

| Theorem | Statement | Argument |
|---|---|---|
| `ExecutionSecurityProofs!TypeCorrect` | `Spec => []TypeOK` | part of the invariant |
| `...!ResultsCovered` | merged and imported results are covered by their parent | see below |
| `...!LineageAndIndex` | roots, parents and the subject index agree | see below |
| `...!RevisionsTrack` | the revision moves exactly with the classification | from the invariant, per action |
| `...!ClosedStaysFrozen` | a closed execution never changes | per action |
| `ServicesProofs!SchedulerTypeCorrect, WaitingArmed, CancelledStays, StoppedQuiet` | no schedule loses its timer; what was cancelled stays so; quiet after shutdown | see below |
| `ToolServiceProofs!TypeCorrect, CatalogsAccounted, BindingsOpen` | no catalog is lost, no binding leads to a provider that is gone or a catalog that is closed | see below |
| `...!ResultsCovered, StartApproved` | results are covered by both marks; a handler starts only as it was approved | see below |
| `ModelGatewayProofs!TypeCorrect, DispatchAuthorized, ReleaseAuthorized, AuthorizedPassage` | nothing leaves or is handed over on an approval for another revision, for any number of overlapping calls | see below |
| `...!OneSend, DeliveredReleased, DeliveryDurable, Implementation` | with `~Overlapping`, for any number of attempts, restarts and registrations | see below |
| `LoopRunProofs!TypeCorrect, EndsClosed, WaitsForSomething` | a run that has ended has let go; a run is waiting only while something is pending or a list is under way | see below |
| `TrustAuthorizerProofs!APersonReviews, PromptsHaveOpeners, CommitmentSeen` | what is allowed was reviewed; the commitment was shown | see below |
| `ServicesProofs!OAuthTypeCorrect, DisconnectedStaysGone` | `OAuthSpec => []DisconnectedIsGone` | see below |
| `ServicesProofs!GraphTypeCorrect, NoStepIsReplayed, ClosedInstancesAreStored` | no tool is called oftener than its step allows; a closed execution belongs to an instance stored as ended so | see below |
| `PluginProofs!BotTypeCorrect, RunsAreReachable, AttemptsCloseAsTheyEnded, AttemptsKeepLineage` | a live run can be stopped; executions close as their runs ended; attempts descend from those before them | see below |
| `PluginProofs!SeenWasHeard, MailTypeCorrect, MailboxRunsAsSet` | no message is marked as seen that was not handed over; a mailbox is polled as it is set | see below |
| `PluginProofs!HostTypeCorrect, SignalsHeard, HooksRunAlone` | signals reach every call and child; a deactivate hook runs beside no operation unless its time is up | see below |
| `...!RegisteredAreActive, EnabledAreActive` | while no two changes of plugins meet, what is registered is active, and what is active is as the configuration says | see below |
| `ChannelProofs!TheAdapterIsCalledOnce, SubscribersHearOnce` | `CommSpec => []SentAtMostOnce`, `[]EmittedOnce` | see below |
| `ChannelProofs!OneConnection, NothingSkipped` | `DiscordSpec => []OneSocket`, `[]NothingIsSkipped` | see below |

*ExecutionSecurity.*  `IInv` joins the type with the two coverage properties, the
lineage, the subject index and two strengthenings: `RevisionBounded` (a revision was
paid for by rises of the classification; without it the type is not inductive) and
`GrantParentsExist` (the parent of a new child is in the store, so that coverage
speaks of something).  `EvolveContexts` shows once, for every action that only moves
contexts upwards and changes no closed one, that `IInv` survives; `ObserveStep`,
`CloseStep` and `ImportStep` apply it, `AddContext` does the same for new contexts.

*SchedulerCore.*  `TasksInv` joins the type, `WaitingIsArmed` and `StoppedIsQuiet` with
`CancelledIsTold` (what a cancel found is free, or runs with its signal aborted: this
is what keeps a running cron from being armed again) and `ArmedIsLive` (no timer is
set for an aborted entry).  `OneEntryInv` treats the actions that change one entry
together; `Tick` and the cancels, which change several, have lemmas of their own.

*ModelGateway, overlapping calls.*  `IInv == TypeOK /\ Named /\ Authorized`: a call
that has started knows its request, one that has entered its registration, the
summary a call holds at a commit is the one that was approved, and inside
`commitIfCurrent` it is still the execution's.  The lock, whose ownership is part of
`TypeOK`, keeps it so: nothing raises or closes an execution while it is held.

*ModelGateway, one attempt after another.*  `SequentialInv` adds `Alone` (at most
one call is active), `Journalled` (which phases the journal can be in while a call
stands at each `await`; this is what makes "prepared again after a send"
impossible) and `History` (the ghost variables agree with the phase).  Each lemma shows
for a group of actions both that it is kept and that the step is a step or a stutter
of `ModelOperation`; `Implementation`, `OneSend`, `DeliveredReleased` and
`DeliveryDurable` follow.

*ToolService.*  `IInv` joins the type, `CatalogsAreAccountedFor` and
`ResultsAreCovered` with an invariant for each run and one for each invocation.
`RunInv`: what a run leases was handed over, is open and comes from a registered
provider, its bindings lead to leases, and what a preparation still waits for was not
handed over yet; the last needs that a run is prepared only once, which is its last
conjunct.  `CallInv`: from the approval to the commit an invocation's level is at most
the run's mark, and from the result on the marks cover what its tool may have produced.
`OneRunInv` treats the steps that change one policy, `OneCallInv` those that move
one invocation and raise marks; `UnregisterInv` treats a removal, which changes every
policy at once.  `StartApproved` then follows from `Commit` alone (`CommitStarts`): the
mark is at least the approved level by `CallInv`, at most the bound one because marks
rise, and these two are equal by the check.

*LoopRun.*  `IInv` joins the type, `CallsLeft` (who is about to call a tool has a
call to make, without which the type is not inductive), `EndInv` (a run is
cancelled in the step that aborts it, and any other terminal state is reached where
`#execute` puts it) and `ExecutionInv` (how far the execution has come at each
place).  `WaitInv` adds that the last list under way is what is pending: so the last
delivery compares the run with the truth, and `WaitingIsReal` follows.

*TrustAuthorizer.*  `TrustInv` says of every allowed request that it is `Justified`:
it needed no review, or had the grant, by itself; or it got its answer from a prompt
whose opener has the same `Key` and was answered with leave.  Equal keys make equal
reasons (`SameReasons`).  `PromptsOK` has a prompt pending exactly while its opener
waits.  For `CommitmentSeen` it adds `PromptsNeeded`: who shows a prompt needed one, so
that a review which names no capacity shows what a scan says and no request with a clean
scan shares its prompt (`ScansShow`).  Requests that share a prompt therefore have one
ceiling (`SameCapacity`).  Above it the key holds their `Effective`, which is the same.
Below it neither the payload of the one nor the level of the other is above it, hence
nor the higher of them (`CommitmentCovered`, by `Ceiling`).  Below the ceiling the
capacity is not in the key; that one operation is asked about with one capacity is what
the callers do: a call of a tool or a message names the one that the tool or the adapter
was registered with, and only the review of a result names none.  It is an assumption
of the module (`OneCapacity`, part of `AuthorizerAssumption`), which TLC evaluates for
the asks of the run.

*OAuthGrants.*  `GrantsInv`: `clean` holds the disconnects that no later connect or refresh has
overtaken.  The invariant says that whoever still waits for tokens took an older
generation (`GenerationsAreOld`), that each queued write has its own waiting call
(`WritesAreAwaited`) and that no write of a grant is queued behind the one of a
disconnect that counts (`NoGrantBehind`); the queue then carries them out in an
order that ends without a grant.

*CommunicationService.*  For a send: whoever is past its lock holds it, and the record
of its key says how far it has come (`SendInv`).  For a delivery the same, with
`EmitsCovered`, which leaves room for one more emit exactly while the lock's holder
has found no record or has written one (`DeliveryInv`).  Both rest on lemmas about
`Enqueue` and `Release`: nobody takes a lock from who holds it.

*DiscordGateway.*  `DiscordInv` relates the open connections to the generation and
the phase, for each place at which `#openSocket` can stand; closing a cycle gives up
the connection before the generation advances.
`SkipInv` adds what is on its way.  `Coming` is all that the gateway's connection has
still to hand over: the frame at the pump, its queue and what has not arrived yet.
`InOrder` says of it that its dispatches stand in the session's log after the gateway's
sequence number (`Follows`), with none missing, the last of the log included, as long as
the remote end serves the connection (`UpToDate`), and that there are none until the
gateway has said which session it wants.  It is stated over the logs of all sessions,
which only grow, because a session that the remote end has given up may still be held by
the gateway, in memory or in the store.  `SessionsKnown` says of each such session that
its sequence number is within its log and that every message up to it was taken;
`Agrees` ties the frame that waits for the token to the phase.  So the next dispatch is
the one after the sequence number, and taking it keeps `SessionsKnown`.  The lemmas about
`Pipe` and `Follows` say what a frame that arrives, is handed over, is written or is lost
with its connection does to a sequence; there is then one lemma for each kind of step.
`DiscordAssumption` is all that is asked of the constants: a close is no frame, and the
first generation has a connection.

*GraphInstance.*  `StepsInv` speaks of the record in memory and of the one in the store
alike, because a stop turns the one into the other: a step that counts is within its
attempts and strictly below them while it is to begin anew, the two records agree on
the attempts (they are saved in the step that raises them), and what was performed is
at most what was counted, less one while the call is still to be made.  Every change of
a record is shown once to be a step of `Follows` or `Kept`, two transitive relations,
so that an action which settles, forces and propagates is one chain of them.  `EndInv`
holds in graphs without delays: whoever closes the instance, and the execution once
closed, agree with the status that is stored (`SettledAt`), which needs that no step
is left waiting when the task chooses what to do next (`Attended`).

*BotRuntime.*  `BotInv` holds for the record in memory and the one in the store at every
step, since a restart may put the one in place of the other at any of them.
`Coherent` says which of head, run, attempt under way and pending close can be set
together, `ClosesAsItEnded` that what is still to be closed has the outcome of its run,
`HeadIsClosed` that the head is open only after an interruption of an interruption, and
`HeadDescends` that whatever had a run is the head, under way or an ancestor of the
head.  `StepIsDue` gives what each place of the operation under way may rely on, and
`LiveIsRecorded` where a live run is named.  Ancestors are the least set closed under
parents, so that `AncestorsOfBound` and its like can argue about a new attempt without
induction.

*MailChannel.*  `SeenInv` adds to `SeenIsHeard` that a loop which has read what is new
holds ids that were heard (`NextIsHeard`).  `MailInv` says what the reads under way
belong to (`ReadsOfSync`), that the task of a session is a loop that goes on
(`TaskIsAlive`), and, in `SyncAsSet`, how far the mailbox agrees with its settings at
each place of the sync: whatever has changed since is `Due`, by a sync queued behind or
a call that has still to ask for one.

*PluginLifecycle.*  `Shape` joins the type with what a caller may rely on between two
awaits: an activation keeps its plugin, a current one is committed, and one that is
being deactivated is committed, aborted and handles nothing (`TasksAreKnown`); it rests
on `GoOn`, what any step may do to an activation.  `SignalsInv` strengthens
`SignalsAreHeard`: a child that is spawning for what has ended has been told, so that
it will not be registered.  `WaitsForAll` says that what is left of the operations of
an activation is among those waited for, or that there is none; `NoneBegins` is its
core: a step starts nothing for an activation that is aborted and handles nothing.

`RegisteredIsActive` and `EnabledIsActive` speak of histories in which no change of a
plugin has met another change, the start or the stop (`~overlap`); their invariant says
what each caller is then doing.  `InTurn`: calls of `setEnabled` take turns and begin
after the start (`TakeTurns`); an activation under way is the one that start or
`setEnabled` awaits (`AreAwaited`), so that there is never a second one, and nobody
deactivates its plugin meanwhile (`AreAlone`); whoever deactivates finds his own
activation or none, and where `stop` has come between, the record refuses the call it has
overtaken (`UnwindTheirOwn`); plugins that start has still to reach have never been
activated (`AreToCome`, by their `Position`); `Registers` is the property without its
hypothesis.  A stop may come at any time in both.  `Chosen` adds the configuration: the
list in memory is the one stored, or one written call behind (`ChoicesAgree`), and each
plugin that start has come to is off, or on its way there, exactly if it is listed
(`AsChosen`).  Most steps leave a plugin alone (`QuietInTurn`, `StaysAsChosen`).

Only model-checked: all liveness properties (fairness and `ENABLED` are beyond the
prover).  Every other invariant and action property that a run checks is stated by a
theorem.

## Disagreements with docs and tests

Two have a run whose counterexample shows them, and an entry under `findings`:

* `kernel_stop`, `StoppingActivatesNoMore`: `kernel/create-kernel.ts:383` says that a
  stop during start activates no more plugins; `activateAll` does not look.  What it
  activates after the stop has copied the order is never deactivated.
* `graph_cancel`, `NotResurrected`: a test says that a cancelled graph is not
  resurrected while an agent starts; a delay that is being started when the graph is
  cancelled writes the instance back as waiting.

The others are written down here because they bound what the properties say.

* Gateway: a reused operation key with another digest is to be rejected
  (docs/architecture.md:656); two calls that overlap are compared only with the record
  loaded on entry (`kernel/model-gateway.ts:235`).  Two such calls can also send
  twice, when a denial of the second saves over the dispatched record of the first
  (713).  Nothing in the repository starts such calls, so the send properties are
  stated for attempts that do not overlap.
* Loop: a cancel during the close of a completed run is followed by the final event,
  and the run's execution is closed as completed (`kernel/loop-manager.ts:687`).  A run
  whose model stage waits for an approval is set back to running when the list of
  interactions is delivered (149, against docs/architecture.md:1045).
* Scheduler: a schedule registered under a cron's id while that cron's callback runs
  is accepted and never fires (`kernel/scheduler-core.ts:219`).  `EveryScheduleFires`
  excepts exactly these registrations (`Displaced`) and does not hold without it.
* Approvals: a tool that is always allowed is asked about while the stored grants are
  being read, and until the next start when that read fails
  (`kernel/approval-grants.ts:86`).
* Plugins: two `setEnabled` calls at once can lose a choice from the stored list
  (`kernel/plugin-manager.ts:1850`); the properties are stated of changes one after
  the other.  A failed activation takes back commands and tools but leaves
  schedules and graph contributions registered.
* OAuth: a refresh that starts while a disconnect revokes or deletes stores the grant
  again (`kernel/oauth-service.ts:674`, docs/architecture.md:864).  Who joins the
  refresh of another does not hear its own signal.
* Communication: at the limit of the records, a message that claims an old time is
  pruned by its own delivery, and a redelivery is taken for new
  (`kernel/communication-service.ts:1437`, docs/architecture.md:1292).  A crash
  between record and emit (1266) loses the message: the redelivery is a duplicate.
* Graphs: an end of the process after the end step is stored and before the instance
  is leaves a graph that fails after recovery for want of a path
  (docs/architecture.md:929).  A delay that fires while `#execute` is about to
  return wakes nobody (`executor.ts:1561`), and one that fires in a cancel
  writes the instance back; so `GraphEnds` and `ClosedIsStored` are stated of graphs
  without delays.
* Bots: a start whose predecessor has ended unheard binds under the head before it
  (`runtime.ts:314`; the history variable `superseded`).  An end of the process between
  the record of an interruption and the close makes the next start close it as
  completed (181; `twice`).  A `failed` state disposes the subscription first, so that
  the error is never recorded (647).  Between a bind and the first record, or a
  delete and its close, an end of the process leaves an execution open.
  docs/architecture.md:1270 has the bot stop when its loop ends and then start a new
  loop on restore; the code and line 1288 do not.
* Discord: the session stored at READY or RESUMED may be ahead of messages still being
  ingested, which a crash then loses, and a failed ingest is not repeated
  (`runtime.ts:515`; counted in `lost`).  `stop` does not wait for queued saves (198):
  one can land after the `save(null)` of a disconnect, or after a save of the runtime
  that was registered next.  The model has them end before that registration
  (`RegisterAgain`), which a store that answers within a handshake does.  A plugin may
  own four sockets and configure eight accounts, so that the last four never connect.
  docs/architecture.md:860 speaks of the outbound queue; the limit is on the inbound
  one.
* Mailboxes: `ingest` returns normally once the adapter has gone
  (`kernel/communication-service.ts:1113`) and `#pollOnce` looks at no signal between
  messages, so the rest of a page is stored as seen and never delivered (`dropped`).
  After a failed profile (157) the mailbox is unknown.  With an allowed recipient saved,
  `buildDestinations` (`config.ts:218`) then registers the recipient alone, while the
  polling hands over for the fallback inbox (`runtime.ts:555`): every ingest is refused
  (`kernel/communication-service.ts:1531`) until the account is connected again, and the
  inbox is not heard.  `InboxIsHeard` is stated of accounts whose destination is
  registered (`Addressed`) and does not hold of the others.
  A connect whose profile or save fails keeps its grant with neither tools nor
  polling until the next sync, against docs/architecture.md:978 (`behind`).  A message
  that is always refused holds up the newer ones of its page, and of more than
  25 messages between two polls the oldest are never read; the model keeps to messages
  on the page.  Two saves at once can lose one in memory, because `#writeAccounts`
  assigns what it read before its watchers ran; the settings page does one at a time.

## What is not modelled

Of the modelled components: token events, costs and model preferences of the
gateway; input and output schemas of tools; the CodeAct variant of a loop (one
stage with the same frame) and event subscriptions; audit lists; which instant a
cron expression names; events of the bus to subscribers, except that the
communication service awaits them; agent steps, `goto`, `for_each`, definitions and
triggers of graphs; a bot's log and workspace; handshake timeout and outbound limits of a
socket; what the mailboxes send, and their tools.  Provenance is represented by its
classification.  A catalog offers one tool.  What scanners and people decide is
always left open, and a vault answers reads in the order they were made.

The components are composed where one's steps decide the other's: bus and
supervisor with the plugin manager, sockets with the gateway, the journal with the
execution's revision.  The services a plugin's removal reaches have that removal as
an action of their own (`removeProvider`, `Unregister`, `CancelKeys`, `PluginAborted`,
`SocketsAborted`).

Of the rest of the system: see `components` in `PROJECT.json`.  Model providers,
MCP and search plugins are protocol adapters, present in the modules as
nondeterministic answers, registrations and results.  The user interface, the
distributions, TLS and network handles, schema validation and the sandbox are
input and output or pure functions over unbounded data.

## Plan

1. Proofs: the limits `WebSockets` keeps (a queue within `maxQueuedMessages`, a plugin
   within `maxSocketsPerPlugin`), of which `SkipInv` already has the rest of the type.
2. `InteractionService` on its own, then `LoopRun` composed with it instead of
   `Ask`, `Respond` and `Withdraw`; CodeAct as a second frame of `LoopRun`.
3. The Slack gateway, a reducer like Discord's with envelopes to acknowledge, and the
   IMAP session.
4. Agent steps and `for_each` of graphs; definitions and their triggers on
   `SchedulerCore`; the inbound messages that launch instances.
5. `ConfigFacade`, the workspace service's allocate and release, chat documents, the
   mapping of A2A tasks.
