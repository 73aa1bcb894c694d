--------------------------- MODULE PluginLifecycle ---------------------------
(* PluginManager, packages/kernel/src/plugin-manager.ts: activation, enabling   *)
(* and disabling, deactivation; with start and stop of the kernel               *)
(* (create-kernel.ts), the commands of the bus and the child processes.         *)
(*                                                                              *)
(* An owner is one activation of a plugin: its AbortController and everything   *)
(* it registers.  "stop" and the members of Toggle are the callers that may     *)
(* deactivate: kernel.stop and calls of setEnabled.  Every await is a step      *)
(* boundary; deactivation waits with a deadline, activation without.            *)
EXTENDS CommandEventBus, ProcessSupervisor, Sequences, SequencesExt, FiniteSets

CONSTANTS Plugin,
          Bootstrap, Ordinary,  \* plugins the kernel starts itself, in order
          Handles,              \* the commands each plugin stages a handler for
          StoredAtStart,        \* what the configuration may say at the start
          Toggle,               \* bound: calls of setEnabled
          Overlapping,          \* may such a call begin before another has ended?
          Mixes                 \* bound: which toggles, invocations and children
                                \* one behaviour may use

VARIABLES kernel,      \* KernelState of create-kernel.ts
          boot,        \* where start() stands, and the activation it awaits
          records,     \* #records: status
          current,     \* #active: the activation, or NoOwner
          order,       \* #activationOrder
          disabled,    \* #disabled
          stored,      \* the list in the configuration
          owners,      \* every activation so far
          tasks,       \* setEnabled calls, and the deactivations of all callers
          stopList,    \* what deactivateAll has still to deactivate
          overlap      \* history: a toggle has met another one, a stop or a start

core == <<kernel, boot, stopList>>
registry == <<records, current, order>>
choices == <<disabled, stored>>
vars == <<core, registry, choices, owners, tasks, overlap, busVars, processVars>>

Stop == "stop"

Caller == Toggle \cup {Stop}

Order == Bootstrap \o Ordinary

Locked == Range(Bootstrap)

ASSUME LifecycleAssumption ==
  /\ Stop \notin Toggle
  /\ Owner \subseteq Nat /\ NoOwner = 0
  /\ Parent = Owner \cup Invocation
  /\ Invocation \cap (Owner \cup Child \cup {NoOwner}) = {}
  /\ Bootstrap \in Seq(Plugin) \ {<<>>} /\ Ordinary \in Seq(Plugin)
  /\ IsInjective(Order)
  /\ Overlapping \in BOOLEAN
  /\ Handles \in [Plugin -> SUBSET Command]
  /\ StoredAtStart \subseteq SUBSET (Plugin \ Locked)
  /\ Cardinality(Owner) >= Len(Order) + Cardinality(Toggle)

NoTask == [step |-> "idle", plugin |-> "none", enable |-> FALSE, owner |-> NoOwner,
           next |-> {}, waits |-> {}, late |-> FALSE]

Done == [NoTask EXCEPT !.step = "done"]

Unwinding == {"processes", "operations", "hook", "dispose"}

(* An owner's registrations: "services" (tools, models, channels and so on) are *)
(* removed by the plugin's id, "schedules" (and graph contributions) too, but   *)
(* only by deactivate; handlers are the bus's.                                  *)
TypeOK ==
  /\ BusTypeOK /\ ProcessTypeOK
  /\ kernel \in {"idle", "starting", "started", "failed", "stopping", "stopped"}
  /\ boot \in [step : {"idle", "bootstrap", "read", "ordinary", "done"},
               next : 1 .. Len(Order) + 1, awaits : Owner \cup {NoOwner}]
  /\ records \in [Plugin -> {"none", "activating", "active", "deactivating",
                             "disabled", "failed"}]
  /\ current \in [Plugin -> Owner \cup {NoOwner}]
  /\ order \in Seq(Plugin)
  /\ disabled \in SUBSET Plugin /\ stored \in SUBSET Plugin
  /\ owners \in [Owner -> [plugin : Plugin \cup {"none"}, aborted : BOOLEAN,
                           step : {"free", "activating", "processes", "disposing",
                                   "failed", "committed"},
                           owns : SUBSET {"services", "schedules"}]]
  /\ tasks \in [Caller -> [step : {"idle", "writing", "written", "activation", "next",
                                   "shutdown", "done"} \cup Unwinding,
                           plugin : Plugin \cup {"none"}, enable : BOOLEAN,
                           owner : Owner \cup {NoOwner}, next : SUBSET Plugin,
                           waits : SUBSET (Invocation \cup Child), late : BOOLEAN]]
  /\ stopList \in Seq(Plugin)
  /\ overlap \in BOOLEAN

Init ==
  /\ \E mix \in Mixes :
       /\ BusInit(mix) /\ ProcessInit(mix)
       /\ tasks = [k \in Caller |-> IF k \in mix \cup {Stop} THEN NoTask ELSE Done]
  /\ kernel = "idle"
  /\ boot = [step |-> "idle", next |-> 1, awaits |-> NoOwner]
  /\ records = [p \in Plugin |-> "none"]
  /\ current = [p \in Plugin |-> NoOwner]
  /\ order = <<>>
  /\ stored \in StoredAtStart
  /\ disabled = {}
  /\ owners = [a \in Owner |-> [plugin |-> "none", aborted |-> FALSE, step |-> "free",
                                owns |-> {}]]
  /\ stopList = <<>>
  /\ overlap = FALSE

(****************************** Signals and sets ******************************)

Of(p) == {a \in Owner : owners[a].plugin = p}

AbortedOwners == {a \in Owner : owners[a].aborted}

ChildrenOf(set) == {c \in Child : children[c].parents \cap set # {}}

(* The promises of `operations`: handlers that run and spawns not settled.      *)
OperationsOf(a) ==
  RunningFor(a) \cup
  {c \in ChildrenOf({a}) : children[c].step \in {"spawning", "reaping"}}

Settled(operation) ==
  IF operation \in Child THEN children[operation].step \notin {"spawning", "reaping"}
  ELSE ~invocations[operation].running

(* Children that hear one of the signals `sources`, and those that abortOwned   *)
(* closes.                                                                      *)
AbortChildren(sources, closed) ==
  children' = [c \in Child |->
    IF children[c].parents \cap sources # {} THEN Told(children[c])
    ELSE IF c \in closed THEN Closed(children[c]) ELSE children[c]]

(* The end of an activation: its signal aborts, and what is removed by the      *)
(* plugin's id goes, whichever activation registered it.  `had` is what the     *)
(* activation owned, `kinds` what the caller removes, `step` where it goes.      *)
AbortOwner(a, step, had, kinds) ==
  LET p == owners[a].plugin
      expired == {i \in Invocation : /\ invocations[i].from = a
                                     /\ invocations[i].caller = "waiting"}
      Left(b) == (IF b = a THEN had ELSE owners[b].owns) \ kinds
  IN  /\ owners' = [b \in Owner |->
           IF owners[b].plugin # p THEN owners[b]
           ELSE [owners[b] EXCEPT !.aborted = @ \/ b = a, !.owns = Left(b),
                                    !.step = IF b = a THEN step ELSE @]]
      /\ invocations' = [i \in Invocation |-> AfterAbort(invocations[i], a)]
      /\ AbortChildren({a} \cup expired, ChildrenOf(Of(p)))
      /\ UNCHANGED supervising

(********************************* Activation *********************************)

(* A plugin with a record that is not disabled is refused. *)
Refused(p) == records[p] \notin {"none", "disabled"}

(* activate, up to its first await. *)
Activate(p, a) ==
  /\ ~Refused(p)
  /\ owners[a].step = "free" /\ \A b \in Owner : b < a => owners[b].step # "free"
  /\ records' = [records EXCEPT ![p] = "activating"]
  /\ owners' = [owners EXCEPT ![a].plugin = p, ![a].step = "activating"]
  /\ UNCHANGED <<current, order>>

BrokenConflict(a) == {}

(* Commands of the plugin that another activation handles. *)
Conflict(a) == {c \in Handles[owners[a].plugin] : handlers[c] # NoOwner}

With(commands, a) ==
  [c \in Command |-> IF c \in commands THEN a ELSE handlers[c]]

(* The hook returns and every staged registration is committed. *)
Commit(a) ==
  LET p == owners[a].plugin
  IN  /\ owners[a].step = "activating"
      /\ Conflict(a) = {}
      /\ handlers' = With(Handles[p], a)
      /\ owners' = [owners EXCEPT ![a].step = "committed",
                                  ![a].owns = {"services", "schedules"}]
      /\ current' = [current EXCEPT ![p] = a]
      /\ order' = Append(order, p)
      /\ records' = [records EXCEPT ![p] = "active"]
      /\ UNCHANGED <<core, choices, tasks, overlap, invocations, processVars>>

(* The hook throws, or a registration does, after others were committed.  The   *)
(* catch block leaves schedules to the disposables and the bus to the end.      *)
Fail(a) ==
  /\ owners[a].step = "activating"
  /\ \/ /\ UNCHANGED handlers
        /\ AbortOwner(a, "processes", {}, {"services"})
     \/ /\ Conflict(a) # {}
        /\ \E some \in SUBSET (Handles[owners[a].plugin] \ Conflict(a)) :
             handlers' = With(some, a)
        /\ \E had \in SUBSET {"schedules"} :
             AbortOwner(a, "processes", had, {"services"})
  /\ UNCHANGED <<core, registry, choices, tasks, overlap>>

(* abortOwned has ended every child it closed.  There is no deadline here. *)
FailedProcessesEnd(a) ==
  /\ owners[a].step = "processes"
  /\ \A c \in ChildrenOf(Of(owners[a].plugin)) : children[c].step \notin Ending
  /\ owners' = [owners EXCEPT ![a].step = "disposing"]
  /\ UNCHANGED <<core, registry, choices, tasks, overlap, busVars, processVars>>

(* disposeAll, which stops at its deadline, then bus.removePlugin. *)
FailureEnds(a) ==
  /\ owners[a].step = "disposing"
  /\ \E left \in SUBSET owners[a].owns :
       owners' = [owners EXCEPT ![a].step = "failed", ![a].owns = left]
  /\ handlers' = Without(Of(owners[a].plugin))
  /\ records' = [records EXCEPT ![owners[a].plugin] = "failed"]
  /\ UNCHANGED <<core, current, order, choices, tasks, overlap, invocations, processVars>>

Activated(a) == owners[a].step \in {"failed", "committed"}

(******************************** Deactivation ********************************)

BrokenBeginDeactivation(k, p) ==
  LET a == current[p]
  IN  /\ records' = [records EXCEPT ![p] = "deactivating"]
      /\ UNCHANGED handlers
      /\ AbortOwner(a, owners[a].step, owners[a].owns, {"services", "schedules"})
      /\ tasks' = [tasks EXCEPT ![k] = [NoTask EXCEPT !.step = "processes",
                                                      !.plugin = p, !.owner = a]]
      /\ UNCHANGED <<current, order>>

(* deactivate, up to its first await. *)
BeginDeactivation(k, p) ==
  LET a == current[p]
  IN  /\ records' = [records EXCEPT ![p] = "deactivating"]
      /\ handlers' = Without(Of(p))
      /\ AbortOwner(a, owners[a].step, owners[a].owns, {"services", "schedules"})
      /\ tasks' = [tasks EXCEPT ![k] = [NoTask EXCEPT !.step = "processes",
                                                      !.plugin = p, !.owner = a]]
      /\ UNCHANGED <<current, order>>

Unwind(k, step, late, waits) ==
  /\ tasks' = [tasks EXCEPT ![k].step = step, ![k].late = late, ![k].waits = waits]
  /\ UNCHANGED <<core, registry, choices, owners, overlap, busVars, processVars>>

(* Children and loops have ended, or the deadline has passed; the operations    *)
(* of that moment are waited for.                                               *)
ProcessesEnd(k) ==
  /\ tasks[k].step = "processes"
  /\ \/ /\ \A c \in ChildrenOf(Of(tasks[k].plugin)) : children[c].step \notin Ending
        /\ Unwind(k, "operations", FALSE, OperationsOf(tasks[k].owner))
     \/ Unwind(k, "operations", TRUE, OperationsOf(tasks[k].owner))

BrokenOperationsEnd(k) ==
  /\ tasks[k].step = "operations"
  /\ \A operation \in tasks[k].waits : Settled(operation)
  /\ Unwind(k, "hook", tasks[k].late, {})

(* The plugin's deactivate hook starts. *)
OperationsEnd(k) ==
  /\ tasks[k].step = "operations"
  /\ \/ /\ \A operation \in tasks[k].waits : Settled(operation)
        /\ Unwind(k, "hook", tasks[k].late, {})
     \/ Unwind(k, "hook", TRUE, {})

WithoutLast(p) ==
  LET last == {n \in DOMAIN order : order[n] = p /\ \A m \in DOMAIN order :
                                                      m > n => order[m] # p}
  IN  IF last = {} THEN order ELSE RemoveAt(order, CHOOSE n \in last : TRUE)

(* The hook and disposeAll are over, or out of time.  What is deleted is the    *)
(* entry the plugin has now.                                                    *)
DeactivationEnds(k) ==
  LET p == tasks[k].plugin
  IN  /\ tasks[k].step = "hook"
      /\ current' = [current EXCEPT ![p] = NoOwner]
      /\ order' = WithoutLast(p)
      /\ records' = [records EXCEPT ![p] = "disabled"]
      /\ tasks' = [tasks EXCEPT ![k] = [Done EXCEPT !.step = IF k = Stop THEN "next" ELSE @]]
      /\ UNCHANGED <<core, choices, owners, overlap, busVars, processVars>>

(********************************* setEnabled *********************************)

Busy == \/ \E k \in Caller : tasks[k].step \notin {"idle", "done"}
        \/ boot.step \notin {"idle", "done"}

(* setEnabled, up to the write of the list.  Plugins the kernel needs are       *)
(* locked by the time the schema of that list and its readers exist; the        *)
(* settings view sends one call at a time.                                      *)
SetEnabled(t, p, enable) ==
  /\ tasks[t].step = "idle"
  /\ Overlapping \/ \A u \in Toggle : tasks[u].step \in {"idle", "done"}
  /\ boot.step \in {"ordinary", "done"}
  /\ records[p] # "none" /\ p \notin Locked
  /\ tasks' = [tasks EXCEPT ![t] =
       [NoTask EXCEPT !.step = "writing", !.plugin = p, !.enable = enable,
                      !.next = IF enable THEN disabled \ {p} ELSE disabled \cup {p}]]
  /\ overlap' = (overlap \/ Busy \/ kernel # "started")
  /\ UNCHANGED <<core, registry, choices, owners, busVars, processVars>>

BrokenWriteEnds(t) ==
  /\ tasks[t].step = "writing"
  /\ \/ /\ tasks' = [tasks EXCEPT ![t].step = "written"]
        /\ stored' = tasks[t].next
     \/ /\ tasks' = [tasks EXCEPT ![t].step = "written"]
        /\ UNCHANGED stored
  /\ UNCHANGED <<core, registry, disabled, owners, overlap, busVars, processVars>>

(* config.update ends, or fails and setEnabled with it. *)
WriteEnds(t) ==
  /\ tasks[t].step = "writing"
  /\ \/ /\ tasks' = [tasks EXCEPT ![t].step = "written"]
        /\ stored' = tasks[t].next
     \/ /\ tasks' = [tasks EXCEPT ![t] = Done]
        /\ UNCHANGED stored
  /\ UNCHANGED <<core, registry, disabled, owners, overlap, busVars, processVars>>

(* The rest of setEnabled, on the plugin as it is now. *)
Enable(t) ==
  LET p == tasks[t].plugin
  IN  /\ tasks[t].step = "written" /\ tasks[t].enable
      /\ disabled' = tasks[t].next
      /\ \/ /\ current[p] # NoOwner \/ Refused(p)
            /\ tasks' = [tasks EXCEPT ![t] = Done]
            /\ UNCHANGED <<registry, owners>>
         \/ /\ current[p] = NoOwner
            /\ \E a \in Owner :
                 /\ Activate(p, a)
                 /\ tasks' = [tasks EXCEPT ![t] = [NoTask EXCEPT !.step = "activation",
                                                                 !.owner = a]]
      /\ UNCHANGED <<core, stored, overlap, busVars, processVars>>

EnableEnds(t) ==
  /\ tasks[t].step = "activation" /\ Activated(tasks[t].owner)
  /\ tasks' = [tasks EXCEPT ![t] = Done]
  /\ UNCHANGED <<core, registry, choices, owners, overlap, busVars, processVars>>

Disable(t) ==
  LET p == tasks[t].plugin
  IN  /\ tasks[t].step = "written" /\ ~tasks[t].enable
      /\ disabled' = tasks[t].next
      /\ \/ /\ current[p] # NoOwner
            /\ BeginDeactivation(t, p)
         \/ /\ current[p] = NoOwner
            /\ records' = [records EXCEPT ![p] = "disabled"]
            /\ tasks' = [tasks EXCEPT ![t] = Done]
            /\ UNCHANGED <<current, order, owners, busVars, processVars>>
      /\ UNCHANGED <<core, stored, overlap>>

(******************************* start and stop *******************************)

(* start ends; assertStarting and the catch block look at the state. *)
StartEnds(outcome) ==
  /\ boot' = [boot EXCEPT !.step = "done", !.awaits = NoOwner]
  /\ kernel' = IF kernel = "starting" THEN outcome ELSE kernel

Await(step, n, a) == boot' = [step |-> step, next |-> n, awaits |-> a]

Start ==
  /\ kernel = "idle"
  /\ kernel' = "starting"
  /\ \E a \in Owner : Activate(Bootstrap[1], a) /\ Await("bootstrap", 1, a)
  /\ UNCHANGED <<stopList, choices, tasks, overlap, busVars, processVars>>

(* A plugin the kernel needs is active or has failed.  Between two of them the  *)
(* state is looked at.                                                          *)
Bootstrapped ==
  /\ boot.step = "bootstrap" /\ Activated(boot.awaits)
  /\ \/ /\ owners[boot.awaits].step = "failed" \/ kernel # "starting"
        /\ StartEnds("failed")
        /\ UNCHANGED <<registry, owners>>
     \/ /\ owners[boot.awaits].step = "committed" /\ kernel = "starting"
        /\ UNCHANGED kernel
        /\ IF boot.next < Len(Bootstrap)
           THEN \E a \in Owner : /\ Activate(Bootstrap[boot.next + 1], a)
                                 /\ Await("bootstrap", boot.next + 1, a)
           ELSE Await("read", 1, NoOwner) /\ UNCHANGED <<registry, owners>>
  /\ UNCHANGED <<stopList, choices, tasks, overlap, busVars, processVars>>

(* activateAll reads which plugins are disabled, or fails. *)
ReadDisabled ==
  /\ boot.step = "read"
  /\ \/ /\ disabled' = stored
        /\ Await("ordinary", 1, NoOwner)
        /\ UNCHANGED kernel
     \/ /\ StartEnds("failed")
        /\ UNCHANGED disabled
  /\ UNCHANGED <<stopList, registry, stored, owners, tasks, overlap, busVars, processVars>>

(* The loop of activateAll: the next plugin is skipped or awaited.              *)
(* Nothing here looks at the kernel's state.                                    *)
ActivateNext ==
  LET p == Ordinary[boot.next]
  IN  /\ boot.step = "ordinary" /\ boot.next <= Len(Ordinary)
      /\ boot.awaits # NoOwner => Activated(boot.awaits)
      /\ \/ /\ p \in disabled
            /\ records' = [records EXCEPT ![p] = "disabled"]
            /\ Await("ordinary", boot.next + 1, NoOwner)
            /\ UNCHANGED <<current, order, owners>>
         \/ /\ p \notin disabled
            /\ \E a \in Owner : Activate(p, a) /\ Await("ordinary", boot.next + 1, a)
      /\ UNCHANGED <<kernel, stopList, choices, tasks, overlap, busVars, processVars>>

Started ==
  /\ boot.step = "ordinary" /\ boot.next > Len(Ordinary)
  /\ boot.awaits # NoOwner => Activated(boot.awaits)
  /\ StartEnds("started")
  /\ UNCHANGED <<stopList, registry, choices, owners, tasks, overlap, busVars, processVars>>

(* stop, up to the first deactivation; later calls wait for this one. *)
StopKernel ==
  /\ kernel \notin {"stopping", "stopped"}
  /\ kernel' = "stopping"
  /\ stopList' = Reverse(order)
  /\ tasks' = [tasks EXCEPT ![Stop].step = "next"]
  /\ UNCHANGED <<boot, registry, choices, owners, overlap, busVars, processVars>>

(* deactivateAll, which passes over what is no longer active. *)
StopNext ==
  /\ tasks[Stop].step = "next" /\ stopList # <<>>
  /\ stopList' = Tail(stopList)
  /\ \/ current[Head(stopList)] # NoOwner /\ BeginDeactivation(Stop, Head(stopList))
     \/ /\ current[Head(stopList)] = NoOwner
        /\ UNCHANGED <<registry, owners, tasks, busVars, processVars>>
  /\ UNCHANGED <<kernel, boot, choices, overlap>>

(* scheduler.shutdown and processes.shutdown. *)
ShutDown ==
  /\ tasks[Stop].step = "next" /\ stopList = <<>>
  /\ tasks' = [tasks EXCEPT ![Stop].step = "shutdown"]
  /\ owners' = [a \in Owner |-> [owners[a] EXCEPT !.owns = @ \ {"schedules"}]]
  /\ supervising' = FALSE
  /\ children' = [c \in Child |-> Closed(children[c])]
  /\ UNCHANGED <<core, registry, choices, overlap, busVars>>

Stopped ==
  /\ tasks[Stop].step = "shutdown"
  /\ \A c \in Child : children[c].step \notin Ending
  /\ tasks' = [tasks EXCEPT ![Stop].step = "done"]
  /\ kernel' = "stopped"
  /\ UNCHANGED <<boot, stopList, registry, choices, owners, overlap, busVars, processVars>>

(*************************** Commands and processes ***************************)

(* A plugin's context works from activate on until its signal aborts. *)
Usable(a) == owners[a].step \in {"activating", "committed"} /\ ~owners[a].aborted

Invoke(i, c, from) ==
  /\ from = NoOwner \/ (from \in Owner /\ Usable(from))
  /\ Invoked(i, c, from, AbortedOwners)
  /\ UNCHANGED <<core, registry, choices, owners, tasks, overlap, handlers, processVars>>

(* The caller gives up; children spawned for the operation hear of it. *)
GiveUp(i) ==
  /\ Expire(i)
  /\ AbortChildren({i}, {})
  /\ UNCHANGED <<core, registry, choices, owners, tasks, overlap, handlers, supervising>>

HandlerSettles(i) ==
  /\ Settle(i)
  /\ UNCHANGED <<core, registry, choices, owners, tasks, overlap, handlers, processVars>>

(* process.spawn, by the plugin itself or, as long as its context is active, by *)
(* the handler of a command.                                                    *)
SpawnFor(c, a, i) ==
  /\ Usable(a)
  /\ \/ i \notin Invocation /\ Spawn(c, {a})
     \/ /\ i \in Invocation
        /\ invocations[i].owner = a /\ invocations[i].active
        /\ Spawn(c, {a, i})
  /\ UNCHANGED <<core, registry, choices, owners, tasks, overlap, busVars>>

ProcessStep(c) ==
  /\ Spawned(c) \/ Exit(c) \/ Close(c) \/ Kill(c) \/ TerminationEnds(c)
  /\ UNCHANGED <<core, registry, choices, owners, tasks, overlap, busVars>>

(******************************* Specification *******************************)

BootStep == Start \/ Bootstrapped \/ ReadDisabled \/ ActivateNext \/ Started

OwnerStep(a) == Commit(a) \/ Fail(a) \/ FailedProcessesEnd(a) \/ FailureEnds(a)

DeactivationStep(k) == ProcessesEnd(k) \/ OperationsEnd(k) \/ DeactivationEnds(k)

ToggleStep(t) == WriteEnds(t) \/ Enable(t) \/ EnableEnds(t) \/ Disable(t)

StopStep == StopNext \/ ShutDown \/ Stopped

Next ==
  \/ BootStep \/ StopKernel \/ StopStep
  \/ \E a \in Owner : OwnerStep(a)
  \/ \E k \in Caller : DeactivationStep(k)
  \/ \E t \in Toggle : ToggleStep(t) \/ \E p \in Plugin, enable \in BOOLEAN :
                                          SetEnabled(t, p, enable)
  \/ \E i \in Invocation : \/ GiveUp(i) \/ HandlerSettles(i)
                           \/ \E c \in Command, from \in Owner \cup {NoOwner} :
                                Invoke(i, c, from)
  \/ \E c \in Child : \/ ProcessStep(c)
                      \/ \E a \in Owner, i \in Invocation \cup {NoOwner} :
                           SpawnFor(c, a, i)

(* What the event loop, the deadlines and the operating system see to: a child  *)
(* that was sent SIGKILL exits.  No fairness for hooks that activate, for       *)
(* handlers that settle, or for anybody who stops, toggles or calls.            *)
Fairness ==
  /\ WF_vars(StopStep)
  /\ \A k \in Caller : WF_vars(DeactivationStep(k))
  /\ \A i \in Invocation : WF_vars(GiveUp(i))
  /\ \A c \in Child :
       /\ WF_vars((Spawned(c) \/ TerminationEnds(c)) /\ ProcessStep(c))
       /\ WF_vars(children[c].sent = "SIGKILL" /\ Exit(c) /\ ProcessStep(c))

Spec == Init /\ [][Next]_vars /\ Fairness

(********************************* Properties *********************************)

(* As long as nobody changes a plugin that another call is changing, whatever a *)
(* plugin has registered belongs to the activation that is listed as active,    *)
(* and an active one has lost nothing: a failed activation takes nothing away   *)
(* from others and leaves nothing (plugin-manager.ts:1731, :1751, :1893).       *)
RegisteredIsActive ==
  ~overlap =>
    \A a \in Owner :
      LET active == /\ owners[a].step = "committed" /\ ~owners[a].aborted
                    /\ current[owners[a].plugin] = a
      IN  /\ "services" \in owners[a].owns <=> active
          /\ active => \A c \in Handles[owners[a].plugin] : handlers[c] = a
          /\ \A c \in Command : handlers[c] = a =>
               active \/ owners[a].step \in {"processes", "disposing"}

(* Between two changes of a running kernel, what is stored as disabled is what  *)
(* is disabled, and what is not is active or has failed                         *)
(* (plugin-manager.ts:1836).                                                    *)
EnabledIsActive ==
  ~overlap /\ ~Busy /\ kernel = "started" =>
    /\ disabled = stored
    /\ \A n \in DOMAIN Ordinary :
         LET p == Ordinary[n]
         IN  IF p \in disabled THEN current[p] = NoOwner /\ records[p] = "disabled"
             ELSE records[p] = IF current[p] = NoOwner THEN "failed" ELSE "active"

(* A plugin's deactivate hook does not run beside one of its operations, unless *)
(* the deadline has passed: nothing starts one after those of the moment were   *)
(* counted (plugin-manager.ts:1930).                                            *)
HookRunsAlone ==
  \A k \in Caller :
    tasks[k].step = "hook" /\ ~tasks[k].late => OperationsOf(tasks[k].owner) = {}

(* An operation is active only while its caller waits and neither plugin has    *)
(* been stopped; a child that a stopped plugin or an operation given up has     *)
(* spawned is being ended, also when it was just coming up                      *)
(* (plugin-manager.ts:1639, process-supervisor.ts:99, :119).                    *)
SignalsAreHeard ==
  /\ \A i \in Invocation :
       invocations[i].active =>
         /\ invocations[i].running /\ invocations[i].caller = "waiting"
         /\ {invocations[i].owner, invocations[i].from} \cap AbortedOwners = {}
  /\ \A c \in Child :
       children[c].parents \cap
         (AbortedOwners \cup {i \in Invocation : invocations[i].caller = "expired"}) # {}
       => /\ children[c].step # "owned"
          /\ children[c].step = "spawning" => children[c].sent = "SIGKILL"

(* stop comes to its end, whatever plugins do and however starting goes on      *)
(* (create-kernel.ts:504).                                                      *)
StopEnds == kernel = "stopping" ~> kernel = "stopped"

(* create-kernel.ts:383: "stop() may run while start() is awaiting; bail out     *)
(* before activating more plugins".                                             *)
StoppingActivatesNoMore ==
  [][(kernel \in {"stopping", "stopped"}) => (boot'.awaits \in {boot.awaits, NoOwner})]_vars
=============================================================================
