---------------------------- MODULE GraphInstance ----------------------------
(* One instance of a graph, GraphEngine in plugins/graphs/src/executor.ts: its  *)
(* task, the steps that run at once, delays, cancel, the record in the store    *)
(* and recovery after the process has stopped.                                  *)
(*                                                                              *)
(* A write to the store takes effect when it is called; whoever awaits it goes  *)
(* on in a later step, together with the events that follow it.  Values,        *)
(* announcements in the chat and the workspace are left out, and so are agents, *)
(* goto, the limit of executions and a store that fails.                        *)
(*                                                                              *)
(* Operators named Broken... are plausible defects of the definition below      *)
(* them; no action uses one.                                                    *)
EXTENDS Naturals, FiniteSets

CONSTANTS Graphs,          \* definitions: [kind, edges, attempts, skips]
          MaxStops         \* bound: how often the process stops

VARIABLES graph,      \* the instance's copy of its definition
          inst,       \* the InstanceRecord in memory
          stored,     \* the one in the store
          execution,  \* stored: its execution, open or closed with an outcome
          up,         \* the engine is initialized
          task,       \* the entry of #activeTasks
          batch,      \* the steps that #execute waits for
          worker,     \* #executeNode for each step
          signalled,  \* the task and the steps whose signal is aborted
          delays,     \* #delaySchedules
          delayCall,  \* steps whose delay's callback is under way
          settling,   \* #complete, #fail, cancel and the end of #recover
          performed,  \* history: how often each step was carried out
          stops

engineVars == <<up, task, batch, worker, signalled, delays, delayCall, settling>>
graphVars == <<graph, inst, stored, execution, engineVars, performed, stops>>

Step == DOMAIN graph.kind

Kinds == {"trigger", "pure", "branch", "call_tool", "invoke_prompt", "feedback_gate",
          "delay", "end"}

(* A task step that fails is tried again up to attempts times, then skipped if  *)
(* it is in skips, else the graph fails.                                        *)
ASSUME GraphAssumption ==
  /\ MaxStops \in Nat
  /\ \A g \in Graphs :
       /\ IsFiniteSet(DOMAIN g.kind) /\ \A n \in DOMAIN g.kind : g.kind[n] \in Kinds
       /\ g.edges \subseteq [from : DOMAIN g.kind, to : DOMAIN g.kind, on : {"any", "true", "false"}]
       /\ g.attempts \in [DOMAIN g.kind -> Nat \ {0}]
       /\ g.skips \subseteq DOMAIN g.kind

Active == {"running", "waiting"}
Terminal == {"completed", "failed", "cancelled"}
Outcome == {"completed", "failed", "cancelled", "interrupted"}

Trigger == CHOOSE n \in Step : graph.kind[n] = "trigger"

In(n) == {e \in graph.edges : e.to = n}
Out(n) == {e \in graph.edges : e.from = n}

GraphTypeOK ==
  /\ graph \in Graphs
  /\ \A r \in {inst, stored} :
       /\ r.status \in Active \cup Terminal
       /\ r.state \in [Step -> {"pending", "running", "waiting", "completed", "skipped",
                                "failed"}]
       /\ r.attempts \in [Step -> Nat]
       /\ r.edge \in [graph.edges -> {"pending", "active", "inactive"}]
       /\ r.forced \subseteq Step /\ r.preserved \subseteq Step
       /\ r.closing \in Outcome \cup {"none"}
  /\ execution \in Outcome \cup {"open"}
  /\ up \in BOOLEAN
  /\ task \in {"none", "spawned", "choosing", "batch", "leaving", "failing", "ending"}
  /\ batch \subseteq Step
  /\ worker \in [Step -> {"idle", "starting", "performing", "asking", "delaying", "arming",
                          "storing", "failing", "settling", "continue", "waiting",
                          "terminal", "threw"}]
  /\ signalled \subseteq Step \cup {"task"}
  /\ delays \subseteq Step /\ delayCall \subseteq Step
  /\ settling \in [Outcome -> {"idle", "delays", "begun", "stored", "closed", "cleared"}]
  /\ performed \in [Step -> Nat]
  /\ stops \in 0 .. MaxStops

(* launch: the record is stored before the instance is known and spawned. *)
NewInstance(g) ==
  [status |-> "running", state |-> [n \in DOMAIN g.kind |-> "pending"],
   attempts |-> [n \in DOMAIN g.kind |-> 0], edge |-> [e \in g.edges |-> "pending"],
   forced |-> {n \in DOMAIN g.kind : g.kind[n] = "trigger"}, preserved |-> {},
   closing |-> "none"]

Quiet(steps) ==
  /\ batch' = {} /\ worker' = [n \in steps |-> "idle"] /\ signalled' = {}
  /\ delayCall' = {}
  /\ settling' = [o \in Outcome |-> "idle"]

GraphInit ==
  /\ graph \in Graphs
  /\ inst = NewInstance(graph) /\ stored = inst /\ execution = "open"
  /\ up = TRUE /\ task = "spawned" /\ batch = {}
  /\ worker = [n \in Step |-> "idle"] /\ signalled = {}
  /\ delays = {} /\ delayCall = {} /\ settling = [o \in Outcome |-> "idle"]
  /\ performed = [n \in Step |-> 0] /\ stops = 0

Save(record) == inst' = record /\ stored' = record

IsTerminal == inst.status \in Terminal

SetState(r, n, state) == [r EXCEPT !.state = [r.state EXCEPT ![n] = state]]

(* #refreshActiveStatus *)
Refresh(r) ==
  IF r.status \in Terminal THEN r
  ELSE [r EXCEPT !.status = IF \E n \in Step : r.state[n] = "waiting" THEN "waiting"
                            ELSE "running"]

SetEdges(r, chosen, edges) ==
  [r EXCEPT !.edge = [e \in graph.edges |->
     IF e \notin edges THEN r.edge[e] ELSE IF e \in chosen THEN "active" ELSE "inactive"]]

WorkerGoes(n, pc) == worker' = [worker EXCEPT ![n] = pc]

(******************************** The task ************************************)

(* #spawn does nothing while there is a task. *)
Spawn ==
  IF task = "none" /\ inst'.status \in Active
  THEN task' = "spawned" /\ signalled' = signalled \ {"task"}
  ELSE UNCHANGED <<task, signalled>>

(* Steps that nothing can reach any more, and so on down the graph. *)
Unreachable ==
  CHOOSE skipped \in SUBSET Step :
    \A n \in Step : n \in skipped <=>
      /\ inst.state[n] = "pending" /\ graph.kind[n] # "trigger" /\ n \notin inst.forced
      /\ In(n) # {}
      /\ \A e \in In(n) : inst.edge[e] = "inactive" \/ e.from \in skipped

Propagated ==
  LET skipped == Unreachable
  IN  [inst EXCEPT !.state = [n \in Step |-> IF n \in skipped THEN "skipped"
                                             ELSE inst.state[n]],
                   !.edge = [e \in graph.edges |-> IF e.from \in skipped THEN "inactive"
                                                   ELSE inst.edge[e]]]

(* Once around #execute: unless the signal or the status ends it, what cannot   *)
(* be reached is skipped, and the write of that awaited.                        *)
Around ==
  /\ task \in {"spawned", "batch"}
  /\ task = "batch" => \A n \in batch : worker[n] \in {"continue", "waiting"}
  /\ IF "task" \in signalled \/ IsTerminal
     THEN task' = "ending" /\ UNCHANGED <<inst, stored>>
     ELSE /\ task' = "choosing"
          /\ IF Unreachable = {} THEN UNCHANGED <<inst, stored>> ELSE Save(Propagated)
  /\ UNCHANGED <<graph, execution, up, batch, worker, signalled, delays, delayCall, settling,
                 performed, stops>>

(* #readyNodes; the graphs of the model never have more than four at once. *)
Ready ==
  {n \in Step :
     /\ inst.state[n] = "pending"
     /\ \/ n \in inst.forced
        \/ /\ graph.kind[n] # "trigger"
           /\ \A e \in In(n) : inst.edge[e] # "pending"
           /\ \E e \in In(n) : inst.edge[e] = "active"}

Begun ==
  Refresh([inst EXCEPT
    !.forced = {},
    !.state = [n \in Step |-> IF n \in Ready THEN "running" ELSE inst.state[n]],
    !.attempts = [n \in Step |-> IF n \in Ready \ inst.preserved THEN inst.attempts[n] + 1
                                 ELSE inst.attempts[n]],
    !.preserved = inst.preserved \ Ready])

(* The ready steps start together, #executeNode up to its first write. *)
Choose ==
  /\ task = "choosing" /\ Ready # {}
  /\ IF IsTerminal
     THEN /\ inst' = [inst EXCEPT !.forced = {}]
          /\ task' = "ending"
          /\ UNCHANGED <<stored, batch, worker, signalled>>
     ELSE /\ Save(Begun)
          /\ task' = "batch" /\ batch' = Ready
          /\ worker' = [n \in Step |-> IF n \in Ready THEN "starting" ELSE worker[n]]
          /\ signalled' = IF "task" \in signalled THEN signalled \cup Ready
                          ELSE signalled \ Ready
  /\ UNCHANGED <<graph, execution, up, delays, delayCall, settling, performed, stops>>

(* Nothing is ready: the instance waits for its delays, or has no way to go.    *)
(* Whether it was cancelled meanwhile is not looked at.                         *)
ChooseNothing ==
  /\ task = "choosing" /\ Ready = {}
  /\ IF \E n \in Step : inst.state[n] = "waiting"
     THEN /\ task' = "leaving"
          /\ Save([inst EXCEPT !.forced = {}, !.status = "waiting"])
     ELSE /\ task' = IF "task" \in signalled \/ inst.status = "cancelled" THEN "ending"
                     ELSE "failing"
          /\ inst' = [inst EXCEPT !.forced = {}]
          /\ UNCHANGED stored
  /\ UNCHANGED <<graph, execution, up, batch, worker, signalled, delays, delayCall, settling,
                 performed, stops>>

(* A step is terminal or has thrown, or the write of the status is over. *)
Leave ==
  /\ \/ task = "batch" /\ \E n \in batch : worker[n] = "threw"
     \/ /\ task = "batch" /\ \E n \in batch : worker[n] = "terminal"
        /\ \A n \in batch : worker[n] \in {"continue", "waiting", "terminal"}
     \/ task = "leaving"
  /\ task' = "ending"
  /\ UNCHANGED <<graph, inst, stored, execution, up, batch, worker, signalled, delays,
                 delayCall, settling, performed, stops>>

TaskEnds ==
  /\ task = "ending"
  /\ task' = "none" /\ batch' = {}
  /\ UNCHANGED <<graph, inst, stored, execution, up, worker, signalled, delays, delayCall,
                 settling, performed, stops>>

(********************************* The steps **********************************)

Busy == {n \in Step : worker[n] \in {"starting", "performing", "asking", "delaying", "arming",
                                     "storing", "failing", "settling"}}

(* The controller of the task: the signal of the task and of its steps. *)
AbortTask == signalled' = signalled \cup Busy \cup (IF task = "none" THEN {} ELSE {"task"})

Unsignalled(n) == n \notin signalled

(* A delay is stored with its deadline before its timer is set.  The status is  *)
(* written without another look at it.                                          *)
StartDelay(n) ==
  /\ worker[n] = "starting" /\ graph.kind[n] = "delay"
  /\ Save([SetState(inst, n, "waiting") EXCEPT !.status = "waiting"])
  /\ WorkerGoes(n, "delaying")
  /\ UNCHANGED <<graph, execution, up, task, batch, signalled, delays, delayCall, settling,
                 performed, stops>>

Delayed(n) ==
  /\ worker[n] = "delaying"
  /\ delays' = delays \ {n}
  /\ WorkerGoes(n, "arming")
  /\ UNCHANGED <<graph, inst, stored, execution, up, task, batch, signalled, delayCall,
                 settling, performed, stops>>

ArmDelay(n) ==
  /\ worker[n] = "arming"
  /\ delays' = delays \cup {n}
  /\ WorkerGoes(n, "waiting")
  /\ UNCHANGED <<graph, inst, stored, execution, up, task, batch, signalled, delayCall,
                 settling, performed, stops>>

(* The operation of the step is called. *)
Perform(n) ==
  /\ \/ worker[n] = "starting" /\ graph.kind[n] \notin {"delay", "feedback_gate"}
     \/ worker[n] = "asking"
  /\ Unsignalled(n)
  /\ performed' = [performed EXCEPT ![n] = @ + 1]
  /\ WorkerGoes(n, "performing")
  /\ UNCHANGED <<graph, inst, stored, execution, up, task, batch, signalled, delays, delayCall,
                 settling, stops>>

(* #markWaiting, before a person is asked: an instance that has ended keeps its *)
(* status.                                                                      *)
Ask(n) ==
  /\ worker[n] = "starting" /\ graph.kind[n] = "feedback_gate"
  /\ Unsignalled(n) /\ ~IsTerminal
  /\ Save([SetState(inst, n, "waiting") EXCEPT !.status = "waiting"])
  /\ WorkerGoes(n, "asking")
  /\ UNCHANGED <<graph, execution, up, task, batch, signalled, delays, delayCall, settling,
                 performed, stops>>

(* The signal of the step ends its wait, or the instance has ended under it.    *)
Abandon(n) ==
  /\ \/ worker[n] = "starting" /\ graph.kind[n] # "delay"
     \/ worker[n] \in {"asking", "performing"}
  /\ \/ n \in signalled /\ WorkerGoes(n, "threw")
     \/ Unsignalled(n) /\ IsTerminal /\ WorkerGoes(n, "terminal")
  /\ UNCHANGED <<graph, inst, stored, execution, up, task, batch, signalled, delays, delayCall,
                 settling, performed, stops>>

(* #decideOutgoingEdges: a branch chooses by its condition. *)
Decided(n) ==
  IF graph.kind[n] = "branch"
  THEN {{e \in Out(n) : e.on \in {"any", side}} : side \in {"true", "false"}}
  ELSE {Out(n)}

Returned(n) ==
  /\ worker[n] = "performing" /\ Unsignalled(n) /\ ~IsTerminal
  /\ \E chosen \in Decided(n) :
       Save(SetEdges(Refresh(SetState(inst, n, "completed")), chosen, Out(n)))
  /\ WorkerGoes(n, "storing")
  /\ UNCHANGED <<graph, execution, up, task, batch, signalled, delays, delayCall, settling,
                 performed, stops>>

(* An error or the timeout of the step, #handleNodeError. *)
NodeFails(n) ==
  /\ worker[n] = "performing" /\ Unsignalled(n) /\ ~IsTerminal
  /\ LET r == Refresh(inst)
     IN  IF inst.attempts[n] < graph.attempts[n]
         THEN /\ Save([SetState(r, n, "pending") EXCEPT !.forced = inst.forced \cup {n}])
              /\ WorkerGoes(n, "storing")
         ELSE IF n \in graph.skips
         THEN /\ Save(SetEdges(SetState(r, n, "skipped"), Out(n), Out(n)))
              /\ WorkerGoes(n, "storing")
         ELSE Save(SetState(r, n, "failed")) /\ WorkerGoes(n, "failing")
  /\ UNCHANGED <<graph, execution, up, task, batch, signalled, delays, delayCall, settling,
                 performed, stops>>

(* A prompt called again in an attempt from before a restart, of which the      *)
(* gateway knows that it was sent and not what came of it: no attempt is left.  *)
PromptUncertain(n) ==
  /\ worker[n] = "performing" /\ Unsignalled(n) /\ ~IsTerminal
  /\ graph.kind[n] = "invoke_prompt" /\ performed[n] > inst.attempts[n]
  /\ inst' = [SetState(inst, n, "failed") EXCEPT !.status = "failed"]
  /\ AbortTask
  /\ settling' = [settling EXCEPT !["failed"] = "begun"]
  /\ WorkerGoes(n, "settling")
  /\ UNCHANGED <<graph, stored, execution, up, task, batch, delays, delayCall, performed, stops>>

(* The write is over.  The end step completes the instance.                     *)
Stored(n) ==
  /\ worker[n] = "storing"
  /\ IF graph.kind[n] # "end" \/ inst.state[n] # "completed"
     THEN WorkerGoes(n, "continue") /\ UNCHANGED <<inst, settling>>
     ELSE IF IsTerminal
     THEN WorkerGoes(n, "terminal") /\ UNCHANGED <<inst, settling>>
     ELSE /\ inst' = [inst EXCEPT !.status = "completed"]
          /\ settling' = [settling EXCEPT !["completed"] = "begun"]
          /\ WorkerGoes(n, "settling")
  /\ UNCHANGED <<graph, stored, execution, up, task, batch, signalled, delays, delayCall,
                 performed, stops>>

(* A delay's timer: its step is completed and the instance spawned again. *)
DelayFires(n) ==
  /\ n \in delays
  /\ delays' = delays \ {n}
  /\ IF IsTerminal \/ inst.state[n] # "waiting"
     THEN UNCHANGED <<inst, stored, delayCall>>
     ELSE /\ Save(SetEdges(Refresh(SetState(inst, n, "completed")), Out(n), Out(n)))
          /\ delayCall' = delayCall \cup {n}
  /\ UNCHANGED <<graph, execution, up, task, batch, worker, signalled, settling, performed,
                 stops>>

DelayEnds(n) ==
  /\ n \in delayCall
  /\ delayCall' = delayCall \ {n}
  /\ UNCHANGED inst
  /\ Spawn
  /\ UNCHANGED <<graph, stored, execution, up, batch, worker, delays, settling, performed,
                 stops>>

(******************************* How it ends **********************************)

(* #fail, called by a step or for what #execute has thrown: once. *)
StepFails(n) ==
  /\ worker[n] = "failing"
  /\ IF IsTerminal
     THEN WorkerGoes(n, "terminal") /\ UNCHANGED <<inst, signalled, settling>>
     ELSE /\ inst' = [inst EXCEPT !.status = "failed"]
          /\ AbortTask
          /\ settling' = [settling EXCEPT !["failed"] = "begun"]
          /\ WorkerGoes(n, "settling")
  /\ UNCHANGED <<graph, stored, execution, up, task, batch, delays, delayCall, performed, stops>>

TaskFails ==
  /\ task = "failing" /\ settling["failed"] = "idle"
  /\ IF IsTerminal
     THEN task' = "ending" /\ UNCHANGED <<inst, signalled, settling>>
     ELSE /\ inst' = [inst EXCEPT !.status = "failed"]
          /\ AbortTask
          /\ settling' = [settling EXCEPT !["failed"] = "begun"]
          /\ UNCHANGED task
  /\ UNCHANGED <<graph, stored, execution, up, batch, worker, delays, delayCall, performed,
                 stops>>

CancelInstance ==
  /\ up /\ inst.status \in Active /\ settling["cancelled"] = "idle"
  /\ inst' = [inst EXCEPT !.status = "cancelled"]
  /\ AbortTask
  /\ settling' = [settling EXCEPT !["cancelled"] = "delays"]
  /\ UNCHANGED <<graph, stored, execution, up, task, batch, worker, delays, delayCall,
                 performed, stops>>

CancelDelays ==
  /\ settling["cancelled"] = "delays"
  /\ delays' = {}
  /\ settling' = [settling EXCEPT !["cancelled"] = "begun"]
  /\ UNCHANGED <<graph, inst, stored, execution, up, task, batch, worker, signalled, delayCall,
                 performed, stops>>

BrokenPersistClosing(o) ==
  /\ settling[o] = "begun"
  /\ inst' = [inst EXCEPT !.closing = o]
  /\ settling' = [settling EXCEPT ![o] = "stored"]
  /\ UNCHANGED <<graph, stored, execution, up, task, batch, worker, signalled, delays,
                 delayCall, performed, stops>>

(* #persistAndCloseExecution: the record with what is to be closed, the         *)
(* execution, and the record without it.                                        *)
PersistClosing(o) ==
  /\ settling[o] = "begun"
  /\ Save([inst EXCEPT !.closing = o])
  /\ settling' = [settling EXCEPT ![o] = "stored"]
  /\ UNCHANGED <<graph, execution, up, task, batch, worker, signalled, delays, delayCall,
                 performed, stops>>

CloseExecution(o) ==
  /\ settling[o] = "stored" /\ execution \in {"open", o}
  /\ execution' = o
  /\ settling' = [settling EXCEPT ![o] = "closed"]
  /\ UNCHANGED <<graph, inst, stored, up, task, batch, worker, signalled, delays, delayCall,
                 performed, stops>>

PersistClosed(o) ==
  /\ settling[o] = "closed"
  /\ Save([inst EXCEPT !.closing = "none"])
  /\ settling' = [settling EXCEPT ![o] = "cleared"]
  /\ UNCHANGED <<graph, execution, up, task, batch, worker, signalled, delays, delayCall,
                 performed, stops>>

(* Whoever ended the instance goes on; an execution that is closed with another *)
(* outcome refuses, and the record keeps what is to be closed.                  *)
SettlingEnds(o) ==
  /\ \/ settling[o] = "cleared"
     \/ settling[o] = "stored" /\ execution \notin {"open", o}
  /\ settling' = [settling EXCEPT ![o] = "idle"]
  /\ worker' = [n \in Step |->
       IF worker[n] = "settling" /\ o = (IF graph.kind[n] = "end" /\ inst.state[n] = "completed"
                                         THEN "completed" ELSE "failed")
       THEN IF settling[o] = "cleared" \/ (o = "completed" /\ Unsignalled(n))
            THEN "terminal" ELSE "threw"
       ELSE worker[n]]
  /\ task' = IF o = "failed" /\ task = "failing" THEN "ending" ELSE task
  /\ up' = (up \/ (o = "interrupted" /\ settling[o] = "cleared"))
  /\ UNCHANGED <<graph, inst, stored, execution, batch, signalled, delays, delayCall,
                 performed, stops>>

(***************************** Crash and recovery *****************************)

(* The process ends: what is left is the store. *)
Stop ==
  /\ stops < MaxStops
  /\ stops' = stops + 1
  /\ up' = FALSE /\ inst' = stored /\ task' = "none" /\ delays' = {}
  /\ Quiet(Step)
  /\ UNCHANGED <<graph, stored, execution, performed>>

Idle == \A o \in Outcome : settling[o] = "idle"

(* initialize: a close that was under way is finished first. *)
FinishClose ==
  /\ ~up /\ Idle /\ inst.closing # "none" /\ execution \in {"open", inst.closing}
  /\ execution' = inst.closing
  /\ Save([inst EXCEPT !.closing = "none"])
  /\ UNCHANGED <<graph, engineVars, performed, stops>>

BrokenIndeterminate == {}

(* A tool call that was under way: whether it took effect nobody knows. *)
Indeterminate == {n \in Step : inst.state[n] = "running" /\ graph.kind[n] = "call_tool"}

Recovering == ~up /\ Idle /\ inst.closing = "none" /\ inst.status \in Active

(* #recover fails the instance with an indeterminate step. *)
Interrupt ==
  /\ Recovering
  /\ \E n \in Indeterminate :
       inst' = [SetState(inst, n, "failed") EXCEPT !.status = "failed"]
  /\ settling' = [settling EXCEPT !["interrupted"] = "begun"]
  /\ UNCHANGED <<graph, stored, execution, up, task, batch, worker, signalled, delays,
                 delayCall, performed, stops>>

BrokenLost == {n \in Step : inst.state[n] = "running"}

(* Steps whose work is lost with the process and begins again. *)
Lost ==
  {n \in Step : \/ inst.state[n] = "running"
                \/ inst.state[n] = "waiting" /\ graph.kind[n] # "delay"}

(* Otherwise delays are armed again; a prompt keeps its attempt, by which the   *)
(* gateway knows its request.                                                   *)
Recover ==
  /\ Recovering /\ Indeterminate = {}
  /\ LET waiting == {n \in Step : inst.state[n] = "waiting" /\ graph.kind[n] = "delay"}
         prompts == {n \in Lost : graph.kind[n] = "invoke_prompt"}
     IN  /\ Save([inst EXCEPT
              !.state = [n \in Step |-> IF n \in Lost THEN "pending" ELSE inst.state[n]],
              !.forced = inst.forced \cup Lost,
              !.preserved = inst.preserved \cup prompts,
              !.status = IF waiting = {} THEN "running" ELSE "waiting"])
         /\ delays' = waiting
         /\ IF waiting = {} \/ inst'.forced # {} THEN Spawn ELSE UNCHANGED <<task, signalled>>
  /\ up' = TRUE
  /\ UNCHANGED <<graph, execution, batch, worker, delayCall, settling, performed, stops>>

Initialized ==
  /\ ~up /\ Idle /\ inst.closing = "none" /\ IsTerminal
  /\ up' = TRUE
  /\ UNCHANGED <<graph, inst, stored, execution, task, batch, worker, signalled, delays,
                 delayCall, settling, performed, stops>>

(******************************* Specification ********************************)

TaskStep == Around \/ Choose \/ ChooseNothing \/ Leave \/ TaskEnds \/ TaskFails

WorkerStep(n) ==
  \/ StartDelay(n) \/ Delayed(n) \/ ArmDelay(n) \/ Perform(n) \/ Ask(n) \/ Abandon(n)
  \/ Returned(n) \/ NodeFails(n) \/ PromptUncertain(n) \/ Stored(n) \/ StepFails(n)

SettlingStep(o) ==
  PersistClosing(o) \/ CloseExecution(o) \/ PersistClosed(o) \/ SettlingEnds(o)

RecoveryStep == FinishClose \/ Interrupt \/ Recover \/ Initialized

GraphNext ==
  \/ TaskStep \/ CancelInstance \/ CancelDelays \/ Stop \/ RecoveryStep
  \/ \E n \in Step : WorkerStep(n) \/ DelayFires(n) \/ DelayEnds(n)
  \/ \E o \in Outcome : SettlingStep(o)

(* The engine goes on with what it awaits; tools, models and persons answer and *)
(* timers fire.  Nobody has to cancel, and the process need not stop.           *)
GraphFairness ==
  /\ WF_graphVars(TaskStep) /\ WF_graphVars(CancelDelays) /\ WF_graphVars(RecoveryStep)
  /\ \A o \in Outcome : WF_graphVars(SettlingStep(o))
  /\ \A n \in UNION {DOMAIN g.kind : g \in Graphs} :
       /\ WF_graphVars(n \in Step /\ WorkerStep(n))
       /\ WF_graphVars(n \in Step /\ (DelayFires(n) \/ DelayEnds(n)))

GraphSpec == GraphInit /\ [][GraphNext]_graphVars /\ GraphFairness

(********************************* Properties *********************************)

Delays == {n \in Step : graph.kind[n] = "delay"}

(* A tool is called, and a prompt numbered anew, at most as often as the error  *)
(* strategy of its step allows, counted over failures, timeouts and restarts at *)
(* any moment; a prompt that is sent again after a restart keeps its number     *)
(* (#executeNode 1797-1803, #recover 1476-1555).                                *)
StepsAreNotReplayed ==
  \A n \in Step :
    /\ graph.kind[n] = "call_tool" => performed[n] <= graph.attempts[n]
    /\ graph.kind[n] = "invoke_prompt" => inst.attempts[n] <= graph.attempts[n]

(* In a graph without delays a closed execution belongs to an instance that is  *)
(* stored as ended in the same way, also after a restart between the writes.    *)
ClosedIsStored ==
  (Delays = {} /\ execution # "open") =>
    stored.status = IF execution = "interrupted" THEN "failed" ELSE execution

(* An instance without delays ends: no restart, cancel or failure leaves it     *)
(* with work to do and nobody to do it.                                         *)
GraphEnds == (Delays = {}) => <>[]IsTerminal

(* test/executor.test.ts:1062 "does not resurrect a cancelled graph while an    *)
(* agent starts": the same of any step.                                         *)
NotResurrected ==
  [][(inst.status = "cancelled" /\ stops' = stops) => inst'.status = "cancelled"]_graphVars
==============================================================================
