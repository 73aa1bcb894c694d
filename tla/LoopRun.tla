------------------------------- MODULE LoopRun -------------------------------
(* One run of LoopManager, packages/kernel/src/loop-manager.ts: #execute from   *)
(* bind to its close, with pause, resume and cancel by its callers, and the     *)
(* subscriber to the interaction service that shows the run as waiting.         *)
(*                                                                              *)
(* Every await is a step boundary.  Lists of pending interactions are delivered *)
(* in microtasks, so the subscriber may see an old list and a newer run.        *)
(* Operators named Broken... are plausible defects of the definition below      *)
(* them; no action uses one.                                                    *)
EXTENDS Integers, Sequences

CONSTANTS MaxTurns,      \* bound: turns of the loop (eight in the code)
          MaxCalls,      \* bound: tool calls of one completion
          MaxPublished   \* bound: undelivered lists when one more is published

VARIABLES status,        \* snapshot.status
          aborted,       \* controller.signal
          pauseRequested,
          parked,        \* inside waitAtSafePoint: "no", "parked" or "woken"
          pc,            \* where #execute is
          turn,
          calls,         \* tool calls of the completion still to be made
          owns,          \* ownsExecution
          execution,     \* of the run; "refused": still open, its close has failed
          policy,        \* run.toolPolicy
          opened,        \* interactions the current model or tool call opened
          pending,       \* the run's pending interactions
          published      \* lists of pending interactions not yet delivered

control == <<aborted, pauseRequested, parked>>
place == <<pc, turn, calls, opened>>
asked == <<pending, published>>
vars == <<status, control, place, owns, execution, policy, asked>>

Live == {"running", "waiting", "paused"}

Terminal == {"completed", "failed", "cancelled"}

(* A model stage asks about "policy"; a tool call is asked about as "approval", *)
(* and its tool may ask a human a "question".                                   *)
Interaction == [kind : {"policy", "approval", "question"},
                turn : 1 .. MaxTurns, call : 0 .. MaxCalls]

SafePoint == {"before_model", "after_model", "before_tool"}

PC == SafePoint \cup {"bind", "bound", "prepare", "model", "tool", "closing", "closed",
                      "catch", "closing_cancelled", "closing_failed", "done"}

ASSUME RunAssumption == MaxTurns \in Nat \ {0} /\ MaxCalls \in Nat \ {0}
                        /\ MaxPublished \in Nat \ {0}

(* start: an owner that aborted while the prompt was assembled gets a run that  *)
(* is cancelled and never executes.                                             *)
Init ==
  /\ aborted \in BOOLEAN
  /\ status = IF aborted THEN "cancelled" ELSE "running"
  /\ pc = IF aborted THEN "done" ELSE "bind"
  /\ pauseRequested = FALSE
  /\ parked = "no"
  /\ turn = 1
  /\ calls = 0
  /\ owns \in BOOLEAN
  /\ execution = "none"
  /\ policy = "none"
  /\ opened = {}
  /\ pending = {}
  /\ published = <<>>

(* #update: a terminal snapshot is never patched, and reaching one disposes the *)
(* tool policy that is registered by then.                                      *)
Update(new) ==
  IF status \in Terminal
  THEN UNCHANGED <<status, policy>>
  ELSE /\ status' = new
       /\ policy' = IF new \in Terminal /\ policy = "registered" THEN "disposed" ELSE policy

(****************************** Setting up ******************************)

(* executions.bind; a run that was cancelled meanwhile is caught with its       *)
(* execution in hand.                                                           *)
Bind ==
  /\ pc = "bind"
  /\ \/ /\ execution' = "open"
        /\ pc' = IF aborted THEN "catch" ELSE "bound"
     \/ /\ pc' = "catch"
        /\ UNCHANGED execution
  /\ UNCHANGED <<status, control, turn, calls, opened, owns, policy, asked>>

(* execution.summary, then registerRunPolicy. *)
RegisterPolicy ==
  /\ pc = "bound"
  /\ \/ /\ ~aborted
        /\ pc' = "prepare"
        /\ policy' = "registered"
     \/ /\ pc' = "catch"
        /\ UNCHANGED policy
  /\ UNCHANGED <<status, control, turn, calls, opened, owns, execution, asked>>

(* prepareRun, which fails once the policy is disposed. *)
PrepareRun ==
  /\ pc = "prepare"
  /\ pc' \in IF policy = "disposed" THEN {"catch"} ELSE {"before_model", "catch"}
  /\ UNCHANGED <<status, control, turn, calls, opened, owns, execution, policy, asked>>

(***************************** waitAtSafePoint *****************************)

Park ==
  /\ pc \in SafePoint /\ parked = "no"
  /\ ~aborted /\ pauseRequested
  /\ Update("paused")
  /\ parked' = "parked"
  /\ UNCHANGED <<aborted, pauseRequested, place, owns, execution, asked>>

(* The promise of waitAtSafePoint has resolved. *)
Through == \/ parked = "woken"
           \/ (parked = "no" /\ (aborted \/ ~pauseRequested))

(* What follows each safe point; a completion has tool calls, content or, which *)
(* throws, neither.  A run that may not invoke tools throws at its first one.   *)
Follows(point) ==
  CASE point = "before_model" -> {<<"model", 0>>}
    [] point = "after_model"  -> {<<"before_tool", n>> : n \in 1 .. MaxCalls}
                                 \cup {<<"closing", 0>>, <<"catch", 0>>}
    [] point = "before_tool"  -> {<<"tool", calls>>, <<"catch", 0>>}

Pass ==
  /\ pc \in SafePoint
  /\ Through
  /\ parked' = "no"
  /\ IF aborted
     THEN pc' = "catch" /\ calls' = 0 /\ UNCHANGED <<status, policy>>
     ELSE /\ \E next \in Follows(pc) : pc' = next[1] /\ calls' = next[2]
          /\ IF parked = "woken" \/ pc = "before_model"
             THEN Update("running") ELSE UNCHANGED <<status, policy>>
  /\ UNCHANGED <<aborted, pauseRequested, turn, opened, owns, execution, asked>>

(*************************** The model and the tools ***************************)

(* A new interaction is published first; then onPolicyWait or onInteraction     *)
(* announces the wait.  Nothing announces a question.  A call is asked about    *)
(* once: before it is made, or for its result, after what its tool has asked.   *)
Ask ==
  /\ pc \in {"model", "tool"} /\ ~aborted
  /\ Len(published) < MaxPublished
  /\ \E kind \in IF pc = "model" THEN {"policy"} ELSE {"approval", "question"} :
       LET new == [kind |-> kind, turn |-> turn, call |-> calls]
       IN  /\ new \notin opened
           /\ opened' = opened \cup {new}
           /\ pending' = pending \cup {new}
           /\ IF kind = "question" THEN UNCHANGED <<status, policy>> ELSE Update("waiting")
  /\ published' = Append(published, pending')
  /\ UNCHANGED <<control, pc, turn, calls, owns, execution>>

(* What complete and invoke wait for; a tool may leave its question behind. *)
Answered == \A i \in opened \cap pending : i.kind = "question"

(* The completion arrives, or completing throws. *)
ModelEnds ==
  /\ pc = "model" /\ Answered
  /\ pc' \in {"after_model", "catch"}
  /\ opened' = {}
  /\ UNCHANGED <<status, control, turn, calls, owns, execution, policy, asked>>

(* The tool answers, or is refused or fails. *)
ToolEnds ==
  /\ pc = "tool" /\ Answered
  /\ opened' = {}
  /\ \/ /\ ~aborted
        /\ Update("running")
        /\ calls' = calls - 1
        /\ IF calls > 1
           THEN pc' = "before_tool" /\ UNCHANGED turn
           ELSE IF turn < MaxTurns
                THEN pc' = "before_model" /\ turn' = turn + 1
                ELSE pc' = "catch" /\ UNCHANGED turn
     \/ /\ pc' = "catch"
        /\ calls' = 0
        /\ UNCHANGED <<status, policy, turn>>
  /\ UNCHANGED <<control, owns, execution, asked>>

(********************************** The end **********************************)

CanClose == owns /\ execution \in {"open", "refused"}

(* closeOwnedExecution: nothing to close, closed, or refused by the store. *)
Close(outcome) ==
  IF CanClose THEN execution' \in {outcome, "refused"} ELSE UNCHANGED execution

(* The await of closeOwnedExecution("completed"); its continuation is Complete. *)
CloseCompleted ==
  /\ pc = "closing"
  /\ Close("completed")
  /\ pc' = IF execution' = "refused" THEN "catch" ELSE "closed"
  /\ UNCHANGED <<status, control, turn, calls, opened, owns, policy, asked>>

Complete ==
  /\ pc = "closed"
  /\ Update("completed")
  /\ pc' = "done"
  /\ UNCHANGED <<control, turn, calls, opened, owns, execution, asked>>

(* The catch block: a run that is aborted is cancelled, any other has failed. *)
Catch ==
  /\ pc = "catch"
  /\ IF aborted
     THEN /\ Update("cancelled")
          /\ pc' = "closing_cancelled"
     ELSE /\ Update("failed")
          /\ pc' = "closing_failed"
  /\ UNCHANGED <<control, turn, calls, opened, owns, execution, asked>>

BrokenCloseCaught ==
  /\ pc \in {"closing_cancelled", "closing_failed"}
  /\ IF pc = "closing_failed" THEN Close("failed") ELSE UNCHANGED execution
  /\ pc' = "done"
  /\ UNCHANGED <<status, control, turn, calls, opened, owns, policy, asked>>

(* A refused close here ends #execute with the execution open. *)
CloseCaught ==
  /\ pc \in {"closing_cancelled", "closing_failed"}
  /\ Close(IF pc = "closing_failed" THEN "failed" ELSE "cancelled")
  /\ pc' = "done"
  /\ UNCHANGED <<status, control, turn, calls, opened, owns, policy, asked>>

(******************************* The callers *******************************)

Woken == IF parked = "parked" THEN "woken" ELSE parked

Pause ==
  /\ status \in {"running", "waiting"}
  /\ pauseRequested' = TRUE
  /\ UNCHANGED <<status, policy, aborted, parked, place, owns, execution, asked>>

BrokenResume ==
  /\ pauseRequested
  /\ pauseRequested' = FALSE
  /\ UNCHANGED <<status, aborted, parked, place, owns, execution, policy, asked>>

Resume ==
  /\ pauseRequested \/ status = "paused"
  /\ pauseRequested' = FALSE
  /\ parked' = Woken
  /\ UNCHANGED <<status, aborted, place, owns, execution, policy, asked>>

(* The signal of the run ends its approvals; a question has the signal of the   *)
(* plugin that asks.                                                            *)
Withdraw ==
  /\ pending' = {i \in pending : i.kind = "question"}
  /\ published' = IF pending' = pending THEN published ELSE Append(published, pending')

BrokenCancel ==
  /\ status \in Live
  /\ pauseRequested' = FALSE
  /\ aborted' = TRUE
  /\ Withdraw
  /\ Update("cancelled")
  /\ UNCHANGED <<parked, place, owns, execution>>

(* cancel, by a caller or by the abort of the owner's signal. *)
Cancel ==
  /\ status \in Live
  /\ pauseRequested' = FALSE
  /\ parked' = Woken
  /\ aborted' = TRUE
  /\ Withdraw
  /\ Update("cancelled")
  /\ UNCHANGED <<place, owns, execution>>

BrokenRespond ==
  /\ \E i \in pending : pending' = pending \ {i}
  /\ UNCHANGED <<status, control, place, owns, execution, policy, published>>

(* An answer, or the timeout or the abort of a question. *)
Respond ==
  /\ \E i \in pending : pending' = pending \ {i}
  /\ published' = Append(published, pending')
  /\ UNCHANGED <<status, control, place, owns, execution, policy>>

(* The list is also published when an interaction of another run changes. *)
Others ==
  /\ Len(published) < MaxPublished
  /\ published' = Append(published, pending)
  /\ UNCHANGED <<status, control, place, owns, execution, policy, pending>>

(* belongsToActiveTool; a model stage gives its execution for its run, and so   *)
(* belongs to none.                                                             *)
OfActiveTool(i) == pc = "tool" /\ i.turn = turn /\ i.call = calls /\ i.kind # "policy"

(* The subscriber sees the list as it was when it was published, and the run as *)
(* it is.                                                                       *)
Deliver ==
  /\ published # <<>>
  /\ published' = Tail(published)
  /\ IF status \in {"running", "waiting"}
     THEN Update(IF \E i \in Head(published) : OfActiveTool(i) THEN "waiting" ELSE "running")
     ELSE UNCHANGED <<status, policy>>
  /\ UNCHANGED <<control, place, owns, execution, pending>>

Execute == \/ Bind \/ RegisterPolicy \/ PrepareRun
           \/ Park \/ Pass
           \/ ModelEnds \/ ToolEnds
           \/ CloseCompleted \/ Complete \/ Catch \/ CloseCaught

Next == \/ Execute \/ Ask
        \/ Pause \/ Resume \/ Cancel \/ Respond \/ Others \/ Deliver

Spec == Init /\ [][Next]_vars

(* The event loop runs what is ready, models and tools end, lists are delivered *)
(* and interactions are answered; nobody has to resume a paused run.            *)
FairSpec == Spec /\ WF_vars(Execute) /\ WF_vars(Deliver) /\ WF_vars(Respond)

(******************************** Properties ********************************)

(* Every variable keeps to its set of values. *)
TypeOK ==
  /\ status \in Live \cup Terminal
  /\ aborted \in BOOLEAN
  /\ pauseRequested \in BOOLEAN
  /\ parked \in {"no", "parked", "woken"}
  /\ pc \in PC
  /\ turn \in 1 .. MaxTurns
  /\ calls \in 0 .. MaxCalls
  /\ owns \in BOOLEAN
  /\ execution \in {"none", "open", "refused"} \cup Terminal
  /\ policy \in {"none", "registered", "disposed"}
  /\ opened \in SUBSET Interaction
  /\ pending \in SUBSET Interaction
  /\ published \in Seq(SUBSET Interaction)

(* A run whose #execute has returned is in a terminal state, holds no tool      *)
(* policy and has closed the execution it owns, unless the store refused that;  *)
(* a run that reads completed or failed closed its execution as such.           *)
FinishedIsClosed ==
  pc = "done" =>
    /\ status \in Terminal
    /\ policy # "registered"
    /\ owns => execution # "open"
    /\ status # "cancelled" => execution \in {"none", "open", "refused", status}

(* Once the subscriber has caught up, a run shows waiting only while something  *)
(* its current tool call asked is unanswered.                                   *)
WaitingIsReal ==
  status = "waiting" /\ published = <<>> =>
    \E i \in pending : i.turn = turn /\ i.kind # "policy"

(* A cancelled run comes to its end, wherever cancel found it: parked, waiting  *)
(* for an answer or inside a model or tool call.                                *)
CancelEnds == aborted ~> pc = "done"

(* Every run ends unless it stays paused: a resume is never lost. *)
RunEnds == <>(pc = "done") \/ <>[]pauseRequested

==============================================================================
