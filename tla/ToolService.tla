----------------------------- MODULE ToolService -----------------------------
(* packages/kernel/src/tool-service.ts: the registry of static tools and of    *)
(* tool providers, the policy of each run with the catalogs prepared for it,   *)
(* and invoke(), from the caller's first check to the reviewed result.         *)
(*                                                                             *)
(* Every await is a step boundary: the plugin that owns a tool may be          *)
(* deactivated, the run released, the caller's signal aborted and the          *)
(* classification raised between any two steps of an invocation.  A catalog    *)
(* offers one tool.  A level stands for a classification of the run together   *)
(* with its version, which moves exactly when the level does.  What the        *)
(* authorizer and the scanners decide is left open (TrustAuthorizer).          *)
EXTENDS Integers

CONSTANTS Static,        \* registrations of static tools
          Provider,      \* registrations of tool providers
          Tool,          \* tool ids
          ToolOf,        \* the tool each registration or its catalog offers
          ProviderId,    \* the provider id of each provider registration
          Owner,         \* the plugin of each registration
          Output,        \* the classification of each registration's results
          Run,           \* runs, each with one policy in its life
          Call,          \* invocations
          MaxLevel,      \* the highest classification
          NoRun, NoTool, NoTarget

VARIABLES tools,         \* #tools: the registered static tools
          providers,     \* #providers: the registered tool providers
          removed,       \* registrations whose controller is aborted
          policies,      \* #runPolicies and the mark each keeps in the classification service
          preparing,     \* what the pending #preparePolicy of each run waits for
          handed,        \* history: <<run, provider>> of every catalog handed over
          closed,        \* #closedCatalogs
          execution,     \* the durable classification of each run's execution
          calls,         \* the local variables of each invocation
          returned       \* history: what callers got, and how often the user was asked

vars == <<tools, providers, removed, policies, preparing, handed, closed,
          execution, calls, returned>>

Registration == Static \cup Provider

Level == 1 .. MaxLevel

Policy == [state : {"none", "live", "released"}, prepared : BOOLEAN,
           bindings : [Tool -> Provider \cup {NoTarget}],
           leases : SUBSET Provider, level : Level]

PC == {"new", "resolve", "authorize", "grant", "commit", "running", "observe",
       "review", "done"}

Local == [pc : PC, run : Run \cup {NoRun}, tool : Tool \cup {NoTool},
          target : Registration \cup {NoTarget},
          seen : Level,          \* the durable classification last read
          approved : Level,      \* the level the approval was given at
          prompts : 0 .. 1, aborted : BOOLEAN]

ASSUME ToolAssumption ==
  /\ MaxLevel \in Nat \ {0}
  /\ Static \cap Provider = {}
  /\ ToolOf \in [Registration -> Tool]
  /\ Output \in [Registration -> Level]
  /\ DOMAIN Owner = Registration
  /\ DOMAIN ProviderId = Provider
  /\ NoRun \notin Run
  /\ NoTarget \notin Registration

Higher(a, b) == IF a > b THEN a ELSE b

Idle(pc) == [pc |-> pc, run |-> NoRun, tool |-> NoTool, target |-> NoTarget, seen |-> 1,
             approved |-> 1, prompts |-> 0, aborted |-> FALSE]

Init ==
  /\ tools = {}
  /\ providers = {}
  /\ removed = {}
  /\ policies = [r \in Run |->
       [state |-> "none", prepared |-> FALSE, bindings |-> [t \in Tool |-> NoTarget],
        leases |-> {}, level |-> 1]]
  /\ preparing = [r \in Run |-> {}]
  /\ handed = {}
  /\ closed = {}
  /\ execution = [r \in Run |-> 1]
  /\ calls = [c \in Call |-> Idle("new")]
  /\ returned = {}

Live(r) == policies[r].state = "live"

(******************************* The registry *******************************)

register(s) ==
  /\ s \notin tools \cup removed
  /\ \A other \in tools : ToolOf[other] # ToolOf[s]
  /\ tools' = tools \cup {s}
  /\ UNCHANGED <<providers, removed, policies, preparing, handed, closed, execution,
                 calls, returned>>

registerProvider(p) ==
  /\ p \notin providers \cup removed
  /\ \A other \in providers : ProviderId[other] # ProviderId[p]
  /\ providers' = providers \cup {p}
  /\ UNCHANGED <<tools, removed, policies, preparing, handed, closed, execution,
                 calls, returned>>

(* The entries go, their controllers are aborted, and every policy loses what   *)
(* the providers had prepared for it.                                           *)
Unregister(gone) ==
  /\ tools' = tools \ gone
  /\ providers' = providers \ gone
  /\ removed' = removed \cup gone
  /\ policies' = [r \in Run |-> [policies[r] EXCEPT
       !.bindings = [t \in Tool |-> IF policies[r].bindings[t] \in gone
                                    THEN NoTarget ELSE policies[r].bindings[t]],
       !.leases = policies[r].leases \ gone]]
  /\ closed' = closed \cup {x \in Run \X gone : x[2] \in policies[x[1]].leases}
  /\ UNCHANGED <<preparing, handed, execution, calls, returned>>

Registered == tools \cup providers

Dispose(x) == x \in Registered /\ Unregister({x})

removePlugin(plugin) ==
  LET owned == {x \in Registered : Owner[x] = plugin} IN
    owned # {} /\ Unregister(owned)

(******************************* Run policies *******************************)

registerRunPolicy(r) ==
  /\ policies[r].state = "none"
  /\ policies' = [policies EXCEPT ![r].state = "live"]
  /\ UNCHANGED <<tools, providers, removed, preparing, handed, closed, execution,
                 calls, returned>>

disposePolicy(r) ==
  /\ Live(r)
  /\ policies' = [policies EXCEPT
       ![r].state = "released", ![r].leases = {},
       ![r].bindings = [t \in Tool |-> NoTarget]]
  /\ closed' = closed \cup {<<r, p>> : p \in policies[r].leases}
  /\ UNCHANGED <<tools, providers, removed, preparing, handed, execution, calls, returned>>

(* bindExecutionClassification raises the run's mark to the summary it is given. *)
Marked(r, level) ==
  [policies EXCEPT ![r].level = Higher(policies[r].level, level)]

(* The owner binds the execution before it prepares its run. *)
bindExecutionClassification(r) ==
  /\ Live(r)
  /\ policies' = Marked(r, execution[r])
  /\ UNCHANGED <<tools, providers, removed, preparing, handed, closed, execution,
                 calls, returned>>

(******************************* Preparation ********************************)

(* Concurrent callers share one preparation.  It asks the registered providers  *)
(* one after the other; in which order is left open.                            *)
prepareRun(r) ==
  /\ Live(r)
  /\ ~policies[r].prepared
  /\ preparing[r] = {}
  /\ preparing' = [preparing EXCEPT ![r] = providers]
  /\ policies' = [policies EXCEPT ![r].prepared = (providers = {})]
  /\ UNCHANGED <<tools, providers, removed, handed, closed, execution, calls, returned>>

(* After one answer the preparation goes on with the other providers, and ends  *)
(* with the last one or with its run.                                           *)
GoesOn(r, p) ==
  preparing' = [preparing EXCEPT ![r] = IF Live(r) THEN preparing[r] \ {p} ELSE {}]

Prepared(r, p) == Live(r) /\ preparing[r] = {p}

(* #acceptCatalog: a definition is turned down when its id is taken, but its    *)
(* catalog stays leased.                                                        *)
Accepted(r, p) ==
  LET policy == policies[r]
      tool == ToolOf[p]
      free == policy.bindings[tool] = NoTarget /\ \A s \in tools : ToolOf[s] # tool
      target == IF free THEN p ELSE policy.bindings[tool]
  IN [policies EXCEPT ![r] = [policy EXCEPT
        !.leases = policy.leases \cup {p},
        !.bindings = [policy.bindings EXCEPT ![tool] = target],
        !.prepared = Prepared(r, p)]]

(* Operators named Broken... are plausible defects of the definition below      *)
(* them; no action uses one.                                                    *)
BrokenCatalogArrives(r, p) ==
  /\ p \in preparing[r]
  /\ handed' = handed \cup {<<r, p>>}
  /\ IF Live(r)
     THEN closed' = closed /\ policies' = Accepted(r, p)
     ELSE closed' = closed \cup {<<r, p>>} /\ policies' = policies
  /\ GoesOn(r, p)
  /\ UNCHANGED <<tools, providers, removed, execution, calls, returned>>

(* The provider's prepare resolves.  A released run ends the preparation; a     *)
(* provider removed meanwhile is passed over; both catalogs are closed.         *)
CatalogArrives(r, p) ==
  /\ p \in preparing[r]
  /\ handed' = handed \cup {<<r, p>>}
  /\ IF Live(r) /\ p \notin removed
     THEN closed' = closed /\ policies' = Accepted(r, p)
     ELSE /\ closed' = closed \cup {<<r, p>>}
          /\ policies' = [policies EXCEPT ![r].prepared = Prepared(r, p)]
  /\ GoesOn(r, p)
  /\ UNCHANGED <<tools, providers, removed, execution, calls, returned>>

BrokenPrepareFails(r, p) ==
  /\ p \in preparing[r]
  /\ UNCHANGED <<handed, closed>>
  /\ policies' = policies
  /\ GoesOn(r, p)
  /\ UNCHANGED <<tools, providers, removed, execution, calls, returned>>

(* It rejects, or hands over a catalog that cannot execute and is closed. *)
PrepareFails(r, p) ==
  /\ p \in preparing[r]
  /\ \E catalog \in {{}, {<<r, p>>}} :
       handed' = handed \cup catalog /\ closed' = closed \cup catalog
  /\ policies' = [policies EXCEPT ![r].prepared = Prepared(r, p)]
  /\ GoesOn(r, p)
  /\ UNCHANGED <<tools, providers, removed, execution, calls, returned>>

(******************************** Invocation ********************************)

Active(c) == calls[c].pc \notin {"new", "done"}

At(c, pc) == calls[c].pc = pc

End(c) == calls' = [calls EXCEPT ![c] = Idle("done")]

(* isCurrent() *)
Current(c) ==
  /\ calls[c].run # NoRun => Live(calls[c].run)
  /\ IF calls[c].target \in Static
     THEN calls[c].target \in tools
     ELSE policies[calls[c].run].bindings[calls[c].tool] = calls[c].target

(* invocationSignal *)
Aborted(c) ==
  \/ calls[c].aborted
  \/ calls[c].target \in removed
  \/ (calls[c].run # NoRun /\ ~Live(calls[c].run))

(* The caller's beforeAuthorization and beforeCommit read the durable summary. *)
Durable(c, r) == IF r = NoRun THEN 1 ELSE execution[r]

invoke(c, r, t) ==
  /\ At(c, "new")
  /\ calls' = [calls EXCEPT ![c].pc = "resolve", ![c].run = r, ![c].tool = t,
                            ![c].seen = Durable(c, r)]
  /\ UNCHANGED <<tools, providers, removed, policies, preparing, handed, closed,
                 execution, returned>>

(* What the id stands for: a static tool before the run's own dynamic one. *)
Targets(c) ==
  LET static == {s \in tools : ToolOf[s] = calls[c].tool} IN
    IF static # {} THEN static
    ELSE IF calls[c].run = NoRun THEN {}
    ELSE {policies[calls[c].run].bindings[calls[c].tool]} \ {NoTarget}

(* #resolveInvocation and the snapshot the authorizer takes; the summary read   *)
(* before the await is bound first.                                             *)
Resolve(c) ==
  /\ At(c, "resolve")
  /\ LET r == calls[c].run IN
       IF r # NoRun /\ ~Live(r)
       THEN End(c) /\ UNCHANGED policies
       ELSE /\ policies' = IF r = NoRun THEN policies ELSE Marked(r, calls[c].seen)
            /\ IF Targets(c) = {}
               THEN End(c)
               ELSE \E target \in Targets(c) :
                      calls' = [calls EXCEPT
                        ![c].pc = "authorize", ![c].target = target,
                        ![c].approved = IF r = NoRun THEN 1 ELSE policies'[r].level]
  /\ UNCHANGED <<tools, providers, removed, preparing, handed, closed, execution, returned>>

(* The authorizer allows, with a prompt or without; then the signal and the     *)
(* registration are looked at again.                                            *)
Allow(c, prompts) ==
  /\ At(c, "authorize")
  /\ IF Aborted(c) \/ ~Current(c)
     THEN End(c)
     ELSE calls' = [calls EXCEPT ![c].pc = "grant", ![c].prompts = prompts]
  /\ UNCHANGED <<tools, providers, removed, policies, preparing, handed, closed,
                 execution, returned>>

Deny(c) ==
  /\ calls[c].pc \in {"authorize", "review"}
  /\ End(c)
  /\ UNCHANGED <<tools, providers, removed, policies, preparing, handed, closed,
                 execution, returned>>

(* The parent grant is made, and beforeCommit reads the summary again. *)
createParentGrant(c) ==
  /\ At(c, "grant")
  /\ calls' = [calls EXCEPT ![c].pc = "commit", ![c].seen = Durable(c, calls[c].run)]
  /\ UNCHANGED <<tools, providers, removed, policies, preparing, handed, closed,
                 execution, returned>>

BrokenCommit(c) ==
  /\ At(c, "commit")
  /\ LET r == calls[c].run IN
       IF r # NoRun /\ ~Live(r)
       THEN End(c) /\ UNCHANGED policies
       ELSE /\ policies' = IF r = NoRun THEN policies ELSE Marked(r, calls[c].seen)
            /\ IF Current(c)
               THEN calls' = [calls EXCEPT ![c].pc = "running"]
               ELSE End(c)
  /\ UNCHANGED <<tools, providers, removed, preparing, handed, closed, execution, returned>>

(* The summary is bound; the approval is good only for the level it was given   *)
(* at, and the tool must still be the one that was resolved.  The handler       *)
(* starts in the same step.                                                     *)
Commit(c) ==
  /\ At(c, "commit")
  /\ LET r == calls[c].run IN
       IF r # NoRun /\ ~Live(r)
       THEN End(c) /\ UNCHANGED policies
       ELSE /\ policies' = IF r = NoRun THEN policies ELSE Marked(r, calls[c].seen)
            /\ IF (r # NoRun => policies'[r].level = calls[c].approved) /\ Current(c)
               THEN calls' = [calls EXCEPT ![c].pc = "running"]
               ELSE End(c)
  /\ UNCHANGED <<tools, providers, removed, preparing, handed, closed, execution, returned>>

(* The handler resolves.  A result that nobody may have any more is dropped;    *)
(* any other raises the run's mark before it is looked at.                      *)
Result(c) ==
  /\ At(c, "running")
  /\ LET r == calls[c].run IN
       IF ~Current(c) \/ Aborted(c)
       THEN End(c) /\ UNCHANGED policies
       ELSE /\ policies' = IF r = NoRun THEN policies
                           ELSE [policies EXCEPT ![r].level =
                                   Higher(policies[r].level, Output[calls[c].target])]
            /\ calls' = [calls EXCEPT ![c].pc = IF r = NoRun THEN "review" ELSE "observe"]
  /\ UNCHANGED <<tools, providers, removed, preparing, handed, closed, execution, returned>>

BrokenObserve(c) ==
  /\ At(c, "observe")
  /\ calls' = [calls EXCEPT ![c].pc = "review"]
  /\ UNCHANGED <<tools, providers, removed, policies, preparing, handed, closed,
                 execution, returned>>

Observe(c) ==
  /\ At(c, "observe")
  /\ execution' = [execution EXCEPT ![calls[c].run] =
                     Higher(execution[calls[c].run], Output[calls[c].target])]
  /\ calls' = [calls EXCEPT ![c].pc = "review"]
  /\ UNCHANGED <<tools, providers, removed, policies, preparing, handed, closed, returned>>

(* #reviewOutput: a result declared external is scanned, and which tools        *)
(* declare theirs so is left open; the review may prompt only when the          *)
(* invocation has not.                                                          *)
MayPrompt(c) == calls[c].prompts = 0

Return(c) ==
  /\ At(c, "review")
  /\ \E prompt \in {0} \cup {n \in {1} : MayPrompt(c)} :
       returned' = returned \cup {[run |-> calls[c].run, target |-> calls[c].target,
                                   prompts |-> calls[c].prompts + prompt]}
  /\ End(c)
  /\ UNCHANGED <<tools, providers, removed, policies, preparing, handed, closed, execution>>

Abort(c) ==
  /\ Active(c)
  /\ ~calls[c].aborted
  /\ calls' = [calls EXCEPT ![c].aborted = TRUE]
  /\ UNCHANGED <<tools, providers, removed, policies, preparing, handed, closed,
                 execution, returned>>

(* Whatever an invocation awaits may reject: the store, the authorizer, a       *)
(* scanner or the handler.                                                      *)
Abandon(c) ==
  /\ Active(c)
  /\ End(c)
  /\ UNCHANGED <<tools, providers, removed, policies, preparing, handed, closed,
                 execution, returned>>

(* The execution is raised by others: model calls, children, other handles. *)
Raise(r) ==
  /\ execution[r] < MaxLevel
  /\ execution' = [execution EXCEPT ![r] = execution[r] + 1]
  /\ UNCHANGED <<tools, providers, removed, policies, preparing, handed, closed, calls,
                 returned>>

Step(c) ==
  \/ Resolve(c)
  \/ \E prompts \in 0 .. 1 : Allow(c, prompts)
  \/ Deny(c) \/ createParentGrant(c) \/ Commit(c)
  \/ Result(c) \/ Observe(c) \/ Return(c)

Answer(r) == \E p \in Provider : CatalogArrives(r, p) \/ PrepareFails(r, p)

Next ==
  \/ \E s \in Static : register(s)
  \/ \E p \in Provider : registerProvider(p)
  \/ \E x \in Registration : Dispose(x)
  \/ \E plugin \in {Owner[x] : x \in Registration} : removePlugin(plugin)
  \/ \E r \in Run : \/ registerRunPolicy(r) \/ disposePolicy(r)
                    \/ bindExecutionClassification(r) \/ Raise(r)
                    \/ prepareRun(r) \/ Answer(r)
  \/ \E c \in Call, r \in Run \cup {NoRun}, t \in Tool : invoke(c, r, t)
  \/ \E c \in Call : Step(c) \/ Abort(c) \/ Abandon(c)

Spec == Init /\ [][Next]_vars

(* A provider answers, for its signal is aborted with the run or its plugin. *)
FairSpec == Spec /\ \A r \in Run : WF_vars(Answer(r))

(******************************** Properties ********************************)

(* Everything keeps its type. *)
TypeOK ==
  /\ tools \subseteq Static
  /\ providers \subseteq Provider
  /\ removed \subseteq Registration
  /\ policies \in [Run -> Policy]
  /\ preparing \in [Run -> SUBSET Provider]
  /\ handed \subseteq Run \X Provider
  /\ closed \subseteq handed
  /\ execution \in [Run -> Level]
  /\ calls \in [Call -> Local]
  /\ returned \subseteq [run : Run \cup {NoRun}, target : Registration, prompts : 0 .. 2]

(* No catalog is lost: whatever a provider handed over is closed, or is leased  *)
(* by a live run from a provider that is still registered, so that the release  *)
(* of the run or the removal of the provider will close it.                     *)
CatalogsAreAccountedFor ==
  \A r \in Run, p \in Provider :
    <<r, p>> \in handed =>
      <<r, p>> \in closed \/ (Live(r) /\ p \in policies[r].leases /\ p \in providers)

(* No tool of a run leads to a provider that is gone or a catalog that is       *)
(* closed, and a released run has no tools of its own.                          *)
BindingsAreOpen ==
  \A r \in Run, t \in Tool :
    LET p == policies[r].bindings[t] IN
      p # NoTarget =>
        /\ Live(r)
        /\ p \in providers
        /\ p \in policies[r].leases
        /\ <<r, p>> \notin closed

(* A result reaches the caller of a run only after both marks cover it: the one *)
(* of the run, while it lives, and the durable one of its execution.            *)
ResultsAreCovered ==
  \A result \in returned :
    result.run # NoRun =>
      /\ execution[result.run] >= Output[result.target]
      /\ policies[result.run].level >= Output[result.target]

(* A handler starts only for the registration that was approved, while that is  *)
(* registered and its catalog open, in a live run whose mark is the approved    *)
(* one and covers the durable classification read last.                         *)
StartIsApproved ==
  [][\A c \in Call : At(c, "commit") /\ calls'[c].pc = "running" =>
       LET r == calls[c].run
           target == calls[c].target
       IN /\ target \in Registered
          /\ target \in Provider => <<r, target>> \notin closed
          /\ r # NoRun => /\ Live(r)
                          /\ policies[r].level = calls[c].approved
                          /\ calls[c].approved >= calls[c].seen]_vars

(* A preparation ends, and a run that is still live then is prepared.           *)
PreparationEnds ==
  \A r \in Run : preparing[r] # {} ~> preparing[r] = {} /\ (Live(r) => policies[r].prepared)
=============================================================================
