------------------------- MODULE ExecutionSecurity -------------------------
(* The durable execution lineage of packages/kernel/src/execution-security.ts. *)
(* Every mutating operation runs alone inside #mutate, from its first read of  *)
(* the store to its last write, so here each is one step.  It ends in one      *)
(* store.set or one store.transaction: a crash leaves all of it or nothing.    *)
(* `contexts` and `index` are in the store and survive a restart; a parent     *)
(* grant is an object of the running process.                                  *)
(*                                                                             *)
(* Operators named Broken... are plausible defects of the definition below     *)
(* them; no action uses one.  They show that the properties can fail.          *)
EXTENDS Classification

CONSTANTS Execution,     \* the ids randomUUID may return
          Plugin, Subject,
          Grant,         \* identities of parent-grant objects
          Outcome,       \* the ways an execution may close
          Observed,      \* the classifications the environment observes
          NoExecution, NoContext, NoGrant

VARIABLES contexts,      \* contexts/<id> in the store
          index,         \* subjects/<plugin>/<subject> in the store
          grants         \* the WeakMap #grants

vars == <<contexts, index, grants>>

ResultFlow == {"merge_to_parent", "detached"}

Context ==
  [owner: Plugin, subject: Subject, parent: Execution \cup {NoExecution},
   root: Execution, resultFlow: ResultFlow,
   classification: DataClassification, revision: 1..4,
   lifecycle: {"open"} \cup Outcome, imported: SUBSET Execution]

GrantRecord == [parent: Execution, grantee: Plugin, used: BOOLEAN]

ASSUME ConstantsAssumption ==
  /\ Observed \subseteq DataClassification
  /\ NoExecution \notin Execution
  /\ NoContext \notin Context
  /\ NoGrant \notin GrantRecord
  /\ "open" \notin Outcome

Bound == {e \in Execution : contexts[e] # NoContext}

IsOpen(context) == context.lifecycle = "open"

(* What observeContext makes of a context: the classification is a high-water *)
(* mark and the revision counts the times it rose.                            *)
Observe(context, level) ==
  IF level > context.classification
  THEN [context EXCEPT !.classification = level, !.revision = @ + 1]
  ELSE context

NewContext(plugin, subject, parent, root, level, flow) ==
  [owner |-> plugin, subject |-> subject, parent |-> parent, root |-> root,
   resultFlow |-> flow, classification |-> level, revision |-> 1,
   lifecycle |-> "open", imported |-> {}]

Init ==
  /\ contexts = [e \in Execution |-> NoContext]
  /\ index = [key \in Plugin \X Subject |-> NoExecution]
  /\ grants = [g \in Grant |-> NoGrant]

(* A root whose subject is already bound answers with the existing execution   *)
(* or throws; neither changes the state.                                       *)
BindRoot(plugin, subject, level, flow, e) ==
  /\ index[<<plugin, subject>>] = NoExecution
  /\ contexts[e] = NoContext
  /\ contexts' = [contexts EXCEPT
       ![e] = NewContext(plugin, subject, NoExecution, e, level, flow)]
  /\ index' = [index EXCEPT ![<<plugin, subject>>] = e]
  /\ UNCHANGED grants

CreateParentGrant(parent, grantee, g) ==
  /\ contexts[parent] # NoContext
  /\ grants[g] = NoGrant
  /\ grants' = [grants EXCEPT
       ![g] = [parent |-> parent, grantee |-> grantee, used |-> FALSE]]
  /\ UNCHANGED <<contexts, index>>

Usable(g, plugin) ==
  /\ grants[g] # NoGrant
  /\ ~grants[g].used
  /\ grants[g].grantee = plugin

(* A child inherits the classification its parent has now.  The parent may be  *)
(* closed: #bindChild only asks that it exists.                                *)
BindChild(g, plugin, subject, flow, e) ==
  /\ Usable(g, plugin)
  /\ index[<<plugin, subject>>] = NoExecution
  /\ contexts[e] = NoContext
  /\ LET parent == grants[g].parent IN
       contexts' = [contexts EXCEPT
         ![e] = NewContext(plugin, subject, parent, contexts[parent].root,
                           contexts[parent].classification, flow)]
  /\ index' = [index EXCEPT ![<<plugin, subject>>] = e]
  /\ grants' = [grants EXCEPT ![g].used = TRUE]

(* Binding a child that exists with the same parent and flow spends the grant. *)
RebindChild(g, plugin, subject, flow) ==
  /\ Usable(g, plugin)
  /\ index[<<plugin, subject>>] # NoExecution
  /\ LET existing == contexts[index[<<plugin, subject>>]] IN
       /\ existing.parent = grants[g].parent
       /\ existing.root = contexts[grants[g].parent].root
       /\ existing.resultFlow = flow
  /\ grants' = [grants EXCEPT ![g].used = TRUE]
  /\ UNCHANGED <<contexts, index>>

Owns(plugin, e) == contexts[e] # NoContext /\ contexts[e].owner = plugin

BrokenObserveClosed(plugin, e, level) ==
  /\ Owns(plugin, e)
  /\ contexts' = [contexts EXCEPT ![e] = Observe(contexts[e], level)]
  /\ UNCHANGED <<index, grants>>

ObserveExecution(plugin, e, level) ==
  /\ Owns(plugin, e)
  /\ IsOpen(contexts[e])
  /\ contexts' = [contexts EXCEPT ![e] = Observe(contexts[e], level)]
  /\ UNCHANGED <<index, grants>>

Merges(context) ==
  context.parent # NoExecution /\ context.resultFlow = "merge_to_parent"

BrokenCloseWithoutMerge(plugin, e, outcome) ==
  /\ Owns(plugin, e)
  /\ IsOpen(contexts[e])
  /\ contexts' = [contexts EXCEPT ![e].lifecycle = outcome]
  /\ UNCHANGED <<index, grants>>

(* Closing a merging child raises its parent in the same store transaction;    *)
(* with a closed parent observeContext throws and the child stays open.        *)
Close(plugin, e, outcome) ==
  /\ Owns(plugin, e)
  /\ IsOpen(contexts[e])
  /\ LET closed == [contexts[e] EXCEPT !.lifecycle = outcome]
         parent == closed.parent IN
       IF Merges(closed)
       THEN /\ IsOpen(contexts[parent])
            /\ contexts' = [contexts EXCEPT
                 ![e] = closed,
                 ![parent] = Observe(contexts[parent], closed.classification)]
       ELSE contexts' = [contexts EXCEPT ![e] = closed]
  /\ UNCHANGED <<index, grants>>

BrokenImportOpenChild(plugin, parent, child) ==
  /\ Owns(plugin, parent)
  /\ IsOpen(contexts[parent])
  /\ child \notin contexts[parent].imported
  /\ contexts[child] # NoContext
  /\ contexts[child].parent = parent
  /\ contexts[child].resultFlow = "detached"
  /\ contexts' = [contexts EXCEPT
       ![parent] = [Observe(contexts[parent], contexts[child].classification)
                      EXCEPT !.imported = @ \cup {child}]]
  /\ UNCHANGED <<index, grants>>

ImportDetachedResult(plugin, parent, child) ==
  /\ Owns(plugin, parent)
  /\ IsOpen(contexts[parent])
  /\ child \notin contexts[parent].imported
  /\ contexts[child] # NoContext
  /\ contexts[child].parent = parent
  /\ contexts[child].resultFlow = "detached"
  /\ ~IsOpen(contexts[child])
  /\ contexts' = [contexts EXCEPT
       ![parent] = [Observe(contexts[parent], contexts[child].classification)
                      EXCEPT !.imported = @ \cup {child}]]
  /\ UNCHANGED <<index, grants>>

(* The process ends and starts again: the grant objects are gone.              *)
Restart ==
  /\ grants' = [g \in Grant |-> NoGrant]
  /\ UNCHANGED <<contexts, index>>

Next ==
  \/ \E plugin \in Plugin, subject \in Subject, level \in Observed,
       flow \in ResultFlow, e \in Execution :
         BindRoot(plugin, subject, level, flow, e)
  \/ \E parent \in Execution, grantee \in Plugin, g \in Grant :
         CreateParentGrant(parent, grantee, g)
  \/ \E g \in Grant, plugin \in Plugin, subject \in Subject,
       flow \in ResultFlow, e \in Execution :
         BindChild(g, plugin, subject, flow, e)
  \/ \E g \in Grant, plugin \in Plugin, subject \in Subject,
       flow \in ResultFlow :
         RebindChild(g, plugin, subject, flow)
  \/ \E plugin \in Plugin, e \in Execution, level \in Observed :
         ObserveExecution(plugin, e, level)
  \/ \E plugin \in Plugin, e \in Execution, outcome \in Outcome :
         Close(plugin, e, outcome)
  \/ \E plugin \in Plugin, parent \in Execution, child \in Execution :
         ImportDetachedResult(plugin, parent, child)
  \/ Restart

Spec == Init /\ [][Next]_vars

-----------------------------------------------------------------------------

TypeOK ==
  /\ contexts \in [Execution -> Context \cup {NoContext}]
  /\ index \in [Plugin \X Subject -> Execution \cup {NoExecution}]
  /\ grants \in [Grant -> GrantRecord \cup {NoGrant}]

(* What a closed merging child, or an imported detached child, learned is      *)
(* never above its parent: no result of a child reaches a parent that is       *)
(* classified lower than the data the child handled.                           *)
MergedResultsAreCovered ==
  \A c \in Bound :
    Merges(contexts[c]) /\ ~IsOpen(contexts[c])
      => contexts[c].classification
           <= contexts[contexts[c].parent].classification

ImportedResultsAreCovered ==
  \A e \in Bound : \A c \in contexts[e].imported :
    /\ c \in Bound
    /\ contexts[c].parent = e
    /\ contexts[c].resultFlow = "detached"
    /\ ~IsOpen(contexts[c])
    /\ contexts[c].classification <= contexts[e].classification

(* Both ways in which a child's result reaches its parent (close, 377, and      *)
(* importDetachedResult, 449): whatever else observes, closes or restarts, the  *)
(* parent is at least as classified as every child result that reached it.      *)
ResultsAreCovered == MergedResultsAreCovered /\ ImportedResultsAreCovered

(* Lineage: a child has the root of its parent, and a root is its own.         *)
LineageConsistent ==
  \A e \in Bound :
    IF contexts[e].parent = NoExecution
    THEN contexts[e].root = e
    ELSE /\ contexts[e].parent \in Bound \ {e}
         /\ contexts[e].root = contexts[contexts[e].parent].root

(* #findBySubject trusts the subject index: an entry leads to the context of   *)
(* that owner and subject, and every context is reachable through its entry.   *)
SubjectIndexConsistent ==
  /\ \A plugin \in Plugin, subject \in Subject :
       index[<<plugin, subject>>] # NoExecution =>
         /\ index[<<plugin, subject>>] \in Bound
         /\ contexts[index[<<plugin, subject>>]].owner = plugin
         /\ contexts[index[<<plugin, subject>>]].subject = subject
  /\ \A e \in Bound : index[<<contexts[e].owner, contexts[e].subject>>] = e

(* commitIfCurrent compares revisions only.  That is sound because, for as     *)
(* long as an execution exists, its classification never falls and its         *)
(* revision moves exactly when the classification does.                        *)
RevisionTracksClassification ==
  [][\A e \in Bound :
       /\ contexts'[e] # NoContext
       /\ contexts'[e].classification >= contexts[e].classification
       /\ contexts'[e].revision =
            IF contexts'[e].classification = contexts[e].classification
            THEN contexts[e].revision
            ELSE contexts[e].revision + 1]_vars

(* A closed execution is immutable: no late observation, import or merge of a  *)
(* child changes what was recorded when it closed.                             *)
ClosedIsFrozen ==
  [][\A e \in Bound :
       ~IsOpen(contexts[e]) => contexts'[e] = contexts[e]]_vars
=============================================================================
