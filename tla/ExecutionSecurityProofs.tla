---------------------- MODULE ExecutionSecurityProofs ----------------------
(* Theorems of ExecutionSecurity for every set of executions, plugins,        *)
(* subjects, grants and outcomes.                                             *)
EXTENDS ExecutionSecurity, TLAPS

(* A revision above 1 was paid for by a rise of the classification, so it     *)
(* stays within the four levels; TypeOK alone is not inductive.               *)
RevisionBounded ==
  \A e \in Bound : contexts[e].revision <= contexts[e].classification + 1

GrantParentsExist ==
  \A g \in Grant : grants[g] # NoGrant => grants[g].parent \in Bound

(* The inductive invariant.  That a merged or imported child stays covered    *)
(* rests on the lineage: a parent exists before its child does.               *)
IInv ==
  /\ TypeOK
  /\ RevisionBounded
  /\ LineageConsistent
  /\ MergedResultsAreCovered
  /\ ImportedResultsAreCovered
  /\ SubjectIndexConsistent
  /\ GrantParentsExist

(* What observeContext preserves and guarantees.                              *)
LEMMA ObserveLemma ==
  ASSUME NEW context \in Context, NEW level \in DataClassification,
         context.revision <= context.classification + 1
  PROVE  LET seen == Observe(context, level) IN
         /\ seen \in Context
         /\ seen.revision <= seen.classification + 1
         /\ seen.classification >= level
         /\ seen.classification >= context.classification
         /\ seen.revision = IF seen.classification = context.classification
                            THEN context.revision ELSE context.revision + 1
         /\ seen.owner = context.owner
         /\ seen.subject = context.subject
         /\ seen.parent = context.parent
         /\ seen.root = context.root
         /\ seen.resultFlow = context.resultFlow
         /\ seen.lifecycle = context.lifecycle
         /\ seen.imported = context.imported
  <1>1. context.classification \in 0..3 /\ context.revision \in 1..4 /\ level \in 0..3
    BY DEF Context, DataClassification, public, restricted
  <1>2. CASE level > context.classification
    <2>1. Observe(context, level) =
            [context EXCEPT !.classification = level,
                            !.revision = context.revision + 1]
      BY <1>2 DEF Observe
    <2>2. context.revision + 1 \in 1..4
      BY <1>1, <1>2
    <2> DEFINE raised == [context EXCEPT !.classification = level]
               seen == [raised EXCEPT !.revision = context.revision + 1]
    <2>3. /\ raised \in Context
          /\ raised.classification = level
          /\ raised.revision = context.revision
          /\ raised.owner = context.owner
          /\ raised.subject = context.subject
          /\ raised.parent = context.parent
          /\ raised.root = context.root
          /\ raised.resultFlow = context.resultFlow
          /\ raised.lifecycle = context.lifecycle
          /\ raised.imported = context.imported
      BY DEF Context
    <2>4. seen \in Context
      BY <2>2, <2>3 DEF Context
    <2>5. seen.revision = context.revision + 1
      BY <2>3 DEF Context
    <2>6. seen.classification = level
      BY <2>3 DEF Context
    <2> QED
      BY <1>1, <1>2, <2>1, <2>2, <2>3, <2>4, <2>5, <2>6 DEF Context
  <1>3. CASE ~(level > context.classification)
    BY <1>1, <1>3 DEF Observe
  <1> QED
    BY <1>2, <1>3

(* A new context is a context of revision 1.                                  *)
LEMMA NewContextLemma ==
  ASSUME NEW plugin \in Plugin, NEW subject \in Subject,
         NEW parent \in Execution \cup {NoExecution}, NEW root \in Execution,
         NEW level \in DataClassification, NEW flow \in ResultFlow
  PROVE  LET new == NewContext(plugin, subject, parent, root, level, flow) IN
         /\ new \in Context
         /\ new.revision = 1
         /\ new.classification = level
         /\ new.parent = parent
         /\ new.root = root
         /\ new.resultFlow = flow
         /\ new.lifecycle = "open"
         /\ new.imported = {}
  BY DEF NewContext, Context, ResultFlow, DataClassification, public, restricted

(* Adding a context preserves the invariant when its parent, if any, exists   *)
(* and has the same root.                                                     *)
LEMMA AddContext ==
  ASSUME IInv, NEW e \in Execution, contexts[e] = NoContext,
         NEW new \in Context, contexts' = [contexts EXCEPT ![e] = new],
         new.revision = 1, new.lifecycle = "open", new.imported = {},
         IF new.parent = NoExecution
         THEN new.root = e
         ELSE new.parent \in Bound /\ new.root = contexts[new.parent].root,
         index[<<new.owner, new.subject>>] = NoExecution,
         index' = [index EXCEPT ![<<new.owner, new.subject>>] = e]
  PROVE  /\ \A x \in Bound : x \in Bound' /\ contexts'[x] = contexts[x]
         /\ contexts' \in [Execution -> Context \cup {NoContext}]
         /\ index' \in [Plugin \X Subject -> Execution \cup {NoExecution}]
         /\ SubjectIndexConsistent'
         /\ RevisionBounded'
         /\ LineageConsistent'
         /\ MergedResultsAreCovered'
         /\ ImportedResultsAreCovered'
  <1>1. /\ contexts \in [Execution -> Context \cup {NoContext}]
        /\ NoContext \notin Context
    BY ConstantsAssumption DEF IInv, TypeOK
  <1>2. /\ contexts' \in [Execution -> Context \cup {NoContext}]
        /\ contexts'[e] = new
        /\ Bound' = Bound \cup {e}
        /\ e \notin Bound
        /\ \A x \in Bound : contexts'[x] = contexts[x]
    BY <1>1 DEF Bound
  <1>3. new.classification \in 0..3 /\ new.classification + 1 >= 1
    BY DEF Context, DataClassification, public, restricted
  <1>4. RevisionBounded'
    BY <1>2, <1>3 DEF IInv, RevisionBounded
  <1>5. LineageConsistent'
    BY <1>2 DEF IInv, LineageConsistent
  <1>6. MergedResultsAreCovered'
    <2>1. SUFFICES ASSUME NEW c \in Bound', Merges(contexts'[c]),
                          ~IsOpen(contexts'[c])
                   PROVE  contexts'[c].classification
                            <= contexts'[contexts'[c].parent].classification
      BY DEF MergedResultsAreCovered, Merges, IsOpen
    <2>2. c \in Bound
      BY <2>1, <1>2 DEF IsOpen
    <2>3. contexts[c].parent \in Bound
      BY <2>1, <2>2, <1>2 DEF IInv, LineageConsistent, Merges
    <2> QED
      BY <2>1, <2>2, <2>3, <1>2 DEF IInv, MergedResultsAreCovered
  <1>7. ImportedResultsAreCovered'
    BY <1>2 DEF IInv, ImportedResultsAreCovered, IsOpen
  <1>8. new.owner \in Plugin /\ new.subject \in Subject
    BY DEF Context
  <1>9. /\ index \in [Plugin \X Subject -> Execution \cup {NoExecution}]
        /\ NoExecution \notin Execution
    BY ConstantsAssumption DEF IInv, TypeOK
  <1>10. /\ index' \in [Plugin \X Subject -> Execution \cup {NoExecution}]
         /\ index'[<<new.owner, new.subject>>] = e
         /\ \A plugin \in Plugin, subject \in Subject :
              plugin # new.owner \/ subject # new.subject
                => index'[<<plugin, subject>>] = index[<<plugin, subject>>]
    BY <1>8, <1>9
  <1>11. SubjectIndexConsistent'
    <2>1. ASSUME NEW plugin \in Plugin, NEW subject \in Subject,
                 index'[<<plugin, subject>>] # NoExecution
          PROVE  /\ index'[<<plugin, subject>>] \in Bound'
                 /\ contexts'[index'[<<plugin, subject>>]].owner = plugin
                 /\ contexts'[index'[<<plugin, subject>>]].subject = subject
      <3>1. CASE plugin = new.owner /\ subject = new.subject
        BY <3>1, <1>2, <1>10
      <3>2. CASE plugin # new.owner \/ subject # new.subject
        BY <2>1, <3>2, <1>2, <1>10 DEF IInv, SubjectIndexConsistent
      <3> QED
        BY <3>1, <3>2
    <2>2. ASSUME NEW x \in Bound'
          PROVE  index'[<<contexts'[x].owner, contexts'[x].subject>>] = x
      <3>1. CASE x = e
        BY <3>1, <1>2, <1>10
      <3>2. CASE x # e
        <4>1. x \in Bound /\ contexts'[x] = contexts[x]
          BY <2>2, <3>2, <1>2
        <4>2. index[<<contexts[x].owner, contexts[x].subject>>] = x
          BY <4>1 DEF IInv, SubjectIndexConsistent
        <4>3. x # NoExecution
          BY <4>1, <1>9 DEF Bound
        <4>4. contexts[x].owner \in Plugin /\ contexts[x].subject \in Subject
          BY <4>1, <1>1 DEF Bound, Context
        <4> QED
          BY <4>1, <4>2, <4>3, <4>4, <1>10
      <3> QED
        BY <3>1, <3>2
    <2> QED
      BY <2>1, <2>2 DEF SubjectIndexConsistent
  <1> QED
    BY <1>2, <1>4, <1>5, <1>6, <1>7, <1>10, <1>11

(* One execution x evolves lawfully: identity fixed, frozen once closed,      *)
(* classification and revision rise together; and what it newly merged or     *)
(* imported is covered in the new state.                                      *)
Evolves(x) ==
  /\ contexts'[x] \in Context
  /\ contexts'[x].owner = contexts[x].owner
  /\ contexts'[x].subject = contexts[x].subject
  /\ contexts'[x].parent = contexts[x].parent
  /\ contexts'[x].root = contexts[x].root
  /\ contexts'[x].resultFlow = contexts[x].resultFlow
  /\ contexts'[x].classification >= contexts[x].classification
  /\ contexts'[x].revision =
       IF contexts'[x].classification = contexts[x].classification
       THEN contexts[x].revision ELSE contexts[x].revision + 1
  /\ ~IsOpen(contexts[x]) => contexts'[x] = contexts[x]

NewMergeCovered(x) ==
  IsOpen(contexts[x]) /\ ~IsOpen(contexts'[x]) /\ Merges(contexts'[x])
    => contexts'[x].classification
         <= contexts'[contexts'[x].parent].classification

NewImportsCovered(x) ==
  \A c \in contexts'[x].imported \ contexts[x].imported :
    /\ c \in Bound
    /\ contexts[c].parent = x
    /\ contexts[c].resultFlow = "detached"
    /\ ~IsOpen(contexts[c])
    /\ contexts[c].classification <= contexts'[x].classification

(* A step in which every existing execution evolves lawfully and none appears *)
(* preserves the invariant.                                                   *)
LEMMA EvolveContexts ==
  ASSUME IInv,
         contexts' \in [Execution -> Context \cup {NoContext}],
         \A x \in Execution : contexts[x] = NoContext => contexts'[x] = NoContext,
         \A x \in Bound : Evolves(x) /\ NewMergeCovered(x) /\ NewImportsCovered(x),
         index' = index
  PROVE  /\ Bound' = Bound
         /\ RevisionBounded'
         /\ SubjectIndexConsistent'
         /\ LineageConsistent'
         /\ MergedResultsAreCovered'
         /\ ImportedResultsAreCovered'
  <1>1. /\ contexts \in [Execution -> Context \cup {NoContext}]
        /\ NoContext \notin Context
    BY ConstantsAssumption DEF IInv, TypeOK
  <1>2. \A x \in Bound : contexts[x] \in Context
    BY <1>1 DEF Bound
  <1>3. Bound' = Bound
    BY <1>1 DEF Bound, Evolves
  <1>4. \A x \in Bound : /\ contexts[x].classification \in Int
                         /\ contexts'[x].classification \in Int
                         /\ contexts[x].revision \in Int
    BY <1>2 DEF Evolves, Context, DataClassification, public, restricted
  <1>5. RevisionBounded'
    BY <1>3, <1>4 DEF IInv, RevisionBounded, Evolves
  <1>6. LineageConsistent'
    BY <1>3 DEF IInv, LineageConsistent, Evolves
  <1>7. MergedResultsAreCovered'
    <2>1. SUFFICES ASSUME NEW c \in Bound, Merges(contexts'[c]),
                          ~IsOpen(contexts'[c])
                   PROVE  contexts'[c].classification
                            <= contexts'[contexts'[c].parent].classification
      BY <1>3 DEF MergedResultsAreCovered, Merges, IsOpen
    <2>2. CASE IsOpen(contexts[c])
      BY <2>1, <2>2 DEF NewMergeCovered
    <2>3. CASE ~IsOpen(contexts[c])
      <3>1. contexts'[c] = contexts[c]
        BY <2>3 DEF Evolves
      <3>2. contexts[c].parent \in Bound
        BY <2>1, <3>1 DEF IInv, LineageConsistent, Merges
      <3>3. contexts[c].classification
              <= contexts[contexts[c].parent].classification
        BY <2>1, <2>3, <3>1 DEF IInv, MergedResultsAreCovered
      <3>4. contexts'[contexts[c].parent].classification
              >= contexts[contexts[c].parent].classification
        BY <3>2 DEF Evolves
      <3> QED
        BY <3>1, <3>2, <3>3, <3>4, <1>4
    <2> QED
      BY <2>2, <2>3
  <1>8. ImportedResultsAreCovered'
    <2>1. SUFFICES ASSUME NEW x \in Bound, NEW c \in contexts'[x].imported
                   PROVE  /\ c \in Bound
                          /\ contexts'[c].parent = x
                          /\ contexts'[c].resultFlow = "detached"
                          /\ ~IsOpen(contexts'[c])
                          /\ contexts'[c].classification
                               <= contexts'[x].classification
      BY <1>3 DEF ImportedResultsAreCovered, IsOpen
    <2>2. CASE c \in contexts[x].imported
      <3>1. /\ c \in Bound
            /\ contexts[c].parent = x
            /\ contexts[c].resultFlow = "detached"
            /\ ~IsOpen(contexts[c])
            /\ contexts[c].classification <= contexts[x].classification
        BY <2>2 DEF IInv, ImportedResultsAreCovered
      <3>2. contexts'[c] = contexts[c]
        BY <3>1 DEF Evolves
      <3>3. contexts'[x].classification >= contexts[x].classification
        BY DEF Evolves
      <3> QED
        BY <3>1, <3>2, <3>3, <1>4
    <2>3. CASE c \notin contexts[x].imported
      <3>1. /\ c \in Bound
            /\ contexts[c].parent = x
            /\ contexts[c].resultFlow = "detached"
            /\ ~IsOpen(contexts[c])
            /\ contexts[c].classification <= contexts'[x].classification
        BY <2>1, <2>3 DEF NewImportsCovered
      <3>2. contexts'[c] = contexts[c]
        BY <3>1 DEF Evolves
      <3> QED
        BY <3>1, <3>2
    <2> QED
      BY <2>2, <2>3
  <1>9. SubjectIndexConsistent'
    BY <1>3 DEF IInv, SubjectIndexConsistent, Evolves
  <1> QED
    BY <1>3, <1>5, <1>6, <1>7, <1>8, <1>9

(* A step that leaves the store alone disturbs nothing but the grants.        *)
LEMMA StoreUnchanged ==
  ASSUME IInv, UNCHANGED <<contexts, index>>,
         grants' \in [Grant -> GrantRecord \cup {NoGrant}],
         \A g \in Grant : grants'[g] # NoGrant => grants'[g].parent \in Bound
  PROVE  IInv' /\ \A x \in Bound : Evolves(x)
  <1>1. IInv'
    BY DEF IInv, TypeOK, RevisionBounded, LineageConsistent,
           MergedResultsAreCovered, ImportedResultsAreCovered,
           SubjectIndexConsistent, GrantParentsExist, Bound, Merges, IsOpen
  <1>2. \A x \in Bound : contexts[x] \in Context
    BY DEF IInv, TypeOK, Bound
  <1>3. \A x \in Bound : contexts[x].classification \in Int
    BY <1>2 DEF Context, DataClassification, public, restricted
  <1> QED
    BY <1>1, <1>2, <1>3 DEF Evolves

LEMMA Typing ==
  ASSUME IInv
  PROVE  /\ contexts \in [Execution -> Context \cup {NoContext}]
         /\ index \in [Plugin \X Subject -> Execution \cup {NoExecution}]
         /\ grants \in [Grant -> GrantRecord \cup {NoGrant}]
         /\ NoContext \notin Context
         /\ NoExecution \notin Execution
         /\ NoGrant \notin GrantRecord
         /\ \A x \in Bound :
              /\ contexts[x] \in Context
              /\ contexts[x].classification \in DataClassification
              /\ contexts[x].classification \in Int
              /\ contexts[x].revision \in Int
              /\ contexts[x].revision <= contexts[x].classification + 1
  <1>1. \A x \in Bound : contexts[x] \in Context
    BY DEF IInv, TypeOK, Bound
  <1> QED
    BY <1>1, ConstantsAssumption
    DEF IInv, TypeOK, RevisionBounded, Context, DataClassification, public,
        restricted

(* Spending a grant keeps what it names.                                      *)
LEMMA SpendGrant ==
  ASSUME IInv, NEW g \in Grant, grants[g] # NoGrant,
         grants' = [grants EXCEPT ![g].used = TRUE]
  PROVE  /\ grants' \in [Grant -> GrantRecord \cup {NoGrant}]
         /\ \A h \in Grant : grants'[h] # NoGrant =>
              grants[h] # NoGrant /\ grants'[h].parent = grants[h].parent
  <1>1. grants[g] \in GrantRecord
    BY Typing
  <1>2. /\ [grants[g] EXCEPT !.used = TRUE] \in GrantRecord
        /\ [grants[g] EXCEPT !.used = TRUE].parent = grants[g].parent
    BY <1>1 DEF GrantRecord
  <1> QED
    BY <1>1, <1>2, Typing

LEMMA BindRootStep ==
  ASSUME IInv, NEW plugin \in Plugin, NEW subject \in Subject,
         NEW level \in Observed, NEW flow \in ResultFlow, NEW e \in Execution,
         BindRoot(plugin, subject, level, flow, e)
  PROVE  IInv' /\ \A x \in Bound : Evolves(x)
  <1> DEFINE new == NewContext(plugin, subject, NoExecution, e, level, flow)
  <1>1. level \in DataClassification
    BY ConstantsAssumption
  <1>2. /\ new \in Context
        /\ new.revision = 1 /\ new.lifecycle = "open" /\ new.imported = {}
        /\ new.parent = NoExecution /\ new.root = e
        /\ new.owner = plugin /\ new.subject = subject
    BY <1>1, NewContextLemma DEF NewContext
  <1>3. /\ contexts[e] = NoContext
        /\ index[<<plugin, subject>>] = NoExecution
        /\ contexts' = [contexts EXCEPT ![e] = new]
        /\ index' = [index EXCEPT ![<<plugin, subject>>] = e]
        /\ grants' = grants
    BY DEF BindRoot
  <1> HIDE DEF new
  <1>4. /\ TypeOK' /\ RevisionBounded' /\ LineageConsistent'
        /\ MergedResultsAreCovered' /\ ImportedResultsAreCovered'
        /\ SubjectIndexConsistent'
        /\ \A x \in Bound : x \in Bound' /\ contexts'[x] = contexts[x]
    BY <1>2, <1>3, AddContext, Typing DEF TypeOK
  <1>5. GrantParentsExist'
    BY <1>3, <1>4 DEF IInv, GrantParentsExist
  <1> QED
    BY <1>4, <1>5, Typing DEF Evolves, IInv

LEMMA BindChildStep ==
  ASSUME IInv, NEW g \in Grant, NEW plugin \in Plugin, NEW subject \in Subject,
         NEW flow \in ResultFlow, NEW e \in Execution,
         BindChild(g, plugin, subject, flow, e)
  PROVE  IInv' /\ \A x \in Bound : Evolves(x)
  <1> DEFINE parent == grants[g].parent
             new == NewContext(plugin, subject, parent, contexts[parent].root,
                               contexts[parent].classification, flow)
  <1>1. grants[g] \in GrantRecord /\ grants[g] # NoGrant
    BY Typing DEF BindChild, Usable
  <1>2. parent \in Bound
    BY <1>1 DEF IInv, GrantParentsExist
  <1>3. /\ parent \in Execution
        /\ parent # NoExecution
        /\ contexts[parent].root \in Execution
        /\ contexts[parent].classification \in DataClassification
    BY <1>2, Typing DEF Bound, Context
  <1>4. /\ new \in Context
        /\ new.revision = 1 /\ new.lifecycle = "open" /\ new.imported = {}
        /\ new.parent = parent /\ new.root = contexts[parent].root
        /\ new.owner = plugin /\ new.subject = subject
    BY <1>3, NewContextLemma DEF NewContext
  <1>5. /\ contexts[e] = NoContext
        /\ index[<<plugin, subject>>] = NoExecution
        /\ contexts' = [contexts EXCEPT ![e] = new]
        /\ index' = [index EXCEPT ![<<plugin, subject>>] = e]
        /\ grants' = [grants EXCEPT ![g].used = TRUE]
    BY DEF BindChild
  <1> HIDE DEF new, parent
  <1>6. /\ contexts' \in [Execution -> Context \cup {NoContext}]
        /\ index' \in [Plugin \X Subject -> Execution \cup {NoExecution}]
        /\ RevisionBounded' /\ LineageConsistent'
        /\ MergedResultsAreCovered' /\ ImportedResultsAreCovered'
        /\ SubjectIndexConsistent'
        /\ \A x \in Bound : x \in Bound' /\ contexts'[x] = contexts[x]
    BY <1>2, <1>3, <1>4, <1>5, AddContext
  <1>7. /\ grants' \in [Grant -> GrantRecord \cup {NoGrant}]
        /\ GrantParentsExist'
    BY <1>1, <1>5, <1>6, SpendGrant DEF IInv, GrantParentsExist
  <1> QED
    BY <1>6, <1>7, Typing DEF Evolves, IInv, TypeOK

LEMMA CreateParentGrantStep ==
  ASSUME IInv, NEW parent \in Execution, NEW grantee \in Plugin, NEW g \in Grant,
         CreateParentGrant(parent, grantee, g)
  PROVE  IInv' /\ \A x \in Bound : Evolves(x)
  <1> DEFINE grant == [parent |-> parent, grantee |-> grantee, used |-> FALSE]
  <1>1. /\ parent \in Bound
        /\ grants' = [grants EXCEPT ![g] = grant]
        /\ UNCHANGED <<contexts, index>>
    BY DEF CreateParentGrant, Bound
  <1>2. grant \in GrantRecord /\ grant.parent = parent
    BY DEF GrantRecord
  <1> HIDE DEF grant
  <1>3. grants' \in [Grant -> GrantRecord \cup {NoGrant}]
    BY <1>1, <1>2, Typing
  <1>4. \A h \in Grant : grants'[h] # NoGrant => grants'[h].parent \in Bound
    BY <1>1, <1>2, Typing DEF IInv, GrantParentsExist
  <1> QED
    BY <1>1, <1>3, <1>4, StoreUnchanged

LEMMA RebindChildStep ==
  ASSUME IInv, NEW g \in Grant, NEW plugin \in Plugin, NEW subject \in Subject,
         NEW flow \in ResultFlow, RebindChild(g, plugin, subject, flow)
  PROVE  IInv' /\ \A x \in Bound : Evolves(x)
  <1>1. /\ grants[g] # NoGrant
        /\ grants' = [grants EXCEPT ![g].used = TRUE]
        /\ UNCHANGED <<contexts, index>>
    BY DEF RebindChild, Usable
  <1>2. \A h \in Grant : grants'[h] # NoGrant => grants'[h].parent \in Bound
    BY <1>1, SpendGrant DEF IInv, GrantParentsExist
  <1> QED
    BY <1>1, <1>2, SpendGrant, StoreUnchanged

LEMMA RestartStep ==
  ASSUME IInv, Restart
  PROVE  IInv' /\ \A x \in Bound : Evolves(x)
  BY StoreUnchanged DEF Restart

(* The rest of the invariant follows once the contexts evolve lawfully.       *)
LEMMA EvolveStep ==
  ASSUME IInv,
         contexts' \in [Execution -> Context \cup {NoContext}],
         \A x \in Execution : contexts[x] = NoContext => contexts'[x] = NoContext,
         \A x \in Bound : Evolves(x) /\ NewMergeCovered(x) /\ NewImportsCovered(x),
         UNCHANGED <<index, grants>>
  PROVE  IInv'
  <1>1. /\ Bound' = Bound
        /\ RevisionBounded' /\ LineageConsistent' /\ SubjectIndexConsistent'
        /\ MergedResultsAreCovered' /\ ImportedResultsAreCovered'
    BY EvolveContexts
  <1>2. TypeOK'
    BY Typing DEF TypeOK
  <1>3. GrantParentsExist'
    BY <1>1 DEF IInv, GrantParentsExist
  <1> QED
    BY <1>1, <1>2, <1>3 DEF IInv

(* An execution that does not change evolves lawfully.                        *)
LEMMA SameContext ==
  ASSUME IInv, NEW x \in Bound, contexts'[x] = contexts[x]
  PROVE  Evolves(x) /\ NewMergeCovered(x) /\ NewImportsCovered(x)
  BY Typing DEF Evolves, NewMergeCovered, NewImportsCovered

LEMMA ObserveStep ==
  ASSUME IInv, NEW plugin \in Plugin, NEW e \in Execution, NEW level \in Observed,
         ObserveExecution(plugin, e, level)
  PROVE  IInv' /\ \A x \in Bound : Evolves(x)
  <1> DEFINE seen == Observe(contexts[e], level)
  <1>1. /\ e \in Bound
        /\ IsOpen(contexts[e])
        /\ contexts' = [contexts EXCEPT ![e] = seen]
        /\ UNCHANGED <<index, grants>>
    BY DEF ObserveExecution, Owns, Bound
  <1>2. level \in DataClassification
    BY ConstantsAssumption
  <1>3. /\ seen \in Context
        /\ seen.classification >= contexts[e].classification
        /\ seen.revision =
             IF seen.classification = contexts[e].classification
             THEN contexts[e].revision ELSE contexts[e].revision + 1
        /\ seen.owner = contexts[e].owner /\ seen.subject = contexts[e].subject
        /\ seen.parent = contexts[e].parent /\ seen.root = contexts[e].root
        /\ seen.resultFlow = contexts[e].resultFlow
        /\ seen.lifecycle = contexts[e].lifecycle
        /\ seen.imported = contexts[e].imported
    BY <1>1, <1>2, Typing, ObserveLemma
  <1> HIDE DEF seen
  <1>4. /\ contexts' \in [Execution -> Context \cup {NoContext}]
        /\ contexts'[e] = seen
        /\ \A x \in Execution : x # e => contexts'[x] = contexts[x]
    BY <1>1, <1>3, Typing
  <1>5. Evolves(e)
    BY <1>1, <1>3, <1>4 DEF Evolves
  <1>6. NewMergeCovered(e) /\ NewImportsCovered(e)
    BY <1>1, <1>3, <1>4 DEF NewMergeCovered, NewImportsCovered, IsOpen
  <1>7. \A x \in Bound : Evolves(x) /\ NewMergeCovered(x) /\ NewImportsCovered(x)
    BY <1>4, <1>5, <1>6, SameContext DEF Bound
  <1> QED
    BY <1>1, <1>4, <1>7, EvolveStep DEF Bound

LEMMA CloseStep ==
  ASSUME IInv, NEW plugin \in Plugin, NEW e \in Execution, NEW outcome \in Outcome,
         Close(plugin, e, outcome)
  PROVE  IInv' /\ \A x \in Bound : Evolves(x)
  <1> DEFINE closed == [contexts[e] EXCEPT !.lifecycle = outcome]
             parent == contexts[e].parent
             merged == Observe(contexts[parent], contexts[e].classification)
  <1>1. /\ e \in Bound /\ contexts[e] \in Context
        /\ IsOpen(contexts[e])
        /\ UNCHANGED <<index, grants>>
    BY Typing DEF Close, Owns, Bound
  <1>2. /\ closed \in Context
        /\ closed.owner = contexts[e].owner /\ closed.subject = contexts[e].subject
        /\ closed.parent = parent /\ closed.root = contexts[e].root
        /\ closed.resultFlow = contexts[e].resultFlow
        /\ closed.classification = contexts[e].classification
        /\ closed.revision = contexts[e].revision
        /\ closed.imported = contexts[e].imported
        /\ closed.lifecycle = outcome
    BY <1>1 DEF Context
  <1>3. ~IsOpen(closed)
    BY <1>2, ConstantsAssumption DEF IsOpen
  <1>4. Merges(closed) <=> Merges(contexts[e])
    BY <1>2 DEF Merges
  <1>5. CASE ~Merges(contexts[e])
    <2>1. contexts' = [contexts EXCEPT ![e] = closed]
      BY <1>4, <1>5 DEF Close
    <2> HIDE DEF closed
    <2>2. /\ contexts' \in [Execution -> Context \cup {NoContext}]
          /\ contexts'[e] = closed
          /\ \A x \in Execution : x # e => contexts'[x] = contexts[x]
      BY <2>1, <1>2, Typing
    <2>3. Evolves(e) /\ NewMergeCovered(e) /\ NewImportsCovered(e)
      BY <2>2, <1>1, <1>2, <1>4, <1>5, Typing
      DEF Evolves, NewMergeCovered, NewImportsCovered
    <2>4. \A x \in Bound : Evolves(x) /\ NewMergeCovered(x) /\ NewImportsCovered(x)
      BY <2>2, <2>3, SameContext DEF Bound
    <2> QED
      BY <1>1, <2>2, <2>4, EvolveStep DEF Bound
  <1>6. CASE Merges(contexts[e])
    <2>1. parent \in Bound
      BY <1>1, <1>6 DEF IInv, LineageConsistent, Merges
    <2>2. /\ IsOpen(contexts[parent])
          /\ contexts' = [contexts EXCEPT ![e] = closed, ![parent] = merged]
      BY <1>2, <1>4, <1>6 DEF Close
    <2>3. contexts[e].classification \in DataClassification
      BY <1>1, Typing
    <2>4. /\ merged \in Context
          /\ merged.classification >= contexts[e].classification
          /\ merged.classification >= contexts[parent].classification
          /\ merged.revision =
               IF merged.classification = contexts[parent].classification
               THEN contexts[parent].revision ELSE contexts[parent].revision + 1
          /\ merged.owner = contexts[parent].owner
          /\ merged.subject = contexts[parent].subject
          /\ merged.parent = contexts[parent].parent
          /\ merged.root = contexts[parent].root
          /\ merged.resultFlow = contexts[parent].resultFlow
          /\ merged.lifecycle = contexts[parent].lifecycle
          /\ merged.imported = contexts[parent].imported
      BY <2>1, <2>3, Typing, ObserveLemma
    <2>5. parent # e
      BY <1>1, <1>6 DEF IInv, LineageConsistent, Merges
    <2> HIDE DEF closed, merged
    <2>6. /\ contexts' \in [Execution -> Context \cup {NoContext}]
          /\ contexts'[e] = closed
          /\ contexts'[parent] = merged
          /\ \A x \in Execution : x # e /\ x # parent => contexts'[x] = contexts[x]
      BY <2>1, <2>2, <2>4, <2>5, <1>2, Typing DEF Bound
    <2>7. Evolves(e) /\ NewMergeCovered(e) /\ NewImportsCovered(e)
      BY <2>4, <2>6, <1>1, <1>2, Typing
      DEF Evolves, NewMergeCovered, NewImportsCovered
    <2>8. Evolves(parent) /\ NewMergeCovered(parent) /\ NewImportsCovered(parent)
      <3> HIDE DEF parent
      <3> QED
        BY <2>2, <2>4, <2>6 DEF Evolves, NewMergeCovered, NewImportsCovered, IsOpen
    <2>9. \A x \in Bound : Evolves(x) /\ NewMergeCovered(x) /\ NewImportsCovered(x)
      BY <2>6, <2>7, <2>8, SameContext DEF Bound
    <2>10. \A x \in Execution : contexts[x] = NoContext => contexts'[x] = NoContext
      BY <2>1, <2>6, <1>1 DEF Bound
    <2> QED
      BY <1>1, <2>6, <2>9, <2>10, EvolveStep
  <1> QED
    BY <1>5, <1>6

LEMMA ImportStep ==
  ASSUME IInv, NEW plugin \in Plugin, NEW parent \in Execution,
         NEW child \in Execution, ImportDetachedResult(plugin, parent, child)
  PROVE  IInv' /\ \A x \in Bound : Evolves(x)
  <1> DEFINE seen == Observe(contexts[parent], contexts[child].classification)
             new == [seen EXCEPT !.imported = @ \cup {child}]
  <1>1. /\ parent \in Bound /\ contexts[parent] \in Context
        /\ IsOpen(contexts[parent])
        /\ child \in Bound
        /\ contexts[child].classification \in DataClassification
        /\ contexts[child].parent = parent
        /\ contexts[child].resultFlow = "detached"
        /\ ~IsOpen(contexts[child])
        /\ UNCHANGED <<index, grants>>
        /\ contexts' = [contexts EXCEPT ![parent] = new]
    BY Typing DEF ImportDetachedResult, Owns, Bound
  <1>2. /\ seen \in Context
        /\ seen.classification >= contexts[child].classification
        /\ seen.classification >= contexts[parent].classification
        /\ seen.revision =
             IF seen.classification = contexts[parent].classification
             THEN contexts[parent].revision ELSE contexts[parent].revision + 1
        /\ seen.owner = contexts[parent].owner
        /\ seen.subject = contexts[parent].subject
        /\ seen.parent = contexts[parent].parent
        /\ seen.root = contexts[parent].root
        /\ seen.resultFlow = contexts[parent].resultFlow
        /\ seen.lifecycle = contexts[parent].lifecycle
        /\ seen.imported = contexts[parent].imported
    BY <1>1, Typing, ObserveLemma
  <1> HIDE DEF seen
  <1>3. /\ new \in Context
        /\ new.owner = seen.owner /\ new.subject = seen.subject
        /\ new.parent = seen.parent /\ new.root = seen.root
        /\ new.resultFlow = seen.resultFlow
        /\ new.classification = seen.classification
        /\ new.revision = seen.revision /\ new.lifecycle = seen.lifecycle
        /\ new.imported = seen.imported \cup {child}
    BY <1>2 DEF Context
  <1> HIDE DEF new
  <1>4. /\ contexts' \in [Execution -> Context \cup {NoContext}]
        /\ contexts'[parent] = new
        /\ \A x \in Execution : x # parent => contexts'[x] = contexts[x]
    BY <1>1, <1>3, Typing DEF Bound
  <1>5. Evolves(parent)
    BY <1>1, <1>2, <1>3, <1>4 DEF Evolves
  <1>6. NewMergeCovered(parent) /\ NewImportsCovered(parent)
    BY <1>1, <1>2, <1>3, <1>4 DEF NewMergeCovered, NewImportsCovered, IsOpen
  <1>7. \A x \in Bound : Evolves(x) /\ NewMergeCovered(x) /\ NewImportsCovered(x)
    BY <1>4, <1>5, <1>6, SameContext DEF Bound
  <1> QED
    BY <1>1, <1>4, <1>7, EvolveStep DEF Bound

LEMMA InitInv == ASSUME Init PROVE IInv
  BY ConstantsAssumption
  DEF Init, IInv, TypeOK, RevisionBounded, LineageConsistent,
      MergedResultsAreCovered, ImportedResultsAreCovered,
      SubjectIndexConsistent, GrantParentsExist, Bound

(* Every step of the service preserves the invariant, and every execution it  *)
(* touches evolves lawfully.                                                  *)
LEMMA NextStep ==
  ASSUME IInv, Next
  PROVE  IInv' /\ \A x \in Bound : Evolves(x)
  BY BindRootStep, CreateParentGrantStep, BindChildStep, RebindChildStep,
     ObserveStep, CloseStep, ImportStep, RestartStep DEF Next

(* The invariant of the execution lineage holds in every reachable state.     *)
THEOREM Invariance == Spec => []IInv
  <1>1. Init => IInv
    BY InitInv
  <1>2. IInv /\ [Next]_vars => IInv'
    <2> SUFFICES ASSUME IInv, [Next]_vars PROVE IInv'
      OBVIOUS
    <2>1. CASE Next
      BY <2>1, NextStep
    <2>2. CASE UNCHANGED vars
      BY <2>2, StoreUnchanged, Typing DEF vars, IInv, GrantParentsExist
    <2> QED
      BY <2>1, <2>2
  <1> QED
    BY <1>1, <1>2, PTL DEF Spec

(* The store and the grants keep their types: schema parsing of a stored      *)
(* context never fails, in particular the revision stays within four levels.  *)
THEOREM TypeCorrect == Spec => []TypeOK
  <1>1. IInv => TypeOK
    BY DEF IInv
  <1> QED
    BY <1>1, Invariance, PTL

(* close() and importDetachedResult(): a parent is at least as classified as  *)
(* every child result that reached it.                                        *)
THEOREM ResultsCovered == Spec => []ResultsAreCovered
  <1>1. IInv => ResultsAreCovered
    BY DEF IInv, ResultsAreCovered
  <1> QED
    BY <1>1, Invariance, PTL

(* #bindNew, #bindChild and #findBySubject: the lineage and the subject index *)
(* agree with the contexts.                                                   *)
THEOREM LineageAndIndex ==
  Spec => [](LineageConsistent /\ SubjectIndexConsistent)
  <1>1. IInv => LineageConsistent /\ SubjectIndexConsistent
    BY DEF IInv
  <1> QED
    BY <1>1, Invariance, PTL

(* commitIfCurrent(): equal revisions mean equal classifications, and the     *)
(* classification is a high-water mark.                                       *)
THEOREM RevisionsTrack == Spec => RevisionTracksClassification
  <1> DEFINE Tracks ==
        \A e \in Bound :
          /\ contexts'[e] # NoContext
          /\ contexts'[e].classification >= contexts[e].classification
          /\ contexts'[e].revision =
               IF contexts'[e].classification = contexts[e].classification
               THEN contexts[e].revision
               ELSE contexts[e].revision + 1
  <1>1. IInv /\ [Next]_vars => [Tracks]_vars
    BY NextStep, ConstantsAssumption DEF Evolves
  <1> QED
    BY <1>1, Invariance, PTL DEF Spec, RevisionTracksClassification

(* A closed execution never changes again.                                    *)
THEOREM ClosedStaysFrozen == Spec => ClosedIsFrozen
  <1> DEFINE Frozen ==
        \A e \in Bound : ~IsOpen(contexts[e]) => contexts'[e] = contexts[e]
  <1>1. IInv /\ [Next]_vars => [Frozen]_vars
    BY NextStep DEF Evolves
  <1> QED
    BY <1>1, Invariance, PTL DEF Spec, ClosedIsFrozen
=============================================================================
