-------------------------- MODULE ToolServiceProofs --------------------------
(* The safety of ToolService for any registrations, tools, runs, invocations    *)
(* and classifications.                                                         *)
EXTENDS ToolService, TLAPS

(* The catalogs of one run.  What it leases was handed over, is open and comes  *)
(* from a registered provider; its bindings lead to leases; what a preparation  *)
(* still waits for was not handed over yet, and a run is prepared only once.    *)
RunInv(r) ==
  /\ policies[r].state = "none" => preparing[r] = {} /\ ~policies[r].prepared
  /\ \A p \in policies[r].leases :
       Live(r) /\ p \in providers /\ <<r, p>> \in handed /\ <<r, p>> \notin closed
  /\ \A t \in Tool : policies[r].bindings[t] \in policies[r].leases \cup {NoTarget}
  /\ \A p \in preparing[r] : <<r, p>> \notin handed /\ p \in providers \cup removed
  /\ Live(r) /\ preparing[r] # {} => ~policies[r].prepared
  /\ policies[r].state # "released" /\ ~policies[r].prepared /\ preparing[r] = {} =>
       \A p \in Provider : <<r, p>> \notin handed

(* The steps at which an invocation has its target. *)
Chosen == {"authorize", "grant", "commit", "running", "observe", "review"}

(* What an invocation knows of its target, its approval and the marks. *)
CallInv(c) ==
  LET r == calls[c].run IN
    /\ calls[c].pc \in Chosen \cup {"resolve"} => calls[c].tool \in Tool
    /\ calls[c].pc \in Chosen => /\ calls[c].target \in Registration
                                 /\ r = NoRun => calls[c].target \in Static
    /\ calls[c].pc \in {"authorize", "grant", "commit"} /\ r # NoRun =>
         calls[c].approved <= policies[r].level
    /\ calls[c].pc = "observe" => r # NoRun
    /\ calls[c].pc \in {"observe", "review"} /\ r # NoRun =>
         policies[r].level >= Output[calls[c].target]
    /\ calls[c].pc = "review" /\ r # NoRun => execution[r] >= Output[calls[c].target]

IInv == /\ TypeOK
        /\ \A r \in Run : RunInv(r)
        /\ \A c \in Call : CallInv(c)
        /\ CatalogsAreAccountedFor
        /\ ResultsAreCovered

(******************************** Two frames ********************************)

(* Levels only rise: what an invocation knows of them stays true. *)
LEMMA CallKeeps ==
  ASSUME IInv, NEW c \in Call, calls'[c] = calls[c],
         \A r \in Run : /\ policies'[r].level \in Level
                        /\ policies'[r].level >= policies[r].level
                        /\ execution'[r] \in Level
                        /\ execution'[r] >= execution[r]
  PROVE  CallInv(c)'
<1> DEFINE r == calls[c].run
<1>1. calls[c] \in Local /\ r \in Run \cup {NoRun}
  BY DEF IInv, TypeOK, Local
<1>2. CallInv(c)
  BY DEF IInv
<1>3. CASE r = NoRun
  BY <1>2, <1>3 DEF CallInv
<1>4. CASE r \in Run
  <2>1. /\ policies[r].level \in Int /\ policies'[r].level \in Int
        /\ execution[r] \in Int /\ execution'[r] \in Int
        /\ policies'[r].level >= policies[r].level
        /\ execution'[r] >= execution[r]
        /\ calls[c].approved \in Int
    BY <1>1, <1>4 DEF IInv, TypeOK, Policy, Level, Local
  <2>2. calls[c].target \in Registration => Output[calls[c].target] \in Int
    BY ToolAssumption DEF Level
  <2>3. calls[c].pc \in Chosen => calls[c].target \in Registration
    BY <1>2 DEF CallInv
  <2> QED BY <1>2, <2>1, <2>2, <2>3 DEF CallInv, Chosen
<1> QED BY <1>1, <1>3, <1>4

(* The results that were returned stay covered. *)
LEMMA ResultsKeep ==
  ASSUME IInv, returned' = returned,
         \A r \in Run : /\ policies'[r].level \in Level
                        /\ policies'[r].level >= policies[r].level
                        /\ execution'[r] \in Level
                        /\ execution'[r] >= execution[r]
  PROVE  ResultsAreCovered'
<1> SUFFICES ASSUME NEW result \in returned, result.run # NoRun
             PROVE  /\ execution'[result.run] >= Output[result.target]
                    /\ policies'[result.run].level >= Output[result.target]
  BY DEF ResultsAreCovered
<1>1. result.run \in Run /\ result.target \in Registration
  BY DEF IInv, TypeOK
<1>2. /\ policies[result.run].level \in Int /\ policies'[result.run].level \in Int
      /\ execution[result.run] \in Int /\ execution'[result.run] \in Int
      /\ Output[result.target] \in Int
  BY <1>1, ToolAssumption DEF IInv, TypeOK, Policy, Level
<1>3. /\ execution[result.run] >= Output[result.target]
      /\ policies[result.run].level >= Output[result.target]
  BY DEF IInv, ResultsAreCovered
<1> QED BY <1>1, <1>2, <1>3

(* One policy changes, with what was prepared, handed over and closed for it.   *)
(* The step owes the invariant of its own run; everything else is kept.         *)
LEMMA OneRunInv ==
  ASSUME IInv, NEW r \in Run, NEW q \in Policy, NEW w \in SUBSET Provider,
         policies' = [policies EXCEPT ![r] = q],
         preparing' = [preparing EXCEPT ![r] = w],
         closed' \subseteq handed', handed' \subseteq Run \X Provider,
         \A s \in Run, p \in Provider : s # r =>
           /\ <<s, p>> \in handed' <=> <<s, p>> \in handed
           /\ <<s, p>> \in closed' <=> <<s, p>> \in closed,
         UNCHANGED <<tools, providers, removed, execution, calls, returned>>,
         q.level >= policies[r].level,
         RunInv(r)',
         \A p \in Provider : <<r, p>> \in handed' =>
           <<r, p>> \in closed' \/ (q.state = "live" /\ p \in q.leases)
  PROVE  IInv'
<1>1. /\ policies' \in [Run -> Policy] /\ policies'[r] = q /\ preparing'[r] = w
      /\ \A s \in Run : s # r => policies'[s] = policies[s] /\ preparing'[s] = preparing[s]
  BY DEF IInv, TypeOK
<1>2. TypeOK'
  BY <1>1 DEF IInv, TypeOK
<1>3. \A s \in Run : /\ policies'[s].level \in Level
                     /\ policies'[s].level >= policies[s].level
                     /\ execution'[s] \in Level
                     /\ execution'[s] >= execution[s]
  <2> SUFFICES ASSUME NEW s \in Run
               PROVE  /\ policies'[s].level \in Level
                      /\ policies'[s].level >= policies[s].level
                      /\ execution'[s] \in Level
                      /\ execution'[s] >= execution[s]
    OBVIOUS
  <2>1. /\ policies[s].level \in Level /\ policies'[s].level \in Level
        /\ execution[s] \in Level
    BY <1>1 DEF IInv, TypeOK, Policy
  <2>2. policies[s].level \in Int /\ execution[s] \in Int
    BY <2>1 DEF Level
  <2> QED BY <1>1, <2>1, <2>2
<1>4. ASSUME NEW s \in Run PROVE RunInv(s)'
  <2>1. CASE s = r
    BY <2>1
  <2>2. CASE s # r
    <3>1. RunInv(s) /\ policies[s] \in Policy /\ preparing[s] \subseteq Provider
      BY DEF IInv, TypeOK
    <3>2. policies[s].leases \subseteq Provider
      BY <3>1 DEF Policy
    <3> QED BY <1>1, <2>2, <3>1, <3>2 DEF RunInv, Live
  <2> QED BY <2>1, <2>2
<1>5. ASSUME NEW c \in Call PROVE CallInv(c)'
  BY <1>3, CallKeeps
<1>6. CatalogsAreAccountedFor'
  <2> SUFFICES ASSUME NEW s \in Run, NEW p \in Provider, <<s, p>> \in handed',
                      <<s, p>> \notin closed'
               PROVE  Live(s)' /\ p \in policies'[s].leases /\ p \in providers'
    BY DEF CatalogsAreAccountedFor
  <2>1. CASE s = r
    BY <1>1, <2>1 DEF Live, RunInv
  <2>2. CASE s # r
    BY <1>1, <2>2 DEF IInv, CatalogsAreAccountedFor, Live
  <2> QED BY <2>1, <2>2
<1>7. ResultsAreCovered'
  BY <1>3, ResultsKeep
<1> QED BY <1>2, <1>4, <1>5, <1>6, <1>7 DEF IInv

(* Marks and durable classifications rise, and nothing else of the runs changes. *)
LEMMA RiseInv ==
  ASSUME IInv,
         policies' \in [Run -> Policy], execution' \in [Run -> Level],
         \A r \in Run : /\ policies'[r] = [policies[r] EXCEPT !.level = policies'[r].level]
                        /\ policies'[r].level >= policies[r].level
                        /\ execution'[r] >= execution[r],
         UNCHANGED <<tools, providers, removed, preparing, handed, closed>>,
         calls' \in [Call -> Local], \A c \in Call : CallInv(c)',
         returned' \subseteq [run : Run \cup {NoRun}, target : Registration, prompts : 0 .. 2],
         ResultsAreCovered'
  PROVE  IInv'
<1>1. TypeOK'
  BY DEF IInv, TypeOK
<1>2. ASSUME NEW r \in Run
      PROVE  /\ policies'[r].state = policies[r].state
             /\ policies'[r].prepared = policies[r].prepared
             /\ policies'[r].leases = policies[r].leases
             /\ policies'[r].bindings = policies[r].bindings
  BY DEF IInv, TypeOK, Policy
<1>3. ASSUME NEW r \in Run PROVE RunInv(r)'
  BY <1>2 DEF IInv, RunInv, Live
<1>4. CatalogsAreAccountedFor'
  <2> SUFFICES ASSUME NEW r \in Run, NEW p \in Provider, <<r, p>> \in handed,
                      <<r, p>> \notin closed
               PROVE  Live(r)' /\ p \in policies'[r].leases /\ p \in providers
    BY DEF CatalogsAreAccountedFor, IInv, TypeOK
  <2> QED BY <1>2 DEF IInv, CatalogsAreAccountedFor, Live
<1> QED BY <1>1, <1>3, <1>4 DEF IInv

(* One invocation takes a step, in which marks may rise. *)
LEMMA OneCallInv ==
  ASSUME IInv, NEW c \in Call, NEW l \in Local,
         calls' = [calls EXCEPT ![c] = l],
         policies' \in [Run -> Policy], execution' \in [Run -> Level],
         \A r \in Run : /\ policies'[r] = [policies[r] EXCEPT !.level = policies'[r].level]
                        /\ policies'[r].level >= policies[r].level
                        /\ execution'[r] >= execution[r],
         UNCHANGED <<tools, providers, removed, preparing, handed, closed>>,
         CallInv(c)',
         returned' \subseteq [run : Run \cup {NoRun}, target : Registration, prompts : 0 .. 2],
         ResultsAreCovered'
  PROVE  IInv'
<1>1. /\ calls' \in [Call -> Local]
      /\ \A d \in Call : d # c => calls'[d] = calls[d]
  BY DEF IInv, TypeOK
<1>2. ASSUME NEW d \in Call PROVE CallInv(d)'
  <2>1. CASE d = c
    BY <2>1
  <2>2. CASE d # c
    <3>1. \A r \in Run : policies'[r].level \in Level /\ execution'[r] \in Level
      BY DEF Policy
    <3> QED BY <1>1, <2>2, <3>1, CallKeeps
  <2> QED BY <2>1, <2>2
<1> QED BY <1>1, <1>2, RiseInv

(******************************* The registry *******************************)

LEMMA InitInv == Init => IInv
<1> SUFFICES ASSUME Init PROVE IInv
  OBVIOUS
<1>1. 1 \in Level /\ 0 \in 0 .. 1
  BY ToolAssumption DEF Level
<1>2. ASSUME NEW r \in Run
      PROVE  /\ policies[r] \in Policy /\ policies[r].state = "none"
             /\ ~policies[r].prepared /\ policies[r].leases = {}
             /\ \A t \in Tool : policies[r].bindings[t] = NoTarget
  BY <1>1 DEF Init, Policy
<1>3. ASSUME NEW c \in Call PROVE calls[c] \in Local /\ calls[c].pc = "new"
  BY <1>1 DEF Init, Idle, Local, PC
<1>4. TypeOK
  <2>1. policies \in [Run -> Policy]
    BY <1>2 DEF Init
  <2>2. calls \in [Call -> Local]
    BY <1>3 DEF Init
  <2> QED BY <1>1, <2>1, <2>2 DEF Init, TypeOK
<1>5. ASSUME NEW r \in Run PROVE RunInv(r)
  BY <1>2 DEF Init, RunInv, Live
<1>6. ASSUME NEW c \in Call PROVE CallInv(c)
  BY <1>3 DEF CallInv, Chosen
<1> QED BY <1>4, <1>5, <1>6 DEF Init, IInv, CatalogsAreAccountedFor, ResultsAreCovered

(* What the registry does leaves invocations and marks alone. *)
LEMMA RegistryFrame ==
  ASSUME IInv, UNCHANGED <<execution, calls, returned>>,
         policies' \in [Run -> Policy],
         \A r \in Run : policies'[r].level = policies[r].level
  PROVE  (\A c \in Call : CallInv(c)') /\ ResultsAreCovered'
<1>1. \A r \in Run : /\ policies'[r].level \in Level
                     /\ policies'[r].level >= policies[r].level
                     /\ execution'[r] \in Level
                     /\ execution'[r] >= execution[r]
  <2> SUFFICES ASSUME NEW r \in Run
               PROVE  /\ policies'[r].level \in Level
                      /\ policies'[r].level >= policies[r].level
                      /\ execution'[r] \in Level
                      /\ execution'[r] >= execution[r]
    OBVIOUS
  <2>1. /\ policies'[r].level \in Level /\ execution[r] \in Level
        /\ policies'[r].level \in Int /\ execution[r] \in Int
    BY DEF IInv, TypeOK, Policy, Level
  <2> QED BY <2>1
<1> QED BY <1>1, CallKeeps, ResultsKeep

LEMMA RegisterInv ==
  ASSUME IInv, NEW s \in Static, register(s)
  PROVE  IInv'
<1> USE DEF register
<1>1. TypeOK'
  BY DEF IInv, TypeOK
<1>2. ASSUME NEW r \in Run PROVE RunInv(r)'
  BY DEF IInv, RunInv, Live
<1>3. CatalogsAreAccountedFor'
  BY DEF IInv, CatalogsAreAccountedFor, Live
<1>4. (\A c \in Call : CallInv(c)') /\ ResultsAreCovered'
  BY RegistryFrame DEF IInv, TypeOK
<1> QED BY <1>1, <1>2, <1>3, <1>4 DEF IInv

LEMMA RegisterProviderInv ==
  ASSUME IInv, NEW p \in Provider, registerProvider(p)
  PROVE  IInv'
<1> USE DEF registerProvider
<1>1. TypeOK'
  BY DEF IInv, TypeOK
<1>2. ASSUME NEW r \in Run PROVE RunInv(r)'
  BY DEF IInv, RunInv, Live
<1>3. CatalogsAreAccountedFor'
  BY DEF IInv, CatalogsAreAccountedFor, Live
<1>4. (\A c \in Call : CallInv(c)') /\ ResultsAreCovered'
  BY RegistryFrame DEF IInv, TypeOK
<1> QED BY <1>1, <1>2, <1>3, <1>4 DEF IInv

(* Whatever goes at once, every policy loses exactly what it had of it. *)
LEMMA UnregisterInv ==
  ASSUME IInv, NEW gone \in SUBSET Registered, Unregister(gone)
  PROVE  IInv'
<1>1. /\ tools' = tools \ gone
      /\ providers' = providers \ gone
      /\ removed' = removed \cup gone
      /\ closed' = closed \cup {x \in Run \X gone : x[2] \in policies[x[1]].leases}
      /\ UNCHANGED <<preparing, handed, execution, calls, returned>>
  BY DEF Unregister
<1>2. ASSUME NEW r \in Run
      PROVE  /\ policies'[r] \in Policy
             /\ policies'[r].state = policies[r].state
             /\ policies'[r].prepared = policies[r].prepared
             /\ policies'[r].level = policies[r].level
             /\ policies'[r].leases = policies[r].leases \ gone
             /\ \A t \in Tool : policies'[r].bindings[t] =
                  IF policies[r].bindings[t] \in gone THEN NoTarget
                  ELSE policies[r].bindings[t]
  <2> DEFINE open == [t \in Tool |-> IF policies[r].bindings[t] \in gone
                                    THEN NoTarget ELSE policies[r].bindings[t]]
             left == policies[r].leases \ gone
  <2>1. policies[r] \in Policy
    BY DEF IInv, TypeOK
  <2>2. policies'[r] = [policies[r] EXCEPT !.bindings = open, !.leases = left]
    BY DEF Unregister
  <2>3. open \in [Tool -> Provider \cup {NoTarget}] /\ left \in SUBSET Provider
    BY <2>1 DEF Policy
  <2>4. \A t \in Tool : open[t] = IF policies[r].bindings[t] \in gone THEN NoTarget
                                  ELSE policies[r].bindings[t]
    OBVIOUS
  <2> HIDE DEF open
  <2>5. policies'[r] \in Policy /\ policies'[r].bindings = open
    BY <2>1, <2>2, <2>3 DEF Policy
  <2>6. /\ policies'[r].state = policies[r].state
        /\ policies'[r].prepared = policies[r].prepared
        /\ policies'[r].level = policies[r].level
        /\ policies'[r].leases = left
    BY <2>1, <2>2 DEF Policy
  <2> QED BY <2>4, <2>5, <2>6
<1>3. policies' \in [Run -> Policy]
  BY <1>2 DEF Unregister
<1>4. ASSUME NEW r \in Run, NEW p \in Provider
      PROVE  <<r, p>> \in closed' <=> <<r, p>> \in closed \/ (p \in gone /\ p \in policies[r].leases)
  BY <1>1
<1>5. closed' \subseteq handed
  <2> SUFFICES ASSUME NEW x \in Run \X gone, x[2] \in policies[x[1]].leases
               PROVE  x \in handed
    BY <1>1 DEF IInv, TypeOK
  <2>1. RunInv(x[1]) /\ x = <<x[1], x[2]>>
    BY DEF IInv
  <2> QED BY <2>1 DEF RunInv
<1>6. TypeOK'
  BY <1>1, <1>3, <1>5 DEF IInv, TypeOK, Registered, Registration
<1>7. ASSUME NEW r \in Run PROVE RunInv(r)'
  <2>1. RunInv(r) /\ policies[r] \in Policy /\ preparing[r] \subseteq Provider
    BY DEF IInv, TypeOK
  <2>2. policies[r].leases \subseteq Provider
    BY <2>1 DEF Policy
  <2>3. ASSUME NEW p \in policies'[r].leases
        PROVE  Live(r)' /\ p \in providers' /\ <<r, p>> \in handed' /\ <<r, p>> \notin closed'
    BY <1>1, <1>2, <1>4, <2>1, <2>2 DEF RunInv, Live
  <2>4. ASSUME NEW t \in Tool
        PROVE  policies'[r].bindings[t] \in policies'[r].leases \cup {NoTarget}
    BY <1>2, <2>1 DEF RunInv
  <2>5. ASSUME NEW p \in preparing'[r]
        PROVE  <<r, p>> \notin handed' /\ p \in providers' \cup removed'
    BY <1>1, <2>1 DEF RunInv
  <2>6. /\ policies'[r].state = "none" => preparing'[r] = {} /\ ~policies'[r].prepared
        /\ Live(r)' /\ preparing'[r] # {} => ~policies'[r].prepared
        /\ policies'[r].state # "released" /\ ~policies'[r].prepared /\ preparing'[r] = {} =>
             \A p \in Provider : <<r, p>> \notin handed'
    BY <1>1, <1>2, <2>1 DEF RunInv, Live
  <2> QED BY <2>3, <2>4, <2>5, <2>6 DEF RunInv
<1>8. CatalogsAreAccountedFor'
  <2> SUFFICES ASSUME NEW r \in Run, NEW p \in Provider, <<r, p>> \in handed,
                      <<r, p>> \notin closed'
               PROVE  Live(r)' /\ p \in policies'[r].leases /\ p \in providers'
    BY <1>1 DEF CatalogsAreAccountedFor
  <2>1. Live(r) /\ p \in policies[r].leases /\ p \in providers
    BY <1>4 DEF IInv, CatalogsAreAccountedFor
  <2> QED BY <1>1, <1>2, <1>4, <2>1 DEF Live
<1>9. (\A c \in Call : CallInv(c)') /\ ResultsAreCovered'
  BY <1>1, <1>2, <1>3, RegistryFrame
<1> QED BY <1>6, <1>7, <1>8, <1>9 DEF IInv

(******************************* Run policies *******************************)

(* The parts of a run before a step. *)
LEMMA RunFacts ==
  ASSUME IInv, NEW r \in Run
  PROVE  /\ policies[r] \in Policy /\ preparing[r] \in SUBSET Provider
         /\ policies[r].level \in Level /\ policies[r].level \in Int
         /\ policies[r].leases \in SUBSET Provider
         /\ preparing = [preparing EXCEPT ![r] = preparing[r]]
         /\ closed \subseteq handed /\ handed \subseteq Run \X Provider
         /\ RunInv(r)
         /\ \A p \in Provider : <<r, p>> \in handed =>
              <<r, p>> \in closed \/ (Live(r) /\ p \in policies[r].leases /\ p \in providers)
BY DEF IInv, TypeOK, Policy, Level, CatalogsAreAccountedFor

LEMMA RegisterRunPolicyInv ==
  ASSUME IInv, NEW r \in Run, registerRunPolicy(r)
  PROVE  IInv'
<1> DEFINE q == [policies[r] EXCEPT !.state = "live"]
<1>1. /\ q \in Policy /\ q.state = "live" /\ q.level = policies[r].level
      /\ q.leases = policies[r].leases /\ q.bindings = policies[r].bindings
      /\ q.prepared = policies[r].prepared
  BY RunFacts DEF Policy
<1>2. policies' = [policies EXCEPT ![r] = q] /\ policies'[r] = q
  BY DEF registerRunPolicy, IInv, TypeOK
<1>3. /\ preparing' = [preparing EXCEPT ![r] = preparing[r]]
      /\ UNCHANGED <<tools, providers, removed, preparing, handed, closed, execution, calls, returned>>
      /\ policies[r].state = "none"
  BY RunFacts DEF registerRunPolicy
<1> HIDE DEF q
<1>4. RunInv(r)'
  BY <1>1, <1>2, <1>3, RunFacts DEF RunInv, Live
<1>5. \A p \in Provider : <<r, p>> \in handed' =>
        <<r, p>> \in closed' \/ (q.state = "live" /\ p \in q.leases)
  BY <1>1, <1>3, RunFacts
<1>6. q.level >= policies[r].level
  BY <1>1, RunFacts
<1> QED BY <1>1, <1>2, <1>3, <1>4, <1>5, <1>6, RunFacts, OneRunInv

LEMMA DisposePolicyInv ==
  ASSUME IInv, NEW r \in Run, disposePolicy(r)
  PROVE  IInv'
<1> DEFINE none == [t \in Tool |-> NoTarget]
           q == [policies[r] EXCEPT !.state = "released", !.leases = {}, !.bindings = none]
<1>1. none \in [Tool -> Provider \cup {NoTarget}] /\ \A t \in Tool : none[t] = NoTarget
  OBVIOUS
<1>2. policies' = [policies EXCEPT ![r] = q]
  BY DEF disposePolicy
<1> HIDE DEF none
<1>3. /\ q \in Policy /\ q.state = "released" /\ q.level = policies[r].level
      /\ q.leases = {} /\ q.bindings = none
  BY <1>1, RunFacts DEF Policy
<1>4. policies'[r] = q
  BY <1>2 DEF IInv, TypeOK
<1>5. /\ preparing' = [preparing EXCEPT ![r] = preparing[r]]
      /\ UNCHANGED <<tools, providers, removed, preparing, handed, execution, calls, returned>>
      /\ closed' = closed \cup {<<r, p>> : p \in policies[r].leases}
  BY RunFacts DEF disposePolicy
<1> HIDE DEF q
<1>6. /\ closed' \subseteq handed'
      /\ \A s \in Run, p \in Provider : s # r => (<<s, p>> \in closed' <=> <<s, p>> \in closed)
  BY <1>5, RunFacts DEF RunInv
<1>7. RunInv(r)'
  <2>1. \A p \in preparing'[r] : <<r, p>> \notin handed' /\ p \in providers' \cup removed'
    BY <1>5, RunFacts DEF RunInv
  <2>2. /\ policies'[r].state = "released" /\ policies'[r].leases = {}
        /\ \A t \in Tool : policies'[r].bindings[t] \in {NoTarget}
    BY <1>1, <1>3, <1>4
  <2> QED BY <2>1, <2>2 DEF RunInv, Live
<1>8. \A p \in Provider : <<r, p>> \in handed' =>
        <<r, p>> \in closed' \/ (q.state = "live" /\ p \in q.leases)
  BY <1>5, RunFacts
<1>9. q.level >= policies[r].level
  BY <1>3, RunFacts
<1> QED BY <1>2, <1>3, <1>5, <1>6, <1>7, <1>8, <1>9, RunFacts, OneRunInv

(* Marked only raises the level of one policy. *)
LEMMA MarkedFacts ==
  ASSUME IInv, NEW r \in Run, NEW level \in Level
  PROVE  /\ Marked(r, level) \in [Run -> Policy]
         /\ Marked(r, level)[r].level >= level
         /\ Marked(r, level)[r].level \in {level, policies[r].level}
         /\ \A s \in Run :
              /\ Marked(r, level)[s] = [policies[s] EXCEPT !.level = Marked(r, level)[s].level]
              /\ Marked(r, level)[s].level >= policies[s].level
              /\ s # r => Marked(r, level)[s] = policies[s]
<1> DEFINE h == Higher(policies[r].level, level)
<1>1. /\ h \in Level /\ h >= level /\ h >= policies[r].level /\ h \in {level, policies[r].level}
  BY RunFacts DEF Higher, Level
<1>2. policies \in [Run -> Policy]
  BY DEF IInv, TypeOK
<1>3. Marked(r, level) = [policies EXCEPT ![r] = [policies[r] EXCEPT !.level = h]]
  BY <1>2 DEF Marked
<1> HIDE DEF h
<1>4. ASSUME NEW s \in Run
      PROVE  /\ policies[s] \in Policy /\ policies[s].level \in Int
             /\ policies[s] = [policies[s] EXCEPT !.level = policies[s].level]
  BY <1>2 DEF Policy, Level
<1>5. [policies[r] EXCEPT !.level = h] \in Policy /\ [policies[r] EXCEPT !.level = h].level = h
  BY <1>1, <1>4 DEF Policy
<1>6. /\ Marked(r, level)[r] = [policies[r] EXCEPT !.level = h]
      /\ \A s \in Run : s # r => Marked(r, level)[s] = policies[s]
  BY <1>2, <1>3
<1>7. Marked(r, level) \in [Run -> Policy]
  BY <1>2, <1>3, <1>5
<1>8. ASSUME NEW s \in Run
      PROVE  /\ Marked(r, level)[s] = [policies[s] EXCEPT !.level = Marked(r, level)[s].level]
             /\ Marked(r, level)[s].level >= policies[s].level
  <2>1. CASE s = r
    BY <1>1, <1>5, <1>6, <2>1
  <2>2. CASE s # r
    BY <1>4, <1>6, <2>2
  <2> QED BY <2>1, <2>2
<1> QED BY <1>1, <1>5, <1>6, <1>7, <1>8

(* A run bound to its execution, and an execution raised by others. *)
LEMMA MarksInv ==
  ASSUME IInv, NEW r \in Run, bindExecutionClassification(r) \/ Raise(r)
  PROVE  IInv'
<1>1. /\ policies' \in [Run -> Policy] /\ execution' \in [Run -> Level]
      /\ \A s \in Run : /\ policies'[s] = [policies[s] EXCEPT !.level = policies'[s].level]
                        /\ policies'[s].level >= policies[s].level
                        /\ execution'[s] >= execution[s]
      /\ UNCHANGED <<tools, providers, removed, preparing, handed, closed, calls, returned>>
  <2>1. \A s \in Run : execution[s] \in Level /\ execution[s] \in Int
    BY DEF IInv, TypeOK, Level
  <2>2. CASE bindExecutionClassification(r)
    BY <2>1, <2>2, MarkedFacts DEF bindExecutionClassification, IInv, TypeOK
  <2>3. CASE Raise(r)
    <3>1. execution[r] + 1 \in Level
      BY <2>1, <2>3, ToolAssumption DEF Raise, Level
    <3>2. \A s \in Run : execution'[s] \in {execution[s], execution[s] + 1}
      BY <2>3 DEF Raise, IInv, TypeOK
    <3>3. \A s \in Run : /\ policies[s] \in Policy /\ policies[s].level \in Int
                        /\ policies[s] = [policies[s] EXCEPT !.level = policies[s].level]
      BY DEF IInv, TypeOK, Policy, Level
    <3> QED BY <2>1, <2>3, <3>1, <3>2, <3>3 DEF Raise, IInv, TypeOK
  <2> QED BY <2>2, <2>3
<1>2. \A s \in Run : policies'[s].level \in Level /\ execution'[s] \in Level
  BY <1>1 DEF Policy
<1>3. (\A c \in Call : CallInv(c)') /\ ResultsAreCovered'
  BY <1>1, <1>2, CallKeeps, ResultsKeep
<1>4. /\ calls' \in [Call -> Local]
      /\ returned' \subseteq [run : Run \cup {NoRun}, target : Registration, prompts : 0 .. 2]
  BY <1>1 DEF IInv, TypeOK
<1> QED BY <1>1, <1>3, <1>4, RiseInv

(******************************** Preparation ********************************)

LEMMA PrepareRunInv ==
  ASSUME IInv, NEW r \in Run, prepareRun(r)
  PROVE  IInv'
<1> DEFINE q == [policies[r] EXCEPT !.prepared = (providers = {})]
<1>1. /\ q \in Policy /\ q.state = policies[r].state /\ q.level = policies[r].level
      /\ q.leases = policies[r].leases /\ q.bindings = policies[r].bindings
      /\ q.prepared = (providers = {})
  BY RunFacts DEF Policy
<1>2. policies' = [policies EXCEPT ![r] = q] /\ policies'[r] = q
  BY DEF prepareRun, IInv, TypeOK
<1>3. /\ preparing' = [preparing EXCEPT ![r] = providers] /\ preparing'[r] = providers
      /\ UNCHANGED <<tools, providers, removed, handed, closed, execution, calls, returned>>
      /\ Live(r) /\ ~policies[r].prepared /\ preparing[r] = {}
      /\ providers \in SUBSET Provider
  BY DEF prepareRun, IInv, TypeOK
<1> HIDE DEF q
<1>4. \A p \in Provider : <<r, p>> \notin handed
  BY <1>3, RunFacts DEF RunInv, Live
<1>5. RunInv(r)'
  BY <1>1, <1>2, <1>3, <1>4, RunFacts DEF RunInv, Live
<1>6. \A p \in Provider : <<r, p>> \in handed' =>
        <<r, p>> \in closed' \/ (q.state = "live" /\ p \in q.leases)
  BY <1>3, <1>4
<1>7. q.level >= policies[r].level
  BY <1>1, RunFacts
<1> QED BY <1>1, <1>2, <1>3, <1>5, <1>6, <1>7, RunFacts, OneRunInv

(* What an answer leaves of a preparation. *)
LEMMA GoesOnFacts ==
  ASSUME IInv, NEW r \in Run, NEW p \in Provider, p \in preparing[r], GoesOn(r, p)
  PROVE  \E w \in SUBSET Provider :
           /\ preparing' = [preparing EXCEPT ![r] = w]
           /\ preparing'[r] = w
           /\ w \subseteq preparing[r] \ {p}
           /\ Live(r) => (w = {} <=> preparing[r] = {p})
           /\ ~Live(r) => w = {}
<1> DEFINE w == IF Live(r) THEN preparing[r] \ {p} ELSE {}
<1>1. w \in SUBSET Provider
  BY RunFacts
<1>2. preparing' = [preparing EXCEPT ![r] = w] /\ preparing'[r] = w
  BY DEF GoesOn, IInv, TypeOK
<1> QED BY <1>1, <1>2

(* An answer whose catalog, if there is one, is closed. *)
LEMMA TurnedDownInv ==
  ASSUME IInv, NEW r \in Run, NEW p \in Provider, p \in preparing[r],
         NEW catalog \in SUBSET {<<r, p>>},
         handed' = handed \cup catalog, closed' = closed \cup catalog,
         policies' = [policies EXCEPT ![r].prepared = Prepared(r, p)],
         GoesOn(r, p),
         UNCHANGED <<tools, providers, removed, execution, calls, returned>>
  PROVE  IInv'
<1> DEFINE done == Live(r) /\ preparing[r] = {p}
           q == [policies[r] EXCEPT !.prepared = done]
<1>1. /\ q \in Policy /\ q.state = policies[r].state /\ q.level = policies[r].level
      /\ q.leases = policies[r].leases /\ q.bindings = policies[r].bindings
      /\ q.prepared = done
  BY RunFacts DEF Policy
<1>2. policies' = [policies EXCEPT ![r] = q] /\ policies'[r] = q
  BY DEF IInv, TypeOK, Prepared
<1> HIDE DEF q
<1>3. PICK w \in SUBSET Provider :
        /\ preparing' = [preparing EXCEPT ![r] = w]
        /\ preparing'[r] = w
        /\ w \subseteq preparing[r] \ {p}
        /\ Live(r) => (w = {} <=> preparing[r] = {p})
        /\ ~Live(r) => w = {}
  BY GoesOnFacts
<1>4. /\ closed' \subseteq handed' /\ handed' \subseteq Run \X Provider
      /\ \A s \in Run, o \in Provider : s # r =>
           /\ <<s, o>> \in handed' <=> <<s, o>> \in handed
           /\ <<s, o>> \in closed' <=> <<s, o>> \in closed
  BY RunFacts
<1>5. RunInv(r)'
  <2>1. RunInv(r) /\ policies[r].state # "none"
    BY RunFacts DEF RunInv
  <2>2. p \notin policies[r].leases
    BY <2>1 DEF RunInv
  <2>3. \A o \in policies'[r].leases :
          Live(r)' /\ o \in providers' /\ <<r, o>> \in handed' /\ <<r, o>> \notin closed'
    BY <1>1, <1>2, <2>1, <2>2 DEF RunInv, Live
  <2>4. \A t \in Tool : policies'[r].bindings[t] \in policies'[r].leases \cup {NoTarget}
    BY <1>1, <1>2, <2>1 DEF RunInv
  <2>5. \A o \in preparing'[r] : <<r, o>> \notin handed' /\ o \in providers' \cup removed'
    BY <1>3, <2>1 DEF RunInv
  <2>6. policies'[r].state # "none"
    BY <1>1, <1>2, <2>1
  <2>7. Live(r)' /\ preparing'[r] # {} => ~policies'[r].prepared
    BY <1>1, <1>2, <1>3 DEF Live
  <2>8. ~(policies'[r].state # "released" /\ ~policies'[r].prepared /\ preparing'[r] = {})
    <3>1. policies[r].state \in {"live", "released"}
      BY <2>1, RunFacts DEF Policy
    <3> QED BY <1>1, <1>2, <1>3, <3>1 DEF Live
  <2> QED BY <2>3, <2>4, <2>5, <2>6, <2>7, <2>8 DEF RunInv
<1>6. \A o \in Provider : <<r, o>> \in handed' =>
        <<r, o>> \in closed' \/ (q.state = "live" /\ o \in q.leases)
  BY <1>1, RunFacts DEF Live
<1>7. q.level >= policies[r].level
  BY <1>1, RunFacts
<1> QED BY <1>1, <1>2, <1>3, <1>4, <1>5, <1>6, <1>7, OneRunInv

LEMMA PrepareFailsInv ==
  ASSUME IInv, NEW r \in Run, NEW p \in Provider, PrepareFails(r, p)
  PROVE  IInv'
<1>1. PICK catalog \in {{}, {<<r, p>>}} :
        handed' = handed \cup catalog /\ closed' = closed \cup catalog
  BY DEF PrepareFails
<1>2. catalog \in SUBSET {<<r, p>>}
  BY <1>1
<1> QED BY <1>1, <1>2, TurnedDownInv DEF PrepareFails

LEMMA CatalogArrivesInv ==
  ASSUME IInv, NEW r \in Run, NEW p \in Provider, CatalogArrives(r, p)
  PROVE  IInv'
<1>1. CASE ~(Live(r) /\ p \notin removed)
  <2>1. {<<r, p>>} \in SUBSET {<<r, p>>}
    OBVIOUS
  <2> QED BY <1>1, <2>1, TurnedDownInv DEF CatalogArrives
<1>2. CASE Live(r) /\ p \notin removed
  <2> DEFINE done == Live(r) /\ preparing[r] = {p}
             t0 == ToolOf[p]
             target == IF policies[r].bindings[t0] = NoTarget
                          /\ \A s \in tools : ToolOf[s] # t0
                       THEN p ELSE policies[r].bindings[t0]
             bound == [policies[r].bindings EXCEPT ![t0] = target]
             left == policies[r].leases \cup {p}
             q == [policies[r] EXCEPT !.leases = left, !.bindings = bound, !.prepared = done]
  <2>1. t0 \in Tool
    BY ToolAssumption DEF Registration
  <2>2. policies[r].bindings \in [Tool -> Provider \cup {NoTarget}]
    BY RunFacts DEF Policy
  <2>3. /\ bound \in [Tool -> Provider \cup {NoTarget}]
        /\ \A t \in Tool : bound[t] \in {p, policies[r].bindings[t]}
        /\ left \in SUBSET Provider
    BY <2>1, <2>2, RunFacts
  <2>4. policies' = [policies EXCEPT ![r] = q]
    BY <1>2 DEF CatalogArrives, Accepted, Prepared
  <2> HIDE DEF bound
  <2>5. /\ q \in Policy /\ q.state = policies[r].state /\ q.level = policies[r].level
        /\ q.leases = left /\ q.bindings = bound /\ q.prepared = done
    BY <2>3, RunFacts DEF Policy
  <2>6. policies'[r] = q
    BY <2>4 DEF IInv, TypeOK
  <2> HIDE DEF q
  <2>7. /\ p \in preparing[r] /\ GoesOn(r, p)
        /\ handed' = handed \cup {<<r, p>>} /\ closed' = closed
        /\ UNCHANGED <<tools, providers, removed, execution, calls, returned>>
    BY <1>2 DEF CatalogArrives
  <2>8. PICK w \in SUBSET Provider :
          /\ preparing' = [preparing EXCEPT ![r] = w]
          /\ preparing'[r] = w
          /\ w \subseteq preparing[r] \ {p}
          /\ Live(r) => (w = {} <=> preparing[r] = {p})
          /\ ~Live(r) => w = {}
    BY <2>7, GoesOnFacts
  <2>9. /\ closed' \subseteq handed' /\ handed' \subseteq Run \X Provider
        /\ \A s \in Run, o \in Provider : s # r =>
             /\ <<s, o>> \in handed' <=> <<s, o>> \in handed
             /\ <<s, o>> \in closed' <=> <<s, o>> \in closed
    BY <2>7, RunFacts
  <2>10. RunInv(r)'
    <3>1. RunInv(r) /\ policies[r].state = "live"
      BY <1>2, RunFacts DEF Live
    <3>2. <<r, p>> \notin handed /\ <<r, p>> \notin closed /\ p \in providers
      BY <1>2, <2>7, <3>1, RunFacts DEF RunInv
    <3>3. \A o \in policies'[r].leases :
            Live(r)' /\ o \in providers' /\ <<r, o>> \in handed' /\ <<r, o>> \notin closed'
      BY <2>5, <2>6, <2>7, <3>1, <3>2 DEF RunInv, Live
    <3>4. \A t \in Tool : policies'[r].bindings[t] \in policies'[r].leases \cup {NoTarget}
      BY <2>3, <2>5, <2>6, <3>1 DEF RunInv
    <3>5. \A o \in preparing'[r] : <<r, o>> \notin handed' /\ o \in providers' \cup removed'
      BY <2>7, <2>8, <3>1 DEF RunInv
    <3>6. policies'[r].state = "live"
      BY <2>5, <2>6, <3>1
    <3>7. preparing'[r] = {} <=> policies'[r].prepared
      BY <1>2, <2>5, <2>6, <2>8
    <3> QED BY <3>3, <3>4, <3>5, <3>6, <3>7 DEF RunInv
  <2>11. \A o \in Provider : <<r, o>> \in handed' =>
           <<r, o>> \in closed' \/ (q.state = "live" /\ o \in q.leases)
    BY <1>2, <2>5, <2>7, RunFacts DEF Live
  <2>12. q.level >= policies[r].level
    BY <2>5, RunFacts
  <2> QED BY <2>4, <2>5, <2>7, <2>8, <2>9, <2>10, <2>11, <2>12, OneRunInv
<1> QED BY <1>1, <1>2

(******************************** Invocation ********************************)

(* What a step of an invocation may do to the marks of the runs. *)
Rising ==
  /\ policies' \in [Run -> Policy]
  /\ \A r \in Run : /\ policies'[r] = [policies[r] EXCEPT !.level = policies'[r].level]
                    /\ policies'[r].level >= policies[r].level

LEMMA StutterRises ==
  ASSUME IInv, policies' = policies
  PROVE  Rising
<1>1. \A r \in Run : /\ policies[r] \in Policy /\ policies[r].level \in Int
                    /\ policies[r] = [policies[r] EXCEPT !.level = policies[r].level]
  BY DEF IInv, TypeOK, Policy, Level
<1> QED BY <1>1 DEF Rising, IInv, TypeOK

LEMMA MarkedRises ==
  ASSUME IInv, NEW r \in Run, NEW level \in Level, policies' = Marked(r, level)
  PROVE  Rising /\ policies'[r].level >= level
BY MarkedFacts DEF Rising

LEMMA CallFacts ==
  ASSUME IInv, NEW c \in Call
  PROVE  /\ calls[c] \in Local /\ calls[c].run \in Run \cup {NoRun}
         /\ calls[c].tool \in Tool \cup {NoTool}
         /\ calls[c].target \in Registration \cup {NoTarget}
         /\ calls[c].seen \in Level /\ calls[c].approved \in Level
         /\ calls[c].prompts \in 0 .. 1 /\ calls[c].aborted \in BOOLEAN
         /\ CallInv(c)
BY DEF IInv, TypeOK, Local

(* A step of one invocation that touches nothing but itself and the marks. *)
LEMMA MovesInv ==
  ASSUME IInv, NEW c \in Call, NEW l \in Local,
         calls' = [calls EXCEPT ![c] = l], Rising, CallInv(c)',
         UNCHANGED <<tools, providers, removed, preparing, handed, closed, execution, returned>>
  PROVE  IInv'
<1>1. \A r \in Run : execution[r] \in Level /\ execution[r] \in Int
  BY DEF IInv, TypeOK, Level
<1>2. \A r \in Run : policies'[r].level \in Level
  BY DEF Rising, Policy
<1>3. \A r \in Run : /\ policies'[r] = [policies[r] EXCEPT !.level = policies'[r].level]
                     /\ policies'[r].level >= policies[r].level
                     /\ execution'[r] \in Level
                     /\ execution'[r] >= execution[r]
  BY <1>1 DEF Rising
<1>4. ResultsAreCovered'
  BY <1>2, <1>3, ResultsKeep
<1>5. /\ policies' \in [Run -> Policy] /\ execution' \in [Run -> Level]
      /\ returned' \subseteq [run : Run \cup {NoRun}, target : Registration, prompts : 0 .. 2]
  BY DEF Rising, IInv, TypeOK
<1> QED BY <1>3, <1>4, <1>5, OneCallInv

LEMMA EndFacts ==
  ASSUME IInv, NEW c \in Call, End(c)
  PROVE  /\ Idle("done") \in Local
         /\ calls' = [calls EXCEPT ![c] = Idle("done")]
         /\ CallInv(c)'
<1>1. 1 \in Level /\ 0 \in 0 .. 1
  BY ToolAssumption DEF Level
<1>2. Idle("done") \in Local /\ Idle("done").pc = "done"
  BY <1>1 DEF Idle, Local, PC
<1>3. calls'[c].pc = "done"
  BY <1>2 DEF End, IInv, TypeOK
<1>4. CallInv(c)'
  BY <1>3 DEF CallInv, Chosen
<1> QED BY <1>2, <1>4 DEF End

LEMMA EndInv ==
  ASSUME IInv, NEW c \in Call, End(c), Rising,
         UNCHANGED <<tools, providers, removed, preparing, handed, closed, execution, returned>>
  PROVE  IInv'
BY EndFacts, MovesInv

LEMMA InvokeInv ==
  ASSUME IInv, NEW c \in Call, NEW r \in Run \cup {NoRun}, NEW t \in Tool, invoke(c, r, t)
  PROVE  IInv'
<1> DEFINE l == [calls[c] EXCEPT !.pc = "resolve", !.run = r, !.tool = t,
                                 !.seen = Durable(c, r)]
<1>1. Durable(c, r) \in Level
  BY ToolAssumption DEF Durable, IInv, TypeOK, Level
<1>2. l \in Local /\ l.pc = "resolve" /\ l.tool = t
  BY <1>1, CallFacts DEF Local, PC
<1>3. calls' = [calls EXCEPT ![c] = l] /\ calls'[c] = l
  BY DEF invoke, IInv, TypeOK
<1> HIDE DEF l
<1>4. CallInv(c)'
  BY <1>2, <1>3 DEF CallInv, Chosen
<1>5. /\ policies' = policies
      /\ UNCHANGED <<tools, providers, removed, preparing, handed, closed, execution, returned>>
  BY DEF invoke
<1> QED BY <1>2, <1>3, <1>4, <1>5, StutterRises, MovesInv

(* What an id stands for is a registration; outside a run it is a static tool. *)
LEMMA TargetsFacts ==
  ASSUME IInv, NEW c \in Call, calls[c].tool \in Tool, NEW target \in Targets(c)
  PROVE  target \in Registration /\ (calls[c].run = NoRun => target \in Static)
<1> DEFINE static == {s \in tools : ToolOf[s] = calls[c].tool}
<1>1. CASE static # {}
  BY <1>1 DEF Targets, IInv, TypeOK, Registration
<1>2. CASE static = {} /\ calls[c].run # NoRun
  <2>1. calls[c].run \in Run
    BY <1>2, CallFacts
  <2>2. policies[calls[c].run].bindings \in [Tool -> Provider \cup {NoTarget}]
    BY <2>1, RunFacts DEF Policy
  <2>3. target = policies[calls[c].run].bindings[calls[c].tool] /\ target # NoTarget
    BY <1>2 DEF Targets
  <2> QED BY <1>2, <2>2, <2>3 DEF Registration
<1>3. CASE static = {} /\ calls[c].run = NoRun
  BY <1>3 DEF Targets
<1> QED BY <1>1, <1>2, <1>3

LEMMA ResolveInv ==
  ASSUME IInv, NEW c \in Call, Resolve(c)
  PROVE  IInv'
<1> DEFINE r == calls[c].run
<1>1. UNCHANGED <<tools, providers, removed, preparing, handed, closed, execution, returned>>
  BY DEF Resolve
<1>2. Rising
  <2>1. CASE policies' = policies
    BY <2>1, StutterRises
  <2>2. CASE r # NoRun /\ policies' = Marked(r, calls[c].seen)
    BY <2>2, CallFacts, MarkedRises
  <2> QED BY <2>1, <2>2 DEF Resolve
<1>3. CASE End(c)
  BY <1>1, <1>2, <1>3, EndInv
<1>4. CASE ~End(c)
  <2>1. calls[c].tool \in Tool
    BY CallFacts DEF Resolve, At, CallInv
  <2>2. PICK target \in Targets(c) :
          calls' = [calls EXCEPT
            ![c].pc = "authorize", ![c].target = target,
            ![c].approved = IF r = NoRun THEN 1 ELSE policies'[r].level]
    BY <1>4 DEF Resolve
  <2>3. target \in Registration /\ (r = NoRun => target \in Static)
    BY <2>1, TargetsFacts
  <2> DEFINE approved == IF r = NoRun THEN 1 ELSE policies'[r].level
             l == [calls[c] EXCEPT !.pc = "authorize", !.target = target, !.approved = approved]
  <2>4. approved \in Level /\ approved \in Int
    BY <1>2, CallFacts, ToolAssumption DEF Rising, Policy, Level
  <2>5. /\ l \in Local /\ l.pc = "authorize" /\ l.target = target /\ l.approved = approved
        /\ l.run = r /\ l.tool = calls[c].tool
    BY <2>3, <2>4, CallFacts DEF Local, PC
  <2>6. calls' = [calls EXCEPT ![c] = l] /\ calls'[c] = l
    BY <2>2 DEF IInv, TypeOK
  <2>7. r # NoRun => approved <= policies'[r].level
    BY <2>4
  <2> HIDE DEF l, approved
  <2>8. CallInv(c)'
    BY <2>1, <2>3, <2>5, <2>6, <2>7 DEF CallInv
  <2> QED BY <1>1, <1>2, <2>5, <2>6, <2>8, MovesInv
<1> QED BY <1>3, <1>4

LEMMA AllowInv ==
  ASSUME IInv, NEW c \in Call, NEW prompts \in 0 .. 1, Allow(c, prompts)
  PROVE  IInv'
<1> DEFINE l == [calls[c] EXCEPT !.pc = "grant", !.prompts = prompts]
<1>1. /\ policies' = policies
      /\ UNCHANGED <<tools, providers, removed, preparing, handed, closed, execution, returned>>
  BY DEF Allow
<1>2. CASE End(c)
  BY <1>1, <1>2, StutterRises, EndInv
<1>3. CASE ~End(c)
  <2>1. /\ l \in Local /\ l.pc = "grant" /\ l.run = calls[c].run /\ l.tool = calls[c].tool
        /\ l.target = calls[c].target /\ l.approved = calls[c].approved
    BY CallFacts DEF Local, PC
  <2>2. /\ calls' = [calls EXCEPT ![c] = l] /\ calls'[c] = l
        /\ calls[c].pc = "authorize"
    BY <1>3 DEF Allow, At, IInv, TypeOK
  <2> HIDE DEF l
  <2>3. CallInv(c)'
    BY <1>1, <2>1, <2>2, CallFacts DEF CallInv, Chosen
  <2> QED BY <1>1, <2>1, <2>2, <2>3, StutterRises, MovesInv
<1> QED BY <1>2, <1>3

LEMMA GrantInv ==
  ASSUME IInv, NEW c \in Call, createParentGrant(c)
  PROVE  IInv'
<1> DEFINE l == [calls[c] EXCEPT !.pc = "commit", !.seen = Durable(c, calls[c].run)]
<1>1. /\ policies' = policies
      /\ UNCHANGED <<tools, providers, removed, preparing, handed, closed, execution, returned>>
  BY DEF createParentGrant
<1>2. Durable(c, calls[c].run) \in Level
  BY CallFacts, ToolAssumption DEF Durable, IInv, TypeOK, Level
<1>3. /\ l \in Local /\ l.pc = "commit" /\ l.run = calls[c].run /\ l.tool = calls[c].tool
      /\ l.target = calls[c].target /\ l.approved = calls[c].approved
  BY <1>2, CallFacts DEF Local, PC
<1>4. calls' = [calls EXCEPT ![c] = l] /\ calls'[c] = l /\ calls[c].pc = "grant"
  BY DEF createParentGrant, At, IInv, TypeOK
<1> HIDE DEF l
<1>5. CallInv(c)'
  BY <1>1, <1>3, <1>4, CallFacts DEF CallInv, Chosen
<1> QED BY <1>1, <1>3, <1>4, <1>5, StutterRises, MovesInv

LEMMA AbortInv ==
  ASSUME IInv, NEW c \in Call, Abort(c)
  PROVE  IInv'
<1> DEFINE l == [calls[c] EXCEPT !.aborted = TRUE]
<1>1. /\ policies' = policies
      /\ UNCHANGED <<tools, providers, removed, preparing, handed, closed, execution, returned>>
  BY DEF Abort
<1>2. /\ l \in Local /\ l.pc = calls[c].pc /\ l.run = calls[c].run /\ l.tool = calls[c].tool
      /\ l.target = calls[c].target /\ l.approved = calls[c].approved
  BY CallFacts DEF Local
<1>3. calls' = [calls EXCEPT ![c] = l] /\ calls'[c] = l
  BY DEF Abort, IInv, TypeOK
<1> HIDE DEF l
<1>4. CallInv(c)'
  BY <1>1, <1>2, <1>3, CallFacts DEF CallInv
<1> QED BY <1>1, <1>2, <1>3, <1>4, StutterRises, MovesInv

LEMMA GivesUpInv ==
  ASSUME IInv, NEW c \in Call, Deny(c) \/ Abandon(c)
  PROVE  IInv'
<1>1. /\ End(c) /\ policies' = policies
      /\ UNCHANGED <<tools, providers, removed, preparing, handed, closed, execution, returned>>
  BY DEF Deny, Abandon
<1> QED BY <1>1, StutterRises, EndInv

(* Advancing an invocation leaves the rest of it as it is. *)
LEMMA StepFacts ==
  ASSUME IInv, NEW c \in Call, NEW pc \in PC, calls' = [calls EXCEPT ![c].pc = pc]
  PROVE  \E l \in Local :
           /\ calls' = [calls EXCEPT ![c] = l] /\ calls'[c] = l
           /\ l.pc = pc /\ l.run = calls[c].run /\ l.tool = calls[c].tool
           /\ l.target = calls[c].target /\ l.approved = calls[c].approved
<1> DEFINE l == [calls[c] EXCEPT !.pc = pc]
<1>1. /\ l \in Local /\ l.pc = pc /\ l.run = calls[c].run /\ l.tool = calls[c].tool
      /\ l.target = calls[c].target /\ l.approved = calls[c].approved
  BY CallFacts DEF Local
<1>2. calls' = [calls EXCEPT ![c] = l] /\ calls'[c] = l
  BY DEF IInv, TypeOK
<1> HIDE DEF l
<1> QED BY <1>1, <1>2

LEMMA CommitInv ==
  ASSUME IInv, NEW c \in Call, Commit(c)
  PROVE  IInv'
<1> DEFINE r == calls[c].run
<1>1. UNCHANGED <<tools, providers, removed, preparing, handed, closed, execution, returned>>
  BY DEF Commit
<1>2. Rising
  <2>1. CASE policies' = policies
    BY <2>1, StutterRises
  <2>2. CASE r # NoRun /\ policies' = Marked(r, calls[c].seen)
    BY <2>2, CallFacts, MarkedRises
  <2> QED BY <2>1, <2>2 DEF Commit
<1>3. CASE End(c)
  BY <1>1, <1>2, <1>3, EndInv
<1>4. CASE ~End(c)
  <2>1. calls' = [calls EXCEPT ![c].pc = "running"] /\ calls[c].pc = "commit"
    BY <1>4 DEF Commit, At
  <2>2. "running" \in PC
    BY DEF PC
  <2>3. PICK l \in Local :
          /\ calls' = [calls EXCEPT ![c] = l] /\ calls'[c] = l
          /\ l.pc = "running" /\ l.run = r /\ l.tool = calls[c].tool
          /\ l.target = calls[c].target /\ l.approved = calls[c].approved
    BY <2>1, <2>2, StepFacts
  <2>4. CallInv(c)'
    BY <2>1, <2>3, CallFacts DEF CallInv, Chosen
  <2> QED BY <1>1, <1>2, <2>3, <2>4, MovesInv
<1> QED BY <1>3, <1>4

LEMMA ResultInv ==
  ASSUME IInv, NEW c \in Call, Result(c)
  PROVE  IInv'
<1> DEFINE r == calls[c].run
<1>1. /\ UNCHANGED <<tools, providers, removed, preparing, handed, closed, execution, returned>>
      /\ calls[c].pc = "running" /\ calls[c].target \in Registration
  BY CallFacts DEF Result, At, CallInv, Chosen
<1>2. Output[calls[c].target] \in Level /\ Output[calls[c].target] \in Int
  BY <1>1, ToolAssumption DEF Level
<1>3. Rising /\ (~End(c) /\ r # NoRun => policies'[r].level >= Output[calls[c].target])
  <2>1. CASE policies' = policies /\ (End(c) \/ r = NoRun)
    BY <2>1, StutterRises
  <2>2. CASE r # NoRun /\ policies' = Marked(r, Output[calls[c].target])
    BY <1>2, <2>2, CallFacts, MarkedRises
  <2> QED BY <2>1, <2>2 DEF Result, Marked
<1>4. CASE End(c)
  BY <1>1, <1>3, <1>4, EndInv
<1>5. CASE ~End(c)
  <2> DEFINE pc == IF r = NoRun THEN "review" ELSE "observe"
  <2>1. calls' = [calls EXCEPT ![c].pc = pc] /\ pc \in PC
    BY <1>5 DEF Result, PC
  <2>2. PICK l \in Local :
          /\ calls' = [calls EXCEPT ![c] = l] /\ calls'[c] = l
          /\ l.pc = pc /\ l.run = r /\ l.tool = calls[c].tool
          /\ l.target = calls[c].target /\ l.approved = calls[c].approved
    BY <2>1, StepFacts
  <2>3. CallInv(c)'
    BY <1>1, <1>3, <1>5, <2>2, CallFacts DEF CallInv, Chosen
  <2> QED BY <1>1, <1>3, <2>2, <2>3, MovesInv
<1> QED BY <1>4, <1>5

LEMMA ObserveInv ==
  ASSUME IInv, NEW c \in Call, Observe(c)
  PROVE  IInv'
<1> DEFINE r == calls[c].run
           h == Higher(execution[r], Output[calls[c].target])
<1>1. /\ UNCHANGED <<tools, providers, removed, policies, preparing, handed, closed, returned>>
      /\ calls[c].pc = "observe" /\ r \in Run /\ calls[c].target \in Registration
      /\ policies[r].level >= Output[calls[c].target]
  BY CallFacts DEF Observe, At, CallInv, Chosen
<1>2. /\ Output[calls[c].target] \in Level /\ Output[calls[c].target] \in Int
      /\ \A s \in Run : execution[s] \in Level /\ execution[s] \in Int
  BY <1>1, ToolAssumption DEF Level, IInv, TypeOK
<1>3. h \in Level /\ h >= execution[r] /\ h >= Output[calls[c].target]
  BY <1>1, <1>2 DEF Higher
<1>4. execution' = [execution EXCEPT ![r] = h]
  BY DEF Observe
<1> HIDE DEF h
<1>5. /\ execution' \in [Run -> Level] /\ execution'[r] >= Output[calls[c].target]
      /\ \A s \in Run : execution'[s] \in Level /\ execution'[s] >= execution[s]
  BY <1>1, <1>2, <1>3, <1>4 DEF IInv, TypeOK
<1>6. Rising
  BY <1>1, StutterRises
<1>7. PICK l \in Local :
        /\ calls' = [calls EXCEPT ![c] = l] /\ calls'[c] = l
        /\ l.pc = "review" /\ l.run = r /\ l.tool = calls[c].tool
        /\ l.target = calls[c].target /\ l.approved = calls[c].approved
  BY StepFacts DEF Observe, PC
<1>8. CallInv(c)'
  BY <1>1, <1>5, <1>7, CallFacts DEF CallInv, Chosen
<1>9. ResultsAreCovered'
  BY <1>1, <1>5, <1>6, ResultsKeep DEF Rising, Policy
<1>10. returned' \subseteq [run : Run \cup {NoRun}, target : Registration, prompts : 0 .. 2]
  BY <1>1 DEF IInv, TypeOK
<1> QED BY <1>1, <1>5, <1>6, <1>7, <1>8, <1>9, <1>10, OneCallInv DEF Rising

LEMMA ReturnInv ==
  ASSUME IInv, NEW c \in Call, Return(c)
  PROVE  IInv'
<1> DEFINE r == calls[c].run
<1>1. PICK prompt \in {0, 1} :
        returned' = returned \cup {[run |-> r, target |-> calls[c].target,
                                    prompts |-> calls[c].prompts + prompt]}
  BY DEF Return
<1>2. /\ UNCHANGED <<tools, providers, removed, policies, preparing, handed, closed, execution>>
      /\ End(c) /\ calls[c].pc = "review" /\ calls[c].target \in Registration
      /\ r # NoRun => /\ policies[r].level >= Output[calls[c].target]
                      /\ execution[r] >= Output[calls[c].target]
  BY CallFacts DEF Return, At, CallInv, Chosen
<1>3. calls[c].prompts + prompt \in 0 .. 2
  BY CallFacts
<1>4. returned' \subseteq [run : Run \cup {NoRun}, target : Registration, prompts : 0 .. 2]
  BY <1>1, <1>2, <1>3, CallFacts DEF IInv, TypeOK
<1>5. ResultsAreCovered'
  BY <1>1, <1>2 DEF IInv, ResultsAreCovered
<1>6. Rising
  BY <1>2, StutterRises
<1>7. /\ execution' \in [Run -> Level]
      /\ \A s \in Run : execution'[s] >= execution[s]
  BY <1>2 DEF IInv, TypeOK, Level
<1> QED BY <1>2, <1>4, <1>5, <1>6, <1>7, EndFacts, OneCallInv DEF Rising

(********************************* Theorems *********************************)

LEMMA NextInv ==
  ASSUME IInv, [Next]_vars
  PROVE  IInv'
<1>1. CASE \E s \in Static : register(s)
  BY <1>1, RegisterInv
<1>2. CASE \E p \in Provider : registerProvider(p)
  BY <1>2, RegisterProviderInv
<1>3. CASE \E x \in Registration : Dispose(x)
  <2>1. PICK x \in Registration : x \in Registered /\ Unregister({x})
    BY <1>3 DEF Dispose
  <2>2. {x} \in SUBSET Registered
    BY <2>1
  <2> QED BY <2>1, <2>2, UnregisterInv
<1>4. CASE \E plugin \in {Owner[x] : x \in Registration} : removePlugin(plugin)
  <2>1. PICK plugin \in {Owner[x] : x \in Registration} : removePlugin(plugin)
    BY <1>4
  <2>2. /\ {x \in Registered : Owner[x] = plugin} \in SUBSET Registered
        /\ Unregister({x \in Registered : Owner[x] = plugin})
    BY <2>1 DEF removePlugin
  <2> QED BY <2>2, UnregisterInv
<1>5. CASE \E r \in Run : registerRunPolicy(r)
  BY <1>5, RegisterRunPolicyInv
<1>6. CASE \E r \in Run : disposePolicy(r)
  BY <1>6, DisposePolicyInv
<1>7. CASE \E r \in Run : bindExecutionClassification(r) \/ Raise(r)
  BY <1>7, MarksInv
<1>8. CASE \E r \in Run : prepareRun(r)
  BY <1>8, PrepareRunInv
<1>9. CASE \E r \in Run : Answer(r)
  BY <1>9, CatalogArrivesInv, PrepareFailsInv DEF Answer
<1>10. CASE \E c \in Call, r \in Run \cup {NoRun}, t \in Tool : invoke(c, r, t)
  BY <1>10, InvokeInv
<1>11. CASE \E c \in Call : Step(c) \/ Abort(c) \/ Abandon(c)
  <2>1. PICK c \in Call : Step(c) \/ Abort(c) \/ Abandon(c)
    BY <1>11
  <2>2. CASE Resolve(c)
    BY <2>2, ResolveInv
  <2>3. CASE \E prompts \in 0 .. 1 : Allow(c, prompts)
    BY <2>3, AllowInv
  <2>4. CASE Deny(c) \/ Abandon(c)
    BY <2>4, GivesUpInv
  <2>5. CASE createParentGrant(c)
    BY <2>5, GrantInv
  <2>6. CASE Commit(c)
    BY <2>6, CommitInv
  <2>7. CASE Result(c)
    BY <2>7, ResultInv
  <2>8. CASE Observe(c)
    BY <2>8, ObserveInv
  <2>9. CASE Return(c)
    BY <2>9, ReturnInv
  <2>10. CASE Abort(c)
    BY <2>10, AbortInv
  <2> QED BY <2>1, <2>2, <2>3, <2>4, <2>5, <2>6, <2>7, <2>8, <2>9, <2>10 DEF Step
<1>12. CASE UNCHANGED vars
  <2>1. /\ UNCHANGED <<tools, providers, removed, preparing, handed, closed>>
        /\ UNCHANGED <<policies, execution, calls, returned>>
    BY <1>12 DEF vars
  <2>2. Rising
    BY <2>1, StutterRises
  <2>3. \A r \in Run : /\ policies'[r].level \in Level
                       /\ policies'[r].level >= policies[r].level
                       /\ execution'[r] \in Level
                       /\ execution'[r] >= execution[r]
    BY <2>1, <2>2 DEF Rising, Policy, IInv, TypeOK, Level
  <2>4. (\A c \in Call : CallInv(c)') /\ ResultsAreCovered'
    BY <2>1, <2>3, CallKeeps, ResultsKeep
  <2>5. /\ execution' \in [Run -> Level] /\ calls' \in [Call -> Local]
        /\ returned' \subseteq [run : Run \cup {NoRun}, target : Registration, prompts : 0 .. 2]
    BY <2>1 DEF IInv, TypeOK
  <2> QED BY <2>1, <2>2, <2>3, <2>4, <2>5, RiseInv DEF Rising
<1> QED BY <1>1, <1>2, <1>3, <1>4, <1>5, <1>6, <1>7, <1>8, <1>9, <1>10, <1>11, <1>12 DEF Next

LEMMA Invariance == Spec => []IInv
<1>1. IInv /\ [Next]_vars => IInv'
  BY NextInv
<1> QED BY <1>1, InitInv, PTL DEF Spec

(* Every variable of the tool service keeps its type. *)
THEOREM TypeCorrect == Spec => []TypeOK
<1>1. IInv => TypeOK
  BY DEF IInv
<1> QED BY <1>1, Invariance, PTL

(* #acceptCatalog, the release of a run and the removal of a provider between   *)
(* them lose no catalog: each is closed, or leased where one of them closes it. *)
THEOREM CatalogsAccounted == Spec => []CatalogsAreAccountedFor
<1>1. IInv => CatalogsAreAccountedFor
  BY DEF IInv
<1> QED BY <1>1, Invariance, PTL

(* The bindings that invoke() resolves a dynamic tool by always lead to a       *)
(* registered provider and an open catalog of a live run.                       *)
THEOREM BindingsOpen == Spec => []BindingsAreOpen
<1>1. IInv => BindingsAreOpen
  <2> SUFFICES ASSUME IInv, NEW r \in Run, NEW t \in Tool,
                      policies[r].bindings[t] # NoTarget
               PROVE  /\ Live(r)
                      /\ policies[r].bindings[t] \in providers
                      /\ policies[r].bindings[t] \in policies[r].leases
                      /\ <<r, policies[r].bindings[t]>> \notin closed
    BY DEF BindingsAreOpen
  <2>1. RunInv(r)
    BY DEF IInv
  <2>2. policies[r].bindings[t] \in policies[r].leases
    BY <2>1 DEF RunInv
  <2> QED BY <2>1, <2>2 DEF RunInv
<1> QED BY <1>1, Invariance, PTL

(* invoke() gives a run no result that its mark or the durable classification   *)
(* of its execution does not cover.                                             *)
THEOREM ResultsCovered == Spec => []ResultsAreCovered
<1>1. IInv => ResultsAreCovered
  BY DEF IInv
<1> QED BY <1>1, Invariance, PTL

(* What the last checks of invoke() establish before a handler starts. *)
LEMMA CommitStarts ==
  ASSUME IInv, [Next]_vars, NEW c \in Call,
         At(c, "commit"), calls'[c].pc = "running"
  PROVE  Commit(c)
<1>1. calls[c].pc = "commit" /\ calls \in [Call -> Local]
  BY DEF At, IInv, TypeOK
<1>2. ASSUME NEW d \in Call, End(d) PROVE FALSE
  BY <1>1, <1>2 DEF End, Idle
<1>3. ASSUME calls' = calls PROVE FALSE
  BY <1>1, <1>3
<1>4. ~(\E d \in Call, r \in Run \cup {NoRun}, t \in Tool : invoke(d, r, t))
  BY <1>1 DEF invoke, At
<1>5. \A d \in Call : ~Resolve(d)
  BY <1>1, <1>2 DEF Resolve, At
<1>6. \A d \in Call, prompts \in 0 .. 1 : ~Allow(d, prompts)
  BY <1>1, <1>2 DEF Allow, At
<1>7. \A d \in Call : ~Deny(d) /\ ~Abandon(d) /\ ~Return(d)
  BY <1>2 DEF Deny, Abandon, Return
<1>8. \A d \in Call : ~createParentGrant(d) /\ ~Observe(d) /\ ~Abort(d)
  <2> SUFFICES ASSUME NEW d \in Call
               PROVE  ~createParentGrant(d) /\ ~Observe(d) /\ ~Abort(d)
    OBVIOUS
  <2>1. ASSUME createParentGrant(d) PROVE FALSE
    <3>1. d # c
      BY <1>1, <2>1 DEF createParentGrant, At
    <3>2. calls'[c] = calls[c]
      BY <1>1, <2>1, <3>1 DEF createParentGrant
    <3> QED BY <1>1, <3>2
  <2>2. ~Observe(d)
    BY <1>1 DEF Observe, At
  <2>3. ASSUME Abort(d) PROVE FALSE
    <3>1. calls'[c].pc = calls[c].pc
      BY <1>1, <2>3 DEF Abort, Local
    <3> QED BY <1>1, <3>1
  <2> QED BY <2>1, <2>2, <2>3
<1>9. \A d \in Call : ~Result(d)
  BY <1>1, <1>2 DEF Result, At
<1>10. \A d \in Call : Commit(d) => d = c
  BY <1>1, <1>2 DEF Commit, At
<1>11. \A gone : ~Unregister(gone)
  BY <1>3 DEF Unregister
<1>12. /\ \A s \in Static : ~register(s)
       /\ \A p \in Provider : ~registerProvider(p)
       /\ \A x \in Registration : ~Dispose(x)
       /\ \A plugin \in {Owner[x] : x \in Registration} : ~removePlugin(plugin)
  BY <1>3, <1>11 DEF register, registerProvider, Dispose, removePlugin
<1>13. \A r \in Run : /\ ~registerRunPolicy(r) /\ ~disposePolicy(r)
                      /\ ~bindExecutionClassification(r) /\ ~Raise(r) /\ ~prepareRun(r)
                      /\ ~Answer(r)
  BY <1>3 DEF registerRunPolicy, disposePolicy, bindExecutionClassification, Raise,
              prepareRun, Answer, CatalogArrives, PrepareFails
<1>14. ~UNCHANGED vars
  BY <1>3 DEF vars
<1> QED BY <1>4, <1>5, <1>6, <1>7, <1>8, <1>9, <1>10, <1>12, <1>13, <1>14 DEF Next, Step

(* The check that ends in commit() is enough, though the plugin, the run and    *)
(* the mark may all have changed since the authorizer was asked: a handler only *)
(* starts for the registration and at the mark that were approved.              *)
THEOREM StartApproved == Spec => StartIsApproved
<1>1. IInv /\ [Next]_vars =>
        [\A c \in Call : At(c, "commit") /\ calls'[c].pc = "running" =>
           LET r == calls[c].run
               target == calls[c].target
           IN /\ target \in Registered
              /\ target \in Provider => <<r, target>> \notin closed
              /\ r # NoRun => /\ Live(r)
                              /\ policies[r].level = calls[c].approved
                              /\ calls[c].approved >= calls[c].seen]_vars
  <2> SUFFICES ASSUME IInv, [Next]_vars, NEW c \in Call,
                      At(c, "commit"), calls'[c].pc = "running"
               PROVE  /\ calls[c].target \in Registered
                      /\ calls[c].target \in Provider =>
                           <<calls[c].run, calls[c].target>> \notin closed
                      /\ calls[c].run # NoRun =>
                           /\ Live(calls[c].run)
                           /\ policies[calls[c].run].level = calls[c].approved
                           /\ calls[c].approved >= calls[c].seen
    OBVIOUS
  <2> DEFINE r == calls[c].run
             target == calls[c].target
  <2>1. Commit(c)
    BY CommitStarts
  <2>2. ~End(c)
    BY DEF End, Idle, IInv, TypeOK
  <2>3. /\ Current(c) /\ (r # NoRun => Live(r))
        /\ r # NoRun => /\ policies' = Marked(r, calls[c].seen)
                        /\ policies'[r].level = calls[c].approved
    BY <2>1, <2>2 DEF Commit
  <2>4. /\ target \in Registration /\ (r = NoRun => target \in Static)
        /\ r # NoRun => calls[c].approved <= policies[r].level
    BY CallFacts DEF At, CallInv, Chosen
  <2>5. target \in Registered /\ (target \in Provider => <<r, target>> \notin closed)
    <3>1. CASE target \in Static
      BY <2>3, <3>1, ToolAssumption DEF Current, Registered
    <3>2. CASE target \notin Static
      <4>1. r \in Run /\ calls[c].tool \in Tool /\ target # NoTarget
        BY <2>4, <3>2, CallFacts, ToolAssumption DEF At, CallInv, Chosen
      <4>2. policies[r].bindings[calls[c].tool] = target
        BY <2>3, <3>2 DEF Current
      <4>3. RunInv(r)
        BY <4>1, RunFacts
      <4>4. target \in policies[r].leases
        BY <4>1, <4>2, <4>3 DEF RunInv
      <4> QED BY <4>3, <4>4 DEF RunInv, Registered
    <3> QED BY <3>1, <3>2
  <2>6. r # NoRun => /\ Live(r) /\ policies[r].level = calls[c].approved
                     /\ calls[c].approved >= calls[c].seen
    <3> SUFFICES ASSUME r # NoRun
                 PROVE  /\ Live(r) /\ policies[r].level = calls[c].approved
                        /\ calls[c].approved >= calls[c].seen
      OBVIOUS
    <3>1. r \in Run /\ calls[c].seen \in Level /\ calls[c].approved \in Int
      BY CallFacts DEF Level
    <3>2. /\ policies'[r].level >= calls[c].seen
          /\ policies'[r].level >= policies[r].level
      BY <2>3, <3>1, MarkedFacts
    <3>3. policies[r].level \in Int
      BY <3>1, RunFacts
    <3> QED BY <2>3, <2>4, <3>1, <3>2, <3>3
  <2> QED BY <2>5, <2>6
<1> QED BY <1>1, Invariance, PTL DEF Spec, StartIsApproved
=============================================================================
