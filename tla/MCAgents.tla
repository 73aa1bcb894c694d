------------------------------- MODULE MCAgents -------------------------------
(* Two plugins that work on their own and share no state: a behaviour is one of *)
(* a graph's instance, or one of a bot beside a graph that has ended.           *)
EXTENDS MCGraphInstance, BotRuntime

VARIABLE agent

GraphOver ==
  /\ graph = Asking
  /\ inst = [NewInstance(graph) EXCEPT !.status = "completed"] /\ stored = inst
  /\ execution = "completed" /\ up = TRUE /\ task = "none" /\ batch = {}
  /\ worker = [n \in Step |-> "idle"] /\ signalled = {}
  /\ delays = {} /\ delayCall = {} /\ settling = [o \in Outcome |-> "idle"]
  /\ performed = [n \in Step |-> 0] /\ stops = 0

Init ==
  /\ BotInit
  /\ \/ agent = "graph" /\ GraphInit
     \/ agent = "bot" /\ GraphOver

Next ==
  \/ agent = "graph" /\ GraphNext /\ UNCHANGED <<agent, botVars>>
  \/ agent = "bot" /\ BotNext /\ UNCHANGED <<agent, graphVars>>

Spec == Init /\ [][Next]_<<agent, graphVars, botVars>> /\ GraphFairness
===============================================================================
