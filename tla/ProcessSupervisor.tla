-------------------------- MODULE ProcessSupervisor --------------------------
(* ProcessSupervisor and SupervisedProcess,                                     *)
(* packages/kernel/src/process-supervisor.ts: child processes from their spawn  *)
(* to the moment the supervisor lets go of them.                                *)
(*                                                                              *)
(* A child exists from the call of spawn on, is registered when its "spawn"     *)
(* event arrives, and is ended by closing its standard input, then SIGTERM,     *)
(* then SIGKILL, each with a time limit of its own.  Timers may expire at any   *)
(* time.  A child whose spawn fails never exists and is left out.               *)
(*                                                                              *)
(* Operators named Broken... are plausible defects of the definition below      *)
(* them; no action uses one.                                                    *)
EXTENDS Naturals

CONSTANTS Child,   \* bound: every child is used once
          Parent   \* whoever a signal belongs to: activations and invocations

VARIABLES children,    \* step: where its spawn or #terminate stands; alive; sent:
                       \* the strongest signal; forced: #forceKill, while stdin is
                       \* closed; parents: the sources of its signal; told: it has
                       \* aborted during the spawn
          supervising  \* ~#stopped

processVars == <<children, supervising>>

Ending == {"stdin", "term", "kill"}  \* #terminate is under way

NoChild == [step |-> "none", alive |-> FALSE, sent |-> "none", forced |-> FALSE,
            parents |-> {}, told |-> FALSE]

ProcessTypeOK ==
  /\ children \in [Child -> [step : {"none", "spawning", "reaping", "owned", "released"}
                                     \cup Ending,
                             alive : BOOLEAN, sent : {"none", "SIGTERM", "SIGKILL"},
                             forced : BOOLEAN, parents : SUBSET Parent, told : BOOLEAN]]
  /\ supervising \in BOOLEAN

Gone == [NoChild EXCEPT !.step = "released"]

(* Children outside `available` count as gone. *)
ProcessInit(available) ==
  /\ children = [c \in Child |-> IF c \in available THEN NoChild ELSE Gone]
  /\ supervising = TRUE

Spawn(c, parents) ==
  /\ supervising /\ children[c] = NoChild
  /\ children' = [children EXCEPT ![c] = [NoChild EXCEPT !.step = "spawning",
                                          !.alive = TRUE, !.parents = parents]]
  /\ UNCHANGED supervising

(* The "spawn" event.  A child whose signal has aborted is killed and waited    *)
(* for; any other is registered.                                                *)
Spawned(c) ==
  /\ children[c].step = "spawning"
  /\ children' = [children EXCEPT ![c] =
       IF @.told THEN [@ EXCEPT !.step = "reaping", !.sent = "SIGKILL"]
                 ELSE [@ EXCEPT !.step = "owned"]]
  /\ UNCHANGED supervising

(* The "exit" event, which lets go of the child whatever it was waiting for.    *)
Exit(c) ==
  /\ children[c].alive /\ children[c].step # "spawning"
  /\ children' = [children EXCEPT ![c] = Gone]
  /\ UNCHANGED supervising

(* close(), which does nothing the second time. *)
Closed(child) == IF child.step = "owned" THEN [child EXCEPT !.step = "stdin"] ELSE child

Close(c) ==
  /\ children[c].step = "owned"
  /\ children' = [children EXCEPT ![c] = Closed(@)]
  /\ UNCHANGED supervising

(* kill(): nothing waits for the grace any more. *)
Kill(c) ==
  /\ \/ children[c].step \in {"owned", "stdin"} /\ ~children[c].forced
     \/ children[c].step = "term" /\ children[c].sent # "SIGKILL"
  /\ children' = [children EXCEPT ![c] =
       CASE @.step = "owned" -> [Closed(@) EXCEPT !.forced = TRUE]
         [] @.step = "stdin" -> [@ EXCEPT !.forced = TRUE, !.sent = "SIGKILL"]
         [] @.step = "term"  -> [@ EXCEPT !.sent = "SIGKILL"]]
  /\ UNCHANGED supervising

(* closeStdin has ended the stream or given up on it. *)
StdinEnded(c) ==
  /\ children[c].step = "stdin"
  /\ children' = [children EXCEPT ![c] =
       IF @.forced THEN [@ EXCEPT !.step = "kill", !.sent = "SIGKILL", !.forced = FALSE]
                   ELSE [@ EXCEPT !.step = "term", !.sent = "SIGTERM"]]
  /\ UNCHANGED supervising

(* The grace is over: SIGKILL and a last wait, or, for a child killed while it  *)
(* was spawned, no further wait.                                                *)
GraceOver(c) ==
  /\ children[c].step \in {"term", "reaping"}
  /\ children' = [children EXCEPT ![c] =
       IF @.step = "term" THEN [@ EXCEPT !.step = "kill", !.sent = "SIGKILL"]
                          ELSE [@ EXCEPT !.step = "released"]]
  /\ UNCHANGED supervising

ForceOver(c) ==
  /\ children[c].step = "kill"
  /\ children' = [children EXCEPT ![c].step = "released"]
  /\ UNCHANGED supervising

BrokenTold(child) == Closed(child)

(* The signal the child was spawned with aborts: a child that is not registered *)
(* yet is killed at once, a registered one is closed.                           *)
Told(child) ==
  IF child.step = "spawning" THEN [child EXCEPT !.told = TRUE, !.sent = "SIGKILL"]
  ELSE Closed(child)

TerminationEnds(c) == StdinEnded(c) \/ GraceOver(c) \/ ForceOver(c)
=============================================================================
