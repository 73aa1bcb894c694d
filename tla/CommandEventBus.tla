--------------------------- MODULE CommandEventBus ---------------------------
(* The commands of CommandEventBus, packages/kernel/src/command-event-bus.ts,   *)
(* with the operation contexts that PluginManager wraps around each handler.    *)
(*                                                                              *)
(* A command has at most one handler.  A call races its handler with a timeout  *)
(* and with the caller's signal, and whoever loses runs on: a handler whose     *)
(* caller has given up still settles some day, with a context that is no longer *)
(* active.  Owners are activations of plugins; the operators below say what     *)
(* the bus does, PluginLifecycle says when.                                     *)
EXTENDS Naturals

CONSTANTS Command, Invocation,  \* bound: every invocation is used once
          Owner, NoOwner        \* NoOwner calls for the kernel and its windows

VARIABLES handlers,     \* #commandHandlers: the owner of the handler, or NoOwner
          invocations   \* calls, and the operation each of them runs

busVars == <<handlers, invocations>>

ASSUME BusAssumption == NoOwner \notin Owner

NoInvocation == [caller |-> "none", from |-> NoOwner, owner |-> NoOwner,
                 running |-> FALSE, active |-> FALSE]

BusTypeOK ==
  /\ handlers \in [Command -> Owner \cup {NoOwner}]
  /\ invocations \in
       [Invocation -> [caller : {"none", "waiting", "answered", "expired"},
                       from : Owner \cup {NoOwner}, owner : Owner \cup {NoOwner},
                       running : BOOLEAN, active : BOOLEAN]]

Answered == [NoInvocation EXCEPT !.caller = "answered"]

(* Invocations outside `available` count as over. *)
BusInit(available) ==
  /\ handlers = [c \in Command |-> NoOwner]
  /\ invocations = [i \in Invocation |-> IF i \in available THEN NoInvocation ELSE Answered]

(* invokeById finds a handler and starts it at once.  The context of an owner   *)
(* that is already aborted, which a failed activation can still be, is inactive *)
(* from the beginning.                                                          *)
Invoked(i, command, from, aborted) ==
  /\ handlers[command] # NoOwner
  /\ invocations[i] = NoInvocation
  /\ invocations' = [invocations EXCEPT ![i] =
       [caller |-> "waiting", from |-> from, owner |-> handlers[command],
        running |-> TRUE, active |-> handlers[command] \notin aborted]]

(* The timeout, or the signal the caller passed: controller.abort, then reject. *)
Expired(call) == IF call.caller = "waiting"
                 THEN [call EXCEPT !.caller = "expired", !.active = FALSE]
                 ELSE call

Expire(i) ==
  /\ invocations[i].caller = "waiting"
  /\ invocations' = [invocations EXCEPT ![i] = Expired(@)]

(* The handler returns or throws; the race is decided if it was still open.     *)
(* Nothing remains of the call but how it ended.                                *)
Settle(i) ==
  /\ invocations[i].running
  /\ invocations' = [invocations EXCEPT ![i] = [NoInvocation EXCEPT !.caller =
       IF invocations[i].caller = "waiting" THEN "answered" ELSE invocations[i].caller]]

(* The signal of `owner` aborts: its calls are cancelled, and what it handles   *)
(* for others loses its context; those callers keep waiting.                    *)
AfterAbort(call, owner) ==
  LET cancelled == IF call.from = owner THEN Expired(call) ELSE call
  IN  IF call.owner = owner THEN [cancelled EXCEPT !.active = FALSE] ELSE cancelled

(* handlers without those of `owners`: removePlugin, and the disposables. *)
Without(owners) ==
  [c \in Command |-> IF handlers[c] \in owners THEN NoOwner ELSE handlers[c]]

(* The operations that keep `owner` busy. *)
RunningFor(owner) ==
  {i \in Invocation : invocations[i].running /\ invocations[i].owner = owner}
=============================================================================
