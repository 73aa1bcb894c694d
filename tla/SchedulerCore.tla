---------------------------- MODULE SchedulerCore ----------------------------
(* SchedulerCore of packages/kernel/src/scheduler-core.ts: one-shot and cron    *)
(* callbacks of plugins, timers that hold at most MaxDelay, and cancellation    *)
(* while a callback waits, runs or has been cancelled and still runs.           *)
(*                                                                              *)
(* A registration is one accepted call of schedule or scheduleCron; the entry   *)
(* that a cron arms anew after each run replaces its last one, so it keeps its  *)
(* name.  Deadlines are the ticks left until them.  A callback is called in the *)
(* microtask after its timer; the two are one step.                             *)
(* Operators named Broken... are plausible defects of the definition below      *)
(* them; no action uses one.                                                    *)
EXTENDS Integers

CONSTANTS Owner,          \* plugins
          Id,             \* schedule ids
          Registration,   \* registrations alive at a time; a name is used again
          MaxWait,        \* bound: ticks until a deadline
          MaxDelay,       \* MAX_TIMER_DELAY_MS in ticks
          NoRegistration

VARIABLES entries,        \* the ScheduledCallback of each registration
          callbacks,      \* #callbacks
          running,        \* #runningCallbacks
          stopped,        \* #stopped
          cancelled       \* history: registrations that a cancel was to end

vars == <<entries, callbacks, running, stopped, cancelled>>

Key == Owner \X Id

Kind == {"once", "cron"}

(* "armed": its timer is set; "executing": its callback has not settled. *)
Entry == [state : {"free", "armed", "executing"}, key : Key, kind : Kind,
          left : 0 .. MaxWait, timer : 0 .. MaxWait, aborted : BOOLEAN]

ASSUME SchedulerAssumption ==
  /\ MaxWait \in Nat /\ MaxDelay \in Nat \ {0}
  /\ NoRegistration \notin Registration
  /\ Owner # {} /\ Id # {}

Init ==
  /\ \E k \in Key :
       entries = [r \in Registration |-> [state |-> "free", key |-> k, kind |-> "once",
                                          left |-> 0, timer |-> 0, aborted |-> FALSE]]
  /\ callbacks = [k \in Key |-> NoRegistration]
  /\ running = {}
  /\ stopped = FALSE
  /\ cancelled = {}

Pending(r) == callbacks[entries[r].key] = r

(* #arm: setTimeout holds at most MaxDelay. *)
Armed(k, kind, wait) ==
  [state |-> "armed", key |-> k, kind |-> kind, left |-> wait,
   timer |-> IF wait > MaxDelay THEN MaxDelay ELSE wait, aborted |-> FALSE]

(* What nothing refers to any more keeps no history either. *)
Free(r) == [entries[r] EXCEPT !.state = "free", !.left = 0, !.timer = 0,
                              !.kind = "once", !.aborted = FALSE]

(******************************* Registration *******************************)

Register(r, k, kind, wait) ==
  /\ ~stopped
  /\ callbacks[k] = NoRegistration
  /\ entries[r].state = "free"
  /\ entries' = [entries EXCEPT ![r] = Armed(k, kind, wait)]
  /\ callbacks' = [callbacks EXCEPT ![k] = r]
  /\ cancelled' = cancelled \ {r}
  /\ UNCHANGED <<running, stopped>>

(********************************* The timer *********************************)

Tick ==
  /\ entries' = [r \in Registration |->
       [entries[r] EXCEPT !.left  = IF entries[r].left > 0 THEN entries[r].left - 1 ELSE 0,
                          !.timer = IF entries[r].timer > 0 THEN entries[r].timer - 1 ELSE 0]]
  /\ UNCHANGED <<callbacks, running, stopped, cancelled>>

BrokenFireDrops(r) ==
  /\ entries[r].state = "armed" /\ entries[r].timer = 0
  /\ IF ~Pending(r) \/ entries[r].left > 0
     THEN /\ entries' = [entries EXCEPT ![r] = Free(r)]
          /\ callbacks' = [k \in Key |-> IF callbacks[k] = r THEN NoRegistration ELSE callbacks[k]]
          /\ UNCHANGED running
     ELSE /\ entries' = [entries EXCEPT ![r].state = "executing"]
          /\ callbacks' = [callbacks EXCEPT ![entries[r].key] = NoRegistration]
          /\ running' = running \cup {r}
  /\ UNCHANGED <<stopped, cancelled>>

(* A timer whose entry is not the registered one any more does nothing; one     *)
(* that is early is set again; the others take the entry out and call it.       *)
Fire(r) ==
  /\ entries[r].state = "armed" /\ entries[r].timer = 0
  /\ IF ~Pending(r) \/ entries[r].aborted
     THEN /\ entries' = [entries EXCEPT ![r] = Free(r)]
          /\ UNCHANGED <<callbacks, running>>
     ELSE IF entries[r].left > 0
     THEN /\ entries' = [entries EXCEPT
               ![r] = Armed(entries[r].key, entries[r].kind, entries[r].left)]
          /\ UNCHANGED <<callbacks, running>>
     ELSE /\ entries' = [entries EXCEPT ![r].state = "executing"]
          /\ callbacks' = [callbacks EXCEPT ![entries[r].key] = NoRegistration]
          /\ running' = running \cup {r}
  /\ UNCHANGED <<stopped, cancelled>>

(* #rearmCron: a cron is armed again unless it was cancelled or all is stopped. *)
Rearms(r) == entries[r].kind = "cron" /\ ~stopped /\ ~entries[r].aborted

(* The callback has returned or failed. *)
Settle(r) ==
  /\ entries[r].state = "executing"
  /\ running' = running \ {r}
  /\ IF Rearms(r)
     THEN /\ \E wait \in 1 .. MaxWait :
               entries' = [entries EXCEPT ![r] = Armed(entries[r].key, "cron", wait)]
          /\ callbacks' = [callbacks EXCEPT ![entries[r].key] = r]
     ELSE /\ entries' = [entries EXCEPT ![r] = Free(r)]
          /\ UNCHANGED callbacks
  /\ UNCHANGED <<stopped, cancelled>>

(******************************** Cancellation ********************************)

(* The entries a cancel finds under the keys in ks, waiting or running. *)
Found(ks) == {r \in Registration : entries[r].key \in ks /\ (Pending(r) \/ r \in running)}

BrokenCancelKeys(ks) ==
  /\ entries' = [r \in Registration |->
       IF r \in Found(ks) /\ Pending(r) THEN Free(r) ELSE entries[r]]
  /\ callbacks' = [k \in Key |-> IF k \in ks THEN NoRegistration ELSE callbacks[k]]
  /\ running' = running \ Found(ks)
  /\ cancelled' = cancelled \cup Found(ks)

(* #cancelEntry for each: a waiting entry loses its timer, a running one is     *)
(* told by its signal and goes on until its callback settles.                   *)
CancelKeys(ks) ==
  /\ entries' = [r \in Registration |->
       IF r \notin Found(ks) THEN entries[r]
       ELSE IF Pending(r) THEN Free(r)
       ELSE [entries[r] EXCEPT !.aborted = TRUE]]
  /\ callbacks' = [k \in Key |-> IF k \in ks THEN NoRegistration ELSE callbacks[k]]
  /\ running' = running \ Found(ks)
  /\ cancelled' = cancelled \cup Found(ks)

(* cancel, which disposing any registration of the key also calls. *)
Cancel(k) == CancelKeys({k}) /\ UNCHANGED stopped

CancelOwned(o) == CancelKeys({o} \X Id) /\ UNCHANGED stopped

Shutdown ==
  /\ ~stopped
  /\ stopped' = TRUE
  /\ CancelKeys(Key)

Next ==
  \/ \E r \in Registration, k \in Key, kind \in Kind, wait \in 0 .. MaxWait :
       (kind = "cron" => wait > 0) /\ Register(r, k, kind, wait)
  \/ Tick
  \/ \E r \in Registration : Fire(r) \/ Settle(r)
  \/ \E k \in Key : Cancel(k)
  \/ \E o \in Owner : CancelOwned(o)
  \/ Shutdown

Spec == Init /\ [][Next]_vars

(* The clock runs and due timers fire; a callback may run for ever. *)
FairSpec == Spec /\ WF_vars(Tick) /\ \A r \in Registration : WF_vars(Fire(r))

(******************************** Properties ********************************)

(* Everything keeps its type. *)
TypeOK ==
  /\ entries \in [Registration -> Entry]
  /\ callbacks \in [Key -> Registration \cup {NoRegistration}]
  /\ running \subseteq Registration
  /\ stopped \in BOOLEAN
  /\ cancelled \subseteq Registration

(* What waits under a key is an entry of that key with its timer set, and what  *)
(* counts as running is executing and can still be told to stop: no schedule    *)
(* waits for a timer it does not have (#callbacks, #runningCallbacks).          *)
WaitingIsArmed ==
  /\ \A k \in Key : callbacks[k] # NoRegistration =>
       entries[callbacks[k]].key = k /\ entries[callbacks[k]].state = "armed"
  /\ \A r \in running : entries[r].state = "executing" /\ ~entries[r].aborted

(* A registration that a cancel, the end of its plugin or the shutdown found is *)
(* never armed again, not even by a cron callback that was running then.        *)
CancelledStaysCancelled ==
  \A r \in cancelled : ~Pending(r) /\ r \notin running

(* Once the scheduler has stopped, nothing waits and nothing runs uncancelled. *)
StoppedIsQuiet ==
  stopped => running = {} /\ \A k \in Key : callbacks[k] = NoRegistration

(* A cron armed again after its callback has taken the place of r, which was     *)
(* registered under the cron's id while that callback ran (#rearmCron, 219).    *)
Displaced(r) ==
  /\ entries[r].state = "armed" /\ ~Pending(r)
  /\ \E cron \in Registration :
       callbacks[entries[r].key] = cron /\ entries[cron].kind = "cron"

(* The callback of what waits under a key is called or cancelled, however far   *)
(* its deadline; leaving #callbacks is not enough.  The exception is what the   *)
(* code accepts and then replaces by a running cron of the same id.             *)
EveryScheduleFires ==
  \A r \in Registration : Pending(r) ~> (r \in running \/ r \in cancelled \/ Displaced(r))

==============================================================================
