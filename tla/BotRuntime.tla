------------------------------ MODULE BotRuntime ------------------------------
(* One bot of BotRuntime, plugins/bots/src/runtime.ts: its record, the          *)
(* executions of its attempts and the loop runs that carry them out.            *)
(*                                                                              *)
(* Operations on the bot, and the handlers of its run's events, take turns      *)
(* (#serialize).  A write to the store takes effect when it is called and       *)
(* changes the record in memory whether it succeeds or not; the rest of the     *)
(* operation goes on in a later step.  A run has the number of its attempt.     *)
(* A waiting run is a live one; logs, events of the bot and its workspace are   *)
(* left out.                                                                    *)
(*                                                                              *)
(* Operators named Broken... are plausible defects of the definition below      *)
(* them; no action uses one.                                                    *)
EXTENDS Naturals, Sequences

CONSTANTS MaxAttempts, MaxRequests, MaxRestarts   \* bounds

VARIABLES bot,        \* the BotRecord in memory
          storedBot,  \* the one in the store
          lineage,    \* stored: state and parent of each attempt's execution
          runs,       \* the loop run of each attempt
          heard,      \* how many of the run's last events the bot has been told
          watched,    \* #subscriptions: the run, or None
          queue,      \* #operations: the one at the head is being carried out
          at,         \* where it stands
          requests,   \* how often the bot was asked for something
          superseded, \* history: attempts that a start replaced unsettled
          twice,      \* history: attempts whose interruption was interrupted itself
          botRestarts

botVars == <<bot, storedBot, lineage, runs, heard, watched, queue, at, requests, superseded,
             twice, botRestarts>>

ASSUME BotAssumption ==
  MaxAttempts \in Nat /\ MaxRequests \in Nat /\ MaxRestarts \in Nat

None == 0

Attempt == 1 .. MaxAttempts

Ended == {"completed", "failed", "cancelled"}

(* The execution that create has bound is number None; it is the first head. *)
Execution == Attempt \cup {None}

Statuses == Ended \cup {"stopped", "live", "interrupted", "deleted"}

(* active: the attempt under way; knownRun: and its run; closing: pendingClose. *)
BotTypeOK ==
  /\ {bot, storedBot} \subseteq
       [status : Statuses, run : Execution, head : Execution, active : Execution,
        knownRun : BOOLEAN, closing : Execution, outcome : Ended]
  /\ lineage \in [Execution -> [state : Ended \cup {"none", "open", "interrupted", "deleted"},
                                parent : Execution]]
  /\ runs \in [Attempt -> Ended \cup {"none", "live", "lost"}]
  /\ heard \in [Attempt -> 0 .. 2]
  /\ watched \in Execution
  /\ queue \in Seq([name : {"start", "stop", "delete", "event"}, run : Execution])
  /\ at \in {"recovering", "interrupting", "turn", "bound", "prepared", "starting", "started",
             "closing", "clearing", "deleting"}
  /\ requests \in 0 .. MaxRequests
  /\ superseded \subseteq Attempt /\ twice \subseteq Execution
  /\ botRestarts \in 0 .. MaxRestarts

(* create: the record is stored; the execution it was bound under is closed     *)
(* next, or by the recovery.                                                    *)
BotInit ==
  /\ bot = [status |-> "stopped", run |-> None, head |-> None, active |-> None,
            knownRun |-> FALSE, closing |-> None, outcome |-> "completed"]
  /\ storedBot = bot
  /\ lineage = [e \in Execution |-> [state |-> IF e = None THEN "open" ELSE "none",
                                     parent |-> None]]
  /\ runs = [a \in Attempt |-> "none"] /\ heard = [a \in Attempt |-> 0]
  /\ watched = None /\ queue = <<>> /\ at = "turn" /\ requests = 0
  /\ superseded = {} /\ twice = {} /\ botRestarts = 0

CreateEnds ==
  /\ lineage[None].state = "open" /\ at = "turn"
  /\ lineage' = [lineage EXCEPT ![None].state = "completed"]
  /\ UNCHANGED <<bot, storedBot, runs, heard, watched, queue, at, requests, superseded, twice,
                 botRestarts>>

(* #persist, which may fail. *)
Persist(record) == bot' = record /\ storedBot' \in {record, storedBot}

Persisted == storedBot' = bot'

EndTurn == queue' = Tail(queue) /\ at' = "turn"

Continue(step) == UNCHANGED queue /\ at' = step

Operation(name, a) == [name |-> name, run |-> a]

Turn(name) == at = "turn" /\ queue # <<>> /\ Head(queue).name = name

(* What was active becomes the head, to be closed with the outcome. *)
Settling(record, outcome) ==
  IF record.active = None THEN record
  ELSE [record EXCEPT !.head = record.active, !.active = None, !.knownRun = FALSE,
                      !.closing = record.active, !.outcome = outcome]

(********************************* The runs ***********************************)

RunEnds(a) ==
  /\ runs[a] = "live"
  /\ \E end \in Ended : runs' = [runs EXCEPT ![a] = end]
  /\ UNCHANGED <<bot, storedBot, lineage, heard, watched, queue, at, requests, superseded,
                 twice, botRestarts>>

(* A completed run announces its state and then its output, a failed one its    *)
(* state and then its error, one when the handler of the other has ended.       *)
Announced(a) == IF runs[a] = "cancelled" THEN 1 ELSE 2

Hear(a) ==
  /\ watched = a /\ runs[a] \in Ended /\ heard[a] < Announced(a)
  /\ \A i \in DOMAIN queue : queue[i].run # a
  /\ heard' = [heard EXCEPT ![a] = @ + 1]
  /\ queue' = Append(queue, Operation("event", a))
  /\ UNCHANGED <<bot, storedBot, lineage, runs, watched, at, requests, superseded, twice,
                 botRestarts>>

Request(name) ==
  /\ at \notin {"recovering", "interrupting"} /\ requests < MaxRequests
  /\ requests' = requests + 1
  /\ queue' = Append(queue, Operation(name, None))
  /\ UNCHANGED <<bot, storedBot, lineage, runs, heard, watched, at, superseded, twice,
                 botRestarts>>

(* An operation on a bot that is gone throws; so does one whose first await     *)
(* rejects.                                                                     *)
Refuse ==
  /\ at = "turn" /\ queue # <<>>
  /\ \/ bot.status = "deleted"
     \/ Head(queue).name \in {"start", "event"}
  /\ EndTurn
  /\ UNCHANGED <<bot, storedBot, lineage, runs, heard, watched, requests, superseded, twice,
                 botRestarts>>

(*********************************** start ************************************)

BrokenIsLive == FALSE

IsLive ==
  /\ bot.status = "live" /\ bot.run # None /\ bot.active = bot.run /\ bot.knownRun
  /\ runs[bot.run] = "live"

AlreadyLive ==
  /\ Turn("start") /\ IsLive
  /\ EndTurn
  /\ UNCHANGED <<bot, storedBot, lineage, runs, heard, watched, requests, superseded, twice,
                 botRestarts>>

NextAttempt == {a \in Attempt : lineage[a].state = "none" /\ \A b \in 1 .. (a - 1) :
                                                         lineage[b].state # "none"}

(* An execution is bound under the head of the record. *)
Bind(a) ==
  /\ Turn("start") /\ bot.status # "deleted" /\ ~IsLive
  /\ a \in NextAttempt
  /\ lineage' = [lineage EXCEPT ![a] = [state |-> "open", parent |-> bot.head]]
  /\ superseded' = superseded \cup ({bot.active} \ {None})
  /\ Continue("bound")
  /\ UNCHANGED <<bot, storedBot, runs, heard, watched, requests, twice, botRestarts>>

Newest == CHOOSE a \in Attempt : lineage[a].state # "none" /\ \A b \in Attempt :
                                   b > a => lineage[b].state = "none"

(* The attempt is recorded before its run is started. *)
Prepare ==
  /\ at = "bound"
  /\ \/ /\ Persist([bot EXCEPT !.status = "live", !.run = None, !.active = Newest,
                               !.knownRun = FALSE, !.closing = None])
        /\ IF Persisted THEN Continue("prepared") ELSE EndTurn
     \/ UNCHANGED <<bot, storedBot>> /\ EndTurn
  /\ UNCHANGED <<lineage, runs, heard, watched, requests, superseded, twice, botRestarts>>

LoopStarts ==
  /\ at = "prepared"
  /\ runs' = [runs EXCEPT ![bot.active] = "live"]
  /\ Continue("starting")
  /\ UNCHANGED <<bot, storedBot, lineage, heard, watched, requests, superseded, twice,
                 botRestarts>>

LoopRefused ==
  /\ at = "prepared"
  /\ Persist([Settling(bot, "failed") EXCEPT !.status = "failed"])
  /\ IF Persisted THEN Continue("closing") ELSE EndTurn
  /\ UNCHANGED <<lineage, runs, heard, watched, requests, superseded, twice, botRestarts>>

RecordRun ==
  /\ at = "starting"
  /\ Persist([bot EXCEPT !.run = bot.active, !.knownRun = TRUE])
  /\ IF Persisted THEN Continue("started") ELSE EndTurn
  /\ UNCHANGED <<lineage, runs, heard, watched, requests, superseded, twice, botRestarts>>

(* #watch: the new subscription hears what the run has announced so far. *)
Watch ==
  /\ at = "started"
  /\ watched' = bot.run
  /\ EndTurn
  /\ UNCHANGED <<bot, storedBot, lineage, runs, heard, requests, superseded, twice,
                 botRestarts>>

(****************************** stop and delete *******************************)

(* The run that the record names is cancelled and not listened to any more. *)
CancelRun ==
  IF bot.run = None THEN UNCHANGED <<runs, watched>>
  ELSE /\ runs' = IF runs[bot.run] = "live" THEN [runs EXCEPT ![bot.run] = "cancelled"]
                  ELSE runs
       /\ watched' = None

StopBot ==
  /\ Turn("stop") /\ bot.status # "deleted"
  /\ CancelRun
  /\ LET settled == IF bot.status = "live" THEN Settling(bot, "cancelled") ELSE bot
     IN  /\ Persist([settled EXCEPT !.status = "stopped", !.run = None])
         /\ IF Persisted /\ bot.status = "live" /\ bot.active # None
            THEN Continue("closing") ELSE EndTurn
  /\ UNCHANGED <<lineage, heard, requests, superseded, twice, botRestarts>>

Delete ==
  /\ Turn("delete") /\ bot.status # "deleted"
  /\ CancelRun
  /\ Persist([bot EXCEPT !.status = "deleted"])
  /\ IF Persisted THEN Continue("deleting") ELSE EndTurn
  /\ UNCHANGED <<lineage, heard, requests, superseded, twice, botRestarts>>

Doomed == {e \in {bot.head, bot.active} : lineage[e].state = "open"}

(* The head, which is number None at first, is always among them. *)
CloseDeleted ==
  /\ at = "deleting"
  /\ IF Doomed = {} THEN EndTurn /\ UNCHANGED lineage
     ELSE \E e \in Doomed :
            \/ lineage' = [lineage EXCEPT ![e].state = "deleted"] /\ Continue("deleting")
            \/ UNCHANGED lineage /\ EndTurn
  /\ UNCHANGED <<bot, storedBot, runs, heard, watched, requests, superseded, twice,
                 botRestarts>>

(****************************** Events of the run *****************************)

(* #onLoopEvent for a run that the record still names. *)
Handle(a) ==
  /\ Turn("event") /\ Head(queue).run = a /\ bot.status # "deleted"
  /\ IF bot.run # a THEN EndTurn /\ UNCHANGED <<bot, storedBot, watched>>
     ELSE IF runs[a] = "completed" /\ heard[a] = 2
     THEN watched' = None /\ EndTurn /\ UNCHANGED <<bot, storedBot>>
     ELSE LET settled == Settling(bot, runs[a])
              kept == IF runs[a] = "completed" THEN bot.run ELSE None
          IN  /\ Persist([settled EXCEPT !.status = runs[a], !.run = kept])
              /\ watched' = IF runs[a] = "completed" THEN watched ELSE None
              /\ IF Persisted /\ bot.active # None THEN Continue("closing") ELSE EndTurn
  /\ UNCHANGED <<lineage, runs, heard, requests, superseded, twice, botRestarts>>

(* The execution is closed as the record says, which it may not be if the store *)
(* fails or it was closed otherwise.                                            *)
CloseAttempt ==
  /\ at = "closing"
  /\ \/ /\ lineage[bot.closing].state \in {"open", bot.outcome}
        /\ lineage' = [lineage EXCEPT ![bot.closing].state = bot.outcome]
        /\ Continue("clearing")
     \/ UNCHANGED lineage /\ EndTurn
  /\ UNCHANGED <<bot, storedBot, runs, heard, watched, requests, superseded, twice,
                 botRestarts>>

(* #clearPendingClose *)
ClearPendingClose ==
  /\ at = "clearing"
  /\ Persist([bot EXCEPT !.head = bot.closing, !.closing = None])
  /\ EndTurn
  /\ UNCHANGED <<lineage, runs, heard, watched, requests, superseded, twice, botRestarts>>

(***************************** Restart and recovery ***************************)

(* The process ends and the plugin is activated again: there are no runs.  A    *)
(* bot that is not in the store is not recovered.                               *)
RestartBot ==
  /\ botRestarts < MaxRestarts
  /\ botRestarts' = botRestarts + 1
  /\ bot' = storedBot
  /\ runs' = [a \in Attempt |-> IF runs[a] = "live" THEN "lost" ELSE runs[a]]
  /\ watched' = None /\ queue' = <<>>
  /\ at' = IF storedBot.status = "deleted" THEN "turn" ELSE "recovering"
  /\ twice' = twice \cup (IF at = "interrupting" THEN {bot.head} ELSE {})
  /\ UNCHANGED <<storedBot, lineage, heard, requests, superseded>>

(* initialize: a close that was under way is finished first. *)
RecoverClose ==
  /\ at = "recovering" /\ bot.closing # None
  /\ lineage[bot.closing].state \in {"open", bot.outcome}
  /\ lineage' = [lineage EXCEPT ![bot.closing].state = bot.outcome]
  /\ bot' = [bot EXCEPT !.head = bot.closing, !.closing = None]
  /\ storedBot' = bot'
  /\ UNCHANGED <<runs, heard, watched, queue, at, requests, superseded, twice, botRestarts>>

BrokenCloseIfOpen(outcome) ==
  lineage' = [lineage EXCEPT ![bot.head].state = IF @ = "open" THEN "completed" ELSE @]

CloseIfOpen(outcome) ==
  lineage' = [lineage EXCEPT ![bot.head].state = IF @ = "open" THEN outcome ELSE @]

(* A bot that was not under way: whatever its head is still open for is over.   *)
RecoverHead ==
  /\ at = "recovering" /\ bot.closing = None /\ bot.status # "live" /\ bot.active = None
  /\ CloseIfOpen(IF bot.status \in {"failed", "cancelled"} THEN bot.status ELSE "completed")
  /\ Continue("turn")
  /\ UNCHANGED <<bot, storedBot, runs, heard, watched, requests, superseded, twice,
                 botRestarts>>

BrokenInterrupted == [bot EXCEPT !.status = "interrupted", !.run = None, !.active = None,
                                 !.knownRun = FALSE]

Interrupted ==
  [bot EXCEPT !.status = "interrupted", !.run = None, !.active = None, !.knownRun = FALSE,
              !.head = IF bot.active = None THEN bot.head ELSE bot.active]

(* A bot whose run is gone. *)
InterruptBot ==
  /\ at = "recovering" /\ bot.closing = None /\ (bot.status = "live" \/ bot.active # None)
  /\ bot' = Interrupted /\ storedBot' = bot'
  /\ Continue("interrupting")
  /\ UNCHANGED <<lineage, runs, heard, watched, requests, superseded, twice, botRestarts>>

CloseInterrupted ==
  /\ at = "interrupting"
  /\ CloseIfOpen("interrupted")
  /\ Continue("turn")
  /\ UNCHANGED <<bot, storedBot, runs, heard, watched, requests, superseded, twice,
                 botRestarts>>

(******************************* Specification ********************************)

BotNext ==
  \/ CreateEnds \/ Refuse \/ RestartBot
  \/ \E name \in {"start", "stop", "delete"} : Request(name)
  \/ AlreadyLive \/ Prepare \/ LoopStarts \/ LoopRefused \/ RecordRun \/ Watch
  \/ StopBot \/ Delete \/ CloseDeleted
  \/ CloseAttempt \/ ClearPendingClose
  \/ RecoverClose \/ RecoverHead \/ InterruptBot \/ CloseInterrupted
  \/ \E a \in Attempt : RunEnds(a) \/ Hear(a) \/ Bind(a) \/ Handle(a)

BotSpec == BotInit /\ [][BotNext]_botVars

(********************************* Properties *********************************)

(* A live run is the one that the record names, so that stop and delete reach   *)
(* it and no other start runs the prompt beside it; only while a start waits    *)
(* for it the record cannot name it yet (start, 312-447).                       *)
RunIsReachable ==
  \A a \in Attempt : runs[a] = "live" =>
    \/ bot.run = a /\ bot.status # "deleted"
    \/ bot.active = a /\ at = "starting"

(* What an execution is closed as is what became of its run: completed only if  *)
(* the run was, or the recovery that recorded the interruption was interrupted  *)
(* itself; failed only if the run failed or could not be started (stop 449,     *)
(* #onLoopEvent 585-676, initialize 140-223).                                   *)
ClosedAsItEnded ==
  \A a \in Attempt :
    /\ lineage[a].state = "completed" => runs[a] = "completed" \/ a \in twice
    /\ lineage[a].state = "failed" => runs[a] \in {"failed", "none"}

(* Every set that has the parent of e, and the parent of each of its members,    *)
(* has the ancestors of e.                                                      *)
Ancestors(e) ==
  {a \in Execution :
     \A S \in SUBSET Execution :
       lineage[e].parent \in S /\ (\A d \in S : lineage[d].parent \in S) => a \in S}

(* Every attempt descends from the ones before it that had a run, so that it    *)
(* starts at least as classified as they ended, whatever was interrupted, save  *)
(* those that a start found neither running nor settled (start 314-336).        *)
LineageIsKept ==
  \A b \in Attempt : lineage[b].state # "none" =>
    \A a \in 1 .. (b - 1) : runs[a] = "none" \/ a \in Ancestors(b) \cup superseded
===============================================================================
