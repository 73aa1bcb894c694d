---------------------------- MODULE PluginProofs ------------------------------
(* The safety of plugins: the manager that activates and deactivates them, with *)
(* the bus and the child processes, and the stateful plugins that were          *)
(* modelled, the bots runtime and the mail channel.                             *)
EXTENDS BotRuntime, MailChannel, PluginLifecycle, SequenceTheorems, TLAPS

--------------------------------------------------------------------------------
(* BotRuntime: for any attempts, requests, restarts and executions.             *)


(* A live run is the one that a start is about to record or that the record     *)
(* names as live; nothing else is under way while there is one.                 *)
LiveIsRecorded ==
  \A a \in Attempt : runs[a] = "live" =>
    \/ at = "starting" /\ bot.active = a
    \/ /\ at \in {"turn", "started"}
       /\ bot.run = a /\ bot.status = "live" /\ bot.active = a /\ bot.knownRun

(* Events are those of runs that have ended. *)
EventsAreLate ==
  \A i \in DOMAIN queue : queue[i].name = "event" =>
    queue[i].run \in Attempt /\ runs[queue[i].run] \in Ended

(* Attempts are bound one after the other, and have a run only then. *)
BoundFirst ==
  \A a \in Attempt : lineage[a].state = "none" =>
    /\ runs[a] = "none" /\ lineage[a].parent = None
    /\ \A b \in Attempt : b > a => lineage[b].state = "none"

(* The attempt that a start has bound is the newest, open, without a run and    *)
(* bound under the head of the record.                                          *)
NewlyBound(a) ==
  /\ a \in Attempt
  /\ lineage[a].state = "open" /\ runs[a] = "none" /\ lineage[a].parent = bot.head
  /\ \A b \in Attempt : b > a => lineage[b].state = "none"

StepIsDue ==
  /\ at \notin {"recovering", "interrupting", "turn"} => queue # <<>>
  /\ at = "bound" => /\ \E a \in Attempt : NewlyBound(a)
                     /\ bot.active \in superseded \cup {None}
  /\ at = "prepared" => /\ NewlyBound(bot.active) /\ bot.status = "live"
                        /\ bot.closing = None /\ storedBot = bot
  /\ at = "starting" => bot.active \in Attempt /\ bot.status = "live"
  /\ at \in {"closing", "clearing"} => bot.closing # None
  /\ at = "clearing" => lineage[bot.closing].state = bot.outcome
  /\ at \in {"recovering", "interrupting"} => storedBot = bot /\ bot.status # "deleted"
  /\ at = "interrupting" => bot.active = None /\ bot.closing = None

(* A record: its head and the attempts it names belong together. *)
Coherent(r) ==
  /\ r.run # None /\ r.active # None => r.run = r.active
  /\ r.active # None => /\ r.closing = None /\ r.status \in {"live", "deleted"}
                        /\ lineage[r.active].parent = r.head
                        /\ lineage[r.active].state # "none"
  /\ r.status = "live" => r.active # None
  /\ r.closing # None => r.head = r.closing
  /\ r.head # None => lineage[r.head].state # "none"

(* What a record has still to be closed as is what became of the run. *)
ClosesAsItEnded(r) ==
  r.closing # None =>
    /\ r.outcome = "completed" => runs[r.closing] = "completed"
    /\ r.outcome = "failed" => runs[r.closing] \in {"failed", "none"}

(* The head of a record with nothing under way is open only if it was           *)
(* interrupted and the interruption too.                                        *)
HeadIsClosed(r) ==
  r.closing = None /\ r.active = None /\ r.status \notin {"live", "deleted"} /\ r.head # None
    /\ lineage[r.head].state = "open"
  => /\ r.status = "interrupted"
     /\ at = "interrupting" \/ (at = "recovering" /\ r.head \in twice)

ParentsAreBound ==
  \A e \in Execution : lineage[e].parent # None => lineage[lineage[e].parent].state # "none"

(* Every attempt that has had a run is the head of the record, or under way, or *)
(* an ancestor of the head.                                                     *)
HeadDescends(r) ==
  \A a \in Attempt :
    runs[a] = "none" \/ a \in {r.head, r.active} \cup Ancestors(r.head) \cup superseded

RecordInv(r) == Coherent(r) /\ ClosesAsItEnded(r) /\ HeadIsClosed(r) /\ HeadDescends(r)

BotInv ==
  /\ BotTypeOK
  /\ LiveIsRecorded /\ EventsAreLate
  /\ BoundFirst /\ ParentsAreBound /\ StepIsDue
  /\ \A r \in {bot, storedBot} : RecordInv(r)
  /\ ClosedAsItEnded /\ LineageIsKept

BotRecord == [status : Statuses, run : Execution, head : Execution, active : Execution,
              knownRun : BOOLEAN, closing : Execution, outcome : Ended]

BotOperation == [name : {"start", "stop", "delete", "event"}, run : Execution]

LEMMA BotInitInv == BotInit => BotInv
<1> SUFFICES ASSUME BotInit PROVE BotInv
  OBVIOUS
<1>a. /\ \A a \in Attempt : a \in Execution /\ a # None /\ a \in Nat
      /\ None \in Execution
  BY BotAssumption DEF Execution, Attempt, None
<1>0. /\ \A e \in Execution : lineage[e].parent = None
      /\ \A a \in Attempt : lineage[a].state = "none" /\ runs[a] = "none"
  BY <1>a DEF BotInit
<1>1. BotTypeOK
  <2>1. /\ {bot, storedBot} \subseteq BotRecord /\ watched \in Execution
        /\ lineage \in [Execution -> [state : Ended \cup {"none", "open", "interrupted", "deleted"},
                                      parent : Execution]]
    BY <1>a, <1>0 DEF BotInit, BotRecord, Statuses, Ended
  <2>2. /\ runs \in [Attempt -> Ended \cup {"none", "live", "lost"}] /\ heard \in [Attempt -> 0 .. 2]
        /\ requests \in 0 .. MaxRequests /\ botRestarts \in 0 .. MaxRestarts
    BY BotAssumption DEF BotInit
  <2>3. queue \in Seq(BotOperation)
    BY EmptySeq DEF BotInit
  <2> QED BY <2>1, <2>2, <2>3 DEF BotInit, BotTypeOK, BotRecord, BotOperation
<1>2. LiveIsRecorded /\ EventsAreLate /\ BoundFirst /\ ParentsAreBound /\ StepIsDue
  BY <1>a, <1>0 DEF BotInit, LiveIsRecorded, EventsAreLate, BoundFirst, ParentsAreBound, StepIsDue
<1>3. RecordInv(bot) /\ storedBot = bot
  BY <1>a, <1>0 DEF BotInit, RecordInv, Coherent, ClosesAsItEnded, HeadIsClosed, HeadDescends
<1>4. ClosedAsItEnded /\ LineageIsKept
  BY <1>a, <1>0 DEF ClosedAsItEnded, LineageIsKept
<1> QED BY <1>1, <1>2, <1>3, <1>4 DEF BotInv

(* The parent of an attempt and its ancestors are ancestors of the attempt. *)
LEMMA AncestorsOfParent ==
  ASSUME NEW e \in Execution
  PROVE  ({lineage[e].parent} \cup Ancestors(lineage[e].parent)) \cap Execution \subseteq Ancestors(e)
BY DEF Ancestors

(* Nothing but parents makes ancestors. *)
LEMMA AncestorsStay ==
  ASSUME NEW e \in Execution, \A d \in Execution : lineage'[d].parent = lineage[d].parent
  PROVE  Ancestors(e) \subseteq Ancestors(e)'
BY DEF Ancestors

(* No execution loses an ancestor when another one is bound, which is nobody's  *)
(* parent yet.                                                                  *)
LEMMA AncestorsOfBound ==
  ASSUME NEW e \in Execution, NEW b \in Execution, e # b,
         \A d \in Execution \ {b} : lineage'[d].parent = lineage[d].parent
                                    /\ lineage[d].parent # b
  PROVE  Ancestors(e) \subseteq Ancestors(e)'
<1> SUFFICES ASSUME NEW a \in Ancestors(e), NEW S \in SUBSET Execution,
                    lineage'[e].parent \in S, \A d \in S : lineage'[d].parent \in S
             PROVE  a \in S
  BY DEF Ancestors
<1>1. /\ S \ {b} \in SUBSET Execution
      /\ lineage[e].parent \in S \ {b}
      /\ \A d \in S \ {b} : lineage[d].parent \in S \ {b}
  OBVIOUS
<1>2. a \in S \ {b}
  BY <1>1 DEF Ancestors
<1> QED BY <1>2

(* The operation at the head of the queue. *)
LEMMA QueueHead ==
  ASSUME BotTypeOK, queue # <<>>
  PROVE  /\ Head(queue) \in BotOperation /\ Head(queue) = queue[1] /\ 1 \in DOMAIN queue
         /\ Tail(queue) \in Seq(BotOperation)
         /\ \A i \in DOMAIN Tail(queue) : i + 1 \in DOMAIN queue /\ Tail(queue)[i] = queue[i + 1]
<1>1. queue \in Seq(BotOperation)
  BY DEF BotTypeOK, BotOperation
<1> HIDE DEF BotOperation
<1>2. /\ Head(queue) \in BotOperation /\ Tail(queue) \in Seq(BotOperation)
      /\ Len(Tail(queue)) = Len(queue) - 1
      /\ \A i \in 1 .. Len(Tail(queue)) : Tail(queue)[i] = queue[i + 1]
  BY <1>1, HeadTailProperties
<1>3. DOMAIN queue = 1 .. Len(queue) /\ Len(queue) \in Nat /\ Len(queue) # 0
  BY <1>1, LenProperties, EmptySeq
<1>4. DOMAIN Tail(queue) = 1 .. Len(Tail(queue))
  BY <1>2, LenProperties
<1>5. Head(queue) = queue[1]
  BY <1>1
<1> QED BY <1>2, <1>3, <1>4, <1>5

(* Asking the bot, or telling it of a run that has ended. *)
LEMMA QueueAppend ==
  ASSUME BotTypeOK, EventsAreLate, runs' = runs, NEW o \in BotOperation,
         o.name = "event" => o.run \in Attempt /\ runs[o.run] \in Ended,
         queue' = Append(queue, o)
  PROVE  queue' \in Seq(BotOperation) /\ EventsAreLate'
<1>1. queue \in Seq(BotOperation)
  BY DEF BotTypeOK, BotOperation
<1>2. /\ queue' \in Seq(BotOperation) /\ Len(queue') = Len(queue) + 1
      /\ \A i \in 1 .. Len(queue) : queue'[i] = queue[i]
      /\ queue'[Len(queue) + 1] = o
  BY <1>1, AppendProperties
<1>3. /\ DOMAIN queue = 1 .. Len(queue) /\ Len(queue) \in Nat
      /\ DOMAIN queue' = 1 .. Len(queue')
  BY <1>1, <1>2, LenProperties
<1>4. EventsAreLate'
  BY <1>2, <1>3 DEF EventsAreLate
<1> QED BY <1>2, <1>4

(* Events stay late while runs that have ended stay as they are. *)
LEMMA EventsStay ==
  ASSUME BotTypeOK, EventsAreLate, queue' \in {queue, <<>>} \/ (queue # <<>> /\ queue' = Tail(queue)),
         \A a \in Attempt : runs[a] \in Ended => runs'[a] = runs[a]
  PROVE  queue' \in Seq(BotOperation) /\ EventsAreLate'
<1>1. CASE queue' = queue
  BY <1>1 DEF EventsAreLate, BotTypeOK, BotOperation
<1>2. CASE queue' = <<>>
  BY <1>2, EmptySeq DEF EventsAreLate
<1>3. CASE queue # <<>> /\ queue' = Tail(queue)
  BY <1>3, QueueHead DEF EventsAreLate
<1> QED BY <1>1, <1>2, <1>3

LEMMA AttemptIsExecution ==
  /\ \A a \in Attempt : a \in Execution /\ a # None /\ a \in Nat
  /\ None \in Execution /\ Execution \subseteq Nat
  /\ \A e \in Execution : e # None => e \in Attempt
BY BotAssumption DEF Execution, Attempt, None

(* The types that an action is about. *)
ExecutionRecord == [state : Ended \cup {"none", "open", "interrupted", "deleted"},
                    parent : Execution]

LEMMA Types ==
  BotTypeOK =>
  /\ bot \in BotRecord /\ storedBot \in BotRecord
  /\ lineage \in [Execution -> ExecutionRecord]
  /\ runs \in [Attempt -> Ended \cup {"none", "live", "lost"}]
  /\ superseded \subseteq Attempt /\ twice \subseteq Execution
BY DEF BotTypeOK, BotRecord, ExecutionRecord

(* What is settled of a record is a record. *)
LEMMA SettlingType ==
  ASSUME NEW r \in BotRecord, NEW o \in Ended
  PROVE  /\ Settling(r, o) \in BotRecord
         /\ Settling(r, o).run = r.run /\ Settling(r, o).status = r.status
         /\ Settling(r, o).active = None
         /\ r.active = None => Settling(r, o) = r
         /\ r.active # None => /\ Settling(r, o).head = r.active
                               /\ Settling(r, o).closing = r.active
                               /\ Settling(r, o).outcome = o
BY AttemptIsExecution DEF Settling, BotRecord

LEMMA TypeFrom ==
  ASSUME BotTypeOK, bot' \in BotRecord, storedBot' \in {bot', storedBot},
         lineage' \in [Execution -> ExecutionRecord],
         runs' \in [Attempt -> Ended \cup {"none", "live", "lost"}],
         queue' \in Seq(BotOperation),
         at' \in {"recovering", "interrupting", "turn", "bound", "prepared", "starting", "started",
                  "closing", "clearing", "deleting"},
         superseded' \subseteq Attempt, twice' \subseteq Execution,
         heard' = heard, watched' \in Execution, requests' = requests, botRestarts' = botRestarts
  PROVE  BotTypeOK'
BY DEF BotTypeOK, BotRecord, ExecutionRecord, BotOperation

(* What a step leaves of the descent: parents stay, what is bound stays bound   *)
(* and what is closed closed, and no run begins or is forgotten.                *)
DescentStays ==
  /\ \A e \in Execution : /\ lineage'[e].parent = lineage[e].parent
                          /\ lineage'[e].state = "none" <=> lineage[e].state = "none"
                          /\ lineage'[e].state = "open" => lineage[e].state = "open"
  /\ \A a \in Attempt : /\ runs'[a] = "none" <=> runs[a] = "none"
                        /\ runs[a] \in Ended => runs'[a] = runs[a]
  /\ superseded \subseteq superseded' /\ twice \subseteq twice'

LEMMA DescentInv ==
  ASSUME BotTypeOK, BoundFirst, ParentsAreBound, LineageIsKept, DescentStays
  PROVE  BoundFirst' /\ ParentsAreBound' /\ LineageIsKept'
<1>1. BoundFirst'
  BY AttemptIsExecution DEF BoundFirst, DescentStays
<1>2. ParentsAreBound'
  BY Types DEF ParentsAreBound, DescentStays, ExecutionRecord
<1>3. LineageIsKept'
  <2> SUFFICES ASSUME NEW b \in Attempt, lineage'[b].state # "none",
                      NEW a \in 1 .. (b - 1), runs'[a] # "none", a \notin superseded'
               PROVE  a \in Ancestors(b)'
    BY DEF LineageIsKept
  <2>1. a \in Attempt /\ b \in Execution
    BY AttemptIsExecution, BotAssumption DEF Attempt
  <2>2. a \in Ancestors(b)
    BY <2>1 DEF LineageIsKept, DescentStays
  <2> QED BY <2>1, <2>2, AncestorsStay DEF DescentStays
<1> QED BY <1>1, <1>2, <1>3

(* A record keeps its invariant with the descent. *)
LEMMA RecordStays ==
  ASSUME BotTypeOK, NEW r \in BotRecord, RecordInv(r), DescentStays,
         \/ at \notin {"recovering", "interrupting"} \/ at' = at
         \/ r.head # None => lineage'[r.head].state # "open"
  PROVE  RecordInv(r)'
<1> USE DEF BotRecord
<1>1. Coherent(r)'
  BY DEF RecordInv, Coherent, DescentStays
<1>2. ClosesAsItEnded(r)'
  BY AttemptIsExecution DEF RecordInv, ClosesAsItEnded, DescentStays, Ended
<1>3. HeadIsClosed(r)'
  BY DEF RecordInv, HeadIsClosed, DescentStays
<1>4. HeadDescends(r)'
  <2> SUFFICES ASSUME NEW a \in Attempt, runs'[a] # "none",
                      a \notin {r.head, r.active} \cup superseded'
               PROVE  a \in Ancestors(r.head)'
    BY DEF HeadDescends
  <2>1. a \in Ancestors(r.head)
    BY DEF RecordInv, HeadDescends, DescentStays
  <2> QED BY <2>1, AncestorsStay DEF DescentStays
<1> QED BY <1>1, <1>2, <1>3, <1>4 DEF RecordInv

(* So it does when its head moves on to what was under way. *)
LEMMA HeadMovesTo ==
  ASSUME BotTypeOK, NEW r \in BotRecord, NEW s \in BotRecord, HeadDescends(r), DescentStays,
         \/ s.head = r.head
         \/ r.active # None /\ s.head = r.active /\ lineage[r.active].parent = r.head,
         r.active \in {s.head, s.active, None} \cup superseded
  PROVE  HeadDescends(s)'
<1> SUFFICES ASSUME NEW b \in Attempt, runs'[b] # "none", b \notin {s.head, s.active} \cup superseded'
             PROVE  b \in Ancestors(s.head)'
  BY DEF HeadDescends
<1>1. /\ s.head \in Execution /\ r.head \in Execution /\ r.active \in Execution
      /\ b \in Execution /\ b # None
  BY AttemptIsExecution DEF BotRecord
<1>2. b \in {r.head} \cup Ancestors(r.head)
  BY <1>1 DEF HeadDescends, DescentStays
<1>3. b \in Ancestors(s.head)
  BY <1>1, <1>2, AncestorsOfParent
<1> QED BY <1>1, <1>3, AncestorsStay DEF DescentStays

LEMMA HeadMoves ==
  ASSUME BotTypeOK, bot' \in BotRecord, HeadDescends(bot), DescentStays,
         \/ bot'.head = bot.head
         \/ bot.active # None /\ bot'.head = bot.active /\ lineage[bot.active].parent = bot.head,
         bot.active \in {bot'.head, bot'.active, None} \cup superseded
  PROVE  HeadDescends(bot)'
<1>1. PICK r \in BotRecord : r = bot
  BY Types
<1>2. PICK s \in BotRecord : s = bot'
  OBVIOUS
<1>3. HeadDescends(s)'
  BY <1>1, <1>2, HeadMovesTo DEF HeadDescends
<1> QED BY <1>2, <1>3 DEF HeadDescends

(* Runs are left alone, and a step that is due too, unless what is under way    *)
(* has changed.                                                                 *)
LEMMA NoLiveRun ==
  ASSUME BotInv, at \notin {"turn", "started", "starting"}
  PROVE  \A a \in Attempt : runs[a] # "live"
BY DEF BotInv, LiveIsRecorded

LEMMA ClosedStays ==
  ASSUME ClosedAsItEnded, DescentStays,
         \A a \in Attempt : lineage'[a].state \in {lineage[a].state, "cancelled", "interrupted", "deleted"}
  PROVE  ClosedAsItEnded'
BY DEF ClosedAsItEnded, DescentStays, Ended

(* What remains to be shown of a step that leaves the descent alone. *)
LEMMA StepInv ==
  ASSUME BotInv, BotTypeOK', EventsAreLate', DescentStays, RecordInv(bot)',
         \/ storedBot' = bot'
         \/ storedBot' = storedBot /\ (at \notin {"recovering", "interrupting"} \/ at' = at),
         LiveIsRecorded', StepIsDue', ClosedAsItEnded'
  PROVE  BotInv'
<1>1. BoundFirst' /\ ParentsAreBound' /\ LineageIsKept'
  BY DescentInv DEF BotInv
<1>2. RecordInv(storedBot)'
  <2>1. CASE storedBot' = bot'
    BY <2>1 DEF RecordInv, Coherent, ClosesAsItEnded, HeadIsClosed, HeadDescends
  <2>2. CASE storedBot' = storedBot /\ (at \notin {"recovering", "interrupting"} \/ at' = at)
    <3> DEFINE r == storedBot
    <3>1. r \in BotRecord /\ RecordInv(r) /\ BotTypeOK
      BY Types DEF BotInv
    <3> HIDE DEF r
    <3>2. PICK s \in BotRecord : s = r
      BY <3>1
    <3>3. RecordInv(s)'
      BY <2>2, <3>1, <3>2, RecordStays
    <3>4. storedBot' = s
      BY <2>2, <3>2 DEF r
    <3> QED BY <3>3, <3>4 DEF RecordInv, Coherent, ClosesAsItEnded, HeadIsClosed, HeadDescends
  <2> QED BY <2>1, <2>2
<1> QED BY <1>1, <1>2 DEF BotInv

(* The record in memory, when it stays. *)
LEMMA BotStays ==
  ASSUME BotInv, bot' = bot, DescentStays,
         \/ at \notin {"recovering", "interrupting"} \/ at' = at
         \/ bot.head # None => lineage'[bot.head].state # "open"
  PROVE  RecordInv(bot)'
<1>1. PICK r \in BotRecord : r = bot
  BY Types DEF BotInv
<1>2. RecordInv(r) /\ BotTypeOK
  BY <1>1 DEF BotInv
<1>3. RecordInv(r)'
  BY <1>1, <1>2, RecordStays
<1> QED BY <1>1, <1>3 DEF RecordInv, Coherent, ClosesAsItEnded, HeadIsClosed, HeadDescends

LEMMA CreateEndsInv ==
  ASSUME BotInv, CreateEnds PROVE BotInv'
<1> USE DEF CreateEnds
<1>1. /\ lineage' \in [Execution -> ExecutionRecord]
      /\ \A a \in Attempt : lineage'[a] = lineage[a]
      /\ \A e \in Execution : lineage'[e].parent = lineage[e].parent
      /\ lineage'[None].state = "completed"
  BY Types, AttemptIsExecution DEF BotInv, ExecutionRecord, Ended
<1>2. DescentStays
  BY <1>1, AttemptIsExecution DEF DescentStays
<1>3. BotTypeOK'
  BY <1>1, TypeFrom, Types DEF BotInv, BotTypeOK, BotOperation
<1>4. EventsAreLate' /\ LiveIsRecorded' /\ StepIsDue' /\ ClosedAsItEnded'
  BY <1>1, <1>2 DEF BotInv, EventsAreLate, LiveIsRecorded, StepIsDue, ClosedAsItEnded
<1>5. RecordInv(bot)'
  BY <1>2, BotStays
<1> QED BY <1>2, <1>3, <1>4, <1>5, StepInv

(* A step that ends a turn, or that asks the bot for something, and changes no  *)
(* record.                                                                      *)
LEMMA QuietInv ==
  ASSUME BotInv, UNCHANGED <<bot, storedBot, lineage, runs, superseded, twice>>,
         queue' \in Seq(BotOperation), EventsAreLate', BotTypeOK',
         \/ at' = at /\ queue' # <<>>
         \/ at' = "turn" /\ at \in {"turn", "started", "deleting", "closing"}
  PROVE  BotInv'
<1>1. DescentStays
  BY DEF DescentStays
<1>2. LiveIsRecorded' /\ StepIsDue' /\ ClosedAsItEnded'
  BY DEF BotInv, LiveIsRecorded, StepIsDue, NewlyBound, ClosedAsItEnded
<1>3. RecordInv(bot)'
  BY <1>1, BotStays
<1> QED BY <1>1, <1>2, <1>3, StepInv

(* The queue when a turn ends. *)
LEMMA TurnEnds ==
  ASSUME BotInv, EndTurn, queue # <<>>, \A a \in Attempt : runs[a] \in Ended => runs'[a] = runs[a]
  PROVE  queue' \in Seq(BotOperation) /\ EventsAreLate' /\ at' = "turn"
BY EventsStay DEF BotInv, EndTurn

LEMMA QuietStepInv ==
  ASSUME BotInv, Refuse \/ AlreadyLive \/ Watch
  PROVE  BotInv'
<1>1. /\ UNCHANGED <<bot, storedBot, lineage, runs, superseded, twice, heard, requests, botRestarts>>
      /\ EndTurn /\ at \in {"turn", "started"} /\ queue # <<>>
      /\ watched' \in {watched, bot.run}
  BY DEF Refuse, AlreadyLive, Watch, Turn, BotInv, StepIsDue
<1>2. queue' \in Seq(BotOperation) /\ EventsAreLate' /\ at' = "turn"
  BY <1>1, TurnEnds
<1>3. watched' \in Execution
  BY <1>1, Types DEF BotInv, BotTypeOK, BotRecord
<1>4. BotTypeOK'
  BY <1>1, <1>2, <1>3, Types, TypeFrom DEF BotInv
<1> QED BY <1>1, <1>2, <1>4, QuietInv

LEMMA AskedInv ==
  ASSUME BotInv,
         (\E name \in {"start", "stop", "delete"} : Request(name)) \/ \E a \in Attempt : Hear(a)
  PROVE  BotInv'
<1>1. PICK o \in BotOperation : /\ queue' = Append(queue, o)
                                /\ o.name = "event" => o.run \in Attempt /\ runs[o.run] \in Ended
  <2>1. ASSUME NEW name \in {"start", "stop", "delete"}, Request(name)
        PROVE  queue' = Append(queue, Operation(name, None)) /\ Operation(name, None) \in BotOperation
               /\ Operation(name, None).name # "event"
    BY <2>1, AttemptIsExecution DEF Request, Operation, BotOperation
  <2>2. ASSUME NEW a \in Attempt, Hear(a)
        PROVE  queue' = Append(queue, Operation("event", a)) /\ Operation("event", a) \in BotOperation
               /\ Operation("event", a).run \in Attempt /\ runs[Operation("event", a).run] \in Ended
    BY <2>2, AttemptIsExecution DEF Hear, Operation, BotOperation
  <2> QED BY <2>1, <2>2
<1>2. /\ UNCHANGED <<bot, storedBot, lineage, runs, watched, at, superseded, twice, botRestarts>>
      /\ heard' \in [Attempt -> 0 .. 2] /\ requests' \in 0 .. MaxRequests
  <2>1. heard \in [Attempt -> 0 .. 2] /\ requests \in 0 .. MaxRequests
    BY DEF BotInv, BotTypeOK
  <2>2. ASSUME NEW name, Request(name) PROVE  heard' \in [Attempt -> 0 .. 2] /\ requests' \in 0 .. MaxRequests
    BY <2>1, <2>2, BotAssumption DEF Request
  <2>3. ASSUME NEW a \in Attempt, Hear(a) PROVE  heard' \in [Attempt -> 0 .. 2] /\ requests' \in 0 .. MaxRequests
    <3>1. heard[a] \in 0 .. 2 /\ heard[a] < 2
      BY <2>1, <2>3 DEF Hear, Announced
    <3> QED BY <2>1, <2>3, <3>1 DEF Hear
  <2> QED BY <2>2, <2>3 DEF Request, Hear
<1>3. queue' \in Seq(BotOperation) /\ EventsAreLate'
  BY <1>1, <1>2, QueueAppend DEF BotInv
<1>4. queue' # <<>>
  <2>1. queue \in Seq(BotOperation)
    BY DEF BotInv, BotTypeOK, BotOperation
  <2> QED BY <1>1, <2>1, AppendProperties
<1>5. BotTypeOK'
  BY <1>2, <1>3 DEF BotInv, BotTypeOK, BotOperation
<1> QED BY <1>2, <1>3, <1>4, <1>5, QuietInv

(* A run that ends, or is cancelled, was the one that the record names. *)
LEMMA RunEndsInv ==
  ASSUME BotInv, NEW a \in Attempt, RunEnds(a) PROVE BotInv'
<1>1. /\ UNCHANGED <<bot, storedBot, lineage, heard, watched, queue, at, requests, superseded, twice,
                      botRestarts>>
      /\ runs[a] = "live" /\ runs' \in [Attempt -> Ended \cup {"none", "live", "lost"}]
      /\ runs'[a] \in Ended /\ \A b \in Attempt : b # a => runs'[b] = runs[b]
  BY Types DEF RunEnds, BotInv
<1>2. DescentStays
  BY <1>1 DEF DescentStays, Ended
<1>3. queue' \in Seq(BotOperation) /\ EventsAreLate'
  BY <1>1, <1>2, EventsStay DEF BotInv, DescentStays
<1>4. BotTypeOK'
  BY <1>1, <1>3, Types, TypeFrom DEF BotInv, BotTypeOK
<1>5. LiveIsRecorded' /\ ClosedAsItEnded'
  BY <1>1, <1>2, ClosedStays DEF BotInv, LiveIsRecorded, Ended
<1>6. StepIsDue'
  BY <1>1 DEF BotInv, StepIsDue, NewlyBound
<1>7. RecordInv(bot)'
  BY <1>1, <1>2, BotStays
<1> QED BY <1>1, <1>2, <1>3, <1>4, <1>5, <1>6, <1>7, StepInv

(* A record that only takes up its attempt's run, status or end. *)
LEMMA PrepareInv ==
  ASSUME BotInv, Prepare PROVE BotInv'
<1>1. PICK a \in Attempt : NewlyBound(a)
  BY DEF Prepare, BotInv, StepIsDue
<1>2. Newest = a
  <2>1. \A b \in Attempt : (lineage[b].state # "none" /\ \A c \in Attempt : c > b => lineage[c].state = "none")
                            => b = a
    BY <1>1, AttemptIsExecution DEF NewlyBound
  <2>2. lineage[a].state # "none" /\ \A c \in Attempt : c > a => lineage[c].state = "none"
    BY <1>1 DEF NewlyBound
  <2> QED BY <2>1, <2>2 DEF Newest
<1>3. UNCHANGED <<lineage, runs, heard, watched, requests, superseded, twice, botRestarts>>
      /\ at = "bound" /\ queue # <<>>
  BY DEF Prepare, BotInv, StepIsDue
<1>4. DescentStays
  BY <1>3 DEF DescentStays
<1>5. \/ bot' = bot /\ storedBot' = storedBot /\ EndTurn
      \/ /\ bot' = [bot EXCEPT !.status = "live", !.run = None, !.active = a,
                               !.knownRun = FALSE, !.closing = None]
         /\ \/ storedBot' = bot' /\ Continue("prepared")
            \/ storedBot' = storedBot /\ EndTurn
  BY <1>2 DEF Prepare, Persist, Persisted
<1>6. queue' \in Seq(BotOperation) /\ EventsAreLate'
  BY <1>3, <1>5, EventsStay DEF BotInv, EndTurn, Continue
<1>7. bot' \in BotRecord /\ bot \in BotRecord
  BY <1>5, Types, AttemptIsExecution DEF BotInv, BotRecord, Statuses
<1>8. BotTypeOK'
  BY <1>3, <1>5, <1>6, <1>7, Types, TypeFrom DEF BotInv, BotTypeOK, EndTurn, Continue
<1>9. LiveIsRecorded' /\ ClosedAsItEnded'
  BY <1>3, <1>4, ClosedStays, NoLiveRun DEF BotInv, LiveIsRecorded
<1>10. CASE bot' = bot /\ storedBot' = storedBot /\ EndTurn
  <2>1. RecordInv(bot)'
    BY <1>3, <1>4, <1>10, BotStays
  <2>2. StepIsDue'
    BY <1>10 DEF StepIsDue, EndTurn
  <2> QED BY <1>3, <1>4, <1>6, <1>8, <1>9, <1>10, <2>1, <2>2, StepInv
<1>11. CASE bot' = [bot EXCEPT !.status = "live", !.run = None, !.active = a,
                               !.knownRun = FALSE, !.closing = None]
  <2>1. /\ bot'.status = "live" /\ bot'.run = None /\ bot'.active = a /\ bot'.closing = None
        /\ bot'.head = bot.head /\ a # None
    BY <1>7, <1>11, AttemptIsExecution DEF BotRecord
  <2>2. Coherent(bot)' /\ ClosesAsItEnded(bot)' /\ HeadIsClosed(bot)'
    BY <1>1, <1>3, <2>1 DEF Coherent, ClosesAsItEnded, HeadIsClosed, NewlyBound, BotInv, RecordInv
  <2>3. HeadDescends(bot)'
    BY <1>3, <1>4, <1>7, <2>1, HeadMoves DEF BotInv, StepIsDue, RecordInv
  <2>4. StepIsDue'
    BY <1>1, <1>3, <1>5, <1>11, <2>1 DEF StepIsDue, NewlyBound, EndTurn, Continue
  <2> QED BY <1>3, <1>4, <1>5, <1>6, <1>8, <1>9, <2>2, <2>3, <2>4, StepInv DEF RecordInv
<1> QED BY <1>5, <1>10, <1>11

(* What was under way becomes the head, to be closed as its run ended. *)
LEMMA SettledRecord ==
  ASSUME BotInv, DescentStays, bot' \in BotRecord, bot.active # None,
         bot'.active = None, bot'.head = bot.active, bot'.closing = bot.active,
         bot'.status # "live",
         bot'.outcome = "completed" => runs[bot.active] = "completed",
         bot'.outcome = "failed" => runs[bot.active] \in {"failed", "none"}
  PROVE  RecordInv(bot)'
<1>1. bot \in BotRecord /\ bot.active \in Attempt /\ bot.active \in Execution
  BY Types, AttemptIsExecution DEF BotInv, BotRecord
<1>2. lineage'[bot.active].state # "none" /\ lineage[bot.active].parent = bot.head
  BY <1>1 DEF BotInv, RecordInv, Coherent, DescentStays
<1>3. Coherent(bot)' /\ HeadIsClosed(bot)'
  BY <1>1, <1>2 DEF Coherent, HeadIsClosed
<1>4. ClosesAsItEnded(bot)'
  BY <1>1 DEF ClosesAsItEnded, DescentStays, Ended
<1>5. HeadDescends(bot)'
  BY <1>1, <1>2, HeadMoves DEF BotInv, RecordInv
<1> QED BY <1>3, <1>4, <1>5 DEF RecordInv

(* The record names a run, forgets it, or gets another status. *)
LEMMA SameHead ==
  ASSUME BotInv, DescentStays, bot' \in BotRecord,
         bot'.head = bot.head, bot'.active = bot.active, bot'.closing = bot.closing,
         bot'.outcome = bot.outcome, bot'.run \in {None, bot.run, bot.active},
         at \notin {"recovering", "interrupting"},
         \/ bot'.status = bot.status
         \/ bot'.status = "deleted"
         \/ bot'.status # "live" /\ bot.status # "deleted" /\ bot.active = None
  PROVE  RecordInv(bot)'
<1>1. /\ bot \in BotRecord /\ bot.active \in Execution /\ bot.closing \in Execution
      /\ bot.head \in Execution
  BY Types DEF BotInv, BotRecord
<1>2. Coherent(bot)'
  BY <1>1 DEF BotInv, RecordInv, Coherent, DescentStays
<1>3. HeadIsClosed(bot)'
  BY <1>1 DEF BotInv, RecordInv, Coherent, HeadIsClosed, DescentStays
<1>4. ClosesAsItEnded(bot)'
  BY <1>1, AttemptIsExecution DEF BotInv, RecordInv, ClosesAsItEnded, DescentStays, Ended
<1>5. HeadDescends(bot)'
  BY <1>1, HeadMoves DEF BotInv, RecordInv
<1> QED BY <1>2, <1>3, <1>4, <1>5 DEF RecordInv

LEMMA LoopRefusedInv ==
  ASSUME BotInv, LoopRefused PROVE BotInv'
<1>1. /\ UNCHANGED <<lineage, runs, heard, watched, requests, superseded, twice, botRestarts>>
      /\ at = "prepared" /\ queue # <<>> /\ bot' = [Settling(bot, "failed") EXCEPT !.status = "failed"]
      /\ \/ storedBot' = bot' /\ Continue("closing")
         \/ storedBot' = storedBot /\ EndTurn
  BY DEF LoopRefused, Persist, Persisted, BotInv, StepIsDue
<1>2. DescentStays
  BY <1>1 DEF DescentStays
<1>3. /\ bot \in BotRecord /\ bot.active # None /\ runs[bot.active] = "none"
  BY <1>1, Types, AttemptIsExecution DEF BotInv, StepIsDue, NewlyBound
<1>4. /\ bot' \in BotRecord /\ bot'.active = None /\ bot'.head = bot.active
      /\ bot'.closing = bot.active /\ bot'.outcome = "failed" /\ bot'.status = "failed"
  <2>1. "failed" \in Ended /\ "failed" \in Statuses
    BY DEF Ended, Statuses
  <2> QED BY <1>1, <1>3, <2>1, SettlingType DEF BotRecord
<1>5. RecordInv(bot)'
  BY <1>1, <1>2, <1>3, <1>4, SettledRecord
<1>6. queue' \in Seq(BotOperation) /\ EventsAreLate'
  BY <1>1, EventsStay DEF BotInv, EndTurn, Continue
<1>7. BotTypeOK'
  BY <1>1, <1>4, <1>6, Types, TypeFrom DEF BotInv, BotTypeOK, EndTurn, Continue
<1>8. LiveIsRecorded' /\ ClosedAsItEnded'
  BY <1>1, <1>2, ClosedStays, NoLiveRun DEF BotInv, LiveIsRecorded
<1>9. StepIsDue'
  BY <1>1, <1>3, <1>4 DEF StepIsDue, EndTurn, Continue
<1> QED BY <1>1, <1>2, <1>5, <1>6, <1>7, <1>8, <1>9, StepInv

LEMMA RecordRunInv ==
  ASSUME BotInv, RecordRun PROVE BotInv'
<1>1. /\ UNCHANGED <<lineage, runs, heard, watched, requests, superseded, twice, botRestarts>>
      /\ at = "starting" /\ queue # <<>> /\ bot' = [bot EXCEPT !.run = bot.active, !.knownRun = TRUE]
      /\ \/ storedBot' = bot' /\ Continue("started")
         \/ storedBot' = storedBot /\ EndTurn
  BY DEF RecordRun, Persist, Persisted, BotInv, StepIsDue
<1>2. DescentStays
  BY <1>1 DEF DescentStays
<1>3. /\ bot \in BotRecord /\ bot.active # None /\ bot.status = "live"
  BY <1>1, Types, AttemptIsExecution DEF BotInv, StepIsDue
<1>4. /\ bot' \in BotRecord /\ bot'.active = bot.active /\ bot'.head = bot.head
      /\ bot'.closing = bot.closing /\ bot'.outcome = bot.outcome /\ bot'.status = bot.status
      /\ bot'.run = bot.active /\ bot'.knownRun
  BY <1>1, <1>3 DEF BotRecord
<1>5. RecordInv(bot)'
  BY <1>1, <1>2, <1>4, SameHead
<1>6. queue' \in Seq(BotOperation) /\ EventsAreLate'
  BY <1>1, EventsStay DEF BotInv, EndTurn, Continue
<1>7. BotTypeOK'
  BY <1>1, <1>4, <1>6, Types, TypeFrom DEF BotInv, BotTypeOK, EndTurn, Continue
<1>8. LiveIsRecorded' /\ ClosedAsItEnded'
  BY <1>1, <1>2, <1>3, <1>4, ClosedStays DEF BotInv, LiveIsRecorded, EndTurn, Continue
<1>9. StepIsDue'
  BY <1>1, <1>3, <1>4 DEF StepIsDue, EndTurn, Continue
<1> QED BY <1>1, <1>2, <1>5, <1>6, <1>7, <1>8, <1>9, StepInv

(* Nothing runs any more once the run that the record names is cancelled. *)
LEMMA CancelRunEnds ==
  ASSUME BotInv, at = "turn", CancelRun, UNCHANGED <<lineage, superseded, twice>>
  PROVE  /\ runs' \in [Attempt -> Ended \cup {"none", "live", "lost"}]
         /\ \A a \in Attempt : runs'[a] # "live"
         /\ DescentStays /\ watched' \in Execution
<1>1. /\ runs \in [Attempt -> Ended \cup {"none", "live", "lost"}] /\ watched \in Execution
      /\ \A a \in Attempt : runs[a] = "live" => bot.run = a
  BY Types DEF BotInv, LiveIsRecorded, BotTypeOK
<1>2. /\ runs' \in [Attempt -> Ended \cup {"none", "live", "lost"}]
      /\ \A a \in Attempt : runs'[a] = runs[a] \/ (runs[a] = "live" /\ runs'[a] = "cancelled")
      /\ watched' \in Execution /\ \A a \in Attempt : runs'[a] # "live"
  <2>1. CASE bot.run = None
    BY <1>1, <2>1, AttemptIsExecution DEF CancelRun
  <2>2. CASE bot.run # None
    BY <1>1, <2>2, AttemptIsExecution DEF CancelRun, Ended
  <2> QED BY <2>1, <2>2
<1>3. DescentStays
  BY <1>2 DEF DescentStays, Ended
<1> QED BY <1>2, <1>3

LEMMA StopInv ==
  ASSUME BotInv, StopBot PROVE BotInv'
<1> DEFINE settled == IF bot.status = "live" THEN Settling(bot, "cancelled") ELSE bot
<1>1. /\ UNCHANGED <<lineage, heard, requests, superseded, twice, botRestarts>>
      /\ at = "turn" /\ queue # <<>> /\ bot.status # "deleted" /\ CancelRun
      /\ bot' = [settled EXCEPT !.status = "stopped", !.run = None]
      /\ \/ storedBot' = bot' \/ storedBot' = storedBot
      /\ \/ bot.active # None /\ bot.status = "live" /\ Continue("closing")
         \/ EndTurn
  BY DEF StopBot, Persist, Persisted, Turn
<1>2. /\ runs' \in [Attempt -> Ended \cup {"none", "live", "lost"}]
      /\ \A a \in Attempt : runs'[a] # "live"
      /\ DescentStays /\ watched' \in Execution
  BY <1>1, CancelRunEnds
<1>3. /\ bot \in BotRecord /\ "cancelled" \in Ended /\ "stopped" \in Statuses /\ None \in Execution
      /\ bot.status = "live" <=> bot.active # None
  BY <1>1, Types, AttemptIsExecution DEF BotInv, RecordInv, Coherent, Ended, Statuses
<1>4. /\ bot' \in BotRecord /\ bot'.active = None /\ bot'.status = "stopped" /\ bot'.run = None
      /\ bot.active # None => /\ bot'.head = bot.active /\ bot'.closing = bot.active
                              /\ bot'.outcome = "cancelled"
      /\ bot.active = None => /\ bot'.head = bot.head /\ bot'.closing = bot.closing
                              /\ bot'.outcome = bot.outcome
  <2>1. settled \in BotRecord /\ (bot.active = None => settled = bot)
    BY <1>3, SettlingType
  <2>2. /\ bot' \in BotRecord /\ bot'.status = "stopped" /\ bot'.run = None
        /\ bot'.active = settled.active /\ bot'.head = settled.head
        /\ bot'.closing = settled.closing /\ bot'.outcome = settled.outcome
    BY <1>1, <1>3, <2>1 DEF BotRecord
  <2> QED BY <1>3, <2>1, <2>2, SettlingType
<1>5. RecordInv(bot)'
  BY <1>1, <1>2, <1>3, <1>4, SettledRecord, SameHead
<1>6. queue' \in Seq(BotOperation) /\ EventsAreLate'
  BY <1>1, <1>2, EventsStay DEF BotInv, EndTurn, Continue, DescentStays
<1>7. BotTypeOK'
  BY <1>1, <1>2, <1>4, <1>6, Types, TypeFrom DEF BotInv, EndTurn, Continue
<1>8. LiveIsRecorded' /\ ClosedAsItEnded'
  BY <1>1, <1>2, ClosedStays DEF BotInv, LiveIsRecorded
<1>9. StepIsDue'
  BY <1>1, <1>3, <1>4 DEF StepIsDue, EndTurn, Continue
<1> QED BY <1>1, <1>2, <1>5, <1>6, <1>7, <1>8, <1>9, StepInv

LEMMA DeleteInv ==
  ASSUME BotInv, Delete PROVE BotInv'
<1>1. /\ UNCHANGED <<lineage, heard, requests, superseded, twice, botRestarts>>
      /\ at = "turn" /\ queue # <<>> /\ CancelRun
      /\ bot' = [bot EXCEPT !.status = "deleted"]
      /\ storedBot' \in {bot', storedBot} /\ (Continue("deleting") \/ EndTurn)
  BY DEF Delete, Persist, Persisted, Turn
<1>2. /\ runs' \in [Attempt -> Ended \cup {"none", "live", "lost"}]
      /\ \A a \in Attempt : runs'[a] # "live"
      /\ DescentStays /\ watched' \in Execution
  BY <1>1, CancelRunEnds
<1>3. /\ bot' \in BotRecord /\ bot'.status = "deleted"
      /\ bot'.head = bot.head /\ bot'.active = bot.active /\ bot'.closing = bot.closing
      /\ bot'.outcome = bot.outcome /\ bot'.run = bot.run
  BY <1>1, Types DEF BotInv, BotRecord, Statuses
<1>4. RecordInv(bot)'
  BY <1>1, <1>2, <1>3, SameHead
<1>5. queue' \in Seq(BotOperation) /\ EventsAreLate'
  BY <1>1, <1>2, EventsStay DEF BotInv, EndTurn, Continue, DescentStays
<1>6. BotTypeOK'
  BY <1>1, <1>2, <1>3, <1>5, Types, TypeFrom DEF BotInv, EndTurn, Continue
<1>7. LiveIsRecorded' /\ ClosedAsItEnded'
  BY <1>1, <1>2, ClosedStays DEF BotInv, LiveIsRecorded
<1>8. StepIsDue'
  BY <1>1 DEF StepIsDue, EndTurn, Continue
<1> QED BY <1>1, <1>2, <1>4, <1>5, <1>6, <1>7, <1>8, StepInv

(* An execution is closed, unless it is already, and nothing else happens to    *)
(* the descent.                                                                 *)
Closing(e, outcome) ==
  /\ UNCHANGED <<runs, superseded, twice>>
  /\ lineage[e].state \in {"open", outcome}
  /\ lineage' = [lineage EXCEPT ![e].state = outcome]

LEMMA ClosingDescent ==
  ASSUME BotTypeOK, NEW e \in Execution, NEW o \in Ended \cup {"interrupted", "deleted"},
         Closing(e, o)
  PROVE  /\ lineage' \in [Execution -> ExecutionRecord] /\ DescentStays
         /\ lineage'[e].state = o
         /\ \A d \in Execution : d # e => lineage'[d] = lineage[d]
<1>1. lineage \in [Execution -> ExecutionRecord] /\ lineage[e] \in ExecutionRecord
  BY Types
<1>2. /\ lineage' = [lineage EXCEPT ![e] = [lineage[e] EXCEPT !.state = o]]
  BY <1>1 DEF Closing
<1>3. /\ [lineage[e] EXCEPT !.state = o] \in ExecutionRecord
      /\ [lineage[e] EXCEPT !.state = o].state = o
      /\ [lineage[e] EXCEPT !.state = o].parent = lineage[e].parent
  BY <1>1 DEF ExecutionRecord
<1>4. /\ lineage' \in [Execution -> ExecutionRecord]
      /\ lineage'[e].state = o /\ lineage'[e].parent = lineage[e].parent
      /\ \A d \in Execution : d # e => lineage'[d] = lineage[d]
  BY <1>1, <1>2, <1>3
<1>5. DescentStays
  BY <1>4 DEF DescentStays, Closing, Ended
<1> QED BY <1>4, <1>5

(* It is closed as its run ended. *)
LEMMA ClosingAsItEnded ==
  ASSUME BotTypeOK, ClosedAsItEnded, NEW e \in Execution,
         NEW o \in Ended \cup {"interrupted", "deleted"}, Closing(e, o),
         e # None => /\ o = "completed" => runs[e] = "completed" \/ e \in twice
                     /\ o = "failed" => runs[e] \in {"failed", "none"}
  PROVE  ClosedAsItEnded'
<1>1. /\ lineage'[e].state = o /\ UNCHANGED <<runs, twice>>
      /\ \A d \in Execution : d # e => lineage'[d] = lineage[d]
  BY ClosingDescent DEF Closing
<1> QED BY <1>1, AttemptIsExecution DEF ClosedAsItEnded

LEMMA CloseDeletedInv ==
  ASSUME BotInv, CloseDeleted PROVE BotInv'
<1>1. /\ UNCHANGED <<bot, storedBot, runs, heard, watched, requests, superseded, twice, botRestarts>>
      /\ at = "deleting" /\ queue # <<>> /\ (EndTurn \/ Continue("deleting"))
      /\ \/ lineage' = lineage
         \/ \E e \in Doomed : Closing(e, "deleted")
  BY DEF CloseDeleted, Doomed, Closing, BotInv, StepIsDue
<1>2. /\ DescentStays /\ lineage' \in [Execution -> ExecutionRecord] /\ ClosedAsItEnded'
  <2>1. CASE lineage' = lineage
    <3>1. DescentStays
      BY <1>1, <2>1 DEF DescentStays
    <3> QED BY <1>1, <2>1, <3>1, Types, ClosedStays DEF BotInv
  <2>2. CASE \E e \in Doomed : Closing(e, "deleted")
    <3>1. PICK e \in Execution : Closing(e, "deleted")
      BY <2>2, Types DEF Doomed, BotInv, BotRecord
    <3>2. "deleted" \notin {"completed", "failed"} /\ "deleted" \in Ended \cup {"interrupted", "deleted"}
      OBVIOUS
    <3> QED BY <3>1, <3>2, ClosingDescent, ClosingAsItEnded DEF BotInv
  <2> QED BY <1>1, <2>1, <2>2
<1>3. queue' \in Seq(BotOperation) /\ EventsAreLate'
  BY <1>1, EventsStay DEF BotInv, EndTurn, Continue
<1>4. BotTypeOK'
  BY <1>1, <1>2, <1>3, Types, TypeFrom DEF BotInv, BotTypeOK, EndTurn, Continue
<1>5. LiveIsRecorded'
  BY <1>1, NoLiveRun DEF LiveIsRecorded
<1>6. StepIsDue' /\ RecordInv(bot)'
  BY <1>1, <1>2, BotStays DEF StepIsDue, EndTurn, Continue
<1> QED BY <1>1, <1>2, <1>3, <1>4, <1>5, <1>6, StepInv

LEMMA CloseAttemptInv ==
  ASSUME BotInv, CloseAttempt PROVE BotInv'
<1>1. /\ UNCHANGED <<bot, storedBot, runs, heard, watched, requests, superseded, twice, botRestarts>>
      /\ at = "closing" /\ queue # <<>> /\ bot.closing # None
      /\ \/ Closing(bot.closing, bot.outcome) /\ Continue("clearing")
         \/ lineage' = lineage /\ EndTurn
  BY DEF CloseAttempt, Closing, BotInv, StepIsDue
<1>2. /\ bot.closing \in Execution /\ bot.outcome \in Ended \cup {"interrupted", "deleted"}
  BY Types DEF BotInv, BotRecord
<1>3. /\ DescentStays /\ lineage' \in [Execution -> ExecutionRecord] /\ ClosedAsItEnded'
      /\ EndTurn \/ (Continue("clearing") /\ lineage'[bot.closing].state = bot.outcome)
  <2>1. CASE lineage' = lineage /\ EndTurn
    <3>1. DescentStays
      BY <1>1, <2>1 DEF DescentStays
    <3> QED BY <1>1, <2>1, <3>1, Types, ClosedStays DEF BotInv
  <2>2. CASE Closing(bot.closing, bot.outcome) /\ Continue("clearing")
    BY <1>1, <1>2, <2>2, ClosingDescent, ClosingAsItEnded DEF BotInv, RecordInv, ClosesAsItEnded
  <2> QED BY <1>1, <2>1, <2>2
<1>4. queue' \in Seq(BotOperation) /\ EventsAreLate'
  BY <1>1, EventsStay DEF BotInv, EndTurn, Continue
<1>5. BotTypeOK'
  BY <1>1, <1>3, <1>4, Types, TypeFrom DEF BotInv, BotTypeOK, EndTurn, Continue
<1>6. LiveIsRecorded'
  BY <1>1, NoLiveRun DEF LiveIsRecorded
<1>7. StepIsDue' /\ RecordInv(bot)'
  BY <1>1, <1>3, BotStays DEF StepIsDue, EndTurn, Continue
<1> QED BY <1>1, <1>3, <1>4, <1>5, <1>6, <1>7, StepInv

(* A record whose close is over. *)
LEMMA ClearedRecord ==
  ASSUME BotInv, DescentStays, bot.closing # None, lineage'[bot.closing].state # "open",
         bot' = [bot EXCEPT !.head = bot.closing, !.closing = None]
  PROVE  bot' \in BotRecord /\ RecordInv(bot)'
<1>1. /\ bot \in BotRecord /\ Coherent(bot) /\ HeadDescends(bot)
  BY Types DEF BotInv, RecordInv
<1>2. /\ bot' \in BotRecord /\ bot'.head = bot.closing /\ bot'.closing = None
      /\ bot'.run = bot.run /\ bot'.active = bot.active /\ bot'.status = bot.status
  BY <1>1, AttemptIsExecution DEF BotRecord
<1>3. bot.head = bot.closing /\ bot.active = None
  BY <1>1 DEF Coherent
<1>4. Coherent(bot)' /\ ClosesAsItEnded(bot)' /\ HeadIsClosed(bot)'
  BY <1>1, <1>2, <1>3 DEF Coherent, ClosesAsItEnded, HeadIsClosed, DescentStays, BotRecord
<1>5. HeadDescends(bot)'
  BY <1>1, <1>2, <1>3, HeadMoves DEF BotInv
<1> QED BY <1>2, <1>4, <1>5 DEF RecordInv

LEMMA ClearInv ==
  ASSUME BotInv, ClearPendingClose PROVE BotInv'
<1>1. /\ UNCHANGED <<lineage, runs, heard, watched, requests, superseded, twice, botRestarts>>
      /\ at = "clearing" /\ queue # <<>> /\ EndTurn /\ bot.closing # None
      /\ bot' = [bot EXCEPT !.head = bot.closing, !.closing = None]
      /\ storedBot' \in {bot', storedBot} /\ lineage[bot.closing].state = bot.outcome
  BY DEF ClearPendingClose, Persist, BotInv, StepIsDue
<1>2. DescentStays
  BY <1>1 DEF DescentStays
<1>3. bot' \in BotRecord /\ RecordInv(bot)'
  BY <1>1, <1>2, Types, ClearedRecord DEF BotInv, BotRecord, Ended
<1>4. queue' \in Seq(BotOperation) /\ EventsAreLate'
  BY <1>1, EventsStay DEF BotInv, EndTurn
<1>5. BotTypeOK'
  BY <1>1, <1>3, <1>4, Types, TypeFrom DEF BotInv, BotTypeOK, EndTurn
<1>6. LiveIsRecorded' /\ ClosedAsItEnded' /\ StepIsDue'
  BY <1>1, <1>2, ClosedStays, NoLiveRun DEF BotInv, LiveIsRecorded, StepIsDue, EndTurn
<1> QED BY <1>1, <1>2, <1>3, <1>4, <1>5, <1>6, StepInv

LEMMA RecoverCloseInv ==
  ASSUME BotInv, RecoverClose PROVE BotInv'
<1>1. /\ UNCHANGED <<runs, heard, watched, queue, at, requests, superseded, twice, botRestarts>>
      /\ at = "recovering" /\ bot.closing # None /\ Closing(bot.closing, bot.outcome)
      /\ bot' = [bot EXCEPT !.head = bot.closing, !.closing = None] /\ storedBot' = bot'
  BY DEF RecoverClose, Closing
<1>2. /\ bot.closing \in Execution /\ bot.outcome \in Ended \cup {"interrupted", "deleted"}
      /\ bot.outcome # "open"
  BY Types DEF BotInv, BotRecord, Ended
<1>3. /\ DescentStays /\ lineage' \in [Execution -> ExecutionRecord] /\ ClosedAsItEnded'
      /\ lineage'[bot.closing].state # "open"
  BY <1>1, <1>2, ClosingDescent, ClosingAsItEnded DEF BotInv, RecordInv, ClosesAsItEnded
<1>4. bot' \in BotRecord /\ RecordInv(bot)'
  BY <1>1, <1>3, ClearedRecord
<1>5. queue' \in Seq(BotOperation) /\ EventsAreLate'
  BY <1>1, EventsStay DEF BotInv
<1>6. BotTypeOK'
  BY <1>1, <1>3, <1>4, <1>5, Types, TypeFrom DEF BotInv, BotTypeOK
<1>7. LiveIsRecorded' /\ StepIsDue'
  <2>1. bot'.status = bot.status /\ bot.status # "deleted"
    BY <1>1, Types DEF BotInv, StepIsDue, BotRecord
  <2> QED BY <1>1, <2>1, NoLiveRun DEF LiveIsRecorded, StepIsDue
<1> QED BY <1>1, <1>3, <1>4, <1>5, <1>6, <1>7, StepInv

(* The close of the head, if it is open. *)
LEMMA CloseIfOpenIs ==
  ASSUME BotTypeOK, NEW o, CloseIfOpen(o), UNCHANGED <<runs, superseded, twice>>
  PROVE  \/ lineage[bot.head].state # "open" /\ lineage' = lineage
         \/ lineage[bot.head].state = "open" /\ Closing(bot.head, o)
<1>1. bot.head \in Execution /\ lineage \in [Execution -> ExecutionRecord]
  BY Types DEF BotRecord
<1>2. lineage[bot.head] \in ExecutionRecord
  BY <1>1
<1>3. lineage' = [lineage EXCEPT ![bot.head] = [lineage[bot.head] EXCEPT !.state =
                    IF lineage[bot.head].state = "open" THEN o ELSE lineage[bot.head].state]]
  BY <1>1 DEF CloseIfOpen
<1>4. CASE lineage[bot.head].state = "open"
  BY <1>1, <1>3, <1>4 DEF Closing
<1>5. CASE lineage[bot.head].state # "open"
  BY <1>1, <1>2, <1>3, <1>5 DEF ExecutionRecord
<1> QED BY <1>4, <1>5

LEMMA RecoveredInv ==
  ASSUME BotInv, RecoverHead \/ CloseInterrupted PROVE BotInv'
<1>1. PICK o \in Ended \cup {"interrupted", "deleted"} :
        /\ CloseIfOpen(o)
        /\ o = "interrupted" \/ /\ at = "recovering" /\ bot.closing = None /\ bot.active = None
                                /\ bot.status # "live"
                                /\ bot.status \in {"failed", "cancelled"} => o = bot.status
                                /\ bot.status \notin {"failed", "cancelled"} => o = "completed"
  BY DEF RecoverHead, CloseInterrupted, Ended
<1>2. /\ UNCHANGED <<bot, storedBot, runs, heard, watched, requests, superseded, twice, botRestarts>>
      /\ at \in {"recovering", "interrupting"} /\ at' = "turn" /\ queue' = queue
      /\ storedBot = bot
  BY DEF RecoverHead, CloseInterrupted, Continue, BotInv, StepIsDue
<1>3. bot.head \in Execution /\ bot \in BotRecord
  BY Types DEF BotInv, BotRecord
<1>4. \/ lineage[bot.head].state # "open" /\ lineage' = lineage
      \/ lineage[bot.head].state = "open" /\ Closing(bot.head, o)
  BY <1>1, <1>2, CloseIfOpenIs DEF BotInv
<1>5. /\ DescentStays /\ lineage' \in [Execution -> ExecutionRecord] /\ ClosedAsItEnded'
      /\ lineage'[bot.head].state # "open"
  <2>1. CASE lineage[bot.head].state # "open" /\ lineage' = lineage
    <3>1. DescentStays
      BY <1>2, <2>1 DEF DescentStays
    <3> QED BY <1>2, <2>1, <3>1, Types, ClosedStays DEF BotInv
  <2>2. CASE lineage[bot.head].state = "open" /\ Closing(bot.head, o)
    <3>1. bot.head # None => /\ o = "completed" => bot.head \in twice
                             /\ o # "failed"
      BY <1>1, <1>2, <2>2 DEF BotInv, RecordInv, HeadIsClosed, StepIsDue
    <3>2. o # "open"
      BY DEF Ended
    <3> QED BY <1>3, <2>2, <3>1, <3>2, ClosingDescent, ClosingAsItEnded DEF BotInv
  <2> QED BY <1>4, <2>1, <2>2
<1>6. queue' \in Seq(BotOperation) /\ EventsAreLate'
  BY <1>2, EventsStay DEF BotInv
<1>7. BotTypeOK'
  BY <1>2, <1>3, <1>5, <1>6, Types, TypeFrom DEF BotInv, BotTypeOK
<1>8. LiveIsRecorded' /\ StepIsDue'
  BY <1>2, NoLiveRun DEF LiveIsRecorded, StepIsDue
<1>9. RecordInv(bot)'
  BY <1>2, <1>5, BotStays
<1>10. storedBot' = bot'
  BY <1>2
<1> QED BY <1>5, <1>6, <1>7, <1>8, <1>9, <1>10, StepInv

LEMMA InterruptBotInv ==
  ASSUME BotInv, InterruptBot PROVE BotInv'
<1>1. /\ UNCHANGED <<lineage, runs, heard, watched, queue, requests, superseded, twice, botRestarts>>
      /\ at = "recovering" /\ bot.closing = None /\ at' = "interrupting"
      /\ bot' = Interrupted /\ storedBot' = bot'
  BY DEF InterruptBot, Continue
<1>2. DescentStays
  BY <1>1 DEF DescentStays
<1>3. /\ bot \in BotRecord
      /\ bot.active # None => lineage[bot.active].parent = bot.head
  BY Types DEF BotInv, RecordInv, Coherent
<1>4. /\ bot' \in BotRecord /\ bot'.status = "interrupted" /\ bot'.run = None /\ bot'.active = None
      /\ bot'.closing = None
      /\ bot'.head = IF bot.active = None THEN bot.head ELSE bot.active
  BY <1>1, <1>3, AttemptIsExecution DEF Interrupted, BotRecord, Statuses
<1>5. Coherent(bot)' /\ ClosesAsItEnded(bot)' /\ HeadIsClosed(bot)'
  BY <1>1, <1>2, <1>4 DEF BotInv, RecordInv, Coherent, ClosesAsItEnded, HeadIsClosed, DescentStays
<1>6. HeadDescends(bot)'
  BY <1>2, <1>3, <1>4, HeadMoves DEF BotInv, RecordInv
<1>7. queue' \in Seq(BotOperation) /\ EventsAreLate'
  BY <1>1, EventsStay DEF BotInv
<1>8. BotTypeOK'
  BY <1>1, <1>4, <1>7, Types, TypeFrom DEF BotInv, BotTypeOK
<1>9. LiveIsRecorded' /\ ClosedAsItEnded' /\ StepIsDue'
  BY <1>1, <1>2, <1>4, ClosedStays, NoLiveRun DEF BotInv, LiveIsRecorded, StepIsDue
<1>10. RecordInv(bot)'
  BY <1>5, <1>6 DEF RecordInv
<1> QED BY <1>1, <1>2, <1>7, <1>8, <1>9, <1>10, StepInv

(* The end of a run that the record still names. *)
LEMMA HandleInv ==
  ASSUME BotInv, NEW a \in Attempt, Handle(a) PROVE BotInv'
<1> DEFINE settled == Settling(bot, runs[a])
           kept == IF runs[a] = "completed" THEN bot.run ELSE None
<1>1. /\ UNCHANGED <<lineage, runs, heard, requests, superseded, twice, botRestarts>>
      /\ at = "turn" /\ queue # <<>> /\ Head(queue).name = "event" /\ Head(queue).run = a
      /\ bot.status # "deleted"
  BY DEF Handle, Turn
<1>2. runs[a] \in Ended /\ runs[a] \in Statuses
  BY <1>1, QueueHead DEF BotInv, EventsAreLate, Statuses
<1>3. DescentStays
  BY <1>1 DEF DescentStays
<1>4. \/ bot' = bot /\ storedBot' = storedBot /\ EndTurn /\ watched' \in {watched, None}
      \/ /\ bot.run = a /\ bot' = [settled EXCEPT !.status = runs[a], !.run = kept]
         /\ storedBot' \in {bot', storedBot} /\ watched' \in {watched, None}
         /\ EndTurn \/ (bot.active # None /\ Continue("closing"))
  BY DEF Handle, Persist, Persisted
<1>5. bot \in BotRecord /\ Coherent(bot) /\ watched \in Execution
  BY Types DEF BotInv, RecordInv, BotTypeOK
<1>6. queue' \in Seq(BotOperation) /\ EventsAreLate'
  BY <1>1, <1>4, EventsStay DEF BotInv, EndTurn, Continue
<1>7. ClosedAsItEnded'
  BY <1>1, <1>3, ClosedStays DEF BotInv
<1>8. CASE bot' = bot /\ storedBot' = storedBot /\ EndTurn /\ watched' \in {watched, None}
  <2>1. BotTypeOK'
    BY <1>1, <1>5, <1>6, <1>8, Types, TypeFrom, AttemptIsExecution DEF BotInv, EndTurn
  <2>2. LiveIsRecorded' /\ StepIsDue'
    BY <1>1, <1>8 DEF BotInv, LiveIsRecorded, StepIsDue, EndTurn
  <2>3. RecordInv(bot)'
    BY <1>1, <1>3, <1>8, BotStays
  <2> QED BY <1>1, <1>3, <1>6, <1>7, <1>8, <2>1, <2>2, <2>3, StepInv
<1>9. CASE /\ bot.run = a /\ bot' = [settled EXCEPT !.status = runs[a], !.run = kept]
           /\ storedBot' \in {bot', storedBot} /\ watched' \in {watched, None}
           /\ EndTurn \/ (bot.active # None /\ Continue("closing"))
  <2>1. /\ settled \in BotRecord /\ kept \in Execution /\ kept \in {None, bot.run}
        /\ bot.active = None => settled = bot
        /\ bot.active # None => bot.active = a
    BY <1>2, <1>5, <1>9, SettlingType, AttemptIsExecution DEF Coherent, BotRecord
  <2>2. /\ bot' \in BotRecord /\ bot'.status = runs[a] /\ bot'.run = kept
        /\ bot'.active = settled.active /\ bot'.head = settled.head
        /\ bot'.closing = settled.closing /\ bot'.outcome = settled.outcome
    BY <1>2, <1>9, <2>1 DEF BotRecord
  <2>3. runs[a] # "live"
    BY <1>2 DEF Ended
  <2>4. RecordInv(bot)'
    <3>1. CASE bot.active = None
      BY <1>1, <1>3, <2>1, <2>2, <2>3, <3>1, SameHead
    <3>2. CASE bot.active # None
      <4>1. /\ bot'.active = None /\ bot'.head = a /\ bot'.closing = a /\ bot'.outcome = runs[a]
        BY <1>2, <1>5, <2>1, <2>2, <3>2, SettlingType
      <4> QED BY <1>3, <2>1, <2>2, <2>3, <3>2, <4>1, SettledRecord
    <3> QED BY <3>1, <3>2
  <2>5. BotTypeOK'
    BY <1>1, <1>5, <1>6, <1>9, <2>2, Types, TypeFrom, AttemptIsExecution
       DEF BotInv, EndTurn, Continue
  <2>6. LiveIsRecorded'
    BY <1>1, <1>9, <2>3 DEF BotInv, LiveIsRecorded
  <2>7. StepIsDue'
    BY <1>1, <1>2, <1>5, <1>9, <2>1, <2>2, SettlingType, AttemptIsExecution
       DEF StepIsDue, EndTurn, Continue
  <2> QED BY <1>1, <1>3, <1>6, <1>7, <1>9, <2>4, <2>5, <2>6, <2>7, StepInv
<1> QED BY <1>4, <1>8, <1>9

LEMMA RestartInv ==
  ASSUME BotInv, RestartBot PROVE BotInv'
<1>1. /\ UNCHANGED <<storedBot, lineage, heard, requests, superseded>>
      /\ bot' = storedBot /\ watched' = None /\ queue' = <<>>
      /\ at' = IF storedBot.status = "deleted" THEN "turn" ELSE "recovering"
      /\ twice' = twice \cup (IF at = "interrupting" THEN {bot.head} ELSE {})
      /\ runs' = [a \in Attempt |-> IF runs[a] = "live" THEN "lost" ELSE runs[a]]
      /\ botRestarts' \in 0 .. MaxRestarts
  BY BotAssumption DEF RestartBot, BotInv, BotTypeOK
<1>2. DescentStays
  BY <1>1 DEF DescentStays, Ended
<1>3. queue' \in Seq(BotOperation) /\ EventsAreLate'
  BY <1>1, EmptySeq DEF EventsAreLate
<1>4. BotTypeOK'
  BY <1>1, <1>3, Types, AttemptIsExecution DEF BotInv, BotTypeOK, BotRecord, BotOperation
<1>5. LiveIsRecorded' /\ ClosedAsItEnded' /\ StepIsDue'
  BY <1>1, <1>2, ClosedStays DEF BotInv, LiveIsRecorded, StepIsDue
<1>6. RecordInv(bot)'
  <2>1. PICK r \in BotRecord : r = storedBot
    BY Types DEF BotInv
  <2>2. RecordInv(r) /\ BotTypeOK
    BY <2>1 DEF BotInv
  <2>3. Coherent(r)' /\ ClosesAsItEnded(r)' /\ HeadDescends(r)'
    <3>1. Coherent(r)'
      BY <1>1, <2>2 DEF RecordInv, Coherent
    <3>2. ClosesAsItEnded(r)'
      BY <1>2, <2>2, AttemptIsExecution DEF RecordInv, ClosesAsItEnded, DescentStays, Ended, BotRecord
    <3>3. HeadDescends(r)'
      BY <1>2, <2>2, HeadMovesTo DEF RecordInv, BotRecord
    <3> QED BY <3>1, <3>2, <3>3
  <2>4. HeadIsClosed(r)'
    BY <1>1, <2>1, <2>2 DEF RecordInv, HeadIsClosed, BotInv, StepIsDue
  <2> QED BY <1>1, <2>1, <2>3, <2>4 DEF RecordInv, Coherent, ClosesAsItEnded, HeadIsClosed, HeadDescends
<1>7. storedBot' = bot'
  BY <1>1
<1> QED BY <1>2, <1>3, <1>4, <1>5, <1>6, <1>7, StepInv

(* A run begins: the attempt of the record has had none, and nothing descends   *)
(* from it yet.                                                                 *)
LEMMA LoopStartsInv ==
  ASSUME BotInv, LoopStarts PROVE BotInv'
<1> DEFINE b == bot.active
<1>1. /\ UNCHANGED <<bot, storedBot, lineage, heard, watched, queue, requests, superseded, twice,
                     botRestarts>>
      /\ at = "prepared" /\ at' = "starting" /\ queue # <<>>
      /\ NewlyBound(b) /\ bot.status = "live" /\ bot.closing = None /\ storedBot = bot
      /\ runs' = [runs EXCEPT ![b] = "live"]
  BY DEF LoopStarts, Continue, BotInv, StepIsDue
<1>2. /\ b \in Attempt /\ b \in Execution /\ runs[b] = "none" /\ lineage[b].state = "open"
      /\ \A c \in Attempt : c > b => lineage[c].state = "none"
  BY <1>1, AttemptIsExecution DEF NewlyBound
<1>3. /\ runs' \in [Attempt -> Ended \cup {"none", "live", "lost"}] /\ runs'[b] = "live"
      /\ \A a \in Attempt : a # b => runs'[a] = runs[a]
  BY <1>1, <1>2, Types DEF BotInv
<1>4. \A a \in Attempt : runs[a] \in Ended => runs'[a] = runs[a]
  BY <1>2, <1>3 DEF Ended
<1>5. queue' \in Seq(BotOperation) /\ EventsAreLate'
  BY <1>1, <1>4, EventsStay DEF BotInv
<1>6. BotTypeOK'
  BY <1>1, <1>3, <1>5, Types, TypeFrom DEF BotInv, BotTypeOK
<1>7. LiveIsRecorded' /\ StepIsDue'
  BY <1>1, <1>2, <1>3, NoLiveRun DEF LiveIsRecorded, StepIsDue
<1>8. BoundFirst' /\ ParentsAreBound' /\ ClosedAsItEnded'
  BY <1>1, <1>2, <1>3 DEF BotInv, BoundFirst, ParentsAreBound, ClosedAsItEnded
<1>9. RecordInv(bot)' /\ bot' = storedBot'
  <2>1. Coherent(bot)' /\ ClosesAsItEnded(bot)' /\ HeadIsClosed(bot)'
    BY <1>1, AttemptIsExecution, <1>2
       DEF BotInv, RecordInv, Coherent, ClosesAsItEnded, HeadIsClosed
  <2>2. HeadDescends(bot)'
    <3>1. Ancestors(bot.head)' = Ancestors(bot.head)
      BY <1>1 DEF Ancestors
    <3> QED BY <1>1, <1>3, <3>1 DEF BotInv, RecordInv, HeadDescends
  <2> QED BY <1>1, <2>1, <2>2 DEF RecordInv
<1>10. LineageIsKept'
  <2> SUFFICES ASSUME NEW c \in Attempt, lineage[c].state # "none",
                      NEW a \in 1 .. (c - 1), runs'[a] # "none"
               PROVE  a \in Ancestors(c)' \cup superseded
    BY <1>1 DEF LineageIsKept
  <2>1. a \in Attempt /\ a # b
    <3>1. a \in Attempt /\ c > a
      BY AttemptIsExecution, BotAssumption DEF Attempt
    <3> QED BY <1>2, <3>1
  <2>2. Ancestors(c)' = Ancestors(c)
    BY <1>1 DEF Ancestors
  <2> QED BY <1>3, <2>1, <2>2 DEF BotInv, LineageIsKept
<1> QED BY <1>5, <1>6, <1>7, <1>8, <1>9, <1>10
        DEF BotInv, RecordInv, Coherent, ClosesAsItEnded, HeadIsClosed, HeadDescends

(* An attempt is bound under the head: what was under way until then is         *)
(* superseded, and everything before it is an ancestor of the new one.          *)
LEMMA BindInv ==
  ASSUME BotInv, NEW b \in Attempt, Bind(b) PROVE BotInv'
<1>1. /\ UNCHANGED <<bot, storedBot, runs, heard, watched, queue, requests, twice, botRestarts>>
      /\ at = "turn" /\ at' = "bound" /\ queue # <<>> /\ ~IsLive
      /\ lineage[b].state = "none" /\ \A c \in 1 .. (b - 1) : lineage[c].state # "none"
      /\ lineage' = [lineage EXCEPT ![b] = [state |-> "open", parent |-> bot.head]]
      /\ superseded' = superseded \cup ({bot.active} \ {None})
  BY DEF Bind, Turn, Continue, NextAttempt
<1>2. /\ bot \in BotRecord /\ storedBot \in BotRecord /\ lineage \in [Execution -> ExecutionRecord]
      /\ b \in Execution /\ b # None /\ bot.head \in Execution
      /\ runs \in [Attempt -> Ended \cup {"none", "live", "lost"}]
  BY Types, AttemptIsExecution DEF BotInv, BotRecord
<1>3. /\ lineage' \in [Execution -> ExecutionRecord]
      /\ lineage'[b].state = "open" /\ lineage'[b].parent = bot.head
      /\ \A e \in Execution : e # b => lineage'[e] = lineage[e]
  BY <1>1, <1>2 DEF ExecutionRecord
<1>4. /\ runs[b] = "none"
      /\ \A e \in Execution : e # b => lineage[e].parent # b
      /\ \A r \in {bot, storedBot} : r.head # b /\ r.active # b
  <2>1. runs[b] = "none"
    BY <1>1 DEF BotInv, BoundFirst
  <2>2. \A e \in Execution : lineage[e].parent # b
    BY <1>1, <1>2 DEF BotInv, ParentsAreBound
  <2>3. \A r \in {bot, storedBot} : r.head # b /\ r.active # b
    BY <1>1, <1>2 DEF BotInv, RecordInv, Coherent
  <2> QED BY <2>1, <2>2, <2>3
<1>5. \A a \in Attempt : runs[a] # "live"
  BY <1>1, AttemptIsExecution DEF BotInv, LiveIsRecorded, IsLive
<1>6. queue' \in Seq(BotOperation) /\ EventsAreLate'
  BY <1>1, EventsStay DEF BotInv
<1>7. BotTypeOK'
  BY <1>1, <1>2, <1>3, <1>6, Types, TypeFrom, AttemptIsExecution DEF BotInv, BotTypeOK, BotRecord
<1>8. LiveIsRecorded'
  BY <1>1, <1>5 DEF LiveIsRecorded
<1>11. BoundFirst'
  <2> SUFFICES ASSUME NEW a \in Attempt, lineage'[a].state = "none"
               PROVE  /\ runs[a] = "none" /\ lineage'[a].parent = None
                      /\ \A c \in Attempt : c > a => lineage'[c].state = "none"
    BY <1>1 DEF BoundFirst
  <2>1. a # b /\ a \in Execution /\ lineage[a].state = "none"
    BY <1>3, AttemptIsExecution
  <2>2. ~(a < b)
    BY <1>1, <2>1, BotAssumption DEF Attempt
  <2> QED BY <1>3, <2>1, <2>2, AttemptIsExecution DEF BotInv, BoundFirst
<1>9. ParentsAreBound'
  <2> SUFFICES ASSUME NEW e \in Execution, lineage'[e].parent # None
               PROVE  lineage'[lineage'[e].parent].state # "none"
    BY DEF ParentsAreBound
  <2>1. CASE e = b
    BY <1>2, <1>3, <1>4, <2>1 DEF BotInv, RecordInv, Coherent
  <2>2. CASE e # b
    <3>1. lineage[e].parent \in Execution /\ lineage'[e] = lineage[e]
      BY <1>2, <1>3, <2>2 DEF ExecutionRecord
    <3> QED BY <1>3, <1>4, <2>2, <3>1 DEF BotInv, ParentsAreBound
  <2> QED BY <2>1, <2>2
<1>10. StepIsDue'
  <2>1. \A c \in Attempt : c > b => lineage'[c].state = "none"
    BY <1>1, <1>3, AttemptIsExecution DEF BotInv, BoundFirst
  <2> QED BY <1>1, <1>3, <1>4, <2>1 DEF StepIsDue, NewlyBound
<1>12. ClosedAsItEnded'
  BY <1>1, <1>3, AttemptIsExecution DEF BotInv, ClosedAsItEnded
<1>13. \A e \in Execution : e # b => Ancestors(e) \subseteq Ancestors(e)'
  BY <1>2, <1>3, <1>4, AncestorsOfBound
<1>14. ASSUME NEW r \in BotRecord, RecordInv(r), r.head # b, r.active # b
       PROVE  RecordInv(r)'
  <2>1. /\ r.head \in Execution /\ r.active \in Execution
        /\ lineage'[r.head] = lineage[r.head] /\ lineage'[r.active] = lineage[r.active]
    BY <1>3, <1>14 DEF BotRecord
  <2>2. Coherent(r)' /\ ClosesAsItEnded(r)' /\ HeadIsClosed(r)'
    BY <1>1, <1>14, <2>1 DEF RecordInv, Coherent, ClosesAsItEnded, HeadIsClosed
  <2>3. HeadDescends(r)'
    BY <1>1, <1>13, <1>14, <2>1 DEF RecordInv, HeadDescends
  <2> QED BY <2>2, <2>3 DEF RecordInv
<1>15. \A r \in {bot', storedBot'} : RecordInv(r)'
  <2> SUFFICES ASSUME NEW r \in {bot', storedBot'} PROVE RecordInv(r)'
    OBVIOUS
  <2> QED BY <1>1, <1>2, <1>4, <1>14 DEF BotInv
<1>16. LineageIsKept'
  <2> SUFFICES ASSUME NEW c \in Attempt, lineage'[c].state # "none",
                      NEW a \in 1 .. (c - 1), runs[a] # "none", a \notin superseded'
               PROVE  a \in Ancestors(c)'
    BY <1>1 DEF LineageIsKept
  <2>1. /\ a \in Attempt /\ a \in Execution /\ a # None /\ c \in Execution
    BY AttemptIsExecution, BotAssumption DEF Attempt
  <2>2. CASE c # b
    BY <1>1, <1>3, <1>13, <2>1, <2>2 DEF BotInv, LineageIsKept
  <2>3. CASE c = b
    <3>1. a \in {bot.head, bot.active} \cup Ancestors(bot.head) \cup superseded
      BY <2>1 DEF BotInv, RecordInv, HeadDescends
    <3>2. a \in {bot.head} \cup Ancestors(bot.head)
      BY <1>1, <2>1, <3>1
    <3>3. PICK h \in Execution : h = bot.head /\ h # b
      BY <1>2, <1>4
    <3>4. a = h \/ a \in Ancestors(h)'
      BY <1>13, <3>2, <3>3
    <3>5. lineage'[b].parent = h
      BY <1>3, <3>3
    <3>6. ({h} \cup Ancestors(h)') \cap Execution \subseteq Ancestors(b)'
      BY <1>2, <3>5 DEF Ancestors
    <3> QED BY <2>1, <2>3, <3>4, <3>6
  <2> QED BY <2>2, <2>3
<1> QED BY <1>6, <1>7, <1>8, <1>9, <1>10, <1>11, <1>12, <1>15, <1>16 DEF BotInv

LEMMA BotNextInv == BotInv /\ [BotNext]_botVars => BotInv'
<1> SUFFICES ASSUME BotInv, [BotNext]_botVars PROVE BotInv'
  OBVIOUS
<1>1. CASE UNCHANGED botVars
  <2>1. \A a \in Attempt : NewlyBound(a)' = NewlyBound(a)
    BY <1>1 DEF botVars, NewlyBound
  <2>2. LineageIsKept' = LineageIsKept
    BY <1>1 DEF botVars, LineageIsKept, Ancestors
  <2>3. BotTypeOK' /\ LiveIsRecorded' /\ EventsAreLate' /\ BoundFirst' /\ ParentsAreBound'
        /\ ClosedAsItEnded'
    BY <1>1 DEF botVars, BotInv, BotTypeOK, LiveIsRecorded, EventsAreLate, BoundFirst,
                ParentsAreBound, ClosedAsItEnded
  <2>4. StepIsDue'
    BY <1>1 DEF botVars, BotInv, StepIsDue, NewlyBound
  <2>5. \A r \in {bot, storedBot} : RecordInv(r)' = RecordInv(r)
    BY <1>1 DEF botVars, RecordInv, Coherent, ClosesAsItEnded, HeadIsClosed, HeadDescends, Ancestors
  <2> QED BY <1>1, <2>2, <2>3, <2>4, <2>5 DEF botVars, BotInv
<1>2. CASE CreateEnds
  BY <1>2, CreateEndsInv
<1>3. CASE Refuse \/ AlreadyLive \/ Watch
  BY <1>3, QuietStepInv
<1>4. CASE \/ \E name \in {"start", "stop", "delete"} : Request(name)
           \/ \E a \in Attempt : Hear(a)
  BY <1>4, AskedInv
<1>5. CASE Prepare \/ LoopStarts \/ LoopRefused \/ RecordRun
  BY <1>5, PrepareInv, LoopStartsInv, LoopRefusedInv, RecordRunInv
<1>6. CASE StopBot \/ Delete \/ CloseDeleted \/ CloseAttempt \/ ClearPendingClose
  BY <1>6, StopInv, DeleteInv, CloseDeletedInv, CloseAttemptInv, ClearInv
<1>7. CASE RestartBot \/ RecoverClose \/ RecoverHead \/ InterruptBot \/ CloseInterrupted
  BY <1>7, RestartInv, RecoverCloseInv, RecoveredInv, InterruptBotInv
<1>8. CASE \E a \in Attempt : RunEnds(a) \/ Bind(a) \/ Handle(a)
  BY <1>8, RunEndsInv, BindInv, HandleInv
<1> QED BY <1>1, <1>2, <1>3, <1>4, <1>5, <1>6, <1>7, <1>8 DEF BotNext

LEMMA BotInvHolds == BotSpec => []BotInv
BY BotInitInv, BotNextInv, PTL DEF BotSpec

(* Every variable of the bot stays within its type. *)
THEOREM BotTypeCorrect == BotSpec => []BotTypeOK
<1>1. BotInv => BotTypeOK
  BY DEF BotInv
<1> QED BY <1>1, BotInvHolds, PTL

(* However many attempts, requests, failed writes and restarts there are, no    *)
(* run of the bot works without the record naming it, save the one that a start *)
(* waits for (start, stop, #onLoopEvent).                                       *)
THEOREM RunsAreReachable == BotSpec => []RunIsReachable
<1>1. BotInv => RunIsReachable
  <2> SUFFICES ASSUME BotInv, NEW a \in Attempt, runs[a] = "live",
                      ~(at = "starting" /\ bot.active = a)
               PROVE  bot.run = a /\ bot.status # "deleted"
    BY DEF RunIsReachable
  <2> QED BY DEF BotInv, LiveIsRecorded
<1> QED BY <1>1, BotInvHolds, PTL

(* An execution is never closed as another end than its run had, whatever fails *)
(* or is interrupted between the record and the execution (initialize).         *)
THEOREM AttemptsCloseAsTheyEnded == BotSpec => []ClosedAsItEnded
<1>1. BotInv => ClosedAsItEnded
  BY DEF BotInv
<1> QED BY <1>1, BotInvHolds, PTL

(* Every attempt descends from all that ran before it and were settled or       *)
(* interrupted, so its classification is never below theirs (start, 314-336).   *)
THEOREM AttemptsKeepLineage == BotSpec => []LineageIsKept
<1>1. BotInv => LineageIsKept
  BY DEF BotInv
<1> QED BY <1>1, BotInvHolds, PTL

--------------------------------------------------------------------------------
(* MailChannel: for any messages, pollers and numbers of changes.               *)


(* A poll is a record of four fields. *)
PollRecord(r) == DOMAIN r = {"pc", "session", "todo", "next"}

(* A reading of the vault. *)
ReadRecord == [by : {"start", "sync", "tools"}, session : Nat, connected : BOOLEAN]

MailTypes ==
  /\ MailTypeOK
  /\ sessions \in Nat /\ grant \in BOOLEAN /\ tools \in BOOLEAN /\ registered \in BOOLEAN
  /\ behind \in BOOLEAN /\ ran \in [enabled : BOOLEAN, recipients : {0, 1}, mailbox : BOOLEAN]
  /\ reads \in Seq(ReadRecord)

(* What a poll is about to store as seen has been heard. *)
NextIsHeard ==
  \A p \in Poller : pollers[p].pc \in {"handing", "ingesting"} =>
    pollers[p].next \subseteq recorded \cup dropped

Polls == DOMAIN pollers = Poller /\ \A p \in Poller : PollRecord(pollers[p])

SeenInv == Polls /\ NextIsHeard /\ SeenIsHeard

(* A session's task is a loop that goes on. *)
TaskIsAlive ==
  pollTask # NoPoller => registered /\ pollers[pollTask].pc # "none"

(* The reads that a sync waits for: its look at the poll, or the look of a new  *)
(* session, before its look at the tools.                                       *)
ReadsOfSync ==
  /\ syncing = "no" => reads = <<>>
  /\ syncing # "no" => syncs > 0
  /\ syncing = "poll" => Len(reads) = 1 /\ reads[1].by = "sync"
  /\ syncing = "tools" =>
       \/ Len(reads) = 1 /\ reads[1].by = "tools"
       \/ Len(reads) = 2 /\ reads[1].by = "start" /\ reads[2].by = "tools"
  /\ syncing = "poll" \/ Len(reads) = 2 => reads[1].session = session /\ session # 0

(* A sync is asked for that has not begun. *)
Queued == syncs > (IF syncing = "no" THEN 0 ELSE 1)

(* What the running sync has read may be out of date, and another follows or    *)
(* failed.                                                                      *)
Due == Queued \/ behind \/ operation \in {"profile", "forget", "resync"}

PollAsSet == (pollTask # NoPoller) = (account.enabled /\ grant)

SyncAsSet ==
  plugin = "active" =>
    /\ session # 0 => registered
    /\ ~Queued => registered = account.enabled /\ (registered => ran = account)
    /\ ~Due =>
         /\ syncing = "no" => tools = grant /\ PollAsSet
         /\ syncing # "no" => \A i \in 1 .. Len(reads) : reads[i].connected = grant
         /\ syncing = "tools" => IF Len(reads) = 2 THEN pollTask = NoPoller ELSE PollAsSet

MailInv == MailTypes /\ Polls /\ TaskIsAlive /\ ReadsOfSync /\ SyncAsSet

Heard == recorded \cup dropped

(* A poll goes on to a place, with what it is about to store, and the others    *)
(* stay.                                                                        *)
PollTo(p, pc, next) ==
  /\ DOMAIN pollers' = Poller
  /\ PollRecord(pollers'[p]) /\ pollers'[p].pc = pc /\ pollers'[p].next = next
  /\ \A o \in Poller : o # p => pollers'[o] = pollers[o]

(* Where each step of the loop leads its poll. *)
LEMMA GoesTo ==
  ASSUME Polls, NEW p \in Poller, NEW pc, Goes(p, pc)
  PROVE  PollTo(p, pc, pollers[p].next)
<1>1. /\ DOMAIN pollers' = Poller /\ pollers'[p] = [pollers[p] EXCEPT !.pc = pc]
      /\ \A o \in Poller : o # p => pollers'[o] = pollers[o]
  BY DEF Goes, Polls
<1> QED BY <1>1 DEF PollTo, Polls, PollRecord

LEMMA RestsTo ==
  ASSUME Polls, NEW p \in Poller, Rests(p)
  PROVE  \E next : PollTo(p, IF Running(p) THEN "sleeping" ELSE "none", next)
<1>1. /\ DOMAIN pollers' = Poller
      /\ pollers'[p] = IF Running(p)
                       THEN [NoPoll EXCEPT !.pc = "sleeping", !.session = pollers[p].session]
                       ELSE NoPoll
      /\ \A o \in Poller : o # p => pollers'[o] = pollers[o]
  BY DEF Rests, Polls
<1>2. PollRecord(pollers'[p]) /\ pollers'[p].pc = IF Running(p) THEN "sleeping" ELSE "none"
  <2>1. CASE Running(p)
    BY <1>1, <2>1 DEF NoPoll, PollRecord
  <2>2. CASE ~Running(p)
    BY <1>1, <2>2 DEF NoPoll, PollRecord
  <2> QED BY <2>1, <2>2
<1> QED BY <1>1, <1>2 DEF PollTo

LEMMA HandedTo ==
  ASSUME Polls, NEW p \in Poller, NEW pc,
         \/ pollers' = Handed(p) /\ pc = pollers[p].pc
         \/ pollers' = [Handed(p) EXCEPT ![p].pc = pc]
  PROVE  PollTo(p, pc, pollers[p].next \cup {Head(pollers[p].todo)})
<1> DEFINE n == pollers[p].next \cup {Head(pollers[p].todo)}
<1>1. PollRecord(pollers[p]) /\ DOMAIN pollers = Poller
  BY DEF Polls
<1>2. PICK t : t = Tail(pollers[p].todo)
  OBVIOUS
<1>3. /\ DOMAIN Handed(p) = Poller
      /\ Handed(p)[p] = [pollers[p] EXCEPT !.todo = t, !.next = n]
      /\ \A o \in Poller : o # p => Handed(p)[o] = pollers[o]
  BY <1>1, <1>2 DEF Handed
<1> HIDE DEF n
<1>4. /\ PollRecord(Handed(p)[p]) /\ Handed(p)[p].pc = pollers[p].pc /\ Handed(p)[p].next = n
  BY <1>1, <1>3 DEF PollRecord
<1>5. CASE pollers' = [Handed(p) EXCEPT ![p].pc = pc]
  <2>1. /\ DOMAIN pollers' = Poller /\ pollers'[p] = [Handed(p)[p] EXCEPT !.pc = pc]
        /\ \A o \in Poller : o # p => pollers'[o] = pollers[o]
    BY <1>3, <1>5
  <2>2. PollRecord(pollers'[p]) /\ pollers'[p].pc = pc /\ pollers'[p].next = n
    BY <1>4, <2>1 DEF PollRecord
  <2> QED BY <2>1, <2>2 DEF PollTo, n
<1>6. CASE pollers' = Handed(p) /\ pc = pollers[p].pc
  BY <1>3, <1>4, <1>6 DEF PollTo, n
<1> QED BY <1>5, <1>6

LEMMA ListedTo ==
  ASSUME Polls, NEW p \in Poller, NEW todo,
         pollers' = [pollers EXCEPT ![p].pc = "loading", ![p].todo = todo]
  PROVE  PollTo(p, "loading", pollers[p].next)
<1>1. /\ DOMAIN pollers' = Poller
      /\ pollers'[p] = [pollers[p] EXCEPT !.pc = "loading", !.todo = todo]
      /\ \A o \in Poller : o # p => pollers'[o] = pollers[o]
  BY DEF Polls
<1> QED BY <1>1 DEF PollTo, Polls, PollRecord

LEMMA LoadedTo ==
  ASSUME Polls, NEW p \in Poller, Loaded(p)
  PROVE  PollTo(p, "handing", seenIds)
<1>1. PICK todo : pollers' = [pollers EXCEPT ![p].pc = "handing", ![p].next = seenIds, ![p].todo = todo]
  BY DEF Loaded
<1>2. /\ DOMAIN pollers' = Poller
      /\ pollers'[p] = [pollers[p] EXCEPT !.pc = "handing", !.next = seenIds, !.todo = todo]
      /\ \A o \in Poller : o # p => pollers'[o] = pollers[o]
  BY <1>1 DEF Polls
<1> QED BY <1>2 DEF PollTo, Polls, PollRecord

(* One poll goes on; nothing that was heard is forgotten. *)
LEMMA SeenStep ==
  ASSUME SeenInv, NEW p \in Poller, NEW pc, NEW next, PollTo(p, pc, next),
         Heard \subseteq Heard', seenIds' \subseteq Heard',
         pc \in {"handing", "ingesting"} => next \subseteq Heard'
  PROVE  SeenInv'
<1>1. Polls' /\ NextIsHeard'
  BY DEF SeenInv, Polls, NextIsHeard, Heard, PollTo
<1> QED BY <1>1 DEF SeenInv, SeenIsHeard, Heard

LEMMA SeenRests ==
  ASSUME SeenInv, NEW p \in Poller, Rests(p), Heard \subseteq Heard', seenIds' \subseteq Heard'
  PROVE  SeenInv'
<1>1. PICK next : PollTo(p, IF Running(p) THEN "sleeping" ELSE "none", next)
  BY RestsTo DEF SeenInv
<1> QED BY <1>1, SeenStep

LEMMA SeenLoopStep ==
  ASSUME SeenInv, NEW p \in Poller, LoopStep(p)
  PROVE  SeenInv'
<1>1. /\ seenIds \subseteq Heard
      /\ Polls /\ PollRecord(pollers[p])
      /\ pollers[p].pc \in {"handing", "ingesting"} => pollers[p].next \subseteq Heard
  BY DEF SeenInv, SeenIsHeard, NextIsHeard, Heard, Polls
<1>2. CASE Awakes(p)
  <2>1. Heard' = Heard /\ seenIds' = seenIds /\ (Goes(p, "listing") \/ Rests(p))
    BY <1>2 DEF Awakes, mailbox, Heard
  <2>2. CASE Rests(p)
    BY <1>1, <2>1, <2>2, SeenRests
  <2>3. CASE Goes(p, "listing")
    <3>1. PollTo(p, "listing", pollers[p].next)
      BY <1>1, <2>3, GoesTo
    <3> QED BY <1>1, <2>1, <3>1, SeenStep
  <2> QED BY <2>1, <2>2, <2>3
<1>3. CASE InboxListed(p)
  <2>1. Heard' = Heard /\ seenIds' = seenIds
        /\ pollers' = [pollers EXCEPT ![p].pc = "loading", ![p].todo = InOrder(Page)]
    BY <1>3 DEF InboxListed, mailbox, Heard
  <2>2. PollTo(p, "loading", pollers[p].next)
    BY <1>1, <2>1, ListedTo
  <2> QED BY <1>1, <2>1, <2>2, SeenStep
<1>4. CASE PollFails(p)
  BY <1>1, <1>4, SeenRests DEF PollFails, mailbox, Heard
<1>5. CASE Loaded(p)
  <2>1. Heard' = Heard /\ seenIds' = seenIds
    BY <1>5 DEF Loaded, mailbox, Heard
  <2>2. PollTo(p, "handing", seenIds)
    BY <1>1, <1>5, LoadedTo
  <2> QED BY <1>1, <2>1, <2>2, SeenStep
<1>6. CASE Hand(p)
  <2>1. CASE Goes(p, "ingesting") /\ UNCHANGED mailbox
    <3>1. Heard' = Heard /\ seenIds' = seenIds /\ pollers[p].next \subseteq Heard
      BY <1>1, <1>6, <2>1 DEF Hand, mailbox, Heard
    <3>2. PollTo(p, "ingesting", pollers[p].next)
      BY <1>1, <2>1, GoesTo
    <3> QED BY <1>1, <3>1, <3>2, SeenStep
  <2>2. CASE /\ dropped' = dropped \cup ({Head(pollers[p].todo)} \ recorded)
             /\ pollers' = Handed(p) /\ UNCHANGED <<arrived, seenIds, recorded>>
    <3>1. /\ Heard \subseteq Heard' /\ seenIds' \subseteq Heard'
          /\ pollers[p].next \cup {Head(pollers[p].todo)} \subseteq Heard'
      BY <1>1, <1>6, <2>2 DEF Hand, Heard
    <3>2. PollTo(p, pollers[p].pc, pollers[p].next \cup {Head(pollers[p].todo)})
      BY <1>1, <2>2, HandedTo
    <3> QED BY <3>1, <3>2, SeenStep
  <2>3. CASE Rests(p) /\ UNCHANGED mailbox
    BY <1>1, <2>3, SeenRests DEF mailbox, Heard
  <2> QED BY <1>6, <2>1, <2>2, <2>3 DEF Hand
<1>7. CASE Ingested(p)
  <2>1. /\ Heard \subseteq Heard' /\ seenIds' \subseteq Heard'
        /\ pollers[p].next \cup {Head(pollers[p].todo)} \subseteq Heard'
        /\ pollers' = [Handed(p) EXCEPT ![p].pc = "handing"]
    BY <1>1, <1>7 DEF Ingested, Recorded, Heard
  <2>2. PollTo(p, "handing", pollers[p].next \cup {Head(pollers[p].todo)})
    BY <1>1, <2>1, HandedTo
  <2> QED BY <2>1, <2>2, SeenStep
<1>8. CASE IngestFails(p)
  <2>1. Heard \subseteq Heard' /\ seenIds' \subseteq Heard' /\ Rests(p)
    BY <1>1, <1>8 DEF IngestFails, Recorded, Heard
  <2> QED BY <2>1, SeenRests
<1>9. CASE SaveSeen(p)
  <2>1. Heard \subseteq Heard' /\ seenIds' \subseteq Heard' /\ Rests(p)
    BY <1>1, <1>9 DEF SaveSeen, Heard
  <2> QED BY <2>1, SeenRests
<1> QED BY <1>2, <1>3, <1>4, <1>5, <1>6, <1>7, <1>8, <1>9 DEF LoopStep

LEMMA SeenInitInv == MailInit => SeenInv
BY DEF MailInit, MailboxAt, SeenInv, Polls, PollRecord, NoPoll, NextIsHeard, SeenIsHeard

(* A step that leaves what is seen and heard alone, starting at most the loop   *)
(* of a session.                                                                *)
LEMMA SeenQuiet ==
  ASSUME SeenInv, UNCHANGED <<seenIds, recorded, dropped>>,
         DOMAIN pollers' = Poller,
         \A p \in Poller : \/ pollers'[p] = pollers[p]
                           \/ PollRecord(pollers'[p]) /\ pollers'[p].pc \in {"none", "sleeping"}
  PROVE  SeenInv'
BY DEF SeenInv, Polls, NextIsHeard, SeenIsHeard

(* The look at the poll starts a loop at most where none is. *)
LEMMA LookTo ==
  ASSUME Polls, NEW n, LookedAt(n)
  PROVE  /\ DOMAIN pollers' = Poller
         /\ \A p \in Poller : \/ pollers'[p] = pollers[p]
                              \/ /\ PollRecord(pollers'[p]) /\ pollers'[p].pc = "sleeping"
                                 /\ pollTask' = p
<1>1. CASE pollers' = pollers
  BY <1>1 DEF Polls
<1>2. CASE \E p \in Poller :
             /\ pollTask' = p
             /\ pollers' = [pollers EXCEPT ![p] = [NoPoll EXCEPT !.pc = "sleeping", !.session = n]]
  <2>1. PICK p \in Poller :
             /\ pollTask' = p
             /\ pollers' = [pollers EXCEPT ![p] = [NoPoll EXCEPT !.pc = "sleeping", !.session = n]]
    BY <1>2
  <2>2. /\ DOMAIN pollers' = Poller
        /\ pollers'[p] = [NoPoll EXCEPT !.pc = "sleeping", !.session = n]
        /\ \A o \in Poller : o # p => pollers'[o] = pollers[o]
    BY <2>1 DEF Polls
  <2>3. PollRecord(pollers'[p]) /\ pollers'[p].pc = "sleeping"
    BY <2>2 DEF NoPoll, PollRecord
  <2> QED BY <2>1, <2>2, <2>3
<1> QED BY <1>1, <1>2 DEF LookedAt

LEMMA SeenNextInv == SeenInv /\ [MailNext]_mailVars => SeenInv'
<1> SUFFICES ASSUME SeenInv, [MailNext]_mailVars PROVE SeenInv'
  OBVIOUS
<1>1. Polls
  BY DEF SeenInv
<1>2. CASE UNCHANGED mailVars
  BY <1>1, <1>2, SeenQuiet DEF mailVars, Polls
<1>3. CASE \E p \in Poller : LoopStep(p)
  BY <1>3, SeenLoopStep
<1>4. CASE PollAnswered
  <2>1. UNCHANGED <<seenIds, recorded, dropped>> /\ LookedAt(Snapshot.session)
    BY <1>4 DEF PollAnswered, mailbox
  <2> QED BY <1>1, <2>1, LookTo, SeenQuiet
<1>5. CASE PluginStarts
  <2>1. UNCHANGED <<seenIds, recorded, dropped>>
        /\ (pollers' = [p \in Poller |-> NoPoll] \/ pollers' = pollers)
    BY <1>5 DEF PluginStarts, mailbox
  <2>2. PollRecord(NoPoll) /\ NoPoll.pc = "none"
    BY DEF PollRecord, NoPoll
  <2> QED BY <1>1, <2>1, <2>2, SeenQuiet DEF Polls
<1>6. CASE \/ SaveSettings \/ AskOAuth("connect") \/ AskOAuth("disconnect") \/ OperationStep
           \/ SyncBegins \/ ToolsAnswered \/ AnswerFails
           \/ MailArrives \/ PluginAborted \/ PluginDisposes
  <2>1. UNCHANGED <<seenIds, recorded, dropped, pollers>>
    BY <1>6 DEF SaveSettings, AskOAuth, OperationStep, Consented, Profiled, Disconnected,
                MailboxForgotten, Resynced, SyncBegins, ToolsAnswered, AnswerFails, MailArrives,
                PluginAborted, PluginDisposes, mailbox
  <2> QED BY <1>1, <2>1, SeenQuiet DEF Polls
<1> QED BY <1>2, <1>3, <1>4, <1>5, <1>6 DEF MailNext, SyncStep

(* Whatever fails, overlaps or ends: an id is stored as seen only when the      *)
(* message has been recorded, or was given up with its adapter (#pollOnce).     *)
THEOREM SeenWasHeard == MailSpec => []SeenIsHeard
<1>1. SeenInv => SeenIsHeard
  BY DEF SeenInv
<1> QED BY <1>1, SeenInitInv, SeenNextInv, PTL DEF MailSpec

Places == {"none", "sleeping", "listing", "loading", "handing", "ingesting"}

LEMMA MailInitInv == MailInit => MailInv
<1> SUFFICES ASSUME MailInit PROVE MailInv
  OBVIOUS
<1> USE DEF MailInit, MailboxAt
<1>1. Polls /\ \A p \in Poller : pollers[p].pc = "none"
  BY DEF Polls, PollRecord, NoPoll
<1>2. account \in [enabled : BOOLEAN, recipients : {0, 1}, mailbox : BOOLEAN]
  OBVIOUS
<1>3. reads \in Seq(ReadRecord) /\ Len(reads) = 0
  BY EmptySeq
<1>4. MailTypes
  <2>1. MailTypeOK
    BY <1>1, <1>2 DEF MailTypeOK
  <2> QED BY <1>2, <1>3, <2>1 DEF MailTypes
<1>5. TaskIsAlive /\ ReadsOfSync /\ SyncAsSet
  BY <1>3 DEF TaskIsAlive, ReadsOfSync, SyncAsSet, Queued, Due, NoPoller
<1> QED BY <1>1, <1>4, <1>5 DEF MailInv

(* Where a step of the loop leads: a loop whose signal is not aborted goes on.  *)
LEMMA LoopTo ==
  ASSUME Polls, NEW p \in Poller, LoopStep(p)
  PROVE  /\ UNCHANGED <<connection, syncState, accountSession>>
         /\ \E pc \in Places : \E next : PollTo(p, pc, next) /\ (Running(p) => pc # "none")
<1> DEFINE Leads == \E pc \in Places : \E next : PollTo(p, pc, next) /\ (Running(p) => pc # "none")
<1>1. Rests(p) => Leads
  BY RestsTo DEF Places
<1>2. \A pc \in Places : Goes(p, pc) /\ pc # "none" => Leads
  BY GoesTo
<1>3. CASE Awakes(p)
  BY <1>1, <1>2, <1>3 DEF Awakes, Places
<1>4. CASE InboxListed(p)
  <2>1. PollTo(p, "loading", pollers[p].next)
    BY <1>4, ListedTo DEF InboxListed
  <2> QED BY <1>4, <2>1 DEF InboxListed, Places
<1>5. CASE PollFails(p)
  BY <1>1, <1>5 DEF PollFails
<1>6. CASE Loaded(p)
  <2>1. PollTo(p, "handing", seenIds)
    BY <1>6, LoadedTo
  <2> QED BY <1>6, <2>1 DEF Loaded, Places
<1>7. CASE Hand(p)
  <2>1. CASE Goes(p, "ingesting")
    BY <1>2, <1>7, <2>1 DEF Hand, Places
  <2>2. CASE pollers' = Handed(p)
    <3>1. PollTo(p, "handing", pollers[p].next \cup {Head(pollers[p].todo)})
      BY <1>7, <2>2, HandedTo DEF Hand
    <3> QED BY <1>7, <3>1 DEF Hand, Places
  <2>3. CASE Rests(p)
    BY <1>1, <1>7, <2>3 DEF Hand
  <2> QED BY <1>7, <2>1, <2>2, <2>3 DEF Hand
<1>8. CASE Ingested(p)
  <2>1. PollTo(p, "handing", pollers[p].next \cup {Head(pollers[p].todo)})
    BY <1>8, HandedTo DEF Ingested
  <2> QED BY <1>8, <2>1 DEF Ingested, Places
<1>9. CASE IngestFails(p) \/ SaveSeen(p)
  BY <1>1, <1>9 DEF IngestFails, SaveSeen
<1> QED BY <1>3, <1>4, <1>5, <1>6, <1>7, <1>8, <1>9 DEF LoopStep

LEMMA LoopMailInv ==
  ASSUME MailInv, NEW p \in Poller, LoopStep(p) PROVE MailInv'
<1>1. /\ UNCHANGED <<account, grant, operation, plugin, behind, syncs, syncing, reads, tools,
                      session, sessions, ran, registered, pollTask>>
      /\ Polls
  BY LoopTo DEF MailInv, connection, syncState, accountSession
<1>2. PICK pc \in Places : \E next : PollTo(p, pc, next) /\ (Running(p) => pc # "none")
  BY <1>1, LoopTo
<1>3. Polls'
  BY <1>1, <1>2 DEF Polls, PollTo
<1>4. MailTypes'
  BY <1>1, <1>2 DEF MailInv, MailTypes, MailTypeOK, PollTo, Places
<1>5. TaskIsAlive'
  BY <1>1, <1>2 DEF MailInv, MailTypes, MailTypeOK, TaskIsAlive, PollTo, Running
<1>6. ReadsOfSync' /\ SyncAsSet'
  BY <1>1 DEF MailInv, ReadsOfSync, SyncAsSet, Queued, Due, PollAsSet
<1> QED BY <1>3, <1>4, <1>5, <1>6 DEF MailInv

Accounts == [enabled : BOOLEAN, recipients : {0, 1}, mailbox : BOOLEAN]

Operations ==
  {"none", "connect", "profile", "disconnect", "forget", "published", "resync", "saved"}

People ==
  UNCHANGED <<plugin, syncing, reads, tools, session, sessions, ran, registered, pollTask, pollers>>

(* A sync is asked for, with or without a change of the settings. *)
SyncAsked ==
  /\ account' \in Accounts /\ operation' \in Operations
  /\ syncs' = syncs + 1 /\ UNCHANGED <<grant, behind>>

(* The grant changes or a call fails; what is due stays so. *)
StaysDue ==
  /\ operation' \in Operations /\ grant' \in BOOLEAN /\ behind' \in BOOLEAN
  /\ UNCHANGED <<account, syncs>>
  /\ behind => behind'
  /\ grant' # grant => operation' \in {"profile", "forget"}
  /\ operation \in {"profile", "forget", "resync"} =>
       operation' \in {"profile", "forget", "resync"} \/ behind'

LEMMA SyncAskedInv == ASSUME MailInv, People, SyncAsked PROVE MailInv'
<1> USE DEF People, SyncAsked
<1>1. /\ MailTypes /\ Polls /\ TaskIsAlive /\ ReadsOfSync /\ SyncAsSet
      /\ syncs \in Nat
  BY DEF MailInv, MailTypes, MailTypeOK
<1>2. MailTypes' /\ Polls' /\ TaskIsAlive' /\ ReadsOfSync'
  BY <1>1 DEF MailTypes, MailTypeOK, Polls, TaskIsAlive, ReadsOfSync, Accounts, Operations
<1>3. Queued'
  BY <1>1 DEF ReadsOfSync, Queued
<1>4. SyncAsSet'
  BY <1>1, <1>3 DEF SyncAsSet, Due
<1> QED BY <1>2, <1>4 DEF MailInv

LEMMA StaysDueInv == ASSUME MailInv, People, StaysDue PROVE MailInv'
<1> USE DEF People, StaysDue
<1>1. MailTypes /\ Polls /\ TaskIsAlive /\ ReadsOfSync /\ SyncAsSet
  BY DEF MailInv
<1>2. MailTypes' /\ Polls' /\ TaskIsAlive' /\ ReadsOfSync'
  BY <1>1 DEF MailTypes, MailTypeOK, Polls, TaskIsAlive, ReadsOfSync, Operations
<1>3. Queued' = Queued
  BY DEF Queued
<1>4. ~Due' => ~Due /\ grant' = grant
  BY <1>3 DEF Due
<1>5. SyncAsSet'
  <2>1. PollAsSet' = PollAsSet \/ grant' # grant
    BY DEF PollAsSet
  <2> QED BY <1>1, <1>3, <1>4, <2>1 DEF SyncAsSet
<1> QED BY <1>2, <1>5 DEF MailInv

(* What people do: a change of the settings asks for a sync; a change of the    *)
(* grant leads to one or fails.                                                 *)
LEMMA OperationInv ==
  ASSUME MailInv,
         SaveSettings \/ AskOAuth("connect") \/ AskOAuth("disconnect") \/ OperationStep
  PROVE  MailInv'
<1>1. People
  BY DEF SaveSettings, AskOAuth, OperationStep, Consented, Profiled, Disconnected, MailboxForgotten,
         Resynced, syncState, accountSession, People
<1>2. /\ account \in Accounts /\ operation \in Operations
      /\ grant \in BOOLEAN /\ behind \in BOOLEAN
  BY DEF MailInv, MailTypes, MailTypeOK, Accounts, Operations
<1>3. CASE SaveSettings
  <2>1. PICK e \in BOOLEAN, r \in {0, 1} :
          /\ [account EXCEPT !.enabled = e, !.recipients = r] # account
          /\ Updated([account EXCEPT !.enabled = e, !.recipients = r], "saved")
    BY <1>3 DEF SaveSettings
  <2>2. [account EXCEPT !.enabled = e, !.recipients = r] \in Accounts
    BY <1>2 DEF Accounts
  <2>3. SyncAsked
    BY <1>3, <2>1, <2>2 DEF SaveSettings, Updated, SyncAsked, Operations
  <2> QED BY <1>1, <2>3, SyncAskedInv
<1>4. ASSUME NEW m \in BOOLEAN, Updated([account EXCEPT !.mailbox = m], "published"),
             UNCHANGED <<grant, behind>>
      PROVE  SyncAsked \/ StaysDue
  <2>1. [account EXCEPT !.mailbox = m] \in Accounts
    BY <1>2 DEF Accounts
  <2>2. CASE [account EXCEPT !.mailbox = m] = account
    BY <1>2, <1>4, <2>2 DEF Updated, StaysDue, Operations
  <2>3. CASE [account EXCEPT !.mailbox = m] # account
    BY <1>4, <2>1, <2>3 DEF Updated, SyncAsked, Operations
  <2> QED BY <2>2, <2>3
<1>5. CASE Profiled \/ MailboxForgotten
  <2>1. \/ \E m \in BOOLEAN : /\ Updated([account EXCEPT !.mailbox = m], "published")
                              /\ UNCHANGED <<grant, behind>>
        \/ operation' = "none" /\ behind' = TRUE /\ UNCHANGED <<account, syncs, grant>>
    BY <1>5 DEF Profiled, MailboxForgotten
  <2>2. CASE operation' = "none" /\ behind' = TRUE /\ UNCHANGED <<account, syncs, grant>>
    <3>1. /\ operation' = "none" /\ behind' /\ behind' \in BOOLEAN /\ grant' = grant
          /\ UNCHANGED <<account, syncs>>
      BY <2>2
    <3>2. operation' \in Operations
      BY <3>1 DEF Operations
    <3>3. StaysDue
      BY <1>2, <3>1, <3>2 DEF StaysDue
    <3> QED BY <1>1, <3>3, StaysDueInv
  <2> QED BY <1>1, <1>4, <2>1, <2>2, SyncAskedInv, StaysDueInv
<1>6. CASE AskOAuth("connect") \/ AskOAuth("disconnect")
  <2>1. StaysDue
    BY <1>2, <1>6 DEF AskOAuth, syncState, StaysDue, Operations
  <2> QED BY <1>1, <2>1, StaysDueInv
<1>7. CASE Consented \/ Disconnected
  <2>1. StaysDue
    BY <1>2, <1>7 DEF Consented, Disconnected, syncState, StaysDue, Operations
  <2> QED BY <1>1, <2>1, StaysDueInv
<1>8. CASE Resynced
  <2>1. SyncAsked \/ StaysDue
    BY <1>2, <1>8 DEF Resynced, SyncAsked, StaysDue, Operations
  <2> QED BY <1>1, <2>1, SyncAskedInv, StaysDueInv
<1> QED BY <1>3, <1>5, <1>6, <1>7, <1>8 DEF OperationStep

(* One or two reads, where none was waiting. *)
LEMMA ReadsMade ==
  ASSUME reads = <<>>, NEW a \in ReadRecord, NEW b \in ReadRecord
  PROVE  /\ Append(reads, a) \in Seq(ReadRecord)
         /\ Len(Append(reads, a)) = 1 /\ Append(reads, a)[1] = a
         /\ Append(reads, a) \o <<b>> \in Seq(ReadRecord)
         /\ Len(Append(reads, a) \o <<b>>) = 2
         /\ (Append(reads, a) \o <<b>>)[1] = a /\ (Append(reads, a) \o <<b>>)[2] = b
<1>1. reads \in Seq(ReadRecord) /\ Len(reads) = 0
  BY EmptySeq
<1>2. /\ Append(reads, a) \in Seq(ReadRecord)
      /\ Len(Append(reads, a)) = 1 /\ Append(reads, a)[1] = a
  BY <1>1, AppendProperties
<1>3. <<b>> \in Seq(ReadRecord) /\ Len(<<b>>) = 1 /\ <<b>>[1] = b
  OBVIOUS
<1> QED BY <1>2, <1>3, ConcatProperties

(* Where a step of a sync leads. *)
LEMMA SyncTypes ==
  ASSUME MailTypes, UNCHANGED <<account, grant, operation, plugin, pollers>>,
         syncs' \in Nat, syncing' \in {"no", "poll", "tools"}, reads' \in Seq(ReadRecord),
         sessions' \in Nat, session' \in 0 .. sessions', ran' \in Accounts,
         registered' \in BOOLEAN, pollTask' \in Poller \cup {NoPoller},
         tools' \in BOOLEAN, behind' \in BOOLEAN
  PROVE  MailTypes'
<1>1. MailTypeOK'
  BY DEF MailTypes, MailTypeOK
<1> QED BY <1>1 DEF MailTypes, Accounts

(* A sync begins with the settings and the grant of now. *)
LEMMA SyncBeginsInv == ASSUME MailInv, SyncBegins PROVE MailInv'
<1>1. /\ syncs \in Nat /\ syncs > 0 /\ syncing = "no" /\ reads = <<>>
      /\ sessions \in Nat /\ session \in 0 .. sessions /\ session \in Nat /\ grant \in BOOLEAN
      /\ account \in Accounts /\ ran \in Accounts /\ registered \in BOOLEAN /\ tools \in BOOLEAN
      /\ behind \in BOOLEAN /\ pollTask \in Poller \cup {NoPoller} /\ reads \in Seq(ReadRecord)
  BY DEF MailInv, MailTypes, MailTypeOK, ReadsOfSync, SyncBegins, Accounts
<1>2. UNCHANGED <<account, grant, operation, plugin, pollers>>
  BY DEF SyncBegins
<1>3. MailTypes /\ TaskIsAlive /\ ReadsOfSync /\ SyncAsSet
  BY DEF MailInv
<1>4. Polls'
  BY <1>2 DEF Polls, MailInv
<1> DEFINE R(who) == [by |-> who, session |-> session', connected |-> grant]
<1>5. ASSUME session' \in Nat, NEW who \in {"start", "sync", "tools"}
      PROVE  /\ R(who) \in ReadRecord /\ R(who).by = who /\ R(who).session = session'
             /\ R(who).connected = grant
  BY <1>1, <1>5 DEF ReadRecord
<1>6. CASE plugin = "disposed" /\ NoSessionLeft /\ tools' = FALSE
           /\ syncs' = syncs - 1 /\ UNCHANGED <<syncing, reads, behind>>
  <2>1. /\ session' = 0 /\ registered' = FALSE /\ pollTask' = NoPoller
        /\ UNCHANGED <<sessions, ran>> /\ plugin' = "disposed"
        /\ syncing' = "no" /\ reads' = <<>> /\ syncs' = syncs - 1 /\ tools' = FALSE
        /\ behind' = behind
    BY <1>1, <1>2, <1>6 DEF NoSessionLeft
  <2>2. /\ syncs' \in Nat /\ session' \in 0 .. sessions'
        /\ reads' \in Seq(ReadRecord)
    BY <1>1, <2>1
  <2>3. MailTypes'
    BY <1>1, <1>2, <1>3, <2>1, <2>2, SyncTypes
  <2>4. TaskIsAlive' /\ SyncAsSet'
    BY <2>1 DEF TaskIsAlive, SyncAsSet
  <2>5. ReadsOfSync'
    <3>1. Len(reads') = 0
      BY <2>1
    <3> QED BY <2>1, <3>1 DEF ReadsOfSync
  <2> QED BY <1>4, <2>3, <2>4, <2>5 DEF MailInv
<1>7. CASE /\ plugin # "disposed" /\ ~account.enabled
           /\ NoSessionLeft
           /\ syncing' = "tools" /\ reads' = Reading("tools")
           /\ behind' = FALSE /\ UNCHANGED <<syncs, tools>>
  <2>1. /\ session' = 0 /\ registered' = FALSE /\ pollTask' = NoPoller
        /\ UNCHANGED <<sessions, ran>>
    BY <1>7 DEF NoSessionLeft
  <2>2. /\ syncing' = "tools" /\ syncs' = syncs /\ behind' = FALSE /\ tools' = tools
        /\ account'.enabled = FALSE
    BY <1>1, <1>2, <1>7 DEF Accounts
  <2>3. /\ reads' \in Seq(ReadRecord) /\ Len(reads') = 1 /\ reads'[1].by = "tools"
        /\ reads'[1].connected = grant'
    BY <1>1, <1>2, <1>5, <1>7, <2>1, ReadsMade DEF Reading
  <2>4. MailTypes'
    <3>1. session' \in 0 .. sessions'
      BY <1>1, <2>1
    <3> QED BY <1>1, <1>2, <1>3, <2>1, <2>2, <2>3, <3>1, SyncTypes
  <2>5. TaskIsAlive'
    BY <2>1 DEF TaskIsAlive
  <2>6. ReadsOfSync'
    BY <1>1, <2>2, <2>3 DEF ReadsOfSync
  <2>7. SyncAsSet'
    <3>1. PollAsSet'
      BY <2>1, <2>2 DEF PollAsSet
    <3>2. \A i \in 1 .. Len(reads') : reads'[i].connected = grant'
      BY <2>3
    <3>3. ~(syncing' = "no") /\ Len(reads') # 2
      BY <2>2, <2>3
    <3> QED BY <2>1, <2>2, <3>1, <3>2, <3>3 DEF SyncAsSet
  <2> QED BY <1>4, <2>4, <2>5, <2>6, <2>7 DEF MailInv
<1>8. CASE /\ plugin # "disposed" /\ account.enabled /\ session # 0 /\ ran = account
           /\ UNCHANGED <<session, sessions, ran, registered>>
           /\ IF registered
              THEN syncing' = "poll" /\ reads' = Reading("sync") /\ UNCHANGED pollTask
              ELSE syncing' = "tools" /\ reads' = Reading("tools") /\ pollTask' = NoPoller
           /\ behind' = FALSE /\ UNCHANGED <<syncs, tools>>
  <2>1. /\ UNCHANGED <<session, sessions, ran, registered>> /\ ran' = account'
        /\ session # 0 /\ account'.enabled /\ behind' = FALSE /\ syncs' = syncs /\ tools' = tools
        /\ registered => syncing' = "poll" /\ pollTask' = pollTask
        /\ ~registered => syncing' = "tools" /\ pollTask' = NoPoller
    BY <1>2, <1>8
  <2>2. /\ reads' \in Seq(ReadRecord) /\ Len(reads') = 1
        /\ reads'[1].by = IF registered THEN "sync" ELSE "tools"
        /\ reads'[1].connected = grant' /\ reads'[1].session = session'
    <3>1. session' \in Nat /\ grant' = grant
      BY <1>1, <1>2, <2>1
    <3>2. CASE registered
      <4>1. R("sync") \in ReadRecord /\ reads' = Append(reads, R("sync"))
        BY <1>5, <1>8, <3>1, <3>2 DEF Reading
      <4>2. reads' \in Seq(ReadRecord) /\ Len(reads') = 1 /\ reads'[1] = R("sync")
        BY <1>1, <4>1, ReadsMade
      <4> QED BY <3>1, <3>2, <4>2
    <3>3. CASE ~registered
      <4>1. R("tools") \in ReadRecord /\ reads' = Append(reads, R("tools"))
        BY <1>5, <1>8, <3>1, <3>3 DEF Reading
      <4>2. reads' \in Seq(ReadRecord) /\ Len(reads') = 1 /\ reads'[1] = R("tools")
        BY <1>1, <4>1, ReadsMade
      <4> QED BY <3>1, <3>3, <4>2
    <3> QED BY <3>2, <3>3
  <2>3. MailTypes'
    <3>1. /\ session' \in 0 .. sessions' /\ sessions' \in Nat /\ ran' \in Accounts
          /\ syncing' \in {"no", "poll", "tools"} /\ pollTask' \in Poller \cup {NoPoller}
          /\ registered' \in BOOLEAN
      BY <1>1, <2>1
    <3> QED BY <1>1, <1>2, <1>3, <2>1, <2>2, <3>1, SyncTypes
  <2>4. TaskIsAlive'
    BY <1>2, <1>3, <2>1 DEF TaskIsAlive
  <2>5. ReadsOfSync'
    BY <1>1, <2>1, <2>2 DEF ReadsOfSync
  <2>6. SyncAsSet'
    <3>1. plugin' = "active" => registered
      BY <1>2, <1>3, <2>1 DEF SyncAsSet
    <3>2. registered' \in BOOLEAN /\ account' \in Accounts
      BY <1>1, <1>2, <2>1
    <3>3. plugin' = "active" => registered' /\ registered' = account'.enabled /\ syncing' = "poll"
      BY <2>1, <3>1, <3>2 DEF Accounts
    <3> QED BY <2>1, <2>2, <3>3 DEF SyncAsSet
  <2> QED BY <1>4, <2>3, <2>4, <2>5, <2>6 DEF MailInv
<1>9. CASE /\ plugin # "disposed" /\ account.enabled /\ ~(session # 0 /\ ran = account)
           /\ sessions' = sessions + 1 /\ session' = sessions' /\ ran' = account
           /\ pollTask' = NoPoller /\ registered' = (plugin = "active")
           /\ IF registered'
              THEN syncing' = "tools" /\ reads' = Reading("start") \o <<R("tools")>>
                   /\ UNCHANGED syncs
              ELSE syncs' = syncs - 1 /\ UNCHANGED <<syncing, reads>>
           /\ behind' = FALSE /\ UNCHANGED tools
  <2>1. /\ session' \in Nat /\ session' # 0 /\ sessions' \in Nat /\ session' \in 0 .. sessions'
        /\ ran' \in Accounts
    BY <1>1, <1>9
  <2>2. /\ ran' = account' /\ account'.enabled /\ account'.enabled = TRUE
        /\ pollTask' = NoPoller /\ behind' = FALSE /\ tools' = tools
        /\ registered' \in BOOLEAN /\ registered' = (plugin' = "active")
    BY <1>1, <1>2, <1>9 DEF Accounts
  <2>3. CASE plugin = "active"
    <3>1. R("start") \in ReadRecord /\ R("tools") \in ReadRecord
      BY <1>5, <2>1
    <3>2. syncing' = "tools" /\ syncs' = syncs /\ reads' = Append(reads, R("start")) \o <<R("tools")>>
      BY <1>9, <2>3 DEF Reading
    <3>3. /\ reads' \in Seq(ReadRecord) /\ Len(reads') = 2 /\ reads'[1] = R("start")
          /\ reads'[2] = R("tools")
      BY <1>1, <3>1, <3>2, ReadsMade
    <3>4. /\ reads'[1].by = "start" /\ reads'[2].by = "tools" /\ reads'[1].session = session'
          /\ reads'[1].connected = grant' /\ reads'[2].connected = grant'
      BY <1>2, <3>3
    <3>5. MailTypes'
      BY <1>1, <1>2, <1>3, <2>1, <2>2, <3>2, <3>3, SyncTypes
    <3>6. TaskIsAlive'
      BY <2>2 DEF TaskIsAlive
    <3>7. ReadsOfSync'
      BY <1>1, <2>1, <3>2, <3>3, <3>4 DEF ReadsOfSync
    <3>8. \A i \in 1 .. Len(reads') : reads'[i].connected = grant'
      BY <3>3, <3>4
    <3>9. plugin' = "active"
      BY <1>2, <2>3
    <3>10. SyncAsSet'
      BY <2>2, <3>2, <3>3, <3>8, <3>9 DEF SyncAsSet
    <3> QED BY <1>4, <3>5, <3>6, <3>7, <3>10 DEF MailInv
  <2>4. CASE plugin # "active"
    <3>1. syncs' = syncs - 1 /\ syncing' = "no" /\ reads' = <<>>
      BY <1>1, <1>9, <2>4
    <3>2. syncs' \in Nat /\ Len(reads') = 0 /\ reads' \in Seq(ReadRecord)
      BY <1>1, <3>1
    <3>3. MailTypes'
      BY <1>1, <1>2, <1>3, <2>1, <2>2, <3>1, <3>2, SyncTypes
    <3>4. TaskIsAlive'
      BY <2>2 DEF TaskIsAlive
    <3>5. ReadsOfSync'
      BY <3>1, <3>2 DEF ReadsOfSync
    <3>6. SyncAsSet'
      BY <1>2, <2>4 DEF SyncAsSet
    <3> QED BY <1>4, <3>3, <3>4, <3>5, <3>6 DEF MailInv
  <2> QED BY <2>3, <2>4
<1> QED BY <1>6, <1>7, <1>8, <1>9 DEF SyncBegins

(* What waits for the vault while a sync runs. *)
LEMMA WaitingReads ==
  ASSUME MailInv, Reads
  PROVE  /\ syncing # "no" /\ syncs \in Nat /\ syncs > 0 /\ Snapshot = reads[1]
         /\ Snapshot \in ReadRecord /\ Tail(reads) \in Seq(ReadRecord)
         /\ \/ /\ syncing = "poll" /\ Len(reads) = 1 /\ Snapshot.by = "sync"
               /\ Snapshot.session = session /\ session # 0 /\ Tail(reads) = <<>>
            \/ /\ syncing = "tools" /\ Len(reads) = 1 /\ Snapshot.by = "tools" /\ Tail(reads) = <<>>
            \/ /\ syncing = "tools" /\ Len(reads) = 2 /\ Snapshot.by = "start"
               /\ Snapshot.session = session /\ session # 0
               /\ Len(Tail(reads)) = 1 /\ Tail(reads)[1] = reads[2] /\ reads[2].by = "tools"
<1>1. /\ ReadsOfSync /\ reads \in Seq(ReadRecord) /\ reads # <<>> /\ syncs \in Nat
      /\ syncing \in {"no", "poll", "tools"}
  BY DEF MailInv, MailTypes, MailTypeOK, Reads
<1>2. /\ syncing # "no" /\ syncs > 0
      /\ syncing = "poll" => Len(reads) = 1 /\ reads[1].by = "sync"
      /\ syncing = "tools" =>
           \/ Len(reads) = 1 /\ reads[1].by = "tools"
           \/ Len(reads) = 2 /\ reads[1].by = "start" /\ reads[2].by = "tools"
      /\ syncing = "poll" \/ Len(reads) = 2 => reads[1].session = session /\ session # 0
  BY <1>1 DEF ReadsOfSync
<1>3. /\ Snapshot = reads[1] /\ Tail(reads) \in Seq(ReadRecord) /\ reads[1] \in ReadRecord
      /\ Len(Tail(reads)) = Len(reads) - 1
      /\ \A i \in 1 .. Len(reads) - 1 : Tail(reads)[i] = reads[i + 1]
  BY <1>1, HeadTailProperties, ElementOfSeq DEF Snapshot
<1>4. Len(reads) = 1 => Tail(reads) = <<>>
  <2>1. \A s \in Seq(ReadRecord) : Len(s) = 0 => s = <<>>
    BY EmptySeq
  <2>2. ASSUME Len(reads) = 1 PROVE Tail(reads) = <<>>
    <3>1. Len(Tail(reads)) = 0
      BY <1>3, <2>2
    <3> QED BY <1>3, <2>1, <3>1
  <2> QED BY <2>2
<1>5. Len(reads) = 2 => Len(Tail(reads)) = 1 /\ Tail(reads)[1] = reads[2]
  <2>1. ASSUME Len(reads) = 2 PROVE Tail(reads)[1] = reads[2] /\ Len(Tail(reads)) = 1
    <3>1. 1 \in 1 .. Len(reads) - 1 /\ 1 + 1 = 2
      BY <2>1
    <3>2. Tail(reads)[1] = reads[1 + 1]
      BY <1>3, <3>1
    <3> QED BY <1>3, <2>1, <3>2
  <2> QED BY <2>1
<1> QED BY <1>1, <1>2, <1>3, <1>4, <1>5

(* The look finds the poll as the grant asks for it, or makes it so. *)
LEMMA LookSets ==
  ASSUME MailInv, Reads, LookedAt(Snapshot.session), Snapshot.by \in {"start", "sync"},
         UNCHANGED <<account, grant, registered>>
  PROVE  /\ pollTask' \in Poller \cup {NoPoller}
         /\ pollTask' # NoPoller => registered /\ pollers'[pollTask'].pc # "none"
         /\ (plugin = "active" /\ ~Due) => PollAsSet'
<1>1. /\ Snapshot.session = session /\ session # 0 /\ Snapshot = reads[1] /\ Len(reads) > 0
      /\ syncing # "no"
  BY WaitingReads
<1>2. /\ pollTask \in Poller \cup {NoPoller} /\ TaskIsAlive /\ Polls /\ SyncAsSet
      /\ registered \in BOOLEAN /\ grant \in BOOLEAN /\ NoPoller \notin Poller
  BY MailAssumption DEF MailInv, MailTypes, MailTypeOK
<1>3. \A p \in Poller : \/ pollers'[p] = pollers[p]
                        \/ /\ PollRecord(pollers'[p]) /\ pollers'[p].pc = "sleeping"
                           /\ pollTask' = p
  BY <1>2, LookTo
<1>4. \/ ~Snapshot.connected /\ pollTask' = NoPoller
      \/ /\ Snapshot.connected /\ registered /\ pollTask' \in Poller /\ pollTask = NoPoller
         /\ \E p \in Poller :
              /\ pollTask' = p
              /\ pollers' = [pollers EXCEPT ![p] = [NoPoll EXCEPT !.pc = "sleeping", !.session = session]]
      \/ /\ Snapshot.connected /\ (pollTask # NoPoller \/ ~registered) /\ pollTask' = pollTask
         /\ pollers' = pollers
  BY <1>1 DEF LookedAt
<1>5. pollTask' \in Poller \cup {NoPoller}
  BY <1>2, <1>4
<1>6. pollTask' # NoPoller => registered /\ pollers'[pollTask'].pc # "none"
  <2>1. CASE pollTask = NoPoller /\ registered
    <3>1. ASSUME NEW p \in Poller, pollTask' = p,
                 pollers' = [pollers EXCEPT ![p] = [NoPoll EXCEPT !.pc = "sleeping", !.session = session]]
          PROVE  pollers'[pollTask'].pc # "none"
      <4>1. pollers'[p] = [NoPoll EXCEPT !.pc = "sleeping", !.session = session]
        BY <1>2, <3>1 DEF Polls
      <4>2. pollers'[p].pc = "sleeping"
        BY <4>1 DEF NoPoll
      <4> QED BY <3>1, <4>2
    <3> QED BY <1>4, <2>1, <3>1
  <2>2. CASE ~(pollTask = NoPoller /\ registered)
    BY <1>2, <1>4, <2>2 DEF TaskIsAlive
  <2> QED BY <2>1, <2>2
<1>7. ASSUME plugin = "active", ~Due PROVE PollAsSet'
  <2>1. registered /\ account.enabled = TRUE /\ Snapshot.connected = grant
    <3>1. ~Queued
      BY <1>7 DEF Due
    <3>2. registered /\ registered = account.enabled
      BY <1>1, <1>2, <1>7, <3>1 DEF SyncAsSet
    <3>3. \A i \in 1 .. Len(reads) : reads[i].connected = grant
      BY <1>1, <1>2, <1>7 DEF SyncAsSet
    <3>4. 1 \in 1 .. Len(reads)
      BY <1>1, LenProperties DEF MailInv, MailTypes
    <3> QED BY <1>1, <1>2, <3>2, <3>3, <3>4
  <2>2. (pollTask' # NoPoller) = grant
    BY <1>2, <1>4, <2>1
  <2> QED BY <1>2, <2>1, <2>2 DEF PollAsSet
<1> QED BY <1>5, <1>6, <1>7

LEMMA PollAnsweredInv == ASSUME MailInv, PollAnswered PROVE MailInv'
<1>1. /\ Reads /\ Snapshot.by \in {"start", "sync"} /\ LookedAt(Snapshot.session)
      /\ UNCHANGED <<account, grant, operation, plugin, behind, syncs, tools, session, sessions, ran,
                     registered>>
  BY DEF PollAnswered, connection
<1>2. /\ MailTypes /\ MailTypeOK /\ Polls /\ ReadsOfSync /\ SyncAsSet
      /\ sessions \in Nat /\ session \in 0 .. sessions /\ session \in Nat
      /\ grant \in BOOLEAN /\ ran \in Accounts
      /\ \A p \in Poller : pollers[p].pc \in Places
  BY DEF MailInv, MailTypes, MailTypeOK, Accounts, Places
<1>3. /\ pollTask' \in Poller \cup {NoPoller}
      /\ pollTask' # NoPoller => registered /\ pollers'[pollTask'].pc # "none"
      /\ (plugin = "active" /\ ~Due) => PollAsSet'
  BY <1>1, LookSets
<1>4. /\ DOMAIN pollers' = Poller
      /\ \A p \in Poller : PollRecord(pollers'[p]) /\ pollers'[p].pc \in Places
  BY <1>1, <1>2, LookTo DEF Polls, Places
<1>5. Polls' /\ TaskIsAlive'
  BY <1>1, <1>3, <1>4 DEF Polls, TaskIsAlive
<1> DEFINE r == [by |-> "tools", session |-> session, connected |-> grant]
<1>6. /\ reads' \in Seq(ReadRecord) /\ Len(reads') = 1 /\ reads'[1].by = "tools"
      /\ syncing # "no" /\ syncing' = "tools" /\ syncs \in Nat /\ syncs > 0
      /\ (plugin = "active" /\ ~Due) => reads'[1].connected = grant
  <2>1. CASE Snapshot.by = "sync"
    <3>1. /\ Tail(reads) = <<>> /\ syncing # "no" /\ syncs \in Nat /\ syncs > 0
      BY <1>1, <2>1, WaitingReads
    <3>2. r \in ReadRecord /\ r.by = "tools" /\ r.connected = grant
      BY <1>2 DEF ReadRecord
    <3>3. syncing' = "tools" /\ reads' = Append(<<>>, r)
      BY <1>1, <2>1, <3>1 DEF PollAnswered
    <3>4. <<>> \in Seq(ReadRecord) /\ Len(<<>>) = 0
      BY EmptySeq
    <3>5. reads' \in Seq(ReadRecord) /\ Len(reads') = 1 /\ reads'[1] = r
      BY <3>2, <3>3, <3>4, AppendProperties
    <3> HIDE DEF r
    <3> QED BY <3>1, <3>2, <3>3, <3>5
  <2>2. CASE Snapshot.by = "start"
    <3>1. /\ syncing = "tools" /\ syncs \in Nat /\ syncs > 0 /\ Len(reads) = 2
          /\ Tail(reads) \in Seq(ReadRecord)
          /\ Len(Tail(reads)) = 1 /\ Tail(reads)[1] = reads[2] /\ reads[2].by = "tools"
      BY <1>1, <2>2, WaitingReads
    <3>2. syncing' = syncing /\ reads' = Tail(reads)
      BY <1>1, <2>2 DEF PollAnswered
    <3>3. (plugin = "active" /\ ~Due) => reads[2].connected = grant
      BY <1>2, <3>1 DEF SyncAsSet
    <3> QED BY <3>1, <3>2, <3>3
  <2> QED BY <1>1, <2>1, <2>2
<1>7. MailTypes'
  <2>1. MailTypeOK'
    BY <1>1, <1>2, <1>3, <1>4, <1>6 DEF MailTypeOK, Places
  <2> QED BY <1>1, <1>2, <1>6, <2>1 DEF MailTypes
<1>8. ReadsOfSync'
  BY <1>1, <1>6 DEF ReadsOfSync
<1>9. Queued' = Queued /\ Due' = Due
  BY <1>1, <1>6 DEF Queued, Due
<1>10. SyncAsSet'
  <2>1. CASE plugin # "active"
    BY <1>1, <2>1 DEF SyncAsSet
  <2>2. CASE plugin = "active"
    <3>1. /\ session' # 0 => registered'
          /\ ~Queued' => registered' = account'.enabled /\ (registered' => ran' = account')
      BY <1>1, <1>2, <1>9, <2>2 DEF SyncAsSet
    <3>2. ~Due' => /\ PollAsSet' /\ \A i \in 1 .. Len(reads') : reads'[i].connected = grant'
      BY <1>1, <1>3, <1>6, <1>9, <2>2
    <3> QED BY <1>6, <3>1, <3>2 DEF SyncAsSet
  <2> QED BY <2>1, <2>2
<1> QED BY <1>5, <1>7, <1>8, <1>10 DEF MailInv

(* The sync ends, and the next may begin. *)
LEMMA ToolsAnsweredInv == ASSUME MailInv, ToolsAnswered PROVE MailInv'
<1>1. /\ Reads /\ Snapshot.by = "tools"
      /\ UNCHANGED <<account, grant, operation, plugin, behind, session, sessions, ran, registered,
                     pollTask, pollers>>
      /\ tools' = (Snapshot.connected /\ (tools \/ plugin = "active"))
      /\ reads' = Tail(reads) /\ syncing' = "no" /\ syncs' = syncs - 1
  BY DEF ToolsAnswered, connection, accountSession
<1>2. /\ MailTypes /\ Polls /\ TaskIsAlive /\ ReadsOfSync /\ SyncAsSet
      /\ sessions \in Nat /\ session \in 0 .. sessions /\ ran \in Accounts /\ registered \in BOOLEAN
      /\ pollTask \in Poller \cup {NoPoller} /\ behind \in BOOLEAN /\ grant \in BOOLEAN
  BY DEF MailInv, MailTypes, MailTypeOK, Accounts
<1>3. /\ syncing = "tools" /\ syncs \in Nat /\ syncs > 0 /\ Snapshot = reads[1]
      /\ Len(reads) = 1 /\ reads' = <<>> /\ Snapshot.connected \in BOOLEAN
  BY <1>1, WaitingReads DEF ReadRecord
<1>4. syncs' \in Nat /\ tools' \in BOOLEAN /\ reads' \in Seq(ReadRecord) /\ Len(reads') = 0
  <2>1. syncs' \in Nat /\ tools' \in BOOLEAN
    BY <1>1, <1>3
  <2> QED BY <1>3, <2>1, EmptySeq
<1>5. MailTypes'
  BY <1>1, <1>2, <1>4, SyncTypes
<1>6. Polls' /\ TaskIsAlive' /\ ReadsOfSync'
  <2>1. Polls' /\ TaskIsAlive'
    BY <1>1, <1>2 DEF Polls, TaskIsAlive
  <2>2. syncing' = "no" /\ reads' = <<>> /\ Len(reads') = 0
    BY <1>1, <1>3, <1>4
  <2>3. ReadsOfSync'
    BY <2>2 DEF ReadsOfSync
  <2> QED BY <2>1, <2>3
<1>7. Queued' = Queued /\ Due' = Due
  BY <1>1, <1>3 DEF Queued, Due
<1>8. ASSUME plugin = "active" PROVE SyncAsSet'
  <2>1. /\ session' # 0 => registered'
        /\ ~Queued' => registered' = account'.enabled /\ (registered' => ran' = account')
    BY <1>1, <1>2, <1>7, <1>8 DEF SyncAsSet
  <2>2. ASSUME ~Due' PROVE tools' = grant' /\ PollAsSet'
    <3>1. PollAsSet /\ reads[1].connected = grant
      BY <1>2, <1>3, <1>7, <1>8, <2>2 DEF SyncAsSet
    <3>2. PollAsSet'
      BY <1>1, <3>1 DEF PollAsSet
    <3> QED BY <1>1, <1>2, <1>3, <1>8, <3>1, <3>2
  <2> QED BY <1>1, <2>1, <2>2 DEF SyncAsSet
<1>9. ASSUME plugin # "active" PROVE SyncAsSet'
  BY <1>1, <1>9 DEF SyncAsSet
<1> QED BY <1>5, <1>6, <1>8, <1>9 DEF MailInv

(* What failed is behind. *)
LEMMA AnswerFailsInv == ASSUME MailInv, AnswerFails PROVE MailInv'
<1>1. /\ Reads /\ reads' = Tail(reads) /\ behind' = TRUE
      /\ UNCHANGED <<account, grant, operation, plugin, tools, session, sessions, ran, registered,
                     pollTask, pollers>>
  BY DEF AnswerFails, accountSession
<1>2. /\ MailTypes /\ Polls /\ TaskIsAlive /\ ReadsOfSync /\ SyncAsSet
      /\ sessions \in Nat /\ session \in 0 .. sessions /\ ran \in Accounts /\ registered \in BOOLEAN
      /\ pollTask \in Poller \cup {NoPoller} /\ tools \in BOOLEAN
  BY DEF MailInv, MailTypes, MailTypeOK, Accounts
<1>3. /\ syncs \in Nat /\ syncs > 0 /\ syncing # "no" /\ Tail(reads) \in Seq(ReadRecord)
  BY <1>1, WaitingReads
<1>4. /\ syncs' \in Nat /\ syncing' \in {"no", "poll", "tools"} /\ Queued' = Queued /\ ReadsOfSync'
  <2>1. CASE Snapshot.by = "start"
    <3>1. /\ syncs' = syncs /\ syncing' = syncing /\ syncing = "tools"
          /\ Len(reads') = 1 /\ reads'[1].by = "tools"
      BY <1>1, <2>1, WaitingReads DEF AnswerFails
    <3> QED BY <1>3, <3>1 DEF ReadsOfSync, Queued
  <2>2. CASE Snapshot.by # "start"
    <3>1. syncing' = "no" /\ syncs' = syncs - 1 /\ reads' = <<>>
      BY <1>1, <2>2, WaitingReads DEF AnswerFails
    <3>2. Len(reads') = 0
      BY <3>1, EmptySeq
    <3> QED BY <1>3, <3>1, <3>2 DEF ReadsOfSync, Queued
  <2> QED BY <2>1, <2>2
<1>5. MailTypes'
  BY <1>1, <1>2, <1>3, <1>4, SyncTypes
<1>6. Polls' /\ TaskIsAlive'
  BY <1>1, <1>2 DEF Polls, TaskIsAlive
<1>7. SyncAsSet'
  <2>1. Due'
    BY <1>1 DEF Due
  <2> QED BY <1>1, <1>2, <1>4, <2>1 DEF SyncAsSet
<1> QED BY <1>4, <1>5, <1>6, <1>7 DEF MailInv

(* The ends of the context and of the process. *)
LEMMA PluginInv ==
  ASSUME MailInv, MailArrives \/ PluginAborted \/ PluginDisposes \/ PluginStarts PROVE MailInv'
<1>1. /\ MailTypes /\ MailTypeOK /\ Polls /\ TaskIsAlive /\ ReadsOfSync /\ SyncAsSet /\ syncs \in Nat
      /\ sessions \in Nat
  BY DEF MailInv, MailTypes, MailTypeOK
<1>2. CASE MailArrives
  <2>1. UNCHANGED <<account, grant, operation, plugin, behind, syncs, syncing, reads, tools,
                    session, sessions, ran, registered, pollTask, pollers>>
    BY <1>2 DEF MailArrives, connection, syncState, accountSession
  <2>2. MailTypes' /\ Polls' /\ TaskIsAlive' /\ ReadsOfSync'
    BY <1>1, <2>1 DEF MailTypes, MailTypeOK, Polls, TaskIsAlive, ReadsOfSync
  <2>3. SyncAsSet'
    BY <1>1, <2>1 DEF SyncAsSet, Due, Queued, PollAsSet
  <2> QED BY <2>2, <2>3 DEF MailInv
<1>3. CASE PluginAborted
  <2>1. /\ plugin' = "aborted" /\ operation' = "none"
        /\ registered' = FALSE /\ pollTask' = NoPoller
        /\ UNCHANGED <<account, grant, behind, syncs, syncing, reads, tools, session, sessions, ran,
                       pollers>>
    BY <1>3 DEF PluginAborted, syncState
  <2>2. MailTypes' /\ Polls' /\ TaskIsAlive' /\ ReadsOfSync'
    <3>1. MailTypes'
      BY <1>1, <2>1 DEF MailTypes, MailTypeOK
    <3>2. Polls' /\ TaskIsAlive' /\ ReadsOfSync'
      BY <1>1, <2>1 DEF Polls, TaskIsAlive, ReadsOfSync
    <3> QED BY <3>1, <3>2
  <2>3. SyncAsSet'
    BY <2>1 DEF SyncAsSet
  <2> QED BY <2>2, <2>3 DEF MailInv
<1>4. CASE PluginDisposes
  <2>1. /\ plugin' = "disposed" /\ syncs' = syncs + 1
        /\ UNCHANGED <<account, grant, operation, behind, syncing, reads, tools, session, sessions,
                       ran, registered, pollTask, pollers>>
    BY <1>4 DEF PluginDisposes, accountSession
  <2>2. MailTypes' /\ Polls' /\ TaskIsAlive' /\ ReadsOfSync'
    <3>1. MailTypes' /\ Polls' /\ TaskIsAlive'
      BY <1>1, <2>1 DEF MailTypes, MailTypeOK, Polls, TaskIsAlive
    <3>2. syncs' > 0
      BY <1>1, <2>1
    <3>3. ReadsOfSync'
      BY <1>1, <2>1, <3>2 DEF ReadsOfSync
    <3> QED BY <3>1, <3>3
  <2>3. SyncAsSet'
    BY <2>1 DEF SyncAsSet
  <2> QED BY <2>2, <2>3 DEF MailInv
<1>5. CASE PluginStarts
  <2>1. /\ plugin' = "active" /\ operation' = "none" /\ behind' = FALSE
        /\ syncs' = 1 /\ syncing' = "no" /\ reads' = <<>> /\ tools' = FALSE
        /\ session' = 0 /\ registered' = FALSE /\ pollTask' = NoPoller
        /\ UNCHANGED <<account, grant, sessions, ran>>
        /\ pollers' = [p \in Poller |-> NoPoll] \/ pollers' = pollers
    BY <1>5 DEF PluginStarts, NoSessionLeft
  <2>2. /\ reads' \in Seq(ReadRecord) /\ Len(reads') = 0 /\ session' \in 0 .. sessions'
        /\ \A p \in Poller : pollers'[p].pc \in Places
    <3>1. reads' \in Seq(ReadRecord) /\ Len(reads') = 0
      BY <2>1, EmptySeq
    <3>2. session' \in 0 .. sessions'
      BY <1>1, <2>1
    <3>3. \A p \in Poller : pollers'[p].pc \in Places
      BY <1>1, <2>1 DEF MailTypeOK, NoPoll, Places
    <3> QED BY <3>1, <3>2, <3>3
  <2>3. MailTypes'
    <3>1. MailTypeOK'
      BY <1>1, <2>1, <2>2 DEF MailTypes, MailTypeOK, Places
    <3> QED BY <1>1, <2>1, <2>2, <3>1 DEF MailTypes
  <2>4. Polls'
    BY <1>1, <2>1 DEF Polls, PollRecord, NoPoll
  <2>5. TaskIsAlive' /\ ReadsOfSync'
    BY <2>1, <2>2 DEF TaskIsAlive, ReadsOfSync
  <2>6. SyncAsSet'
    <3>1. Queued' /\ Due'
      BY <2>1 DEF Queued, Due
    <3> QED BY <2>1, <3>1 DEF SyncAsSet
  <2> QED BY <2>3, <2>4, <2>5, <2>6 DEF MailInv
<1> QED BY <1>2, <1>3, <1>4, <1>5

LEMMA MailNextInv == MailInv /\ [MailNext]_mailVars => MailInv'
<1> SUFFICES ASSUME MailInv, [MailNext]_mailVars PROVE MailInv'
  OBVIOUS
<1>1. CASE UNCHANGED mailVars
  <2>1. UNCHANGED <<account, grant, operation, plugin, behind, syncs, syncing, reads, tools,
                    session, sessions, ran, registered, pollTask, pollers>>
    BY <1>1 DEF mailVars
  <2>2. MailTypes' /\ Polls' /\ TaskIsAlive' /\ ReadsOfSync'
    BY <2>1 DEF MailInv, MailTypes, MailTypeOK, Polls, TaskIsAlive, ReadsOfSync
  <2>3. SyncAsSet'
    BY <2>1 DEF MailInv, SyncAsSet, Due, Queued, PollAsSet
  <2> QED BY <2>2, <2>3 DEF MailInv
<1>2. CASE SaveSettings \/ AskOAuth("connect") \/ AskOAuth("disconnect") \/ OperationStep
  BY <1>2, OperationInv
<1>3. CASE SyncStep
  BY <1>3, SyncBeginsInv, PollAnsweredInv, ToolsAnsweredInv, AnswerFailsInv DEF SyncStep
<1>4. CASE \E p \in Poller : LoopStep(p)
  BY <1>4, LoopMailInv
<1>5. CASE MailArrives \/ PluginAborted \/ PluginDisposes \/ PluginStarts
  BY <1>5, PluginInv
<1> QED BY <1>1, <1>2, <1>3, <1>4, <1>5 DEF MailNext

(* Types of every state: an account has one task, one session and one running    *)
(* sync at a time (GoogleChannelController).                                     *)
THEOREM MailTypeCorrect == MailSpec => []MailTypeOK
<1>1. MailInv => MailTypeOK
  BY DEF MailInv, MailTypes
<1> QED BY <1>1, MailInitInv, MailNextInv, PTL DEF MailSpec

(* However saves, connects, disconnects, syncs and looks interleave: when all    *)
(* are through, the account runs as it is set (#sync, #syncPoll, #syncTools).    *)
THEOREM MailboxRunsAsSet == MailSpec => []RunsAsSet
<1>1. MailInv => RunsAsSet
  <2> SUFFICES ASSUME MailInv, Through
               PROVE  /\ Polling = (account.enabled /\ grant)
                      /\ registered = account.enabled /\ (registered => ran = account)
                      /\ tools = grant
    BY DEF RunsAsSet
  <2>1. /\ plugin = "active" /\ operation = "none" /\ syncs = 0 /\ ~behind
        /\ ReadsOfSync /\ SyncAsSet /\ TaskIsAlive
    BY DEF MailInv, Through
  <2>2. syncing = "no"
    BY <2>1 DEF ReadsOfSync
  <2>3. ~Queued /\ ~Due
    BY <2>1, <2>2 DEF Queued, Due
  <2>4. /\ registered = account.enabled /\ (registered => ran = account)
        /\ tools = grant /\ PollAsSet
    BY <2>1, <2>2, <2>3 DEF SyncAsSet
  <2>5. Polling = (pollTask # NoPoller)
    BY <2>1 DEF TaskIsAlive, Polling
  <2> QED BY <2>4, <2>5 DEF PollAsSet
<1> QED BY <1>1, MailInitInv, MailNextInv, PTL DEF MailSpec

--------------------------------------------------------------------------------
(* PluginLifecycle: for any plugins, commands, calls and children, and however  *)
(* starts, stops and changes of the settings overlap.                           *)

OwnerSteps == {"free", "activating", "processes", "disposing", "failed", "committed"}

Kinds == {"services", "schedules"}

OwnerRecord == [plugin : Plugin \cup {"none"}, aborted : BOOLEAN, step : OwnerSteps,
                owns : SUBSET Kinds]

TaskSteps == {"idle", "writing", "written", "activation", "next", "shutdown", "done"}
             \cup Unwinding

TaskRecord == [step : TaskSteps, plugin : Plugin \cup {"none"}, enable : BOOLEAN,
               owner : Owner \cup {NoOwner}, next : SUBSET Plugin,
               waits : SUBSET (Invocation \cup Child), late : BOOLEAN]

InvocationRecord == [caller : {"none", "waiting", "answered", "expired"},
                     from : Owner \cup {NoOwner}, owner : Owner \cup {NoOwner},
                     running : BOOLEAN, active : BOOLEAN]

ChildRecord == [step : {"none", "spawning", "reaping", "owned", "released"} \cup Ending,
                alive : BOOLEAN, sent : {"none", "SIGTERM", "SIGKILL"},
                forced : BOOLEAN, parents : SUBSET Parent, told : BOOLEAN]

BootRecord == [step : {"idle", "bootstrap", "read", "ordinary", "done"},
               next : 1 .. Len(Order) + 1, awaits : Owner \cup {NoOwner}]

RecordStates == {"none", "activating", "active", "deactivating", "disabled", "failed"}

KernelStates == {"idle", "starting", "started", "failed", "stopping", "stopped"}

(* The parts of the type: what the starter, the manager and its callers keep.   *)
CoreTypes == kernel \in KernelStates /\ boot \in BootRecord /\ stopList \in Seq(Plugin)

RegistryTypes == /\ records \in [Plugin -> RecordStates]
                 /\ current \in [Plugin -> Owner \cup {NoOwner}]
                 /\ order \in Seq(Plugin)

ChoiceTypes == disabled \in SUBSET Plugin /\ stored \in SUBSET Plugin

OwnerTypes == owners \in [Owner -> OwnerRecord]

TaskTypes == tasks \in [Caller -> TaskRecord]

LEMMA TypeParts ==
  TypeOK <=> /\ CoreTypes /\ RegistryTypes /\ ChoiceTypes /\ OwnerTypes /\ TaskTypes
             /\ BusTypeOK /\ ProcessTypeOK /\ overlap \in BOOLEAN
  BY DEF TypeOK, CoreTypes, RegistryTypes, ChoiceTypes, OwnerTypes, TaskTypes, OwnerRecord,
         OwnerSteps, Kinds, TaskRecord, TaskSteps, BootRecord, RecordStates, KernelStates

LEMMA BusParts ==
  BusTypeOK <=> /\ handlers \in [Command -> Owner \cup {NoOwner}]
                /\ invocations \in [Invocation -> InvocationRecord]
  BY DEF BusTypeOK, InvocationRecord

LEMMA ProcessParts ==
  ProcessTypeOK <=> children \in [Child -> ChildRecord] /\ supervising \in BOOLEAN
  BY DEF ProcessTypeOK, ChildRecord

(* The plugins that the kernel starts. *)
LEMMA OrderIsOfPlugins ==
  /\ Len(Order) \in Nat /\ Len(Order) = Len(Bootstrap) + Len(Ordinary)
  /\ Len(Bootstrap) \in Nat \ {0} /\ Len(Ordinary) \in Nat
  /\ \A n \in 1 .. Len(Bootstrap) : Bootstrap[n] \in Plugin /\ Order[n] = Bootstrap[n]
  /\ \A n \in 1 .. Len(Ordinary) :
       Ordinary[n] \in Plugin /\ Order[Len(Bootstrap) + n] = Ordinary[n]
  BY LifecycleAssumption DEF Order

(*************************** Children and invocations **************************)

LEMMA ClosedChild ==
  ASSUME NEW child \in ChildRecord
  PROVE  /\ Closed(child) \in ChildRecord
         /\ Closed(child).parents = child.parents /\ Closed(child).told = child.told
         /\ Closed(child).sent = child.sent
         /\ Closed(child).step = IF child.step = "owned" THEN "stdin" ELSE child.step
  BY DEF Closed, ChildRecord, Ending

LEMMA ToldChild ==
  ASSUME NEW child \in ChildRecord
  PROVE  /\ Told(child) \in ChildRecord /\ Told(child).parents = child.parents
         /\ child.step = "spawning" => /\ Told(child).step = "spawning"
                                       /\ Told(child).told /\ Told(child).sent = "SIGKILL"
         /\ child.step = "owned" => Told(child).step = "stdin"
         /\ child.step \notin {"spawning", "owned"} => Told(child).step = child.step
  BY ClosedChild DEF Told, ChildRecord

LEMMA ExpiredCall ==
  ASSUME NEW call \in InvocationRecord
  PROVE  /\ Expired(call) \in InvocationRecord
         /\ Expired(call).from = call.from /\ Expired(call).owner = call.owner
         /\ Expired(call).running = call.running
         /\ call.caller = "waiting" => Expired(call).caller = "expired" /\ ~Expired(call).active
         /\ call.caller # "waiting" => Expired(call) = call
  BY DEF Expired, InvocationRecord

LEMMA AbortedCall ==
  ASSUME NEW call \in InvocationRecord, NEW a \in Owner
  PROVE  /\ AfterAbort(call, a) \in InvocationRecord
         /\ AfterAbort(call, a).from = call.from /\ AfterAbort(call, a).owner = call.owner
         /\ AfterAbort(call, a).running = call.running
         /\ AfterAbort(call, a).caller =
              IF call.from = a /\ call.caller = "waiting" THEN "expired" ELSE call.caller
         /\ AfterAbort(call, a).active =>
              /\ call.active /\ call.owner # a
              /\ call.from = a => call.caller # "waiting"
<1> DEFINE cancelled == IF call.from = a THEN Expired(call) ELSE call
<1>1. /\ cancelled \in InvocationRecord
      /\ cancelled.from = call.from /\ cancelled.owner = call.owner
      /\ cancelled.running = call.running
      /\ cancelled.caller =
           IF call.from = a /\ call.caller = "waiting" THEN "expired" ELSE call.caller
      /\ cancelled.active => call.active /\ (call.from = a => call.caller # "waiting")
  BY ExpiredCall
<1>2. AfterAbort(call, a) = IF call.owner = a THEN [cancelled EXCEPT !.active = FALSE]
                                              ELSE cancelled
  BY DEF AfterAbort
<1> HIDE DEF cancelled
<1> QED BY <1>1, <1>2 DEF InvocationRecord

(* What the end of an activation does to activations, calls and children.       *)
Has(b, p, aborted, step, owns) ==
  owners'[b] = [plugin |-> p, aborted |-> aborted, step |-> step, owns |-> owns]

LEMMA RecordOfOwner ==
  ASSUME NEW p \in Plugin \cup {"none"}, NEW aborted \in BOOLEAN,
         NEW step \in OwnerSteps, NEW owns \in SUBSET Kinds
  PROVE  [plugin |-> p, aborted |-> aborted, step |-> step, owns |-> owns] \in OwnerRecord
  BY DEF OwnerRecord

LEMMA AbortedOwner ==
  ASSUME OwnerTypes, NEW a \in Owner, NEW step \in OwnerSteps, NEW had \in SUBSET Kinds,
         NEW kinds \in SUBSET Kinds, AbortOwner(a, step, had, kinds)
  PROVE  /\ OwnerTypes'
         /\ \A b \in Owner : owners[b].plugin # owners[a].plugin => owners'[b] = owners[b]
         /\ \A b \in Owner : owners[b].plugin = owners[a].plugin /\ b # a =>
              Has(b, owners[b].plugin, owners[b].aborted, owners[b].step, owners[b].owns \ kinds)
         /\ Has(a, owners[a].plugin, TRUE, step, had \ kinds)
<1>1. owners' = [b \in Owner |->
        IF owners[b].plugin # owners[a].plugin THEN owners[b]
        ELSE [owners[b] EXCEPT !.aborted = @ \/ b = a,
                               !.owns = (IF b = a THEN had ELSE owners[b].owns) \ kinds,
                               !.step = IF b = a THEN step ELSE @]]
  BY DEF AbortOwner
<1>2. \A b \in Owner : owners[b] \in OwnerRecord
  BY DEF OwnerTypes
<1>3. \A b \in Owner : owners[b].plugin # owners[a].plugin => owners'[b] = owners[b]
  BY <1>1
<1>4. ASSUME NEW b \in Owner, owners[b].plugin = owners[a].plugin, b # a
      PROVE  Has(b, owners[b].plugin, owners[b].aborted, owners[b].step, owners[b].owns \ kinds)
  <2>1. owners'[b] = [owners[b] EXCEPT !.aborted = @ \/ FALSE, !.owns = owners[b].owns \ kinds,
                                       !.step = @]
    BY <1>1, <1>4
  <2> QED BY <1>2, <2>1 DEF Has, OwnerRecord
<1>5. Has(a, owners[a].plugin, TRUE, step, had \ kinds)
  <2>1. owners'[a] = [owners[a] EXCEPT !.aborted = @ \/ TRUE, !.owns = had \ kinds,
                                       !.step = step]
    BY <1>1
  <2> QED BY <1>2, <2>1 DEF Has, OwnerRecord
<1>6. \A b \in Owner : owners'[b] \in OwnerRecord
  <2> SUFFICES ASSUME NEW b \in Owner PROVE owners'[b] \in OwnerRecord
    OBVIOUS
  <2>1. CASE owners[b].plugin # owners[a].plugin
    BY <1>2, <1>3, <2>1
  <2>2. /\ owners[b].plugin \in Plugin \cup {"none"} /\ owners[b].aborted \in BOOLEAN
        /\ owners[b].step \in OwnerSteps /\ owners[b].owns \ kinds \in SUBSET Kinds
        /\ had \ kinds \in SUBSET Kinds
    BY <1>2 DEF OwnerRecord
  <2>3. CASE owners[b].plugin = owners[a].plugin /\ b # a
    <3>1. owners'[b] = [plugin |-> owners[b].plugin, aborted |-> owners[b].aborted,
                        step |-> owners[b].step, owns |-> owners[b].owns \ kinds]
      BY <1>4, <2>3 DEF Has
    <3> QED BY <2>2, <3>1, RecordOfOwner
  <2>4. CASE b = a
    BY <1>5, <2>2, <2>4, RecordOfOwner DEF Has
  <2> QED BY <2>1, <2>3, <2>4
<1>7. DOMAIN owners' = Owner /\ owners' = [b \in Owner |-> owners'[b]]
  BY <1>1
<1> QED BY <1>3, <1>4, <1>5, <1>6, <1>7 DEF OwnerTypes

LEMMA ToldTypes ==
  ASSUME ProcessTypeOK, NEW sources, NEW closed, AbortChildren(sources, closed)
  PROVE  children' \in [Child -> ChildRecord]
<1>1. \A c \in Child : children[c] \in ChildRecord
  BY ProcessParts
<1>2. \A c \in Child : /\ Told(children[c]) \in ChildRecord
                       /\ Closed(children[c]) \in ChildRecord
  BY <1>1, ClosedChild, ToldChild
<1>3. /\ DOMAIN children' = Child /\ children' = [c \in Child |-> children'[c]]
      /\ \A c \in Child : children'[c] \in {Told(children[c]), Closed(children[c]), children[c]}
  BY DEF AbortChildren
<1> QED BY <1>1, <1>2, <1>3

LEMMA AbortedTypes ==
  ASSUME OwnerTypes, BusTypeOK, ProcessTypeOK, NEW a \in Owner, NEW step \in OwnerSteps,
         NEW had \in SUBSET Kinds, NEW kinds \in SUBSET Kinds,
         AbortOwner(a, step, had, kinds)
  PROVE  /\ OwnerTypes' /\ ProcessTypeOK'
         /\ invocations' \in [Invocation -> InvocationRecord]
<1>1. OwnerTypes'
  BY AbortedOwner
<1>2. invocations' \in [Invocation -> InvocationRecord]
  BY BusParts, AbortedCall DEF AbortOwner
<1>3. \A c \in Child : children[c] \in ChildRecord
  BY ProcessParts
<1>4. PICK sources, closed : AbortChildren(sources, closed) /\ supervising' = supervising
  BY DEF AbortOwner
<1>5. children' \in [Child -> ChildRecord]
  BY <1>4, ToldTypes
<1> QED BY <1>1, <1>2, <1>4, <1>5, ProcessParts DEF ProcessTypeOK, ChildRecord

(* What a plugin's activation does to what the manager keeps.                   *)
LEMMA ActivateTypes ==
  ASSUME OwnerTypes, RegistryTypes, NEW p \in Plugin, NEW a \in Owner, Activate(p, a)
  PROVE  /\ OwnerTypes' /\ RegistryTypes'
         /\ owners[a].step = "free"
         /\ Has(a, p, owners[a].aborted, "activating", owners[a].owns)
         /\ \A b \in Owner : b # a => owners'[b] = owners[b]
         /\ records' = [records EXCEPT ![p] = "activating"]
<1>1. owners' = [owners EXCEPT ![a].plugin = p, ![a].step = "activating"]
  BY DEF Activate
<1>2. owners[a] \in OwnerRecord
  BY DEF OwnerTypes
<1>3. \A b \in Owner : b # a => owners'[b] = owners[b]
  BY <1>1 DEF OwnerTypes
<1>4. Has(a, p, owners[a].aborted, "activating", owners[a].owns)
  BY <1>1, <1>2 DEF OwnerTypes, OwnerRecord, Has
<1>5. OwnerTypes'
  BY <1>1, <1>2 DEF OwnerTypes, OwnerRecord, OwnerSteps
<1>6. RegistryTypes'
  BY DEF Activate, RegistryTypes, RecordStates
<1> QED BY <1>3, <1>4, <1>5, <1>6 DEF Activate

(*********************************** Types *************************************)

(* What nothing changes keeps its type. *)
LEMMA Kept ==
  /\ CoreTypes /\ UNCHANGED core => CoreTypes'
  /\ RegistryTypes /\ UNCHANGED registry => RegistryTypes'
  /\ ChoiceTypes /\ UNCHANGED choices => ChoiceTypes'
  /\ OwnerTypes /\ UNCHANGED owners => OwnerTypes'
  /\ TaskTypes /\ UNCHANGED tasks => TaskTypes'
  /\ BusTypeOK /\ UNCHANGED busVars => BusTypeOK'
  /\ ProcessTypeOK /\ UNCHANGED processVars => ProcessTypeOK'
<1>1. CoreTypes /\ UNCHANGED core => CoreTypes'
  BY DEF CoreTypes, core
<1>2. RegistryTypes /\ UNCHANGED registry => RegistryTypes'
  BY DEF RegistryTypes, registry
<1>3. ChoiceTypes /\ UNCHANGED choices => ChoiceTypes'
  BY DEF ChoiceTypes, choices
<1>4. BusTypeOK /\ UNCHANGED busVars => BusTypeOK'
  BY DEF BusTypeOK, busVars
<1>5. ProcessTypeOK /\ UNCHANGED processVars => ProcessTypeOK'
  BY DEF ProcessTypeOK, processVars
<1> QED BY <1>1, <1>2, <1>3, <1>4, <1>5 DEF OwnerTypes, TaskTypes

LEMMA TaskRecords ==
  /\ NoTask \in TaskRecord /\ Done \in TaskRecord
  /\ NoTask.step = "idle" /\ Done.step = "done"
  BY DEF NoTask, Done, TaskRecord, TaskSteps, Unwinding

(* One caller goes on. *)
TaskGoes(k, r) == tasks' = [tasks EXCEPT ![k] = r]

LEMMA TaskGoesTypes ==
  ASSUME TaskTypes, NEW k \in Caller, NEW r \in TaskRecord, TaskGoes(k, r)
  PROVE  TaskTypes' /\ tasks'[k] = r /\ \A j \in Caller : j # k => tasks'[j] = tasks[j]
  BY DEF TaskTypes, TaskGoes

LEMMA TaskGoesTo ==
  ASSUME TaskTypes, NEW k \in Caller, NEW step \in TaskSteps
  PROVE  [tasks[k] EXCEPT !.step = step] \in TaskRecord
  BY DEF TaskTypes, TaskRecord

(* What a plugin or a caller is known by: an activation by its plugin, a        *)
(* current activation as committed, a deactivation by what it deactivates.      *)
ActivationsAreKnown ==
  /\ \A a \in Owner : owners[a].step # "free" => owners[a].plugin \in Plugin
  /\ \A p \in Plugin : current[p] # NoOwner =>
       owners[current[p]].plugin = p /\ owners[current[p]].step = "committed"
  /\ boot.step = "bootstrap" => boot.awaits \in Owner /\ boot.next <= Len(Bootstrap)

TasksAreKnown ==
  \A k \in Caller :
    /\ tasks[k].step \in Unwinding \cup {"writing", "written"} => tasks[k].plugin \in Plugin
    /\ tasks[k].step \in Unwinding \cup {"activation"} => tasks[k].owner \in Owner
    /\ tasks[k].step \in Unwinding =>
         LET a == tasks[k].owner
         IN  /\ owners[a].plugin = tasks[k].plugin
             /\ owners[a].aborted /\ owners[a].step = "committed"
             /\ \A c \in Command : handlers[c] # a

Shape == TypeOK /\ ActivationsAreKnown /\ TasksAreKnown

(* The parts of the type that a deactivation changes. *)
LEMMA BeginTypes ==
  ASSUME TypeOK, ActivationsAreKnown, NEW k \in Caller, NEW p \in Plugin, current[p] # NoOwner,
         BeginDeactivation(k, p)
  PROVE  /\ RegistryTypes' /\ OwnerTypes' /\ TaskTypes' /\ BusTypeOK' /\ ProcessTypeOK'
         /\ current[p] \in Owner
         /\ AbortOwner(current[p], "committed", owners[current[p]].owns, Kinds)
         /\ tasks'[k] = [NoTask EXCEPT !.step = "processes", !.plugin = p, !.owner = current[p]]
         /\ \A j \in Caller : j # k => tasks'[j] = tasks[j]
         /\ handlers' = Without(Of(p))
<1>1. /\ OwnerTypes /\ RegistryTypes /\ TaskTypes /\ BusTypeOK /\ ProcessTypeOK
  BY TypeParts
<1>2. current[p] \in Owner /\ owners[current[p]].step = "committed"
  BY <1>1 DEF RegistryTypes, ActivationsAreKnown
<1>3. owners[current[p]].owns \in SUBSET Kinds /\ "committed" \in OwnerSteps
      /\ Kinds = {"services", "schedules"} /\ Kinds \in SUBSET Kinds
  BY <1>1, <1>2 DEF OwnerTypes, OwnerRecord, OwnerSteps, Kinds
<1>4. AbortOwner(current[p], "committed", owners[current[p]].owns, Kinds)
  BY <1>2, <1>3 DEF BeginDeactivation
<1>5. OwnerTypes' /\ ProcessTypeOK' /\ invocations' \in [Invocation -> InvocationRecord]
  BY <1>1, <1>2, <1>3, <1>4, AbortedTypes
<1>6. handlers' = Without(Of(p)) /\ UNCHANGED <<current, order>>
      /\ records' = [records EXCEPT ![p] = "deactivating"]
  BY DEF BeginDeactivation
<1>7. handlers' \in [Command -> Owner \cup {NoOwner}]
  BY <1>1, <1>6, BusParts DEF Without
<1>8. BusTypeOK'
  BY <1>5, <1>7 DEF BusTypeOK, InvocationRecord
<1>9. RegistryTypes'
  BY <1>1, <1>6 DEF RegistryTypes, RecordStates
<1> DEFINE r == [NoTask EXCEPT !.step = "processes", !.plugin = p, !.owner = current[p]]
<1>10. r \in TaskRecord
  BY <1>2, TaskRecords DEF TaskRecord, TaskSteps, Unwinding
<1>11. TaskGoes(k, r)
  BY DEF BeginDeactivation, TaskGoes
<1>12. TaskTypes' /\ tasks'[k] = r /\ \A j \in Caller : j # k => tasks'[j] = tasks[j]
  BY <1>1, <1>10, <1>11, TaskGoesTypes
<1> QED BY <1>2, <1>4, <1>5, <1>6, <1>8, <1>9, <1>12

LEMMA ReverseType ==
  ASSUME NEW s \in Seq(Plugin) PROVE Reverse(s) \in Seq(Plugin)
  BY DEF Reverse

LEMMA WithoutLastType ==
  ASSUME RegistryTypes, NEW p PROVE WithoutLast(p) \in Seq(Plugin)
<1> DEFINE last == {n \in DOMAIN order : order[n] = p /\ \A m \in DOMAIN order :
                                                           m > n => order[m] # p}
<1>1. order \in Seq(Plugin)
  BY DEF RegistryTypes
<1>2. CASE last = {}
  BY <1>1, <1>2 DEF WithoutLast
<1>3. CASE last # {}
  <2>1. PICK n \in 1 .. Len(order) : WithoutLast(p) = RemoveAt(order, n)
    BY <1>1, <1>3 DEF WithoutLast
  <2>2. SubSeq(order, 1, n - 1) \in Seq(Plugin) /\ SubSeq(order, n + 1, Len(order)) \in Seq(Plugin)
    BY <1>1
  <2> QED BY <2>1, <2>2 DEF RemoveAt
<1> QED BY <1>2, <1>3

(* start and activateAll. *)
LEMMA AwaitTypes ==
  ASSUME CoreTypes, NEW step \in {"idle", "bootstrap", "read", "ordinary", "done"},
         NEW n \in 1 .. Len(Order) + 1, NEW a \in Owner \cup {NoOwner}, Await(step, n, a),
         UNCHANGED <<kernel, stopList>>
  PROVE  CoreTypes'
  BY DEF CoreTypes, BootRecord, Await

LEMMA StartEndsTypes ==
  ASSUME CoreTypes, NEW outcome \in {"started", "failed"}, StartEnds(outcome),
         UNCHANGED stopList
  PROVE  CoreTypes'
  BY DEF CoreTypes, BootRecord, StartEnds, KernelStates

LEMMA BootTypes ==
  ASSUME Shape, BootStep PROVE TypeOK'
<1>1. /\ CoreTypes /\ OwnerTypes /\ RegistryTypes /\ ChoiceTypes /\ TaskTypes /\ BusTypeOK
      /\ ProcessTypeOK /\ overlap \in BOOLEAN
  BY TypeParts DEF Shape
<1>2. boot.next \in 1 .. Len(Order) + 1
  BY <1>1 DEF CoreTypes, BootRecord
<1> USE DEF vars
<1>3. ASSUME CoreTypes', RegistryTypes', ChoiceTypes', OwnerTypes',
             UNCHANGED <<tasks, overlap, busVars, processVars>>
      PROVE  TypeOK'
  BY <1>1, <1>3, Kept, TypeParts DEF TypeOK, CoreTypes, RegistryTypes, ChoiceTypes, OwnerTypes,
     TaskTypes, OwnerRecord, OwnerSteps, Kinds, TaskRecord, TaskSteps, BootRecord, RecordStates,
     KernelStates
<1>4. CASE Start
  <2>1. 1 \in 1 .. Len(Order) + 1 /\ Bootstrap[1] \in Plugin
    BY OrderIsOfPlugins
  <2>2. PICK a \in Owner : Activate(Bootstrap[1], a) /\ Await("bootstrap", 1, a)
    BY <1>4 DEF Start
  <2>3. OwnerTypes' /\ RegistryTypes'
    BY <1>1, <2>1, <2>2, ActivateTypes
  <2>4. CoreTypes'
    BY <1>1, <1>4, <2>1, <2>2 DEF CoreTypes, BootRecord, Await, Start, KernelStates
  <2>5. ChoiceTypes'
    BY <1>1, <1>4, Kept DEF Start
  <2> QED BY <1>3, <1>4, <2>3, <2>4, <2>5 DEF Start
<1>5. CASE Bootstrapped
  <2>1. ChoiceTypes' /\ UNCHANGED <<tasks, overlap, busVars, processVars, stopList>>
    BY <1>1, <1>5, Kept DEF Bootstrapped
  <2>2. CASE StartEnds("failed") /\ UNCHANGED <<registry, owners>>
    BY <1>1, <1>3, <2>1, <2>2, StartEndsTypes, Kept
  <2>3. ASSUME boot.next < Len(Bootstrap), UNCHANGED kernel,
               NEW a \in Owner, Activate(Bootstrap[boot.next + 1], a),
               Await("bootstrap", boot.next + 1, a)
        PROVE  TypeOK'
    <3>1. boot.next + 1 \in 1 .. Len(Order) + 1 /\ Bootstrap[boot.next + 1] \in Plugin
      BY <1>2, <2>3, OrderIsOfPlugins
    <3>2. OwnerTypes' /\ RegistryTypes'
      BY <1>1, <2>3, <3>1, ActivateTypes
    <3>3. CoreTypes'
      BY <1>1, <2>1, <2>3, <3>1, AwaitTypes
    <3> QED BY <1>3, <2>1, <3>2, <3>3
  <2>4. CASE UNCHANGED kernel /\ Await("read", 1, NoOwner) /\ UNCHANGED <<registry, owners>>
    <3>1. 1 \in 1 .. Len(Order) + 1
      BY OrderIsOfPlugins
    <3>2. CoreTypes'
      BY <1>1, <2>1, <2>4, <3>1, AwaitTypes
    <3> QED BY <1>1, <1>3, <2>1, <2>4, <3>2, Kept
  <2> QED BY <1>5, <2>2, <2>3, <2>4 DEF Bootstrapped
<1>6. CASE ReadDisabled
  <2>1. RegistryTypes' /\ OwnerTypes'
    BY <1>1, <1>6, Kept DEF ReadDisabled
  <2>2. ChoiceTypes'
    BY <1>1, <1>6 DEF ReadDisabled, ChoiceTypes
  <2>3. 1 \in 1 .. Len(Order) + 1
    BY OrderIsOfPlugins
  <2>4. CoreTypes'
    BY <1>1, <1>6, <2>3, AwaitTypes, StartEndsTypes DEF ReadDisabled
  <2> QED BY <1>3, <1>6, <2>1, <2>2, <2>4 DEF ReadDisabled
<1>7. CASE ActivateNext
  <2> DEFINE p == Ordinary[boot.next]
  <2>1. p \in Plugin /\ boot.next + 1 \in 1 .. Len(Order) + 1
    BY <1>2, <1>7, OrderIsOfPlugins DEF ActivateNext
  <2>2. ChoiceTypes' /\ UNCHANGED <<kernel, stopList, tasks, overlap, busVars, processVars>>
    BY <1>1, <1>7, Kept DEF ActivateNext
  <2> HIDE DEF p
  <2>3. \/ /\ records' = [records EXCEPT ![p] = "disabled"]
           /\ Await("ordinary", boot.next + 1, NoOwner)
           /\ UNCHANGED <<current, order, owners>>
        \/ \E a \in Owner : Activate(p, a) /\ Await("ordinary", boot.next + 1, a)
    BY <1>7 DEF ActivateNext, p
  <2>4. CoreTypes'
    BY <1>1, <2>1, <2>2, <2>3, AwaitTypes
  <2>5. CASE /\ records' = [records EXCEPT ![p] = "disabled"]
             /\ UNCHANGED <<current, order, owners>>
    <3>1. RegistryTypes' /\ OwnerTypes'
      BY <1>1, <2>5, Kept DEF RegistryTypes, RecordStates
    <3> QED BY <1>3, <2>2, <2>4, <3>1
  <2>6. ASSUME NEW a \in Owner, Activate(p, a) PROVE TypeOK'
    BY <1>1, <1>3, <2>1, <2>2, <2>4, <2>6, ActivateTypes
  <2> QED BY <2>3, <2>5, <2>6
<1>8. CASE Started
  <2>1. CoreTypes'
    BY <1>1, <1>8, StartEndsTypes DEF Started
  <2> QED BY <1>1, <1>3, <1>8, <2>1, Kept DEF Started
<1> QED BY <1>4, <1>5, <1>6, <1>7, <1>8 DEF BootStep, Shape

(* The type from its parts, in the next state. *)
LEMMA PartsNext ==
  ASSUME CoreTypes', RegistryTypes', ChoiceTypes', OwnerTypes', TaskTypes', BusTypeOK',
         ProcessTypeOK', overlap' \in BOOLEAN
  PROVE  TypeOK'
  BY DEF TypeOK, CoreTypes, RegistryTypes, ChoiceTypes, OwnerTypes, TaskTypes, OwnerRecord,
     OwnerSteps, Kinds, TaskRecord, TaskSteps, BootRecord, RecordStates, KernelStates

LEMMA WithType ==
  ASSUME BusTypeOK, NEW a \in Owner, NEW set, handlers' = With(set, a), UNCHANGED invocations
  PROVE  BusTypeOK'
  BY DEF BusTypeOK, With

LEMMA OwnerStepTypes ==
  ASSUME Shape, NEW a \in Owner, OwnerStep(a) PROVE TypeOK'
<1>1. /\ CoreTypes /\ OwnerTypes /\ RegistryTypes /\ ChoiceTypes /\ TaskTypes /\ BusTypeOK
      /\ ProcessTypeOK /\ overlap \in BOOLEAN /\ owners[a] \in OwnerRecord
  BY TypeParts DEF Shape, OwnerTypes
<1>2. owners[a].step # "free" => owners[a].plugin \in Plugin
  BY DEF Shape, ActivationsAreKnown
<1>3. UNCHANGED <<core, choices, tasks, overlap>>
  BY DEF OwnerStep, Commit, Fail, FailedProcessesEnd, FailureEnds
<1>4. CoreTypes' /\ ChoiceTypes' /\ TaskTypes' /\ overlap' \in BOOLEAN
  BY <1>1, <1>3, Kept
<1>5. CASE Commit(a)
  <2>1. owners[a].plugin \in Plugin
    BY <1>2, <1>5 DEF Commit
  <2>2. OwnerTypes'
    BY <1>1, <1>5 DEF Commit, OwnerTypes, OwnerRecord, OwnerSteps, Kinds
  <2>3. RegistryTypes'
    BY <1>1, <1>5, <2>1 DEF Commit, RegistryTypes, RecordStates
  <2>4. BusTypeOK'
    BY <1>1, <1>5, WithType DEF Commit
  <2> QED BY <1>1, <1>4, <1>5, <2>2, <2>3, <2>4, Kept, PartsNext DEF Commit
<1>6. CASE Fail(a)
  <2>1. PICK had \in SUBSET Kinds : AbortOwner(a, "processes", had, {"services"})
    BY <1>6 DEF Fail, Kinds
  <2>2. "processes" \in OwnerSteps /\ {"services"} \in SUBSET Kinds
    BY DEF OwnerSteps, Kinds
  <2>3. OwnerTypes' /\ ProcessTypeOK' /\ invocations' \in [Invocation -> InvocationRecord]
    BY <1>1, <2>1, <2>2, AbortedTypes
  <2>4. handlers' \in [Command -> Owner \cup {NoOwner}]
    BY <1>1, <1>6, BusParts DEF Fail, With
  <2>5. BusTypeOK'
    BY <2>3, <2>4 DEF BusTypeOK, InvocationRecord
  <2>6. RegistryTypes'
    BY <1>1, <1>6, Kept DEF Fail
  <2> QED BY <1>4, <2>3, <2>5, <2>6, PartsNext
<1>7. CASE FailedProcessesEnd(a)
  <2>1. OwnerTypes'
    BY <1>1, <1>7 DEF FailedProcessesEnd, OwnerTypes, OwnerRecord, OwnerSteps
  <2> QED BY <1>1, <1>4, <1>7, <2>1, Kept, PartsNext DEF FailedProcessesEnd
<1>8. CASE FailureEnds(a)
  <2>1. OwnerTypes'
    <3>1. PICK left \in SUBSET owners[a].owns :
            owners' = [owners EXCEPT ![a].step = "failed", ![a].owns = left]
      BY <1>8 DEF FailureEnds
    <3>2. left \in SUBSET Kinds
      BY <1>1 DEF OwnerRecord
    <3> QED BY <1>1, <3>1, <3>2 DEF OwnerTypes, OwnerRecord, OwnerSteps
  <2>2. RegistryTypes'
    BY <1>1, <1>8 DEF FailureEnds, RegistryTypes, RecordStates
  <2>3. BusTypeOK'
    BY <1>1, <1>8 DEF FailureEnds, BusTypeOK, Without
  <2> QED BY <1>1, <1>4, <1>8, <2>1, <2>2, <2>3, Kept, PartsNext DEF FailureEnds
<1> QED BY <1>5, <1>6, <1>7, <1>8 DEF OwnerStep

LEMMA DeactivationTypes ==
  ASSUME Shape, NEW k \in Caller, DeactivationStep(k) PROVE TypeOK'
<1>1. /\ CoreTypes /\ OwnerTypes /\ RegistryTypes /\ ChoiceTypes /\ TaskTypes /\ BusTypeOK
      /\ ProcessTypeOK /\ overlap \in BOOLEAN /\ tasks[k] \in TaskRecord
  BY TypeParts DEF Shape, TaskTypes
<1>2. UNCHANGED <<core, choices, owners, overlap, busVars, processVars>>
  BY DEF DeactivationStep, ProcessesEnd, OperationsEnd, DeactivationEnds, Unwind
<1>3. /\ CoreTypes' /\ ChoiceTypes' /\ OwnerTypes' /\ BusTypeOK' /\ ProcessTypeOK'
      /\ overlap' \in BOOLEAN
  BY <1>1, <1>2, Kept
<1>4. ASSUME NEW step \in Unwinding, NEW late \in BOOLEAN,
             NEW waits \in SUBSET (Invocation \cup Child), Unwind(k, step, late, waits)
      PROVE  TypeOK'
  <2>1. TaskTypes'
    BY <1>1, <1>4 DEF Unwind, TaskTypes, TaskRecord, TaskSteps
  <2>2. RegistryTypes'
    BY <1>1, <1>4, Kept DEF Unwind
  <2> QED BY <1>3, <2>1, <2>2, PartsNext
<1>5. CASE ProcessesEnd(k)
  <2>1. OperationsOf(tasks[k].owner) \in SUBSET (Invocation \cup Child)
    BY DEF OperationsOf, RunningFor, ChildrenOf
  <2>2. "operations" \in Unwinding
    BY DEF Unwinding
  <2> QED BY <1>4, <1>5, <2>1, <2>2 DEF ProcessesEnd
<1>6. CASE OperationsEnd(k)
  <2>1. "hook" \in Unwinding /\ tasks[k].late \in BOOLEAN /\ {} \in SUBSET (Invocation \cup Child)
    BY <1>1 DEF Unwinding, TaskRecord
  <2> QED BY <1>4, <1>6, <2>1 DEF OperationsEnd
<1>7. CASE DeactivationEnds(k)
  <2>1. TaskTypes'
    BY <1>1, <1>7, TaskRecords DEF DeactivationEnds, TaskTypes, TaskRecord, TaskSteps
  <2>2. order' \in Seq(Plugin)
    BY <1>1, <1>7, WithoutLastType DEF DeactivationEnds
  <2>3. RegistryTypes'
    BY <1>1, <1>7, <2>2 DEF DeactivationEnds, RegistryTypes, RecordStates
  <2> QED BY <1>3, <2>1, <2>3, PartsNext
<1> QED BY <1>5, <1>6, <1>7 DEF DeactivationStep

LEMMA ToggleTypes ==
  ASSUME Shape, NEW t \in Toggle,
         ToggleStep(t) \/ \E p \in Plugin, enable \in BOOLEAN : SetEnabled(t, p, enable)
  PROVE  TypeOK'
<1>1. /\ CoreTypes /\ OwnerTypes /\ RegistryTypes /\ ChoiceTypes /\ TaskTypes /\ BusTypeOK
      /\ ProcessTypeOK /\ overlap \in BOOLEAN /\ t \in Caller /\ tasks[t] \in TaskRecord
  BY TypeParts DEF Shape, TaskTypes, Caller
<1>2. ASSUME NEW p \in Plugin, NEW enable \in BOOLEAN, SetEnabled(t, p, enable)
      PROVE  TypeOK'
  <2> DEFINE r == [NoTask EXCEPT !.step = "writing", !.plugin = p, !.enable = enable,
                      !.next = IF enable THEN disabled \ {p} ELSE disabled \cup {p}]
  <2>1. r \in TaskRecord
    <3>1. (IF enable THEN disabled \ {p} ELSE disabled \cup {p}) \in SUBSET Plugin
      BY <1>1 DEF ChoiceTypes
    <3> QED BY <3>1, TaskRecords DEF TaskRecord, TaskSteps
  <2>2. TaskTypes'
    BY <1>1, <1>2, <2>1, TaskGoesTypes DEF SetEnabled, TaskGoes
  <2>3. overlap' \in BOOLEAN
    BY <1>1, <1>2 DEF SetEnabled
  <2> QED BY <1>1, <1>2, <2>2, <2>3, Kept, PartsNext DEF SetEnabled
<1>3. CASE WriteEnds(t)
  <2>1. TaskTypes'
    BY <1>1, <1>3, TaskRecords DEF WriteEnds, TaskTypes, TaskRecord, TaskSteps
  <2>2. ChoiceTypes'
    BY <1>1, <1>3 DEF WriteEnds, ChoiceTypes, TaskRecord
  <2> QED BY <1>1, <1>3, <2>1, <2>2, Kept, PartsNext DEF WriteEnds
<1>4. CASE Enable(t)
  <2> DEFINE p == tasks[t].plugin
  <2>1. p \in Plugin
    BY <1>1, <1>4 DEF Enable, Shape, TasksAreKnown
  <2>2. CoreTypes' /\ BusTypeOK' /\ ProcessTypeOK' /\ overlap' \in BOOLEAN
    BY <1>1, <1>4, Kept DEF Enable
  <2>3. ChoiceTypes'
    BY <1>1, <1>4 DEF Enable, ChoiceTypes, TaskRecord
  <2>4. CASE tasks' = [tasks EXCEPT ![t] = Done] /\ UNCHANGED <<registry, owners>>
    <3>1. TaskTypes'
      BY <1>1, <2>4, TaskGoesTypes, TaskRecords DEF TaskGoes
    <3> QED BY <1>1, <2>2, <2>3, <2>4, <3>1, Kept, PartsNext
  <2>5. ASSUME NEW a \in Owner, Activate(p, a),
               tasks' = [tasks EXCEPT ![t] = [NoTask EXCEPT !.step = "activation", !.owner = a]]
        PROVE  TypeOK'
    <3>1. [NoTask EXCEPT !.step = "activation", !.owner = a] \in TaskRecord
      BY TaskRecords DEF TaskRecord, TaskSteps
    <3>2. TaskTypes'
      BY <1>1, <2>5, <3>1, TaskGoesTypes DEF TaskGoes
    <3>3. OwnerTypes' /\ RegistryTypes'
      BY <1>1, <2>1, <2>5, ActivateTypes
    <3> QED BY <2>2, <2>3, <3>2, <3>3, PartsNext
  <2> QED BY <1>4, <2>4, <2>5 DEF Enable
<1>5. CASE EnableEnds(t)
  <2>1. TaskTypes'
    BY <1>1, <1>5, TaskGoesTypes, TaskRecords DEF TaskGoes, EnableEnds
  <2> QED BY <1>1, <1>5, <2>1, Kept, PartsNext DEF EnableEnds
<1>6. CASE Disable(t)
  <2> DEFINE p == tasks[t].plugin
  <2>1. p \in Plugin
    BY <1>1, <1>6 DEF Disable, Shape, TasksAreKnown
  <2>2. CoreTypes' /\ overlap' \in BOOLEAN
    BY <1>1, <1>6, Kept DEF Disable
  <2>3. ChoiceTypes'
    BY <1>1, <1>6 DEF Disable, ChoiceTypes, TaskRecord
  <2>4. CASE current[p] # NoOwner /\ BeginDeactivation(t, p)
    <3>1. /\ RegistryTypes' /\ OwnerTypes' /\ TaskTypes' /\ BusTypeOK' /\ ProcessTypeOK'
      BY <1>1, <2>1, <2>4, BeginTypes DEF Shape
    <3> QED BY <2>2, <2>3, <3>1, PartsNext
  <2>5. CASE /\ records' = [records EXCEPT ![p] = "disabled"]
             /\ tasks' = [tasks EXCEPT ![t] = Done]
             /\ UNCHANGED <<current, order, owners, busVars, processVars>>
    <3>1. TaskTypes'
      BY <1>1, <2>5, TaskGoesTypes, TaskRecords DEF TaskGoes
    <3>2. RegistryTypes'
      BY <1>1, <2>5 DEF RegistryTypes, RecordStates
    <3> QED BY <1>1, <2>2, <2>3, <2>5, <3>1, <3>2, Kept, PartsNext
  <2> QED BY <1>6, <2>4, <2>5 DEF Disable
<1> QED BY <1>2, <1>3, <1>4, <1>5, <1>6 DEF ToggleStep

LEMMA StopTypes ==
  ASSUME Shape, StopStep \/ StopKernel PROVE TypeOK'
<1>1. /\ CoreTypes /\ OwnerTypes /\ RegistryTypes /\ ChoiceTypes /\ TaskTypes /\ BusTypeOK
      /\ ProcessTypeOK /\ overlap \in BOOLEAN /\ Stop \in Caller /\ tasks[Stop] \in TaskRecord
  BY TypeParts DEF Shape, TaskTypes, Caller
<1>2. CASE StopKernel
  <2>1. TaskTypes'
    BY <1>1, <1>2 DEF StopKernel, TaskTypes, TaskRecord, TaskSteps
  <2>2. CoreTypes'
    BY <1>1, <1>2, ReverseType DEF StopKernel, CoreTypes, KernelStates, RegistryTypes
  <2> QED BY <1>1, <1>2, <2>1, <2>2, Kept, PartsNext DEF StopKernel
<1>3. CASE StopNext
  <2>1. Head(stopList) \in Plugin /\ Tail(stopList) \in Seq(Plugin)
    BY <1>1, <1>3 DEF StopNext, CoreTypes
  <2>2. CoreTypes'
    BY <1>1, <1>3, <2>1 DEF StopNext, CoreTypes
  <2>3. ChoiceTypes' /\ overlap' \in BOOLEAN
    BY <1>1, <1>3, Kept DEF StopNext
  <2>4. CASE current[Head(stopList)] # NoOwner /\ BeginDeactivation(Stop, Head(stopList))
    <3>1. /\ RegistryTypes' /\ OwnerTypes' /\ TaskTypes' /\ BusTypeOK' /\ ProcessTypeOK'
      BY <1>1, <2>1, <2>4, BeginTypes DEF Shape
    <3> QED BY <2>2, <2>3, <3>1, PartsNext
  <2>5. CASE UNCHANGED <<registry, owners, tasks, busVars, processVars>>
    BY <1>1, <2>2, <2>3, <2>5, Kept, PartsNext
  <2> QED BY <1>3, <2>4, <2>5 DEF StopNext
<1>4. CASE ShutDown
  <2>1. TaskTypes'
    BY <1>1, <1>4 DEF ShutDown, TaskTypes, TaskRecord, TaskSteps
  <2>2. OwnerTypes'
    <3>1. \A a \in Owner : [owners[a] EXCEPT !.owns = @ \ {"schedules"}] \in OwnerRecord
      BY <1>1 DEF OwnerTypes, OwnerRecord
    <3> QED BY <1>4, <3>1 DEF ShutDown, OwnerTypes
  <2>3. children' \in [Child -> ChildRecord] /\ supervising' \in BOOLEAN
    BY <1>1, <1>4, ProcessParts, ClosedChild DEF ShutDown
  <2>4. ProcessTypeOK'
    BY <2>3 DEF ProcessTypeOK, ChildRecord
  <2> QED BY <1>1, <1>4, <2>1, <2>2, <2>4, Kept, PartsNext DEF ShutDown
<1>5. CASE Stopped
  <2>1. TaskTypes'
    BY <1>1, <1>5 DEF Stopped, TaskTypes, TaskRecord, TaskSteps
  <2>2. CoreTypes'
    BY <1>1, <1>5 DEF Stopped, CoreTypes, KernelStates
  <2> QED BY <1>1, <1>5, <2>1, <2>2, Kept, PartsNext DEF Stopped
<1> QED BY <1>2, <1>3, <1>4, <1>5 DEF StopStep

(* Commands and processes: what a call or a child becomes. *)
CallGoes(i, call) == invocations' = [invocations EXCEPT ![i] = call]

ChildGoes(c, child) == children' = [children EXCEPT ![c] = child]

Calls ==
  \E i \in Invocation : \/ GiveUp(i) \/ HandlerSettles(i)
                         \/ \E c \in Command, from \in Owner \cup {NoOwner} : Invoke(i, c, from)

Spawns ==
  \E c \in Child : \/ ProcessStep(c)
                   \/ \E a \in Owner, i \in Invocation \cup {NoOwner} : SpawnFor(c, a, i)

HostUnchanged == UNCHANGED <<core, registry, choices, owners, tasks, overlap, handlers, supervising>>

LEMMA InvokedCall ==
  ASSUME BusTypeOK, NEW i \in Invocation, NEW c \in Command, NEW from \in Owner \cup {NoOwner},
         Invoke(i, c, from)
  PROVE  \E call \in InvocationRecord :
           /\ CallGoes(i, call)
           /\ call.owner = handlers[c] /\ call.from = from /\ call.caller = "waiting"
           /\ call.running /\ (call.active => handlers[c] \notin AbortedOwners)
           /\ handlers[c] # NoOwner /\ handlers[c] \in Owner
           /\ invocations[i].caller = "none" /\ ~invocations[i].running
<1> DEFINE call == [caller |-> "waiting", from |-> from, owner |-> handlers[c],
                    running |-> TRUE, active |-> handlers[c] \notin AbortedOwners]
<1>1. handlers[c] \in Owner /\ handlers[c] # NoOwner
  BY BusParts DEF Invoke, Invoked
<1>2. CallGoes(i, call) /\ invocations[i] = NoInvocation
  BY DEF Invoke, Invoked, CallGoes
<1>3. call \in InvocationRecord
  BY <1>1 DEF InvocationRecord
<1>4. invocations[i].caller = "none" /\ ~invocations[i].running
  BY <1>2 DEF NoInvocation
<1> QED BY <1>1, <1>2, <1>3, <1>4

LEMMA SettledCall ==
  ASSUME BusTypeOK, NEW i \in Invocation, HandlerSettles(i)
  PROVE  \E call \in InvocationRecord :
           /\ CallGoes(i, call) /\ ~call.running /\ ~call.active
           /\ call.caller = "expired" => invocations[i].caller = "expired"
<1>1. invocations[i] \in InvocationRecord
  BY BusParts
<1> DEFINE how == IF invocations[i].caller = "waiting" THEN "answered" ELSE invocations[i].caller
           call == [NoInvocation EXCEPT !.caller = how]
<1>2. how \in {"none", "answered", "expired"}
  BY <1>1 DEF InvocationRecord
<1>3. call \in InvocationRecord /\ ~call.running /\ ~call.active /\ call.caller = how
  BY <1>2 DEF InvocationRecord, NoInvocation
<1>4. CallGoes(i, call)
  BY DEF HandlerSettles, Settle, CallGoes
<1>5. call.caller = "expired" => invocations[i].caller = "expired"
  BY <1>3
<1> HIDE DEF call
<1> QED BY <1>3, <1>4, <1>5

(* A child that is spawned, and a child that goes on. *)
LEMMA SpawnedChild ==
  ASSUME ProcessTypeOK, NEW c \in Child, NEW parents \in SUBSET Parent, Spawn(c, parents)
  PROVE  \E child \in ChildRecord :
           /\ ChildGoes(c, child) /\ child.step = "spawning" /\ child.parents = parents
           /\ ~child.told
<1> DEFINE child == [NoChild EXCEPT !.step = "spawning", !.alive = TRUE, !.parents = parents]
<1>1. child \in ChildRecord /\ child.step = "spawning" /\ child.parents = parents /\ ~child.told
  BY DEF ChildRecord, NoChild
<1>2. ChildGoes(c, child)
  BY DEF Spawn, ChildGoes
<1> HIDE DEF child
<1> QED BY <1>1, <1>2

LEMMA StepOfChild ==
  ASSUME ProcessTypeOK, NEW c \in Child, ProcessStep(c)
  PROVE  \E child \in ChildRecord :
           /\ ChildGoes(c, child) /\ child.parents \in {children[c].parents, {}}
           /\ child.step # "spawning"
           /\ child.step = "owned" => children[c].step = "spawning" /\ ~children[c].told
           /\ child.step = "reaping" => children[c].step = "spawning"
<1>1. children[c] \in ChildRecord
  BY ProcessParts
<1> DEFINE At(child, step) ==
             /\ ChildGoes(c, child) /\ child \in ChildRecord /\ child.step = step
             /\ child.parents = children[c].parents
<1>2. CASE Spawned(c)
  <2> DEFINE reaped == [children[c] EXCEPT !.step = "reaping", !.sent = "SIGKILL"]
             owned == [children[c] EXCEPT !.step = "owned"]
  <2>1. children[c].step = "spawning"
        /\ IF children[c].told THEN ChildGoes(c, reaped) ELSE ChildGoes(c, owned)
    BY <1>2 DEF Spawned, ChildGoes
  <2>2. CASE children[c].told
    <3>1. At(reaped, "reaping")
      BY <1>1, <2>1, <2>2 DEF ChildRecord
    <3> HIDE DEF reaped
    <3> QED BY <2>1, <3>1
  <2>3. CASE ~children[c].told
    <3>1. At(owned, "owned")
      BY <1>1, <2>1, <2>3 DEF ChildRecord
    <3> HIDE DEF owned
    <3> QED BY <2>1, <2>3, <3>1
  <2> QED BY <2>2, <2>3
<1>3. CASE Exit(c)
  <2>1. Gone \in ChildRecord /\ Gone.parents = {} /\ Gone.step = "released"
    BY DEF Gone, NoChild, ChildRecord
  <2> QED BY <1>3, <2>1 DEF Exit, ChildGoes
<1>4. CASE Close(c)
  <2>1. ChildGoes(c, Closed(children[c])) /\ children[c].step = "owned"
    BY <1>4 DEF Close, ChildGoes, ProcessTypeOK
  <2> QED BY <1>1, <2>1, ClosedChild
<1>5. CASE Kill(c)
  <2>1. CASE children[c].step = "owned"
    <3>1. ChildGoes(c, [Closed(children[c]) EXCEPT !.forced = TRUE])
      BY <1>5, <2>1 DEF Kill, ChildGoes
    <3>2. Closed(children[c]) \in ChildRecord /\ Closed(children[c]).step = "stdin"
          /\ Closed(children[c]).parents = children[c].parents
      BY <1>1, <2>1, ClosedChild
    <3>3. [Closed(children[c]) EXCEPT !.forced = TRUE] \in ChildRecord
          /\ [Closed(children[c]) EXCEPT !.forced = TRUE].step = "stdin"
          /\ [Closed(children[c]) EXCEPT !.forced = TRUE].parents = children[c].parents
      BY <3>2 DEF ChildRecord
    <3> QED BY <3>1, <3>3
  <2>2. CASE children[c].step = "stdin"
    <3> DEFINE child == [children[c] EXCEPT !.forced = TRUE, !.sent = "SIGKILL"]
    <3>1. ChildGoes(c, child)
      BY <1>5, <2>2 DEF Kill, ChildGoes
    <3>2. At(child, "stdin")
      BY <1>1, <2>2, <3>1 DEF ChildRecord
    <3> HIDE DEF child
    <3> QED BY <3>2
  <2>3. CASE children[c].step = "term"
    <3>1. ChildGoes(c, [children[c] EXCEPT !.sent = "SIGKILL"])
      BY <1>5, <2>3 DEF Kill, ChildGoes
    <3> QED BY <1>1, <2>3, <3>1 DEF ChildRecord
  <2> QED BY <1>5, <2>1, <2>2, <2>3 DEF Kill
<1>6. ASSUME NEW child, NEW step \in {"kill", "term", "released"}, At(child, step)
      PROVE  \E next \in ChildRecord :
               /\ ChildGoes(c, next) /\ next.parents \in {children[c].parents, {}}
               /\ next.step \notin {"spawning", "owned", "reaping"}
  BY <1>6
<1>7. CASE StdinEnded(c)
  <2> DEFINE killed == [children[c] EXCEPT !.step = "kill", !.sent = "SIGKILL", !.forced = FALSE]
             termed == [children[c] EXCEPT !.step = "term", !.sent = "SIGTERM"]
  <2>1. IF children[c].forced THEN ChildGoes(c, killed) ELSE ChildGoes(c, termed)
    BY <1>7 DEF StdinEnded, ChildGoes
  <2>2. ChildGoes(c, killed) => At(killed, "kill")
    BY <1>1 DEF ChildRecord, Ending
  <2>3. ChildGoes(c, termed) => At(termed, "term")
    BY <1>1 DEF ChildRecord, Ending
  <2> HIDE DEF killed, termed, At
  <2> QED BY <1>6, <2>1, <2>2, <2>3
<1>8. CASE GraceOver(c)
  <2> DEFINE killed == [children[c] EXCEPT !.step = "kill", !.sent = "SIGKILL"]
             released == [children[c] EXCEPT !.step = "released"]
  <2>1. IF children[c].step = "term" THEN ChildGoes(c, killed) ELSE ChildGoes(c, released)
    BY <1>8 DEF GraceOver, ChildGoes
  <2>2. ChildGoes(c, killed) => At(killed, "kill")
    BY <1>1 DEF ChildRecord, Ending
  <2>3. ChildGoes(c, released) => At(released, "released")
    BY <1>1 DEF ChildRecord, Ending
  <2> HIDE DEF killed, released, At
  <2> QED BY <1>6, <2>1, <2>2, <2>3
<1>9. CASE ForceOver(c)
  <2> DEFINE released == [children[c] EXCEPT !.step = "released"]
  <2>1. ChildGoes(c, released)
    BY <1>9 DEF ForceOver, ChildGoes
  <2>2. At(released, "released")
    BY <1>1, <2>1 DEF ChildRecord
  <2> HIDE DEF released, At
  <2> QED BY <1>6, <2>2
<1> QED BY <1>2, <1>3, <1>4, <1>5, <1>7, <1>8, <1>9 DEF ProcessStep, TerminationEnds

LEMMA CallTypes ==
  ASSUME Shape, Calls \/ Spawns PROVE TypeOK' /\ HostUnchanged
<1>1. /\ CoreTypes /\ OwnerTypes /\ RegistryTypes /\ ChoiceTypes /\ TaskTypes /\ BusTypeOK
      /\ ProcessTypeOK /\ overlap \in BOOLEAN
  BY TypeParts DEF Shape
<1>2. HostUnchanged
  BY DEF HostUnchanged, Calls, Spawns, GiveUp, HandlerSettles, Invoke, SpawnFor, ProcessStep,
     Spawned, Exit, Close, Kill, TerminationEnds, StdinEnded, GraceOver, ForceOver, Spawn, busVars,
     processVars
<1>3. /\ CoreTypes' /\ OwnerTypes' /\ RegistryTypes' /\ ChoiceTypes' /\ TaskTypes'
      /\ overlap' \in BOOLEAN
  BY <1>1, <1>2, Kept DEF HostUnchanged
<1>4. ASSUME NEW i \in Invocation, NEW call \in InvocationRecord, CallGoes(i, call)
      PROVE  BusTypeOK'
  BY <1>1, <1>2, <1>4 DEF HostUnchanged, CallGoes, BusTypeOK, InvocationRecord
<1>5. ASSUME NEW c \in Child, NEW child \in ChildRecord, ChildGoes(c, child)
      PROVE  ProcessTypeOK'
  BY <1>1, <1>2, <1>5 DEF HostUnchanged, ChildGoes, ProcessTypeOK, ChildRecord
<1>6. CASE Calls
  <2>1. ASSUME NEW i \in Invocation, GiveUp(i) PROVE BusTypeOK' /\ ProcessTypeOK'
    <3>1. invocations[i] \in InvocationRecord /\ CallGoes(i, Expired(invocations[i]))
      BY <1>1, <2>1, BusParts DEF GiveUp, Expire, CallGoes
    <3>2. BusTypeOK'
      BY <1>4, <3>1, ExpiredCall
    <3>3. children' \in [Child -> ChildRecord]
      BY <1>1, <2>1, ToldTypes DEF GiveUp
    <3> QED BY <1>1, <1>2, <3>2, <3>3 DEF HostUnchanged, ProcessTypeOK, ChildRecord
  <2>2. ASSUME NEW i \in Invocation, HandlerSettles(i) PROVE BusTypeOK' /\ ProcessTypeOK'
    BY <1>1, <1>4, <2>2, SettledCall, Kept DEF HandlerSettles
  <2>3. ASSUME NEW i \in Invocation, NEW c \in Command, NEW from \in Owner \cup {NoOwner},
               Invoke(i, c, from)
        PROVE  BusTypeOK' /\ ProcessTypeOK'
    BY <1>1, <1>4, <2>3, InvokedCall, Kept DEF Invoke
  <2> QED BY <1>2, <1>3, <1>6, <2>1, <2>2, <2>3, PartsNext DEF Calls
<1>7. CASE Spawns
  <2>1. BusTypeOK'
    BY <1>1, <1>7, Kept DEF Spawns, ProcessStep, SpawnFor
  <2>2. ASSUME NEW c \in Child, ProcessStep(c) PROVE ProcessTypeOK'
    BY <1>1, <1>5, <2>2, StepOfChild
  <2>3. ASSUME NEW c \in Child, NEW a \in Owner, NEW i \in Invocation \cup {NoOwner},
               SpawnFor(c, a, i)
        PROVE  ProcessTypeOK'
    <3>1. {a} \in SUBSET Parent /\ (i \in Invocation => {a, i} \in SUBSET Parent)
      BY LifecycleAssumption
    <3> QED BY <1>1, <1>5, <2>3, <3>1, SpawnedChild DEF SpawnFor
  <2> QED BY <1>2, <1>3, <1>7, <2>1, <2>2, <2>3, PartsNext DEF Spawns
<1> QED BY <1>6, <1>7

(************************* How activations go on ******************************)

(* An activation keeps its plugin, its end and its commitment, and handlers are *)
(* only those of activations under way.                                         *)
ActivationGoesOn(a) ==
  /\ owners[a].step # "free" =>
       owners'[a].plugin = owners[a].plugin /\ owners'[a].step # "free"
  /\ owners[a].step = "free" /\ owners'[a].step # "free" => owners'[a].plugin \in Plugin
  /\ owners[a].aborted => owners'[a].aborted
  /\ owners[a].step = "committed" => owners'[a].step = "committed"

HandlersGoOn ==
  \A c \in Command : \/ handlers'[c] \in {handlers[c], NoOwner}
                     \/ handlers'[c] \in Owner /\ owners[handlers'[c]].step = "activating"

GoOn == (\A a \in Owner : ActivationGoesOn(a)) /\ HandlersGoOn

LEMMA UnchangedGoOn ==
  ASSUME UNCHANGED <<owners, handlers>>
  PROVE  GoOn
  BY DEF GoOn, ActivationGoesOn, HandlersGoOn

LEMMA ActivateGoesOn ==
  ASSUME OwnerTypes, RegistryTypes, NEW p \in Plugin, NEW a \in Owner, Activate(p, a),
         UNCHANGED handlers
  PROVE  GoOn
<1>1. /\ owners[a].step = "free" /\ Has(a, p, owners[a].aborted, "activating", owners[a].owns)
      /\ \A b \in Owner : b # a => owners'[b] = owners[b]
  BY ActivateTypes
<1>2. owners'[a].plugin = p /\ owners'[a].aborted = owners[a].aborted
      /\ owners'[a].step = "activating"
  BY <1>1 DEF Has
<1>3. \A b \in Owner : ActivationGoesOn(b)
  BY <1>1, <1>2 DEF ActivationGoesOn
<1> QED BY <1>3 DEF GoOn, HandlersGoOn

(* The signal of an activation aborts, while it is under way or current.        *)
LEMMA AbortGoesOn ==
  ASSUME OwnerTypes, NEW a \in Owner, NEW step \in OwnerSteps \ {"free"},
         NEW had \in SUBSET Kinds, NEW kinds \in SUBSET Kinds,
         AbortOwner(a, step, had, kinds), owners[a].step \in {"activating", step},
         HandlersGoOn
  PROVE  GoOn
<1>1. ASSUME NEW b \in Owner PROVE ActivationGoesOn(b)
  <2>1. CASE owners[b].plugin # owners[a].plugin
    <3>1. owners'[b] = owners[b]
      BY <2>1, AbortedOwner
    <3> QED BY <3>1 DEF ActivationGoesOn
  <2>2. CASE owners[b].plugin = owners[a].plugin /\ b # a
    <3>1. owners'[b].plugin = owners[b].plugin /\ owners'[b].aborted = owners[b].aborted
          /\ owners'[b].step = owners[b].step
      <4>1. Has(b, owners[b].plugin, owners[b].aborted, owners[b].step, owners[b].owns \ kinds)
        BY <2>2, AbortedOwner
      <4> QED BY <4>1 DEF Has
    <3> QED BY <3>1 DEF ActivationGoesOn
  <2>3. CASE b = a
    <3>1. owners'[a].plugin = owners[a].plugin /\ owners'[a].aborted /\ owners'[a].step = step
      <4>1. Has(a, owners[a].plugin, TRUE, step, had \ kinds)
        BY AbortedOwner
      <4> QED BY <4>1 DEF Has
    <3> QED BY <2>3, <3>1 DEF ActivationGoesOn
  <2> QED BY <2>1, <2>2, <2>3
<1> QED BY <1>1 DEF GoOn

LEMMA BeginGoesOn ==
  ASSUME TypeOK, ActivationsAreKnown, NEW k \in Caller, NEW p \in Plugin, current[p] # NoOwner,
         BeginDeactivation(k, p)
  PROVE  GoOn
<1>1. OwnerTypes /\ BusTypeOK
  BY TypeParts
<1>2. /\ current[p] \in Owner /\ owners[current[p]].step = "committed"
      /\ AbortOwner(current[p], "committed", owners[current[p]].owns, Kinds)
  BY BeginTypes DEF ActivationsAreKnown
<1>3. owners[current[p]].owns \in SUBSET Kinds /\ Kinds \in SUBSET Kinds
      /\ "committed" \in OwnerSteps \ {"free"}
  BY <1>1, <1>2 DEF OwnerTypes, OwnerRecord, OwnerSteps
<1>4. HandlersGoOn
  BY DEF BeginDeactivation, Without, HandlersGoOn
<1> QED BY <1>1, <1>2, <1>3, <1>4, AbortGoesOn

LEMMA OwnerStepGoesOn ==
  ASSUME Shape, NEW a \in Owner, OwnerStep(a)
  PROVE  GoOn
<1>1. OwnerTypes /\ BusTypeOK
  BY TypeParts DEF Shape
<1>2. CASE Commit(a)
  <2>1. owners[a].step = "activating" /\ handlers' = With(Handles[owners[a].plugin], a)
    BY <1>2 DEF Commit
  <2>2. HandlersGoOn
    BY <2>1 DEF HandlersGoOn, With
  <2>3. \A b \in Owner : ActivationGoesOn(b)
    BY <1>1, <1>2, <2>1 DEF Commit, ActivationGoesOn, OwnerTypes, OwnerRecord
  <2> QED BY <2>2, <2>3 DEF GoOn
<1>3. CASE Fail(a)
  <2>1. PICK had \in SUBSET Kinds : AbortOwner(a, "processes", had, {"services"})
    BY <1>3 DEF Fail, Kinds
  <2>2. owners[a].step = "activating" /\ "processes" \in OwnerSteps \ {"free"}
        /\ {"services"} \in SUBSET Kinds
    BY <1>3 DEF Fail, OwnerSteps, Kinds
  <2>3. HandlersGoOn
    BY <1>3, <2>2 DEF HandlersGoOn, With, Fail
  <2> QED BY <1>1, <2>1, <2>2, <2>3, AbortGoesOn
<1>4. CASE FailedProcessesEnd(a) \/ FailureEnds(a)
  <2>1. HandlersGoOn
    BY <1>4 DEF HandlersGoOn, FailedProcessesEnd, FailureEnds, Without, busVars
  <2>2. ASSUME NEW b \in Owner PROVE ActivationGoesOn(b)
    BY <1>1, <1>4 DEF FailedProcessesEnd, FailureEnds, ActivationGoesOn, OwnerTypes, OwnerRecord
  <2> QED BY <2>1, <2>2 DEF GoOn
<1> QED BY <1>2, <1>3, <1>4 DEF OwnerStep

LEMMA ShutDownGoesOn ==
  ASSUME Shape, ShutDown
  PROVE  /\ GoOn
         /\ \A a \in Owner : /\ owners'[a].plugin = owners[a].plugin
                              /\ owners'[a].step = owners[a].step
                              /\ owners'[a].aborted = owners[a].aborted
                              /\ owners'[a].owns = owners[a].owns \ {"schedules"}
<1>1. OwnerTypes
  BY TypeParts DEF Shape
<1>2. \A a \in Owner : /\ owners'[a].plugin = owners[a].plugin
                       /\ owners'[a].step = owners[a].step
                       /\ owners'[a].aborted = owners[a].aborted
                       /\ owners'[a].owns = owners[a].owns \ {"schedules"}
  BY <1>1 DEF ShutDown, OwnerTypes, OwnerRecord
<1>3. \A a \in Owner : ActivationGoesOn(a)
  BY <1>2 DEF ActivationGoesOn
<1>4. HandlersGoOn
  BY DEF ShutDown, busVars, HandlersGoOn
<1> QED BY <1>2, <1>3, <1>4 DEF GoOn

(* The kinds of step. *)
LEMMA Steps ==
  ASSUME Next
  PROVE  \/ BootStep \/ StopKernel \/ StopStep
         \/ \E a \in Owner : OwnerStep(a)
         \/ \E k \in Caller : DeactivationStep(k)
         \/ \E t \in Toggle : \/ ToggleStep(t)
                              \/ \E p \in Plugin, enable \in BOOLEAN : SetEnabled(t, p, enable)
         \/ Calls \/ Spawns
  BY DEF Next, Calls, Spawns

LEMMA BootGoesOn ==
  ASSUME Shape, BootStep
  PROVE  GoOn /\ UNCHANGED <<current, tasks, handlers>>
<1>1. OwnerTypes /\ RegistryTypes /\ boot.next \in 1 .. Len(Order) + 1
  BY TypeParts DEF Shape, CoreTypes, BootRecord
<1>2. UNCHANGED <<tasks, handlers>>
  BY DEF BootStep, Start, Bootstrapped, ReadDisabled, ActivateNext, Started, busVars
<1>3. ASSUME NEW p \in Plugin, NEW a \in Owner, Activate(p, a)
      PROVE  GoOn /\ UNCHANGED current
  BY <1>1, <1>2, <1>3, ActivateGoesOn DEF Activate
<1>4. CASE UNCHANGED <<owners, current>>
  BY <1>2, <1>4, UnchangedGoOn
<1>5. CASE Start
  <2>1. \E a \in Owner : Activate(Bootstrap[1], a)
    BY <1>5 DEF Start
  <2>2. Bootstrap[1] \in Plugin
    BY OrderIsOfPlugins
  <2> QED BY <1>2, <1>3, <2>1, <2>2
<1>6. CASE Bootstrapped
  <2>1. \/ UNCHANGED <<owners, current>>
        \/ /\ boot.next < Len(Bootstrap)
           /\ \E a \in Owner : Activate(Bootstrap[boot.next + 1], a)
    BY <1>6 DEF Bootstrapped, registry
  <2>2. boot.next < Len(Bootstrap) => Bootstrap[boot.next + 1] \in Plugin
    BY <1>1, OrderIsOfPlugins
  <2> QED BY <1>2, <1>3, <1>4, <2>1, <2>2
<1>7. CASE ReadDisabled \/ Started
  BY <1>4, <1>7 DEF ReadDisabled, Started, registry
<1>8. CASE ActivateNext
  <2>1. Ordinary[boot.next] \in Plugin
    BY <1>1, <1>8, OrderIsOfPlugins DEF ActivateNext
  <2>2. \/ UNCHANGED <<owners, current>>
        \/ \E a \in Owner : Activate(Ordinary[boot.next], a)
    BY <1>8 DEF ActivateNext
  <2> QED BY <1>2, <1>3, <1>4, <2>1, <2>2
<1> QED BY <1>2, <1>5, <1>6, <1>7, <1>8 DEF BootStep

LEMMA ToggleGoesOn ==
  ASSUME Shape, NEW t \in Toggle,
         ToggleStep(t) \/ \E p \in Plugin, enable \in BOOLEAN : SetEnabled(t, p, enable)
  PROVE  GoOn /\ UNCHANGED current
<1>1. OwnerTypes /\ RegistryTypes /\ TypeOK /\ ActivationsAreKnown /\ t \in Caller
  BY TypeParts DEF Shape, Caller
<1>2. tasks[t].step = "written" => tasks[t].plugin \in Plugin
  BY <1>1 DEF Shape, TasksAreKnown
<1>3. CASE UNCHANGED <<owners, handlers, current>>
  BY <1>3, UnchangedGoOn
<1>4. CASE Enable(t)
  <2>1. \/ UNCHANGED <<owners, handlers, current>>
        \/ /\ \E a \in Owner : Activate(tasks[t].plugin, a)
           /\ UNCHANGED handlers
    BY <1>4 DEF Enable, registry, busVars
  <2>2. ASSUME NEW a \in Owner, Activate(tasks[t].plugin, a), UNCHANGED handlers
        PROVE  GoOn /\ UNCHANGED current
    <3>1. tasks[t].plugin \in Plugin
      BY <1>2, <1>4 DEF Enable
    <3> QED BY <1>1, <2>2, <3>1, ActivateGoesOn DEF Activate
  <2> QED BY <1>3, <2>1, <2>2
<1>5. CASE Disable(t)
  <2>1. \/ UNCHANGED <<owners, handlers, current>>
        \/ current[tasks[t].plugin] # NoOwner /\ BeginDeactivation(t, tasks[t].plugin)
    BY <1>5 DEF Disable, busVars
  <2>2. CASE current[tasks[t].plugin] # NoOwner /\ BeginDeactivation(t, tasks[t].plugin)
    <3>1. tasks[t].plugin \in Plugin
      BY <1>2, <1>5 DEF Disable
    <3>2. UNCHANGED current
      BY <2>2 DEF BeginDeactivation
    <3> QED BY <1>1, <2>2, <3>1, <3>2, BeginGoesOn
  <2> QED BY <1>3, <2>1, <2>2
<1>6. CASE WriteEnds(t) \/ EnableEnds(t) \/ \E p \in Plugin, enable \in BOOLEAN : SetEnabled(t, p, enable)
  BY <1>3, <1>6 DEF WriteEnds, EnableEnds, SetEnabled, registry, busVars
<1> QED BY <1>4, <1>5, <1>6 DEF ToggleStep

LEMMA StopGoesOn ==
  ASSUME Shape, StopStep \/ StopKernel
  PROVE  GoOn /\ UNCHANGED current
<1>1. OwnerTypes /\ RegistryTypes /\ TypeOK /\ ActivationsAreKnown /\ Stop \in Caller
      /\ stopList \in Seq(Plugin)
  BY TypeParts DEF Shape, Caller, CoreTypes
<1>2. CASE UNCHANGED <<owners, handlers, current>>
  BY <1>2, UnchangedGoOn
<1>3. CASE StopNext
  <2>1. \/ UNCHANGED <<owners, handlers, current>>
        \/ current[Head(stopList)] # NoOwner /\ BeginDeactivation(Stop, Head(stopList))
    BY <1>3 DEF StopNext, registry, busVars
  <2>2. Head(stopList) \in Plugin
    BY <1>1, <1>3 DEF StopNext
  <2>3. CASE current[Head(stopList)] # NoOwner /\ BeginDeactivation(Stop, Head(stopList))
    <3>1. UNCHANGED current
      BY <2>3 DEF BeginDeactivation
    <3> QED BY <1>1, <2>2, <2>3, <3>1, BeginGoesOn
  <2> QED BY <1>2, <2>1, <2>3
<1>4. CASE ShutDown
  BY <1>4, ShutDownGoesOn DEF ShutDown, registry
<1>5. CASE Stopped \/ StopKernel
  BY <1>2, <1>5 DEF Stopped, StopKernel, registry, busVars
<1> QED BY <1>3, <1>4, <1>5 DEF StopStep

LEMMA NextGoesOn ==
  ASSUME Shape, Next PROVE GoOn
<1>1. ASSUME NEW k \in Caller, DeactivationStep(k) PROVE UNCHANGED <<owners, handlers>>
  BY <1>1 DEF DeactivationStep, ProcessesEnd, OperationsEnd, DeactivationEnds, Unwind, busVars
<1>2. ASSUME Calls \/ Spawns PROVE UNCHANGED <<owners, handlers>>
  BY <1>2, CallTypes DEF HostUnchanged
<1> QED BY <1>1, <1>2, Steps, BootGoesOn, ToggleGoesOn, StopGoesOn, OwnerStepGoesOn, UnchangedGoOn

(* What is current becomes so in the commit of its activation. *)
CurrentGoesOn ==
  \A p \in Plugin : \/ current'[p] \in {current[p], NoOwner}
                    \/ \E a \in Owner : Commit(a) /\ owners[a].plugin = p /\ current'[p] = a

LEMMA NextCurrent ==
  ASSUME Shape, Next PROVE CurrentGoesOn
<1>1. RegistryTypes
  BY TypeParts DEF Shape
<1>2. CASE UNCHANGED current
  BY <1>2 DEF CurrentGoesOn
<1>3. ASSUME NEW a \in Owner, OwnerStep(a) PROVE CurrentGoesOn
  <2>1. CASE Commit(a)
    BY <1>1, <2>1 DEF Commit, RegistryTypes, CurrentGoesOn
  <2>2. CASE ~Commit(a)
    BY <1>2, <1>3, <2>2 DEF OwnerStep, Fail, FailedProcessesEnd, FailureEnds, registry
  <2> QED BY <2>1, <2>2
<1>4. ASSUME NEW k \in Caller, DeactivationStep(k) PROVE CurrentGoesOn
  BY <1>1, <1>4 DEF DeactivationStep, ProcessesEnd, OperationsEnd, DeactivationEnds, Unwind, registry,
     RegistryTypes, CurrentGoesOn
<1>5. ASSUME Calls \/ Spawns PROVE UNCHANGED current
  BY <1>5, CallTypes DEF HostUnchanged, registry
<1> QED BY <1>2, <1>3, <1>4, <1>5, Steps, BootGoesOn, ToggleGoesOn, StopGoesOn

LEMMA NextBoot ==
  ASSUME Shape, Next
  PROVE  boot'.step = "bootstrap" => boot'.awaits \in Owner /\ boot'.next <= Len(Bootstrap)
<1>1. boot \in BootRecord /\ ActivationsAreKnown /\ boot.next \in Nat
  BY TypeParts DEF Shape, CoreTypes, BootRecord
<1>2. CASE UNCHANGED boot
  BY <1>1, <1>2 DEF ActivationsAreKnown
<1>3. ASSUME BootStep
      PROVE  boot'.step = "bootstrap" => boot'.awaits \in Owner /\ boot'.next <= Len(Bootstrap)
  <2>1. CASE Start
    BY <2>1, OrderIsOfPlugins DEF Start, Await
  <2>2. CASE Bootstrapped
    <3>1. CASE StartEnds("failed")
      BY <1>1, <3>1 DEF StartEnds, BootRecord
    <3>2. CASE Await("read", 1, NoOwner)
      BY <3>2 DEF Await
    <3>3. ASSUME NEW a \in Owner, boot.next < Len(Bootstrap), Await("bootstrap", boot.next + 1, a)
          PROVE  boot'.awaits \in Owner /\ boot'.next <= Len(Bootstrap)
      BY <1>1, <3>3, OrderIsOfPlugins DEF Await
    <3> QED BY <2>2, <3>1, <3>2, <3>3 DEF Bootstrapped
  <2>3. CASE ReadDisabled
    <3>1. Await("ordinary", 1, NoOwner) \/ StartEnds("failed")
      BY <2>3 DEF ReadDisabled
    <3>2. StartEnds("failed") => boot'.step = "done"
      BY <1>1 DEF StartEnds, BootRecord
    <3>3. Await("ordinary", 1, NoOwner) => boot'.step = "ordinary"
      BY DEF Await
    <3> QED BY <3>1, <3>2, <3>3
  <2>4. CASE ActivateNext
    BY <2>4 DEF ActivateNext, Await
  <2>5. CASE Started
    BY <1>1, <2>5 DEF Started, StartEnds, BootRecord
  <2> QED BY <1>3, <2>1, <2>2, <2>3, <2>4, <2>5 DEF BootStep
<1>4. ASSUME ~BootStep PROVE UNCHANGED boot
  <2>1. ASSUME NEW a \in Owner, OwnerStep(a) PROVE UNCHANGED boot
    BY <2>1 DEF OwnerStep, Commit, Fail, FailedProcessesEnd, FailureEnds, core
  <2>2. ASSUME NEW k \in Caller, DeactivationStep(k) PROVE UNCHANGED boot
    BY <2>2 DEF DeactivationStep, ProcessesEnd, OperationsEnd, DeactivationEnds, Unwind, core
  <2>3. ASSUME NEW t \in Toggle, \/ ToggleStep(t)
                                \/ \E p \in Plugin, enable \in BOOLEAN : SetEnabled(t, p, enable)
        PROVE  UNCHANGED boot
    BY <2>3 DEF ToggleStep, WriteEnds, Enable, EnableEnds, Disable, SetEnabled, core
  <2>4. ASSUME StopKernel \/ StopStep PROVE UNCHANGED boot
    BY <2>4 DEF StopKernel, StopStep, StopNext, ShutDown, Stopped, core
  <2>5. ASSUME Calls \/ Spawns PROVE UNCHANGED boot
    BY <2>5, CallTypes DEF HostUnchanged, core
  <2> QED BY <1>4, <2>1, <2>2, <2>3, <2>4, <2>5, Steps
<1> QED BY <1>2, <1>3, <1>4

LEMMA ActivationsAreKnownNext ==
  ASSUME Shape, Next PROVE ActivationsAreKnown'
<1>1. /\ ActivationsAreKnown /\ OwnerTypes /\ RegistryTypes /\ NoOwner \notin Owner
  BY TypeParts, BusAssumption DEF Shape
<1>2. GoOn /\ CurrentGoesOn
  BY NextGoesOn, NextCurrent
<1>3. ASSUME NEW a \in Owner, owners'[a].step # "free" PROVE owners'[a].plugin \in Plugin
  BY <1>1, <1>2, <1>3 DEF ActivationsAreKnown, GoOn, ActivationGoesOn
<1>4. ASSUME NEW p \in Plugin, current'[p] # NoOwner
      PROVE  owners'[current'[p]].plugin = p /\ owners'[current'[p]].step = "committed"
  <2>1. CASE current'[p] = current[p]
    <3>1. current[p] \in Owner /\ owners[current[p]].plugin = p
          /\ owners[current[p]].step = "committed"
      BY <1>1, <1>4, <2>1 DEF RegistryTypes, ActivationsAreKnown
    <3>2. ActivationGoesOn(current[p])
      BY <1>2, <3>1 DEF GoOn
    <3> QED BY <2>1, <3>1, <3>2 DEF ActivationGoesOn
  <2>2. ASSUME NEW a \in Owner, Commit(a), owners[a].plugin = p, current'[p] = a
        PROVE  owners'[current'[p]].plugin = p /\ owners'[current'[p]].step = "committed"
    BY <1>1, <2>2 DEF Commit, OwnerTypes, OwnerRecord
  <2> QED BY <1>2, <1>4, <2>1, <2>2 DEF CurrentGoesOn
<1> QED BY <1>3, <1>4, NextBoot DEF ActivationsAreKnown

(* A caller is known, by what it deactivates. *)
TaskKnown(k) ==
  /\ tasks[k].step \in Unwinding \cup {"writing", "written"} => tasks[k].plugin \in Plugin
  /\ tasks[k].step \in Unwinding \cup {"activation"} => tasks[k].owner \in Owner
  /\ tasks[k].step \in Unwinding =>
       LET a == tasks[k].owner
       IN  /\ owners[a].plugin = tasks[k].plugin
           /\ owners[a].aborted /\ owners[a].step = "committed"
           /\ \A c \in Command : handlers[c] # a

(* A caller goes on with the plugin and the activation it is about. *)
TaskKeeps(k) ==
  /\ tasks'[k].plugin = tasks[k].plugin /\ tasks'[k].owner = tasks[k].owner
  /\ \/ tasks'[k].step = tasks[k].step
     \/ tasks'[k].step \in Unwinding /\ tasks[k].step \in Unwinding
     \/ tasks'[k].step = "written" /\ tasks[k].step = "writing"

LEMMA TaskStays ==
  ASSUME Shape, GoOn, NEW k \in Caller, TaskKeeps(k) PROVE TaskKnown(k)'
<1>1. TaskKnown(k)
  BY DEF Shape, TasksAreKnown, TaskKnown
<1>2. /\ tasks'[k].step \in Unwinding \cup {"writing", "written"} => tasks'[k].plugin \in Plugin
      /\ tasks'[k].step \in Unwinding \cup {"activation"} => tasks'[k].owner \in Owner
  BY <1>1 DEF TaskKnown, TaskKeeps, Unwinding
<1>3. ASSUME tasks'[k].step \in Unwinding
      PROVE  /\ owners'[tasks'[k].owner].plugin = tasks'[k].plugin
             /\ owners'[tasks'[k].owner].aborted /\ owners'[tasks'[k].owner].step = "committed"
             /\ \A c \in Command : handlers'[c] # tasks'[k].owner
  <2> DEFINE a == tasks[k].owner
  <2>1. /\ a \in Owner /\ owners[a].plugin = tasks[k].plugin /\ owners[a].aborted
        /\ owners[a].step = "committed" /\ \A c \in Command : handlers[c] # a
    BY <1>1, <1>3 DEF TaskKnown, TaskKeeps, Unwinding
  <2>2. tasks'[k].owner = a /\ tasks'[k].plugin = tasks[k].plugin
    BY DEF TaskKeeps
  <2>3. ActivationGoesOn(a) /\ HandlersGoOn /\ a # NoOwner
    BY <2>1, BusAssumption DEF GoOn
  <2> HIDE DEF a
  <2>4. owners'[a].plugin = owners[a].plugin /\ owners'[a].aborted /\ owners'[a].step = "committed"
    BY <2>1, <2>3 DEF ActivationGoesOn
  <2>5. \A c \in Command : handlers'[c] # a
    BY <2>1, <2>3 DEF HandlersGoOn
  <2> QED BY <2>1, <2>2, <2>4, <2>5
<1> QED BY <1>2, <1>3 DEF TaskKnown

(* A caller that has nothing under way, or awaits an activation. *)
LEMMA TaskRests ==
  ASSUME NEW k \in Caller, tasks'[k].step \in {"idle", "next", "shutdown", "done"}
  PROVE  TaskKnown(k)'
  BY DEF TaskKnown, Unwinding

LEMMA BegunTask ==
  ASSUME Shape, NEW k \in Caller, NEW p \in Plugin, current[p] # NoOwner,
         BeginDeactivation(k, p), NEW j \in Caller
  PROVE  TaskKnown(j)'
<1>1. TypeOK /\ ActivationsAreKnown /\ OwnerTypes /\ BusTypeOK
  BY TypeParts DEF Shape
<1> DEFINE a == current[p]
<1>2. /\ a \in Owner /\ AbortOwner(a, "committed", owners[a].owns, Kinds)
      /\ tasks'[k] = [NoTask EXCEPT !.step = "processes", !.plugin = p, !.owner = a]
      /\ \A i \in Caller : i # k => tasks'[i] = tasks[i]
      /\ handlers' = Without(Of(p))
  BY <1>1, BeginTypes
<1>3. owners[a].plugin = p /\ owners[a].step = "committed" /\ a # NoOwner
  BY <1>1, <1>2 DEF ActivationsAreKnown
<1>4. GoOn
  BY <1>1, BeginGoesOn
<1> HIDE DEF a
<1>5. CASE j # k
  BY <1>2, <1>4, <1>5, TaskStays DEF TaskKeeps
<1>6. CASE j = k
  <2>1. tasks'[k].step = "processes" /\ tasks'[k].plugin = p /\ tasks'[k].owner = a
    BY <1>2 DEF NoTask
  <2>2. Has(a, p, TRUE, "committed", owners[a].owns \ Kinds)
    <3>1. owners[a].owns \in SUBSET Kinds /\ "committed" \in OwnerSteps
      BY <1>1, <1>2 DEF OwnerTypes, OwnerRecord, OwnerSteps
    <3> QED BY <1>1, <1>2, <1>3, <3>1, AbortedOwner
  <2>3. owners'[a].plugin = p /\ owners'[a].aborted /\ owners'[a].step = "committed"
    BY <2>2 DEF Has
  <2>4. \A c \in Command : handlers'[c] # a
    BY <1>2, <1>3 DEF Without, Of
  <2> QED BY <1>2, <1>6, <2>1, <2>3, <2>4 DEF TaskKnown
<1> QED BY <1>5, <1>6

LEMMA TasksAreKnownNext ==
  ASSUME Shape, Next PROVE TasksAreKnown'
<1>1. /\ GoOn /\ TaskTypes /\ OwnerTypes
      /\ \A k \in Caller : TaskKnown(k) /\ tasks[k] \in TaskRecord
  BY NextGoesOn, TypeParts DEF Shape, TasksAreKnown, TaskKnown, TaskTypes
<1> SUFFICES ASSUME NEW j \in Caller PROVE TaskKnown(j)'
  BY DEF TasksAreKnown, TaskKnown
<1>2. CASE tasks'[j] = tasks[j]
  BY <1>1, <1>2, TaskStays DEF TaskKeeps
<1>3. CASE UNCHANGED tasks
  BY <1>2, <1>3
<1>4. ASSUME NEW a \in Owner, OwnerStep(a) PROVE UNCHANGED tasks
  BY <1>4 DEF OwnerStep, Commit, Fail, FailedProcessesEnd, FailureEnds
<1>5. ASSUME Calls \/ Spawns PROVE UNCHANGED tasks
  BY <1>5, CallTypes DEF HostUnchanged
<1>6. ASSUME NEW k \in Caller, DeactivationStep(k) PROVE TaskKnown(j)'
  <2>1. ASSUME NEW step \in Unwinding, NEW late, NEW waits, Unwind(k, step, late, waits),
               tasks[k].step \in Unwinding
        PROVE  TaskKnown(j)'
    <3>1. CASE j = k
      <4>1. TaskKeeps(k)
        BY <1>1, <2>1 DEF Unwind, TaskKeeps, TaskTypes, TaskRecord
      <4> QED BY <1>1, <3>1, <4>1, TaskStays
    <3>2. CASE j # k
      BY <1>1, <1>2, <2>1, <3>2 DEF Unwind, TaskTypes
    <3> QED BY <3>1, <3>2
  <2>2. CASE ProcessesEnd(k)
    BY <2>1, <2>2 DEF ProcessesEnd, Unwinding
  <2>3. CASE OperationsEnd(k)
    BY <2>1, <2>3 DEF OperationsEnd, Unwinding
  <2>4. CASE DeactivationEnds(k)
    <3>1. CASE j = k
      <4>1. tasks'[k].step \in {"next", "done"}
        BY <1>1, <2>4, TaskRecords DEF DeactivationEnds, TaskTypes, TaskRecord
      <4> QED BY <3>1, <4>1, TaskRests
    <3>2. CASE j # k
      BY <1>1, <1>2, <2>4, <3>2 DEF DeactivationEnds, TaskTypes
    <3> QED BY <3>1, <3>2
  <2> QED BY <1>6, <2>2, <2>3, <2>4 DEF DeactivationStep
<1>7. ASSUME NEW t \in Toggle, ToggleStep(t) \/ \E p \in Plugin, enable \in BOOLEAN : SetEnabled(t, p, enable)
      PROVE  TaskKnown(j)'
  <2>1. t \in Caller
    BY DEF Caller
  <2>2. CASE UNCHANGED tasks
    BY <1>3, <2>2
  <2>3. CASE tasks' = [tasks EXCEPT ![t] = Done]
    BY <1>1, <1>2, <2>1, <2>3, TaskRests, TaskRecords DEF TaskTypes
  <2>4. ASSUME NEW p \in Plugin, NEW enable \in BOOLEAN, SetEnabled(t, p, enable)
        PROVE  TaskKnown(j)'
    <3>1. CASE j = t
      <4>1. tasks'[t].step = "writing" /\ tasks'[t].plugin = p
        BY <1>1, <2>1, <2>4 DEF SetEnabled, TaskTypes, NoTask
      <4> QED BY <3>1, <4>1 DEF TaskKnown, Unwinding
    <3>2. CASE j # t
      BY <1>1, <1>2, <2>1, <2>4, <3>2 DEF SetEnabled, TaskTypes
    <3> QED BY <3>1, <3>2
  <2>5. CASE WriteEnds(t)
    <3>1. CASE tasks' = [tasks EXCEPT ![t].step = "written"]
      <4>1. CASE j = t
        <5>1. TaskKeeps(t)
          BY <1>1, <2>1, <2>5, <3>1 DEF WriteEnds, TaskKeeps, TaskTypes, TaskRecord
        <5> QED BY <1>1, <2>1, <4>1, <5>1, TaskStays
      <4>2. CASE j # t
        BY <1>1, <1>2, <2>1, <3>1, <4>2 DEF TaskTypes
      <4> QED BY <4>1, <4>2
    <3> QED BY <2>3, <2>5, <3>1 DEF WriteEnds
  <2>6. CASE Enable(t)
    <3>1. ASSUME NEW a \in Owner,
                 tasks' = [tasks EXCEPT ![t] = [NoTask EXCEPT !.step = "activation", !.owner = a]]
          PROVE  TaskKnown(j)'
      <4>1. CASE j = t
        <5>1. tasks'[t].step = "activation" /\ tasks'[t].owner = a
          BY <1>1, <2>1, <3>1 DEF TaskTypes, NoTask
        <5> QED BY <4>1, <5>1 DEF TaskKnown, Unwinding
      <4>2. CASE j # t
        BY <1>1, <1>2, <2>1, <3>1, <4>2 DEF TaskTypes
      <4> QED BY <4>1, <4>2
    <3> QED BY <2>3, <2>6, <3>1 DEF Enable
  <2>7. CASE EnableEnds(t)
    BY <2>3, <2>7 DEF EnableEnds
  <2>8. CASE Disable(t)
    <3>1. tasks[t].plugin \in Plugin
      BY <1>1, <2>1, <2>8 DEF Disable, TaskKnown
    <3> QED BY <2>1, <2>3, <2>8, <3>1, BegunTask DEF Disable
  <2> QED BY <1>7, <2>4, <2>5, <2>6, <2>7, <2>8 DEF ToggleStep
<1>8. ASSUME StopStep \/ StopKernel PROVE TaskKnown(j)'
  <2>1. Stop \in Caller /\ stopList \in Seq(Plugin)
    BY TypeParts DEF Caller, Shape, CoreTypes
  <2>2. ASSUME NEW step \in {"next", "shutdown", "done"}, tasks' = [tasks EXCEPT ![Stop].step = step]
        PROVE  TaskKnown(j)'
    <3>1. CASE j = Stop
      <4>1. tasks'[j].step = step
        BY <1>1, <2>1, <2>2, <3>1 DEF TaskTypes, TaskRecord
      <4> QED BY <4>1, TaskRests
    <3>2. CASE j # Stop
      BY <1>1, <1>2, <2>1, <2>2, <3>2 DEF TaskTypes
    <3> QED BY <3>1, <3>2
  <2>3. CASE StopNext
    <3>1. Head(stopList) \in Plugin
      BY <2>1, <2>3 DEF StopNext
    <3> QED BY <1>3, <2>1, <2>3, <3>1, BegunTask DEF StopNext
  <2>4. CASE ShutDown \/ Stopped \/ StopKernel
    BY <2>2, <2>4 DEF ShutDown, Stopped, StopKernel
  <2> QED BY <1>8, <2>3, <2>4 DEF StopStep
<1> QED BY <1>3, <1>4, <1>5, <1>6, <1>7, <1>8, Steps, BootGoesOn

LEMMA ShapeNext ==
  ASSUME Shape, [Next]_vars PROVE Shape'
<1>1. CASE Next
  <2>1. TypeOK'
    BY <1>1, Steps, BootTypes, StopTypes, OwnerStepTypes, DeactivationTypes, ToggleTypes, CallTypes
  <2> QED BY <1>1, <2>1, ActivationsAreKnownNext, TasksAreKnownNext DEF Shape
<1>2. CASE UNCHANGED vars
  <2>1. UNCHANGED <<kernel, boot, stopList, records, current, order, disabled, stored, owners, tasks,
                    overlap, handlers, invocations, children, supervising>>
    BY <1>2 DEF vars, core, registry, choices, busVars, processVars
  <2>2. TypeOK'
    BY <2>1 DEF Shape, TypeOK, BusTypeOK, ProcessTypeOK
  <2>3. ActivationsAreKnown' /\ TasksAreKnown'
    BY <2>1 DEF Shape, ActivationsAreKnown, TasksAreKnown
  <2> QED BY <2>2, <2>3 DEF Shape
<1> QED BY <1>1, <1>2

LEMMA ShapeInit ==
  ASSUME Init PROVE Shape
<1>1. PICK mix \in Mixes :
        /\ BusInit(mix) /\ ProcessInit(mix)
        /\ tasks = [k \in Caller |-> IF k \in mix \cup {Stop} THEN NoTask ELSE Done]
  BY DEF Init
<1>2. CoreTypes /\ RegistryTypes /\ overlap \in BOOLEAN
  <2>1. 1 \in 1 .. Len(Order) + 1
    BY OrderIsOfPlugins
  <2>2. boot \in BootRecord
    BY <2>1 DEF Init, BootRecord
  <2>3. stopList \in Seq(Plugin) /\ order \in Seq(Plugin)
    BY DEF Init
  <2> QED BY <2>2, <2>3 DEF Init, CoreTypes, RegistryTypes, RecordStates, KernelStates
<1>3. ChoiceTypes
  BY LifecycleAssumption DEF Init, ChoiceTypes
<1>4. OwnerTypes
  BY DEF Init, OwnerTypes, OwnerRecord, OwnerSteps, Kinds
<1>5. TaskTypes /\ \A k \in Caller : tasks[k].step \in {"idle", "done"}
  BY <1>1, TaskRecords DEF TaskTypes
<1>6. BusTypeOK
  <2>1. NoInvocation \in InvocationRecord /\ Answered \in InvocationRecord
    BY DEF NoInvocation, Answered, InvocationRecord
  <2> QED BY <1>1, <2>1, BusParts DEF BusInit
<1>7. ProcessTypeOK
  <2>1. NoChild \in ChildRecord /\ Gone \in ChildRecord
    BY DEF NoChild, Gone, ChildRecord
  <2> QED BY <1>1, <2>1, ProcessParts DEF ProcessInit
<1>8. TypeOK
  BY <1>2, <1>3, <1>4, <1>5, <1>6, <1>7, TypeParts
<1>9. ActivationsAreKnown
  BY DEF Init, ActivationsAreKnown
<1>10. TasksAreKnown
  BY <1>5 DEF TasksAreKnown, Unwinding
<1> QED BY <1>8, <1>9, <1>10 DEF Shape

(* Kernel, plugins, activations, callers, calls and children keep to their sets  *)
(* of values, for any plugins, calls and children and however starts, stops and  *)
(* changes of the settings overlap (plugin-manager.ts, create-kernel.ts).        *)
THEOREM HostTypeCorrect == Spec => []TypeOK
<1>1. Spec => []Shape
  BY ShapeInit, ShapeNext, PTL DEF Spec
<1>2. Shape => TypeOK
  BY DEF Shape
<1> QED BY <1>1, <1>2, PTL

(******************************* Signals heard ********************************)

(* Activations and operations that have ended early. *)
EndedEarly == AbortedOwners \cup {i \in Invocation : invocations[i].caller = "expired"}

CallsHear ==
  \A i \in Invocation :
    invocations[i].active =>
      /\ invocations[i].running /\ invocations[i].caller = "waiting"
      /\ {invocations[i].owner, invocations[i].from} \cap AbortedOwners = {}

(* A child of what has ended is not registered, and will not be: its spawn has   *)
(* been told.                                                                   *)
ChildHears(child, ended) ==
  child.parents \cap ended # {} =>
    /\ child.step # "owned"
    /\ child.step = "spawning" => child.sent = "SIGKILL" /\ child.told

ChildrenHear == \A c \in Child : ChildHears(children[c], EndedEarly)

SignalsInv == CallsHear /\ ChildrenHear


(* Children told of an end, or closed. *)
LEMMA ToldChildren ==
  ASSUME ProcessTypeOK, NEW sources, NEW closed, AbortChildren(sources, closed), NEW c \in Child
  PROVE  /\ children'[c].parents = children[c].parents
         /\ children'[c].step \in {"spawning", "reaping"} => children'[c].step = children[c].step
         /\ children[c].parents \cap sources # {} => \A ended : ChildHears(children'[c], ended)
         /\ \A ended : ChildHears(children[c], ended) => ChildHears(children'[c], ended)
<1>1. children[c] \in ChildRecord
  BY ProcessParts
<1>2. children'[c] = IF children[c].parents \cap sources # {} THEN Told(children[c])
                     ELSE IF c \in closed THEN Closed(children[c]) ELSE children[c]
  BY DEF AbortChildren
<1>3. CASE children[c].parents \cap sources # {}
  <2>1. children'[c] = Told(children[c])
    BY <1>2, <1>3
  <2> QED BY <1>1, <1>3, <2>1, ToldChild DEF ChildHears, ChildRecord, Ending
<1>4. CASE children[c].parents \cap sources = {}
  <2>1. children'[c] \in {Closed(children[c]), children[c]}
    BY <1>2, <1>4
  <2>2. ASSUME children'[c] = Closed(children[c])
        PROVE  /\ children'[c].parents = children[c].parents
               /\ children'[c].step \in {"spawning", "reaping"} => children'[c].step = children[c].step
               /\ \A ended : ChildHears(children[c], ended) => ChildHears(children'[c], ended)
    BY <1>1, <2>2, ClosedChild DEF ChildHears
  <2> QED BY <1>4, <2>1, <2>2
<1> QED BY <1>3, <1>4

LEMMA AbortHeard ==
  ASSUME OwnerTypes, BusTypeOK, ProcessTypeOK, SignalsInv, NEW a \in Owner, NEW step \in OwnerSteps,
         NEW had \in SUBSET Kinds, NEW kinds \in SUBSET Kinds, AbortOwner(a, step, had, kinds)
  PROVE  SignalsInv'
<1> DEFINE expired == {i \in Invocation : /\ invocations[i].from = a
                                          /\ invocations[i].caller = "waiting"}
<1>1. \A i \in Invocation : invocations[i] \in InvocationRecord
                           /\ invocations'[i] = AfterAbort(invocations[i], a)
  BY BusParts DEF AbortOwner
<1>2. AbortedOwners' = AbortedOwners \cup {a}
  <2>1. \A b \in Owner : owners'[b].aborted = (owners[b].aborted \/ b = a)
    <3> SUFFICES ASSUME NEW b \in Owner PROVE owners'[b].aborted = (owners[b].aborted \/ b = a)
      OBVIOUS
    <3>0. owners[b].aborted \in BOOLEAN
      BY DEF OwnerTypes, OwnerRecord
    <3>1. CASE owners[b].plugin # owners[a].plugin
      BY <3>0, <3>1, AbortedOwner
    <3>2. CASE owners[b].plugin = owners[a].plugin /\ b # a
      <4>1. Has(b, owners[b].plugin, owners[b].aborted, owners[b].step, owners[b].owns \ kinds)
        BY <3>2, AbortedOwner
      <4> QED BY <3>0, <3>2, <4>1 DEF Has
    <3>3. CASE b = a
      <4>1. Has(a, owners[a].plugin, TRUE, step, had \ kinds)
        BY AbortedOwner
      <4>2. owners'[a].aborted
        BY <4>1 DEF Has
      <4> QED BY <3>3, <4>2
    <3> QED BY <3>1, <3>2, <3>3
  <2> QED BY <2>1 DEF AbortedOwners
<1>3. EndedEarly' = EndedEarly \cup {a} \cup expired
  BY <1>1, <1>2, AbortedCall DEF EndedEarly
<1>4. CallsHear'
  <2> SUFFICES ASSUME NEW i \in Invocation, invocations'[i].active
               PROVE  /\ invocations'[i].running /\ invocations'[i].caller = "waiting"
                      /\ {invocations'[i].owner, invocations'[i].from} \cap AbortedOwners' = {}
    BY DEF CallsHear
  <2>1. /\ invocations[i].active /\ invocations[i].owner # a
        /\ invocations[i].from = a => invocations[i].caller # "waiting"
        /\ invocations'[i].from = invocations[i].from /\ invocations'[i].owner = invocations[i].owner
        /\ invocations'[i].running = invocations[i].running
        /\ invocations'[i].caller = IF invocations[i].from = a /\ invocations[i].caller = "waiting"
                                    THEN "expired" ELSE invocations[i].caller
    BY <1>1, AbortedCall
  <2>2. /\ invocations[i].running /\ invocations[i].caller = "waiting"
        /\ {invocations[i].owner, invocations[i].from} \cap AbortedOwners = {}
    BY <2>1 DEF SignalsInv, CallsHear
  <2> QED BY <1>2, <2>1, <2>2
<1>5. ChildrenHear'
  <2> SUFFICES ASSUME NEW c \in Child PROVE ChildHears(children'[c], EndedEarly')
    BY DEF ChildrenHear, ChildHears
  <2>1. AbortChildren({a} \cup expired, ChildrenOf(Of(owners[a].plugin)))
    BY DEF AbortOwner
  <2>2. ChildHears(children[c], EndedEarly)
    BY DEF SignalsInv, ChildrenHear
  <2>3. CASE children[c].parents \cap ({a} \cup expired) # {}
    BY <2>1, <2>3, ToldChildren
  <2>4. CASE children[c].parents \cap ({a} \cup expired) = {}
    <3>1. ChildHears(children'[c], EndedEarly) /\ children'[c].parents = children[c].parents
      BY <2>1, <2>2, ToldChildren
    <3> QED BY <1>3, <2>4, <3>1 DEF ChildHears
  <2> QED BY <2>3, <2>4
<1> QED BY <1>4, <1>5 DEF SignalsInv

(* Nothing that has ended goes on, and nothing else ends. *)
LEMMA HeardStays ==
  ASSUME SignalsInv, AbortedOwners' = AbortedOwners, UNCHANGED <<invocations, children>>
  PROVE  SignalsInv'
<1>1. EndedEarly' = EndedEarly
  BY DEF EndedEarly
<1>2. ChildrenHear'
  BY <1>1 DEF SignalsInv, ChildrenHear, ChildHears
<1>3. CallsHear'
  BY DEF SignalsInv, CallsHear
<1> QED BY <1>2, <1>3 DEF SignalsInv

LEMMA CallsHeard ==
  ASSUME Shape, SignalsInv, Calls
  PROVE  SignalsInv'
<1>1. /\ BusTypeOK /\ ProcessTypeOK /\ OwnerTypes
      /\ \A i \in Invocation : invocations[i] \in InvocationRecord
  BY TypeParts, BusParts DEF Shape
<1>2. AbortedOwners' = AbortedOwners
  BY CallTypes DEF HostUnchanged, AbortedOwners
<1>3. ASSUME NEW i \in Invocation, NEW call \in InvocationRecord, CallGoes(i, call),
             call.active => /\ call.running /\ call.caller = "waiting"
                            /\ {call.owner, call.from} \cap AbortedOwners = {}
      PROVE  CallsHear'
  <2> SUFFICES ASSUME NEW j \in Invocation, invocations'[j].active
               PROVE  /\ invocations'[j].running /\ invocations'[j].caller = "waiting"
                      /\ {invocations'[j].owner, invocations'[j].from} \cap AbortedOwners' = {}
    BY DEF CallsHear
  <2>1. invocations'[j] = IF j = i THEN call ELSE invocations[j]
    BY <1>1, <1>3, BusParts DEF CallGoes
  <2> QED BY <1>2, <1>3, <2>1 DEF SignalsInv, CallsHear
<1>4. ASSUME NEW i \in Invocation, NEW call \in InvocationRecord, CallGoes(i, call),
             call.caller = "expired" => invocations[i].caller = "expired", UNCHANGED children
      PROVE  ChildrenHear'
  <2>1. \A j \in Invocation : invocations'[j].caller = "expired" => invocations[j].caller = "expired"
    BY <1>1, <1>4, BusParts DEF CallGoes
  <2>2. EndedEarly' \subseteq EndedEarly
    BY <1>2, <2>1 DEF EndedEarly
  <2> QED BY <1>4, <2>2 DEF SignalsInv, ChildrenHear, ChildHears
<1>5. ASSUME NEW i \in Invocation, GiveUp(i) PROVE SignalsInv'
  <2>1. CallGoes(i, Expired(invocations[i])) /\ invocations[i].caller = "waiting"
        /\ AbortChildren({i}, {})
    BY <1>5 DEF GiveUp, Expire, CallGoes
  <2>2. /\ Expired(invocations[i]) \in InvocationRecord /\ ~Expired(invocations[i]).active
        /\ Expired(invocations[i]).caller = "expired"
    BY <1>1, <2>1, ExpiredCall
  <2>3. CallsHear'
    BY <1>3, <2>1, <2>2
  <2>4. EndedEarly' = EndedEarly \cup {i}
    <3>1. \A j \in Invocation : invocations'[j].caller = "expired" <=> invocations[j].caller = "expired" \/ j = i
      BY <1>1, <2>1, <2>2, BusParts DEF CallGoes
    <3> QED BY <1>2, <3>1 DEF EndedEarly
  <2>5. ASSUME NEW c \in Child PROVE ChildHears(children'[c], EndedEarly')
    <3>1. ChildHears(children[c], EndedEarly)
      BY DEF SignalsInv, ChildrenHear
    <3>2. CASE i \in children[c].parents
      BY <1>1, <2>1, <3>2, ToldChildren
    <3>3. CASE i \notin children[c].parents
      <4>1. ChildHears(children'[c], EndedEarly) /\ children'[c].parents = children[c].parents
        BY <1>1, <2>1, <3>1, ToldChildren
      <4> QED BY <2>4, <3>3, <4>1 DEF ChildHears
    <3> QED BY <3>2, <3>3
  <2> QED BY <2>3, <2>5 DEF SignalsInv, ChildrenHear, ChildHears
<1>6. ASSUME NEW i \in Invocation, HandlerSettles(i) PROVE SignalsInv'
  <2>1. UNCHANGED children
    BY <1>6 DEF HandlerSettles, processVars
  <2> QED BY <1>1, <1>3, <1>4, <1>6, <2>1, SettledCall DEF SignalsInv
<1>7. ASSUME NEW i \in Invocation, NEW c \in Command, NEW from \in Owner \cup {NoOwner},
             Invoke(i, c, from)
      PROVE  SignalsInv'
  <2>1. UNCHANGED children /\ from \notin AbortedOwners
    BY <1>7, BusAssumption DEF Invoke, processVars, Usable, AbortedOwners
  <2>2. PICK call \in InvocationRecord :
           /\ CallGoes(i, call)
           /\ call.owner = handlers[c] /\ call.from = from /\ call.caller = "waiting"
           /\ call.running /\ (call.active => handlers[c] \notin AbortedOwners)
    BY <1>1, <1>7, InvokedCall
  <2> QED BY <1>3, <1>4, <2>1, <2>2 DEF SignalsInv
<1> QED BY <1>5, <1>6, <1>7 DEF Calls

LEMMA SpawnsHeard ==
  ASSUME Shape, SignalsInv, Spawns
  PROVE  SignalsInv'
<1>1. /\ BusTypeOK /\ ProcessTypeOK /\ OwnerTypes
      /\ \A c \in Child : children[c] \in ChildRecord
  BY TypeParts, ProcessParts DEF Shape
<1>2. AbortedOwners' = AbortedOwners /\ UNCHANGED invocations
  <2>1. UNCHANGED invocations
    BY DEF Spawns, ProcessStep, SpawnFor, busVars
  <2> QED BY <2>1, CallTypes DEF HostUnchanged, AbortedOwners
<1>3. EndedEarly' = EndedEarly /\ CallsHear'
  BY <1>2 DEF EndedEarly, SignalsInv, CallsHear
<1>4. ASSUME NEW c \in Child, NEW child, ChildGoes(c, child), ChildHears(child, EndedEarly)
      PROVE  SignalsInv'
  <2>1. \A d \in Child : children'[d] = IF d = c THEN child ELSE children[d]
    BY <1>1, <1>4, ProcessParts DEF ChildGoes
  <2> QED BY <1>3, <1>4, <2>1 DEF SignalsInv, ChildrenHear, ChildHears
<1>5. ASSUME NEW c \in Child, ProcessStep(c) PROVE SignalsInv'
  <2>1. PICK child \in ChildRecord :
           /\ ChildGoes(c, child) /\ child.parents \in {children[c].parents, {}}
           /\ child.step # "spawning"
           /\ child.step = "owned" => children[c].step = "spawning" /\ ~children[c].told
    BY <1>1, <1>5, StepOfChild
  <2>2. ChildHears(children[c], EndedEarly)
    BY DEF SignalsInv, ChildrenHear
  <2>3. ChildHears(child, EndedEarly)
    BY <2>1, <2>2 DEF ChildHears
  <2> QED BY <1>4, <2>1, <2>3
<1>6. ASSUME NEW c \in Child, NEW a \in Owner, NEW i \in Invocation \cup {NoOwner}, SpawnFor(c, a, i)
      PROVE  SignalsInv'
  <2>1. a \notin EndedEarly
    BY <1>6, LifecycleAssumption DEF SpawnFor, Usable, EndedEarly, AbortedOwners
  <2>2. PICK parents \in SUBSET Parent : Spawn(c, parents) /\ parents \cap EndedEarly = {}
    <3>1. CASE i \notin Invocation /\ Spawn(c, {a})
      BY <2>1, <3>1, LifecycleAssumption
    <3>2. CASE i \in Invocation /\ invocations[i].active /\ Spawn(c, {a, i})
      <4>1. i \notin EndedEarly
        BY <3>2, LifecycleAssumption DEF SignalsInv, CallsHear, EndedEarly, AbortedOwners
      <4> QED BY <2>1, <3>2, <4>1, LifecycleAssumption
    <3> QED BY <1>6, <3>1, <3>2 DEF SpawnFor
  <2>3. PICK child \in ChildRecord : ChildGoes(c, child) /\ child.parents = parents
    BY <1>1, <2>2, SpawnedChild
  <2>4. ChildHears(child, EndedEarly)
    BY <2>2, <2>3 DEF ChildHears
  <2> QED BY <1>4, <2>3, <2>4
<1> QED BY <1>5, <1>6 DEF Spawns

LEMMA ShutDownHeard ==
  ASSUME Shape, SignalsInv, ShutDown
  PROVE  SignalsInv'
<1>1. ProcessTypeOK /\ \A c \in Child : children[c] \in ChildRecord
  BY TypeParts, ProcessParts DEF Shape
<1>2. AbortedOwners' = AbortedOwners /\ UNCHANGED invocations
  BY ShutDownGoesOn DEF AbortedOwners, ShutDown, busVars
<1>3. EndedEarly' = EndedEarly /\ CallsHear'
  BY <1>2 DEF EndedEarly, SignalsInv, CallsHear
<1>4. ASSUME NEW c \in Child PROVE ChildHears(children'[c], EndedEarly)
  <2>1. children'[c] = Closed(children[c]) /\ ChildHears(children[c], EndedEarly)
    BY DEF ShutDown, SignalsInv, ChildrenHear
  <2> QED BY <1>1, <2>1, ClosedChild DEF ChildHears
<1> QED BY <1>3, <1>4 DEF SignalsInv, ChildrenHear, ChildHears

(* Steps by what they do to activations, calls and children. *)
EndsOne ==
  \E a \in Owner, step \in OwnerSteps, had \in SUBSET Kinds, kinds \in SUBSET Kinds :
    AbortOwner(a, step, had, kinds)

EndsNone == AbortedOwners' = AbortedOwners /\ UNCHANGED <<invocations, children>>

LEMMA BeginEndsOne ==
  ASSUME TypeOK, ActivationsAreKnown, NEW k \in Caller, NEW p \in Plugin, current[p] # NoOwner,
         BeginDeactivation(k, p)
  PROVE  EndsOne
<1>1. OwnerTypes /\ current[p] \in Owner /\ owners[current[p]].owns \in SUBSET Kinds
      /\ owners[current[p]].step \in OwnerSteps
  BY TypeParts DEF RegistryTypes, OwnerTypes, OwnerRecord
<1>2. AbortOwner(current[p], owners[current[p]].step, owners[current[p]].owns, Kinds)
  BY DEF BeginDeactivation, Kinds
<1> QED BY <1>1, <1>2 DEF EndsOne

LEMMA ActivateEndsNone ==
  ASSUME OwnerTypes, RegistryTypes, NEW p \in Plugin, NEW a \in Owner, Activate(p, a),
         UNCHANGED <<invocations, children>>
  PROVE  EndsNone
<1>1. Has(a, p, owners[a].aborted, "activating", owners[a].owns)
      /\ \A b \in Owner : b # a => owners'[b] = owners[b]
  BY ActivateTypes
<1>2. owners'[a].aborted = owners[a].aborted
  BY <1>1 DEF Has
<1>3. \A b \in Owner : owners'[b].aborted = owners[b].aborted
  BY <1>1, <1>2
<1> QED BY <1>3 DEF EndsNone, AbortedOwners

LEMMA Ends ==
  ASSUME Shape, Next
  PROVE  EndsOne \/ EndsNone \/ Calls \/ Spawns \/ ShutDown
<1>1. OwnerTypes /\ RegistryTypes /\ TypeOK /\ ActivationsAreKnown
      /\ boot.next \in 1 .. Len(Order) + 1 /\ stopList \in Seq(Plugin)
  BY TypeParts DEF Shape, CoreTypes, BootRecord
<1>2. ASSUME UNCHANGED <<owners, invocations, children>> PROVE EndsNone
  BY <1>2 DEF EndsNone, AbortedOwners
<1>3. CASE BootStep
  <2>1. UNCHANGED <<invocations, children>>
    BY <1>3 DEF BootStep, Start, Bootstrapped, ReadDisabled, ActivateNext, Started, busVars, processVars
  <2>2. \/ UNCHANGED owners
        \/ \E p \in Plugin, a \in Owner : Activate(p, a)
    <3>1. CASE Start
      BY <3>1, OrderIsOfPlugins DEF Start
    <3>2. CASE Bootstrapped
      <4>1. \/ UNCHANGED owners
            \/ /\ boot.next < Len(Bootstrap)
               /\ \E a \in Owner : Activate(Bootstrap[boot.next + 1], a)
        BY <3>2 DEF Bootstrapped
      <4>2. boot.next < Len(Bootstrap) => Bootstrap[boot.next + 1] \in Plugin
        BY <1>1, OrderIsOfPlugins
      <4> QED BY <4>1, <4>2
    <3>3. CASE ActivateNext
      <4>1. Ordinary[boot.next] \in Plugin
        BY <1>1, <3>3, OrderIsOfPlugins DEF ActivateNext
      <4>2. \/ UNCHANGED owners
            \/ \E a \in Owner : Activate(Ordinary[boot.next], a)
        BY <3>3 DEF ActivateNext
      <4> QED BY <4>1, <4>2
    <3>4. CASE ReadDisabled \/ Started
      BY <3>4 DEF ReadDisabled, Started
    <3> QED BY <1>3, <3>1, <3>2, <3>3, <3>4 DEF BootStep
  <2> QED BY <1>1, <1>2, <2>1, <2>2, ActivateEndsNone
<1>4. ASSUME NEW a \in Owner, OwnerStep(a) PROVE EndsOne \/ EndsNone
  <2>1. CASE Fail(a)
    <3>1. PICK had \in SUBSET Kinds : AbortOwner(a, "processes", had, {"services"})
      BY <2>1 DEF Fail, Kinds
    <3>2. "processes" \in OwnerSteps /\ {"services"} \in SUBSET Kinds
      BY DEF OwnerSteps, Kinds
    <3> QED BY <3>1, <3>2 DEF EndsOne
  <2>2. CASE Commit(a) \/ FailedProcessesEnd(a) \/ FailureEnds(a)
    <3>1. UNCHANGED <<invocations, children>>
      BY <2>2 DEF Commit, FailedProcessesEnd, FailureEnds, busVars, processVars
    <3>2. ASSUME NEW b \in Owner PROVE owners'[b].aborted = owners[b].aborted
      <4>1. owners[b] \in OwnerRecord
        BY <1>1 DEF OwnerTypes
      <4>2. CASE Commit(a)
        BY <1>1, <4>1, <4>2 DEF Commit, OwnerTypes, OwnerRecord
      <4>3. CASE FailedProcessesEnd(a)
        BY <1>1, <4>1, <4>3 DEF FailedProcessesEnd, OwnerTypes, OwnerRecord
      <4>4. CASE FailureEnds(a)
        BY <1>1, <4>1, <4>4 DEF FailureEnds, OwnerTypes, OwnerRecord
      <4> QED BY <2>2, <4>2, <4>3, <4>4
    <3> QED BY <3>1, <3>2 DEF EndsNone, AbortedOwners
  <2> QED BY <1>4, <2>1, <2>2 DEF OwnerStep
<1>5. ASSUME NEW k \in Caller, DeactivationStep(k) PROVE EndsNone
  BY <1>2, <1>5 DEF DeactivationStep, ProcessesEnd, OperationsEnd, DeactivationEnds, Unwind, busVars,
     processVars
<1>6. ASSUME NEW t \in Toggle,
             ToggleStep(t) \/ \E p \in Plugin, enable \in BOOLEAN : SetEnabled(t, p, enable)
      PROVE  EndsOne \/ EndsNone
  <2>1. t \in Caller /\ (tasks[t].step = "written" => tasks[t].plugin \in Plugin)
    BY DEF Shape, TasksAreKnown, Caller
  <2>2. CASE Enable(t)
    <3>1. UNCHANGED <<invocations, children>>
      BY <2>2 DEF Enable, busVars, processVars
    <3>2. UNCHANGED owners \/ \E a \in Owner : Activate(tasks[t].plugin, a)
      BY <2>2 DEF Enable
    <3>3. tasks[t].plugin \in Plugin
      BY <2>1, <2>2 DEF Enable
    <3> QED BY <1>1, <1>2, <3>1, <3>2, <3>3, ActivateEndsNone
  <2>3. CASE Disable(t)
    <3>1. \/ UNCHANGED <<owners, invocations, children>>
          \/ current[tasks[t].plugin] # NoOwner /\ BeginDeactivation(t, tasks[t].plugin)
      BY <2>3 DEF Disable, busVars, processVars
    <3>2. tasks[t].plugin \in Plugin
      BY <2>1, <2>3 DEF Disable
    <3> QED BY <1>1, <1>2, <2>1, <3>1, <3>2, BeginEndsOne
  <2>4. CASE WriteEnds(t) \/ EnableEnds(t) \/ \E p \in Plugin, enable \in BOOLEAN : SetEnabled(t, p, enable)
    BY <1>2, <2>4 DEF WriteEnds, EnableEnds, SetEnabled, busVars, processVars
  <2> QED BY <1>6, <2>2, <2>3, <2>4 DEF ToggleStep
<1>7. CASE StopKernel \/ Stopped
  BY <1>2, <1>7 DEF StopKernel, Stopped, busVars, processVars
<1>8. CASE StopNext
  <2>1. \/ UNCHANGED <<owners, invocations, children>>
        \/ current[Head(stopList)] # NoOwner /\ BeginDeactivation(Stop, Head(stopList))
    BY <1>8 DEF StopNext, busVars, processVars
  <2>2. Head(stopList) \in Plugin /\ Stop \in Caller
    BY <1>1, <1>8 DEF StopNext, Caller
  <2> QED BY <1>1, <1>2, <2>1, <2>2, BeginEndsOne
<1> QED BY <1>3, <1>4, <1>5, <1>6, <1>7, <1>8, Steps DEF StopStep

LEMMA HeardNext ==
  ASSUME Shape, SignalsInv, [Next]_vars PROVE SignalsInv'
<1>1. OwnerTypes /\ BusTypeOK /\ ProcessTypeOK
  BY TypeParts DEF Shape
<1>2. CASE Next
  <2>1. ASSUME EndsOne PROVE SignalsInv'
    BY <1>1, <2>1, AbortHeard DEF EndsOne
  <2>2. ASSUME EndsNone PROVE SignalsInv'
    BY <2>2, HeardStays DEF EndsNone
  <2> QED BY <1>2, <2>1, <2>2, Ends, CallsHeard, SpawnsHeard, ShutDownHeard
<1>3. CASE UNCHANGED vars
  <2>1. UNCHANGED <<owners, invocations, children>>
    BY <1>3 DEF vars, busVars, processVars
  <2> QED BY <2>1, HeardStays DEF AbortedOwners
<1> QED BY <1>2, <1>3

LEMMA HeardInit ==
  ASSUME Init PROVE SignalsInv
<1>1. PICK mix \in Mixes : BusInit(mix) /\ ProcessInit(mix)
  BY DEF Init
<1>2. \A i \in Invocation : ~invocations[i].active
  BY <1>1 DEF BusInit, NoInvocation, Answered
<1>3. \A c \in Child : children[c].parents = {}
  BY <1>1 DEF ProcessInit, NoChild, Gone
<1> QED BY <1>2, <1>3 DEF SignalsInv, CallsHear, ChildrenHear, ChildHears

(* An operation is active only while its caller waits and neither plugin has     *)
(* been stopped, and what a stopped plugin or an operation given up has spawned  *)
(* is being ended (plugin-manager.ts:1639, process-supervisor.ts:99, :119),      *)
(* whichever plugins fail, stop and start again while it runs.                   *)
THEOREM SignalsHeard == Spec => []SignalsAreHeard
<1>1. Init => Shape /\ SignalsInv
  BY ShapeInit, HeardInit
<1>2. Shape /\ SignalsInv /\ [Next]_vars => Shape' /\ SignalsInv'
  BY ShapeNext, HeardNext
<1>3. SignalsInv => SignalsAreHeard
  BY DEF SignalsInv, CallsHear, ChildrenHear, ChildHears, EndedEarly, SignalsAreHeard
<1> QED BY <1>1, <1>2, <1>3, PTL DEF Spec

(************************** What deactivation waits for ***********************)

(* What is left of an activation's operations is waited for, or over.           *)
WaitsForAll ==
  \A k \in Caller :
    /\ tasks[k].step = "operations" => OperationsOf(tasks[k].owner) \subseteq tasks[k].waits
    /\ tasks[k].step = "hook" /\ ~tasks[k].late => OperationsOf(tasks[k].owner) = {}

(* A call or a child that keeps an activation busy. *)
LEMMA OperationOf ==
  ASSUME NEW a, NEW o
  PROVE  o \in OperationsOf(a) <=>
           \/ o \in Invocation /\ invocations[o].running /\ invocations[o].owner = a
           \/ o \in Child /\ a \in children[o].parents /\ children[o].step \in {"spawning", "reaping"}
  BY DEF OperationsOf, RunningFor, ChildrenOf

(* Calls and children that no step has started. *)
NoneBegins(a) ==
  /\ \A i \in Invocation : invocations'[i].running /\ invocations'[i].owner = a =>
                              invocations[i].running /\ invocations[i].owner = a
  /\ \A c \in Child : a \in children'[c].parents /\ children'[c].step \in {"spawning", "reaping"} =>
                       a \in children[c].parents /\ children[c].step \in {"spawning", "reaping"}

LEMMA Shrink ==
  ASSUME NEW a, NoneBegins(a) PROVE OperationsOf(a)' \subseteq OperationsOf(a)
<1>1. ASSUME NEW o, o \in OperationsOf(a)' PROVE o \in OperationsOf(a)
  <2>1. \/ o \in Invocation /\ invocations'[o].running /\ invocations'[o].owner = a
        \/ o \in Child /\ a \in children'[o].parents /\ children'[o].step \in {"spawning", "reaping"}
    BY <1>1 DEF OperationsOf, RunningFor, ChildrenOf
  <2> QED BY <2>1, OperationOf DEF NoneBegins
<1> QED BY <1>1

(* An activation that has ended and handles nothing begins nothing.             *)
LEMMA NoneBeginsNext ==
  ASSUME Shape, Next, NEW a \in Owner, owners[a].aborted, \A c \in Command : handlers[c] # a
  PROVE  NoneBegins(a)
<1>1. /\ OwnerTypes /\ BusTypeOK /\ ProcessTypeOK
      /\ \A i \in Invocation : invocations[i] \in InvocationRecord
      /\ \A c \in Child : children[c] \in ChildRecord
  BY TypeParts, BusParts, ProcessParts DEF Shape
<1>2. ASSUME NEW sources, NEW closed, AbortChildren(sources, closed), NEW c \in Child
      PROVE  /\ children'[c].parents = children[c].parents
             /\ children'[c].step \in {"spawning", "reaping"} => children'[c].step = children[c].step
  BY <1>1, <1>2, ToldChildren
<1>3. CASE EndsOne
  <2>1. PICK b \in Owner, step \in OwnerSteps, had \in SUBSET Kinds, kinds \in SUBSET Kinds :
          AbortOwner(b, step, had, kinds)
    BY <1>3 DEF EndsOne
  <2>2. \A i \in Invocation : invocations'[i] = AfterAbort(invocations[i], b)
    BY <2>1 DEF AbortOwner
  <2>3. \A i \in Invocation : /\ invocations'[i].running = invocations[i].running
                              /\ invocations'[i].owner = invocations[i].owner
    BY <1>1, <2>2, AbortedCall
  <2>4. \E sources, closed : AbortChildren(sources, closed)
    BY <2>1 DEF AbortOwner
  <2> QED BY <1>2, <2>3, <2>4 DEF NoneBegins
<1>4. CASE EndsNone
  BY <1>4 DEF EndsNone, NoneBegins
<1>5. CASE ShutDown
  <2>1. UNCHANGED invocations /\ \A c \in Child : children'[c] = Closed(children[c])
    BY <1>5 DEF ShutDown, busVars
  <2> QED BY <1>1, <2>1, ClosedChild DEF NoneBegins
<1>6. CASE Calls
  <2>1. ASSUME NEW i \in Invocation, NEW call \in InvocationRecord, CallGoes(i, call),
               call.running /\ call.owner = a => invocations[i].running /\ invocations[i].owner = a,
               UNCHANGED children
        PROVE  NoneBegins(a)
    <3>1. \A j \in Invocation : invocations'[j] = IF j = i THEN call ELSE invocations[j]
      BY <1>1, <2>1, BusParts DEF CallGoes
    <3> QED BY <2>1, <3>1 DEF NoneBegins
  <2>2. ASSUME NEW i \in Invocation, GiveUp(i) PROVE NoneBegins(a)
    <3>1. CallGoes(i, Expired(invocations[i])) /\ AbortChildren({i}, {})
      BY <2>2 DEF GiveUp, Expire, CallGoes
    <3>2. \A j \in Invocation :
            invocations'[j] = IF j = i THEN Expired(invocations[i]) ELSE invocations[j]
      BY <1>1, <3>1, BusParts DEF CallGoes
    <3>3. \A j \in Invocation : /\ invocations'[j].running = invocations[j].running
                                /\ invocations'[j].owner = invocations[j].owner
      BY <1>1, <3>2, ExpiredCall
    <3> QED BY <1>2, <3>1, <3>3 DEF NoneBegins
  <2>3. ASSUME NEW i \in Invocation, HandlerSettles(i) PROVE NoneBegins(a)
    <3>1. UNCHANGED children
      BY <2>3 DEF HandlerSettles, processVars
    <3> QED BY <1>1, <2>1, <2>3, <3>1, SettledCall
  <2>4. ASSUME NEW i \in Invocation, NEW c \in Command, NEW from \in Owner \cup {NoOwner},
               Invoke(i, c, from)
        PROVE  NoneBegins(a)
    <3>1. UNCHANGED children
      BY <2>4 DEF Invoke, processVars
    <3>2. PICK call \in InvocationRecord : CallGoes(i, call) /\ call.owner = handlers[c]
      BY <1>1, <2>4, InvokedCall
    <3> QED BY <2>1, <3>1, <3>2
  <2> QED BY <1>6, <2>2, <2>3, <2>4 DEF Calls
<1>7. CASE Spawns
  <2>1. ASSUME NEW c \in Child, NEW child \in ChildRecord, ChildGoes(c, child),
               a \in child.parents /\ child.step \in {"spawning", "reaping"} =>
                 a \in children[c].parents /\ children[c].step \in {"spawning", "reaping"},
               UNCHANGED invocations
        PROVE  NoneBegins(a)
    <3>1. \A d \in Child : children'[d] = IF d = c THEN child ELSE children[d]
      BY <1>1, <2>1, ProcessParts DEF ChildGoes
    <3> QED BY <2>1, <3>1 DEF NoneBegins
  <2>2. UNCHANGED invocations
    BY <1>7 DEF Spawns, ProcessStep, SpawnFor, busVars
  <2>3. ASSUME NEW c \in Child, ProcessStep(c) PROVE NoneBegins(a)
    <3>1. PICK child \in ChildRecord :
             /\ ChildGoes(c, child) /\ child.parents \in {children[c].parents, {}}
             /\ child.step # "spawning"
             /\ child.step = "reaping" => children[c].step = "spawning"
      BY <1>1, <2>3, StepOfChild
    <3> QED BY <2>1, <2>2, <3>1
  <2>4. ASSUME NEW c \in Child, NEW b \in Owner, NEW i \in Invocation \cup {NoOwner}, SpawnFor(c, b, i)
        PROVE  NoneBegins(a)
    <3>1. a # b
      BY <2>4 DEF SpawnFor, Usable
    <3>2. PICK parents \in SUBSET Parent : Spawn(c, parents) /\ a \notin parents
      BY <2>4, <3>1, LifecycleAssumption DEF SpawnFor
    <3>3. PICK child \in ChildRecord : ChildGoes(c, child) /\ child.parents = parents
      BY <1>1, <3>2, SpawnedChild
    <3> QED BY <2>1, <2>2, <3>2, <3>3
  <2> QED BY <1>7, <2>3, <2>4 DEF Spawns
<1> QED BY <1>3, <1>4, <1>5, <1>6, <1>7, Ends

(* The callers that come to wait for operations, or to the hook. *)
TaskWaits(k) ==
  \/ tasks'[k] = tasks[k] \/ tasks'[k].step \notin {"operations", "hook"}
  \/ ProcessesEnd(k) \/ OperationsEnd(k)

LEMMA WaitsNext ==
  ASSUME Shape, Next, NEW j \in Caller PROVE TaskWaits(j)
<1>1. TaskTypes /\ OwnerTypes /\ TypeOK /\ ActivationsAreKnown
      /\ \A k \in Caller : tasks[k] \in TaskRecord
  BY TypeParts DEF Shape, TaskTypes
<1>2. ASSUME UNCHANGED tasks PROVE TaskWaits(j)
  BY <1>2 DEF TaskWaits
<1>3. ASSUME NEW k \in Caller, NEW r, tasks' = [tasks EXCEPT ![k] = r],
             r.step \notin {"operations", "hook"}
      PROVE  TaskWaits(j)
  BY <1>1, <1>3 DEF TaskWaits, TaskTypes
<1>4. ASSUME NEW k \in Caller, NEW step, tasks' = [tasks EXCEPT ![k].step = step],
             step \notin {"operations", "hook"}
      PROVE  TaskWaits(j)
  BY <1>1, <1>4 DEF TaskWaits, TaskTypes, TaskRecord
<1>5. ASSUME NEW k \in Caller, DeactivationStep(k) PROVE TaskWaits(j)
  <2>1. CASE DeactivationEnds(k)
    <3>1. [Done EXCEPT !.step = IF k = Stop THEN "next" ELSE @].step \in {"next", "done"}
      BY DEF Done, NoTask
    <3> QED BY <1>3, <2>1, <3>1 DEF DeactivationEnds
  <2>2. CASE ProcessesEnd(k)
    <3>1. CASE j = k
      BY <2>2, <3>1 DEF TaskWaits
    <3>2. CASE j # k
      BY <1>1, <2>2, <3>2 DEF TaskWaits, ProcessesEnd, Unwind, TaskTypes
    <3> QED BY <3>1, <3>2
  <2>3. CASE OperationsEnd(k)
    <3>1. CASE j = k
      BY <2>3, <3>1 DEF TaskWaits
    <3>2. CASE j # k
      BY <1>1, <2>3, <3>2 DEF TaskWaits, OperationsEnd, Unwind, TaskTypes
    <3> QED BY <3>1, <3>2
  <2> QED BY <1>5, <2>1, <2>2, <2>3 DEF DeactivationStep
<1>6. ASSUME NEW k \in Caller, NEW p \in Plugin, BeginDeactivation(k, p) PROVE TaskWaits(j)
  <2>1. \A a : [NoTask EXCEPT !.step = "processes", !.plugin = p, !.owner = a].step = "processes"
    BY DEF NoTask
  <2> QED BY <1>3, <1>6, <2>1 DEF BeginDeactivation
<1>7. ASSUME NEW t \in Toggle, ToggleStep(t) \/ \E p \in Plugin, enable \in BOOLEAN : SetEnabled(t, p, enable)
      PROVE  TaskWaits(j)
  <2>1. t \in Caller /\ (tasks[t].step = "written" => tasks[t].plugin \in Plugin)
    BY DEF Caller, Shape, TasksAreKnown
  <2>2. ASSUME tasks' = [tasks EXCEPT ![t] = Done] PROVE TaskWaits(j)
    BY <1>3, <2>1, <2>2, TaskRecords
  <2>3. ASSUME NEW p \in Plugin, NEW enable \in BOOLEAN, SetEnabled(t, p, enable)
        PROVE  TaskWaits(j)
    <3> DEFINE r == [NoTask EXCEPT !.step = "writing", !.plugin = p, !.enable = enable,
                           !.next = IF enable THEN disabled \ {p} ELSE disabled \cup {p}]
    <3>1. r.step = "writing" /\ tasks' = [tasks EXCEPT ![t] = r]
      BY <2>3 DEF NoTask, SetEnabled
    <3> HIDE DEF r
    <3> QED BY <1>3, <2>1, <3>1
  <2>4. CASE WriteEnds(t)
    BY <1>4, <2>1, <2>2, <2>4 DEF WriteEnds
  <2>5. CASE Enable(t)
    <3>1. \A a : [NoTask EXCEPT !.step = "activation", !.owner = a].step = "activation"
      BY DEF NoTask
    <3>2. \/ tasks' = [tasks EXCEPT ![t] = Done]
          \/ \E a \in Owner : tasks' = [tasks EXCEPT ![t] = [NoTask EXCEPT !.step = "activation", !.owner = a]]
      BY <2>5 DEF Enable
    <3> QED BY <1>3, <2>1, <2>2, <3>1, <3>2
  <2>6. CASE EnableEnds(t)
    BY <2>2, <2>6 DEF EnableEnds
  <2>7. CASE Disable(t)
    BY <1>6, <2>1, <2>2, <2>7 DEF Disable
  <2> QED BY <1>7, <2>3, <2>4, <2>5, <2>6, <2>7 DEF ToggleStep
<1>8. ASSUME StopStep \/ StopKernel PROVE TaskWaits(j)
  <2>1. Stop \in Caller /\ stopList \in Seq(Plugin)
    BY TypeParts DEF Caller, Shape, CoreTypes
  <2>2. CASE StopNext
    <3>1. Head(stopList) \in Plugin
      BY <2>1, <2>2 DEF StopNext
    <3> QED BY <1>2, <1>6, <2>1, <2>2, <3>1 DEF StopNext
  <2>3. CASE ShutDown \/ Stopped \/ StopKernel
    <3>1. \E step \in {"shutdown", "done", "next"} : tasks' = [tasks EXCEPT ![Stop].step = step]
      BY <2>3 DEF ShutDown, Stopped, StopKernel
    <3>2. PICK step \in {"shutdown", "done", "next"} : tasks' = [tasks EXCEPT ![Stop].step = step]
      BY <3>1
    <3> QED BY <1>4, <2>1, <3>2
  <2> QED BY <1>8, <2>2, <2>3 DEF StopStep
<1>9. ASSUME NEW a \in Owner, OwnerStep(a) PROVE UNCHANGED tasks
  BY <1>9 DEF OwnerStep, Commit, Fail, FailedProcessesEnd, FailureEnds
<1>10. ASSUME Calls \/ Spawns PROVE UNCHANGED tasks
  BY <1>10, CallTypes DEF HostUnchanged
<1> QED BY <1>2, <1>5, <1>7, <1>8, <1>9, <1>10, Steps, BootGoesOn

LEMMA WaitsForAllNext ==
  ASSUME Shape, WaitsForAll, [Next]_vars PROVE WaitsForAll'
<1> SUFFICES ASSUME NEW k \in Caller
             PROVE  /\ tasks'[k].step = "operations" =>
                         OperationsOf(tasks[k].owner)' \subseteq tasks'[k].waits
                    /\ tasks'[k].step = "hook" /\ ~tasks'[k].late =>
                         OperationsOf(tasks[k].owner)' = {}
  BY DEF WaitsForAll
<1>1. /\ TaskTypes /\ BusTypeOK /\ ProcessTypeOK /\ tasks[k] \in TaskRecord
      /\ \A i \in Invocation : invocations[i] \in InvocationRecord
  BY TypeParts, BusParts DEF Shape, TaskTypes
<1>2. PICK b : b = tasks[k].owner
  OBVIOUS
<1>3. /\ tasks[k].step = "operations" => OperationsOf(b) \subseteq tasks[k].waits
      /\ tasks[k].step = "hook" /\ ~tasks[k].late => OperationsOf(b) = {}
  BY <1>2 DEF WaitsForAll
<1>4. ASSUME tasks'[k].owner = b PROVE OperationsOf(tasks[k].owner)' = OperationsOf(b)'
  BY <1>4 DEF OperationsOf, RunningFor, ChildrenOf
<1>5. CASE UNCHANGED vars
  <2>1. UNCHANGED <<tasks, invocations, children>>
    BY <1>5 DEF vars, busVars, processVars
  <2>2. OperationsOf(b)' = OperationsOf(b)
    BY <2>1 DEF OperationsOf, RunningFor, ChildrenOf
  <2> QED BY <1>2, <1>3, <1>4, <2>1, <2>2
<1>6. CASE Next
  <2>1. ASSUME tasks[k].step \in Unwinding PROVE OperationsOf(b)' \subseteq OperationsOf(b)
    <3>1. b \in Owner /\ owners[b].aborted /\ \A c \in Command : handlers[c] # b
      BY <1>2, <2>1 DEF Shape, TasksAreKnown
    <3> QED BY <1>6, <3>1, NoneBeginsNext, Shrink
  <2>2. CASE tasks'[k] = tasks[k]
    BY <1>2, <1>3, <1>4, <2>1, <2>2 DEF Unwinding
  <2>3. CASE tasks'[k].step \notin {"operations", "hook"}
    BY <2>3
  <2>4. CASE ProcessesEnd(k)
    <3>1. tasks'[k].step = "operations" /\ tasks'[k].owner = b /\ tasks'[k].waits = OperationsOf(b)
      BY <1>1, <1>2, <2>4 DEF ProcessesEnd, Unwind, TaskTypes, TaskRecord
    <3> QED BY <1>4, <2>1, <2>4, <3>1 DEF ProcessesEnd, Unwinding
  <2>5. CASE OperationsEnd(k)
    <3>1. tasks'[k].step = "hook" /\ tasks'[k].owner = b
      BY <1>1, <1>2, <2>5 DEF OperationsEnd, Unwind, TaskTypes, TaskRecord
    <3>2. tasks[k].step = "operations"
          /\ (tasks'[k].late \/ \A o \in tasks[k].waits : Settled(o))
      BY <1>1, <2>5 DEF OperationsEnd, Unwind, TaskTypes, TaskRecord
    <3>3. ASSUME \A o \in tasks[k].waits : Settled(o) PROVE OperationsOf(b) = {}
      <4>1. ASSUME NEW o \in OperationsOf(b) PROVE FALSE
        <5>1. Settled(o)
          BY <1>3, <3>2, <3>3, <4>1
        <5>2. \/ o \in Invocation /\ invocations[o].running
              \/ o \in Child /\ children[o].step \in {"spawning", "reaping"}
          BY <4>1, OperationOf
        <5>3. o \in Invocation => o \notin Child
          BY LifecycleAssumption
        <5> QED BY <5>1, <5>2, <5>3 DEF Settled
      <4> QED BY <4>1
    <3>4. OperationsOf(b)' \subseteq OperationsOf(b)
      BY <2>1, <3>2 DEF Unwinding
    <3> QED BY <1>4, <3>1, <3>2, <3>3, <3>4
  <2> QED BY <1>6, <2>2, <2>3, <2>4, <2>5, WaitsNext DEF TaskWaits
<1> QED BY <1>5, <1>6

(* A plugin's deactivate hook does not run beside one of its own operations,     *)
(* unless the deadline has passed: what settles in the meantime is waited for,   *)
(* and nothing begins, whoever else stops, spawns or calls                      *)
(* (plugin-manager.ts:1930).                                                    *)
THEOREM HooksRunAlone == Spec => []HookRunsAlone
<1>1. Init => Shape /\ WaitsForAll
  <2>1. ASSUME Init, NEW k \in Caller PROVE tasks[k].step \in {"idle", "done"}
    BY <2>1, TaskRecords DEF Init
  <2> QED BY <2>1, ShapeInit DEF WaitsForAll
<1>2. Shape /\ WaitsForAll /\ [Next]_vars => Shape' /\ WaitsForAll'
  BY ShapeNext, WaitsForAllNext
<1>3. WaitsForAll => HookRunsAlone
  BY DEF WaitsForAll, HookRunsAlone
<1> QED BY <1>1, <1>2, <1>3, PTL DEF Spec

(************************* Changes that do not meet ****************************)

(* What holds as long as no change of a plugin meets another change, the start   *)
(* or the stop (~overlap).                                                      *)
InProgress(a) == owners[a].step \in {"activating", "processes", "disposing"}

Turning(t) == tasks[t].step \notin {"idle", "done"}

Unwinds(k, p) == tasks[k].step \in Unwinding /\ tasks[k].plugin = p

(* One call of setEnabled at a time, and none while the kernel starts. *)
TakeTurns ==
  /\ \A t, u \in Toggle : Turning(t) /\ Turning(u) => t = u
  /\ \A t \in Toggle : Turning(t) => boot.step = "done"
  /\ kernel = "idle" => boot.step = "idle"

(* An activation under way is one that start or setEnabled awaits. *)
AreAwaited ==
  \A a \in Owner : InProgress(a) =>
    \/ boot.step \in {"bootstrap", "ordinary"} /\ boot.awaits = a
    \/ \E t \in Toggle : tasks[t].step = "activation" /\ tasks[t].owner = a

(* Nothing else is done to a plugin that activates. *)
AreAlone ==
  \A a \in Owner : InProgress(a) =>
    /\ current[owners[a].plugin] = NoOwner /\ records[owners[a].plugin] = "activating"
    /\ \A k \in Caller : ~Unwinds(k, owners[a].plugin)

(* Who deactivates a plugin finds what it deactivates, or nothing; and the       *)
(* record refuses the change that a stop has overtaken.                          *)
UnwindTheirOwn ==
  \A k \in Caller : tasks[k].step \in Unwinding =>
    /\ current[tasks[k].plugin] \in {tasks[k].owner, NoOwner}
    /\ k = Stop => \/ records[tasks[k].plugin] = "deactivating"
                   \/ \A t \in Toggle : ~Turning(t)

(* How far start has come in the order of the plugins. *)
Position ==
  IF boot.step = "idle" THEN 0
  ELSE IF boot.step = "bootstrap" THEN boot.next
  ELSE IF boot.step = "read" THEN Len(Bootstrap)
  ELSE IF boot.step = "ordinary" THEN Len(Bootstrap) + boot.next - 1
  ELSE Len(Order)

AreToCome ==
  \A n \in DOMAIN Order : n > Position =>
    \A a \in Owner : owners[a].step # "free" => owners[a].plugin # Order[n]

Fresh == \A a \in Owner : owners[a].step \in {"free", "activating"} => ~owners[a].aborted

IsActive(a) == /\ owners[a].step = "committed" /\ ~owners[a].aborted
               /\ current[owners[a].plugin] = a

Registers ==
  \A a \in Owner :
    /\ "services" \in owners[a].owns <=> IsActive(a)
    /\ IsActive(a) => \A c \in Handles[owners[a].plugin] : handlers[c] = a
    /\ \A c \in Command : handlers[c] = a =>
         IsActive(a) \/ owners[a].step \in {"processes", "disposing"}

(* The part about plugins and activations. *)
PluginsInTurn == AreAlone /\ UnwindTheirOwn /\ Fresh /\ Registers

InTurn == TakeTurns /\ AreAwaited /\ AreToCome /\ PluginsInTurn

(* Each caller moves by itself. *)
CallerGoes(j) ==
  \/ tasks'[j] = tasks[j] \/ DeactivationStep(j)
  \/ j = Stop /\ (StopStep \/ StopKernel)
  \/ j \in Toggle /\ (ToggleStep(j) \/ \E p \in Plugin, enable \in BOOLEAN : SetEnabled(j, p, enable))

LEMMA CallersGo ==
  ASSUME Shape, Next, NEW j \in Caller PROVE CallerGoes(j)
<1>1. TaskTypes
  BY TypeParts DEF Shape
<1>2. ASSUME NEW k \in Caller, NEW r, tasks' = [tasks EXCEPT ![k] = r], j # k PROVE tasks'[j] = tasks[j]
  BY <1>1, <1>2 DEF TaskTypes
<1>3. ASSUME NEW k \in Caller, DeactivationStep(k) PROVE CallerGoes(j)
  <2>1. CASE j # k
    <3>1. \E r : tasks' = [tasks EXCEPT ![k] = r]
      BY <1>3 DEF DeactivationStep, ProcessesEnd, OperationsEnd, DeactivationEnds, Unwind
    <3> QED BY <1>2, <2>1, <3>1 DEF CallerGoes
  <2> QED BY <1>3, <2>1 DEF CallerGoes
<1>4. ASSUME NEW t \in Toggle, ToggleStep(t) \/ \E p \in Plugin, enable \in BOOLEAN : SetEnabled(t, p, enable)
      PROVE  CallerGoes(j)
  <2>1. CASE j # t
    <3>1. t \in Caller
      BY DEF Caller
    <3>2. \E r : tasks' = [tasks EXCEPT ![t] = r]
      <4>1. CASE ToggleStep(t)
        BY <4>1 DEF ToggleStep, WriteEnds, Enable, EnableEnds, Disable, BeginDeactivation
      <4>2. CASE \E p \in Plugin, enable \in BOOLEAN : SetEnabled(t, p, enable)
        BY <4>2 DEF SetEnabled
      <4> QED BY <1>4, <4>1, <4>2
    <3> QED BY <1>2, <2>1, <3>1, <3>2 DEF CallerGoes
  <2> QED BY <1>4, <2>1 DEF CallerGoes
<1>5. ASSUME StopStep \/ StopKernel PROVE CallerGoes(j)
  <2>1. CASE j # Stop
    <3>1. Stop \in Caller
      BY DEF Caller
    <3>2. UNCHANGED tasks \/ \E r : tasks' = [tasks EXCEPT ![Stop] = r]
      BY <1>5 DEF StopStep, StopKernel, StopNext, ShutDown, Stopped, BeginDeactivation
    <3> QED BY <1>2, <2>1, <3>1, <3>2 DEF CallerGoes
  <2> QED BY <1>5, <2>1 DEF CallerGoes
<1>6. ASSUME NEW a \in Owner, OwnerStep(a) PROVE UNCHANGED tasks
  BY <1>6 DEF OwnerStep, Commit, Fail, FailedProcessesEnd, FailureEnds
<1>7. ASSUME Calls \/ Spawns PROVE UNCHANGED tasks
  BY <1>7, CallTypes DEF HostUnchanged
<1> QED BY <1>3, <1>4, <1>5, <1>6, <1>7, Steps, BootGoesOn DEF CallerGoes

(* A call of setEnabled that is under way was so before, or begins alone. *)
LEMMA TurningGoes ==
  ASSUME Shape, Next, NEW t \in Toggle, Turning(t)'
  PROVE  Turning(t) \/ \E p \in Plugin, enable \in BOOLEAN : SetEnabled(t, p, enable)
<1>1. t \in Caller /\ t # Stop
  BY LifecycleAssumption DEF Caller
<1>2. CASE tasks'[t] = tasks[t]
  BY <1>2 DEF Turning
<1>3. CASE DeactivationStep(t) \/ ToggleStep(t)
  BY <1>3 DEF DeactivationStep, ProcessesEnd, OperationsEnd, DeactivationEnds, ToggleStep, WriteEnds,
     Enable, EnableEnds, Disable, Turning
<1> QED BY <1>1, <1>2, <1>3, CallersGo DEF CallerGoes

LEMMA BeginsAlone ==
  ASSUME Shape, Next, ~overlap', NEW t \in Toggle, NEW p \in Plugin, NEW enable \in BOOLEAN,
         SetEnabled(t, p, enable)
  PROVE  /\ ~overlap /\ boot.step = "done" /\ UNCHANGED boot /\ kernel = "started"
         /\ \A k \in Caller : tasks[k].step \in {"idle", "done"}
<1>1. ~overlap /\ ~Busy /\ kernel = "started" /\ boot.step \in {"ordinary", "done"} /\ UNCHANGED boot
  <2>1. overlap \in BOOLEAN
    BY DEF Shape, TypeOK
  <2> QED BY <2>1 DEF SetEnabled, core
<1> QED BY <1>1 DEF Busy

LEMMA BootGoes ==
  ASSUME Shape, Next PROVE BootStep \/ UNCHANGED boot
<1>2. ASSUME NEW k \in Caller, DeactivationStep(k) PROVE UNCHANGED boot
  BY <1>2 DEF DeactivationStep, ProcessesEnd, OperationsEnd, DeactivationEnds, Unwind, core
<1>3. ASSUME NEW t \in Toggle, ToggleStep(t) \/ \E p \in Plugin, enable \in BOOLEAN : SetEnabled(t, p, enable)
      PROVE  UNCHANGED boot
  BY <1>3 DEF ToggleStep, WriteEnds, Enable, EnableEnds, Disable, SetEnabled, core
<1>4. ASSUME StopStep \/ StopKernel PROVE UNCHANGED boot
  BY <1>4 DEF StopStep, StopKernel, StopNext, ShutDown, Stopped, core
<1>5. ASSUME NEW a \in Owner, OwnerStep(a) PROVE UNCHANGED boot
  BY <1>5 DEF OwnerStep, Commit, Fail, FailedProcessesEnd, FailureEnds, core
<1>6. ASSUME Calls \/ Spawns PROVE UNCHANGED boot
  BY <1>6, CallTypes DEF HostUnchanged, core
<1> QED BY <1>2, <1>3, <1>4, <1>5, <1>6, Steps

LEMMA KernelGoes ==
  ASSUME TakeTurns, Next, Shape, kernel' = "idle" PROVE kernel = "idle" /\ ~BootStep
<1>1. ASSUME BootStep PROVE FALSE
  <2>1. CASE Start
    BY <2>1 DEF Start
  <2>2. CASE ~Start
    <3>1. boot.step # "idle" /\ kernel' \in {kernel, "failed", "started"}
      BY <1>1, <2>2 DEF BootStep, Bootstrapped, ReadDisabled, ActivateNext, Started, StartEnds
    <3> QED BY <3>1 DEF TakeTurns
  <2> QED BY <2>1, <2>2
<1>2. ASSUME NEW k \in Caller, DeactivationStep(k) PROVE UNCHANGED kernel
  BY <1>2 DEF DeactivationStep, ProcessesEnd, OperationsEnd, DeactivationEnds, Unwind, core
<1>3. ASSUME NEW t \in Toggle, ToggleStep(t) \/ \E p \in Plugin, enable \in BOOLEAN : SetEnabled(t, p, enable)
      PROVE  UNCHANGED kernel
  BY <1>3 DEF ToggleStep, WriteEnds, Enable, EnableEnds, Disable, SetEnabled, core
<1>4. ASSUME StopStep \/ StopKernel PROVE UNCHANGED kernel
  BY <1>4 DEF StopStep, StopKernel, StopNext, ShutDown, Stopped, core
<1>5. ASSUME NEW a \in Owner, OwnerStep(a) PROVE UNCHANGED kernel
  BY <1>5 DEF OwnerStep, Commit, Fail, FailedProcessesEnd, FailureEnds, core
<1>6. ASSUME Calls \/ Spawns PROVE UNCHANGED kernel
  BY <1>6, CallTypes DEF HostUnchanged, core
<1> QED BY <1>1, <1>2, <1>3, <1>4, <1>5, <1>6, Steps

(* Start is over for good. *)
LEMMA BootIsOver ==
  ASSUME Shape, Next, boot.step = "done", TakeTurns
  PROVE  UNCHANGED boot
<1>1. ~BootStep
  BY DEF BootStep, Start, Bootstrapped, ReadDisabled, ActivateNext, Started, TakeTurns
<1> QED BY <1>1, BootGoes

LEMMA TakeTurnsNext ==
  ASSUME Shape, TakeTurns, Next, ~overlap' PROVE TakeTurns'
<1>1. ASSUME NEW t \in Toggle, Turning(t)' PROVE boot'.step = "done"
  <2>1. CASE Turning(t)
    BY <2>1, BootIsOver DEF TakeTurns
  <2>2. CASE \E p \in Plugin, enable \in BOOLEAN : SetEnabled(t, p, enable)
    BY <2>2, BeginsAlone
  <2> QED BY <1>1, <2>1, <2>2, TurningGoes
<1>2. ASSUME NEW t \in Toggle, NEW u \in Toggle, Turning(t)', Turning(u)', t # u PROVE FALSE
  <2>1. ASSUME NEW v \in Toggle, NEW w \in Toggle, v # w, Turning(w)',
               \E p \in Plugin, enable \in BOOLEAN : SetEnabled(v, p, enable)
        PROVE  FALSE
    <3>1. v \in Caller /\ w \in Caller /\ TaskTypes
      BY TypeParts DEF Caller, Shape
    <3>2. \A k \in Caller : tasks[k].step \in {"idle", "done"}
      BY <2>1, BeginsAlone
    <3>3. tasks'[w] = tasks[w]
      BY <2>1, <3>1 DEF SetEnabled, TaskTypes
    <3> QED BY <2>1, <3>1, <3>2, <3>3 DEF Turning
  <2>2. Turning(t) /\ Turning(u)
    BY <1>2, <2>1, TurningGoes
  <2> QED BY <1>2, <2>2 DEF TakeTurns
<1>3. ASSUME kernel' = "idle" PROVE boot'.step = "idle"
  BY <1>3, KernelGoes, BootGoes DEF TakeTurns
<1> QED BY <1>1, <1>2, <1>3 DEF TakeTurns

(* What the end of an activation leaves of each one of its plugin. *)
LEMMA AbortedSteps ==
  ASSUME OwnerTypes, NEW a \in Owner, NEW step \in OwnerSteps, NEW had \in SUBSET Kinds,
         NEW kinds \in SUBSET Kinds, AbortOwner(a, step, had, kinds), "services" \in kinds,
         NEW b \in Owner
  PROVE  /\ owners'[b].plugin = owners[b].plugin
         /\ owners'[b].step = IF b = a THEN step ELSE owners[b].step
         /\ b # a => owners'[b].aborted = owners[b].aborted
         /\ owners'[a].aborted
         /\ owners[b].plugin = owners[a].plugin => "services" \notin owners'[b].owns
         /\ owners[b].plugin # owners[a].plugin => owners'[b] = owners[b]
<1>1. owners[b].plugin # owners[a].plugin => owners'[b] = owners[b]
  BY AbortedOwner
<1>2. ASSUME owners[b].plugin = owners[a].plugin, b # a
      PROVE  /\ owners'[b].plugin = owners[b].plugin /\ owners'[b].step = owners[b].step
             /\ owners'[b].aborted = owners[b].aborted /\ "services" \notin owners'[b].owns
  <2>1. Has(b, owners[b].plugin, owners[b].aborted, owners[b].step, owners[b].owns \ kinds)
    BY <1>2, AbortedOwner
  <2> QED BY <2>1 DEF Has
<1>3. /\ owners'[a].plugin = owners[a].plugin /\ owners'[a].step = step
      /\ owners'[a].aborted /\ "services" \notin owners'[a].owns
  <2>1. Has(a, owners[a].plugin, TRUE, step, had \ kinds)
    BY AbortedOwner
  <2> QED BY <2>1 DEF Has
<1> QED BY <1>1, <1>2, <1>3

(* What a step of start does. *)
BootRests ==
  /\ UNCHANGED <<owners, records>>
  /\ \A n \in DOMAIN Order : n > Position' => n > Position

BootComesTo(p) ==
  Position' = Position + 1 /\ Position' \in DOMAIN Order /\ p = Order[Position']

BootActivates(p, a) ==
  /\ Activate(p, a) /\ BootComesTo(p)
  /\ boot'.step \in {"bootstrap", "ordinary"} /\ boot'.awaits = a

BootSkips(p) ==
  /\ records' = [records EXCEPT ![p] = "disabled"] /\ BootComesTo(p)
  /\ UNCHANGED owners

LEMMA BootDoes ==
  ASSUME Shape, TakeTurns, BootStep
  PROVE  /\ boot.step # "done"
         /\ boot.step \in {"bootstrap", "ordinary"} => boot.awaits = NoOwner \/ Activated(boot.awaits)
         /\ \/ BootRests
            \/ \E p \in Plugin : BootSkips(p)
            \/ \E p \in Plugin, a \in Owner : BootActivates(p, a)
<1>1. /\ boot.next \in 1 .. Len(Order) + 1 /\ boot \in BootRecord
      /\ boot.step = "bootstrap" => boot.awaits \in Owner /\ boot.next <= Len(Bootstrap)
      /\ DOMAIN Order = 1 .. Len(Order) /\ Len(Order) = Len(Bootstrap) + Len(Ordinary)
      /\ Len(Bootstrap) \in Nat \ {0} /\ Len(Ordinary) \in Nat
  BY TypeParts, OrderIsOfPlugins, LifecycleAssumption DEF Shape, CoreTypes, BootRecord, ActivationsAreKnown, Order
<1>2. \A n \in 1 .. Len(Bootstrap) : Order[n] = Bootstrap[n] /\ Bootstrap[n] \in Plugin
  BY OrderIsOfPlugins
<1>3. \A n \in 1 .. Len(Ordinary) : Order[Len(Bootstrap) + n] = Ordinary[n] /\ Ordinary[n] \in Plugin
  BY OrderIsOfPlugins
<1>4. CASE Start
  <2>1. PICK a \in Owner : Activate(Bootstrap[1], a) /\ Await("bootstrap", 1, a)
    BY <1>4 DEF Start
  <2>2. boot.step = "idle"
    BY <1>4 DEF Start, TakeTurns
  <2>3. BootActivates(Bootstrap[1], a)
    BY <1>1, <1>2, <2>1, <2>2 DEF Await, BootActivates, BootComesTo, Position
  <2> QED BY <1>1, <1>2, <2>2, <2>3
<1>5. CASE Bootstrapped
  <2>1. boot.step = "bootstrap" /\ Activated(boot.awaits)
    BY <1>5 DEF Bootstrapped
  <2>2. ASSUME UNCHANGED <<registry, owners>>, boot'.step \in {"done", "read"} PROVE BootRests
    BY <1>1, <2>1, <2>2 DEF BootRests, Position, registry
  <2>3. ASSUME NEW a \in Owner, boot.next < Len(Bootstrap),
               Activate(Bootstrap[boot.next + 1], a), Await("bootstrap", boot.next + 1, a)
        PROVE  BootActivates(Bootstrap[boot.next + 1], a) /\ Bootstrap[boot.next + 1] \in Plugin
    BY <1>1, <1>2, <2>1, <2>3 DEF Await, BootActivates, BootComesTo, Position
  <2>4. StartEnds("failed") => boot'.step = "done"
    BY <1>1 DEF StartEnds, BootRecord
  <2>5. Await("read", 1, NoOwner) => boot'.step = "read"
    BY DEF Await
  <2> QED BY <1>1, <1>5, <2>1, <2>2, <2>3, <2>4, <2>5 DEF Bootstrapped
<1>6. CASE ReadDisabled
  <2>1. boot.step = "read" /\ UNCHANGED <<owners, records>>
    BY <1>6 DEF ReadDisabled, registry
  <2>2. boot'.step = "done" \/ (boot'.step = "ordinary" /\ boot'.next = 1)
    <3>1. StartEnds("failed") => boot'.step = "done"
      BY <1>1 DEF StartEnds, BootRecord
    <3>2. Await("ordinary", 1, NoOwner) => boot'.step = "ordinary" /\ boot'.next = 1
      BY DEF Await
    <3> QED BY <1>6, <3>1, <3>2 DEF ReadDisabled
  <2> QED BY <1>1, <2>1, <2>2 DEF BootRests, Position
<1>7. CASE ActivateNext
  <2> DEFINE p == Ordinary[boot.next]
  <2>1. boot.step = "ordinary" /\ boot.next \in 1 .. Len(Ordinary) /\ p \in Plugin
        /\ (boot.awaits = NoOwner \/ Activated(boot.awaits))
    BY <1>1, <1>3, <1>7 DEF ActivateNext
  <2>2. ASSUME boot'.step = "ordinary", boot'.next = boot.next + 1 PROVE BootComesTo(p)
    BY <1>1, <1>3, <2>1, <2>2 DEF BootComesTo, Position
  <2> QED BY <1>7, <2>1, <2>2 DEF ActivateNext, Await, BootSkips, BootActivates
<1>8. CASE Started
  <2>1. boot.step = "ordinary" /\ UNCHANGED <<owners, records>>
        /\ (boot.awaits = NoOwner \/ Activated(boot.awaits))
    BY <1>8 DEF Started, registry
  <2>2. boot'.step = "done"
    BY <1>1, <1>8 DEF Started, StartEnds, BootRecord
  <2> QED BY <1>1, <2>1, <2>2 DEF BootRests, Position
<1> QED BY <1>4, <1>5, <1>6, <1>7, <1>8 DEF BootStep

LEMMA OneInProgress ==
  ASSUME TakeTurns, AreAwaited, NEW a \in Owner, NEW b \in Owner, InProgress(a), InProgress(b)
  PROVE  a = b
  BY DEF TakeTurns, AreAwaited, Turning

(* Whoever awaits an activation goes on waiting until it is over. *)
LEMMA WaitingStays ==
  ASSUME Shape, TakeTurns, AreAwaited, Next, NEW a \in Owner, InProgress(a)
  PROVE  \/ boot.step \in {"bootstrap", "ordinary"} /\ boot.awaits = a /\ UNCHANGED boot
         \/ \E t \in Toggle : /\ tasks[t].step = "activation" /\ tasks[t].owner = a
                              /\ tasks'[t] = tasks[t]
<1>1. ~Activated(a) /\ a # NoOwner
  BY BusAssumption DEF InProgress, Activated
<1>2. CASE boot.step \in {"bootstrap", "ordinary"} /\ boot.awaits = a
  <2>1. ~BootStep
    BY <1>1, <1>2, BootDoes
  <2> QED BY <1>2, <2>1, BootGoes
<1>3. ASSUME NEW t \in Toggle, tasks[t].step = "activation", tasks[t].owner = a
      PROVE  tasks'[t] = tasks[t]
  <2>1. t \in Caller /\ t # Stop
    BY LifecycleAssumption DEF Caller
  <2>2. ~DeactivationStep(t)
    BY <1>3 DEF DeactivationStep, ProcessesEnd, OperationsEnd, DeactivationEnds
  <2>3. ~ToggleStep(t) /\ ~\E p \in Plugin, enable \in BOOLEAN : SetEnabled(t, p, enable)
    BY <1>1, <1>3 DEF ToggleStep, WriteEnds, Enable, EnableEnds, Disable, SetEnabled
  <2> QED BY <2>1, <2>2, <2>3, CallersGo DEF CallerGoes
<1> QED BY <1>2, <1>3 DEF AreAwaited

(* How an activation goes on, and who begins one. *)
ToggleActivates(t, p, a) ==
  /\ Enable(t) /\ Activate(p, a) /\ p = tasks[t].plugin /\ current[p] = NoOwner
  /\ tasks'[t].step = "activation" /\ tasks'[t].owner = a

OwnerGoes(b) ==
  \/ owners'[b].step = owners[b].step /\ owners'[b].plugin = owners[b].plugin
  \/ OwnerStep(b) /\ owners'[b].plugin = owners[b].plugin /\ owners[b].step \notin {"free", "committed"}
     /\ owners'[b].step # "activating"
  \/ owners[b].step = "free" /\ owners'[b].step = "activating"
     /\ \E p \in Plugin : /\ owners'[b].plugin = p
                          /\ BootActivates(p, b) \/ \E t \in Toggle : ToggleActivates(t, p, b)

LEMMA ActivatedGoes ==
  ASSUME OwnerTypes, RegistryTypes, NEW p \in Plugin, NEW a \in Owner, Activate(p, a), NEW b \in Owner
  PROVE  /\ b # a => owners'[b] = owners[b]
         /\ owners[a].step = "free" /\ owners'[a].step = "activating" /\ owners'[a].plugin = p
         /\ owners'[a].aborted = owners[a].aborted /\ owners'[a].owns = owners[a].owns
<1>1. owners[a].step = "free" /\ Has(a, p, owners[a].aborted, "activating", owners[a].owns)
      /\ (b # a => owners'[b] = owners[b])
  BY ActivateTypes
<1> QED BY <1>1 DEF Has

LEMMA ToggleDoes ==
  ASSUME Shape, NEW t \in Toggle, Enable(t)
  PROVE  /\ tasks[t].plugin \in Plugin /\ Turning(t)
         /\ \/ tasks' = [tasks EXCEPT ![t] = Done] /\ UNCHANGED <<registry, owners>>
            \/ \E a \in Owner : ToggleActivates(t, tasks[t].plugin, a)
<1>1. t \in Caller /\ TaskTypes
  BY TypeParts DEF Shape, Caller
<1>2. tasks[t].plugin \in Plugin
  BY <1>1 DEF Shape, TasksAreKnown, Enable
<1>3. ASSUME NEW a \in Owner, Activate(tasks[t].plugin, a), current[tasks[t].plugin] = NoOwner,
             tasks' = [tasks EXCEPT ![t] = [NoTask EXCEPT !.step = "activation", !.owner = a]]
      PROVE  ToggleActivates(t, tasks[t].plugin, a)
  <2>1. tasks'[t] = [NoTask EXCEPT !.step = "activation", !.owner = a]
    BY <1>1, <1>3 DEF TaskTypes
  <2>2. tasks'[t].step = "activation" /\ tasks'[t].owner = a
    BY <2>1 DEF NoTask
  <2> QED BY <1>3, <2>2 DEF ToggleActivates
<1>4. Turning(t)
  BY DEF Enable, Turning
<1> QED BY <1>2, <1>3, <1>4 DEF Enable

LEMMA OwnersGo ==
  ASSUME Shape, TakeTurns, Next, NEW b \in Owner PROVE OwnerGoes(b)
<1>1. OwnerTypes /\ RegistryTypes /\ TypeOK /\ ActivationsAreKnown /\ stopList \in Seq(Plugin)
      /\ owners[b] \in OwnerRecord
  BY TypeParts DEF Shape, CoreTypes, OwnerTypes
<1>2. ASSUME owners'[b] = owners[b] PROVE OwnerGoes(b)
  BY <1>2 DEF OwnerGoes
<1>3. ASSUME NEW p \in Plugin, NEW a \in Owner, Activate(p, a),
             BootActivates(p, a) \/ \E t \in Toggle : ToggleActivates(t, p, a)
      PROVE  OwnerGoes(b)
  <2>1. /\ b # a => owners'[b] = owners[b]
        /\ owners[a].step = "free" /\ owners'[a].step = "activating" /\ owners'[a].plugin = p
    BY <1>1, <1>3, ActivatedGoes
  <2> QED BY <1>2, <1>3, <2>1 DEF OwnerGoes
<1>4. CASE BootStep
  <2>1. \/ UNCHANGED owners
        \/ \E p \in Plugin, a \in Owner : BootActivates(p, a)
    BY <1>4, BootDoes DEF BootRests, BootSkips
  <2> QED BY <1>2, <1>3, <2>1 DEF BootActivates
<1>5. ASSUME NEW k \in Caller, NEW p \in Plugin, current[p] # NoOwner, BeginDeactivation(k, p)
      PROVE  OwnerGoes(b)
  <2>1. /\ current[p] \in Owner /\ owners[current[p]].owns \in SUBSET Kinds
        /\ owners[current[p]].step \in OwnerSteps /\ Kinds \in SUBSET Kinds /\ "services" \in Kinds
    BY <1>1, <1>5 DEF RegistryTypes, OwnerTypes, OwnerRecord, Kinds
  <2>2. AbortOwner(current[p], owners[current[p]].step, owners[current[p]].owns, Kinds)
    BY <1>5 DEF BeginDeactivation, Kinds
  <2> QED BY <1>1, <2>1, <2>2, AbortedSteps DEF OwnerGoes
<1>6. ASSUME NEW t \in Toggle,
             ToggleStep(t) \/ \E p \in Plugin, enable \in BOOLEAN : SetEnabled(t, p, enable)
      PROVE  OwnerGoes(b)
  <2>1. t \in Caller /\ (tasks[t].step = "written" => tasks[t].plugin \in Plugin)
    BY DEF Shape, TasksAreKnown, Caller
  <2>2. CASE Enable(t)
    <3>1. \/ UNCHANGED owners
          \/ \E a \in Owner : ToggleActivates(t, tasks[t].plugin, a)
      BY <2>2, ToggleDoes
    <3>2. tasks[t].plugin \in Plugin
      BY <2>2, ToggleDoes
    <3> QED BY <1>2, <1>3, <3>1, <3>2 DEF ToggleActivates
  <2>3. CASE Disable(t)
    BY <1>2, <1>5, <2>1, <2>3 DEF Disable
  <2>4. CASE WriteEnds(t) \/ EnableEnds(t) \/ \E p \in Plugin, enable \in BOOLEAN : SetEnabled(t, p, enable)
    BY <1>2, <2>4 DEF WriteEnds, EnableEnds, SetEnabled
  <2> QED BY <1>6, <2>2, <2>3, <2>4 DEF ToggleStep
<1>7. ASSUME StopStep \/ StopKernel PROVE OwnerGoes(b)
  <2>1. CASE StopNext
    <3>1. Head(stopList) \in Plugin /\ Stop \in Caller
      BY <1>1, <2>1 DEF StopNext, Caller
    <3> QED BY <1>2, <1>5, <2>1, <3>1 DEF StopNext
  <2>2. CASE ShutDown
    BY <2>2, ShutDownGoesOn DEF OwnerGoes
  <2>3. CASE StopKernel \/ Stopped
    BY <1>2, <2>3 DEF StopKernel, Stopped
  <2> QED BY <1>7, <2>1, <2>2, <2>3 DEF StopStep
<1>8. ASSUME NEW k \in Caller, DeactivationStep(k) PROVE UNCHANGED owners
  BY <1>8 DEF DeactivationStep, ProcessesEnd, OperationsEnd, DeactivationEnds, Unwind
<1>9. ASSUME Calls \/ Spawns PROVE UNCHANGED owners
  BY <1>9, CallTypes DEF HostUnchanged
<1>10. ASSUME NEW a \in Owner, OwnerStep(a) PROVE OwnerGoes(b)
  <2>1. CASE Fail(a)
    <3>1. PICK had \in SUBSET Kinds : AbortOwner(a, "processes", had, {"services"})
      BY <2>1 DEF Fail, Kinds
    <3>2. "processes" \in OwnerSteps /\ {"services"} \in SUBSET Kinds /\ owners[a].step = "activating"
      BY <2>1 DEF OwnerSteps, Kinds, Fail
    <3>3. owners'[b].plugin = owners[b].plugin
          /\ owners'[b].step = IF b = a THEN "processes" ELSE owners[b].step
      BY <1>1, <3>1, <3>2, AbortedSteps
    <3> QED BY <1>10, <3>2, <3>3 DEF OwnerGoes
  <2>2. CASE Commit(a) \/ FailedProcessesEnd(a) \/ FailureEnds(a)
    <3>1. b # a => owners'[b] = owners[b]
      BY <1>1, <2>2 DEF Commit, FailedProcessesEnd, FailureEnds, OwnerTypes
    <3>2. CASE b = a
      <4>1. owners'[a].plugin = owners[a].plugin /\ owners'[a].step \in {"committed", "disposing", "failed"}
            /\ owners[a].step \notin {"free", "committed"}
        <5>1. CASE Commit(a)
          BY <1>1, <3>2, <5>1 DEF Commit, OwnerTypes, OwnerRecord
        <5>2. CASE FailedProcessesEnd(a)
          BY <1>1, <3>2, <5>2 DEF FailedProcessesEnd, OwnerTypes, OwnerRecord
        <5>3. CASE FailureEnds(a)
          BY <1>1, <3>2, <5>3 DEF FailureEnds, OwnerTypes, OwnerRecord
        <5> QED BY <2>2, <5>1, <5>2, <5>3
      <4> QED BY <1>10, <3>2, <4>1 DEF OwnerGoes
    <3> QED BY <1>2, <3>1, <3>2
  <2> QED BY <1>10, <2>1, <2>2 DEF OwnerStep
<1> QED BY <1>2, <1>4, <1>6, <1>7, <1>8, <1>9, <1>10, Steps

LEMMA AreAwaitedNext ==
  ASSUME Shape, TakeTurns, AreAwaited, Next PROVE AreAwaited'
<1> SUFFICES ASSUME NEW a \in Owner, InProgress(a)'
             PROVE  \/ boot'.step \in {"bootstrap", "ordinary"} /\ boot'.awaits = a
                    \/ \E t \in Toggle : tasks'[t].step = "activation" /\ tasks'[t].owner = a
  BY DEF AreAwaited, InProgress
<1>1. CASE InProgress(a)
  BY <1>1, WaitingStays
<1>2. CASE ~InProgress(a)
  <2>1. owners[a].step = "free" \/ owners[a].step # owners'[a].step
    BY <1>2 DEF InProgress
  <2>2. ~OwnerStep(a)
    BY <1>2 DEF OwnerStep, Commit, Fail, FailedProcessesEnd, FailureEnds, InProgress
  <2>3. \E p \in Plugin : BootActivates(p, a) \/ \E t \in Toggle : ToggleActivates(t, p, a)
    BY <1>2, <2>1, <2>2, OwnersGo DEF OwnerGoes, InProgress
  <2> QED BY <2>3 DEF BootActivates, ToggleActivates
<1> QED BY <1>1, <1>2

LEMMA AreToComeNext ==
  ASSUME Shape, TakeTurns, AreToCome, Next PROVE AreToCome'
<1> SUFFICES ASSUME NEW n \in DOMAIN Order, n > Position', NEW a \in Owner, owners'[a].step # "free"
             PROVE  owners'[a].plugin # Order[n]
  BY DEF AreToCome
<1>1. DOMAIN Order = 1 .. Len(Order) /\ Len(Order) \in Nat /\ Position \in Int
  <2>1. boot.next \in Int
    BY TypeParts DEF Shape, CoreTypes, BootRecord
  <2> QED BY <2>1, LifecycleAssumption, OrderIsOfPlugins DEF Position, Order
<1>2. n > Position
  <2>1. CASE UNCHANGED boot
    BY <2>1 DEF Position
  <2>2. CASE BootStep
    BY <1>1, <2>2, BootDoes DEF BootRests, BootSkips, BootActivates, BootComesTo
  <2> QED BY <2>1, <2>2, BootGoes
<1>3. CASE owners[a].step # "free"
  BY <1>2, <1>3, OwnersGo DEF OwnerGoes, AreToCome
<1>4. CASE owners[a].step = "free"
  <2>1. PICK p \in Plugin : /\ owners'[a].plugin = p
                            /\ BootActivates(p, a) \/ \E t \in Toggle : ToggleActivates(t, p, a)
    BY <1>4, OwnersGo DEF OwnerGoes
  <2>2. CASE BootActivates(p, a)
    BY <1>1, <2>1, <2>2, LifecycleAssumption DEF BootActivates, BootComesTo, IsInjective
  <2>3. ASSUME NEW t \in Toggle, ToggleActivates(t, p, a) PROVE FALSE
    <3>1. boot.step = "done"
      BY <2>3, ToggleDoes DEF TakeTurns, ToggleActivates
    <3> QED BY <1>1, <1>2, <3>1 DEF Position
  <2> QED BY <2>1, <2>2, <2>3
<1> QED BY <1>3, <1>4

(* Steps that leave plugins and activations as they are. *)
LEMMA QuietInTurn ==
  ASSUME Shape, PluginsInTurn, UNCHANGED <<records, current, handlers>>,
         \A b \in Owner : /\ owners'[b].plugin = owners[b].plugin
                          /\ owners'[b].step = owners[b].step
                          /\ owners'[b].aborted = owners[b].aborted
                          /\ "services" \in owners'[b].owns <=> "services" \in owners[b].owns,
         \A k \in Caller : tasks'[k].step \in Unwinding =>
           /\ tasks[k].step \in Unwinding /\ tasks'[k].plugin = tasks[k].plugin
           /\ tasks'[k].owner = tasks[k].owner,
         tasks'[Stop].step \in Unwinding => \A t \in Toggle : Turning(t)' => Turning(t)
  PROVE  PluginsInTurn'
<1>1. AreAlone'
  BY DEF PluginsInTurn, AreAlone, InProgress, Unwinds
<1>2. UnwindTheirOwn'
  BY DEF PluginsInTurn, UnwindTheirOwn
<1>3. Fresh'
  BY DEF PluginsInTurn, Fresh
<1>4. Registers'
  BY DEF PluginsInTurn, Registers, IsActive
<1> QED BY <1>1, <1>2, <1>3, <1>4 DEF PluginsInTurn

(* A caller that goes on deactivating. *)
CallersKeep ==
  /\ \A k \in Caller : tasks'[k].step \in Unwinding => tasks'[k] = tasks[k]
  /\ tasks'[Stop].step \in Unwinding => \A t \in Toggle : Turning(t)' => Turning(t)

LEMMA ActivateInTurn ==
  ASSUME Shape, PluginsInTurn, NEW p \in Plugin, NEW a \in Owner, Activate(p, a), UNCHANGED handlers,
         current[p] = NoOwner, \A b \in Owner : ~InProgress(b),
         \A k \in Caller : ~Unwinds(k, p), CallersKeep
  PROVE  PluginsInTurn'
<1>1. /\ \A b \in Owner : b # a => owners'[b] = owners[b]
      /\ owners[a].step = "free" /\ owners'[a].step = "activating" /\ owners'[a].plugin = p
      /\ owners'[a].aborted = owners[a].aborted /\ owners'[a].owns = owners[a].owns
      /\ OwnerTypes /\ RegistryTypes
  BY ActivatedGoes, TypeParts DEF Shape
<1>2. current' = current /\ records' = [records EXCEPT ![p] = "activating"]
  BY DEF Activate
<1>3. records'[p] = "activating" /\ \A q \in Plugin : q # p => records'[q] = records[q]
  BY <1>1, <1>2 DEF RegistryTypes
<1>4. AreAlone'
  <2> SUFFICES ASSUME NEW b \in Owner, InProgress(b)'
               PROVE  /\ current'[owners'[b].plugin] = NoOwner
                      /\ records'[owners'[b].plugin] = "activating"
                      /\ \A k \in Caller : ~(/\ tasks'[k].step \in Unwinding
                                             /\ tasks'[k].plugin = owners'[b].plugin)
    BY DEF AreAlone, Unwinds
  <2>1. b = a
    BY <1>1 DEF InProgress
  <2> QED BY <1>1, <1>2, <1>3, <2>1 DEF Unwinds, CallersKeep
<1>5. UnwindTheirOwn'
  <2> SUFFICES ASSUME NEW k \in Caller, tasks'[k].step \in Unwinding
               PROVE  /\ current'[tasks'[k].plugin] \in {tasks'[k].owner, NoOwner}
                      /\ k = Stop => \/ records'[tasks'[k].plugin] = "deactivating"
                                     \/ \A t \in Toggle : ~Turning(t)'
    BY DEF UnwindTheirOwn, Turning
  <2>1. tasks'[k] = tasks[k] /\ tasks[k].step \in Unwinding /\ tasks[k].plugin # p
    BY DEF CallersKeep, Unwinds
  <2>2. tasks[k].plugin \in Plugin
    BY <2>1 DEF Shape, TasksAreKnown
  <2> QED BY <1>2, <1>3, <2>1, <2>2 DEF PluginsInTurn, UnwindTheirOwn, CallersKeep
<1>6. Fresh'
  BY <1>1 DEF PluginsInTurn, Fresh
<1>7. Registers'
  <2> SUFFICES ASSUME NEW b \in Owner
               PROVE  /\ "services" \in owners'[b].owns <=> IsActive(b)'
                      /\ IsActive(b)' => \A c \in Handles[owners'[b].plugin] : handlers'[c] = b
                      /\ \A c \in Command : handlers'[c] = b =>
                           IsActive(b)' \/ owners'[b].step \in {"processes", "disposing"}
    BY DEF Registers, IsActive
  <2>1. CASE b # a
    BY <1>1, <1>2, <2>1 DEF PluginsInTurn, Registers, IsActive
  <2>2. CASE b = a
    BY <1>1, <1>2, <2>2 DEF PluginsInTurn, Registers, IsActive
  <2> QED BY <2>1, <2>2
<1> QED BY <1>4, <1>5, <1>6, <1>7 DEF PluginsInTurn

(* A plugin without activation is recorded as disabled. *)
LEMMA SkipInTurn ==
  ASSUME Shape, PluginsInTurn, NEW p \in Plugin, records' = [records EXCEPT ![p] = "disabled"],
         UNCHANGED <<owners, current, handlers>>,
         \A b \in Owner : ~(InProgress(b) /\ owners[b].plugin = p), CallersKeep,
         Unwinds(Stop, p) => \A t \in Toggle : ~Turning(t)'
  PROVE  PluginsInTurn'
<1>1. \A q \in Plugin : q # p => records'[q] = records[q]
  BY TypeParts DEF Shape, RegistryTypes
<1>2. AreAlone'
  <2> SUFFICES ASSUME NEW b \in Owner, InProgress(b)
               PROVE  /\ current[owners[b].plugin] = NoOwner
                      /\ records'[owners[b].plugin] = "activating"
                      /\ \A k \in Caller : ~Unwinds(k, owners[b].plugin)'
    BY DEF AreAlone, Unwinds, InProgress
  <2>1. owners[b].plugin \in Plugin /\ owners[b].plugin # p
    BY DEF Shape, ActivationsAreKnown, InProgress
  <2> QED BY <1>1, <2>1 DEF PluginsInTurn, AreAlone, Unwinds, CallersKeep
<1>3. UnwindTheirOwn'
  <2> SUFFICES ASSUME NEW k \in Caller, tasks'[k].step \in Unwinding
               PROVE  /\ current[tasks'[k].plugin] \in {tasks'[k].owner, NoOwner}
                      /\ k = Stop => \/ records'[tasks'[k].plugin] = "deactivating"
                                     \/ \A t \in Toggle : ~Turning(t)'
    BY DEF UnwindTheirOwn, Turning
  <2>1. tasks'[k] = tasks[k] /\ tasks[k].step \in Unwinding /\ tasks[k].plugin \in Plugin
    BY DEF CallersKeep, Shape, TasksAreKnown
  <2>2. current[tasks[k].plugin] \in {tasks[k].owner, NoOwner}
    BY <2>1 DEF PluginsInTurn, UnwindTheirOwn
  <2>3. CASE k = Stop /\ tasks[k].plugin = p
    BY <2>1, <2>2, <2>3 DEF Unwinds
  <2>4. CASE k = Stop /\ tasks[k].plugin # p
    BY <1>1, <2>1, <2>2, <2>4 DEF PluginsInTurn, UnwindTheirOwn, CallersKeep
  <2> QED BY <2>1, <2>2, <2>3, <2>4
<1>4. Fresh' /\ Registers'
  BY DEF PluginsInTurn, Fresh, Registers, IsActive
<1> QED BY <1>2, <1>3, <1>4 DEF PluginsInTurn

(* What an activation under way may rely on. *)
LEMMA AloneWithPlugin ==
  ASSUME Shape, TakeTurns, AreAwaited, PluginsInTurn, NEW a \in Owner, InProgress(a)
  PROVE  /\ owners[a].plugin \in Plugin /\ current[owners[a].plugin] = NoOwner
         /\ records[owners[a].plugin] = "activating"
         /\ \A k \in Caller : ~Unwinds(k, owners[a].plugin)
         /\ \A b \in Owner : InProgress(b) => b = a
         /\ \A b \in Owner : IsActive(b) => owners[b].plugin # owners[a].plugin
         /\ ~IsActive(a) /\ "services" \notin owners[a].owns
<1>1. owners[a].plugin \in Plugin
  BY DEF Shape, ActivationsAreKnown, InProgress
<1>2. \A b \in Owner : InProgress(b) => b = a
  BY OneInProgress
<1>3. current[owners[a].plugin] = NoOwner /\ records[owners[a].plugin] = "activating"
      /\ \A k \in Caller : ~Unwinds(k, owners[a].plugin)
  BY DEF PluginsInTurn, AreAlone
<1>4. \A b \in Owner : IsActive(b) => owners[b].plugin # owners[a].plugin
  BY <1>3, BusAssumption DEF IsActive
<1> QED BY <1>1, <1>2, <1>3, <1>4 DEF PluginsInTurn, Registers

(* Records and entries of other plugins stay, and so do the callers. *)
LEMMA OthersUnwind ==
  ASSUME Shape, PluginsInTurn, UNCHANGED tasks, NEW p \in Plugin, \A k \in Caller : ~Unwinds(k, p),
         \A q \in Plugin : q # p => records'[q] = records[q] /\ current'[q] = current[q]
  PROVE  UnwindTheirOwn'
<1> SUFFICES ASSUME NEW k \in Caller, tasks[k].step \in Unwinding
             PROVE  /\ current'[tasks[k].plugin] \in {tasks[k].owner, NoOwner}
                    /\ k = Stop => \/ records'[tasks[k].plugin] = "deactivating"
                                   \/ \A t \in Toggle : ~Turning(t)
  BY DEF UnwindTheirOwn, Turning
<1>1. tasks[k].plugin \in Plugin /\ tasks[k].plugin # p
  BY DEF Shape, TasksAreKnown, Unwinds
<1> QED BY <1>1 DEF PluginsInTurn, UnwindTheirOwn

LEMMA CommitInTurn ==
  ASSUME Shape, TakeTurns, AreAwaited, PluginsInTurn, NEW a \in Owner, Commit(a)
  PROVE  PluginsInTurn'
<1> DEFINE p == owners[a].plugin
<1>1. /\ OwnerTypes /\ RegistryTypes /\ InProgress(a) /\ owners[a].step = "activating"
      /\ owners[a] \in OwnerRecord /\ handlers \in [Command -> Owner \cup {NoOwner}]
      /\ \A q \in Plugin : Handles[q] \in SUBSET Command
  BY TypeParts, BusParts, LifecycleAssumption DEF Shape, Commit, InProgress, OwnerTypes
<1>2. /\ p \in Plugin /\ current[p] = NoOwner /\ \A k \in Caller : ~Unwinds(k, p)
      /\ \A b \in Owner : InProgress(b) => b = a
      /\ \A b \in Owner : IsActive(b) => owners[b].plugin # p
  BY <1>1, AloneWithPlugin
<1>3. /\ owners'[a].plugin = p /\ owners'[a].step = "committed"
      /\ owners'[a].aborted = owners[a].aborted /\ "services" \in owners'[a].owns
      /\ \A b \in Owner : b # a => owners'[b] = owners[b]
  BY <1>1 DEF Commit, OwnerTypes, OwnerRecord
<1>4. /\ current'[p] = a /\ UNCHANGED tasks
      /\ \A q \in Plugin : q # p => current'[q] = current[q] /\ records'[q] = records[q]
  BY <1>1, <1>2 DEF Commit, RegistryTypes
<1>5. ~owners[a].aborted
  BY <1>1 DEF PluginsInTurn, Fresh
<1>6. /\ \A c \in Handles[p] : handlers[c] = NoOwner
      /\ \A c \in Command : handlers'[c] = IF c \in Handles[p] THEN a ELSE handlers[c]
  BY <1>1 DEF Commit, Conflict, With
<1> HIDE DEF p
<1>7. AreAlone'
  BY <1>2, <1>3 DEF AreAlone, InProgress
<1>8. UnwindTheirOwn'
  BY <1>2, <1>4, OthersUnwind
<1>9. Fresh'
  BY <1>3 DEF PluginsInTurn, Fresh
<1>10. Registers'
  <2> SUFFICES ASSUME NEW b \in Owner
               PROVE  /\ "services" \in owners'[b].owns <=> IsActive(b)'
                      /\ IsActive(b)' => \A c \in Handles[owners'[b].plugin] : handlers'[c] = b
                      /\ \A c \in Command : handlers'[c] = b =>
                           IsActive(b)' \/ owners'[b].step \in {"processes", "disposing"}
    BY DEF Registers, IsActive
  <2>1. CASE b = a
    <3>1. IsActive(a)'
      BY <1>3, <1>4, <1>5 DEF IsActive
    <3> QED BY <1>1, <1>2, <1>3, <1>6, <2>1, <3>1
  <2>2. CASE b # a
    <3>0. owners'[b] = owners[b]
      BY <1>3, <2>2
    <3>1. CASE owners[b].step = "free" \/ owners[b].plugin \notin Plugin
      <4>1. owners[b].step = "free"
        BY <3>1 DEF Shape, ActivationsAreKnown
      <4>2. ~IsActive(b) /\ ~IsActive(b)'
        BY <3>0, <4>1 DEF IsActive
      <4>3. "services" \notin owners[b].owns /\ \A c \in Command : handlers[c] # b
        BY <4>1, <4>2 DEF PluginsInTurn, Registers
      <4> QED BY <1>6, <2>2, <3>0, <4>2, <4>3
    <3>2. CASE owners[b].plugin \in Plugin
      <4>1. IsActive(b)' <=> IsActive(b)
        <5>1. CASE owners[b].plugin = p
          BY <1>2, <1>4, <2>2, <3>0, <5>1 DEF IsActive
        <5>2. CASE owners[b].plugin # p
          BY <1>4, <3>0, <3>2, <5>2 DEF IsActive
        <5> QED BY <5>1, <5>2
      <4>2. /\ "services" \in owners[b].owns <=> IsActive(b)
            /\ IsActive(b) => \A c \in Handles[owners[b].plugin] : handlers[c] = b
            /\ \A c \in Command : handlers[c] = b =>
                 IsActive(b) \/ owners[b].step \in {"processes", "disposing"}
        BY DEF PluginsInTurn, Registers
      <4>3. \A c \in Command : handlers'[c] = b <=> handlers[c] = b
        BY <1>6, <2>2, BusAssumption
      <4> QED BY <1>1, <3>0, <3>2, <4>1, <4>2, <4>3
    <3> QED BY <3>1, <3>2
  <2> QED BY <2>1, <2>2
<1> QED BY <1>7, <1>8, <1>9, <1>10 DEF PluginsInTurn

LEMMA FailInTurn ==
  ASSUME Shape, TakeTurns, AreAwaited, PluginsInTurn, NEW a \in Owner, Fail(a)
  PROVE  PluginsInTurn'
<1> DEFINE p == owners[a].plugin
<1>1. /\ OwnerTypes /\ RegistryTypes /\ InProgress(a) /\ owners[a].step = "activating"
      /\ \A q \in Plugin : Handles[q] \in SUBSET Command
      /\ UNCHANGED <<records, current, tasks>>
  BY TypeParts, LifecycleAssumption DEF Shape, Fail, InProgress, registry
<1>2. /\ p \in Plugin /\ current[p] = NoOwner /\ records[p] = "activating"
      /\ \A k \in Caller : ~Unwinds(k, p)
      /\ \A b \in Owner : InProgress(b) => b = a
      /\ \A b \in Owner : IsActive(b) => owners[b].plugin # p
  BY <1>1, AloneWithPlugin
<1>3. \A b \in Owner :
        /\ owners'[b].plugin = owners[b].plugin
        /\ owners'[b].step = IF b = a THEN "processes" ELSE owners[b].step
        /\ b # a => owners'[b].aborted = owners[b].aborted
        /\ owners[b].plugin = p => "services" \notin owners'[b].owns
        /\ owners[b].plugin # p => owners'[b] = owners[b]
  <2>1. PICK had \in SUBSET Kinds : AbortOwner(a, "processes", had, {"services"})
    BY DEF Fail, Kinds
  <2>2. "processes" \in OwnerSteps /\ {"services"} \in SUBSET Kinds
    BY DEF OwnerSteps, Kinds
  <2> QED BY <1>1, <2>1, <2>2, AbortedSteps
<1>4. \A c \in Command : \/ handlers'[c] = handlers[c]
                         \/ handlers[c] = NoOwner /\ handlers'[c] = a
  <2>1. CASE UNCHANGED handlers
    BY <2>1
  <2>2. ASSUME NEW some \in SUBSET (Handles[p] \ Conflict(a)), handlers' = With(some, a)
        PROVE  \A c \in Command : \/ handlers'[c] = handlers[c]
                                  \/ handlers[c] = NoOwner /\ handlers'[c] = a
    BY <1>1, <1>2, <2>2 DEF With, Conflict
  <2> QED BY <2>1, <2>2 DEF Fail
<1> HIDE DEF p
<1>5. AreAlone'
  BY <1>1, <1>2, <1>3 DEF PluginsInTurn, AreAlone, InProgress, Unwinds
<1>6. UnwindTheirOwn'
  BY <1>1, <1>2, OthersUnwind
<1>7. Fresh'
  BY <1>3 DEF PluginsInTurn, Fresh
<1>8. Registers'
  <2> SUFFICES ASSUME NEW b \in Owner
               PROVE  /\ "services" \in owners'[b].owns <=> IsActive(b)'
                      /\ IsActive(b)' => \A c \in Handles[owners'[b].plugin] : handlers'[c] = b
                      /\ \A c \in Command : handlers'[c] = b =>
                           IsActive(b)' \/ owners'[b].step \in {"processes", "disposing"}
    BY DEF Registers, IsActive
  <2>1. CASE b = a
    BY <1>3, <2>1 DEF IsActive, p
  <2>2. CASE b # a
    <3>1. IsActive(b)' <=> IsActive(b)
      BY <1>1, <1>3, <2>2 DEF IsActive
    <3>2. owners[b].plugin = p => ~IsActive(b)
      BY <1>2
    <3>3. /\ "services" \in owners[b].owns <=> IsActive(b)
          /\ IsActive(b) => \A c \in Handles[owners[b].plugin] : handlers[c] = b
          /\ \A c \in Command : handlers[c] = b =>
               IsActive(b) \/ owners[b].step \in {"processes", "disposing"}
      BY DEF PluginsInTurn, Registers
    <3>4. \A c \in Command : handlers'[c] = b <=> handlers[c] = b
      BY <1>4, <2>2, BusAssumption
    <3>5. IsActive(b) => owners[b].plugin \in Plugin
      BY DEF IsActive, Shape, ActivationsAreKnown
    <3> QED BY <1>1, <1>3, <2>2, <3>1, <3>2, <3>3, <3>4, <3>5
  <2> QED BY <2>1, <2>2
<1> QED BY <1>5, <1>6, <1>7, <1>8 DEF PluginsInTurn

LEMMA FailingInTurn ==
  ASSUME Shape, TakeTurns, AreAwaited, PluginsInTurn, NEW a \in Owner,
         FailedProcessesEnd(a) \/ FailureEnds(a)
  PROVE  PluginsInTurn'
<1> DEFINE p == owners[a].plugin
<1>1. /\ OwnerTypes /\ RegistryTypes /\ InProgress(a) /\ owners[a].step \in {"processes", "disposing"}
      /\ UNCHANGED <<current, tasks>>
      /\ handlers \in [Command -> Owner \cup {NoOwner}]
  BY TypeParts, BusParts DEF Shape, FailedProcessesEnd, FailureEnds, InProgress, registry
<1>2. /\ p \in Plugin /\ current[p] = NoOwner /\ records[p] = "activating"
      /\ \A k \in Caller : ~Unwinds(k, p)
      /\ \A b \in Owner : InProgress(b) => b = a
      /\ \A b \in Owner : IsActive(b) => owners[b].plugin # p
      /\ "services" \notin owners[a].owns
  BY <1>1, AloneWithPlugin
<1>3. /\ \A b \in Owner : b # a => owners'[b] = owners[b]
      /\ owners'[a].plugin = p /\ "services" \notin owners'[a].owns
      /\ owners'[a].step \in {"disposing", "failed"}
  <2>1. owners[a] \in OwnerRecord
    BY <1>1 DEF OwnerTypes
  <2>2. CASE FailedProcessesEnd(a)
    BY <1>1, <1>2, <2>1, <2>2 DEF FailedProcessesEnd, OwnerTypes, OwnerRecord
  <2>3. CASE FailureEnds(a)
    <3>1. PICK left \in SUBSET owners[a].owns :
            owners' = [owners EXCEPT ![a].step = "failed", ![a].owns = left]
      BY <2>3 DEF FailureEnds
    <3>2. owners'[a] = [owners[a] EXCEPT !.step = "failed", !.owns = left]
          /\ \A b \in Owner : b # a => owners'[b] = owners[b]
      BY <1>1, <3>1 DEF OwnerTypes
    <3> QED BY <1>2, <2>1, <3>2 DEF OwnerRecord
  <2> QED BY <2>2, <2>3
<1>4. /\ \A q \in Plugin : q # p => records'[q] = records[q]
      /\ owners'[a].step = "disposing" => records' = records
  <2>1. owners[a] \in OwnerRecord
    BY <1>1 DEF OwnerTypes
  <2>2. CASE FailedProcessesEnd(a)
    BY <2>2 DEF FailedProcessesEnd, registry
  <2>3. CASE FailureEnds(a)
    <3>1. owners'[a].step = "failed"
      <4>1. PICK left \in SUBSET owners[a].owns :
              owners' = [owners EXCEPT ![a].step = "failed", ![a].owns = left]
        BY <2>3 DEF FailureEnds
      <4>2. owners'[a] = [owners[a] EXCEPT !.step = "failed", !.owns = left]
        BY <1>1, <4>1 DEF OwnerTypes
      <4> QED BY <2>1, <4>2 DEF OwnerRecord
    <3>2. records' = [records EXCEPT ![p] = "failed"]
      BY <2>3 DEF FailureEnds
    <3> QED BY <1>1, <1>2, <3>1, <3>2 DEF RegistryTypes
  <2> QED BY <2>2, <2>3
<1>5. \A c \in Command : /\ handlers'[c] \in {handlers[c], NoOwner}
                         /\ handlers[c] \in Owner /\ owners[handlers[c]].plugin # p =>
                              handlers'[c] = handlers[c]
                         /\ owners'[a].step = "failed" => handlers'[c] # a
  <2>1. owners[a] \in OwnerRecord
    BY <1>1 DEF OwnerTypes
  <2>2. CASE FailedProcessesEnd(a)
    <3>1. owners'[a].step = "disposing"
      BY <1>1, <2>1, <2>2 DEF FailedProcessesEnd, OwnerTypes, OwnerRecord
    <3> QED BY <2>2, <3>1 DEF FailedProcessesEnd, busVars
  <2>3. CASE FailureEnds(a)
    <3>1. handlers' = Without(Of(p))
      BY <2>3 DEF FailureEnds
    <3> QED BY <1>1, <3>1, BusAssumption DEF Without, Of
  <2> QED BY <2>2, <2>3
<1> HIDE DEF p
<1>6. AreAlone'
  <2>1. ASSUME NEW b \in Owner, InProgress(b)'
        PROVE  b = a /\ owners'[a].step = "disposing"
    BY <1>2, <1>3, <2>1 DEF InProgress
  <2> QED BY <1>1, <1>2, <1>3, <1>4, <2>1 DEF AreAlone, Unwinds
<1>7. UnwindTheirOwn'
  BY <1>1, <1>2, <1>4, OthersUnwind
<1>8. Fresh'
  BY <1>3 DEF PluginsInTurn, Fresh
<1>9. Registers'
  <2> SUFFICES ASSUME NEW b \in Owner
               PROVE  /\ "services" \in owners'[b].owns <=> IsActive(b)'
                      /\ IsActive(b)' => \A c \in Handles[owners'[b].plugin] : handlers'[c] = b
                      /\ \A c \in Command : handlers'[c] = b =>
                           IsActive(b)' \/ owners'[b].step \in {"processes", "disposing"}
    BY DEF Registers, IsActive
  <2>1. CASE b = a
    BY <1>3, <1>5, <2>1 DEF IsActive
  <2>2. CASE b # a
    <3>1. IsActive(b)' <=> IsActive(b)
      BY <1>1, <1>3, <2>2 DEF IsActive
    <3>2. /\ "services" \in owners[b].owns <=> IsActive(b)
          /\ IsActive(b) => \A c \in Handles[owners[b].plugin] : handlers[c] = b
          /\ \A c \in Command : handlers[c] = b =>
               IsActive(b) \/ owners[b].step \in {"processes", "disposing"}
      BY DEF PluginsInTurn, Registers
    <3>3. \A c \in Command : handlers'[c] = b => handlers[c] = b
      BY <1>5, BusAssumption
    <3>4. ASSUME IsActive(b), NEW c \in Handles[owners[b].plugin] PROVE handlers'[c] = b
      <4>1. c \in Command /\ owners[b].plugin # p
        <5>1. owners[b].plugin \in Plugin
          BY <3>4 DEF IsActive, Shape, ActivationsAreKnown
        <5> QED BY <1>2, <3>4, <5>1, LifecycleAssumption
      <4> QED BY <1>5, <3>2, <3>4, <4>1
    <3> QED BY <1>3, <2>2, <3>1, <3>2, <3>3, <3>4
  <2> QED BY <2>1, <2>2
<1> QED BY <1>6, <1>7, <1>8, <1>9 DEF PluginsInTurn

LEMMA BeginInTurn ==
  ASSUME Shape, PluginsInTurn, NEW k \in Caller, NEW p \in Plugin, current[p] # NoOwner,
         BeginDeactivation(k, p),
         \A t \in Toggle : Turning(t)' => Turning(t)
  PROVE  PluginsInTurn'
<1> DEFINE a == current[p]
<1>1. /\ OwnerTypes /\ RegistryTypes /\ TaskTypes /\ a \in Owner /\ a # NoOwner
      /\ owners[a].plugin = p /\ owners[a].step = "committed"
      /\ handlers \in [Command -> Owner \cup {NoOwner}] /\ UNCHANGED current
  BY TypeParts, BusParts, BusAssumption DEF Shape, ActivationsAreKnown, RegistryTypes, BeginDeactivation
<1>2. \A b \in Owner :
        /\ owners'[b].plugin = owners[b].plugin /\ owners'[b].step = owners[b].step
        /\ b # a => owners'[b].aborted = owners[b].aborted
        /\ owners'[a].aborted
        /\ owners[b].plugin = p => "services" \notin owners'[b].owns
        /\ owners[b].plugin # p => owners'[b] = owners[b]
  <2>1. AbortOwner(a, owners[a].step, owners[a].owns, Kinds)
    BY DEF BeginDeactivation, Kinds
  <2>2. /\ owners[a].owns \in SUBSET Kinds /\ owners[a].step \in OwnerSteps
        /\ Kinds \in SUBSET Kinds /\ "services" \in Kinds
    BY <1>1 DEF OwnerTypes, OwnerRecord, Kinds
  <2> QED BY <1>1, <2>1, <2>2, AbortedSteps
<1>3. /\ tasks'[k].step = "processes" /\ tasks'[k].plugin = p /\ tasks'[k].owner = a
      /\ \A j \in Caller : j # k => tasks'[j] = tasks[j]
  BY <1>1 DEF BeginDeactivation, TaskTypes, NoTask
<1>4. records'[p] = "deactivating" /\ \A q \in Plugin : q # p => records'[q] = records[q]
  BY <1>1 DEF BeginDeactivation, RegistryTypes
<1>5. \A c \in Command : handlers'[c] = IF handlers[c] \in Owner /\ owners[handlers[c]].plugin = p
                                        THEN NoOwner ELSE handlers[c]
  BY <1>1 DEF BeginDeactivation, Without, Of
<1>6. \A b \in Owner : InProgress(b) => owners[b].plugin \in Plugin /\ owners[b].plugin # p
  BY <1>1 DEF PluginsInTurn, AreAlone, Shape, ActivationsAreKnown, InProgress
<1> HIDE DEF a
<1>7. AreAlone'
  <2> SUFFICES ASSUME NEW b \in Owner, InProgress(b)'
               PROVE  /\ current'[owners'[b].plugin] = NoOwner
                      /\ records'[owners'[b].plugin] = "activating"
                      /\ \A j \in Caller : ~(/\ tasks'[j].step \in Unwinding
                                             /\ tasks'[j].plugin = owners'[b].plugin)
    BY DEF AreAlone, Unwinds
  <2>1. InProgress(b) /\ owners[b].plugin \in Plugin /\ owners[b].plugin # p
    BY <1>2, <1>6 DEF InProgress
  <2> QED BY <1>1, <1>2, <1>3, <1>4, <2>1 DEF PluginsInTurn, AreAlone, Unwinds
<1>8. UnwindTheirOwn'
  <2> SUFFICES ASSUME NEW j \in Caller, tasks'[j].step \in Unwinding
               PROVE  /\ current'[tasks'[j].plugin] \in {tasks'[j].owner, NoOwner}
                      /\ j = Stop => \/ records'[tasks'[j].plugin] = "deactivating"
                                     \/ \A t \in Toggle : ~Turning(t)'
    BY DEF UnwindTheirOwn, Turning
  <2>1. CASE j = k
    BY <1>1, <1>3, <1>4, <2>1 DEF a
  <2>2. CASE j # k
    <3>1. tasks'[j] = tasks[j] /\ tasks[j].step \in Unwinding /\ tasks[j].plugin \in Plugin
      BY <1>3, <2>2 DEF Shape, TasksAreKnown
    <3>2. j = Stop => records[tasks[j].plugin] = "deactivating" \/ \A t \in Toggle : ~Turning(t)'
      BY <3>1 DEF PluginsInTurn, UnwindTheirOwn
    <3>3. current'[tasks[j].plugin] \in {tasks[j].owner, NoOwner}
      BY <1>1, <3>1 DEF PluginsInTurn, UnwindTheirOwn
    <3> QED BY <1>4, <3>1, <3>2, <3>3
  <2> QED BY <2>1, <2>2
<1>9. Fresh'
  BY <1>1, <1>2 DEF PluginsInTurn, Fresh
<1>10. Registers'
  <2> SUFFICES ASSUME NEW b \in Owner
               PROVE  /\ "services" \in owners'[b].owns <=> IsActive(b)'
                      /\ IsActive(b)' => \A c \in Handles[owners'[b].plugin] : handlers'[c] = b
                      /\ \A c \in Command : handlers'[c] = b =>
                           IsActive(b)' \/ owners'[b].step \in {"processes", "disposing"}
    BY DEF Registers, IsActive
  <2>1. CASE owners[b].plugin = p
    <3>1. ~IsActive(b)'
      BY <1>1, <1>2, <2>1 DEF IsActive, a
    <3>2. \A c \in Command : handlers'[c] # b
      BY <1>5, <2>1, BusAssumption
    <3> QED BY <1>2, <2>1, <3>1, <3>2
  <2>2. CASE owners[b].plugin # p
    <3>1. IsActive(b)' <=> IsActive(b)
      BY <1>1, <1>2, <2>2 DEF IsActive
    <3>2. /\ "services" \in owners[b].owns <=> IsActive(b)
          /\ IsActive(b) => \A c \in Handles[owners[b].plugin] : handlers[c] = b
          /\ \A c \in Command : handlers[c] = b =>
               IsActive(b) \/ owners[b].step \in {"processes", "disposing"}
      BY DEF PluginsInTurn, Registers
    <3>3. \A c \in Command : handlers'[c] = b <=> handlers[c] = b
      BY <1>5, <2>2, BusAssumption
    <3>4. IsActive(b) => \A c \in Handles[owners[b].plugin] : c \in Command
      BY LifecycleAssumption DEF IsActive, Shape, ActivationsAreKnown
    <3> QED BY <1>2, <2>2, <3>1, <3>2, <3>3, <3>4
  <2> QED BY <2>1, <2>2
<1> QED BY <1>7, <1>8, <1>9, <1>10 DEF PluginsInTurn

LEMMA EndsInTurn ==
  ASSUME Shape, TakeTurns, PluginsInTurn, NEW k \in Caller, DeactivationEnds(k)
  PROVE  PluginsInTurn'
<1> DEFINE p == tasks[k].plugin
<1>1. /\ RegistryTypes /\ TaskTypes /\ tasks[k].step \in Unwinding /\ p \in Plugin
      /\ UNCHANGED <<owners, handlers>>
      /\ tasks[k].owner \in Owner /\ owners[tasks[k].owner].aborted
  BY TypeParts DEF Shape, TasksAreKnown, DeactivationEnds, Unwinding, busVars
<1>2. /\ current'[p] = NoOwner /\ records'[p] = "disabled"
      /\ \A q \in Plugin : q # p => records'[q] = records[q] /\ current'[q] = current[q]
  BY <1>1 DEF DeactivationEnds, RegistryTypes
<1>3. /\ tasks'[k].step = IF k = Stop THEN "next" ELSE "done"
      /\ \A j \in Caller : j # k => tasks'[j] = tasks[j]
  BY <1>1 DEF DeactivationEnds, TaskTypes, Done, NoTask
<1>4. \A b \in Owner : IsActive(b) => owners[b].plugin # p
  <2>1. current[p] \in {tasks[k].owner, NoOwner}
    BY <1>1 DEF PluginsInTurn, UnwindTheirOwn
  <2> QED BY <1>1, <2>1, BusAssumption DEF IsActive
<1>5. \A b \in Owner : InProgress(b) => owners[b].plugin \in Plugin /\ owners[b].plugin # p
  BY <1>1 DEF PluginsInTurn, AreAlone, Shape, ActivationsAreKnown, InProgress, Unwinds
<1> HIDE DEF p
<1>6. AreAlone'
  <2> SUFFICES ASSUME NEW b \in Owner, InProgress(b)
               PROVE  /\ current'[owners[b].plugin] = NoOwner
                      /\ records'[owners[b].plugin] = "activating"
                      /\ \A j \in Caller : ~(/\ tasks'[j].step \in Unwinding
                                             /\ tasks'[j].plugin = owners[b].plugin)
    BY <1>1 DEF AreAlone, Unwinds, InProgress
  <2>1. owners[b].plugin \in Plugin /\ owners[b].plugin # p
    BY <1>5
  <2>2. tasks'[k].step \notin Unwinding
    BY <1>3 DEF Unwinding
  <2> QED BY <1>2, <1>3, <2>1, <2>2 DEF PluginsInTurn, AreAlone, Unwinds
<1>7. UnwindTheirOwn'
  <2> SUFFICES ASSUME NEW j \in Caller, tasks'[j].step \in Unwinding
               PROVE  /\ current'[tasks'[j].plugin] \in {tasks'[j].owner, NoOwner}
                      /\ j = Stop => \/ records'[tasks'[j].plugin] = "deactivating"
                                     \/ \A t \in Toggle : ~Turning(t)'
    BY DEF UnwindTheirOwn, Turning
  <2>1. j # k /\ tasks'[j] = tasks[j] /\ tasks[j].step \in Unwinding /\ tasks[j].plugin \in Plugin
    BY <1>3 DEF Unwinding, Shape, TasksAreKnown
  <2>2. current'[tasks[j].plugin] \in {tasks[j].owner, NoOwner}
    <3>1. CASE tasks[j].plugin = p
      BY <1>2, <3>1
    <3>2. CASE tasks[j].plugin # p
      BY <1>2, <2>1, <3>2 DEF PluginsInTurn, UnwindTheirOwn
    <3> QED BY <3>1, <3>2
  <2>3. ASSUME j = Stop PROVE \A t \in Toggle : ~Turning(t)'
    <3>1. k \in Toggle /\ Turning(k)
      BY <1>1, <2>1, <2>3 DEF Caller, Turning, Unwinding
    <3>2. \A t \in Toggle : t # k => ~Turning(t)
      BY <3>1 DEF TakeTurns
    <3> QED BY <1>3, <2>1, <2>3, <3>1, <3>2 DEF Turning, Caller
  <2> QED BY <2>1, <2>2, <2>3
<1>8. Fresh'
  BY <1>1 DEF PluginsInTurn, Fresh
<1>9. Registers'
  <2> SUFFICES ASSUME NEW b \in Owner PROVE IsActive(b)' <=> IsActive(b)
    BY <1>1 DEF PluginsInTurn, Registers
  <2>1. CASE owners[b].plugin = p
    BY <1>1, <1>2, <1>4, <2>1, BusAssumption DEF IsActive
  <2>2. CASE owners[b].plugin # p
    <3>1. owners[b].step = "committed" => owners[b].plugin \in Plugin
      BY DEF Shape, ActivationsAreKnown
    <3> QED BY <1>1, <1>2, <2>2, <3>1 DEF IsActive
  <2> QED BY <2>1, <2>2
<1> QED BY <1>6, <1>7, <1>8, <1>9 DEF PluginsInTurn

(* Steps of start. *)
LEMMA BootInTurn ==
  ASSUME Shape, InTurn, BootStep
  PROVE  PluginsInTurn'
<1>1. /\ UNCHANGED <<current, tasks, handlers>> /\ TakeTurns /\ PluginsInTurn
      /\ DOMAIN Order = 1 .. Len(Order) /\ Position \in Int
  <2>1. boot.next \in Int
    BY TypeParts DEF Shape, CoreTypes, BootRecord
  <2>2. Position \in Int
    BY <2>1, LifecycleAssumption, OrderIsOfPlugins DEF Position, Order
  <2>3. DOMAIN Order = 1 .. Len(Order)
    BY LifecycleAssumption DEF Order
  <2> QED BY <2>2, <2>3, BootGoesOn DEF InTurn
<1>2. CallersKeep
  BY <1>1 DEF CallersKeep, Turning
<1>3. ASSUME NEW b \in Owner, InProgress(b) PROVE FALSE
  <2>1. b # NoOwner /\ ~Activated(b)
    BY <1>3, BusAssumption DEF InProgress, Activated
  <2>2. boot.step # "done"
        /\ (boot.step \in {"bootstrap", "ordinary"} => boot.awaits = NoOwner \/ Activated(boot.awaits))
    BY <1>1, BootDoes
  <2>3. \A t \in Toggle : ~Turning(t)
    BY <1>1, <2>2 DEF TakeTurns
  <2> QED BY <1>3, <2>1, <2>2, <2>3 DEF InTurn, AreAwaited, Turning
<1>4. ASSUME NEW p \in Plugin, BootComesTo(p)
      PROVE  /\ current[p] = NoOwner /\ \A k \in Caller : ~Unwinds(k, p)
  <2>1. \A b \in Owner : owners[b].step # "free" => owners[b].plugin # p
    BY <1>1, <1>4 DEF BootComesTo, InTurn, AreToCome
  <2>2. current[p] = NoOwner
    BY <2>1, TypeParts DEF Shape, ActivationsAreKnown, RegistryTypes
  <2>3. ASSUME NEW k \in Caller, Unwinds(k, p) PROVE FALSE
    BY <2>1, <2>3 DEF Shape, TasksAreKnown, Unwinds
  <2> QED BY <2>2, <2>3
<1>5. CASE BootRests
  <2>1. \A k \in Caller : tasks'[k].step \in Unwinding =>
           /\ tasks[k].step \in Unwinding /\ tasks'[k].plugin = tasks[k].plugin
           /\ tasks'[k].owner = tasks[k].owner
    BY <1>1
  <2>2. tasks'[Stop].step \in Unwinding => \A t \in Toggle : Turning(t)' => Turning(t)
    BY <1>1 DEF Turning
  <2> QED BY <1>1, <1>5, <2>1, <2>2, QuietInTurn DEF BootRests
<1>6. ASSUME NEW p \in Plugin, BootSkips(p) PROVE PluginsInTurn'
  <2>1. current[p] = NoOwner /\ \A k \in Caller : ~Unwinds(k, p)
    BY <1>4, <1>6 DEF BootSkips
  <2>2. Stop \in Caller
    BY DEF Caller
  <2> QED BY <1>1, <1>2, <1>3, <1>6, <2>1, <2>2, SkipInTurn DEF BootSkips
<1>7. ASSUME NEW p \in Plugin, NEW a \in Owner, BootActivates(p, a) PROVE PluginsInTurn'
  <2>1. current[p] = NoOwner /\ \A k \in Caller : ~Unwinds(k, p)
    BY <1>4, <1>7 DEF BootActivates
  <2> QED BY <1>1, <1>2, <1>3, <1>7, <2>1, ActivateInTurn DEF BootActivates
<1> QED BY <1>1, <1>5, <1>6, <1>7, BootDoes

(* Steps of setEnabled. *)
LEMMA ToggleInTurn ==
  ASSUME Shape, InTurn, NEW t \in Toggle, ToggleStep(t)
  PROVE  PluginsInTurn'
<1>1. /\ t \in Caller /\ t # Stop /\ TaskTypes /\ TakeTurns /\ PluginsInTurn
      /\ tasks[t].step \in {"writing", "written"} => tasks[t].plugin \in Plugin
      /\ tasks[t].step = "written" => Turning(t)
  BY TypeParts, LifecycleAssumption DEF Shape, TasksAreKnown, Caller, InTurn, Turning
<1>2. ASSUME \E r : tasks' = [tasks EXCEPT ![t] = r]
      PROVE  \A k \in Caller : k # t => tasks'[k] = tasks[k]
  BY <1>1, <1>2 DEF TaskTypes
<1>3. Stop \in Caller /\ \A u \in Toggle : u \in Caller
  BY DEF Caller
<1>4. ASSUME NEW r, tasks' = [tasks EXCEPT ![t] = r], r.step \notin Unwinding,
             Turning(t) \/ r.step = "done"
      PROVE  CallersKeep
  <2>1. \A k \in Caller : tasks'[k] = IF k = t THEN r ELSE tasks[k]
    BY <1>1, <1>4 DEF TaskTypes
  <2> QED BY <1>1, <1>3, <1>4, <2>1 DEF CallersKeep, Turning
<1>5. ASSUME CallersKeep, UNCHANGED <<records, current, handlers, owners>> PROVE PluginsInTurn'
  BY <1>1, <1>5, QuietInTurn DEF CallersKeep
<1>6. ASSUME tasks' = [tasks EXCEPT ![t] = Done] PROVE CallersKeep
  <2>1. Done.step = "done" /\ Done.step \notin Unwinding
    BY DEF Done, NoTask, Unwinding
  <2>2. CallersKeep
    BY <1>4, <1>6, <2>1
  <2> QED BY <2>2
<1>7. CASE WriteEnds(t)
  <2>1. Turning(t) /\ tasks[t] \in TaskRecord
    BY <1>1, <1>7 DEF WriteEnds, Turning, TaskTypes
  <2>2. [tasks[t] EXCEPT !.step = "written"].step = "written"
    BY <2>1 DEF TaskRecord
  <2>3. tasks' = [tasks EXCEPT ![t] = [tasks[t] EXCEPT !.step = "written"]]
        \/ tasks' = [tasks EXCEPT ![t] = Done]
    BY <1>1, <1>7 DEF WriteEnds, TaskTypes
  <2>4. Done.step = "done" /\ "written" \notin Unwinding /\ "done" \notin Unwinding
    BY DEF Done, NoTask, Unwinding
  <2>5. CallersKeep
    BY <1>4, <2>1, <2>2, <2>3, <2>4
  <2> QED BY <1>5, <1>7, <2>5 DEF WriteEnds, registry, busVars
<1>8. ASSUME tasks[t].step = "written", NEW b \in Owner, InProgress(b) PROVE FALSE
  <2>1. Turning(t) /\ boot.step = "done"
    BY <1>1, <1>8 DEF TakeTurns
  <2>2. PICK u \in Toggle : tasks[u].step = "activation"
    BY <1>8, <2>1 DEF InTurn, AreAwaited
  <2>3. u = t
    BY <1>1, <2>1, <2>2 DEF TakeTurns, Turning
  <2> QED BY <1>8, <2>2, <2>3
<1>9. CASE EnableEnds(t)
  BY <1>5, <1>6, <1>9 DEF EnableEnds, registry, busVars
<1>10. CASE Enable(t)
  <2>1. UNCHANGED handlers /\ tasks[t].step = "written"
    BY <1>10 DEF Enable, busVars
  <2>2. CASE tasks' = [tasks EXCEPT ![t] = Done] /\ UNCHANGED <<registry, owners>>
    BY <1>5, <1>6, <2>1, <2>2 DEF registry
  <2>3. ASSUME NEW a \in Owner, ToggleActivates(t, tasks[t].plugin, a) PROVE PluginsInTurn'
    <3> DEFINE p == tasks[t].plugin
    <3>1. p \in Plugin /\ Activate(p, a) /\ current[p] = NoOwner /\ Turning(t)
      BY <1>1, <2>1, <2>3 DEF ToggleActivates
    <3>2. ASSUME NEW k \in Caller, Unwinds(k, p) PROVE FALSE
      <4>1. CASE k = Stop
        <5>1. records[p] = "deactivating"
          BY <1>1, <3>1, <3>2, <4>1 DEF PluginsInTurn, UnwindTheirOwn, Unwinds
        <5> QED BY <3>1, <5>1 DEF Activate, Refused
      <4>2. CASE k # Stop
        <5>1. k \in Toggle /\ Turning(k)
          BY <3>2, <4>2 DEF Caller, Unwinds, Turning, Unwinding
        <5>2. k = t
          BY <1>1, <3>1, <5>1 DEF TakeTurns
        <5> QED BY <2>1, <3>2, <5>2 DEF Unwinds, Unwinding
      <4> QED BY <4>1, <4>2
    <3>3. CallersKeep
      <4>1. \E q : tasks' = [tasks EXCEPT ![t] = q] /\ q.step = "activation"
        <5>1. current[p] = NoOwner /\ ~Refused(p)
          BY <3>1 DEF Activate
        <5>2. \E b \in Owner :
                tasks' = [tasks EXCEPT ![t] = [NoTask EXCEPT !.step = "activation", !.owner = b]]
          BY <1>10, <5>1 DEF Enable
        <5>3. PICK b \in Owner :
                tasks' = [tasks EXCEPT ![t] = [NoTask EXCEPT !.step = "activation", !.owner = b]]
          BY <5>2
        <5>4. [NoTask EXCEPT !.step = "activation", !.owner = b].step = "activation"
          BY DEF NoTask
        <5> QED BY <5>3, <5>4
      <4>2. "activation" \notin Unwinding
        BY DEF Unwinding
      <4> QED BY <1>4, <3>1, <4>1, <4>2
    <3>4. \A b \in Owner : ~InProgress(b)
      BY <1>8, <2>1
    <3>5. \A k \in Caller : ~Unwinds(k, p)
      BY <3>2
    <3> HIDE DEF p
    <3> QED BY <1>1, <2>1, <3>1, <3>3, <3>4, <3>5, ActivateInTurn
  <2> QED BY <1>10, <2>2, <2>3, ToggleDoes
<1>11. CASE Disable(t)
  <2> DEFINE p == tasks[t].plugin
  <2>1. tasks[t].step = "written" /\ Turning(t) /\ p \in Plugin
    BY <1>1, <1>11 DEF Disable
  <2>2. \E r : tasks' = [tasks EXCEPT ![t] = r]
    BY <1>11 DEF Disable, BeginDeactivation
  <2>3. \A u \in Toggle : Turning(u)' => Turning(u)
    BY <1>2, <1>3, <2>1, <2>2 DEF Turning
  <2>4. CASE current[p] # NoOwner
    <3>1. BeginDeactivation(t, p)
      BY <1>11, <2>4 DEF Disable
    <3> HIDE DEF p
    <3> QED BY <1>1, <2>1, <2>3, <2>4, <3>1, BeginInTurn
  <2>5. CASE current[p] = NoOwner
    <3>1. /\ records' = [records EXCEPT ![p] = "disabled"]
          /\ tasks' = [tasks EXCEPT ![t] = Done]
          /\ UNCHANGED <<current, owners, handlers>>
      BY <1>11, <2>5 DEF Disable, busVars
    <3>2. \A u \in Toggle : ~Turning(u)'
      <4>1. tasks'[t].step = "done"
        BY <1>1, <3>1 DEF TaskTypes, Done, NoTask
      <4> QED BY <1>1, <2>1, <2>3, <4>1 DEF TakeTurns, Turning
    <3>3. \A b \in Owner : ~(InProgress(b) /\ owners[b].plugin = p)
      BY <1>8, <2>1
    <3>4. CallersKeep
      BY <1>6, <3>1
    <3> HIDE DEF p
    <3> QED BY <1>1, <2>1, <3>1, <3>2, <3>3, <3>4, SkipInTurn
  <2> QED BY <2>4, <2>5
<1> QED BY <1>7, <1>9, <1>10, <1>11 DEF ToggleStep

LEMMA SetEnabledInTurn ==
  ASSUME Shape, InTurn, Next, ~overlap', NEW t \in Toggle, NEW p \in Plugin, NEW enable \in BOOLEAN,
         SetEnabled(t, p, enable)
  PROVE  PluginsInTurn'
<1>1. /\ t \in Caller /\ TaskTypes /\ PluginsInTurn
      /\ UNCHANGED <<records, current, handlers, owners>>
  BY TypeParts DEF Shape, Caller, InTurn, SetEnabled, registry, busVars
<1>2. \A k \in Caller : tasks[k].step \in {"idle", "done"}
  BY BeginsAlone
<1>3. tasks'[t].step = "writing" /\ \A k \in Caller : k # t => tasks'[k] = tasks[k]
  BY <1>1 DEF SetEnabled, TaskTypes, NoTask
<1>4. \A k \in Caller : tasks'[k].step \notin Unwinding
  BY <1>1, <1>2, <1>3 DEF Unwinding
<1>5. Stop \in Caller
  BY DEF Caller
<1> QED BY <1>1, <1>4, <1>5, QuietInTurn

(* Steps of stop. *)
LEMMA StopInTurn ==
  ASSUME Shape, InTurn, StopStep \/ StopKernel
  PROVE  PluginsInTurn'
<1>1. /\ Stop \in Caller /\ TaskTypes /\ PluginsInTurn /\ stopList \in Seq(Plugin)
      /\ \A t \in Toggle : t \in Caller /\ t # Stop
  BY TypeParts, LifecycleAssumption DEF Shape, CoreTypes, Caller, InTurn
<1>2. ASSUME NEW step, step \notin Unwinding, tasks' = [tasks EXCEPT ![Stop].step = step]
      PROVE  CallersKeep
  <2>1. \A k \in Caller : k # Stop => tasks'[k] = tasks[k]
    BY <1>1, <1>2 DEF TaskTypes
  <2>2. tasks'[Stop].step = step
    BY <1>1, <1>2 DEF TaskTypes, TaskRecord
  <2> QED BY <1>1, <1>2, <2>1, <2>2 DEF CallersKeep
<1>3. "shutdown" \notin Unwinding /\ "done" \notin Unwinding /\ "next" \notin Unwinding
  BY DEF Unwinding
<1>4. CASE StopNext
  <2> DEFINE p == Head(stopList)
  <2>1. p \in Plugin
    BY <1>1, <1>4 DEF StopNext
  <2>2. CASE current[p] # NoOwner
    <3>1. BeginDeactivation(Stop, p)
      BY <1>4, <2>2 DEF StopNext
    <3>2. \A u \in Toggle : Turning(u)' => Turning(u)
      BY <1>1, <3>1 DEF BeginDeactivation, TaskTypes, Turning
    <3> HIDE DEF p
    <3> QED BY <1>1, <2>1, <2>2, <3>1, <3>2, BeginInTurn
  <2>3. CASE current[p] = NoOwner
    <3>1. UNCHANGED <<records, current, handlers, owners, tasks>>
      BY <1>4, <2>3 DEF StopNext, registry, busVars
    <3> QED BY <1>1, <3>1, QuietInTurn DEF Turning
  <2> QED BY <2>2, <2>3
<1>5. CASE ShutDown
  <2>1. UNCHANGED <<records, current, handlers>> /\ CallersKeep
    BY <1>2, <1>3, <1>5 DEF ShutDown, registry, busVars
  <2>2. \A b \in Owner : /\ owners'[b].plugin = owners[b].plugin
                         /\ owners'[b].step = owners[b].step
                         /\ owners'[b].aborted = owners[b].aborted
                         /\ "services" \in owners'[b].owns <=> "services" \in owners[b].owns
    BY <1>5, ShutDownGoesOn
  <2> QED BY <1>1, <2>1, <2>2, QuietInTurn DEF CallersKeep
<1>6. CASE Stopped \/ StopKernel
  <2>1. UNCHANGED <<records, current, handlers, owners>> /\ CallersKeep
    BY <1>2, <1>3, <1>6 DEF Stopped, StopKernel, registry, busVars
  <2> QED BY <1>1, <2>1, QuietInTurn DEF CallersKeep
<1> QED BY <1>4, <1>5, <1>6 DEF StopStep

LEMMA DeactivationInTurn ==
  ASSUME Shape, InTurn, NEW k \in Caller, DeactivationStep(k)
  PROVE  PluginsInTurn'
<1>1. TaskTypes /\ TakeTurns /\ PluginsInTurn /\ \A t \in Toggle : t \in Caller
  BY TypeParts DEF Shape, InTurn, Caller
<1>2. CASE DeactivationEnds(k)
  BY <1>1, <1>2, EndsInTurn
<1>3. CASE ProcessesEnd(k) \/ OperationsEnd(k)
  <2>1. tasks[k].step \in Unwinding /\ UNCHANGED <<records, current, handlers, owners>>
    BY <1>3 DEF ProcessesEnd, OperationsEnd, Unwind, registry, busVars, Unwinding
  <2>2. PICK step, late, waits : tasks' = [tasks EXCEPT ![k].step = step, ![k].late = late, ![k].waits = waits]
    BY <1>3 DEF ProcessesEnd, OperationsEnd, Unwind
  <2>3. \A j \in Caller : j # k => tasks'[j] = tasks[j]
    BY <1>1, <2>2 DEF TaskTypes
  <2>4. tasks'[k].plugin = tasks[k].plugin /\ tasks'[k].owner = tasks[k].owner
    BY <1>1, <2>2 DEF TaskTypes, TaskRecord
  <2>5. \A t \in Toggle : Turning(t)' => Turning(t)
    BY <1>1, <2>1, <2>3 DEF Turning, Unwinding
  <2> QED BY <1>1, <2>1, <2>3, <2>4, <2>5, QuietInTurn
<1> QED BY <1>2, <1>3 DEF DeactivationStep

LEMMA OverlapStays ==
  ASSUME Shape, Next, ~overlap' PROVE ~overlap
<1>1. ASSUME NEW k \in Caller, DeactivationStep(k) PROVE UNCHANGED overlap
  BY <1>1 DEF DeactivationStep, ProcessesEnd, OperationsEnd, DeactivationEnds, Unwind
<1>2. ASSUME NEW t \in Toggle, ToggleStep(t) PROVE UNCHANGED overlap
  BY <1>2 DEF ToggleStep, WriteEnds, Enable, EnableEnds, Disable
<1>3. ASSUME NEW t \in Toggle, NEW p \in Plugin, NEW enable \in BOOLEAN, SetEnabled(t, p, enable)
      PROVE  ~overlap
  BY <1>3, BeginsAlone
<1>4. ASSUME StopStep \/ StopKernel PROVE UNCHANGED overlap
  BY <1>4 DEF StopStep, StopKernel, StopNext, ShutDown, Stopped
<1>5. ASSUME NEW a \in Owner, OwnerStep(a) PROVE UNCHANGED overlap
  BY <1>5 DEF OwnerStep, Commit, Fail, FailedProcessesEnd, FailureEnds
<1>6. ASSUME Calls \/ Spawns PROVE UNCHANGED overlap
  BY <1>6, CallTypes DEF HostUnchanged
<1>7. ASSUME BootStep PROVE UNCHANGED overlap
  BY <1>7 DEF BootStep, Start, Bootstrapped, ReadDisabled, ActivateNext, Started
<1> QED BY <1>1, <1>2, <1>3, <1>4, <1>5, <1>6, <1>7, Steps

(* A change that meets no other leaves the plugins in turn. *)
LEMMA InTurnNext ==
  ASSUME Shape, ~overlap => InTurn, Next
  PROVE  ~overlap' => InTurn'
<1> SUFFICES ASSUME ~overlap' PROVE InTurn'
  OBVIOUS
<1>1. ~overlap
  BY OverlapStays
<1>2. InTurn /\ TakeTurns /\ AreAwaited /\ AreToCome /\ PluginsInTurn
  BY <1>1 DEF InTurn
<1>3. TakeTurns' /\ AreAwaited' /\ AreToCome'
  BY <1>2, TakeTurnsNext, AreAwaitedNext, AreToComeNext
<1>4. PluginsInTurn'
  <2>1. ASSUME NEW a \in Owner, OwnerStep(a) PROVE PluginsInTurn'
    BY <1>2, <2>1, CommitInTurn, FailInTurn, FailingInTurn DEF OwnerStep
  <2>2. ASSUME Calls \/ Spawns PROVE PluginsInTurn'
    <3>1. UNCHANGED <<records, current, handlers, owners, tasks>>
      BY <2>2, CallTypes DEF HostUnchanged, registry
    <3> QED BY <1>2, <3>1, QuietInTurn DEF Turning
  <2> QED BY <1>2, <2>1, <2>2, BootInTurn, StopInTurn, DeactivationInTurn, ToggleInTurn,
          SetEnabledInTurn, Steps
<1> QED BY <1>3, <1>4 DEF InTurn

LEMMA InTurnInit ==
  ASSUME Init PROVE InTurn
<1>1. PICK mix \in Mixes : BusInit(mix) /\ ProcessInit(mix)
        /\ tasks = [k \in Caller |-> IF k \in mix \cup {Stop} THEN NoTask ELSE Done]
  BY DEF Init
<1>2. \A k \in Caller : tasks[k].step \in {"idle", "done"}
  BY <1>1 DEF NoTask, Done
<1>3. \A a \in Owner : /\ owners[a].step = "free" /\ ~owners[a].aborted /\ owners[a].owns = {}
                       /\ a # NoOwner
  BY BusAssumption DEF Init
<1>4. \A c \in Command : handlers[c] = NoOwner
  BY <1>1 DEF BusInit
<1>5. TakeTurns
  BY <1>2 DEF TakeTurns, Turning, Caller, Init
<1>6. AreAwaited /\ AreToCome /\ AreAlone /\ Fresh
  BY <1>3 DEF AreAwaited, AreToCome, AreAlone, Fresh, InProgress
<1>7. UnwindTheirOwn
  BY <1>2 DEF UnwindTheirOwn, Unwinding
<1>8. Registers
  BY <1>3, <1>4 DEF Registers, IsActive
<1> QED BY <1>5, <1>6, <1>7, <1>8 DEF InTurn, PluginsInTurn

(* As long as no call of setEnabled begins beside another change, a start or a   *)
(* stop, what a plugin has registered belongs to its listed activation, and a    *)
(* listed one has lost nothing (plugin-manager.ts:1731, :1751, :1893).           *)
THEOREM RegisteredAreActive == Spec => []RegisteredIsActive
<1>1. Init => Shape /\ (~overlap => InTurn)
  BY ShapeInit, InTurnInit
<1>2. Shape /\ (~overlap => InTurn) /\ [Next]_vars => (Shape /\ (~overlap => InTurn))'
  <2>1. CASE Next
    BY <2>1, ShapeNext, InTurnNext
  <2>2. CASE UNCHANGED vars
    <3>1. Shape => Shape'
      BY <2>2, ShapeNext
    <3>2. (~overlap => InTurn) => (~overlap' => InTurn')
      BY <2>2 DEF vars, core, registry, choices, busVars, InTurn, TakeTurns, Turning, AreAwaited,
         InProgress, AreToCome, Position, PluginsInTurn, AreAlone, Unwinds, UnwindTheirOwn, Fresh,
         Registers, IsActive
    <3> QED BY <3>1, <3>2
  <2> QED BY <2>1, <2>2
<1>3. Shape /\ (~overlap => InTurn) => RegisteredIsActive
  BY DEF InTurn, PluginsInTurn, Registers, IsActive, RegisteredIsActive
<1> QED BY <1>1, <1>2, <1>3, PTL DEF Spec

(************************ What the configuration says **************************)

(* stop has not begun as long as the kernel starts or runs. *)
KernelIsOn ==
  /\ kernel \in {"idle", "starting", "started", "failed"} => tasks[Stop].step = "idle"
  /\ kernel = "started" => boot.step = "done"

(* Start has read which plugins are disabled. *)
HasRead == boot.step \in {"ordinary", "done"} /\ kernel \in {"starting", "started"}

(* The list in memory follows the one in the configuration, one call behind. *)
ChoicesAgree ==
  /\ \A t \in Toggle : tasks[t].step = "written" => stored = tasks[t].next
  /\ HasRead => stored = disabled \/ \E t \in Toggle : tasks[t].step = "written"
  /\ \A t \in Toggle : tasks[t].step \in {"writing", "written"} =>
       tasks[t].next = IF tasks[t].enable THEN disabled \ {tasks[t].plugin}
                                          ELSE disabled \cup {tasks[t].plugin}

(* A plugin is off, or on its way there, exactly if it is listed. *)
AsChosen(p) ==
  IF p \in disabled
  THEN \/ current[p] = NoOwner /\ records[p] = "disabled"
       \/ \E t \in Toggle : Unwinds(t, p)
  ELSE /\ \A t \in Toggle : ~Unwinds(t, p)
       /\ \/ records[p] = IF current[p] = NoOwner THEN "failed" ELSE "active"
          \/ \E a \in Owner : InProgress(a) /\ owners[a].plugin = p

(* Start has come to the plugin, and nobody has stopped the kernel. *)
Reached(n) == \/ kernel = "started"
              \/ kernel = "starting" /\ boot.step = "ordinary" /\ n < boot.next

AreAsChosen == \A n \in DOMAIN Ordinary : Reached(n) => AsChosen(Ordinary[n])

LEMMA KernelMoves ==
  ASSUME Shape, TakeTurns, KernelIsOn, Next
  PROVE  \/ UNCHANGED kernel
         \/ kernel' \in {"stopping", "stopped"}
         \/ BootStep /\ kernel = "idle" /\ kernel' = "starting" /\ boot'.step = "bootstrap"
         \/ BootStep /\ kernel = "starting" /\ kernel' = "failed"
         \/ Started /\ kernel = "starting" /\ kernel' = "started" /\ boot'.step = "done"
<1>1. ASSUME NEW k \in Caller, DeactivationStep(k) PROVE UNCHANGED kernel
  BY <1>1 DEF DeactivationStep, ProcessesEnd, OperationsEnd, DeactivationEnds, Unwind, core
<1>2. ASSUME NEW t \in Toggle, ToggleStep(t) \/ \E p \in Plugin, enable \in BOOLEAN : SetEnabled(t, p, enable)
      PROVE  UNCHANGED kernel
  BY <1>2 DEF ToggleStep, WriteEnds, Enable, EnableEnds, Disable, SetEnabled, core
<1>3. ASSUME StopStep \/ StopKernel PROVE UNCHANGED kernel \/ kernel' \in {"stopping", "stopped"}
  BY <1>3 DEF StopStep, StopKernel, StopNext, ShutDown, Stopped, core
<1>4. ASSUME NEW a \in Owner, OwnerStep(a) PROVE UNCHANGED kernel
  BY <1>4 DEF OwnerStep, Commit, Fail, FailedProcessesEnd, FailureEnds, core
<1>5. ASSUME Calls \/ Spawns PROVE UNCHANGED kernel
  BY <1>5, CallTypes DEF HostUnchanged, core
<1>6. CASE Start
  BY <1>6 DEF Start, Await, BootStep
<1>7. CASE Bootstrapped \/ ReadDisabled
  BY <1>7 DEF Bootstrapped, ReadDisabled, StartEnds, BootStep
<1>8. CASE ActivateNext
  BY <1>8 DEF ActivateNext
<1>9. CASE Started
  <2>1. boot \in BootRecord
    BY TypeParts DEF Shape, CoreTypes
  <2> QED BY <1>9, <2>1 DEF Started, StartEnds, BootRecord
<1> QED BY <1>1, <1>2, <1>3, <1>4, <1>5, <1>6, <1>7, <1>8, <1>9, Steps DEF BootStep

LEMMA KernelIsOnNext ==
  ASSUME Shape, TakeTurns, KernelIsOn, Next PROVE KernelIsOn'
<1>1. ASSUME kernel' = "started" PROVE boot'.step = "done"
  <2>1. UNCHANGED kernel \/ boot'.step = "done"
    BY <1>1, KernelMoves
  <2>2. CASE UNCHANGED kernel
    BY <1>1, <2>2, BootIsOver DEF KernelIsOn
  <2> QED BY <2>1, <2>2
<1>2. ASSUME kernel' \in {"idle", "starting", "started", "failed"} PROVE tasks'[Stop].step = "idle"
  <2>1. kernel \in {"idle", "starting", "started", "failed"}
    BY <1>2, KernelMoves
  <2>2. tasks[Stop].step = "idle" /\ Stop \in Caller /\ Stop \notin Toggle
    BY <2>1, LifecycleAssumption DEF KernelIsOn, Caller
  <2>3. ~DeactivationStep(Stop)
    BY <2>2 DEF DeactivationStep, ProcessesEnd, OperationsEnd, DeactivationEnds
  <2>4. ~StopStep /\ ~StopKernel
    BY <1>2, <2>2 DEF StopStep, StopNext, ShutDown, Stopped, StopKernel
  <2>5. tasks'[Stop] = tasks[Stop]
    BY <2>2, <2>3, <2>4, CallersGo DEF CallerGoes
  <2> QED BY <2>2, <2>5
<1> QED BY <1>1, <1>2 DEF KernelIsOn

LEMMA ChoicesAgreeNext ==
  ASSUME Shape, InTurn, KernelIsOn, ChoicesAgree, Next, ~overlap'
  PROVE  ChoicesAgree'
<1>1. /\ TaskTypes /\ TakeTurns /\ Stop \notin Toggle /\ \A t \in Toggle : t \in Caller
      /\ boot \in BootRecord
  BY TypeParts, LifecycleAssumption DEF Shape, CoreTypes, InTurn, Caller
<1>2. ASSUME UNCHANGED choices, HasRead' => HasRead,
             \A t \in Toggle : tasks[t].step = "written" \/ tasks'[t].step \in {"writing", "written"}
                                 => tasks'[t] = tasks[t]
      PROVE  ChoicesAgree'
  <2>1. UNCHANGED <<stored, disabled>>
    BY <1>2 DEF choices
  <2>2. \A t \in Toggle : tasks'[t].step = "written" => stored' = tasks'[t].next
    BY <1>2, <2>1 DEF ChoicesAgree
  <2>3. HasRead' => stored' = disabled' \/ \E t \in Toggle : tasks'[t].step = "written"
    BY <1>2, <2>1 DEF ChoicesAgree
  <2>4. ASSUME NEW t \in Toggle, tasks'[t].step \in {"writing", "written"}
        PROVE  tasks'[t].next = IF tasks'[t].enable THEN disabled' \ {tasks'[t].plugin}
                                                   ELSE disabled' \cup {tasks'[t].plugin}
    BY <1>2, <2>1, <2>4 DEF ChoicesAgree
  <2> QED BY <2>2, <2>3, <2>4 DEF ChoicesAgree, HasRead
<1>3. ASSUME UNCHANGED <<boot, choices, kernel>>, NEW k \in Caller, NEW r, tasks' = [tasks EXCEPT ![k] = r],
             tasks[k].step # "written", r.step \notin {"writing", "written"}
      PROVE  ChoicesAgree'
  <2>1. tasks'[k] = r /\ \A t \in Toggle : t # k => tasks'[t] = tasks[t]
    BY <1>1, <1>3 DEF TaskTypes
  <2> QED BY <1>2, <1>3, <2>1 DEF HasRead
<1>4. CASE BootStep
  <2>1. UNCHANGED tasks /\ boot.step # "done" /\ kernel # "started"
    BY <1>1, <1>4, BootGoesOn, BootDoes DEF KernelIsOn
  <2>2. ASSUME StartEnds("failed") PROVE ~HasRead'
    BY <1>1, <2>1, <2>2 DEF StartEnds, HasRead
  <2>3. CASE Start \/ Bootstrapped
    <3>1. UNCHANGED choices /\ ~HasRead'
      BY <2>2, <2>3 DEF Start, Bootstrapped, Await, HasRead
    <3> QED BY <1>2, <2>1, <3>1
  <2>4. CASE ReadDisabled /\ StartEnds("failed")
    <3>1. ~HasRead' /\ UNCHANGED stored
      BY <2>2, <2>4 DEF ReadDisabled
    <3>2. \A t \in Toggle : ~Turning(t)
      BY <1>1, <2>1 DEF TakeTurns
    <3>3. \A t \in Toggle : tasks'[t].step \notin {"writing", "written"}
      BY <2>1, <3>2 DEF Turning
    <3> QED BY <3>1, <3>3 DEF ChoicesAgree, HasRead
  <2>5. CASE ReadDisabled /\ disabled' = stored
    <3>1. UNCHANGED stored
      BY <2>5 DEF ReadDisabled
    <3>2. \A t \in Toggle : ~Turning(t)
      BY <1>1, <2>1 DEF TakeTurns
    <3>3. \A t \in Toggle : tasks'[t].step \notin {"writing", "written"}
      BY <2>1, <3>2 DEF Turning
    <3> QED BY <2>5, <3>1, <3>3 DEF ChoicesAgree, HasRead
  <2>6. CASE ActivateNext
    BY <1>2, <2>1, <2>6 DEF ActivateNext, HasRead
  <2>7. CASE Started
    <3>1. UNCHANGED choices /\ (HasRead' => HasRead)
      BY <1>1, <2>1, <2>7 DEF Started, StartEnds, HasRead
    <3> QED BY <1>2, <2>1, <3>1
  <2> QED BY <1>4, <2>3, <2>4, <2>5, <2>6, <2>7 DEF BootStep, ReadDisabled
<1>5. CASE StopStep \/ StopKernel
  <2>1. /\ UNCHANGED <<boot, choices>> /\ kernel' \in {kernel, "stopping", "stopped"}
        /\ UNCHANGED tasks \/ \E r : tasks' = [tasks EXCEPT ![Stop] = r]
    BY <1>5 DEF StopStep, StopKernel, StopNext, ShutDown, Stopped, BeginDeactivation, core, choices
  <2>2. \A t \in Toggle : tasks'[t] = tasks[t]
    BY <1>1, <2>1 DEF TaskTypes, Caller
  <2> QED BY <1>2, <2>1, <2>2 DEF HasRead
<1>6. ASSUME NEW a \in Owner, OwnerStep(a) PROVE ChoicesAgree'
  <2>1. UNCHANGED <<boot, choices, tasks, kernel>>
    BY <1>6 DEF OwnerStep, Commit, Fail, FailedProcessesEnd, FailureEnds, core
  <2> QED BY <1>2, <2>1 DEF HasRead
<1>7. CASE Calls \/ Spawns
  <2>1. UNCHANGED <<boot, choices, tasks, kernel>>
    BY <1>7, CallTypes DEF HostUnchanged, core
  <2> QED BY <1>2, <2>1 DEF HasRead
<1>8. ASSUME NEW k \in Caller, DeactivationStep(k) PROVE ChoicesAgree'
  <2>1. UNCHANGED <<boot, choices, kernel>> /\ tasks[k].step \in Unwinding
    BY <1>8 DEF DeactivationStep, ProcessesEnd, OperationsEnd, DeactivationEnds, Unwind, core, Unwinding
  <2>2. \A t \in Toggle : t # k => tasks'[t] = tasks[t]
    <3>1. \E r : tasks' = [tasks EXCEPT ![k] = r]
      BY <1>8 DEF DeactivationStep, ProcessesEnd, OperationsEnd, DeactivationEnds, Unwind
    <3> QED BY <1>1, <3>1 DEF TaskTypes
  <2>3. tasks'[k].step \notin {"writing", "written"}
    <3>1. tasks[k] \in TaskRecord
      BY <1>1 DEF TaskTypes
    <3>2. CASE DeactivationEnds(k)
      BY <1>1, <3>2 DEF DeactivationEnds, TaskTypes, Done, NoTask
    <3>3. CASE ProcessesEnd(k) \/ OperationsEnd(k)
      BY <1>1, <3>1, <3>3 DEF ProcessesEnd, OperationsEnd, Unwind, TaskTypes, TaskRecord
    <3> QED BY <1>8, <3>2, <3>3 DEF DeactivationStep
  <2> QED BY <1>2, <2>1, <2>2, <2>3 DEF HasRead, Unwinding
<1>9. ASSUME NEW t \in Toggle, ToggleStep(t) PROVE ChoicesAgree'
  <2>1. t \in Caller /\ Turning(t) /\ tasks[t] \in TaskRecord /\ UNCHANGED <<boot, kernel>>
    BY <1>1, <1>9 DEF ToggleStep, WriteEnds, Enable, EnableEnds, Disable, Turning, TaskTypes, core
  <2>2. \A u \in Toggle : u # t => ~Turning(u) /\ tasks'[u] = tasks[u]
    <3>1. \E r : tasks' = [tasks EXCEPT ![t] = r]
      BY <1>9 DEF ToggleStep, WriteEnds, Enable, EnableEnds, Disable, BeginDeactivation
    <3> QED BY <1>1, <2>1, <3>1 DEF TakeTurns, TaskTypes
  <2>3. \A u \in Toggle : u # t => tasks'[u].step \notin {"writing", "written"}
    BY <2>2 DEF Turning
  <2>4. CASE WriteEnds(t) /\ tasks' = [tasks EXCEPT ![t].step = "written"] /\ stored' = tasks[t].next
    <3>1. /\ tasks'[t].step = "written" /\ tasks'[t].next = tasks[t].next
          /\ tasks'[t].plugin = tasks[t].plugin /\ tasks'[t].enable = tasks[t].enable
          /\ UNCHANGED disabled /\ tasks[t].step = "writing"
      BY <1>1, <2>1, <2>4 DEF TaskTypes, TaskRecord, WriteEnds
    <3> QED BY <2>3, <2>4, <3>1 DEF ChoicesAgree
  <2>5. CASE \/ EnableEnds(t)
             \/ WriteEnds(t) /\ tasks' = [tasks EXCEPT ![t] = Done] /\ UNCHANGED stored
    <3>1. UNCHANGED choices /\ tasks' = [tasks EXCEPT ![t] = Done] /\ tasks[t].step # "written"
      BY <2>5 DEF EnableEnds, WriteEnds, choices
    <3>2. Done.step \notin {"writing", "written"}
      BY DEF Done, NoTask
    <3> QED BY <1>3, <2>1, <3>1, <3>2
  <2>6. CASE Enable(t) \/ Disable(t)
    <3>1. tasks[t].step = "written" /\ disabled' = tasks[t].next /\ UNCHANGED stored
      BY <2>6 DEF Enable, Disable
    <3>2. stored' = disabled'
      BY <3>1 DEF ChoicesAgree
    <3>3. tasks'[t].step \notin {"writing", "written"}
      <4>1. ASSUME NEW r, tasks' = [tasks EXCEPT ![t] = r], r.step \notin {"writing", "written"}
            PROVE  tasks'[t].step \notin {"writing", "written"}
        BY <1>1, <2>1, <4>1 DEF TaskTypes
      <4>2. Done.step \notin {"writing", "written"}
        BY DEF Done, NoTask
      <4>3. ASSUME NEW a PROVE [NoTask EXCEPT !.step = "activation", !.owner = a].step = "activation"
        BY DEF NoTask
      <4>4. ASSUME NEW a, NEW q
            PROVE  [NoTask EXCEPT !.step = "processes", !.plugin = q, !.owner = a].step = "processes"
        BY DEF NoTask
      <4>5. \/ tasks' = [tasks EXCEPT ![t] = Done]
            \/ \E a : tasks' = [tasks EXCEPT ![t] = [NoTask EXCEPT !.step = "activation", !.owner = a]]
            \/ \E a, q : tasks' = [tasks EXCEPT ![t] = [NoTask EXCEPT !.step = "processes",
                                                                     !.plugin = q, !.owner = a]]
        <5>1. CASE Enable(t)
          BY <5>1 DEF Enable
        <5>2. CASE Disable(t)
          BY <5>2 DEF Disable, BeginDeactivation
        <5> QED BY <2>6, <5>1, <5>2
      <4> QED BY <4>1, <4>2, <4>3, <4>4, <4>5
    <3> QED BY <2>3, <3>2, <3>3 DEF ChoicesAgree
  <2> QED BY <1>9, <2>4, <2>5, <2>6 DEF ToggleStep, WriteEnds
<1>10. ASSUME NEW t \in Toggle, NEW p \in Plugin, NEW enable \in BOOLEAN, SetEnabled(t, p, enable)
       PROVE  ChoicesAgree'
  <2>1. boot.step = "done" /\ kernel = "started" /\ UNCHANGED <<stored, disabled>> /\ t \in Caller
    BY <1>1, <1>10, BeginsAlone DEF SetEnabled, choices
  <2>2. \A u \in Toggle : tasks[u].step \in {"idle", "done"}
    BY <1>1, <1>10, BeginsAlone
  <2>3. stored = disabled
    BY <2>1, <2>2 DEF ChoicesAgree, HasRead
  <2>4. /\ tasks'[t].step = "writing" /\ tasks'[t].plugin = p /\ tasks'[t].enable = enable
        /\ tasks'[t].next = IF enable THEN disabled \ {p} ELSE disabled \cup {p}
    BY <1>1, <1>10, <2>1 DEF SetEnabled, TaskTypes, NoTask
  <2>5. \A u \in Toggle : u # t => tasks'[u].step \notin {"writing", "written"}
    BY <1>1, <1>10, <2>2 DEF SetEnabled, TaskTypes
  <2> QED BY <2>1, <2>3, <2>4, <2>5 DEF ChoicesAgree
<1> QED BY <1>4, <1>5, <1>6, <1>7, <1>8, <1>9, <1>10, Steps

(* What leaves a plugin as it was chosen to be. *)
LEMMA StaysAsChosen ==
  ASSUME NEW p \in Plugin, AsChosen(p), records'[p] = records[p], current'[p] = current[p],
         p \in disabled' <=> p \in disabled,
         \A t \in Toggle : Unwinds(t, p)' <=> Unwinds(t, p),
         \A b \in Owner : InProgress(b) /\ owners[b].plugin = p =>
                            InProgress(b)' /\ owners'[b].plugin = p
  PROVE  AsChosen(p)'
<1>1. CASE p \in disabled
  <2>1. (current'[p] = NoOwner /\ records'[p] = "disabled") \/ \E t \in Toggle : Unwinds(t, p)'
    BY <1>1 DEF AsChosen
  <2> QED BY <1>1, <2>1 DEF AsChosen
<1>2. CASE p \notin disabled
  <2>1. \A t \in Toggle : ~Unwinds(t, p)'
    BY <1>2 DEF AsChosen
  <2>2. \/ records'[p] = IF current'[p] = NoOwner THEN "failed" ELSE "active"
        \/ \E a \in Owner : InProgress(a)' /\ owners'[a].plugin = p
    BY <1>2 DEF AsChosen
  <2> QED BY <1>2, <2>1, <2>2 DEF AsChosen, InProgress
<1> QED BY <1>1, <1>2

(* No activation is under way when start goes on, or setEnabled has written. *)
LEMMA NoneInProgress ==
  ASSUME Shape, InTurn, NEW b \in Owner, InProgress(b)
  PROVE  ~BootStep /\ \A t \in Toggle : tasks[t].step # "written"
<1>1. b # NoOwner /\ ~Activated(b) /\ TakeTurns
  BY BusAssumption DEF InProgress, Activated, InTurn
<1>2. ASSUME BootStep PROVE FALSE
  <2>1. boot.step # "done"
        /\ (boot.step \in {"bootstrap", "ordinary"} => boot.awaits = NoOwner \/ Activated(boot.awaits))
    BY <1>1, <1>2, BootDoes
  <2>2. \A t \in Toggle : ~Turning(t)
    BY <1>1, <2>1 DEF TakeTurns
  <2> QED BY <1>1, <2>1, <2>2 DEF InTurn, AreAwaited, Turning
<1>3. ASSUME NEW t \in Toggle, tasks[t].step = "written" PROVE FALSE
  <2>1. Turning(t) /\ boot.step = "done"
    BY <1>1, <1>3 DEF TakeTurns, Turning
  <2>2. PICK u \in Toggle : tasks[u].step = "activation"
    BY <2>1 DEF InTurn, AreAwaited
  <2> QED BY <1>1, <1>3, <2>1, <2>2 DEF TakeTurns, Turning
<1> QED BY <1>2, <1>3

LEMMA OwnerAsChosen ==
  ASSUME Shape, InTurn, Next, NEW a \in Owner, OwnerStep(a), NEW p \in Plugin, AsChosen(p)
  PROVE  AsChosen(p)'
<1> DEFINE q == owners[a].plugin
<1>1. /\ InProgress(a) /\ UNCHANGED <<tasks, disabled>> /\ RegistryTypes /\ TakeTurns
      /\ AreAwaited /\ PluginsInTurn /\ a # NoOwner
  BY TypeParts, BusAssumption DEF Shape, InTurn, OwnerStep, Commit, Fail, FailedProcessesEnd, FailureEnds,
     InProgress, choices
<1>2. /\ q \in Plugin /\ current[q] = NoOwner /\ records[q] = "activating"
      /\ \A k \in Caller : ~Unwinds(k, q)
      /\ \A b \in Owner : InProgress(b) => b = a
  BY <1>1, AloneWithPlugin
<1>3. owners'[a].plugin = q
  BY <1>1, OwnersGo DEF OwnerGoes, InProgress
<1>4. \A k \in Caller, r \in Plugin : Unwinds(k, r)' <=> Unwinds(k, r)
  BY <1>1 DEF Unwinds
<1>5. \A t \in Toggle : t \in Caller
  BY DEF Caller
<1>6. \A r \in Plugin : r # q => records'[r] = records[r] /\ current'[r] = current[r]
  BY <1>1, <1>2 DEF OwnerStep, Commit, Fail, FailedProcessesEnd, FailureEnds, registry, RegistryTypes
<1> HIDE DEF q
<1>7. CASE p # q
  <2>1. \A b \in Owner : ~(InProgress(b) /\ owners[b].plugin = p)
    BY <1>2, <1>7 DEF q
  <2> QED BY <1>1, <1>4, <1>5, <1>6, <1>7, <2>1, StaysAsChosen
<1>8. CASE p = q
  <2>1. p \notin disabled' /\ \A t \in Toggle : ~Unwinds(t, p)'
    BY <1>1, <1>2, <1>4, <1>5, <1>8 DEF AsChosen
  <2>2. \/ records'[p] = IF current'[p] = NoOwner THEN "failed" ELSE "active"
        \/ \E b \in Owner : InProgress(b)' /\ owners'[b].plugin = p
    <3>1. CASE Commit(a)
      <4>1. records'[p] = "active" /\ current'[p] = a
        BY <1>1, <1>8, <3>1 DEF Commit, RegistryTypes, q
      <4> QED BY <1>1, <4>1
    <3>2. CASE FailureEnds(a)
      <4>1. records'[p] = "failed" /\ current'[p] = NoOwner
        BY <1>1, <1>2, <1>8, <3>2 DEF FailureEnds, RegistryTypes, q
      <4> QED BY <4>1
    <3>3. CASE FailedProcessesEnd(a)
      <4>1. owners'[a].step = "disposing"
        BY <3>3, TypeParts DEF FailedProcessesEnd, Shape, OwnerTypes, OwnerRecord
      <4> QED BY <1>3, <1>8, <4>1 DEF InProgress
    <3>4. CASE Fail(a)
      <4>1. owners'[a].step = "processes"
        <5>1. PICK had \in SUBSET Kinds : AbortOwner(a, "processes", had, {"services"})
          BY <3>4 DEF Fail, Kinds
        <5>2. "processes" \in OwnerSteps /\ {"services"} \in SUBSET Kinds
          BY DEF OwnerSteps, Kinds
        <5> QED BY <5>1, <5>2, AbortedSteps, TypeParts DEF Shape
      <4> QED BY <1>3, <1>8, <4>1 DEF InProgress
    <3> QED BY <3>1, <3>2, <3>3, <3>4 DEF OwnerStep
  <2> QED BY <2>1, <2>2 DEF AsChosen, InProgress
<1> QED BY <1>7, <1>8

LEMMA BootAsChosen ==
  ASSUME Shape, InTurn, KernelIsOn, AreAsChosen, BootStep
  PROVE  AreAsChosen'
<1>1. /\ UNCHANGED <<current, tasks>> /\ TakeTurns /\ RegistryTypes /\ boot \in BootRecord
      /\ boot.step # "done" /\ kernel # "started" /\ boot.next \in Int /\ OwnerTypes
  BY TypeParts, BootGoesOn, BootDoes DEF Shape, CoreTypes, BootRecord, InTurn, KernelIsOn
<1>2. /\ \A b \in Owner : ~InProgress(b)
      /\ \A t \in Toggle, p \in Plugin : ~Unwinds(t, p) /\ ~Unwinds(t, p)'
  <2>1. \A t \in Toggle : ~Turning(t)
    BY <1>1 DEF TakeTurns
  <2> QED BY <1>1, <2>1, NoneInProgress DEF Turning, Unwinds, Unwinding
<1>3. /\ Len(Bootstrap) \in Nat /\ Len(Ordinary) \in Nat /\ Len(Order) = Len(Bootstrap) + Len(Ordinary)
      /\ DOMAIN Ordinary = 1 .. Len(Ordinary) /\ DOMAIN Order = 1 .. Len(Order)
      /\ \A n \in 1 .. Len(Ordinary) : /\ Order[Len(Bootstrap) + n] = Ordinary[n]
                                       /\ Ordinary[n] \in Plugin
  BY LifecycleAssumption, OrderIsOfPlugins DEF Order
<1> SUFFICES ASSUME NEW n \in DOMAIN Ordinary, Reached(n)' PROVE AsChosen(Ordinary[n])'
  BY DEF AreAsChosen
<1>4. CASE Start \/ Bootstrapped \/ ReadDisabled
  <2>1. StartEnds("failed") => boot'.step = "done" /\ kernel' # "started"
    BY <1>1 DEF StartEnds, BootRecord
  <2>2. /\ kernel' # "started"
        /\ boot'.step = "ordinary" => boot'.next = 1
    BY <1>1, <1>4, <2>1 DEF Start, Bootstrapped, ReadDisabled, Await
  <2> QED BY <1>3, <2>2 DEF Reached
<1>5. ASSUME UNCHANGED <<owners, records, disabled>>, Reached(n) PROVE AsChosen(Ordinary[n])'
  <2> DEFINE q == Ordinary[n]
  <2>1. q \in Plugin /\ AsChosen(q)
    BY <1>3, <1>5 DEF AreAsChosen
  <2> HIDE DEF q
  <2>2. AsChosen(q)'
    BY <1>1, <1>2, <1>5, <2>1, StaysAsChosen
  <2> QED BY <2>2 DEF q
<1>6. CASE Started
  <2>1. boot.step = "ordinary" /\ boot.next > Len(Ordinary) /\ UNCHANGED <<owners, records, disabled>>
    BY <1>6 DEF Started, registry, choices
  <2>2. kernel = "starting"
    BY <1>1, <1>6 DEF Started, StartEnds, Reached
  <2>3. Reached(n)
    BY <1>1, <1>3, <2>1, <2>2 DEF Reached
  <2> QED BY <1>5, <2>1, <2>3
<1>7. CASE ActivateNext
  <2> DEFINE p == Ordinary[boot.next]
             q == Ordinary[n]
  <2>1. /\ boot.step = "ordinary" /\ boot.next \in 1 .. Len(Ordinary) /\ p \in Plugin /\ q \in Plugin
        /\ n < boot.next + 1 /\ kernel = "starting" /\ UNCHANGED disabled
    BY <1>1, <1>3, <1>7 DEF ActivateNext, Await, Reached, choices
  <2>2. CASE n < boot.next
    <3>1. AsChosen(q)
      BY <2>1, <2>2 DEF AreAsChosen, Reached
    <3>2. q # p
      <4>1. Order[Len(Bootstrap) + n] = q /\ Order[Len(Bootstrap) + boot.next] = p
        BY <1>3, <2>1
      <4>2. /\ Len(Bootstrap) + n \in DOMAIN Order /\ Len(Bootstrap) + boot.next \in DOMAIN Order
            /\ Len(Bootstrap) + n # Len(Bootstrap) + boot.next
        BY <1>3, <2>1, <2>2
      <4> QED BY <4>1, <4>2, LifecycleAssumption DEF IsInjective
    <3>3. records'[q] = records[q]
      <4>1. \E value : records' = [records EXCEPT ![p] = value]
        BY <1>7 DEF ActivateNext, Activate
      <4> QED BY <1>1, <2>1, <3>2, <4>1 DEF RegistryTypes
    <3> HIDE DEF p, q
    <3>4. AsChosen(q)'
      BY <1>1, <1>2, <2>1, <3>1, <3>3, StaysAsChosen
    <3> QED BY <3>4 DEF q
  <2>3. CASE ~(n < boot.next)
    <3>1. n = boot.next
      BY <1>1, <1>3, <2>1, <2>3
    <3>2. CASE p \in disabled /\ records' = [records EXCEPT ![p] = "disabled"]
      <4>1. records'[p] = "disabled"
        BY <1>1, <2>1, <3>2 DEF RegistryTypes
      <4>2. \A b \in Owner : owners[b].step # "free" => owners[b].plugin # p
        <5>1. Position = Len(Bootstrap) + boot.next - 1
          BY <2>1 DEF Position
        <5>2. Len(Bootstrap) + boot.next \in DOMAIN Order /\ Len(Bootstrap) + boot.next > Position
              /\ Order[Len(Bootstrap) + boot.next] = p
          BY <1>3, <2>1, <5>1
        <5> QED BY <5>2 DEF InTurn, AreToCome
      <4>3. current'[p] = NoOwner
        BY <1>1, <2>1, <4>2 DEF Shape, ActivationsAreKnown, RegistryTypes
      <4> QED BY <2>1, <3>1, <3>2, <4>1, <4>3 DEF AsChosen
    <3>3. ASSUME p \notin disabled, NEW a \in Owner, Activate(p, a) PROVE AsChosen(q)'
      <4>1. owners'[a].step = "activating" /\ owners'[a].plugin = p
        BY <1>1, <2>1, <3>3, ActivatedGoes
      <4>2. InProgress(a)'
        BY <4>1 DEF InProgress
      <4> QED BY <1>2, <2>1, <3>1, <3>3, <4>1, <4>2 DEF AsChosen
    <3> QED BY <1>7, <3>2, <3>3 DEF ActivateNext
  <2> QED BY <2>2, <2>3
<1> QED BY <1>4, <1>6, <1>7 DEF BootStep

LEMMA DeactivationAsChosen ==
  ASSUME Shape, InTurn, NEW k \in Toggle, DeactivationStep(k), NEW p \in Plugin, AsChosen(p)
  PROVE  AsChosen(p)'
<1> DEFINE q == tasks[k].plugin
<1>1. /\ TaskTypes /\ RegistryTypes /\ k \in Caller /\ tasks[k].step \in Unwinding /\ q \in Plugin
      /\ k # Stop /\ Unwinds(k, q) /\ UNCHANGED <<owners, disabled>> /\ tasks[k] \in TaskRecord
      /\ \A t \in Toggle : t \in Caller
  BY TypeParts, LifecycleAssumption DEF Shape, TasksAreKnown, Caller, DeactivationStep, ProcessesEnd,
     OperationsEnd, DeactivationEnds, Unwind, Unwinding, choices, Unwinds, TaskTypes
<1>2. \A t \in Toggle : t # k => tasks'[t] = tasks[t]
  <2>1. \E r : tasks' = [tasks EXCEPT ![k] = r]
    BY DEF DeactivationStep, ProcessesEnd, OperationsEnd, DeactivationEnds, Unwind
  <2> QED BY <1>1, <2>1 DEF TaskTypes
<1>3. \A b \in Owner : InProgress(b) => InProgress(b)' /\ owners'[b].plugin = owners[b].plugin
  BY <1>1 DEF InProgress
<1> HIDE DEF q
<1>4. CASE ProcessesEnd(k) \/ OperationsEnd(k)
  <2>1. tasks'[k].plugin = q /\ tasks'[k].step \in Unwinding /\ UNCHANGED <<records, current>>
    BY <1>1, <1>4 DEF ProcessesEnd, OperationsEnd, Unwind, TaskTypes, TaskRecord, Unwinding, registry, q
  <2>2. \A t \in Toggle : Unwinds(t, p)' <=> Unwinds(t, p)
    BY <1>1, <1>2, <2>1 DEF Unwinds, q
  <2> QED BY <1>1, <1>3, <2>1, <2>2, StaysAsChosen
<1>5. CASE DeactivationEnds(k)
  <2>1. /\ current'[q] = NoOwner /\ records'[q] = "disabled" /\ tasks'[k].step \notin Unwinding
        /\ \A r \in Plugin : r # q => records'[r] = records[r] /\ current'[r] = current[r]
    BY <1>1, <1>5 DEF DeactivationEnds, RegistryTypes, TaskTypes, Done, NoTask, Unwinding, q
  <2>2. CASE p = q
    <3>1. p \in disabled'
      BY <1>1, <2>2 DEF AsChosen
    <3> QED BY <2>1, <2>2, <3>1 DEF AsChosen
  <2>3. CASE p # q
    <3>1. \A t \in Toggle : Unwinds(t, p)' <=> Unwinds(t, p)
      BY <1>1, <1>2, <2>1, <2>3 DEF Unwinds, q
    <3> QED BY <1>1, <1>3, <2>1, <2>3, <3>1, StaysAsChosen
  <2> QED BY <2>2, <2>3
<1> QED BY <1>4, <1>5 DEF DeactivationStep

LEMMA ToggleAsChosen ==
  ASSUME Shape, InTurn, ChoicesAgree, NEW t \in Toggle, ToggleStep(t), NEW p \in Plugin, AsChosen(p)
  PROVE  AsChosen(p)'
<1> DEFINE q == tasks[t].plugin
<1>1. /\ TaskTypes /\ RegistryTypes /\ OwnerTypes /\ TakeTurns /\ t \in Caller /\ Turning(t)
      /\ tasks[t].step \notin Unwinding /\ tasks[t] \in TaskRecord
      /\ \A u \in Toggle : u \in Caller
  BY TypeParts DEF Shape, InTurn, Caller, ToggleStep, WriteEnds, Enable, EnableEnds, Disable, Turning,
     Unwinding, TaskTypes
<1>2. \A u \in Toggle : u # t => tasks'[u] = tasks[u] /\ ~Turning(u)
  <2>1. \E r : tasks' = [tasks EXCEPT ![t] = r]
    BY DEF ToggleStep, WriteEnds, Enable, EnableEnds, Disable, BeginDeactivation
  <2> QED BY <1>1, <2>1 DEF TakeTurns, TaskTypes
<1>3. \A u \in Toggle, r \in Plugin : ~Unwinds(u, r)
  BY <1>1, <1>2 DEF Unwinds, Turning, Unwinding
<1>4. ASSUME tasks'[t].step \notin Unwinding PROVE \A u \in Toggle, r \in Plugin : ~Unwinds(u, r)'
  BY <1>2, <1>3, <1>4 DEF Unwinds
<1>5. Done.step \notin Unwinding /\ "written" \notin Unwinding /\ "activation" \notin Unwinding
  BY DEF Done, NoTask, Unwinding
<1>6. CASE WriteEnds(t) \/ EnableEnds(t)
  <2>1. /\ UNCHANGED <<records, current, owners, disabled>> /\ tasks'[t].step \notin Unwinding
    <3>1. tasks' = [tasks EXCEPT ![t].step = "written"] \/ tasks' = [tasks EXCEPT ![t] = Done]
      BY <1>6 DEF WriteEnds, EnableEnds
    <3>2. tasks'[t].step = "written" \/ tasks'[t] = Done
      BY <1>1, <3>1 DEF TaskTypes, TaskRecord
    <3>3. UNCHANGED <<records, current, owners, disabled>>
      BY <1>6 DEF WriteEnds, EnableEnds, registry, choices
    <3> QED BY <1>5, <3>2, <3>3
  <2>2. \A u \in Toggle : Unwinds(u, p)' <=> Unwinds(u, p)
    BY <1>3, <1>4, <2>1
  <2>3. \A b \in Owner : InProgress(b) /\ owners[b].plugin = p => InProgress(b)' /\ owners'[b].plugin = p
    BY <2>1 DEF InProgress
  <2> QED BY <2>1, <2>2, <2>3, StaysAsChosen
<1>7. ASSUME tasks[t].step = "written"
      PROVE  /\ q \in Plugin /\ \A b \in Owner : ~InProgress(b)
             /\ tasks[t].next = IF tasks[t].enable THEN disabled \ {q} ELSE disabled \cup {q}
  BY <1>1, <1>7, NoneInProgress DEF Shape, TasksAreKnown, ChoicesAgree
<1>8. CASE Enable(t)
  <2>1. /\ q \in Plugin /\ \A b \in Owner : ~InProgress(b)
        /\ disabled' = disabled \ {q}
    BY <1>7, <1>8 DEF Enable
  <2>2. CASE tasks' = [tasks EXCEPT ![t] = Done] /\ (current[q] # NoOwner \/ Refused(q))
             /\ UNCHANGED <<records, current, owners>>
    <3>1. tasks'[t].step \notin Unwinding
      BY <1>1, <1>5, <2>2 DEF TaskTypes
    <3>2. p = q => p \notin disabled
      BY <1>3, <2>2 DEF AsChosen, Refused
    <3>3. p \in disabled' <=> p \in disabled
      BY <2>1, <3>2
    <3>4. \A u \in Toggle : Unwinds(u, p)' <=> Unwinds(u, p)
      BY <1>3, <1>4, <3>1
    <3> QED BY <2>1, <2>2, <3>3, <3>4, StaysAsChosen
  <2>3. ASSUME NEW a \in Owner, ToggleActivates(t, q, a) PROVE AsChosen(p)'
    <3>1. /\ owners'[a].step = "activating" /\ owners'[a].plugin = q /\ tasks'[t].step \notin Unwinding
          /\ current' = current /\ records' = [records EXCEPT ![q] = "activating"]
      <4>1. Activate(q, a) /\ tasks'[t].step = "activation"
        BY <2>3 DEF ToggleActivates
      <4>2. owners'[a].step = "activating" /\ owners'[a].plugin = q
        BY <1>1, <2>1, <4>1, ActivatedGoes
      <4>3. current' = current /\ records' = [records EXCEPT ![q] = "activating"]
        BY <4>1 DEF Activate
      <4> QED BY <1>5, <4>1, <4>2, <4>3
    <3>2. \A u \in Toggle : ~Unwinds(u, p)'
      BY <1>4, <3>1
    <3>3. CASE p = q
      <4>1. p \notin disabled' /\ InProgress(a)' /\ owners'[a].plugin = p
        BY <2>1, <3>1, <3>3 DEF InProgress
      <4> QED BY <3>2, <4>1 DEF AsChosen
    <3>4. CASE p # q
      <4>1. records'[p] = records[p] /\ current'[p] = current[p] /\ (p \in disabled' <=> p \in disabled)
        BY <1>1, <2>1, <3>1, <3>4 DEF RegistryTypes
      <4> HIDE DEF q
      <4> QED BY <1>3, <2>1, <3>2, <4>1, StaysAsChosen
    <3> QED BY <3>3, <3>4
  <2>4. ASSUME NEW a \in Owner, Activate(q, a), current[q] = NoOwner,
               tasks' = [tasks EXCEPT ![t] = [NoTask EXCEPT !.step = "activation", !.owner = a]]
        PROVE  ToggleActivates(t, q, a)
    BY <1>1, <1>8, <2>4 DEF ToggleActivates, TaskTypes, NoTask
  <2> QED BY <1>8, <2>2, <2>3, <2>4 DEF Enable, registry
<1>9. CASE Disable(t)
  <2>1. /\ q \in Plugin /\ \A b \in Owner : ~InProgress(b)
        /\ disabled' = disabled \cup {q} /\ UNCHANGED current
    BY <1>7, <1>9 DEF Disable, BeginDeactivation
  <2>2. \A r \in Plugin : r # q => records'[r] = records[r]
    <3>1. \E value : records' = [records EXCEPT ![q] = value]
      BY <1>9 DEF Disable, BeginDeactivation
    <3> QED BY <1>1, <2>1, <3>1 DEF RegistryTypes
  <2>3. tasks'[t].step \in Unwinding => tasks'[t].plugin = q
    <3>1. CASE tasks' = [tasks EXCEPT ![t] = Done]
      BY <1>1, <1>5, <3>1 DEF TaskTypes
    <3>2. CASE BeginDeactivation(t, q)
      BY <1>1, <3>2 DEF BeginDeactivation, TaskTypes, NoTask
    <3> QED BY <1>9, <3>1, <3>2 DEF Disable
  <2>4. CASE p # q
    <3>1. \A u \in Toggle : Unwinds(u, p)' <=> Unwinds(u, p)
      BY <1>2, <1>3, <2>3, <2>4 DEF Unwinds
    <3>2. p \in disabled' <=> p \in disabled
      BY <2>1, <2>4
    <3> HIDE DEF q
    <3> QED BY <2>1, <2>2, <2>4, <3>1, <3>2, StaysAsChosen
  <2>5. CASE p = q /\ current[q] # NoOwner
    <3>1. BeginDeactivation(t, q)
      BY <1>9, <2>5 DEF Disable
    <3>2. Unwinds(t, p)'
      <4>1. PICK a : tasks' = [tasks EXCEPT ![t] = [NoTask EXCEPT !.step = "processes",
                                                                 !.plugin = q, !.owner = a]]
        BY <3>1 DEF BeginDeactivation
      <4>2. tasks'[t] = [NoTask EXCEPT !.step = "processes", !.plugin = q, !.owner = a]
        BY <1>1, <4>1 DEF TaskTypes
      <4>3. tasks'[t].step = "processes" /\ tasks'[t].plugin = q
        BY <4>2 DEF NoTask
      <4> QED BY <2>5, <4>3 DEF Unwinds, Unwinding
    <3> QED BY <2>1, <2>5, <3>2 DEF AsChosen
  <2>6. CASE p = q /\ current[q] = NoOwner
    <3>1. records'[q] = "disabled"
      BY <1>1, <1>9, <2>1, <2>6 DEF Disable, RegistryTypes
    <3> QED BY <2>1, <2>6, <3>1 DEF AsChosen
  <2> QED BY <2>4, <2>5, <2>6
<1> QED BY <1>6, <1>8, <1>9 DEF ToggleStep

LEMMA AreAsChosenNext ==
  ASSUME Shape, InTurn, KernelIsOn, ChoicesAgree, AreAsChosen, Next, ~overlap'
  PROVE  AreAsChosen'
<1>1. CASE BootStep
  BY <1>1, BootAsChosen
<1>2. CASE ~BootStep
  <2> SUFFICES ASSUME NEW n \in DOMAIN Ordinary, Reached(n)' PROVE AsChosen(Ordinary[n])'
    BY DEF AreAsChosen
  <2> DEFINE p == Ordinary[n]
  <2>1. UNCHANGED boot /\ TakeTurns
    BY <1>2, BootGoes DEF InTurn
  <2>2. UNCHANGED kernel /\ kernel \in {"starting", "started"}
    BY <1>2, <2>1, KernelMoves DEF Reached, BootStep
  <2>3. Reached(n) /\ p \in Plugin
    <3>1. DOMAIN Ordinary = 1 .. Len(Ordinary)
      BY LifecycleAssumption
    <3> QED BY <2>1, <2>2, <3>1, OrderIsOfPlugins DEF Reached
  <2>4. AsChosen(p) /\ tasks[Stop].step = "idle"
    BY <2>2, <2>3 DEF AreAsChosen, KernelIsOn
  <2> HIDE DEF p
  <2>5. ASSUME UNCHANGED <<records, current, owners, disabled>>,
               \A t \in Toggle : Unwinds(t, p)' <=> Unwinds(t, p)
        PROVE  AsChosen(p)'
    <3>1. \A b \in Owner : InProgress(b) /\ owners[b].plugin = p => InProgress(b)' /\ owners'[b].plugin = p
      BY <2>5 DEF InProgress
    <3> QED BY <2>3, <2>4, <2>5, <3>1, StaysAsChosen
  <2>6. ~StopStep /\ ~StopKernel /\ ~DeactivationStep(Stop)
    BY <2>2, <2>4 DEF StopStep, StopNext, ShutDown, Stopped, StopKernel, DeactivationStep, ProcessesEnd,
       OperationsEnd, DeactivationEnds
  <2>7. ASSUME NEW k \in Caller, DeactivationStep(k) PROVE AsChosen(p)'
    BY <2>3, <2>4, <2>6, <2>7, DeactivationAsChosen DEF Caller
  <2>8. ASSUME NEW t \in Toggle, NEW r \in Plugin, NEW enable \in BOOLEAN, SetEnabled(t, r, enable)
        PROVE  AsChosen(p)'
    <3>1. /\ UNCHANGED <<records, current, owners, disabled>> /\ TaskTypes
          /\ \A k \in Toggle : k \in Caller
      BY <2>8, TypeParts DEF SetEnabled, registry, choices, Shape, Caller
    <3>2. \A k \in Toggle : tasks[k].step \in {"idle", "done"}
      BY <2>8, <3>1, BeginsAlone
    <3>3. tasks'[t].step = "writing" /\ \A k \in Toggle : k # t => tasks'[k] = tasks[k]
      BY <2>8, <3>1 DEF SetEnabled, TaskTypes, NoTask
    <3>4. \A k \in Toggle : ~Unwinds(k, p) /\ ~Unwinds(k, p)'
      BY <3>2, <3>3 DEF Unwinds, Unwinding
    <3> QED BY <2>5, <3>1, <3>4
  <2>9. ASSUME Calls \/ Spawns PROVE AsChosen(p)'
    <3>1. UNCHANGED <<records, current, owners, disabled, tasks>>
      BY <2>9, CallTypes DEF HostUnchanged, registry, choices
    <3> QED BY <2>5, <3>1 DEF Unwinds
  <2>10. AsChosen(p)'
    BY <1>2, <2>3, <2>4, <2>6, <2>7, <2>8, <2>9, OwnerAsChosen, ToggleAsChosen, Steps
  <2> QED BY <2>10 DEF p
<1> QED BY <1>1, <1>2

(* The invariant of changes that do not meet. *)
Chosen == InTurn /\ KernelIsOn /\ ChoicesAgree /\ AreAsChosen

LEMMA ChosenInit ==
  ASSUME Init PROVE Chosen
<1>1. PICK mix \in Mixes :
        tasks = [k \in Caller |-> IF k \in mix \cup {Stop} THEN NoTask ELSE Done]
  BY DEF Init
<1>2. /\ \A t \in Toggle : tasks[t].step \in {"idle", "done"}
      /\ tasks[Stop].step = "idle" /\ kernel = "idle"
  BY <1>1 DEF NoTask, Done, Caller, Init
<1> QED BY <1>2, InTurnInit DEF Chosen, KernelIsOn, ChoicesAgree, HasRead, AreAsChosen, Reached

LEMMA ChosenIsEnabled ==
  ASSUME Shape, ~overlap => Chosen PROVE EnabledIsActive
<1> SUFFICES ASSUME ~overlap, ~Busy, kernel = "started"
             PROVE  /\ disabled = stored
                    /\ \A n \in DOMAIN Ordinary :
                         LET p == Ordinary[n]
                         IN  IF p \in disabled THEN current[p] = NoOwner /\ records[p] = "disabled"
                             ELSE records[p] = IF current[p] = NoOwner THEN "failed" ELSE "active"
  BY DEF EnabledIsActive
<1>1. /\ \A k \in Caller : tasks[k].step \in {"idle", "done"}
      /\ boot.step = "done" /\ InTurn /\ \A t \in Toggle : t \in Caller
  BY DEF Busy, Chosen, KernelIsOn, Caller
<1>2. disabled = stored
  BY <1>1 DEF Chosen, ChoicesAgree, HasRead
<1>3. \A a \in Owner : ~InProgress(a)
  BY <1>1 DEF InTurn, AreAwaited
<1>4. \A t \in Toggle, p \in Plugin : ~Unwinds(t, p)
  BY <1>1 DEF Unwinds, Unwinding
<1>5. ASSUME NEW n \in DOMAIN Ordinary
      PROVE  IF Ordinary[n] \in disabled
             THEN current[Ordinary[n]] = NoOwner /\ records[Ordinary[n]] = "disabled"
             ELSE records[Ordinary[n]] = IF current[Ordinary[n]] = NoOwner THEN "failed" ELSE "active"
  <2>1. AsChosen(Ordinary[n])
    BY DEF Chosen, AreAsChosen, Reached
  <2>2. Ordinary[n] \in Plugin
    BY LifecycleAssumption, OrderIsOfPlugins
  <2> QED BY <1>3, <1>4, <2>1, <2>2 DEF AsChosen
<1> QED BY <1>2, <1>5

(* As long as changes take turns, a running kernel at rest has in memory the     *)
(* list it has stored, and each plugin is off exactly if it is listed and active  *)
(* or failed otherwise (plugin-manager.ts:1836).                                 *)
THEOREM EnabledAreActive == Spec => []EnabledIsActive
<1>1. Init => Shape /\ (~overlap => Chosen)
  BY ShapeInit, ChosenInit
<1>2. Shape /\ (~overlap => Chosen) /\ [Next]_vars => (Shape /\ (~overlap => Chosen))'
  <2>1. CASE Next
    <3> SUFFICES ASSUME Shape, ~overlap => Chosen, ~overlap' PROVE Shape' /\ Chosen'
      BY <2>1, ShapeNext
    <3>1. Shape' /\ ~overlap /\ InTurn'
      BY <2>1, ShapeNext, InTurnNext, OverlapStays DEF Chosen
    <3> QED BY <2>1, <3>1, KernelIsOnNext, ChoicesAgreeNext, AreAsChosenNext DEF Chosen, InTurn
  <2>2. CASE UNCHANGED vars
    <3>1. Shape => Shape'
      BY <2>2, ShapeNext
    <3>2. InTurn => InTurn'
      BY <2>2 DEF vars, core, registry, choices, busVars, InTurn, TakeTurns, Turning, AreAwaited,
         InProgress, AreToCome, Position, PluginsInTurn, AreAlone, Unwinds, UnwindTheirOwn, Fresh,
         Registers, IsActive
    <3>3. KernelIsOn /\ ChoicesAgree => KernelIsOn' /\ ChoicesAgree'
      BY <2>2 DEF vars, core, choices, KernelIsOn, ChoicesAgree, HasRead
    <3>4. ASSUME NEW p, AsChosen(p) PROVE AsChosen(p)'
      BY <2>2, <3>4 DEF vars, registry, choices, AsChosen, Unwinds, InProgress
    <3>5. ASSUME NEW n, Reached(n)' PROVE Reached(n)
      BY <2>2, <3>5 DEF vars, core, Reached
    <3>6. AreAsChosen => AreAsChosen'
      <4> SUFFICES ASSUME AreAsChosen, NEW n \in DOMAIN Ordinary, Reached(n)' PROVE AsChosen(Ordinary[n])'
        BY DEF AreAsChosen
      <4> DEFINE p == Ordinary[n]
      <4>1. AsChosen(p)
        BY <3>5 DEF AreAsChosen
      <4> HIDE DEF p
      <4>2. AsChosen(p)'
        BY <3>4, <4>1
      <4> QED BY <4>2 DEF p
    <3>7. overlap' = overlap
      BY <2>2 DEF vars
    <3> QED BY <3>1, <3>2, <3>3, <3>6, <3>7 DEF Chosen
  <2> QED BY <2>1, <2>2
<1>3. Shape /\ (~overlap => Chosen) => EnabledIsActive
  BY ChosenIsEnabled
<1> QED BY <1>1, <1>2, <1>3, PTL DEF Spec
================================================================================
