------------------------------ MODULE MailChannel ------------------------------
(* One account of GoogleChannelController, plugins/channel-google/src/runtime.ts *)
(* (plugins/channel-m365/src/runtime.ts is its twin): the settings and the grant *)
(* it runs with, the adapter it registers, and the loop that polls the inbox and *)
(* stores the ids it has seen.                                                   *)
(*                                                                               *)
(* A save of the settings, a connect and a disconnect take turns, as the buttons *)
(* of the settings page do.  The vault answers reads in the order they were      *)
(* made.  Messages are numbered as they arrive; none is deleted, and the         *)
(* stored ids never outgrow their list, which is twenty times a page.            *)
(*                                                                               *)
(* Operators named Broken... are plausible defects of the definition below       *)
(* them; no action uses one.                                                     *)
EXTENDS Naturals, Sequences

CONSTANTS MaxMail,      \* bound: messages
          PageSize,     \* MAX_POLL_MESSAGES
          Poller,       \* bound: loops that have not ended yet, at a time
          MaxMailEvents \* bound: what people do, ends of the process, and failures

VARIABLES account,    \* what matters of the settings
          grant,      \* the vault holds a grant
          operation,  \* the save, connect or disconnect under way
          plugin,     \* whether the context is active, aborted, or disposed
          syncs,      \* #queue: how many, the running one included
          syncing,    \* where the running one stands
          reads,      \* snapshot() calls that wait for the vault
          session,    \* #sessions: its number, or 0
          sessions,   \* how many there have been
          ran,        \* the account it was started with
          registered, \* its adapter is registered, its signal not aborted
          pollTask,       \* session.task, or NoPoller
          tools,      \* #tools
          behind,     \* history: a call has failed between a change and its sync
          pollers,    \* the loops
          arrived,    \* messages in the inbox
          seenIds,    \* stored: the ids
          recorded,      \* messages the communication service has recorded
          dropped,    \* history: others that it was given without an adapter
          mailEvents

mailVars == <<account, grant, operation, plugin, syncs, syncing, reads, session, sessions, ran,
              registered, pollTask, tools, behind, pollers, arrived, seenIds, recorded, dropped,
              mailEvents>>

connection == <<account, grant, operation, plugin, behind>>
syncState == <<syncs, syncing, reads, tools>>
accountSession == <<session, sessions, ran, registered, pollTask>>
mailbox == <<arrived, seenIds, recorded, dropped>>

NoPoller == 0

Mail == 1 .. MaxMail

ASSUME MailAssumption ==
  /\ MaxMail \in Nat /\ PageSize \in Nat \ {0} /\ NoPoller \notin Poller
  /\ MaxMailEvents \in Nat

NoPoll == [pc |-> "none", session |-> 0, todo |-> <<>>, next |-> {}]

(* A new controller.  A connect or disconnect that failed half-way in an earlier *)
(* run of the program leaves a grant without its mailbox, or a mailbox without   *)
(* its grant.                                                                    *)
MailboxAt(enabled, queued) ==
  /\ grant \in BOOLEAN
  /\ account \in [enabled : {enabled}, recipients : {0}, mailbox : BOOLEAN]
  /\ operation = "none" /\ plugin = "active"
  /\ syncs = queued /\ syncing = "no" /\ reads = <<>>
  /\ session = 0 /\ sessions = 0 /\ ran = account /\ registered = FALSE /\ pollTask = NoPoller
  /\ tools = FALSE /\ behind = FALSE
  /\ pollers = [p \in Poller |-> NoPoll]
  /\ arrived = 1 /\ seenIds = {} /\ recorded = {} /\ dropped = {}
  /\ mailEvents = 0

(* initialize, with an enabled account. *)
MailInit == MailboxAt(TRUE, 1)

MailEvent == mailEvents < MaxMailEvents /\ mailEvents' = mailEvents + 1

Smoothly == UNCHANGED mailEvents

(************************ Settings, connect, disconnect ************************)

(* update() and, when it has changed something, #onConfigChanged.               *)
Updated(new, awaits) ==
  IF new = account
  THEN /\ operation' = "resync" /\ UNCHANGED <<account, syncs>>
  ELSE /\ account' = new /\ syncs' = syncs + 1 /\ operation' = awaits

SaveSettings ==
  /\ plugin = "active" /\ operation = "none" /\ MailEvent
  /\ \E e \in BOOLEAN, r \in {0, 1} :
       LET new == [account EXCEPT !.enabled = e, !.recipients = r]
       IN  new # account /\ Updated(new, "saved")
  /\ UNCHANGED <<grant, plugin, behind, syncing, reads, tools, accountSession, pollers, mailbox>>

AskOAuth(what) ==
  /\ plugin = "active" /\ operation = "none" /\ MailEvent
  /\ operation' = what
  /\ UNCHANGED <<account, grant, plugin, behind, syncState, accountSession, pollers, mailbox>>

(* oauth.connect: the consent and the code, or not. *)
Consented ==
  /\ operation = "connect" /\ Smoothly
  /\ \/ grant' = TRUE /\ operation' = "profile"
     \/ operation' = "none" /\ UNCHANGED grant
  /\ UNCHANGED <<account, plugin, behind, syncState, accountSession, pollers, mailbox>>

(* getProfile and #writeAccounts.  If either fails, the grant stays and nothing *)
(* is synchronised.                                                             *)
Profiled ==
  /\ operation = "profile"
  /\ \/ /\ Smoothly /\ Updated([account EXCEPT !.mailbox = TRUE], "published")
        /\ UNCHANGED behind
     \/ /\ MailEvent /\ operation' = "none" /\ behind' = TRUE
        /\ UNCHANGED <<account, syncs>>
  /\ UNCHANGED <<grant, plugin, syncing, reads, tools, accountSession, pollers, mailbox>>

Disconnected ==
  /\ operation = "disconnect"
  /\ \/ Smoothly /\ grant' = FALSE /\ operation' = "forget"
     \/ MailEvent /\ operation' = "none" /\ UNCHANGED grant
  /\ UNCHANGED <<account, plugin, behind, syncState, accountSession, pollers, mailbox>>

MailboxForgotten ==
  /\ operation = "forget"
  /\ \/ /\ Smoothly /\ Updated([account EXCEPT !.mailbox = FALSE], "published")
        /\ UNCHANGED behind
     \/ /\ MailEvent /\ operation' = "none" /\ behind' = TRUE
        /\ UNCHANGED <<account, syncs>>
  /\ UNCHANGED <<grant, plugin, syncing, reads, tools, accountSession, pollers, mailbox>>

(* update() returns when its watchers have; connect and disconnect then         *)
(* synchronise once more.                                                       *)
Resynced ==
  /\ Smoothly
  /\ \/ operation = "resync" /\ operation' = "saved" /\ syncs' = syncs + 1
     \/ operation = "published" /\ syncs = 0 /\ operation' = "resync" /\ UNCHANGED syncs
     \/ operation = "saved" /\ syncs = 0 /\ operation' = "none" /\ UNCHANGED syncs
  /\ UNCHANGED <<account, grant, plugin, behind, syncing, reads, tools, accountSession,
                 pollers, mailbox>>

(************************************* sync *************************************)

Reading(who) == Append(reads, [by |-> who, session |-> session', connected |-> grant])

NoSessionLeft ==
  /\ session' = 0 /\ registered' = FALSE /\ pollTask' = NoPoller
  /\ UNCHANGED <<sessions, ran>>

(* #syncNow as far as its first answer of the vault.  A session whose account   *)
(* has not changed has its poll looked at; any other is replaced, and the new   *)
(* adapter starts with a look of its own.                                       *)
SyncBegins ==
  /\ syncs > 0 /\ syncing = "no" /\ Smoothly
  /\ \/ /\ plugin = "disposed"
        /\ NoSessionLeft /\ tools' = FALSE
        /\ syncs' = syncs - 1 /\ UNCHANGED <<syncing, reads, behind>>
     \/ /\ plugin # "disposed" /\ ~account.enabled
        /\ NoSessionLeft
        /\ syncing' = "tools" /\ reads' = Reading("tools")
        /\ behind' = FALSE /\ UNCHANGED <<syncs, tools>>
     \/ /\ plugin # "disposed" /\ account.enabled /\ session # 0 /\ ran = account
        /\ UNCHANGED <<session, sessions, ran, registered>>
        /\ IF registered
           THEN syncing' = "poll" /\ reads' = Reading("sync") /\ UNCHANGED pollTask
           ELSE syncing' = "tools" /\ reads' = Reading("tools") /\ pollTask' = NoPoller
        /\ behind' = FALSE /\ UNCHANGED <<syncs, tools>>
     \/ /\ plugin # "disposed" /\ account.enabled /\ ~(session # 0 /\ ran = account)
        /\ sessions' = sessions + 1 /\ session' = sessions' /\ ran' = account /\ pollTask' = NoPoller
        /\ registered' = (plugin = "active")
        /\ IF registered'
           THEN syncing' = "tools" /\ reads' = Reading("start") \o <<[by |-> "tools",
                  session |-> session', connected |-> grant]>> /\ UNCHANGED syncs
           ELSE syncs' = syncs - 1 /\ UNCHANGED <<syncing, reads>>
        /\ behind' = FALSE /\ UNCHANGED tools
  /\ UNCHANGED <<account, grant, operation, plugin, pollers, mailbox>>

Snapshot == Head(reads)

Reads == reads # <<>>

BrokenLookedAt(s) ==
  IF s = session /\ Snapshot.connected /\ pollTask = NoPoller /\ registered
  THEN \E p \in Poller :
         /\ pollers[p].pc = "none"
         /\ pollTask' = p
         /\ pollers' = [pollers EXCEPT ![p] = [NoPoll EXCEPT !.pc = "sleeping", !.session = s]]
  ELSE UNCHANGED <<pollTask, pollers>>

(* #syncPoll with the answer: stop, or start unless there is a task.  A loop    *)
(* whose signal has aborted ends at once.                                       *)
LookedAt(s) ==
  \/ s = session /\ ~Snapshot.connected /\ pollTask' = NoPoller /\ UNCHANGED pollers
  \/ /\ s = session /\ Snapshot.connected /\ pollTask = NoPoller /\ registered
     /\ \E p \in Poller :
          /\ pollers[p].pc = "none"
          /\ pollTask' = p
          /\ pollers' = [pollers EXCEPT ![p] = [NoPoll EXCEPT !.pc = "sleeping", !.session = s]]
  \/ /\ s # session \/ (Snapshot.connected /\ (pollTask # NoPoller \/ ~registered))
     /\ UNCHANGED <<pollTask, pollers>>

(* #start does not await its look, a sync does. *)
PollAnswered ==
  /\ Reads /\ Snapshot.by \in {"start", "sync"} /\ Smoothly
  /\ LookedAt(Snapshot.session)
  /\ IF Snapshot.by = "sync"
     THEN /\ syncing' = "tools"
          /\ reads' = Append(Tail(reads), [by |-> "tools", session |-> session,
                                           connected |-> grant])
     ELSE reads' = Tail(reads) /\ UNCHANGED syncing
  /\ UNCHANGED <<connection, syncs, tools, session, sessions, ran, registered, mailbox>>

(* #syncTools *)
ToolsAnswered ==
  /\ Reads /\ Snapshot.by = "tools" /\ Smoothly
  /\ tools' = (Snapshot.connected /\ (tools \/ plugin = "active"))
  /\ reads' = Tail(reads) /\ syncing' = "no" /\ syncs' = syncs - 1
  /\ UNCHANGED <<connection, accountSession, pollers, mailbox>>

(* The vault fails: the sync ends, or the session has had no look. *)
AnswerFails ==
  /\ Reads /\ MailEvent
  /\ reads' = Tail(reads) /\ behind' = TRUE
  /\ IF Snapshot.by = "start"
     THEN UNCHANGED <<syncs, syncing>>
     ELSE syncing' = "no" /\ syncs' = syncs - 1
  /\ UNCHANGED <<account, grant, operation, plugin, tools, accountSession, pollers, mailbox>>

(*********************************** The loop ***********************************)

Goes(p, pc) == pollers' = [pollers EXCEPT ![p].pc = pc]

(* The signal of the loop; the adapter it ingests for. *)
Running(p) == pollTask = p /\ registered

Served(p) == registered /\ pollers[p].session = session

(* sleep, and `while`: an aborted loop ends. *)
Rests(p) ==
  pollers' = [pollers EXCEPT ![p] =
    IF Running(p) THEN [NoPoll EXCEPT !.pc = "sleeping", !.session = pollers[p].session]
                  ELSE NoPoll]

Awakes(p) ==
  /\ pollers[p].pc = "sleeping" /\ Smoothly
  /\ IF Running(p) THEN Goes(p, "listing") ELSE Rests(p)
  /\ UNCHANGED <<connection, syncState, accountSession, mailbox>>

(* The newest of the inbox, oldest first. *)
Page == {m \in 1 .. arrived : m + PageSize > arrived}

InOrder(messages) ==
  SelectSeq([i \in 1 .. MaxMail |-> i], LAMBDA m : m \in messages)

(* listInbox; what arrives later is not in the page. *)
InboxListed(p) ==
  /\ pollers[p].pc = "listing" /\ Running(p) /\ Smoothly
  /\ pollers' = [pollers EXCEPT ![p].pc = "loading", ![p].todo = InOrder(Page)]
  /\ UNCHANGED <<connection, syncState, accountSession, mailbox>>

BrokenPollFails(p) ==
  /\ pollers[p].pc \in {"listing", "loading"}
  /\ IF Running(p) \/ pollers[p].pc = "loading" THEN MailEvent ELSE Smoothly
  /\ pollers' = [pollers EXCEPT ![p] = NoPoll]
  /\ UNCHANGED <<connection, syncState, accountSession, mailbox>>

(* The request fails, or its signal aborts; #loadSeen may fail too. *)
PollFails(p) ==
  /\ pollers[p].pc \in {"listing", "loading"}
  /\ IF Running(p) \/ pollers[p].pc = "loading" THEN MailEvent ELSE Smoothly
  /\ Rests(p)
  /\ UNCHANGED <<connection, syncState, accountSession, mailbox>>

Loaded(p) ==
  /\ pollers[p].pc = "loading" /\ Smoothly
  /\ pollers' = [pollers EXCEPT ![p].pc = "handing", ![p].next = seenIds,
       ![p].todo = SelectSeq(@, LAMBDA m : m \notin seenIds)]
  /\ UNCHANGED <<connection, syncState, accountSession, mailbox>>

Handed(p) ==
  [pollers EXCEPT ![p].todo = Tail(@), ![p].next = @ \cup {Head(pollers[p].todo)}]

(* buildDestinations registers the mailbox and the recipients, and the fallback *)
(* only where there is neither; #mailboxOrFallback hands over for the mailbox,  *)
(* or else for the fallback.                                                    *)
Addressed(settings) == settings.mailbox \/ settings.recipients = 0

(* ingest.  Without its adapter it returns at once: the draft is stale.  For a  *)
(* destination that the adapter has not registered it throws, every time.       *)
Hand(p) ==
  /\ pollers[p].pc = "handing" /\ pollers[p].todo # <<>> /\ Smoothly
  /\ \/ /\ ~Served(p)
        /\ dropped' = dropped \cup ({Head(pollers[p].todo)} \ recorded)
        /\ pollers' = Handed(p)
        /\ UNCHANGED <<arrived, seenIds, recorded>>
     \/ Served(p) /\ ~Addressed(ran) /\ Rests(p) /\ UNCHANGED mailbox
     \/ Served(p) /\ Addressed(ran) /\ Goes(p, "ingesting") /\ UNCHANGED mailbox
  /\ UNCHANGED <<connection, syncState, accountSession>>

Recorded(m) == recorded' = recorded \cup {m} /\ dropped' = dropped \ {m}

(* Recorded, now or by an earlier delivery. *)
Ingested(p) ==
  /\ pollers[p].pc = "ingesting" /\ Smoothly
  /\ Recorded(Head(pollers[p].todo))
  /\ pollers' = [Handed(p) EXCEPT ![p].pc = "handing"]
  /\ UNCHANGED <<connection, syncState, accountSession, arrived, seenIds>>

BrokenIngestFails(p) ==
  /\ pollers[p].pc = "ingesting"
  /\ IF Served(p) THEN MailEvent ELSE Smoothly
  /\ Recorded(Head(pollers[p].todo)) \/ UNCHANGED <<recorded, dropped>>
  /\ pollers' = [Handed(p) EXCEPT ![p].pc = "handing"]
  /\ UNCHANGED <<connection, syncState, accountSession, arrived, seenIds>>

(* It rejects, for the record, the scan or the review, with the record written  *)
(* or not; an adapter that goes aborts the review.  What was handed over before *)
(* is not stored as seen either.                                                *)
IngestFails(p) ==
  /\ pollers[p].pc = "ingesting"
  /\ IF Served(p) THEN MailEvent ELSE Smoothly
  /\ Recorded(Head(pollers[p].todo)) \/ UNCHANGED <<recorded, dropped>>
  /\ Rests(p)
  /\ UNCHANGED <<connection, syncState, accountSession, arrived, seenIds>>

(* #saveSeen, whatever another loop has stored since. *)
SaveSeen(p) ==
  /\ pollers[p].pc = "handing" /\ pollers[p].todo = <<>>
  /\ \/ Smoothly /\ seenIds' = pollers[p].next
     \/ MailEvent /\ UNCHANGED seenIds
  /\ Rests(p)
  /\ UNCHANGED <<connection, syncState, accountSession, arrived, recorded, dropped>>

(******************************** Specification *********************************)

MailArrives ==
  /\ arrived < MaxMail /\ Smoothly
  /\ arrived' = arrived + 1
  /\ UNCHANGED <<connection, syncState, accountSession, pollers, seenIds, recorded, dropped>>

(* The plugin manager aborts the context and removes the adapter, whose start   *)
(* is disposed: #stopPoll.                                                      *)
PluginAborted ==
  /\ plugin = "active" /\ MailEvent
  /\ plugin' = "aborted" /\ operation' = "none"
  /\ registered' = FALSE /\ pollTask' = NoPoller
  /\ UNCHANGED <<account, grant, behind, syncState, session, sessions, ran, pollers, mailbox>>

PluginDisposes ==
  /\ plugin = "aborted" /\ Smoothly
  /\ plugin' = "disposed" /\ syncs' = syncs + 1
  /\ UNCHANGED <<account, grant, operation, behind, syncing, reads, tools, accountSession,
                 pollers, mailbox>>

(* The process ends; or the plugin is activated again, beside loops that have   *)
(* not ended yet.                                                               *)
PluginStarts ==
  /\ MailEvent
  /\ \/ pollers' = [p \in Poller |-> NoPoll]
     \/ plugin = "disposed" /\ syncs = 0 /\ UNCHANGED pollers
  /\ plugin' = "active" /\ operation' = "none" /\ behind' = FALSE
  /\ syncs' = 1 /\ syncing' = "no" /\ reads' = <<>> /\ tools' = FALSE
  /\ NoSessionLeft
  /\ UNCHANGED <<account, grant, mailbox>>

OperationStep == Consented \/ Profiled \/ Disconnected \/ MailboxForgotten \/ Resynced

SyncStep == SyncBegins \/ PollAnswered \/ ToolsAnswered \/ AnswerFails

LoopStep(p) ==
  \/ Awakes(p) \/ InboxListed(p) \/ PollFails(p) \/ Loaded(p)
  \/ Hand(p) \/ Ingested(p) \/ IngestFails(p) \/ SaveSeen(p)

MailNext ==
  \/ SaveSettings \/ AskOAuth("connect") \/ AskOAuth("disconnect") \/ OperationStep
  \/ SyncStep
  \/ \E p \in Poller : LoopStep(p)
  \/ MailArrives \/ PluginAborted \/ PluginDisposes \/ PluginStarts

(* Calls return, timers fire, and people answer a consent or close it. *)
MailFairness ==
  /\ WF_mailVars(OperationStep) /\ WF_mailVars(SyncStep)
  /\ \A p \in Poller : WF_mailVars(LoopStep(p))

MailSpec == MailInit /\ [][MailNext]_mailVars /\ MailFairness

MailTypeOK ==
  /\ account \in [enabled : BOOLEAN, recipients : {0, 1}, mailbox : BOOLEAN]
  /\ plugin \in {"active", "aborted", "disposed"}
  /\ operation \in {"none", "connect", "profile", "disconnect", "forget", "published",
                    "resync", "saved"}
  /\ syncs \in Nat /\ syncing \in {"no", "poll", "tools"}
  /\ pollTask \in Poller \cup {NoPoller} /\ session \in 0 .. sessions
  /\ \A p \in Poller : pollers[p].pc \in {"none", "sleeping", "listing", "loading", "handing",
                                          "ingesting"}

(********************************** Properties **********************************)

Through ==
  plugin = "active" /\ operation = "none" /\ syncs = 0 /\ reads = <<>> /\ ~behind

Polling == pollTask # NoPoller /\ registered /\ pollers[pollTask].pc # "none"

(* However saves, connects, disconnects, their syncs and the looks of new        *)
(* sessions interleave: when all of them are through, the inbox is polled, by    *)
(* one loop that nobody has aborted, exactly if the account is enabled and       *)
(* connected, the adapter is registered exactly if it is enabled, and the tools  *)
(* exactly if it is connected (#sync, #syncPoll, #syncTools; architecture.md:978).*)
RunsAsSet ==
  Through => /\ Polling = (account.enabled /\ grant)
           /\ registered = account.enabled /\ (registered => ran = account)
           /\ tools = grant

(* Failing polls, overlapping loops and ends of the process included: an id is   *)
(* stored as seen only once the communication service has recorded the message,  *)
(* or was given it when the adapter had gone (#pollOnce).                        *)
SeenIsHeard == seenIds \subseteq recorded \cup dropped

(* A message does not stay for ever on the page of an account that stays enabled *)
(* and connected without being recorded, whatever failed before (#pollLoop).     *)
(* This holds only where the messages are for a destination that is registered:  *)
(* with recipients and a grant but no mailbox, every ingest is refused.          *)
InboxIsHeard ==
  \A m \in Mail :
    []<>(Through /\ account.enabled /\ grant /\ Addressed(account) /\ m \in Page
         => m \in recorded \cup dropped)
================================================================================
