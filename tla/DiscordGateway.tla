---------------------------- MODULE DiscordGateway ----------------------------
(* The gateway of one Discord account: the reducer of                           *)
(* plugins/channel-discord/src/gateway.ts, DiscordGatewayRuntime in runtime.ts, *)
(* which carries out its effects over a connection of WebSockets, and the       *)
(* session it stores.                                                           *)
(*                                                                              *)
(* The number of a connection is the generation it was opened in.  The remote   *)
(* end keeps a session and the log of what it has dispatched in it, and replays *)
(* what comes after the sequence number of a resume; a message is dispatched in *)
(* the current session whether or not anybody is connected.  Payloads are well  *)
(* formed and their policy allows them; delays and the retry counter that       *)
(* lengthens them are left out.  What goes wrong costs one of MaxFaults.        *)
(*                                                                              *)
(* Operators named Broken... are plausible defects of the definition below      *)
(* them; no action uses one.                                                    *)
EXTENDS WebSockets

CONSTANTS MaxFaults, MaxMessages   \* bounds

(* A close is no frame, and the first generation has a connection. *)
ASSUME DiscordAssumption ==
  /\ Closing \cap {"hello", "beat", "ack", "reconnect", "invalid", "invalidResumable",
                  "READY", "RESUMED", "MESSAGE"} = {}
  /\ 1 \in Connection

VARIABLES gateway,   \* GatewayState
          cycle,     \* #cycle: how far #openSocket has come
          sending,   \* the frame that waits in #send for the token
          timers,    \* the generation each timer was set in, or 0
          runtime,   \* whether run is loading, running or stopped
          stored,    \* the session in the plugin's store
          saving,    \* the save under way, if any
          desired,   \* #desiredSession, if any
          ingesting, \* messages handed to ingest
          ingested,  \* and those that were accepted
          lost,      \* history: those whose ingest did not end
          remote,    \* the remote end
          faults

discordVars == <<gateway, cycle, sending, timers, runtime, stored, saving, desired, ingesting,
                 ingested, lost, remote, faults, sockets>>

inboundVars == <<ingesting, ingested, lost>>

sessionVars == <<stored, saving, desired, inboundVars>>

worldVars == <<runtime, remote, faults>>

Live == {"connecting", "identifying", "resuming", "ready"}

(* A number 0 stands for an undefined session and a null sequence. *)
Session(s, q) == [session |-> s, sequence |-> q]

NoSession == Session(0, 0)

(* initialGatewayState *)
Initial(session) ==
  [phase |-> "idle", generation |-> 0, session |-> session.session,
   sequence |-> session.sequence, awaitingAck |-> FALSE, beating |-> FALSE]

NoTimers == [hello |-> 0, ready |-> 0, heartbeat |-> 0, reconnect |-> 0]

(* The account may not be enabled yet.  attached is the connection of the       *)
(* client; bound: a session goes with it.                                       *)
DiscordInit ==
  /\ SocketInit
  /\ gateway = Initial(NoSession) /\ cycle = "none" /\ sending = "none" /\ timers = NoTimers
  /\ runtime \in {"loading", "stopped"} /\ stored = NoSession /\ saving = {} /\ desired = {}
  /\ ingesting = {} /\ ingested = {} /\ lost = {}
  /\ remote = [current |-> 0, attached |-> 0, bound |-> FALSE, messages |-> 0, logs |-> <<>>]
  /\ faults = 0

Generation == gateway.generation

IsLive == gateway.phase \in Live

CanResume == gateway.session # 0 /\ gateway.sequence # 0

Fault == faults < MaxFaults /\ faults' = faults + 1

BrokenForgotten == [gateway EXCEPT !.session = 0]

(* forgetSession *)
Forgotten == [gateway EXCEPT !.session = 0, !.sequence = 0]

(* The remote end has a connection to which it can still write. *)
Attached(c) == remote.attached = c /\ sockets[c].stage = "open"

(* A frame of the remote end. *)
Dispatch(op, s, q) == [op |-> op, session |-> s, seq |-> q]

Frame(op) == Dispatch(op, 0, 0)

(* On its way to the client. *)
Sent(socks, frames) ==
  [socks EXCEPT ![remote.attached].incoming = @ \o frames]

(**************************** Effects and reactions ***************************)

(* Nothing but the state of the connections changes. *)
Unmoved(socks) ==
  /\ sockets' = socks
  /\ UNCHANGED <<cycle, sending, timers, sessionVars, worldVars>>

BrokenCloseCycle(socks) ==
  /\ sockets' = IF cycle = "created" THEN socks ELSE TornDown(socks, Generation)
  /\ cycle' = "none" /\ sending' = "none"

(* #closeCycle: the handlers are disposed, and an open that is under way finds  *)
(* itself stale.                                                                *)
CloseCycle(socks) ==
  /\ sockets' = TornDown(socks, Generation)
  /\ cycle' = "none" /\ sending' = "none"

Abandoned(phase, state) ==
  [state EXCEPT !.phase = phase, !.awaitingAck = FALSE, !.beating = FALSE]

(* #enqueuePersist: a save that waits for the one before it takes the latest    *)
(* session.                                                                     *)
Persist(session) ==
  /\ IF saving = {} THEN saving' = {session} /\ UNCHANGED desired
     ELSE desired' = {session} /\ UNCHANGED saving
  /\ UNCHANGED <<stored, inboundVars>>

(* The timers of the phases that are left, and the heartbeat's, are cancelled.  *)
Backoff(socks, clear) ==
  /\ gateway' = Abandoned("backoff", IF clear THEN Forgotten ELSE gateway)
  /\ CloseCycle(socks)
  /\ timers' = [NoTimers EXCEPT !.reconnect = Generation]
  /\ IF clear THEN Persist(NoSession) ELSE UNCHANGED sessionVars

ToFatal(socks) ==
  /\ gateway' = Abandoned("fatal", Forgotten)
  /\ CloseCycle(socks)
  /\ timers' = [timers EXCEPT !.hello = 0, !.ready = 0, !.heartbeat = 0]
  /\ Persist(NoSession)

Failure(fatal) == IF fatal THEN ToFatal(sockets) ELSE Backoff(sockets, FALSE)

(* closed: what the code of the close says of the session. *)
ClosedWith(code) ==
  IF code = "fatal" THEN ToFatal(sockets)
  ELSE Backoff(sockets, ~(code = "resumable" \/ (code = "abnormal" /\ CanResume)))

(****************************** Opening a socket ******************************)

(* connect, from the state that run has loaded or after a backoff. *)
Connecting(state) ==
  /\ gateway' = [state EXCEPT !.phase = "connecting", !.generation = @ + 1,
                              !.awaitingAck = FALSE, !.beating = FALSE]
  /\ cycle' = "resolving"

Load ==
  /\ runtime = "loading" /\ runtime' = "running"
  /\ Connecting(Initial(stored))
  /\ UNCHANGED <<sending, timers, sockets, sessionVars, remote, faults>>

Reconnect ==
  /\ timers.reconnect # 0 /\ timers' = [timers EXCEPT !.reconnect = 0]
  /\ timers.reconnect = Generation /\ ~IsLive /\ Generation + 1 \in Connection
  /\ Connecting(gateway)
  /\ UNCHANGED <<sending, sockets, sessionVars, worldVars>>

(* The address is known and the service asked for a connection. *)
Resolve ==
  /\ cycle = "resolving"
  /\ IF Refused THEN Failure(FALSE)
     ELSE /\ sockets' = Connected(Generation) /\ cycle' = "created"
          /\ UNCHANGED <<gateway, sending, timers, sessionVars>>
  /\ UNCHANGED worldVars

(* Only a new session needs to ask for the address. *)
ResolveFails ==
  /\ cycle = "resolving" /\ ~CanResume /\ Fault
  /\ \E fatal \in BOOLEAN : Failure(fatal)
  /\ UNCHANGED <<runtime, remote>>

Listen ==
  /\ cycle = "created" /\ cycle' = "opening"
  /\ UNCHANGED <<gateway, sending, timers, sockets, sessionVars, worldVars>>

(* The remote end greets a new connection.  Then ready resolves. *)
Open ==
  /\ cycle = "opening" /\ sockets[Generation].stage = "opening"
  /\ sockets' = [sockets EXCEPT ![Generation] =
                   [@ EXCEPT !.stage = "open", !.incoming = <<Frame("hello")>>]]
  /\ remote' = [remote EXCEPT !.attached = Generation, !.bound = FALSE]
  /\ cycle' = "open"
  /\ timers' = [timers EXCEPT !.hello = Generation]
  /\ UNCHANGED <<gateway, sending, sessionVars, runtime, faults>>

OpenFails ==
  /\ cycle = "opening" /\ sockets[Generation].stage = "opening" /\ Fault
  /\ Failure(FALSE)
  /\ UNCHANGED <<runtime, remote>>

(* ready rejects when the service has torn the connection down before it opened. *)
ReadyRejects ==
  /\ cycle = "opening" /\ sockets[Generation].stage = "finished"
  /\ Failure(FALSE)
  /\ UNCHANGED worldVars

(******************************* Frames handled *******************************)

HandleHello(socks) ==
  IF gateway.phase # "connecting" THEN Unmoved(socks) /\ UNCHANGED gateway
  ELSE /\ gateway' = [gateway EXCEPT !.phase = IF CanResume THEN "resuming" ELSE "identifying",
                                     !.beating = TRUE, !.awaitingAck = FALSE]
       /\ timers' = [timers EXCEPT !.hello = 0, !.heartbeat = Generation, !.ready = Generation]
       /\ sending' = IF CanResume THEN "resume" ELSE "identify"
       /\ sockets' = socks
       /\ UNCHANGED <<cycle, sessionVars, worldVars>>

Acknowledged(socks) ==
  IF Attached(Generation) THEN Sent(socks, <<Frame("ack")>>) ELSE socks

(* The remote end asks for a heartbeat. *)
HandleBeat(socks) ==
  /\ gateway' = [gateway EXCEPT !.awaitingAck = TRUE]
  /\ sockets' = Acknowledged(socks)
  /\ timers' = IF gateway.beating THEN [timers EXCEPT !.heartbeat = Generation] ELSE timers
  /\ UNCHANGED <<cycle, sending, sessionVars, worldVars>>

HandleAck(socks) == gateway' = [gateway EXCEPT !.awaitingAck = FALSE] /\ Unmoved(socks)

Advanced(frame) == [gateway EXCEPT !.sequence = frame.seq]

(* READY and RESUMED: the session is stored. *)
HandleReady(socks, state) ==
  /\ gateway' = [state EXCEPT !.phase = "ready"]
  /\ timers' = [timers EXCEPT !.hello = 0, !.ready = 0]
  /\ sockets' = socks
  /\ Persist(Session(state.session, state.sequence))
  /\ UNCHANGED <<cycle, sending, worldVars>>

(* MESSAGE_CREATE *)
HandleMessage(socks, frame) ==
  /\ gateway' = Advanced(frame)
  /\ sockets' = socks
  /\ ingesting' = IF gateway.phase \in {"ready", "resuming"}
                  THEN ingesting \cup {<<frame.session, frame.seq>>} ELSE ingesting
  /\ UNCHANGED <<cycle, sending, timers, stored, saving, desired, ingested, lost, worldVars>>

(* dispatch: what is not newer than the last one seen is passed over; the only  *)
(* other event is a message.                                                    *)
HandleDispatch(socks, frame) ==
  IF frame.seq <= gateway.sequence THEN Unmoved(socks) /\ UNCHANGED gateway
  ELSE CASE frame.op = "READY" ->
              HandleReady(socks, [Advanced(frame) EXCEPT !.session = frame.session])
         [] frame.op = "RESUMED" -> HandleReady(socks, Advanced(frame))
         [] OTHER -> HandleMessage(socks, frame)

HandleFrame(socks, frame) ==
  CASE frame.op = "hello" -> HandleHello(socks)
    [] frame.op = "beat" -> HandleBeat(socks)
    [] frame.op = "ack" -> HandleAck(socks)
    [] frame.op = "reconnect" -> Backoff(socks, FALSE) /\ UNCHANGED worldVars
    [] frame.op = "invalid" -> Backoff(socks, TRUE) /\ UNCHANGED worldVars
    [] frame.op = "invalidResumable" -> Backoff(socks, ~CanResume) /\ UNCHANGED worldVars
    [] OTHER -> HandleDispatch(socks, frame)

(* The connection of the cycle is the only one with handlers. *)
Handle(c) ==
  /\ sockets[c].decoding # NoEvent
  /\ c = Generation /\ IsLive
  /\ HandleFrame(Emitting(c), sockets[c].decoding)

Arrives(c) ==
  /\ Arrive(c)
  /\ UNCHANGED <<gateway, cycle, sending, timers, sessionVars, worldVars>>

FrameRejected(c) ==
  /\ Fault /\ RejectFrame(c)
  /\ UNCHANGED <<gateway, cycle, sending, timers, sessionVars, runtime, remote>>

Close(c) ==
  /\ HasClosed(c) /\ c = Generation /\ IsLive
  /\ ClosedWith(Upcoming(c).op)
  /\ UNCHANGED worldVars

(****************************** Frames to be sent *****************************)

(* The remote end opens a session, or goes on with the one it knows. *)
Identified ==
  LET s == Len(remote.logs) + 1
  IN  /\ remote' = [remote EXCEPT !.current = s, !.bound = TRUE,
                                  !.logs = Append(@, <<"READY">>)]
      /\ sockets' = Sent(sockets, <<Dispatch("READY", s, 1)>>)

Resumed ==
  IF gateway.session = remote.current
  THEN LET s == remote.current
           log == Append(remote.logs[s], "RESUMED")
           q == gateway.sequence
       IN  /\ remote' = [remote EXCEPT !.bound = TRUE, !.logs[s] = log]
           /\ sockets' = Sent(sockets, [i \in 1 .. (Len(log) - q) |->
                                          Dispatch(log[q + i], s, q + i)])
  ELSE sockets' = Sent(sockets, <<Frame("invalid")>>) /\ UNCHANGED remote

(* #send, when it has read the token. *)
SendFrame ==
  /\ sending # "none"
  /\ IF sockets[Generation].stage # "open" THEN Failure(FALSE) /\ UNCHANGED remote
     ELSE /\ IF ~Attached(Generation) THEN UNCHANGED <<sockets, remote>>
             ELSE IF sending = "identify" THEN Identified ELSE Resumed
          /\ sending' = "none"
          /\ UNCHANGED <<gateway, cycle, timers, sessionVars>>
  /\ UNCHANGED <<runtime, faults>>

(* There is no token any more, or too much was sent lately. *)
SendRefused ==
  /\ sending # "none" /\ Fault
  /\ \E tokenless \in BOOLEAN : Failure(tokenless)
  /\ UNCHANGED <<runtime, remote>>

(*********************************** Timers ***********************************)

(* The remote end may be slow, which is a fault, or it does not answer at all.  *)
Overdue == IF Attached(Generation) THEN Fault ELSE UNCHANGED faults

Due(timer) == timers[timer] # 0 /\ timers[timer] = Generation

HelloTimeout ==
  /\ Due("hello") /\ gateway.phase = "connecting" /\ Overdue
  /\ Backoff(sockets, FALSE)
  /\ UNCHANGED <<runtime, remote>>

ReadyTimeout ==
  /\ Due("ready") /\ gateway.phase \in {"identifying", "resuming"} /\ Overdue
  /\ Backoff(sockets, FALSE)
  /\ UNCHANGED <<runtime, remote>>

(* The connection is a zombie. *)
HeartbeatUnanswered ==
  /\ Due("heartbeat") /\ gateway.beating /\ gateway.awaitingAck /\ Overdue
  /\ Backoff(sockets, FALSE)
  /\ UNCHANGED <<runtime, remote>>

Heartbeat ==
  /\ Due("heartbeat") /\ gateway.beating /\ ~gateway.awaitingAck
  /\ sockets[Generation].stage = "open"
  /\ gateway' = [gateway EXCEPT !.awaitingAck = TRUE]
  /\ sockets' = Acknowledged(sockets)
  /\ UNCHANGED <<cycle, sending, timers, sessionVars, worldVars>>

(* The send throws and its failure is dispatched before the next heartbeat is   *)
(* scheduled, by a gateway that has backed off.                                 *)
HeartbeatFails ==
  /\ Due("heartbeat") /\ gateway.beating /\ ~gateway.awaitingAck
  /\ sockets[Generation].stage # "open"
  /\ gateway' = Abandoned("backoff", gateway)
  /\ CloseCycle(sockets)
  /\ timers' = [NoTimers EXCEPT !.reconnect = Generation, !.heartbeat = Generation]
  /\ UNCHANGED <<sessionVars, worldVars>>

(* A heartbeat left over from another generation, or of a gateway that has      *)
(* backed off.                                                                  *)
HeartbeatIdle ==
  /\ timers.heartbeat # 0 /\ (timers.heartbeat # Generation \/ ~gateway.beating)
  /\ timers' = [timers EXCEPT !.heartbeat = 0]
  /\ UNCHANGED <<gateway, cycle, sending, sockets, sessionVars, worldVars>>

(*************************** What is stored and taken *************************)

SaveEnds ==
  /\ saving # {} /\ saving' = desired /\ desired' = {}
  /\ \/ \E session \in saving : stored' = session /\ UNCHANGED faults
     \/ Fault /\ UNCHANGED stored
  /\ UNCHANGED <<gateway, cycle, sending, timers, sockets, inboundVars, runtime, remote>>

(* #emitInbound: ingest stores the message, or rejects it. *)
IngestEnds ==
  /\ \E m \in ingesting :
       /\ ingesting' = ingesting \ {m}
       /\ \/ ingested' = ingested \cup {m} /\ UNCHANGED <<lost, faults>>
          \/ lost' = lost \cup {m} /\ Fault /\ UNCHANGED ingested
  /\ UNCHANGED <<gateway, cycle, sending, timers, sockets, stored, saving, desired, runtime, remote>>

(***************************** Stop and start again ***************************)

(* stop: the adapter is disposed or the plugin deactivated. *)
Stop ==
  /\ runtime # "stopped" /\ runtime' = "stopped"
  /\ gateway' = [Abandoned("idle", gateway) EXCEPT !.generation = @ + 1]
  /\ CloseCycle(sockets)
  /\ timers' = NoTimers
  /\ UNCHANGED <<sessionVars, remote, faults>>

(* disconnect forgets the session once the adapter is gone. *)
ForgetStored ==
  /\ runtime = "stopped" /\ stored # NoSession /\ stored' = NoSession
  /\ UNCHANGED <<gateway, cycle, sending, timers, sockets, saving, desired, inboundVars,
                 worldVars>>

NewRuntime ==
  /\ Fault
  /\ runtime' = "loading" /\ gateway' = Initial(NoSession)
  /\ cycle' = "none" /\ sending' = "none" /\ timers' = NoTimers
  /\ sockets' = [c \in Connection |-> Socket("none")]
  /\ remote' = [remote EXCEPT !.attached = 0, !.bound = FALSE]

(* The adapter is registered again, when the saves of the runtime before it     *)
(* have ended.                                                                  *)
RegisterAgain ==
  /\ runtime = "stopped" /\ saving = {} /\ desired = {}
  /\ NewRuntime
  /\ UNCHANGED sessionVars

(* The process ends.  What was being ingested is gone; it counts as lost if it  *)
(* is not after the sequence number that the next resume will start from.       *)
Crash ==
  /\ NewRuntime
  /\ stored' \in {stored} \cup saving
  /\ saving' = {} /\ desired' = {} /\ ingesting' = {}
  /\ lost' = lost \cup {m \in ingesting : m[1] = stored'.session /\ m[2] <= stored'.sequence}
  /\ UNCHANGED ingested

(******************************* The remote end *******************************)

RemoteMessage ==
  /\ remote.current # 0 /\ remote.messages < MaxMessages
  /\ LET s == remote.current
         log == Append(remote.logs[s], "MESSAGE")
     IN  /\ remote' = [remote EXCEPT !.messages = @ + 1, !.logs[s] = log]
         /\ sockets' = IF remote.bound /\ remote.attached # 0 /\ Attached(remote.attached)
                       THEN Sent(sockets, <<Dispatch("MESSAGE", s, Len(log))>>) ELSE sockets
  /\ UNCHANGED <<gateway, cycle, sending, timers, sessionVars, runtime, faults>>

(* The connection is closed, or breaks with all that is on its way, or goes     *)
(* silent without either end hearing of it.                                     *)
RemoteGoes ==
  /\ remote.attached # 0 /\ Attached(remote.attached) /\ Fault
  /\ \/ \E code \in Closing :
          /\ sockets' = IF code = "abnormal"
                        THEN [sockets EXCEPT ![remote.attached].incoming = <<Frame(code)>>]
                        ELSE Sent(sockets, <<Frame(code)>>)
          /\ remote' = [remote EXCEPT !.attached = 0, !.bound = FALSE,
                                      !.current = IF code = "fresh" THEN 0 ELSE @]
     \/ remote' = [remote EXCEPT !.attached = 0, !.bound = FALSE] /\ UNCHANGED sockets
  /\ UNCHANGED <<gateway, cycle, sending, timers, sessionVars, runtime>>

(* It asks for a heartbeat or a new connection, or ends the session. *)
RemoteAsks ==
  /\ remote.attached # 0 /\ Attached(remote.attached) /\ Fault
  /\ \E op \in {"beat", "reconnect", "invalid", "invalidResumable"} :
       /\ sockets' = Sent(sockets, <<Frame(op)>>)
       /\ remote' = IF op = "invalid" THEN [remote EXCEPT !.current = 0, !.bound = FALSE]
                    ELSE remote
  /\ UNCHANGED <<gateway, cycle, sending, timers, sessionVars, runtime>>

RemoteForgets ==
  /\ remote.current # 0 /\ ~remote.bound /\ Fault
  /\ remote' = [remote EXCEPT !.current = 0]
  /\ UNCHANGED <<gateway, cycle, sending, timers, sockets, sessionVars, runtime>>

(* The service tears the plugin's connections down. *)
SocketsAborted ==
  /\ OwnedSockets # {} /\ Fault
  /\ AbortSockets
  /\ UNCHANGED <<gateway, cycle, sending, timers, sessionVars, runtime, remote>>

(******************************* Specification ********************************)

Opening == Load \/ Resolve \/ Listen \/ Open \/ ReadyRejects

Receiving == \E c \in Connection : Arrives(c) \/ Handle(c) \/ Close(c)

Timeout == HelloTimeout \/ ReadyTimeout \/ HeartbeatUnanswered

DiscordNext ==
  \/ Opening \/ Reconnect \/ ResolveFails \/ OpenFails
  \/ Receiving \/ \E c \in Connection : FrameRejected(c)
  \/ SendFrame \/ SendRefused
  \/ Timeout \/ Heartbeat \/ HeartbeatFails \/ HeartbeatIdle
  \/ SaveEnds \/ IngestEnds
  \/ Stop \/ ForgetStored \/ RegisterAgain \/ Crash
  \/ RemoteMessage \/ RemoteGoes \/ RemoteAsks \/ RemoteForgets \/ SocketsAborted

(* Awaits end and timers fire; a remote end that is there answers in time,      *)
(* unless it is a fault.                                                        *)
DiscordFairness ==
  /\ WF_discordVars(Opening) /\ WF_discordVars(Reconnect) /\ WF_discordVars(Receiving)
  /\ WF_discordVars(SendFrame) /\ WF_discordVars(Timeout /\ ~Attached(Generation))
  /\ WF_discordVars(Heartbeat \/ HeartbeatFails)

DiscordSpec == DiscordInit /\ [][DiscordNext]_discordVars /\ DiscordFairness

(********************************* Properties *********************************)

(* An account has at most one connection, none while it waits to reconnect, has *)
(* given up or is stopped: no cycle that was abandoned while it was opening     *)
(* leaves one behind (#openSocket 338-400, #closeCycle 548-575).                *)
OneSocket ==
  /\ Cardinality(OwnedSockets) <= 1
  /\ OwnedSockets # {} => IsLive /\ OwnedSockets = {Generation}

(* Every message of the session up to the sequence number from which the        *)
(* gateway would resume has been handed over and was ingested, but for those    *)
(* whose ingest failed or was cut off: nothing is skipped by closes, frames     *)
(* dropped with their connection, replays, restarts or stale sessions.          *)
NothingIsSkipped ==
  gateway.session # 0 =>
    \A q \in 1 .. gateway.sequence :
      remote.logs[gateway.session][q] = "MESSAGE" =>
        <<gateway.session, q>> \in ingesting \cup ingested \cup lost

(* When nothing goes wrong any more, the gateway ends up with a connection that *)
(* is alive and has got all there is, unless it was stopped or may not connect. *)
Recovers ==
  <>[](\/ runtime = "stopped" \/ gateway.phase = "fatal"
       \/ /\ gateway.phase = "ready" /\ Attached(Generation) /\ remote.bound
          /\ gateway.session = remote.current
          /\ gateway.sequence = Len(remote.logs[remote.current]))
===============================================================================
