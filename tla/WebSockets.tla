------------------------------ MODULE WebSockets ------------------------------
(* The connections that WebSocketService brokers for one plugin,                *)
(* packages/kernel/src/websocket-service.ts: what happens to what arrives on a  *)
(* socket until the plugin's handler gets it.  An event is a record whose op    *)
(* says what it is; those with an op in Closing are the close of the socket.    *)
(* The size of a frame, its decoding failing, and the audit are left out.       *)
(*                                                                              *)
(* Operators named Broken... are plausible defects of the definition below      *)
(* them; no action uses one.                                                    *)
EXTENDS Naturals, Sequences, FiniteSets

CONSTANTS Connection,   \* numbers, in the order of the connects
          MaxQueued,    \* maxQueuedMessages
          MaxSockets,   \* maxSocketsPerPlugin
          Closing

VARIABLE sockets

ASSUME SocketAssumption ==
  Connection \subseteq Nat \ {0} /\ MaxQueued \in Nat \ {0} /\ MaxSockets \in Nat \ {0}

NoEvent == [op |-> "none", session |-> 0, seq |-> 0]

(* incoming is on its way; queue and decoding belong to the pump. *)
Socket(stage) == [stage |-> stage, incoming |-> <<>>, queue |-> <<>>, decoding |-> NoEvent]

Finished == Socket("finished")

SocketInit == sockets = [c \in Connection |-> Socket("none")]

(* #owned *)
OwnedSockets == {c \in Connection : sockets[c].stage \in {"opening", "open"}}

Refused == Cardinality(OwnedSockets) >= MaxSockets

Connected(c) == [sockets EXCEPT ![c] = Socket("opening")]

(* dispose, an aborted signal, a failed handshake: the handlers hear no more.   *)
TornDown(socks, c) ==
  [d \in Connection |-> IF d = c /\ socks[d].stage # "none" THEN Finished ELSE socks[d]]

AbortSockets == sockets' = [c \in Connection |-> IF c \in OwnedSockets THEN Finished ELSE sockets[c]]

Upcoming(c) == Head(sockets[c].incoming)

HasEvent(c) == sockets[c].stage = "open" /\ sockets[c].incoming # <<>>

Depth(c) == Len(sockets[c].queue) + (IF sockets[c].decoding = NoEvent THEN 0 ELSE 1)

(* #handleMessage; the pump takes the frame at once unless it is at another.    *)
Arrive(c) ==
  /\ HasEvent(c) /\ Upcoming(c).op \notin Closing /\ Depth(c) < MaxQueued
  /\ sockets' = [sockets EXCEPT ![c] =
       IF sockets[c].decoding = NoEvent
       THEN [@ EXCEPT !.incoming = Tail(sockets[c].incoming), !.decoding = Upcoming(c)]
       ELSE [@ EXCEPT !.incoming = Tail(sockets[c].incoming),
                      !.queue = Append(sockets[c].queue, Upcoming(c))]]

BrokenRejectFrame(c) ==
  /\ HasEvent(c) /\ Upcoming(c).op \notin Closing /\ Depth(c) >= MaxQueued
  /\ sockets' = [sockets EXCEPT ![c].incoming = Tail(@)]

(* #rejectFrame: one frame too many ends the connection, and no handler is      *)
(* told.                                                                        *)
RejectFrame(c) ==
  /\ HasEvent(c) /\ Upcoming(c).op \notin Closing /\ Depth(c) >= MaxQueued
  /\ sockets' = TornDown(sockets, c)

(* The connections when the handler is called with the decoded frame; #pump     *)
(* takes the next one when it has returned.                                     *)
Emitting(c) ==
  [sockets EXCEPT ![c] =
     IF sockets[c].queue = <<>> THEN [@ EXCEPT !.decoding = NoEvent]
     ELSE [@ EXCEPT !.decoding = Head(sockets[c].queue), !.queue = Tail(sockets[c].queue)]]

(* #handleClose, after an open: frames that wait in the pump are dropped.       *)
HasClosed(c) == HasEvent(c) /\ Upcoming(c).op \in Closing
==============================================================================
