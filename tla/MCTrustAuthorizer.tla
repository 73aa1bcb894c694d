-------------------------- MODULE MCTrustAuthorizer --------------------------
(* Small instances of TrustAuthorizer: the requests that the tool service, the *)
(* communication service and the model gateway make.                           *)
EXTENDS TrustAuthorizer, TLC

CONSTANTS p1, p2, write, chat1, chat2

(* The preflight of a tool call: policy and capacity, no scan. *)
Preflight(operation, chat, payload, capacity) ==
  [feature |-> "tool", operation |-> operation, tool |-> write, session |-> chat,
   approval |-> "ask", inRun |-> TRUE, payload |-> payload, capacity |-> capacity,
   used |-> FALSE, scan |-> "allow"]

(* The review of its result: a scan, no policy, no capacity. *)
ResultReview(operation, chat, used) ==
  [Preflight(operation, chat, public, NoCapacity) EXCEPT
     !.approval = "auto", !.used = used, !.scan = "finding"]

(* A message: its own classification, which a scan that does not pass it raises. *)
Message(operation, inRun, payload, capacity, scan) ==
  [feature |-> "channel_send", operation |-> operation, tool |-> NoTool,
   session |-> chat1, approval |-> "auto", inRun |-> inRun, payload |-> payload,
   capacity |-> capacity, used |-> FALSE, scan |-> scan]

(* A stage of a model call, whose execution is not a run with a level.          *)
Stage(feature, scan) ==
  [Message("turn", FALSE, confidential, "internal", scan) EXCEPT !.feature = feature]

(* A call, its result and the same tool in another chat; one message sent twice *)
(* with other classifications and scans; a message that has come in; the stages *)
(* of a model call.                                                             *)
AllAsks == {
  Preflight("call1", chat1, public, "internal"),
  Preflight("call2", chat2, internal, "local-only"),
  ResultReview("call1", chat1, FALSE),
  ResultReview("call1", chat1, TRUE),
  Message("send", TRUE, internal, "internal", "allow"),
  Message("send", TRUE, confidential, "internal", "allow"),
  Message("send", TRUE, restricted, "internal", "uncovered"),
  Message("send", FALSE, restricted, "internal", "block"),
  [Message("received", FALSE, restricted, NoCapacity, "finding")
     EXCEPT !.feature = "channel_inbound"],
  Stage("model_input", "finding"),
  Stage("model_output", "finding")}

ThreeLevels == {public, confidential, restricted}
=============================================================================
