----------------------------- MODULE MCChannels -----------------------------
(* The communication service and the gateway of a channel: a behaviour is one   *)
(* of either.  What the gateway hands over, the service takes as a delivery.    *)
EXTENDS CommunicationService, DiscordGateway

VARIABLE service

MCStamp == [m \in Message |-> IF m = 2 THEN 1 ELSE 2]

MCCallMixes == {Send, Delivery}

Init ==
  /\ CommInit /\ DiscordInit
  /\ \/ service = "communication" /\ runtime = "stopped"
     \/ service = "gateway" /\ \A s \in Send : SendAt(s, "done")

Next ==
  \/ service = "communication" /\ CommNext /\ UNCHANGED <<service, discordVars>>
  \/ service = "gateway" /\ DiscordNext /\ UNCHANGED <<service, commVars>>

Spec == Init /\ [][Next]_<<service, commVars, discordVars>> /\ DiscordFairness
=============================================================================
