--------------------------- MODULE ModelOperation ---------------------------
(* What ModelGateway promises about one operation key of one execution, seen   *)
(* from outside: the phase in the durable journal, how often a provider was    *)
(* asked and whether an answer reached a caller.                               *)
EXTENDS Integers

VARIABLES phase,       \* what the journal says
          sends,       \* how often the request left for a provider
          delivered    \* an answer has been handed to a caller

operationVars == <<phase, sends, delivered>>

Init ==
  /\ phase = "none"
  /\ sends = 0
  /\ delivered = FALSE

Advance(from, to) ==
  /\ phase \in from
  /\ phase' = to
  /\ UNCHANGED <<sends, delivered>>

Prepare == Advance({"none"}, "prepared")

Dispatch == Advance({"prepared"}, "dispatched")

(* The request leaves only while the journal already says "dispatched". *)
Send ==
  /\ phase = "dispatched"
  /\ sends = 0
  /\ sends' = 1
  /\ UNCHANGED <<phase, delivered>>

Hold == /\ sends = 1
        /\ Advance({"dispatched"}, "output-pending")

Release == Advance({"output-pending"}, "released")

Deny == Advance({"prepared", "output-pending"}, "denied")

(* A released answer may still be withdrawn, but not once a caller has it. *)
Fail ==
  /\ ~delivered
  /\ Advance({"dispatched", "output-pending", "released"}, "failed")

Deliver ==
  /\ phase = "released"
  /\ delivered' = TRUE
  /\ UNCHANGED <<phase, sends>>

Next == Prepare \/ Dispatch \/ Send \/ Hold \/ Release \/ Deny \/ Fail \/ Deliver

Spec == Init /\ [][Next]_operationVars
=============================================================================
