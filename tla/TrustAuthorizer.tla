--------------------------- MODULE TrustAuthorizer ---------------------------
(* TrustAuthorizer.authorize of packages/kernel/src/trust-authorizer.ts, with  *)
(* the ApprovalGrantStore (approval-grants.ts) it asks first, the safety       *)
(* interactions (interaction-service.ts) it may open, and the level that       *)
(* ClassificationService keeps for the run.  Every await is a step boundary.   *)
EXTENDS Classification, FiniteSets

CONSTANTS Request,       \* calls of authorize()
          Ask,           \* what they may ask: the requests TLC enumerates
          Tool, Session, \* grantId and sessionId
          Level,         \* the classifications the run may have
          NoTool, NoAsk, NoRequest, NoCapacity

VARIABLES level,         \* the run's classification high-water mark
          session,       \* session grants, in memory
          always,        \* always grants, in memory
          store,         \* always grants, in the store
          loaded,        \* #loaded
          inFlight,      \* #inFlight: the request that opened the prompt of a key
          pending,       \* the requests whose interaction is pending
          requests       \* the local variables of each call

vars == <<level, session, always, store, loaded, inFlight, pending, requests>>

Feature == {"tool", "channel_send", "channel_inbound", "model_input", "model_output"}

(* payload is the classification of what the request itself carries; a request  *)
(* that names no open run is not compared with one, and a review of what has    *)
(* come in names no capacity.                                                   *)
AskRecord == [feature : Feature, operation : STRING, tool : Tool \cup {NoTool},
              session : Session, approval : {"auto", "ask", "deny"}, inRun : BOOLEAN,
              payload : DataClassification, capacity : ChannelCapacity \cup {NoCapacity},
              used : BOOLEAN,
              scan : {"allow", "finding", "uncovered", "block"}]

Result == {"none", "allowed", "denied", "rejected"}

PC == {"new", "has", "listing", "decide", "waiting", "joined", "remember", "settle", "done"}

(* One tool call or message is asked about with one capacity.  Only the review  *)
(* of a tool's result has none where the call itself had one; it comes with a   *)
(* scan and without a policy, the call the other way about                      *)
(* (tool-service.ts:806, 968; communication-service.ts:878, 1223).              *)
OneCapacity ==
  \A a, b \in Ask :
    a.feature = b.feature /\ a.operation = b.operation =>
      \/ a.capacity = b.capacity
      \/ a.capacity = NoCapacity /\ a.approval = "auto" /\ b.scan = "allow"
      \/ b.capacity = NoCapacity /\ b.approval = "auto" /\ a.scan = "allow"

ASSUME AuthorizerAssumption ==
  /\ NoCapacity \notin ChannelCapacity
  /\ OneCapacity
  /\ Ask \subseteq AskRecord
  /\ Level \subseteq DataClassification /\ public \in Level
  /\ NoRequest \notin Request

Idle == [pc |-> "new", ask |-> NoAsk, level |-> public, granted |-> FALSE,
         duration |-> "once", commitment |-> public, opener |-> NoRequest,
         result |-> "none", aborted |-> FALSE]

Init ==
  /\ level \in Level
  /\ session = {}
  /\ always = {}
  /\ store \in SUBSET Tool
  /\ loaded = FALSE
  /\ inFlight = {}
  /\ pending = {}
  /\ requests = [r \in Request |-> Idle]

At(r, pc) == requests[r].pc = pc

AskOf(r) == requests[r].ask

IsModelStage(r) == AskOf(r).feature \in {"model_input", "model_output"}

(******************************* The decision *******************************)

PolicyAsk(r) == AskOf(r).approval = "ask" /\ ~requests[r].granted

(* Operators named Broken... are plausible defects of the definition below      *)
(* them; no action uses one.  They show that the properties can fail.           *)
BrokenEffective(r) == requests[r].level

(* What is compared with the ceiling is the higher of what the request carries  *)
(* and of what its run has seen when it asked; the commitment holds the latter. *)
Effective(r) == maxClassification(AskOf(r).payload, requests[r].level)

ExceedsCeiling(ask, classification) ==
  ask.capacity # NoCapacity /\ exceedsCapacity(classification, ask.capacity)

Exceeds(r) == ExceedsCeiling(AskOf(r), Effective(r))

(* What the prompt would say.  Missing coverage is worded but, for a model     *)
(* stage, does not by itself lead to a prompt; nor does a ceiling.             *)
Reasons(r) ==
  {reason \in {"policy", "classification", "finding", "uncovered"} :
     \/ reason = "policy" /\ PolicyAsk(r)
     \/ reason = "classification" /\ Exceeds(r)
     \/ reason = AskOf(r).scan}

Forbidden(r) == AskOf(r).approval = "deny" \/ AskOf(r).scan = "block"

ScanReview(r) ==
  \/ AskOf(r).scan \in {"finding", "uncovered"} /\ ~IsModelStage(r)
  \/ AskOf(r).scan = "finding" /\ AskOf(r).feature = "model_input"

NeedsReview(r) ==
  \/ PolicyAsk(r)
  \/ Exceeds(r) /\ ~IsModelStage(r)
  \/ ScanReview(r)

BrokenKey(r) == <<AskOf(r).feature, AskOf(r).session, AskOf(r).operation>>

(* Requests that would show the same prompt share one.  The effective          *)
(* classification is part of the wording of a ceiling reason; payload and level *)
(* by themselves are not.                                                       *)
Key(r) ==
  <<AskOf(r).feature, AskOf(r).inRun, AskOf(r).session, AskOf(r).operation, Reasons(r),
    IF Exceeds(r) THEN <<Effective(r), AskOf(r).capacity>> ELSE <<>> >>

Prompting(r) == {other \in inFlight : Key(other) = Key(r)}

(****************************** Remembered grants ******************************)

Granted(r) ==
  \/ AskOf(r).tool \in always
  \/ <<AskOf(r).tool, AskOf(r).session>> \in session

(********************************* authorize *********************************)

Begin(r, ask) ==
  /\ At(r, "new")
  /\ requests' = [requests EXCEPT ![r].pc = IF ask.tool = NoTool THEN "decide" ELSE "has",
                                  ![r].ask = ask,
                                  ![r].level = IF ask.inRun THEN level ELSE public]
  /\ UNCHANGED <<level, session, always, store, loaded, inFlight, pending>>

(* The first to ask sets #loaded before it has read the store: the others do    *)
(* not wait for it.                                                             *)
Has(r) ==
  /\ At(r, "has")
  /\ loaded' = TRUE
  /\ requests' = [requests EXCEPT ![r].pc = IF loaded THEN "decide" ELSE "listing",
                                  ![r].granted = loaded /\ Granted(r)]
  /\ UNCHANGED <<level, session, always, store, inFlight, pending>>

List(r) ==
  /\ At(r, "listing")
  /\ always' = always \cup store
  /\ requests' = [requests EXCEPT
       ![r].pc = "decide", ![r].granted = AskOf(r).tool \in store \/ Granted(r)]
  /\ UNCHANGED <<level, session, store, loaded, inFlight, pending>>

ListFails(r) ==
  /\ At(r, "listing")
  /\ requests' = [requests EXCEPT ![r].pc = "done", ![r].result = "rejected",
                                  ![r].aborted = FALSE]
  /\ UNCHANGED <<level, session, always, store, loaded, inFlight, pending>>

Finish(r, result) ==
  requests' = [requests EXCEPT ![r].pc = "done", ![r].result = result,
                               ![r].aborted = FALSE, ![r].commitment = requests[r].level]

(* The answers that need no prompt, the prompt that another request has opened, *)
(* and the prompt of its own.                                                   *)
Decide(r) ==
  /\ At(r, "decide")
  /\ IF Forbidden(r)
     THEN Finish(r, "denied") /\ UNCHANGED <<inFlight, pending>>
     ELSE IF ~NeedsReview(r)
     THEN Finish(r, "allowed") /\ UNCHANGED <<inFlight, pending>>
     ELSE IF AskOf(r).used
     THEN Finish(r, "denied") /\ UNCHANGED <<inFlight, pending>>
     ELSE IF Prompting(r) # {}
     THEN /\ requests' = [requests EXCEPT ![r].pc = "joined", ![r].aborted = FALSE]
          /\ UNCHANGED <<inFlight, pending>>
     ELSE IF requests[r].aborted
     THEN Finish(r, "rejected") /\ UNCHANGED <<inFlight, pending>>
     ELSE /\ requests' = [requests EXCEPT ![r].pc = "waiting"]
          /\ inFlight' = inFlight \cup {r}
          /\ pending' = pending \cup {r}
  /\ UNCHANGED <<level, session, always, store, loaded>>

(* A person answers: the first response takes the interaction out of #pending.  *)
Respond(r, decision, duration) ==
  /\ r \in pending
  /\ pending' = pending \ {r}
  /\ requests' = [requests EXCEPT
       ![r].pc = IF /\ decision = "allowed" /\ duration # "once"
                    /\ AskOf(r).tool # NoTool
                 THEN "remember" ELSE "settle",
       ![r].result = decision,
       ![r].duration = IF decision = "allowed" /\ AskOf(r).tool # NoTool
                       THEN duration ELSE "once"]
  /\ UNCHANGED <<level, session, always, store, loaded, inFlight>>

(* An aborted signal rejects the interaction it was passed to, or the prompt     *)
(* that is still to be opened; a request that has joined the prompt of another  *)
(* goes on waiting.                                                             *)
Abort(r) ==
  /\ requests[r].pc \in {"has", "listing", "decide", "waiting"}
  /\ ~requests[r].aborted
  /\ pending' = pending \ {r}
  /\ requests' = IF r \in pending
                 THEN [requests EXCEPT ![r].pc = "settle", ![r].result = "rejected"]
                 ELSE [requests EXCEPT ![r].aborted = TRUE]
  /\ UNCHANGED <<level, session, always, store, loaded, inFlight>>

(* An always grant is in memory before it is in the store, and stays there when *)
(* the store fails and the request is rejected.                                 *)
Remember(r, stored) ==
  /\ At(r, "remember")
  /\ IF requests[r].duration = "session"
     THEN /\ session' = session \cup {<<AskOf(r).tool, AskOf(r).session>>}
          /\ UNCHANGED <<always, store>>
     ELSE /\ always' = always \cup {AskOf(r).tool}
          /\ store' = IF stored THEN store \cup {AskOf(r).tool} ELSE store
          /\ UNCHANGED session
  /\ requests' = [requests EXCEPT
       ![r].pc = "settle", ![r].duration = "once", ![r].result = IF stored THEN "allowed" ELSE "rejected"]
  /\ UNCHANGED <<level, loaded, inFlight, pending>>

Sharing(r) == {r} \cup {other \in Request : At(other, "joined") /\ Key(other) = Key(r)}

BrokenSettle(r) ==
  /\ At(r, "settle")
  /\ inFlight' = inFlight \ {r}
  /\ requests' = [q \in Request |->
       IF q \in Sharing(r)
       THEN [requests[q] EXCEPT !.pc = "done", !.result = requests[r].result,
                                !.opener = r, !.commitment = level]
       ELSE requests[q]]
  /\ UNCHANGED <<level, session, always, store, loaded, pending>>

BrokenSettleAlone(r) ==
  /\ At(r, "settle")
  /\ inFlight' = inFlight \ {r}
  /\ requests' = [requests EXCEPT ![r].pc = "done", ![r].opener = r,
                               ![r].commitment = requests[r].level]
  /\ UNCHANGED <<level, session, always, store, loaded, pending>>

(* The outcome of a prompt, with the commitment of the request that opened it,   *)
(* goes to all who share it.                                                    *)
Settle(r) ==
  /\ At(r, "settle")
  /\ inFlight' = inFlight \ {r}
  /\ requests' = [q \in Request |->
       IF q \in Sharing(r)
       THEN [requests[q] EXCEPT !.pc = "done", !.result = requests[r].result,
                                !.opener = r, !.commitment = requests[r].level]
       ELSE requests[q]]
  /\ UNCHANGED <<level, session, always, store, loaded, pending>>

(******************************* Surroundings *******************************)

Raise ==
  /\ level' \in {higher \in Level : higher > level}
  /\ UNCHANGED <<session, always, store, loaded, inFlight, pending, requests>>

Restart ==
  /\ session' = {}
  /\ always' = {}
  /\ loaded' = FALSE
  /\ inFlight' = {}
  /\ pending' = {}
  /\ requests' = [r \in Request |->
       IF At(r, "new") \/ At(r, "done") THEN requests[r]
       ELSE [requests[r] EXCEPT !.pc = "done", !.result = "rejected", !.aborted = FALSE]]
  /\ UNCHANGED <<level, store>>

Proceed(r) ==
  \/ Has(r) \/ List(r) \/ ListFails(r) \/ Decide(r) \/ Settle(r)
  \/ \E stored \in BOOLEAN : Remember(r, stored)

Answer(r) ==
  \/ Respond(r, "denied", "once")
  \/ \E duration \in {"once", "session", "always"} : Respond(r, "allowed", duration)

Next ==
  \/ \E r \in Request : Proceed(r) \/ Answer(r) \/ Abort(r)
  \/ \E r \in Request, ask \in Ask : Begin(r, ask)
  \/ Raise \/ Restart

Spec == Init /\ [][Next]_vars

(* A safety interaction has no timeout: it settles only when somebody answers   *)
(* or aborts it.                                                                *)
FairSpec == Spec /\ \A r \in Request : WF_vars(Proceed(r)) /\ WF_vars(Answer(r))

(******************************** Properties ********************************)

(* Every variable keeps its type, and a prompt belongs to a waiting request.    *)
TypeOK ==
  /\ level \in Level
  /\ session \subseteq Tool \X Session
  /\ always \subseteq Tool
  /\ store \subseteq Tool
  /\ loaded \in BOOLEAN
  /\ requests \in [Request -> [pc : PC, ask : Ask \cup {NoAsk},
       level : Level, granted : BOOLEAN,
       duration : {"once", "session", "always"}, commitment : Level, opener : Request \cup {NoRequest},
       result : Result, aborted : BOOLEAN]]
  /\ pending = {r \in Request : At(r, "waiting")}
  /\ inFlight = {r \in Request : requests[r].pc \in {"waiting", "remember", "settle"}}

Allowed(r) == At(r, "done") /\ requests[r].result = "allowed"

(* r's outcome comes from a prompt about its own operation that showed its own   *)
(* reasons, at its own effective level where it exceeds the ceiling.            *)
SawReasonsOf(r) ==
  LET opener == requests[r].opener IN
    /\ opener # NoRequest
    /\ AskOf(opener).operation = AskOf(r).operation
    /\ Reasons(opener) = Reasons(r)
    /\ Exceeds(r) => Effective(opener) = Effective(r)

(* A request that needed a review is allowed only when a person has allowed a   *)
(* prompt that showed exactly its reasons, whoever opened that prompt.          *)
ReviewedByAPerson ==
  \A r \in Request : Allowed(r) /\ NeedsReview(r) => SawReasonsOf(r)

(* What r may be held to have leave for: what it carries itself, in a run that   *)
(* has come as far as its commitment says.                                      *)
Carried(r) == maxClassification(AskOf(r).payload, requests[r].commitment)

(* The commitment of an allowed request, which may be that of another request   *)
(* that opened the prompt with another payload at another level, never takes it *)
(* above its ceiling but where a person saw as high a classification in that    *)
(* prompt.  recheck() then refuses whatever has risen since.                    *)
CommitmentIsReviewed ==
  \A r \in Request :
    Allowed(r) /\ ~IsModelStage(r) /\ ExceedsCeiling(AskOf(r), Carried(r)) =>
      LET opener == requests[r].opener IN
        SawReasonsOf(r) /\ Exceeds(opener) /\ Carried(r) <= Effective(opener)

(* When prompts are answered every authorization ends, shared prompts included. *)
EveryRequestSettles == \A r \in Request : ~At(r, "new") ~> At(r, "done")

=============================================================================
