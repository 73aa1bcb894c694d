------------------------- MODULE TrustAuthorizerProofs -------------------------
(* Theorems about TrustAuthorizer, for any requests, tools, chats and levels.   *)
EXTENDS TrustAuthorizer, TLAPS

(* What a request asks, at which level and with what grant: the reasons for a   *)
(* review follow from it.                                                       *)
Same(r) ==
  /\ requests'[r].ask = requests[r].ask /\ requests'[r].level = requests[r].level
  /\ requests'[r].granted = requests[r].granted

LEMMA SameReasons ==
  ASSUME NEW r, Same(r)
  PROVE  /\ AskOf(r)' = AskOf(r) /\ Reasons(r)' = Reasons(r) /\ Key(r)' = Key(r)
         /\ NeedsReview(r)' <=> NeedsReview(r)
<1>1. AskOf(r)' = AskOf(r)
  BY DEF Same, AskOf
<1>2. Effective(r)' = Effective(r)
      /\ (PolicyAsk(r)' <=> PolicyAsk(r)) /\ (Exceeds(r)' <=> Exceeds(r))
  BY <1>1 DEF Same, PolicyAsk, Exceeds, Effective
<1>3. Reasons(r)' = Reasons(r)
  BY <1>1, <1>2 DEF Reasons
<1>4. Key(r)' = Key(r)
  BY <1>1, <1>2, <1>3 DEF Key
<1>5. (IsModelStage(r)' <=> IsModelStage(r)) /\ (ScanReview(r)' <=> ScanReview(r))
  BY <1>1 DEF IsModelStage, ScanReview
<1> QED BY <1>1, <1>2, <1>3, <1>4, <1>5 DEF NeedsReview

RequestRecord ==
  [pc : PC, ask : Ask \cup {NoAsk}, level : Level, granted : BOOLEAN,
   duration : {"once", "session", "always"}, commitment : Level,
   opener : Request \cup {NoRequest}, result : Result, aborted : BOOLEAN]

RequestsOK ==
  /\ level \in Level
  /\ requests \in [Request -> RequestRecord]
  /\ \A r \in Request : ~At(r, "new") => AskOf(r) \in Ask

(* Whoever has a prompt, or waits for that of another, needs a review. *)
Showing == {"waiting", "joined", "remember", "settle"}

PromptsNeeded == \A r \in Request : requests[r].pc \in Showing => NeedsReview(r)

(* An allowed request needed no review, or a prompt that said what its own      *)
(* would have said was allowed, and its commitment is the level of its opener.  *)
ByItself(r) == ~NeedsReview(r) /\ requests[r].commitment = requests[r].level

ByPrompt(r, o) ==
  /\ requests[r].opener = o /\ At(o, "done")
  /\ requests[r].commitment = requests[o].level
  /\ Key(r) = Key(o) /\ NeedsReview(o)

Justified(r) == ByItself(r) \/ \E o \in Request : ByPrompt(r, o)

TrustInv == RequestsOK /\ PromptsNeeded /\ \A r \in Request : Allowed(r) => Justified(r)

(* What is done stays as it is. *)
LEMMA JustifiedStays ==
  ASSUME NEW r, requests'[r] = requests[r], Justified(r),
         \A q \in Request : At(q, "done") => requests'[q] = requests[q]
  PROVE  Justified(r)'
<1>1. CASE ByItself(r)
  BY <1>1, SameReasons DEF ByItself, Justified, Same
<1>2. ASSUME NEW o \in Request, ByPrompt(r, o) PROVE Justified(r)'
  <2>1. requests'[o] = requests[o]
    BY <1>2 DEF ByPrompt
  <2>2. Key(r)' = Key(r) /\ Key(o)' = Key(o) /\ (NeedsReview(o)' <=> NeedsReview(o))
    BY <2>1, SameReasons DEF Same
  <2> QED BY <1>2, <2>1, <2>2 DEF ByPrompt, Justified, At
<1> QED BY <1>1, <1>2 DEF Justified

(* One request goes on by itself.                                               *)
LEMMA OneMoves ==
  ASSUME TrustInv, level' \in Level, NEW r \in Request, NEW e \in RequestRecord,
         requests' = [requests EXCEPT ![r] = e],
         e.pc # "new" => e.ask \in Ask, ~At(r, "done"),
         e.pc \in Showing => NeedsReview(r)',
         e.pc = "done" /\ e.result = "allowed" => ByItself(r)'
  PROVE  TrustInv'
<1>1. /\ requests \in [Request -> RequestRecord]
      /\ \A q \in Request : ~At(q, "new") => AskOf(q) \in Ask
  BY DEF TrustInv, RequestsOK
<1>2. requests' \in [Request -> RequestRecord] /\ requests'[r] = e
      /\ \A q \in Request \ {r} : requests'[q] = requests[q]
  BY <1>1
<1>3. RequestsOK'
  BY <1>1, <1>2 DEF RequestsOK, At, AskOf
<1>4. ASSUME NEW q \in Request, Allowed(q)' PROVE Justified(q)'
  <2>1. CASE q = r
    BY <1>2, <1>4, <2>1 DEF Allowed, At, Justified
  <2>2. CASE q # r
    <3>1. requests'[q] = requests[q] /\ Allowed(q)
      BY <1>2, <1>4, <2>2 DEF Allowed, At
    <3> QED BY <1>2, <3>1, JustifiedStays DEF TrustInv, At
  <2> QED BY <2>1, <2>2
<1>5. ASSUME NEW q \in Request, requests'[q].pc \in Showing PROVE NeedsReview(q)'
  <2>1. CASE q = r
    BY <1>2, <1>5, <2>1
  <2>2. CASE q # r
    <3>1. requests'[q] = requests[q]
      BY <1>2, <2>2
    <3> QED BY <1>5, <3>1, SameReasons DEF TrustInv, PromptsNeeded, Same
  <2> QED BY <2>1, <2>2
<1> QED BY <1>3, <1>4, <1>5 DEF TrustInv, PromptsNeeded

(* A step that leaves the requests alone. *)
LEMMA NoneMoves ==
  ASSUME TrustInv, level' \in Level, requests' = requests
  PROVE  TrustInv'
<1>1. RequestsOK'
  BY DEF TrustInv, RequestsOK, At, AskOf
<1>2. ASSUME NEW q \in Request, Allowed(q)' PROVE Justified(q)'
  BY <1>2, JustifiedStays DEF TrustInv, Allowed, At
<1>3. PromptsNeeded'
  BY SameReasons DEF TrustInv, PromptsNeeded, Same
<1> QED BY <1>1, <1>2, <1>3 DEF TrustInv

LEMMA RequestType ==
  ASSUME TrustInv, NEW r \in Request
  PROVE  requests[r] \in RequestRecord /\ level \in Level
         /\ (~At(r, "new") => requests[r].ask \in Ask)
BY DEF TrustInv, RequestsOK, AskOf

LEMMA BeginInv ==
  ASSUME TrustInv, NEW r \in Request, NEW ask \in Ask, Begin(r, ask)
  PROVE  TrustInv'
<1> DEFINE e == [requests[r] EXCEPT !.pc = IF ask.tool = NoTool THEN "decide" ELSE "has",
                                    !.ask = ask,
                                    !.level = IF ask.inRun THEN level ELSE public]
<1>1. e \in RequestRecord /\ e.pc \in {"decide", "has"} /\ e.ask = ask
  <2>1. (IF ask.inRun THEN level ELSE public) \in Level
    BY RequestType, AuthorizerAssumption
  <2> QED BY <2>1, RequestType DEF RequestRecord, PC
<1>2. requests' = [requests EXCEPT ![r] = e] /\ level' \in Level /\ ~At(r, "done")
  BY RequestType DEF Begin, At
<1> HIDE DEF e
<1> QED BY <1>1, <1>2, OneMoves DEF Showing

(* Another step of a request that neither shows a prompt nor is allowed. *)
LEMMA GoesOn ==
  ASSUME TrustInv, NEW r \in Request, ~At(r, "done"), ~At(r, "new"), level' = level,
         NEW e \in RequestRecord, requests' = [requests EXCEPT ![r] = e],
         e.ask = requests[r].ask, e.pc \notin Showing, e.pc # "done" \/ e.result # "allowed"
  PROVE  TrustInv'
BY RequestType, OneMoves

(* A step of a request to or at a prompt that it needs. *)
LEMMA ShowsOn ==
  ASSUME TrustInv, NEW r \in Request, ~At(r, "done"), ~At(r, "new"), level' = level,
         NEW e \in RequestRecord, requests' = [requests EXCEPT ![r] = e],
         e.ask = requests[r].ask, e.level = requests[r].level,
         e.granted = requests[r].granted, e.pc \in Showing => NeedsReview(r), e.pc # "done"
  PROVE  TrustInv'
<1>1. requests'[r] = e
  BY DEF TrustInv, RequestsOK
<1>2. e.pc \in Showing => NeedsReview(r)'
  BY <1>1, SameReasons DEF Same
<1> QED BY <1>2, RequestType, OneMoves

(* What is at a prompt stays at one. *)
LEMMA Shown ==
  ASSUME TrustInv, NEW r \in Request, requests[r].pc \in Showing
  PROVE  NeedsReview(r)
BY DEF TrustInv, PromptsNeeded

LEMMA HasInv ==
  ASSUME TrustInv, NEW r \in Request, Has(r)
  PROVE  TrustInv'
<1> DEFINE e == [requests[r] EXCEPT !.pc = IF loaded THEN "decide" ELSE "listing",
                                    !.granted = loaded /\ Granted(r)]
<1>1. (loaded /\ Granted(r)) \in BOOLEAN
  BY DEF Granted
<1>2. e \in RequestRecord /\ e.pc \in {"decide", "listing"} /\ e.ask = requests[r].ask
  BY <1>1, RequestType DEF RequestRecord, PC
<1>3. requests' = [requests EXCEPT ![r] = e] /\ level' = level /\ ~At(r, "done") /\ ~At(r, "new")
  BY DEF Has, At
<1> HIDE DEF e
<1> QED BY <1>2, <1>3, GoesOn DEF Showing

LEMMA ListInv ==
  ASSUME TrustInv, NEW r \in Request, List(r) \/ ListFails(r)
  PROVE  TrustInv'
<1>1. level' = level /\ ~At(r, "done") /\ ~At(r, "new")
  BY DEF List, ListFails, At
<1>2. CASE List(r)
  <2> DEFINE g == AskOf(r).tool \in store \/ Granted(r)
  <2> DEFINE e == [requests[r] EXCEPT !.pc = "decide", !.granted = g]
  <2>1. g \in BOOLEAN
    BY DEF Granted
  <2>2. e \in RequestRecord /\ e.pc = "decide" /\ e.ask = requests[r].ask
    BY <2>1, RequestType DEF RequestRecord, PC
  <2>3. requests' = [requests EXCEPT ![r] = e]
    BY <1>2 DEF List
  <2> HIDE DEF e
  <2> QED BY <1>1, <2>2, <2>3, GoesOn DEF Showing
<1>3. CASE ListFails(r)
  <2> DEFINE e == [requests[r] EXCEPT !.pc = "done", !.result = "rejected", !.aborted = FALSE]
  <2>1. /\ e \in RequestRecord /\ e.pc = "done" /\ e.result # "allowed"
        /\ e.ask = requests[r].ask
    BY RequestType DEF RequestRecord, PC, Result
  <2>2. requests' = [requests EXCEPT ![r] = e]
    BY <1>3 DEF ListFails
  <2> HIDE DEF e
  <2> QED BY <1>1, <2>1, <2>2, GoesOn DEF Showing
<1> QED BY <1>2, <1>3

(* A request is allowed without a prompt only where it needs no review. *)
LEMMA DecideInv ==
  ASSUME TrustInv, NEW r \in Request, Decide(r)
  PROVE  TrustInv'
<1>1. level' = level /\ ~At(r, "done") /\ ~At(r, "new")
  BY DEF Decide, At
<1>2. requests \in [Request -> RequestRecord] /\ requests[r] \in RequestRecord
  BY DEF TrustInv, RequestsOK
<1>3. ASSUME NEW result \in {"denied", "rejected", "allowed"}, Finish(r, result),
             result = "allowed" => ~NeedsReview(r)
      PROVE  TrustInv'
  <2> DEFINE e == [requests[r] EXCEPT !.pc = "done", !.result = result, !.aborted = FALSE,
                                      !.commitment = requests[r].level]
  <2>1. /\ e \in RequestRecord /\ e.pc = "done" /\ e.result = result
        /\ e.ask = requests[r].ask
        /\ e.level = requests[r].level /\ e.granted = requests[r].granted
        /\ e.commitment = requests[r].level
    BY <1>2 DEF RequestRecord, PC, Result
  <2>2. requests' = [requests EXCEPT ![r] = e]
    BY <1>3 DEF Finish
  <2> HIDE DEF e
  <2>3. requests'[r] = e
    BY <1>2, <2>2
  <2>4. NeedsReview(r)' <=> NeedsReview(r)
    BY <2>1, <2>3, SameReasons DEF Same
  <2>5. e.result = "allowed" => ByItself(r)'
    BY <1>3, <2>1, <2>3, <2>4 DEF ByItself
  <2>6. level' \in Level /\ e.ask \in Ask
    BY <1>1, <2>1, RequestType
  <2> QED BY <1>1, <2>1, <2>2, <2>5, <2>6, OneMoves DEF Showing
<1>4. ASSUME NeedsReview(r), requests' = [requests EXCEPT ![r].pc = "joined", ![r].aborted = FALSE]
      PROVE  TrustInv'
  <2> DEFINE e == [requests[r] EXCEPT !.pc = "joined", !.aborted = FALSE]
  <2>1. /\ e \in RequestRecord /\ e.pc = "joined" /\ e.ask = requests[r].ask
        /\ e.level = requests[r].level /\ e.granted = requests[r].granted
    BY <1>2 DEF RequestRecord, PC
  <2>2. requests' = [requests EXCEPT ![r] = e]
    BY <1>4
  <2> HIDE DEF e
  <2> QED BY <1>4, <1>1, <2>1, <2>2, ShowsOn
<1>5. ASSUME NeedsReview(r), requests' = [requests EXCEPT ![r].pc = "waiting"]
      PROVE  TrustInv'
  <2> DEFINE e == [requests[r] EXCEPT !.pc = "waiting"]
  <2>1. /\ e \in RequestRecord /\ e.pc = "waiting" /\ e.ask = requests[r].ask
        /\ e.level = requests[r].level /\ e.granted = requests[r].granted
    BY <1>2 DEF RequestRecord, PC
  <2>2. requests' = [requests EXCEPT ![r] = e]
    BY <1>5
  <2> HIDE DEF e
  <2> QED BY <1>5, <1>1, <2>1, <2>2, ShowsOn
<1> QED BY <1>3, <1>4, <1>5 DEF Decide

(* A prompt is pending while the request that opened it waits. *)
PromptsOK ==
  /\ pending = {r \in Request : At(r, "waiting")}
  /\ inFlight = {r \in Request : requests[r].pc \in {"waiting", "remember", "settle"}}

LEMMA AnswerInv ==
  ASSUME TrustInv, PromptsOK, NEW r \in Request,
         NEW decision \in {"denied", "allowed"}, NEW duration \in {"once", "session", "always"},
         Respond(r, decision, duration)
  PROVE  TrustInv'
<1> DEFINE pc == IF /\ decision = "allowed" /\ duration # "once" /\ AskOf(r).tool # NoTool
                 THEN "remember" ELSE "settle"
<1> DEFINE e == [requests[r] EXCEPT !.pc = pc, !.result = decision,
                    !.duration = IF decision = "allowed" /\ AskOf(r).tool # NoTool
                                 THEN duration ELSE "once"]
<1>1. level' = level /\ ~At(r, "done") /\ ~At(r, "new") /\ NeedsReview(r)
  BY Shown DEF Respond, PromptsOK, At, Showing
<1>2. /\ e \in RequestRecord /\ e.pc # "done" /\ e.ask = requests[r].ask
      /\ e.level = requests[r].level /\ e.granted = requests[r].granted
  BY RequestType DEF RequestRecord, PC, Result
<1>3. requests' = [requests EXCEPT ![r] = e]
  BY DEF Respond
<1> HIDE DEF e
<1> QED BY <1>1, <1>2, <1>3, ShowsOn

LEMMA AbortInv ==
  ASSUME TrustInv, PromptsOK, NEW r \in Request, Abort(r)
  PROVE  TrustInv'
<1>1. level' = level /\ ~At(r, "done") /\ ~At(r, "new")
  BY DEF Abort, At
<1>2. CASE r \in pending
  <2> DEFINE e == [requests[r] EXCEPT !.pc = "settle", !.result = "rejected"]
  <2>1. /\ e \in RequestRecord /\ e.pc # "done" /\ e.ask = requests[r].ask
        /\ e.level = requests[r].level /\ e.granted = requests[r].granted
    BY RequestType DEF RequestRecord, PC, Result
  <2>2. requests' = [requests EXCEPT ![r] = e]
    BY <1>2 DEF Abort
  <2>3. NeedsReview(r)
    BY <1>2, Shown DEF PromptsOK, At, Showing
  <2> HIDE DEF e
  <2> QED BY <1>1, <2>1, <2>2, <2>3, ShowsOn
<1>3. CASE r \notin pending
  <2> DEFINE e == [requests[r] EXCEPT !.aborted = TRUE]
  <2>1. /\ e \in RequestRecord /\ e.pc = requests[r].pc /\ e.ask = requests[r].ask
        /\ e.level = requests[r].level /\ e.granted = requests[r].granted
    BY RequestType DEF RequestRecord
  <2>2. requests' = [requests EXCEPT ![r] = e]
    BY <1>3 DEF Abort
  <2>3. e.pc # "done" /\ (e.pc \in Showing => NeedsReview(r))
    BY <1>1, <2>1, Shown DEF At
  <2> HIDE DEF e
  <2> QED BY <1>1, <2>1, <2>2, <2>3, ShowsOn
<1> QED BY <1>2, <1>3

LEMMA RememberInv ==
  ASSUME TrustInv, NEW r \in Request, NEW stored \in BOOLEAN, Remember(r, stored)
  PROVE  TrustInv'
<1> DEFINE e == [requests[r] EXCEPT !.pc = "settle", !.duration = "once",
                                    !.result = IF stored THEN "allowed" ELSE "rejected"]
<1>1. level' = level /\ ~At(r, "done") /\ ~At(r, "new") /\ NeedsReview(r)
  BY Shown DEF Remember, At, Showing
<1>2. /\ e \in RequestRecord /\ e.pc # "done" /\ e.ask = requests[r].ask
      /\ e.level = requests[r].level /\ e.granted = requests[r].granted
  BY RequestType DEF RequestRecord, PC, Result
<1>3. requests' = [requests EXCEPT ![r] = e]
  BY DEF Remember
<1> HIDE DEF e
<1> QED BY <1>1, <1>2, <1>3, ShowsOn

(* The prompt of r ends, for r and for those that show the same prompt: each of *)
(* them is justified by it.                                                     *)
LEMMA SettleInv ==
  ASSUME TrustInv, NEW r \in Request, Settle(r)
  PROVE  TrustInv'
<1> DEFINE shared(q) == [requests[q] EXCEPT !.pc = "done", !.result = requests[r].result,
                                            !.opener = r, !.commitment = requests[r].level]
<1>1. requests \in [Request -> RequestRecord] /\ level' = level /\ At(r, "settle")
  BY DEF TrustInv, RequestsOK, Settle
<1>2. \A q \in Request : requests'[q] = IF q \in Sharing(r) THEN shared(q) ELSE requests[q]
  BY DEF Settle
<1>3. ASSUME NEW q \in Request
      PROVE  shared(q) \in RequestRecord
  <2>1. requests[q] \in RequestRecord /\ requests[r] \in RequestRecord
    BY <1>1
  <2> QED BY <2>1 DEF RequestRecord, PC
<1>4. ASSUME NEW q \in Request
      PROVE  /\ Same(q) /\ (q \in Sharing(r) => ~At(q, "done") /\ ~At(q, "new") /\ Key(q) = Key(r))
             /\ requests'[q] = requests[q] \/ q \in Sharing(r)
  <2>1. requests[q] \in RequestRecord
    BY <1>1
  <2>2. Same(q)
    BY <1>2, <2>1 DEF Same, RequestRecord
  <2>3. q \in Sharing(r) => ~At(q, "done") /\ ~At(q, "new") /\ Key(q) = Key(r)
    BY <1>1 DEF Sharing, At
  <2> QED BY <1>2, <2>2, <2>3
<1>5. requests' \in [Request -> RequestRecord]
  <2>1. requests' = [q \in Request |-> IF q \in Sharing(r) THEN shared(q) ELSE requests[q]]
    BY DEF Settle
  <2> HIDE DEF shared
  <2> QED BY <1>1, <1>3, <2>1
<1>6. \A q \in Request : q \in Sharing(r) =>
         /\ requests'[q].pc = "done" /\ requests'[q].opener = r
         /\ requests'[q].commitment = requests[r].level
  <2> SUFFICES ASSUME NEW q \in Request, q \in Sharing(r)
               PROVE  /\ requests'[q].pc = "done" /\ requests'[q].opener = r
                      /\ requests'[q].commitment = requests[r].level
    OBVIOUS
  <2>1. requests[q] \in RequestRecord /\ requests'[q] = shared(q)
    BY <1>1, <1>2
  <2> QED BY <2>1 DEF RequestRecord
<1>7. RequestsOK'
  <2>1. \A q \in Request : ~At(q, "new")' => AskOf(q)' \in Ask
    BY <1>4 DEF TrustInv, RequestsOK, AskOf, At, Same
  <2> QED BY <1>1, <1>5, <2>1 DEF TrustInv, RequestsOK
<1>8. ASSUME NEW q \in Request, Allowed(q)' PROVE Justified(q)'
  <2>1. CASE q \in Sharing(r)
    <3>1. r \in Sharing(r)
      BY DEF Sharing
    <3>2. Key(q)' = Key(r)' /\ NeedsReview(r)'
      BY <1>1, <1>4, <2>1, SameReasons, Shown DEF At, Showing
    <3>3. ByPrompt(q, r)'
      BY <1>4, <1>6, <2>1, <3>1, <3>2 DEF ByPrompt, At, Same
    <3> QED BY <3>3 DEF Justified
  <2>2. CASE q \notin Sharing(r)
    <3>1. requests'[q] = requests[q] /\ Allowed(q)
      BY <1>4, <1>8, <2>2 DEF Allowed, At
    <3> QED BY <1>4, <3>1, JustifiedStays DEF TrustInv
  <2> QED BY <2>1, <2>2
<1>9. PromptsNeeded'
  <2> SUFFICES ASSUME NEW q \in Request, requests'[q].pc \in Showing PROVE NeedsReview(q)'
    BY DEF PromptsNeeded
  <2>1. requests'[q] = requests[q]
    BY <1>4, <1>6 DEF Showing
  <2> QED BY <2>1, SameReasons, Shown DEF Same
<1> QED BY <1>7, <1>8, <1>9 DEF TrustInv

(* Nothing that was under way at a restart is allowed. *)
LEMMA RestartInv ==
  ASSUME TrustInv, Restart
  PROVE  TrustInv'
<1>1. requests \in [Request -> RequestRecord] /\ level' = level
  BY DEF TrustInv, RequestsOK, Restart
<1>2. ASSUME NEW q \in Request
      PROVE  /\ requests'[q] \in RequestRecord /\ requests'[q].ask = requests[q].ask
             /\ At(q, "done") \/ At(q, "new") => requests'[q] = requests[q]
             /\ Allowed(q)' => requests'[q] = requests[q]
             /\ At(q, "new") => requests'[q].pc = "new"
             /\ requests'[q].pc \in {"new", "done"}
  <2>1. requests[q] \in RequestRecord
    BY <1>1
  <2>2. requests'[q] = IF At(q, "new") \/ At(q, "done") THEN requests[q]
          ELSE [requests[q] EXCEPT !.pc = "done", !.result = "rejected", !.aborted = FALSE]
    BY DEF Restart
  <2>3. CASE At(q, "new") \/ At(q, "done")
    BY <2>1, <2>2, <2>3 DEF At
  <2>4. CASE ~(At(q, "new") \/ At(q, "done"))
    <3>1. /\ requests'[q] \in RequestRecord /\ requests'[q].ask = requests[q].ask
          /\ requests'[q].result = "rejected" /\ requests'[q].pc = "done"
      BY <2>1, <2>2, <2>4 DEF RequestRecord, PC, Result
    <3> QED BY <2>4, <3>1 DEF Allowed
  <2> QED BY <2>3, <2>4
<1>3. requests' \in [Request -> RequestRecord]
  <2>1. requests' = [q \in Request |-> requests'[q]]
    BY DEF Restart
  <2> QED BY <1>2, <2>1
<1>4. RequestsOK'
  BY <1>1, <1>2, <1>3 DEF TrustInv, RequestsOK, AskOf, At
<1>5. ASSUME NEW q \in Request, Allowed(q)' PROVE Justified(q)'
  <2>1. requests'[q] = requests[q] /\ Allowed(q)
    BY <1>2, <1>5 DEF Allowed, At
  <2>2. \A o \in Request : At(o, "done") => requests'[o] = requests[o]
    BY <1>2
  <2>3. Justified(q)
    BY <2>1 DEF TrustInv
  <2> QED BY <2>1, <2>2, <2>3, JustifiedStays
<1>6. PromptsNeeded'
  BY <1>2 DEF PromptsNeeded, Showing
<1> QED BY <1>4, <1>5, <1>6 DEF TrustInv


LEMMA TrustStep == TrustInv /\ PromptsOK /\ [Next]_vars => TrustInv'
<1> SUFFICES ASSUME TrustInv, PromptsOK, [Next]_vars PROVE TrustInv'
  OBVIOUS
<1>1. level \in Level
  BY DEF TrustInv, RequestsOK
<1>2. ASSUME NEW r \in Request, Proceed(r) \/ Answer(r) \/ Abort(r) PROVE TrustInv'
  <2>1. CASE Proceed(r)
    BY <2>1, HasInv, ListInv, DecideInv, SettleInv, RememberInv DEF Proceed
  <2>2. CASE Answer(r)
    <3>1. PICK decision \in {"denied", "allowed"}, duration \in {"once", "session", "always"} :
            Respond(r, decision, duration)
      BY <2>2 DEF Answer
    <3> QED BY <3>1, AnswerInv
  <2>3. CASE Abort(r)
    BY <2>3, AbortInv
  <2> QED BY <1>2, <2>1, <2>2, <2>3
<1>3. ASSUME NEW r \in Request, NEW ask \in Ask, Begin(r, ask) PROVE TrustInv'
  BY <1>3, BeginInv
<1>4. CASE Raise
  BY <1>4, NoneMoves DEF Raise
<1>5. CASE Restart
  BY <1>5, RestartInv
<1>6. CASE UNCHANGED vars
  BY <1>1, <1>6, NoneMoves DEF vars
<1> QED BY <1>2, <1>3, <1>4, <1>5, <1>6 DEF Next

(********************************** Prompts ***********************************)

(* One request changes its place, and the prompts with it. *)
LEMMA OnePrompt ==
  ASSUME TrustInv, PromptsOK, NEW r \in Request, NEW new \in PC,
         \A q \in Request \ {r} : requests'[q].pc = requests[q].pc,
         requests'[r].pc = new,
         pending' = IF new = "waiting" THEN pending \cup {r} ELSE pending \ {r},
         inFlight' = IF new \in {"waiting", "remember", "settle"} THEN inFlight \cup {r}
                     ELSE inFlight \ {r}
  PROVE  PromptsOK'
<1>1. pending' = {q \in Request : requests'[q].pc = "waiting"}
  BY DEF PromptsOK, At
<1>2. inFlight' = {q \in Request : requests'[q].pc \in {"waiting", "remember", "settle"}}
  BY DEF PromptsOK
<1> QED BY <1>1, <1>2 DEF PromptsOK, At

LEMMA PromptsStep == TrustInv /\ PromptsOK /\ [Next]_vars => PromptsOK'
<1> SUFFICES ASSUME TrustInv, PromptsOK, [Next]_vars PROVE PromptsOK'
  OBVIOUS
<1>1. requests \in [Request -> RequestRecord] /\ \A q \in Request : requests[q] \in RequestRecord
  BY DEF TrustInv, RequestsOK
<1> USE DEF RequestRecord
<1>2. ASSUME NEW r \in Request, NEW ask \in Ask, Begin(r, ask) PROVE PromptsOK'
  <2>1. At(r, "new") /\ UNCHANGED <<pending, inFlight>>
        /\ requests'[r].pc \in {"decide", "has"}
        /\ \A q \in Request \ {r} : requests'[q].pc = requests[q].pc
    BY <1>1, <1>2 DEF Begin
  <2>2. r \notin pending /\ r \notin inFlight
    BY <2>1 DEF PromptsOK, At
  <2> QED BY <2>1, <2>2, OnePrompt DEF PC
<1>3. ASSUME NEW r \in Request, Has(r) \/ List(r) \/ ListFails(r) PROVE PromptsOK'
  <2>1. requests[r].pc \in {"has", "listing"} /\ UNCHANGED <<pending, inFlight>>
        /\ requests'[r].pc \in {"decide", "listing", "done"}
        /\ \A q \in Request \ {r} : requests'[q].pc = requests[q].pc
    BY <1>1, <1>3 DEF Has, List, ListFails, At
  <2>2. r \notin pending /\ r \notin inFlight
    BY <2>1 DEF PromptsOK, At
  <2> QED BY <2>1, <2>2, OnePrompt DEF PC
<1>4. ASSUME NEW r \in Request, Decide(r) PROVE PromptsOK'
  <2>1. At(r, "decide") /\ \A q \in Request \ {r} : requests'[q].pc = requests[q].pc
    BY <1>1, <1>4 DEF Decide, Finish
  <2>2. \/ requests'[r].pc \in {"done", "joined"} /\ UNCHANGED <<pending, inFlight>>
        \/ /\ requests'[r].pc = "waiting"
           /\ inFlight' = inFlight \cup {r} /\ pending' = pending \cup {r}
    BY <1>1, <1>4 DEF Decide, Finish
  <2>3. r \notin pending /\ r \notin inFlight
    BY <2>1 DEF PromptsOK, At
  <2> QED BY <2>1, <2>2, <2>3, OnePrompt DEF PC
<1>5. ASSUME NEW r \in Request, NEW decision, NEW duration, Respond(r, decision, duration)
      PROVE  PromptsOK'
  <2>1. /\ r \in pending /\ pending' = pending \ {r} /\ inFlight' = inFlight
        /\ requests'[r].pc \in {"remember", "settle"}
        /\ \A q \in Request \ {r} : requests'[q].pc = requests[q].pc
    BY <1>1, <1>5 DEF Respond
  <2>2. r \in inFlight
    BY <2>1 DEF PromptsOK, At
  <2> QED BY <2>1, <2>2, OnePrompt DEF PC
<1>6. ASSUME NEW r \in Request, Abort(r) PROVE PromptsOK'
  <2>1. CASE r \in pending
    <3>1. /\ pending' = pending \ {r} /\ inFlight' = inFlight
          /\ requests'[r].pc = "settle"
          /\ \A q \in Request \ {r} : requests'[q].pc = requests[q].pc
      BY <1>1, <1>6, <2>1 DEF Abort
    <3>2. r \in inFlight
      BY <2>1 DEF PromptsOK, At
    <3> QED BY <3>1, <3>2, OnePrompt DEF PC
  <2>2. CASE r \notin pending
    <3>1. /\ pending' = pending /\ inFlight' = inFlight
          /\ \A q \in Request : requests'[q].pc = requests[q].pc
      BY <1>1, <1>6, <2>2 DEF Abort
    <3> QED BY <3>1 DEF PromptsOK, At
  <2> QED BY <2>1, <2>2
<1>7. ASSUME NEW r \in Request, NEW stored \in BOOLEAN, Remember(r, stored) PROVE PromptsOK'
  <2>1. /\ At(r, "remember") /\ UNCHANGED <<pending, inFlight>> /\ requests'[r].pc = "settle"
        /\ \A q \in Request \ {r} : requests'[q].pc = requests[q].pc
    BY <1>1, <1>7 DEF Remember
  <2>2. r \notin pending /\ r \in inFlight
    BY <2>1 DEF PromptsOK, At
  <2> QED BY <2>1, <2>2, OnePrompt DEF PC
<1>8. ASSUME NEW r \in Request, Settle(r) PROVE PromptsOK'
  <2>1. /\ At(r, "settle") /\ pending' = pending /\ inFlight' = inFlight \ {r}
        /\ \A q \in Request : requests'[q].pc = IF q \in Sharing(r) THEN "done" ELSE requests[q].pc
    BY <1>1, <1>8 DEF Settle
  <2>2. \A q \in Sharing(r) : q = r \/ At(q, "joined")
    BY DEF Sharing
  <2>3. r \in Sharing(r)
    BY DEF Sharing
  <2>4. pending' = {q \in Request : requests'[q].pc = "waiting"}
    BY <2>1, <2>2 DEF PromptsOK, At
  <2>5. inFlight' = {q \in Request : requests'[q].pc \in {"waiting", "remember", "settle"}}
    BY <2>1, <2>2, <2>3 DEF PromptsOK, At
  <2> QED BY <2>4, <2>5 DEF PromptsOK, At
<1>9. CASE Restart
  <2>1. pending' = {} /\ inFlight' = {} /\ \A q \in Request : requests'[q].pc \in {"new", "done"}
    BY <1>1, <1>9 DEF Restart, At
  <2> QED BY <2>1 DEF PromptsOK, At
<1>10. CASE Raise \/ UNCHANGED vars
  BY <1>10 DEF Raise, vars, PromptsOK, At
<1> QED BY <1>2, <1>3, <1>4, <1>5, <1>6, <1>7, <1>8, <1>9, <1>10 DEF Next, Proceed, Answer

(********************************* Theorems ***********************************)

LEMMA TrustInit == Init => TrustInv /\ PromptsOK
<1> SUFFICES ASSUME Init PROVE TrustInv /\ PromptsOK
  OBVIOUS
<1>1. Idle \in RequestRecord /\ Idle.pc = "new"
  BY AuthorizerAssumption DEF Idle, RequestRecord, PC, Result
<1>2. requests \in [Request -> RequestRecord] /\ \A r \in Request : requests[r].pc = "new"
  BY <1>1 DEF Init
<1>3. TrustInv
  BY <1>2 DEF Init, TrustInv, RequestsOK, PromptsNeeded, Showing, Allowed, At
<1>4. PromptsOK
  BY <1>2 DEF Init, PromptsOK, At
<1> QED BY <1>3, <1>4

(* The same prompt shows the same reasons, and the same level above a ceiling. *)
LEMMA SameKey ==
  ASSUME NEW r, NEW o, Key(r) = Key(o)
  PROVE  /\ AskOf(r).feature = AskOf(o).feature /\ AskOf(r).operation = AskOf(o).operation
         /\ Reasons(r) = Reasons(o)
         /\ Exceeds(r) <=> Exceeds(o)
         /\ Exceeds(r) => Effective(r) = Effective(o)
BY DEF Key

LEMMA Reviewed == TrustInv => ReviewedByAPerson
<1> SUFFICES ASSUME TrustInv, NEW r \in Request, Allowed(r), NeedsReview(r)
             PROVE  SawReasonsOf(r)
  BY DEF ReviewedByAPerson
<1>1. PICK o \in Request : ByPrompt(r, o)
  BY DEF TrustInv, Justified, ByItself
<1> QED BY <1>1, SameKey, AuthorizerAssumption DEF ByPrompt, SawReasonsOf

(* A request that needs a review is allowed only by a person who allowed a      *)
(* prompt with its reasons, whoever opened it, through joining, aborts, failing *)
(* stores and restarts (trust-authorizer.ts, authorize and #inFlight).          *)
THEOREM APersonReviews == Spec => []ReviewedByAPerson
BY TrustInit, TrustStep, PromptsStep, Reviewed, PTL DEF Spec

(* The requests whose interaction is pending, and those that hold a prompt,     *)
(* are the ones that wait for an answer or are about to hand it out.            *)
THEOREM PromptsHaveOpeners == Spec => []PromptsOK
BY TrustInit, TrustStep, PromptsStep, PTL DEF Spec

(******************************* The commitment *******************************)

LEMMA Ceiling ==
  ASSUME NEW capacity \in ChannelCapacity
  PROVE  capacityCeiling(capacity) \in Int
BY DEF ChannelCapacity, capacityCeiling, public, internal, confidential, restricted

LEMMA Classifications ==
  ASSUME TrustInv, NEW r \in Request, ~At(r, "new")
  PROVE  /\ AskOf(r) \in Ask /\ AskOf(r) \in AskRecord
         /\ AskOf(r).payload \in Int /\ requests[r].level \in Int
<1>1. AskOf(r) \in Ask /\ requests[r].level \in Level
  BY DEF TrustInv, RequestsOK, RequestRecord
<1>2. AskOf(r) \in AskRecord /\ requests[r].level \in DataClassification
  BY <1>1, AuthorizerAssumption
<1> QED BY <1>1, <1>2 DEF AskRecord, DataClassification, public, restricted

(* A review that names no capacity shows what a scan says, so that no request   *)
(* without a scan shares its prompt.                                            *)
LEMMA ScansShow ==
  ASSUME NEW r, NEW o, Reasons(r) = Reasons(o), NeedsReview(o),
         AskOf(o).capacity = NoCapacity, AskOf(o).approval = "auto"
  PROVE  AskOf(r).scan # "allow"
<1>1. ScanReview(o)
  BY DEF NeedsReview, PolicyAsk, Exceeds, ExceedsCeiling
<1>2. AskOf(o).scan \in {"finding", "uncovered"} /\ AskOf(o).scan \in Reasons(o)
  BY <1>1 DEF ScanReview, Reasons
<1>3. AskOf(o).scan \in Reasons(r)
  BY <1>2
<1> QED BY <1>2, <1>3 DEF Reasons

(* Requests that share a prompt and have a ceiling have the same one. *)
LEMMA SameCapacity ==
  ASSUME TrustInv, NEW r \in Request, NEW o \in Request, ~At(r, "new"), ByPrompt(r, o),
         AskOf(r).capacity # NoCapacity
  PROVE  AskOf(o).capacity = AskOf(r).capacity
<1>1. AskOf(r) \in Ask /\ AskOf(o) \in Ask
  BY Classifications DEF ByPrompt, At
<1>2. /\ AskOf(r).feature = AskOf(o).feature /\ AskOf(r).operation = AskOf(o).operation
      /\ Reasons(r) = Reasons(o) /\ NeedsReview(o)
  BY SameKey DEF ByPrompt
<1>3. \/ AskOf(r).capacity = AskOf(o).capacity
      \/ /\ AskOf(o).capacity = NoCapacity /\ AskOf(o).approval = "auto"
         /\ AskOf(r).scan = "allow"
  BY <1>1, <1>2, AuthorizerAssumption DEF OneCapacity
<1> QED BY <1>2, <1>3, ScansShow

(* What r is held to have leave for lies below what it or its opener has had     *)
(* compared with the ceiling.                                                   *)
LEMMA CommitmentCovered ==
  ASSUME TrustInv, NEW r \in Request, NEW o \in Request, ~At(r, "new"), ByPrompt(r, o),
         ExceedsCeiling(AskOf(r), Carried(r))
  PROVE  Exceeds(o) /\ Carried(r) <= Effective(o)
<1> DEFINE c == capacityCeiling(AskOf(r).capacity)
<1>1. AskOf(r).capacity # NoCapacity /\ Carried(r) > c
  BY DEF ExceedsCeiling, exceedsCapacity
<1>2. AskOf(o).capacity = AskOf(r).capacity
  BY <1>1, SameCapacity
<1>3. /\ AskOf(r).payload \in Int /\ requests[r].level \in Int
      /\ AskOf(o).payload \in Int /\ requests[o].level \in Int
      /\ AskOf(r).capacity \in ChannelCapacity
  BY <1>1, Classifications DEF ByPrompt, At, AskRecord
<1>4. c \in Int
  BY <1>3, Ceiling
<1>5. (Exceeds(r) <=> Effective(r) > c) /\ (Exceeds(o) <=> Effective(o) > c)
  BY <1>1, <1>2 DEF Exceeds, ExceedsCeiling, exceedsCapacity
<1>6. (Exceeds(r) <=> Exceeds(o)) /\ (Exceeds(r) => Effective(r) = Effective(o))
  BY SameKey DEF ByPrompt
<1>7. /\ Carried(r) = maxClassification(AskOf(r).payload, requests[o].level)
      /\ Effective(r) = maxClassification(AskOf(r).payload, requests[r].level)
      /\ Effective(o) = maxClassification(AskOf(o).payload, requests[o].level)
  BY DEF Carried, Effective, ByPrompt
<1> HIDE DEF c
<1> QED BY <1>1, <1>3, <1>4, <1>5, <1>6, <1>7 DEF maxClassification

LEMMA CommitmentKept == TrustInv => CommitmentIsReviewed
<1> SUFFICES ASSUME TrustInv, NEW r \in Request, Allowed(r), ~IsModelStage(r),
                    ExceedsCeiling(AskOf(r), Carried(r))
             PROVE  /\ SawReasonsOf(r) /\ Exceeds(requests[r].opener)
                    /\ Carried(r) <= Effective(requests[r].opener)
  BY DEF CommitmentIsReviewed
<1>1. ~ByItself(r)
  <2>1. ByItself(r) => Carried(r) = Effective(r)
    BY DEF ByItself, Carried, Effective
  <2> QED BY <2>1 DEF ByItself, NeedsReview, Exceeds
<1>2. PICK o \in Request : ByPrompt(r, o)
  BY <1>1 DEF TrustInv, Justified
<1>3. SawReasonsOf(r)
  BY <1>2, SameKey, AuthorizerAssumption DEF ByPrompt, SawReasonsOf
<1>4. ~At(r, "new") /\ requests[r].opener = o
  BY <1>2 DEF Allowed, At, ByPrompt
<1> QED BY <1>2, <1>3, <1>4, CommitmentCovered

(* The commitment that an allowed request carries, its own or that of whoever   *)
(* opened the prompt it shares, never takes it above its ceiling unless the     *)
(* prompt has shown as high a classification, whatever payloads and levels the  *)
(* requests asked with (trust-authorizer.ts, authorize and createCommitment).   *)
THEOREM CommitmentSeen == Spec => []CommitmentIsReviewed
BY CommitmentKept, TrustInit, TrustStep, PromptsStep, PTL DEF Spec

================================================================================
