---------------------------- MODULE ModelGateway ----------------------------
(* ModelGateway.complete of packages/kernel/src/model-gateway.ts, for the      *)
(* calls that name one operation key of one execution: the first attempt and   *)
(* its retries, in this process and after restarts.                            *)
(*                                                                             *)
(* Every await of complete() is a step boundary, so the execution may be       *)
(* raised or closed, the provider replaced, the caller's signal aborted and    *)
(* another call advance between any two steps.  The classification is          *)
(* represented by its revision, which moves exactly when it does               *)
(* (RevisionTracksClassification of ExecutionSecurity).  A provider awaits its *)
(* permit before it sends.  What scanners and the authorizer decide is left    *)
(* open; TrustAuthorizer models it.                                            *)
EXTENDS Integers, FiniteSets

CONSTANTS Call,          \* attempts
          Request,       \* canonical request digests
          Registration,  \* registrations of the one provider the key targets
          Egress,        \* the egress declaration of each registration
          MaxRevision,   \* bound: how often the classification rises, plus one
          Overlapping,   \* may a call start while another is running?
          NoCall, NoRegistration, NoRequest, NoRecord

VARIABLES record,        \* the journal entry of the operation key, in the store
          execution,     \* the execution's context, in the store
          current,       \* the provider's entry in #providers
          revoked,       \* #revokedRegistrationIds of this process
          issued,        \* registrations made so far, by any process
          lock,          \* the call whose commitIfCurrent operation is running
          calls,         \* the local variables of each call
          sent,          \* history: the calls whose request left for the provider
          delivered      \* history: the requests a caller got an answer to

vars == <<record, execution, current, revoked, issued, lock, calls, sent, delivered>>

Phase == {"prepared", "dispatched", "output-pending", "released", "denied", "failed"}

Record == [phase : Phase, request : Request, registration : Registration,
           revision : 0..MaxRevision]

PC == {"new", "load", "decide", "prepare", "save", "input", "provider",
       "reauthorize", "commit", "dispatch", "sending", "answering", "output",
       "authorize", "observe", "release", "releasing", "withdraw", "deliver", "done"}

Local == [pc : PC, request : Request \cup {NoRequest},
          registration : Registration \cup {NoRegistration},
          seen : 0..MaxRevision,        \* the last security summary
          authorized : 0..MaxRevision,  \* the summary the last approval covered
          loaded : Record \cup {NoRecord},
          aborted : BOOLEAN]

ASSUME GatewayAssumption ==
  /\ MaxRevision \in Nat \ {0}
  /\ Overlapping \in BOOLEAN
  /\ NoCall \notin Call
  /\ NoRegistration \notin Registration
  /\ NoRequest \notin Request
  /\ NoRecord \notin Record

Idle(pc) == [pc |-> pc, request |-> NoRequest, registration |-> NoRegistration,
             seen |-> 0, authorized |-> 0, loaded |-> NoRecord, aborted |-> FALSE]

Init ==
  /\ record = NoRecord
  /\ execution = [open |-> TRUE, revision |-> 1]
  /\ current = NoRegistration
  /\ revoked = {}
  /\ issued = {}
  /\ lock = NoCall
  /\ calls = [c \in Call |-> Idle("new")]
  /\ sent = {}
  /\ delivered = {}

Active(c) == calls[c].pc \notin {"new", "done"}

At(c, pc) == calls[c].pc = pc

End(c) == calls' = [calls EXCEPT ![c] = Idle("done")]

RecordOf(c, phase, revision) ==
  [phase |-> phase, request |-> calls[c].request,
   registration |-> calls[c].registration, revision |-> revision]

(* #releaseBlockReason, and the same test after the provider has answered. *)
Blocked(c) == calls[c].aborted \/ current # calls[c].registration

(******************************** Admission *********************************)

Start(c, q) ==
  /\ At(c, "new")
  /\ Overlapping \/ \A other \in Call : ~Active(other)
  /\ execution.open
  /\ calls' = [calls EXCEPT ![c].pc = "load", ![c].request = q,
                            ![c].seen = execution.revision]
  /\ UNCHANGED <<record, execution, current, revoked, issued, lock, sent, delivered>>

Load(c) ==
  /\ At(c, "load")
  /\ calls' = [calls EXCEPT ![c].pc = "decide", ![c].loaded = record]
  /\ UNCHANGED <<record, execution, current, revoked, issued, lock, sent, delivered>>

(* The operation key was used for another request. *)
Conflicts(c) ==
  /\ calls[c].loaded # NoRecord
  /\ calls[c].loaded.request # calls[c].request

(* Answered by an error: denied, failed, or indeterminate. *)
Settled(c) ==
  /\ calls[c].loaded # NoRecord
  /\ calls[c].loaded.phase \in {"denied", "failed", "dispatched", "output-pending"}

PreparedElsewhere(c) ==
  /\ calls[c].loaded # NoRecord
  /\ calls[c].loaded.phase = "prepared"
  /\ calls[c].loaded.registration # current

(* A prepared call follows its provider to a registration of the same egress,  *)
(* unless this process saw the old one revoked.                                *)
Replaceable(c) ==
  /\ current # NoRegistration
  /\ calls[c].loaded.registration \notin revoked
  /\ Egress[calls[c].loaded.registration] = Egress[current]

Refuse(c) ==
  /\ At(c, "decide")
  /\ \/ Conflicts(c)
     \/ Settled(c)
     \/ /\ calls[c].loaded # NoRecord => calls[c].loaded.phase = "prepared"
        /\ \/ current = NoRegistration
           \/ PreparedElsewhere(c) /\ ~Replaceable(c)
  /\ End(c)
  /\ UNCHANGED <<record, execution, current, revoked, issued, lock, sent, delivered>>

Replay(c) ==
  /\ At(c, "decide")
  /\ ~Conflicts(c)
  /\ calls[c].loaded # NoRecord
  /\ calls[c].loaded.phase = "released"
  /\ delivered' = delivered \cup {calls[c].request}
  /\ End(c)
  /\ UNCHANGED <<record, execution, current, revoked, issued, lock, sent>>

(* A new or a prepared operation takes the current registration; a prepared    *)
(* record of another registration is stamped with it first.                    *)
Enter(c) ==
  /\ At(c, "decide")
  /\ ~Conflicts(c) /\ ~Settled(c)
  /\ calls[c].loaded # NoRecord => calls[c].loaded.phase = "prepared"
  /\ current # NoRegistration
  /\ PreparedElsewhere(c) => Replaceable(c)
  /\ record' = IF PreparedElsewhere(c)
               THEN [calls[c].loaded EXCEPT !.registration = current]
               ELSE record
  /\ calls' = [calls EXCEPT ![c].pc = "prepare", ![c].registration = current]
  /\ UNCHANGED <<execution, current, revoked, issued, lock, sent, delivered>>

(***************************** Journal.prepare ******************************)

PrepareLoad(c) ==
  /\ At(c, "prepare")
  /\ calls' = [calls EXCEPT ![c].pc = "save", ![c].loaded = record]
  /\ UNCHANGED <<record, execution, current, revoked, issued, lock, sent, delivered>>

(* An existing record is taken as it is, provided that it is still prepared. *)
PrepareSave(c) ==
  /\ At(c, "save")
  /\ IF calls[c].loaded # NoRecord /\ calls[c].loaded.phase # "prepared"
     THEN End(c)
     ELSE calls' = [calls EXCEPT ![c].pc = "input", ![c].loaded = NoRecord]
  /\ record' = IF calls[c].loaded = NoRecord
               THEN RecordOf(c, "prepared", 0) ELSE record
  /\ UNCHANGED <<execution, current, revoked, issued, lock, sent, delivered>>

(******************************* Input review *******************************)

(* Scanning and authorizing the input, against the summary read on admission. *)
AllowInput(c) ==
  /\ At(c, "input")
  /\ calls' = [calls EXCEPT ![c].pc = "provider", ![c].authorized = calls[c].seen]
  /\ UNCHANGED <<record, execution, current, revoked, issued, lock, sent, delivered>>

DenyInput(c) ==
  /\ At(c, "input") \/ At(c, "reauthorize")
  /\ record' = RecordOf(c, "denied", 0)
  /\ End(c)
  /\ UNCHANGED <<execution, current, revoked, issued, lock, sent, delivered>>

(****************************** permit.commit *******************************)

(* Operators named Broken... are plausible defects of the definition below      *)
(* them; no action uses one.  They show that the properties can fail.           *)
BrokenRecheck(c) ==
  /\ At(c, "provider")
  /\ IF execution.open
     THEN calls' = [calls EXCEPT ![c].pc = "commit"]
     ELSE End(c)
  /\ UNCHANGED <<record, execution, current, revoked, issued, lock, sent, delivered>>

(* The provider asks for its permit: the summary is read again, here and every *)
(* time the commitment fails, and a new revision needs a new authorization.    *)
Recheck(c) ==
  /\ At(c, "provider")
  /\ IF execution.open
     THEN calls' = [calls EXCEPT
            ![c].pc = IF execution.revision = calls[c].authorized
                      THEN "commit" ELSE "reauthorize",
            ![c].seen = execution.revision]
     ELSE End(c)
  /\ UNCHANGED <<record, execution, current, revoked, issued, lock, sent, delivered>>

AllowInputAgain(c) ==
  /\ At(c, "reauthorize")
  /\ calls' = [calls EXCEPT ![c].pc = "commit", ![c].authorized = calls[c].seen]
  /\ UNCHANGED <<record, execution, current, revoked, issued, lock, sent, delivered>>

BrokenCommit(c) ==
  /\ At(c, "commit") /\ lock = NoCall
  /\ IF execution.open /\ current = calls[c].registration
     THEN /\ lock' = c
          /\ calls' = [calls EXCEPT ![c].pc = "dispatch", ![c].loaded = record]
     ELSE lock' = lock /\ End(c)
  /\ UNCHANGED <<record, execution, current, revoked, issued, sent, delivered>>

(* commitIfCurrent runs its operation inside #mutate: from here until Dispatch *)
(* no other operation changes the execution.                                   *)
Commit(c) ==
  /\ At(c, "commit") /\ lock = NoCall
  /\ IF ~execution.open
     THEN lock' = lock /\ End(c)
     ELSE IF execution.revision # calls[c].seen
     THEN lock' = lock /\ calls' = [calls EXCEPT ![c].pc = "provider"]
     ELSE IF current # calls[c].registration
     THEN lock' = lock /\ End(c)
     ELSE /\ lock' = c
          /\ calls' = [calls EXCEPT ![c].pc = "dispatch", ![c].loaded = record]
  /\ UNCHANGED <<record, execution, current, revoked, issued, sent, delivered>>

StillPrepared(c) ==
  /\ calls[c].loaded # NoRecord
  /\ calls[c].loaded.phase = "prepared"
  /\ calls[c].loaded.registration = calls[c].registration

BrokenDispatch(c) ==
  /\ At(c, "dispatch")
  /\ lock' = NoCall
  /\ record' = record
  /\ calls' = [calls EXCEPT ![c].pc = "sending", ![c].loaded = NoRecord]
  /\ UNCHANGED <<execution, current, revoked, issued, sent, delivered>>

Dispatch(c) ==
  /\ At(c, "dispatch")
  /\ lock' = NoCall
  /\ IF StillPrepared(c)
     THEN /\ record' = RecordOf(c, "dispatched", execution.revision)
          /\ calls' = [calls EXCEPT ![c].pc = "sending", ![c].loaded = NoRecord]
     ELSE record' = record /\ End(c)
  /\ UNCHANGED <<execution, current, revoked, issued, sent, delivered>>

(******************************* The provider *******************************)

Send(c) ==
  /\ At(c, "sending")
  /\ sent' = sent \cup {c}
  /\ calls' = [calls EXCEPT ![c].pc = "answering"]
  /\ UNCHANGED <<record, execution, current, revoked, issued, lock, delivered>>

(* The provider rejects, or its answer is too large or not what it streamed. *)
FailProvider(c) ==
  /\ At(c, "sending") \/ At(c, "answering")
  /\ record' = RecordOf(c, "failed", 0)
  /\ End(c)
  /\ UNCHANGED <<execution, current, revoked, issued, lock, sent, delivered>>

Answer(c) ==
  /\ At(c, "answering")
  /\ IF Blocked(c)
     THEN record' = RecordOf(c, "failed", 0) /\ End(c)
     ELSE /\ record' = RecordOf(c, "output-pending", calls[c].authorized)
          /\ calls' = [calls EXCEPT ![c].pc = "output"]
  /\ UNCHANGED <<execution, current, revoked, issued, lock, sent, delivered>>

(****************************** Output review *******************************)

(* The summary is read after the scan, and again when a commitment fails. *)
ReviewOutput(c) ==
  /\ At(c, "output")
  /\ IF execution.open
     THEN calls' = [calls EXCEPT ![c].pc = "authorize", ![c].seen = execution.revision]
     ELSE End(c)
  /\ UNCHANGED <<record, execution, current, revoked, issued, lock, sent, delivered>>

AllowOutput(c) ==
  /\ At(c, "authorize")
  /\ calls' = [calls EXCEPT ![c].pc = "observe", ![c].authorized = calls[c].seen]
  /\ UNCHANGED <<record, execution, current, revoked, issued, lock, sent, delivered>>

BrokenDenyOutput(c) ==
  /\ At(c, "authorize")
  /\ record' = RecordOf(c, "prepared", 0)
  /\ End(c)
  /\ UNCHANGED <<execution, current, revoked, issued, lock, sent, delivered>>

DenyOutput(c) ==
  /\ At(c, "authorize")
  /\ record' = RecordOf(c, "denied", 0)
  /\ End(c)
  /\ UNCHANGED <<execution, current, revoked, issued, lock, sent, delivered>>

(* Observing the level the output was approved at changes no level; it tells   *)
(* whether the level has risen since.                                          *)
Observe(c) ==
  /\ At(c, "observe") /\ lock = NoCall
  /\ IF ~execution.open
     THEN End(c)
     ELSE calls' = [calls EXCEPT
            ![c].pc = IF execution.revision = calls[c].authorized
                      THEN "release" ELSE "authorize",
            ![c].seen = execution.revision]
  /\ UNCHANGED <<record, execution, current, revoked, issued, lock, sent, delivered>>

Release(c) ==
  /\ At(c, "release") /\ lock = NoCall
  /\ IF ~execution.open
     THEN record' = record /\ lock' = lock /\ End(c)
     ELSE IF execution.revision # calls[c].seen \/ Blocked(c)
     THEN /\ record' = record /\ lock' = lock
          /\ calls' = [calls EXCEPT
               ![c].pc = IF execution.revision # calls[c].seen
                         THEN "output" ELSE "withdraw"]
     ELSE /\ record' = RecordOf(c, "released", execution.revision)
          /\ lock' = c
          /\ calls' = [calls EXCEPT ![c].pc = "releasing"]
  /\ UNCHANGED <<execution, current, revoked, issued, sent, delivered>>

Released(c) ==
  /\ At(c, "releasing")
  /\ lock' = NoCall
  /\ calls' = [calls EXCEPT ![c].pc = IF Blocked(c) THEN "withdraw" ELSE "deliver"]
  /\ UNCHANGED <<record, execution, current, revoked, issued, sent, delivered>>

(* #failReleasedOutput *)
Withdraw(c) ==
  /\ At(c, "withdraw") \/ (At(c, "deliver") /\ Blocked(c))
  /\ record' = RecordOf(c, "failed", 0)
  /\ End(c)
  /\ UNCHANGED <<execution, current, revoked, issued, lock, sent, delivered>>

Deliver(c) ==
  /\ At(c, "deliver") /\ ~Blocked(c)
  /\ delivered' = delivered \cup {calls[c].request}
  /\ End(c)
  /\ UNCHANGED <<record, execution, current, revoked, issued, lock, sent>>

(******************************* Surroundings *******************************)

(* The caller's signal is aborted, or the provider's plugin is stopped.  What   *)
(* runs goes on until the code looks at the signal.                             *)
Abort(c) ==
  /\ Active(c)
  /\ ~calls[c].aborted
  /\ calls' = [calls EXCEPT ![c].aborted = TRUE]
  /\ UNCHANGED <<record, execution, current, revoked, issued, lock, sent, delivered>>

(* Whatever a call awaits may reject: the store, a scanner, the authorizer. *)
Abandon(c) ==
  /\ Active(c)
  /\ End(c)
  /\ lock' = IF lock = c THEN NoCall ELSE lock
  /\ UNCHANGED <<record, execution, current, revoked, issued, sent, delivered>>

(* Operations of the execution itself queue behind commitIfCurrent. *)
Raise ==
  /\ lock = NoCall
  /\ execution.open /\ execution.revision < MaxRevision
  /\ execution' = [execution EXCEPT !.revision = execution.revision + 1]
  /\ UNCHANGED <<record, current, revoked, issued, lock, calls, sent, delivered>>

CloseExecution ==
  /\ lock = NoCall
  /\ execution.open
  /\ execution' = [execution EXCEPT !.open = FALSE]
  /\ UNCHANGED <<record, current, revoked, issued, lock, calls, sent, delivered>>

registerProvider(r) ==
  /\ current = NoRegistration
  /\ r \notin issued
  /\ current' = r
  /\ issued' = issued \cup {r}
  /\ UNCHANGED <<record, execution, revoked, lock, calls, sent, delivered>>

(* Disposing the registration, or removePlugin. *)
removeProvider ==
  /\ current # NoRegistration
  /\ current' = NoRegistration
  /\ revoked' = revoked \cup {current}
  /\ UNCHANGED <<record, execution, issued, lock, calls, sent, delivered>>

(* The process ends anywhere and starts again: the store is what is left. *)
Restart ==
  /\ current' = NoRegistration
  /\ revoked' = {}
  /\ lock' = NoCall
  /\ calls' = [c \in Call |-> IF Active(c) THEN Idle("done") ELSE calls[c]]
  /\ UNCHANGED <<record, execution, issued, sent, delivered>>

Step(c) ==
  \/ Load(c) \/ Refuse(c) \/ Replay(c) \/ Enter(c)
  \/ PrepareLoad(c) \/ PrepareSave(c)
  \/ AllowInput(c) \/ DenyInput(c)
  \/ Recheck(c) \/ AllowInputAgain(c) \/ Commit(c) \/ Dispatch(c)
  \/ Send(c) \/ FailProvider(c) \/ Answer(c)
  \/ ReviewOutput(c) \/ AllowOutput(c) \/ DenyOutput(c)
  \/ Observe(c) \/ Release(c) \/ Released(c) \/ Withdraw(c) \/ Deliver(c)

Surroundings ==
  \/ \E c \in Call : Abort(c) \/ Abandon(c)
  \/ Raise \/ CloseExecution
  \/ \E r \in Registration : registerProvider(r)
  \/ removeProvider \/ Restart

Next ==
  \/ \E c \in Call, q \in Request : Start(c, q)
  \/ \E c \in Call : Step(c)
  \/ Surroundings

Spec == Init /\ [][Next]_vars

(* The awaited parties answer: interactions time out, and a provider ends its   *)
(* request when its signal is aborted or its connection fails.                  *)
FairSpec == Spec /\ \A c \in Call : WF_vars(Step(c))

(******************************** Properties ********************************)

(* Everything keeps its type; the lock belongs to a call inside its            *)
(* commitIfCurrent operation.                                                  *)
TypeOK ==
  /\ record \in Record \cup {NoRecord}
  /\ execution \in [open : BOOLEAN, revision : 1..MaxRevision]
  /\ issued \subseteq Registration
  /\ current \in issued \cup {NoRegistration}
  /\ revoked \subseteq issued
  /\ calls \in [Call -> Local]
  /\ \A c \in Call : At(c, "dispatch") \/ At(c, "releasing") <=> lock = c
  /\ sent \subseteq Call
  /\ delivered \subseteq Request

(* The request of one operation key leaves for a provider at most once, over    *)
(* all retries and restarts, as long as the caller retries one at a time.       *)
AtMostOneSend == Cardinality(sent) <= 1

(* Every answer a caller got, released or replayed, is in the journal as the    *)
(* released answer to that very request: no delivered answer is later denied,   *)
(* failed or forgotten, and none answers another request.                       *)
DeliveredIsReleased ==
  \A q \in delivered : record # NoRecord /\ record.phase = "released" /\ record.request = q

(* A request is committed only while the execution is open and exactly at the   *)
(* revision its last authorization covered: a rise between the approval and the *)
(* permit cannot slip through, whoever else runs.                               *)
DispatchIsAuthorized ==
  [][\A c \in Call : At(c, "dispatch") /\ calls'[c].pc = "sending" =>
       /\ execution.open
       /\ calls[c].authorized = execution.revision
       /\ record'.revision = execution.revision]_vars

(* An answer is released only at the revision its review covered, in an open    *)
(* execution, by a call that is not aborted and whose provider is still there.  *)
ReleaseIsAuthorized ==
  [][\A c \in Call : At(c, "release") /\ calls'[c].pc = "releasing" =>
       /\ execution.open
       /\ calls[c].authorized = execution.revision
       /\ ~Blocked(c)]_vars

(* Both ways out of the gateway, a request to its provider (complete, 713-831)  *)
(* and an answer to its caller (1016-1180): however calls of a key and rises of *)
(* the classification interleave, neither passes on an authorization that was   *)
(* given for another revision or a closed execution.                            *)
PassesAsAuthorized == DispatchIsAuthorized /\ ReleaseIsAuthorized

(* An answer reaches its caller directly only when nothing blocks it any more   *)
(* at that moment and the journal already holds it.                             *)
DeliveryIsDurable ==
  [][\A c \in Call : At(c, "deliver") /\ delivered' # delivered =>
       /\ current = calls[c].registration
       /\ record.phase = "released"]_vars

(* A call that started comes to an end: neither retry loop, of the permit or of *)
(* the release, turns forever.                                                  *)
EveryCallSettles == \A c \in Call : Active(c) ~> At(c, "done")

(* Seen from outside, one attempt after another is one durable operation.       *)
Operation == INSTANCE ModelOperation WITH
  phase <- IF record = NoRecord THEN "none" ELSE record.phase,
  sends <- Cardinality(sent),
  delivered <- delivered # {}

ImplementsOperation == Operation!Spec

=============================================================================
