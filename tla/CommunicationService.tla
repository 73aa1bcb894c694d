------------------------ MODULE CommunicationService ------------------------
(* CommunicationService, packages/kernel/src/communication-service.ts: the      *)
(* outgoing messages of one adapter with their durable record per idempotency   *)
(* key, and the incoming ones with their deduplication and its pruning.         *)
(*                                                                              *)
(* Sends of one key, and deliveries of one message, take turns (#withLock).     *)
(* The store applies a transaction when it is called; whoever awaits it goes on *)
(* in a later step.  A restart loses everything but the store and the           *)
(* classification of the run.                                                   *)
(*                                                                              *)
(* Operators named Broken... are plausible defects of the definition below      *)
(* them; no action uses one.                                                    *)
EXTENDS Naturals, FiniteSets, Sequences

CONSTANTS Key,              \* idempotency keys
          Message,          \* provider message ids, which are numbered
          Stamp,            \* receivedAt of each message
          Send, Delivery,   \* bound: numbered calls of send and ingest, used in order
          DedupCapacity,
          MaxRegistrations, MaxRevision, MaxRestarts,  \* bounds
          CallMixes         \* bound: which calls one behaviour may use

VARIABLES adapter,       \* the live registration of the adapter, or 0
          registrations, \* how many there have been
          serving,       \* ~#shutdown.signal.aborted
          outbound,      \* stored: the record of each key
          inbound,       \* stored: the seq of each message's record, or 0
          sequence,      \* #sequence
          inboundCount,  \* #inboundCount, or Unknown
          revision,      \* version of the run's classification
          sends, deliveries,
          locks,         \* #locks: who holds it and who waits, in order
          published,     \* history: calls of adapter.send for each key
          emitted,       \* history: emits of each message
          pruned,        \* history: records of each message that were pruned
          restarts

stores == <<outbound, inbound>>
inboundState == <<inbound, sequence, inboundCount, deliveries, emitted, pruned>>
outboundState == <<outbound, revision, sends, published>>
lifecycle == <<adapter, registrations, serving, restarts>>
commVars == <<lifecycle, inboundState, outboundState, locks>>

Unknown == 1000

ASSUME CommAssumption ==
  /\ Message \subseteq Nat \ {0}
  /\ Stamp \in [Message -> Nat]
  /\ DedupCapacity \in Nat \ {0}
  /\ MaxRegistrations \in Nat /\ MaxRevision \in Nat /\ MaxRestarts \in Nat
  /\ Cardinality(Delivery) < Unknown
  /\ Send \subseteq Nat /\ Delivery \subseteq Nat /\ Send \cap Delivery = {}
  /\ Key \cap Message = {}

CommTypeOK ==
  /\ registrations \in 0 .. MaxRegistrations /\ adapter \in 0 .. registrations
  /\ serving \in BOOLEAN
  /\ outbound \in [Key -> {"none", "pending", "sent", "unknown"}]
  /\ inbound \in [Message -> Nat] /\ sequence \in Nat /\ inboundCount \in Nat
  /\ revision \in 0 .. MaxRevision
  /\ \A s \in Send :
       /\ sends[s].pc \in {"new", "queued", "scanning", "authorizing", "recorded",
                           "publishing", "done"}
       /\ sends[s].key \in Key
       /\ sends[s].by \in 0 .. MaxRegistrations /\ sends[s].approved \in 0 .. MaxRevision
  /\ \A d \in Delivery :
       /\ deliveries[d].pc \in {"new", "queued", "reviewing", "recorded", "counting",
                                "listing", "pruning", "emitting", "done"}
       /\ deliveries[d].message \in Message /\ deliveries[d].allowed \in BOOLEAN
       /\ deliveries[d].seq \in Nat /\ deliveries[d].entries \in [Message -> Nat]
  /\ locks \in [Key \cup Message -> Seq(Send \cup Delivery)]
  /\ published \in [Key -> Nat] /\ emitted \in [Message -> Nat] /\ pruned \in [Message -> Nat]
  /\ restarts \in 0 .. MaxRestarts

NewSend == [pc |-> "new", key |-> CHOOSE k \in Key : TRUE, by |-> 0, approved |-> 0]

NewDelivery == [pc |-> "new", message |-> CHOOSE m \in Message : TRUE, allowed |-> FALSE,
                seq |-> 0, entries |-> [m \in Message |-> 0]]

CommInit ==
  /\ adapter = 0 /\ registrations = 0 /\ serving = TRUE
  /\ outbound = [k \in Key |-> "none"]
  /\ inbound = [m \in Message |-> 0] /\ sequence = 0 /\ inboundCount = Unknown
  /\ revision = 0
  /\ \E mix \in CallMixes :
       /\ sends = [s \in Send |-> IF s \in mix THEN NewSend
                                  ELSE [NewSend EXCEPT !.pc = "done"]]
       /\ deliveries = [d \in Delivery |-> IF d \in mix THEN NewDelivery
                                           ELSE [NewDelivery EXCEPT !.pc = "done"]]
  /\ locks = [k \in Key \cup Message |-> <<>>]
  /\ published = [k \in Key |-> 0]
  /\ emitted = [m \in Message |-> 0] /\ pruned = [m \in Message |-> 0]
  /\ restarts = 0

(********************************** Adapters **********************************)

Register ==
  /\ serving /\ adapter = 0 /\ registrations < MaxRegistrations
  /\ registrations' = registrations + 1
  /\ adapter' = registrations'
  /\ UNCHANGED <<serving, restarts, inboundState, outboundState, locks>>

(* dispose, removePlugin; shutdown also refuses whatever comes later. *)
TearDown ==
  /\ adapter' = 0
  /\ \/ adapter # 0 /\ UNCHANGED serving
     \/ serving /\ serving' = FALSE
  /\ UNCHANGED <<registrations, restarts, inboundState, outboundState, locks>>

(* Another part of the kernel raises the classification of the run. *)
RaiseRun ==
  /\ revision < MaxRevision
  /\ revision' = revision + 1
  /\ UNCHANGED <<lifecycle, inboundState, outbound, sends, published, locks>>

BrokenHolds(call, key) == TRUE

Holds(call, key) == locks[key] # <<>> /\ Head(locks[key]) = call

Enqueue(call, key) == locks' = [locks EXCEPT ![key] = Append(@, call)]

Release(key) == locks' = [locks EXCEPT ![key] = Tail(@)]

(******************************** send ****************************************)

SendAt(s, pc) == sends[s].pc = pc

SendGoes(s, pc) == sends' = [sends EXCEPT ![s].pc = pc]

SendEnds(s) ==
  /\ sends' = [sends EXCEPT ![s] = [NewSend EXCEPT !.pc = "done"]]
  /\ Release(sends[s].key)

(* send: the adapter is looked up before the turn is taken. *)
Request(s, k) ==
  /\ SendAt(s, "new") /\ \A r \in Send : r < s => ~SendAt(r, "new")
  /\ adapter # 0 /\ serving
  /\ sends' = [sends EXCEPT ![s] = [NewSend EXCEPT !.pc = "queued", !.key = k,
                                                   !.by = adapter]]
  /\ Enqueue(s, k)
  /\ UNCHANGED <<lifecycle, inboundState, outbound, revision, published>>

(* The record: whatever it says, sent, unknown or still pending, ends the call, *)
(* and so does a store that cannot be read.                                     *)
LoadOutbound(s) ==
  /\ SendAt(s, "queued") /\ Holds(s, sends[s].key)
  /\ \/ outbound[sends[s].key] = "none" /\ SendGoes(s, "scanning") /\ UNCHANGED locks
     \/ SendEnds(s)
  /\ UNCHANGED <<lifecycle, inboundState, outbound, revision, published>>

(* A finding raises the run; then the snapshot for the authorization is taken.  *)
ScanEnds(s) ==
  /\ SendAt(s, "scanning")
  /\ \/ \E level \in {revision, revision + 1} \cap (0 .. MaxRevision) :
          /\ revision' = level
          /\ sends' = [sends EXCEPT ![s].pc = "authorizing", ![s].approved = level]
          /\ UNCHANGED locks
     \/ SendEnds(s) /\ UNCHANGED revision
  /\ UNCHANGED <<lifecycle, inboundState, outbound, published>>

(* Allowed, and the pending record is written; or denied, or not written. *)
Authorized(s) ==
  /\ SendAt(s, "authorizing")
  /\ \/ /\ outbound' = [outbound EXCEPT ![sends[s].key] = "pending"]
        /\ SendGoes(s, "recorded")
        /\ UNCHANGED locks
     \/ SendEnds(s) /\ UNCHANGED outbound
  /\ UNCHANGED <<lifecycle, inboundState, revision, published>>

(* The classification moved, or the adapter is not the one that was asked for.  *)
Stale(s) == sends[s].approved # revision \/ sends[s].by # adapter

(* #forget, which may fail; also when the caller has aborted. *)
Withdraw(s) ==
  /\ SendAt(s, "recorded")
  /\ \/ outbound' = [outbound EXCEPT ![sends[s].key] = "none"]
     \/ UNCHANGED outbound
  /\ SendEnds(s)
  /\ UNCHANGED <<lifecycle, inboundState, revision, published>>

(* Without another await: the message is handed to the adapter. *)
Publish(s) ==
  /\ SendAt(s, "recorded") /\ ~Stale(s)
  /\ published' = [published EXCEPT ![sends[s].key] = @ + 1]
  /\ SendGoes(s, "publishing")
  /\ UNCHANGED <<lifecycle, inboundState, outbound, revision, locks>>

BrokenPublished(s) ==
  /\ SendAt(s, "publishing")
  /\ \/ outbound' = [outbound EXCEPT ![sends[s].key] = "sent"]
     \/ outbound' = [outbound EXCEPT ![sends[s].key] = "none"]
     \/ UNCHANGED outbound
  /\ SendEnds(s)
  /\ UNCHANGED <<lifecycle, inboundState, revision, published>>

(* A receipt, or an error that leaves the outcome open; neither may be written. *)
Published(s) ==
  /\ SendAt(s, "publishing")
  /\ \/ \E status \in {"sent", "unknown"} :
          outbound' = [outbound EXCEPT ![sends[s].key] = status]
     \/ UNCHANGED outbound
  /\ SendEnds(s)
  /\ UNCHANGED <<lifecycle, inboundState, revision, published>>

(********************************** ingest ************************************)

DeliveryAt(d, pc) == deliveries[d].pc = pc

DeliveryGoes(d, pc) == deliveries' = [deliveries EXCEPT ![d].pc = pc]

DeliveryEnds(d) ==
  /\ deliveries' = [deliveries EXCEPT ![d] = [NewDelivery EXCEPT !.pc = "done"]]
  /\ Release(deliveries[d].message)

Recorded(records) == {m \in Message : records[m] # 0}

Ingest(d, m) ==
  /\ DeliveryAt(d, "new") /\ \A e \in Delivery : e < d => ~DeliveryAt(e, "new")
  /\ adapter # 0 /\ serving
  /\ deliveries' = [deliveries EXCEPT ![d] = [NewDelivery EXCEPT !.pc = "queued",
                                                                 !.message = m]]
  /\ Enqueue(d, m)
  /\ UNCHANGED <<lifecycle, outboundState, inbound, sequence, inboundCount, emitted, pruned>>

(* A recorded message is a duplicate; the store may not be readable.  What is   *)
(* scanned gets its number before it is reviewed.                               *)
LoadInbound(d) ==
  /\ DeliveryAt(d, "queued") /\ Holds(d, deliveries[d].message)
  /\ \/ /\ deliveries[d].message \notin Recorded(inbound)
        /\ sequence' = sequence + 1
        /\ deliveries' = [deliveries EXCEPT ![d].pc = "reviewing", ![d].seq = sequence']
        /\ UNCHANGED locks
     \/ DeliveryEnds(d) /\ UNCHANGED sequence
  /\ UNCHANGED <<lifecycle, outboundState, inbound, inboundCount, emitted, pruned>>

(* The review.  Either verdict is recorded with the number; the review may      *)
(* throw and the record may not be written.                                     *)
Reviewed(d) ==
  /\ DeliveryAt(d, "reviewing")
  /\ \/ \E verdict \in BOOLEAN :
          /\ inbound' = [inbound EXCEPT ![deliveries[d].message] = deliveries[d].seq]
          /\ deliveries' = [deliveries EXCEPT ![d].pc = "recorded", ![d].allowed = verdict,
                                                ![d].seq = 0]
          /\ UNCHANGED locks
     \/ DeliveryEnds(d) /\ UNCHANGED inbound
  /\ UNCHANGED <<lifecycle, outboundState, sequence, inboundCount, emitted, pruned>>

(* #pruneInbound is over, whatever happened in it: an allowed message is        *)
(* emitted, and subscribers are awaited.                                        *)
Emit(d) ==
  IF deliveries[d].allowed
  THEN /\ emitted' = [emitted EXCEPT ![deliveries[d].message] = @ + 1]
       /\ deliveries' = [deliveries EXCEPT ![d].pc = "emitting",
                                             ![d].entries = NewDelivery.entries]
       /\ UNCHANGED locks
  ELSE DeliveryEnds(d) /\ UNCHANGED emitted

(* The list of records is read. *)
List(d, pc) ==
  /\ deliveries' = [deliveries EXCEPT ![d].pc = pc, ![d].entries = inbound]
  /\ UNCHANGED <<emitted, locks>>

AfterCount(d, count) ==
  /\ inboundCount' = count
  /\ IF count <= DedupCapacity THEN Emit(d) ELSE List(d, "listing")

(* The count is known and one more now, or it is taken from a list. *)
PruneBegins(d) ==
  /\ DeliveryAt(d, "recorded")
  /\ IF inboundCount = Unknown
     THEN List(d, "counting") /\ UNCHANGED inboundCount
     ELSE AfterCount(d, inboundCount + 1)
  /\ UNCHANGED <<lifecycle, outboundState, inbound, sequence, pruned>>

Counted(d) ==
  /\ DeliveryAt(d, "counting")
  /\ AfterCount(d, Cardinality(Recorded(deliveries[d].entries)))
  /\ UNCHANGED <<lifecycle, outboundState, inbound, sequence, pruned>>

(* The order of pruning: receivedAt, then seq, then the key. *)
Older(m, n, entries) ==
  \/ Stamp[m] < Stamp[n]
  \/ Stamp[m] = Stamp[n] /\ entries[m] < entries[n]
  \/ Stamp[m] = Stamp[n] /\ entries[m] = entries[n] /\ m < n

Overflow(entries) ==
  {m \in Recorded(entries) :
     Cardinality({n \in Recorded(entries) : Older(m, n, entries)}) >= DedupCapacity}

(* What is too much in the list goes, even if it has gone already. *)
Listed(d) ==
  LET entries == deliveries[d].entries
      gone == Overflow(entries)
  IN  /\ DeliveryAt(d, "listing")
      /\ IF gone = {}
         THEN /\ inboundCount' = Cardinality(Recorded(entries))
              /\ Emit(d)
              /\ UNCHANGED <<inbound, pruned>>
         ELSE /\ inbound' = [m \in Message |-> IF m \in gone THEN 0 ELSE inbound[m]]
              /\ pruned' = [m \in Message |->
                   IF m \in gone \cap Recorded(inbound) THEN pruned[m] + 1 ELSE pruned[m]]
              /\ DeliveryGoes(d, "pruning")
              /\ UNCHANGED <<inboundCount, emitted, locks>>
      /\ UNCHANGED <<lifecycle, outboundState, sequence>>

Pruned(d) ==
  /\ DeliveryAt(d, "pruning")
  /\ inboundCount' = DedupCapacity
  /\ Emit(d)
  /\ UNCHANGED <<lifecycle, outboundState, inbound, sequence, pruned>>

(* The store fails while it lists or prunes: the count has to be taken again.   *)
PruneFails(d) ==
  /\ deliveries[d].pc \in {"recorded", "counting", "listing"}
  /\ inboundCount' = Unknown
  /\ Emit(d)
  /\ UNCHANGED <<lifecycle, outboundState, inbound, sequence, pruned>>

Emitted(d) ==
  /\ DeliveryAt(d, "emitting")
  /\ DeliveryEnds(d)
  /\ UNCHANGED <<lifecycle, outboundState, inbound, sequence, inboundCount, emitted, pruned>>

(******************************* Specification ********************************)

(* The process ends and starts again. *)
Restart ==
  /\ restarts < MaxRestarts
  /\ restarts' = restarts + 1
  /\ adapter' = 0 /\ serving' = TRUE
  /\ sequence' = 0 /\ inboundCount' = Unknown
  /\ sends' = [s \in Send |-> IF SendAt(s, "new") THEN sends[s]
                              ELSE [NewSend EXCEPT !.pc = "done"]]
  /\ deliveries' = [d \in Delivery |-> IF DeliveryAt(d, "new") THEN deliveries[d]
                                       ELSE [NewDelivery EXCEPT !.pc = "done"]]
  /\ locks' = [k \in Key \cup Message |-> <<>>]
  /\ UNCHANGED <<registrations, stores, revision, published, emitted, pruned>>

SendStep(s) ==
  \/ \E k \in Key : Request(s, k)
  \/ LoadOutbound(s) \/ ScanEnds(s) \/ Authorized(s)
  \/ Withdraw(s) \/ Publish(s) \/ Published(s)

DeliveryStep(d) ==
  \/ \E m \in Message : Ingest(d, m)
  \/ LoadInbound(d) \/ Reviewed(d) \/ PruneBegins(d) \/ Counted(d) \/ Listed(d)
  \/ Pruned(d) \/ PruneFails(d) \/ Emitted(d)

CommNext ==
  \/ Register \/ TearDown \/ RaiseRun \/ Restart
  \/ \E s \in Send : SendStep(s)
  \/ \E d \in Delivery : DeliveryStep(d)

CommSpec == CommInit /\ [][CommNext]_commVars

(********************************* Properties *********************************)

(* Two sends of one key, a retry after a failure or after a restart, a message  *)
(* whose outcome is unknown: the adapter gets the message of a key once, and    *)
(* from then on the key keeps a record, so that no later send gets further      *)
(* than the record (send, 588-1105).                                            *)
SentAtMostOnce ==
  \A k \in Key : published[k] <= 1 /\ (published[k] = 1 => outbound[k] # "none")

(* Deliveries of one message, at once or one after another, around restarts and *)
(* around pruning by other deliveries: it reaches the subscribers once, and     *)
(* once more for each time its record was pruned (ingest, 1108-1337).           *)
EmittedOnce == \A m \in Message : emitted[m] <= 1 + pruned[m]
=============================================================================
